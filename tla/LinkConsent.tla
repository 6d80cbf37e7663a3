----------------------------- MODULE LinkConsent -----------------------------
(***************************************************************************)
(* What linking promises, whatever the order in which the database sees    *)
(* the statements of concurrent requests: a request names one parent and   *)
(* one player for ever, its parties only ever add their consent, it counts *)
(* as approved only with both consents, and a link is only ever written    *)
(* between two users who both consented to the same request.  A link may   *)
(* be lost: no promise is made about that here.                            *)
(***************************************************************************)
CONSTANTS Users, RequestIds

VARIABLES
  pair,          \* [RequestIds -> <<parent, child>>, or <<>> before creation]
  consent,       \* [RequestIds -> SUBSET {"PARENT", "PLAYER"}]
  approved,      \* requests whose status says APPROVED
  children,      \* [Users -> SUBSET Users]
  parents        \* [Users -> SUBSET Users]

vars == <<pair, consent, approved, children, parents>>

Sides == {"PARENT", "PLAYER"}

(* p and c agreed to be linked. *)
Agreed(p, c) == \E i \in RequestIds : pair[i] = <<p, c>> /\ consent[i] = Sides

Init ==
  /\ pair = [i \in RequestIds |-> <<>>]
  /\ consent = [i \in RequestIds |-> {}]
  /\ approved = {}
  /\ children = [u \in Users |-> {}]
  /\ parents = [u \in Users |-> {}]

(* A request opens with the consent of at most one of its parties. *)
Open(i, p, c, sides) ==
  /\ pair[i] = <<>>
  /\ sides # Sides
  /\ pair' = [pair EXCEPT ![i] = <<p, c>>]
  /\ consent' = [consent EXCEPT ![i] = sides]
  /\ UNCHANGED <<approved, children, parents>>

Consent(i, side) ==
  /\ pair[i] # <<>>
  /\ consent' = [consent EXCEPT ![i] = @ \cup {side}]
  /\ UNCHANGED <<pair, approved, children, parents>>

SaveApproved(i) ==
  /\ consent[i] = Sides
  /\ approved' = approved \cup {i}
  /\ UNCHANGED <<pair, consent, children, parents>>

SaveNotApproved(i) ==
  /\ approved' = approved \ {i}
  /\ UNCHANGED <<pair, consent, children, parents>>

(* The links of one user are rewritten. *)
Rewrite(u, cs, ps) ==
  /\ \A c \in cs : Agreed(u, c)
  /\ \A p \in ps : Agreed(p, u)
  /\ children' = [children EXCEPT ![u] = cs]
  /\ parents' = [parents EXCEPT ![u] = ps]
  /\ UNCHANGED <<pair, consent, approved>>

Next ==
  \/ \E i \in RequestIds, p, c \in Users, sides \in SUBSET Sides : Open(i, p, c, sides)
  \/ \E i \in RequestIds, side \in Sides : Consent(i, side)
  \/ \E i \in RequestIds : SaveApproved(i) \/ SaveNotApproved(i)
  \/ \E u \in Users, cs, ps \in SUBSET Users : Rewrite(u, cs, ps)

Spec == Init /\ [][Next]_vars
=============================================================================
