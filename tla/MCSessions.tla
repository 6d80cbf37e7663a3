----------------------------- MODULE MCSessions -----------------------------
(* Two users for TLC: ann may ask for bob's address or a new one, bob for a *)
(* new one, so that an address can change hands.                           *)
EXTENDS Sessions, TLC

CONSTANTS ann, bob, e1, e2, e3

MCInitialEmail == (ann :> e1) @@ (bob :> e2)
MCAskedEmails == (ann :> {e2}) @@ (bob :> {e3})

Symmetric == Permutations(Workers)
=============================================================================
