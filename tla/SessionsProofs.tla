--------------------------- MODULE SessionsProofs ---------------------------
(***************************************************************************)
(* Proofs about Sessions, for any set of workers, users and addresses.     *)
(***************************************************************************)
EXTENDS Sessions, TLAPS

(* A job is of the kind its step names.                                    *)
LEMMA JobKinds ==
  ASSUME NEW j \in Job
  PROVE  /\ j.step = "savePassword" => j \in PasswordJob
         /\ j.step = "saveProfile" => j \in ProfileJob
         /\ j = Idle => j \notin ProfileJob
<1>1. CASE j = Idle BY <1>1 DEF Idle, ProfileJob
<1>2. CASE j \in PasswordJob BY <1>2 DEF PasswordJob, Idle
<1>3. CASE j \in ProfileJob BY <1>3 DEF ProfileJob, Idle
<1>4. QED BY <1>1, <1>2, <1>3 DEF Job

(* What requests have chosen and what was issued is never taken back.      *)
Grows ==
  /\ \A u \in Users : chosen[u] \subseteq chosen'[u]
  /\ outdated \subseteq outdated'

(* The memory of the workers is backed as soon as that of the acting one   *)
(* is, since what was chosen once stays chosen.                            *)
LEMMA OneWorkerActs ==
  ASSUME Inductive, Grows, NEW w \in Workers,
         \A v \in Workers \ {w} : job'[v] = job[v],
         \A j \in ProfileJob : j = job'[w] => ProfileBacked(j)'
  PROVE  \A v \in Workers : job'[v] \in ProfileJob => ProfileBacked(job[v])'
<1> SUFFICES ASSUME NEW v \in Workers, NEW j \in ProfileJob, j = job'[v]
             PROVE  ProfileBacked(j)'
  BY DEF ProfileBacked
<1>1. CASE v = w BY <1>1
<1>2. CASE v # w
  <2>1. job[v] = j BY <1>2
  <2>2. ProfileBacked(j) /\ j.user \in Users BY <2>1 DEF Inductive, ProfileJob
  <2>3. QED BY <2>2 DEF ProfileBacked, Grows
<1>3. QED BY <1>1, <1>2

LEMMA InitInductive == ASSUME Init PROVE Inductive
<1>1. TypeOK
  BY SessionsAssumption DEF Init, TypeOK, Row, Passwords, Job
<1>2. QED
  BY <1>1 DEF Init, Inductive, TemporaryOpensNothing, SessionAfterReplacement,
              OwnPassword, FlagFollows, Idle, ProfileJob

(* The steps that only read rows and issue tokens.                         *)
LEMMA IssuePreserves ==
  ASSUME Inductive, NEW w \in Workers, Login(w) \/ Refresh(w) \/ ForgotPassword(w)
  PROVE  Inductive'
<1>1. UNCHANGED <<rows, job, addresses, over, chosen, outdated>>
  BY DEF Login, Refresh, ForgotPassword
<1>2. PICK kind \in {"session", "first", "reset"}, u \in Users :
        /\ tokens' = tokens \cup {[kind |-> kind, user |-> u]}
        /\ kind = "session" => chosen[u] # {}
  <2>1. CASE Login(w)
    <3>1. PICK u \in Users :
            tokens' = tokens \cup {[kind |-> IF rows[u].first THEN "first" ELSE "session",
                                    user |-> u]}
      BY <2>1 DEF Login, Issue
    <3>2. ~rows[u].first => chosen[u] # {}
      BY DEF Inductive, FlagFollows
    <3>3. QED BY <3>1, <3>2
  <2>2. CASE Refresh(w)
    <3>1. PICK t \in tokens : /\ t.kind = "session"
                              /\ tokens' = tokens \cup {[kind |-> "session", user |-> t.user]}
      BY <2>2 DEF Refresh, Issue
    <3>2. t.user \in Users /\ chosen[t.user] # {}
      BY <3>1 DEF Inductive, TypeOK, Token, SessionAfterReplacement
    <3>3. QED BY <3>1, <3>2
  <2>3. CASE ForgotPassword(w)
    BY <2>3 DEF ForgotPassword, Issue
  <2>4. QED BY <2>1, <2>2, <2>3
<1>3. TypeOK' BY <1>1, <1>2 DEF Inductive, TypeOK, Token
<1>4. SessionAfterReplacement'
  BY <1>1, <1>2 DEF Inductive, SessionAfterReplacement
<1>5. TemporaryOpensNothing' /\ OwnPassword' /\ FlagFollows'
  BY <1>1 DEF Inductive, TemporaryOpensNothing, OwnPassword, FlagFollows
<1>6. \A v \in Workers : job'[v] \in ProfileJob => ProfileBacked(job[v])'
  BY <1>1 DEF Inductive, ProfileBacked
<1>7. QED BY <1>3, <1>4, <1>5, <1>6 DEF Inductive

(* The steps that only remember something.                                 *)
LEMMA RememberPreserves ==
  ASSUME Inductive, NEW w \in Workers, NEW j \in Job,
         job' = [job EXCEPT ![w] = j], j \in ProfileJob => ProfileBacked(j)',
         UNCHANGED <<rows, tokens, addresses, over, chosen>>,
         outdated \subseteq outdated', outdated' \subseteq Users
  PROVE  Inductive'
<1>1. TypeOK' BY DEF Inductive, TypeOK
<1>2. TemporaryOpensNothing' /\ OwnPassword' /\ SessionAfterReplacement' /\ FlagFollows'
  BY DEF Inductive, TemporaryOpensNothing, OwnPassword, SessionAfterReplacement, FlagFollows
<1>3. \A k \in ProfileJob : k = job'[w] => ProfileBacked(k)'
  BY DEF Inductive, TypeOK
<1>4. \A v \in Workers : job'[v] \in ProfileJob => ProfileBacked(job[v])'
  BY <1>3, OneWorkerActs DEF Inductive, TypeOK, Grows
<1>5. QED BY <1>1, <1>2, <1>4 DEF Inductive

LEMMA BeginPreserves ==
  ASSUME Inductive, NEW w \in Workers, ResetPassword(w) \/ ChangePassword(w) \/ ReadProfile(w) \/ EditPassword(w)
  PROVE  Inductive'
<1>1. CASE ResetPassword(w) \/ ChangePassword(w)
  <2>1. PICK u \in Users, p \in NewPasswords, b \in BOOLEAN :
          job' = [job EXCEPT ![w] = [step |-> "savePassword", user |-> u,
                                     password |-> p, opens |-> b]]
    BY <1>1 DEF ResetPassword, ChangePassword, SetPassword, Start, Inductive, TypeOK, Token
  <2>2. PICK j : j = [step |-> "savePassword", user |-> u, password |-> p, opens |-> b]
    OBVIOUS
  <2>3. j \in Job /\ j \notin ProfileJob
    BY <2>2 DEF Job, PasswordJob, ProfileJob
  <2>4. QED
    BY <1>1, <2>1, <2>2, <2>3, RememberPreserves
    DEF ResetPassword, ChangePassword, Inductive, TypeOK
<1>2. CASE ReadProfile(w) \/ EditPassword(w)
  <2>1. PICK u \in Users, p \in NewPasswords \cup {NoPassword}, e \in Emails :
          /\ e \in AskedEmails[u] \cup {rows[u].email}
          /\ job' = [job EXCEPT ![w] =
               [step |-> "saveProfile", user |-> u, sets |-> p,
                row |-> [rows[u] EXCEPT !.email = e,
                           !.password = IF p = NoPassword THEN @ ELSE p]]]
    <3>1. CASE ReadProfile(w)
      BY <3>1, SessionsAssumption DEF ReadProfile, Start, Inductive, TypeOK, Token, Row
    <3>2. CASE EditPassword(w)
      <4>1. PICK u \in Users, p \in NewPasswords :
              job' = [job EXCEPT ![w] =
                [step |-> "saveProfile", user |-> u, sets |-> p,
                 row |-> [rows[u] EXCEPT !.password = p]]]
        BY <3>2, SessionsAssumption DEF EditPassword, Start
      <4>2. rows[u] \in Row /\ rows[u].email \in Emails /\ p # NoPassword
        BY SessionsAssumption DEF Inductive, TypeOK, Row, Passwords
      <4>3. [rows[u] EXCEPT !.password = p]
              = [rows[u] EXCEPT !.email = rows[u].email,
                                !.password = IF p = NoPassword THEN @ ELSE p]
        BY <4>2 DEF Row
      <4>4. QED BY <4>1, <4>2, <4>3
    <3>3. QED BY <1>2, <3>1, <3>2
  <2>2. PICK row : row = [rows[u] EXCEPT !.email = e,
                            !.password = IF p = NoPassword THEN @ ELSE p]
    OBVIOUS
  <2>3. /\ rows[u] \in Row
        /\ row \in Row
        /\ row.first = rows[u].first
        /\ row.password = IF p = NoPassword THEN rows[u].password ELSE p
    BY <2>2 DEF Inductive, TypeOK, Row, Passwords
  <2>4. PICK j : j = [step |-> "saveProfile", user |-> u, sets |-> p, row |-> row]
    OBVIOUS
  <2>5. j \in ProfileJob BY <2>3, <2>4 DEF ProfileJob
  <2>6. UNCHANGED <<rows, tokens, addresses, over, chosen, outdated>>
    BY <1>2 DEF ReadProfile, EditPassword
  <2>7. ProfileBacked(j)'
    BY <2>3, <2>4, <2>6
    DEF Inductive, TemporaryOpensNothing, OwnPassword, FlagFollows, ProfileBacked
  <2>8. job' = [job EXCEPT ![w] = j] BY <2>1, <2>2, <2>4
  <2>9. QED
    BY <2>5, <2>6, <2>7, <2>8, RememberPreserves DEF Job, Inductive, TypeOK
<1>3. QED BY <1>1, <1>2

(* A form that shows another flag than the row has marks its user, and     *)
(* nothing more is claimed of that user's password.                        *)
LEMMA EditUserPreserves ==
  ASSUME Inductive, NEW w \in Workers, EditUser(w) PROVE Inductive'
<1>1. PICK u \in Users, first \in BOOLEAN, e \in Emails :
        /\ first \/ u \in over
        /\ job' = [job EXCEPT ![w] =
             [step |-> "saveProfile", user |-> u, sets |-> NoPassword,
              row |-> [rows[u] EXCEPT !.email = e, !.first = first]]]
        /\ outdated' = IF first = rows[u].first THEN outdated ELSE outdated \cup {u}
  BY SessionsAssumption DEF EditUser, Start, Inductive, TypeOK
<1>2. UNCHANGED <<rows, tokens, addresses, over, chosen>> BY DEF EditUser
<1>3. PICK row : row = [rows[u] EXCEPT !.email = e, !.first = first] OBVIOUS
<1>4. /\ rows[u] \in Row /\ row \in Row
      /\ row.first = first /\ row.password = rows[u].password
  BY <1>3 DEF Inductive, TypeOK, Row
<1>5. PICK j : j = [step |-> "saveProfile", user |-> u, sets |-> NoPassword, row |-> row]
  OBVIOUS
<1>6. j \in ProfileJob BY <1>4, <1>5 DEF ProfileJob
<1>7. outdated \subseteq outdated' /\ outdated' \subseteq Users
  BY <1>1 DEF Inductive, TypeOK
<1>8. ProfileBacked(j)'
  <2>1. j.row.password \in chosen[u] \cup {Temporary}
    BY <1>4, <1>5 DEF Inductive, OwnPassword
  <2>2. ~first => chosen[u] # {} BY <1>1 DEF Inductive, FlagFollows
  <2>3. ~first /\ u \notin outdated' => j.row.password \in chosen[u]
    <3>1. SUFFICES ASSUME ~first, u \notin outdated' PROVE j.row.password \in chosen[u]
      OBVIOUS
    <3>2. first = rows[u].first /\ u \notin outdated BY <1>1, <3>1
    <3>3. QED BY <1>4, <1>5, <3>1, <3>2 DEF Inductive, TemporaryOpensNothing
  <2>4. QED BY <1>2, <1>4, <1>5, <2>1, <2>2, <2>3 DEF ProfileBacked
<1>9. job' = [job EXCEPT ![w] = j] BY <1>1, <1>3, <1>5
<1>10. QED BY <1>2, <1>6, <1>7, <1>8, <1>9, RememberPreserves DEF Job

LEMMA SavePasswordPreserves ==
  ASSUME Inductive, NEW w \in Workers, SavePassword(w) PROVE Inductive'
<1>1. job[w] \in PasswordJob BY JobKinds DEF Inductive, TypeOK, SavePassword
<1>2. PICK u, p : u = job[w].user /\ p = job[w].password OBVIOUS
<1>3. u \in Users /\ p \in NewPasswords BY <1>1, <1>2 DEF PasswordJob
<1>4. /\ rows' = [rows EXCEPT ![u].password = p, ![u].first = FALSE]
      /\ chosen' = [chosen EXCEPT ![u] = @ \cup {p}]
      /\ tokens' \in {tokens, tokens \cup {[kind |-> "session", user |-> u]}}
      /\ job' = [job EXCEPT ![w] = Idle]
      /\ over' = over \cup {u} /\ UNCHANGED <<addresses, outdated>>
  BY <1>2 DEF SavePassword, Issue, Finish
<1>5. rows[u] \in Row BY <1>3 DEF Inductive, TypeOK
<1>6. PICK row : row = [rows[u] EXCEPT !.password = p, !.first = FALSE] OBVIOUS
<1>7. row \in Row /\ row.password = p
  BY <1>3, <1>5, <1>6 DEF Row, Passwords
<1>8. rows' = [rows EXCEPT ![u] = row]
  BY <1>3, <1>4, <1>6 DEF Inductive, TypeOK
<1>9. chosen'[u] = chosen[u] \cup {p} /\ \A v \in Users \ {u} : chosen'[v] = chosen[v]
  BY <1>3, <1>4 DEF Inductive, TypeOK
<1>10. Grows BY <1>4, <1>9 DEF Grows
<1>11. TypeOK'
  <2>1. rows' \in [Users -> Row] BY <1>7, <1>8 DEF Inductive, TypeOK
  <2>2. tokens' \subseteq Token BY <1>3, <1>4 DEF Inductive, TypeOK, Token
  <2>3. job' \in [Workers -> Job] BY <1>4 DEF Inductive, TypeOK, Job
  <2>4. chosen' \in [Users -> SUBSET NewPasswords]
    BY <1>3, <1>4 DEF Inductive, TypeOK
  <2>5. QED BY <1>3, <1>4, <2>1, <2>2, <2>3, <2>4 DEF Inductive, TypeOK
<1>12. TemporaryOpensNothing' /\ OwnPassword' /\ FlagFollows'
  <2>1. TemporaryOpensNothing' /\ OwnPassword'
    BY <1>3, <1>4, <1>7, <1>8, <1>9 DEF Inductive, TypeOK, TemporaryOpensNothing, OwnPassword
  <2>2. FlagFollows'
    BY <1>3, <1>4, <1>8, <1>9 DEF Inductive, TypeOK, FlagFollows
  <2>3. QED BY <2>1, <2>2
<1>13. SessionAfterReplacement'
  <2>1. \A v \in Users : chosen[v] # {} => chosen'[v] # {} BY <1>10 DEF Grows
  <2>2. \A t \in tokens : t.user \in Users BY DEF Inductive, TypeOK, Token
  <2>3. QED
    BY <1>4, <1>9, <2>1, <2>2 DEF Inductive, SessionAfterReplacement
<1>14. \A v \in Workers : job'[v] \in ProfileJob => ProfileBacked(job[v])'
  <2>1. job'[w] = Idle /\ \A v \in Workers \ {w} : job'[v] = job[v]
    BY <1>4 DEF Inductive, TypeOK
  <2>2. Idle \notin ProfileJob BY DEF Idle, ProfileJob
  <2>3. QED BY <1>10, <2>1, <2>2, OneWorkerActs
<1>15. QED BY <1>11, <1>12, <1>13, <1>14 DEF Inductive

LEMMA SaveProfilePreserves ==
  ASSUME Inductive, NEW w \in Workers, SaveProfile(w) PROVE Inductive'
<1>1. job[w] \in ProfileJob BY JobKinds DEF Inductive, TypeOK, SaveProfile
<1>2. PICK j : j = job[w] OBVIOUS
<1>3. /\ j.user \in Users /\ j.row \in Row
      /\ j.sets \in NewPasswords \cup {NoPassword} /\ ProfileBacked(j)
  BY <1>1, <1>2 DEF Inductive, ProfileJob
<1>4. /\ rows' = [rows EXCEPT ![j.user] = j.row]
      /\ addresses' = [addresses EXCEPT ![j.user] = @ \cup {j.row.email}]
      /\ chosen' = [chosen EXCEPT ![j.user] = @ \cup ({j.sets} \ {NoPassword})]
      /\ over' = IF j.row.first THEN over ELSE over \cup {j.user}
      /\ tokens' = tokens /\ outdated' = outdated /\ job' = [job EXCEPT ![w] = Idle]
  BY <1>2 DEF SaveProfile, Finish
<1>5. /\ chosen'[j.user] = chosen[j.user] \cup ({j.sets} \ {NoPassword})
      /\ \A v \in Users \ {j.user} : chosen'[v] = chosen[v]
  BY <1>3, <1>4 DEF Inductive, TypeOK
<1>6. Grows BY <1>4, <1>5 DEF Grows
<1>7. TypeOK'
  <2>1. addresses' \in [Users -> SUBSET Emails]
    BY <1>3, <1>4 DEF Inductive, TypeOK, Row
  <2>2. QED BY <1>3, <1>4, <2>1 DEF Inductive, TypeOK, Job
<1>8. TemporaryOpensNothing' /\ OwnPassword' /\ FlagFollows'
  <2>1. TemporaryOpensNothing' /\ OwnPassword'
    BY <1>3, <1>4, <1>5
    DEF Inductive, TypeOK, TemporaryOpensNothing, OwnPassword, ProfileBacked
  <2>2. FlagFollows'
    BY <1>3, <1>4, <1>5 DEF Inductive, TypeOK, FlagFollows, ProfileBacked
  <2>3. QED BY <2>1, <2>2
<1>9. SessionAfterReplacement'
  <2>1. \A t \in tokens : t.user \in Users BY DEF Inductive, TypeOK, Token
  <2>2. QED BY <1>4, <1>6, <2>1 DEF Grows, Inductive, SessionAfterReplacement
<1>10. \A v \in Workers : job'[v] \in ProfileJob => ProfileBacked(job[v])'
  <2>1. job'[w] = Idle /\ \A v \in Workers \ {w} : job'[v] = job[v]
    BY <1>4 DEF Inductive, TypeOK
  <2>2. Idle \notin ProfileJob BY DEF Idle, ProfileJob
  <2>3. QED BY <1>6, <2>1, <2>2, OneWorkerActs
<1>11. QED BY <1>7, <1>8, <1>9, <1>10 DEF Inductive

LEMMA NextInductive == ASSUME Inductive, [Next]_vars PROVE Inductive'
<1>1. ASSUME NEW w \in Workers, RefuseProfile(w) \/ Kill(w) PROVE Inductive'
  BY <1>1, RememberPreserves
  DEF RefuseProfile, Kill, Finish, Job, Idle, ProfileJob, Inductive, TypeOK
<1>2. CASE UNCHANGED vars
  BY <1>2 DEF vars, Inductive, TypeOK, TemporaryOpensNothing, SessionAfterReplacement,
              OwnPassword, FlagFollows, ProfileBacked
<1>3. QED
  BY <1>1, <1>2, IssuePreserves, BeginPreserves, EditUserPreserves,
     SavePasswordPreserves, SaveProfilePreserves DEF Next, Begin, Step

(* The rows, the tokens and the memory of every worker back each other in  *)
(* every state of password changes and profile updates.                    *)
THEOREM SessionsInductive == Spec => []Inductive
  BY InitInductive, NextInductive, PTL DEF Spec

(* Rows, tokens and the memory of workers always hold values of their type. *)
THEOREM SessionsTyped == Spec => []TypeOK
<1>1. Inductive => TypeOK BY DEF Inductive
<1>2. QED BY <1>1, SessionsInductive, PTL

(* A temporary password never stands in a row whose first login is over,   *)
(* unless a form of the administration site put back a flag that was gone. *)
THEOREM TemporaryIsReplaced == Spec => []TemporaryOpensNothing
<1>1. Inductive => TemporaryOpensNothing BY DEF Inductive
<1>2. QED BY <1>1, SessionsInductive, PTL

(* No session is issued to a user who has not replaced the temporary       *)
(* password.                                                               *)
THEOREM SessionsFollowReplacement == Spec => []SessionAfterReplacement
<1>1. Inductive => SessionAfterReplacement BY DEF Inductive
<1>2. QED BY <1>1, SessionsInductive, PTL

(* No door that looks at a role opens to a token of a user who has not     *)
(* replaced the temporary password.                                        *)
THEOREM RoleDoorsFollowReplacement == Spec => []RoleDoorsStayShut
<1>1. ASSUME Inductive PROVE RoleDoorsStayShut
  <2> SUFFICES ASSUME NEW t \in tokens, NEW door \in RoleDoors, Bears(t, door)
               PROVE  chosen[t.user] # {}
    BY DEF RoleDoorsStayShut
  <2>1. CASE t.kind = "session" BY <1>1, <2>1 DEF Inductive, SessionAfterReplacement
  <2>2. CASE t.kind # "session"
    <3>1. PICK c : c.role = NoRole /\ Opens(door, c)
      BY <2>2 DEF Bears, ClaimsOf, ResetClaims
    <3>2. NoRole \notin UserRole BY DEF NoRole, UserRole
    <3>3. door \in Doors /\ door # AnyBearer BY DEF RoleDoors
    <3>4. ~door.weighs BY <3>1, <3>2 DEF Opens
    <3>5. door.required # {} BY <3>3, <3>4 DEF Doors, AnyBearer
    <3>6. \A required \in RequiredRoles : NoRole \notin required
      BY DEF RequiredRoles, NoRole, Managers, TeamCreators, StaffRoles
    <3>7. QED BY <3>1, <3>3, <3>5, <3>6 DEF Opens, RolesGuard, Doors
  <2>3. QED BY <2>1, <2>2
<1>2. QED BY <1>1, SessionsInductive, PTL

(* No user's row ever holds a password that was set for another.           *)
THEOREM PasswordsStayApart == Spec => []OwnPassword
<1>1. Inductive => OwnPassword BY DEF Inductive
<1>2. QED BY <1>1, SessionsInductive, PTL
=============================================================================
