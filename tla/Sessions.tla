------------------------------ MODULE Sessions ------------------------------
(***************************************************************************)
(* Passwords, the first login and the tokens of a session                  *)
(* (apps/authentication/services.py, update_password and update_profile of *)
(* apps/users/services.py, common/jwt.py).                                 *)
(*                                                                         *)
(* A password and the first-login flag are columns of one row of users.    *)
(* The first login, the reset by mail and the change of a password write   *)
(* these two columns; the profile update and the forms of the              *)
(* administration site write every column as they read them.  All          *)
(* statements commit by themselves.                                        *)
(***************************************************************************)
EXTENDS Guards

CONSTANTS
  Workers,
  Users,
  Emails,
  InitialEmail,   \* [Users -> Emails]
  AskedEmails,    \* [Users -> SUBSET Emails]: the addresses a user moves to
  Temporary,      \* the password that an invitation generates
  NewPasswords,   \* what users choose
  NoPassword,     \* a profile update without a password
  Administered,   \* bound: the users whom the administration site edits
  Crashes

Passwords == {Temporary} \cup NewPasswords

ASSUME SessionsAssumption ==
  /\ InitialEmail \in [Users -> Emails]
  /\ \A u, v \in Users : InitialEmail[u] = InitialEmail[v] => u = v
  /\ AskedEmails \in [Users -> SUBSET Emails]
  /\ NoPassword \notin Passwords
  /\ Administered \subseteq Users
  /\ Crashes \in BOOLEAN

VARIABLES
  rows,           \* users: email, password, is_first_login
  tokens,         \* the tokens issued, none of which is ever withdrawn
  job,            \* what each worker is doing
  addresses,      \* history: what a user has had, and a token may still carry
  over,           \* history: the users whose first login was over, as a form
                  \* opened then still shows
  chosen,         \* history: the passwords that have been set for a user
  outdated        \* history: the users over whom an outdated form was saved

vars == <<rows, tokens, job, addresses, over, chosen, outdated>>

Row == [email : Emails, password : Passwords, first : BOOLEAN]

(* A pair of access and refresh token is one session.  The two reset       *)
(* tokens are signed with the access secret too.                           *)
Token == [kind : {"session", "first", "reset"}, user : Users]

Idle == [step |-> "idle"]
PasswordJob ==
  [step : {"savePassword"}, user : Users, password : NewPasswords, opens : BOOLEAN]
ProfileJob ==
  [step : {"saveProfile"}, user : Users, row : Row,
   sets : NewPasswords \cup {NoPassword}]
Job == {Idle} \cup PasswordJob \cup ProfileJob

(* The type invariant.                                                     *)
TypeOK ==
  /\ rows \in [Users -> Row]
  /\ tokens \subseteq Token
  /\ job \in [Workers -> Job]
  /\ addresses \in [Users -> SUBSET Emails]
  /\ over \subseteq Users
  /\ chosen \in [Users -> SUBSET NewPasswords]
  /\ outdated \subseteq Users

(* Everybody was invited, or added by a form of the administration site,   *)
(* and has not logged in yet.                                              *)
Init ==
  /\ rows = [u \in Users |-> [email |-> InitialEmail[u], password |-> Temporary,
                              first |-> TRUE]]
  /\ tokens = {}
  /\ job = [w \in Workers |-> Idle]
  /\ addresses = [u \in Users |-> {InitialEmail[u]}]
  /\ over = {}
  /\ chosen = [u \in Users |-> {}]
  /\ outdated = {}

Start(w, j) == job[w] = Idle /\ job' = [job EXCEPT ![w] = j]
Finish(w) == job' = [job EXCEPT ![w] = Idle]
Issue(kind, u) == tokens' = tokens \cup {[kind |-> kind, user |-> u]}
ClaimsOf(t) == IF t.kind = "session" THEN SessionClaims ELSE ResetClaims
Bears(t, door) == \E c \in ClaimsOf(t) : Opens(door, c)

-----------------------------------------------------------------------------
(* POST /auth/login, /auth/refresh, /auth/forgot-password: one read, and a *)
(* token made of it *)

(* With the right password; until the first one is replaced, the answer    *)
(* is a token to replace it with.                                          *)
Login(w) ==
  /\ job[w] = Idle
  /\ \E u \in Users : Issue(IF rows[u].first THEN "first" ELSE "session", u)
  /\ UNCHANGED <<rows, job, addresses, over, chosen, outdated>>

Refresh(w) ==
  /\ job[w] = Idle
  /\ \E t \in tokens : t.kind = "session" /\ Issue("session", t.user)
  /\ UNCHANGED <<rows, job, addresses, over, chosen, outdated>>

ForgotPassword(w) ==
  /\ job[w] = Idle
  /\ \E u \in Users : Issue("reset", u)
  /\ UNCHANGED <<rows, job, addresses, over, chosen, outdated>>

-----------------------------------------------------------------------------
(* POST /auth/first-login-reset, /auth/reset-password and                  *)
(* /auth/change-password: update_password *)

SetPassword(w, u, p, opens) ==
  Start(w, [step |-> "savePassword", user |-> u, password |-> p, opens |-> opens])

(* A reset token is refused by the other endpoint, and may be used again.  *)
ResetPassword(w) ==
  /\ \E t \in tokens, p \in NewPasswords :
       /\ t.kind \in {"first", "reset"}
       /\ SetPassword(w, t.user, p, t.kind = "first")
  /\ UNCHANGED <<rows, tokens, addresses, over, chosen, outdated>>

(* The user is looked up by the address in the token, which somebody else  *)
(* may have by now; the old password must be that user's.                  *)
ChangePassword(w) ==
  /\ \E t \in tokens, u \in Users, p \in NewPasswords :
       /\ rows[u].email \in addresses[t.user]
       /\ Bears(t, AnyBearer)
       /\ SetPassword(w, u, p, FALSE)
  /\ UNCHANGED <<rows, tokens, addresses, over, chosen, outdated>>

(* Faulty variant: the row is found by its address again.                  *)
SavePasswordByAddress(w) ==
  /\ job[w].step = "savePassword"
  /\ LET u == job[w].user IN
     /\ \E v \in Users :
          /\ rows[v].email \in addresses[u]
          /\ rows' = [rows EXCEPT ![v].password = job[w].password, ![v].first = FALSE]
     /\ over' = over \cup {u}
     /\ chosen' = [chosen EXCEPT ![u] = @ \cup {job[w].password}]
     /\ IF job[w].opens THEN Issue("session", u) ELSE UNCHANGED tokens
  /\ Finish(w)
  /\ UNCHANGED <<addresses, outdated>>

(* Both columns are saved by one statement; the first login then answers   *)
(* with a session.                                                         *)
SavePassword(w) ==
  /\ job[w].step = "savePassword"
  /\ LET u == job[w].user IN
     /\ rows' = [rows EXCEPT ![u].password = job[w].password, ![u].first = FALSE]
     /\ over' = over \cup {u}
     /\ chosen' = [chosen EXCEPT ![u] = @ \cup {job[w].password}]
     /\ IF job[w].opens THEN Issue("session", u) ELSE UNCHANGED tokens
  /\ Finish(w)
  /\ UNCHANGED <<addresses, outdated>>

-----------------------------------------------------------------------------
(* PATCH /users/me: update_profile *)

(* Faulty variant: an update without a password saves none.                *)
ReadProfileClearing(w) ==
  /\ \E t \in tokens, p \in NewPasswords \cup {NoPassword} :
       Start(w, [step |-> "saveProfile", user |-> t.user, sets |-> p,
                 row |-> [rows[t.user] EXCEPT !.password = p]])
  /\ UNCHANGED <<rows, tokens, addresses, over, chosen, outdated>>

(* Any token of the user will do.                                          *)
ReadProfile(w) ==
  /\ \E t \in tokens, p \in NewPasswords \cup {NoPassword} :
       /\ Bears(t, AnyBearer)
       /\ LET row == rows[t.user] IN
          \E e \in AskedEmails[t.user] \cup {row.email} :
            Start(w, [step |-> "saveProfile", user |-> t.user, sets |-> p,
                      row |-> [row EXCEPT !.email = e,
                                          !.password = IF p = NoPassword THEN @ ELSE p]])
  /\ UNCHANGED <<rows, tokens, addresses, over, chosen, outdated>>

-----------------------------------------------------------------------------
(* /admin/users/: the forms of the administration site, whose POST reads   *)
(* the row and saves all of it                                             *)

(* The columns of the form are those that it showed when it was opened,    *)
(* whenever that was, but for the address, which the administrator may     *)
(* change; the flag is left as it was shown.  The password is no column of *)
(* this form.                                                              *)
EditUser(w) ==
  /\ \E u \in Administered, first \in BOOLEAN :
       \E e \in AskedEmails[u] \cup addresses[u] :
         /\ first \/ u \in over
         /\ \A v \in Users \ {u} : rows[v].email # e
         /\ Start(w, [step |-> "saveProfile", user |-> u, sets |-> NoPassword,
                      row |-> [rows[u] EXCEPT !.email = e, !.first = first]])
         /\ outdated' = IF first = rows[u].first THEN outdated ELSE outdated \cup {u}
  /\ UNCHANGED <<rows, tokens, addresses, over, chosen>>

(* The password form sets the password and leaves the flag.                *)
EditPassword(w) ==
  /\ \E u \in Administered, p \in NewPasswords :
       Start(w, [step |-> "saveProfile", user |-> u, sets |-> p,
                 row |-> [rows[u] EXCEPT !.password = p]])
  /\ UNCHANGED <<rows, tokens, addresses, over, chosen, outdated>>

-----------------------------------------------------------------------------
(* Somebody else has the address: the unique index refuses the save.       *)
AddressTaken(j) == \E v \in Users \ {j.user} : rows[v].email = j.row.email

RefuseProfile(w) ==
  /\ job[w].step = "saveProfile"
  /\ AddressTaken(job[w])
  /\ Finish(w)
  /\ UNCHANGED <<rows, tokens, addresses, over, chosen, outdated>>

(* Faulty variants: every column but the flag is saved; an address in use  *)
(* is taken over.                                                          *)
SaveProfileKeepingFlag(w) ==
  /\ job[w].step = "saveProfile"
  /\ ~AddressTaken(job[w])
  /\ LET j == job[w] IN
     /\ rows' = [rows EXCEPT ![j.user] = [j.row EXCEPT !.first = rows[j.user].first]]
     /\ addresses' = [addresses EXCEPT ![j.user] = @ \cup {j.row.email}]
     /\ over' = IF j.row.first THEN over ELSE over \cup {j.user}
     /\ chosen' = [chosen EXCEPT ![j.user] = @ \cup ({j.sets} \ {NoPassword})]
  /\ Finish(w)
  /\ UNCHANGED <<tokens, outdated>>

(* Every column is saved as it was read or asked for, the password and the *)
(* flag included.                                                          *)
SaveProfile(w) ==
  /\ job[w].step = "saveProfile"
  /\ ~AddressTaken(job[w])
  /\ LET j == job[w] IN
     /\ rows' = [rows EXCEPT ![j.user] = j.row]
     /\ addresses' = [addresses EXCEPT ![j.user] = @ \cup {j.row.email}]
     /\ over' = IF j.row.first THEN over ELSE over \cup {j.user}
     /\ chosen' = [chosen EXCEPT ![j.user] = @ \cup ({j.sets} \ {NoPassword})]
  /\ Finish(w)
  /\ UNCHANGED <<tokens, outdated>>

-----------------------------------------------------------------------------

Kill(w) ==
  /\ Crashes
  /\ job[w] # Idle
  /\ Finish(w)
  /\ UNCHANGED <<rows, tokens, addresses, over, chosen, outdated>>

Step(w) == SavePassword(w) \/ SaveProfile(w) \/ RefuseProfile(w)

Begin(w) ==
  \/ Login(w) \/ Refresh(w) \/ ForgotPassword(w)
  \/ ResetPassword(w) \/ ChangePassword(w) \/ ReadProfile(w)
  \/ EditUser(w) \/ EditPassword(w)

Next == \E w \in Workers : Begin(w) \/ Step(w) \/ Kill(w)

Spec == Init /\ [][Next]_vars

-----------------------------------------------------------------------------
(* Safety, for any number of workers, whatever is killed *)

(* The password of an invitation never logs in, only asks to be replaced:  *)
(* a stale profile save may put it back, but then it puts the flag back.   *)
(* Only a form of the administration site that shows a flag the row no     *)
(* longer has can part the two.                                            *)
TemporaryOpensNothing ==
  \A u \in Users \ outdated : ~rows[u].first => rows[u].password \in chosen[u]

(* Whoever has a session has replaced the password of the invitation       *)
(* ("first login - must set a password", API_REFERENCE.md:60), and the     *)
(* replacement was saved before the session was answered.                  *)
SessionAfterReplacement ==
  \A t \in tokens : t.kind = "session" => chosen[t.user] # {}

(* A view that lists roles, and a service that weighs one, serves nobody   *)
(* who has not replaced it: the tokens of a first login and of a reset are *)
(* signed with the secret of the access tokens, and pass the other doors.  *)
RoleDoorsStayShut ==
  \A t \in tokens :
    (\E door \in RoleDoors : Bears(t, door)) => chosen[t.user] # {}

(* A password that was set for one user never ends up in the row of        *)
(* another, although change_password finds its user by an address that may *)
(* have changed hands since the token was issued.                          *)
OwnPassword ==
  \A u \in Users : rows[u].password \in chosen[u] \cup {Temporary}

(* The inductive invariant: what a profile update is about to save was     *)
(* true of the row once, or is what the update asks for.                   *)
ProfileBacked(j) ==
  LET known == chosen[j.user] \cup ({j.sets} \ {NoPassword}) IN
  /\ j.row.password \in known \cup {Temporary}
  /\ ~j.row.first => chosen[j.user] # {}
  /\ ~j.row.first /\ j.user \notin outdated => j.row.password \in known

(* A form that shows the first login as over is one of a user who has      *)
(* replaced the temporary password.                                        *)
FlagFollows ==
  \A u \in Users :
    /\ ~rows[u].first => u \in over
    /\ u \in over => chosen[u] # {}

Inductive ==
  /\ TypeOK
  /\ TemporaryOpensNothing /\ SessionAfterReplacement /\ OwnPassword
  /\ FlagFollows
  /\ \A w \in Workers : job[w] \in ProfileJob => ProfileBacked(job[w])
=============================================================================
