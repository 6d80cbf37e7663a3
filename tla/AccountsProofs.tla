--------------------------- MODULE AccountsProofs ---------------------------
(***************************************************************************)
(* Proofs about Accounts, for any set of workers, users, addresses, clubs  *)
(* and initial accounts.                                                   *)
(***************************************************************************)
EXTENDS Accounts, FiniteSetTheorems, TLAPS

-----------------------------------------------------------------------------
(* Lemmas on the operators *)

(* Nobody outranks SUPER_ADMIN.                                            *)
LEMMA NoneAboveSuperAdmin ==
  ASSUME NEW r \in UserRole PROVE ~Outranks(r, "SUPER_ADMIN")
  BY DEF Outranks, Weight, ROLE_WEIGHTS, UserRole

LEMMA RowTypes ==
  /\ NoAccount \notin Account
  /\ \A row \in Account : row.email # NoAccount.email
  /\ \A u \in Users, row \in Account : ClaimOf(u, row) \in Claim
  BY AccountsAssumption DEF Account, NoAccount, ClaimOf, Claim

(* A job is of the kind its step names.                                    *)
LEMMA JobKinds ==
  ASSUME NEW j \in Job
  PROVE  /\ j.step = "idle" => j = Idle
         /\ j.step \in {"checkEmail", "insertUser", "sendMail", "commit"} => j \in InviteJob
         /\ j.step = "saveRole" => j \in RoleJob
         /\ j.step = "saveProfile" => j \in ProfileJob
         /\ j.step = "countUsers" => j \in StatsJob
<1>1. CASE j = Idle BY <1>1 DEF Idle
<1>2. CASE j \in InviteJob BY <1>2 DEF InviteJob
<1>3. CASE j \in RoleJob BY <1>3 DEF RoleJob
<1>4. CASE j \in ProfileJob BY <1>4 DEF ProfileJob
<1>5. CASE j \in BootJob BY <1>5 DEF BootJob
<1>6. CASE j \in StatsJob BY <1>6 DEF StatsJob
<1>7. QED BY <1>1, <1>2, <1>3, <1>4, <1>5, <1>6 DEF Job

LEMMA IdleIsJob == Idle \in Job
  BY DEF Job

-----------------------------------------------------------------------------
(* Type correctness *)

LEMMA InitTypeOK == ASSUME Init PROVE TypeOK
<1>1. accounts \in [Users -> Account \cup {NoAccount}]
  BY AccountsAssumption DEF Init
<1>2. clubs \subseteq Clubs
  BY AccountsAssumption DEF Init, Account
<1>3. claims \subseteq Claim
  <2>1. \A u \in DOMAIN InitialAccounts : ClaimOf(u, InitialAccounts[u]) \in Claim
    BY AccountsAssumption, RowTypes
  <2>2. QED BY <2>1 DEF Init
<1>4. job \in [Workers -> Job] BY IdleIsJob DEF Init
<1>5. drawn \subseteq Users /\ mailed \subseteq drawn
  BY AccountsAssumption DEF Init
<1>6. QED BY <1>1, <1>2, <1>3, <1>4, <1>5 DEF TypeOK

LEMMA NextTypeOK ==
  ASSUME TypeOK, JobsBacked, [Next]_vars PROVE TypeOK'
<1>1. ASSUME NEW w \in Workers, Invite(w) PROVE TypeOK'
  <2>1. PICK e \in Emails, r \in GrantedRoles, k \in clubs \cup {NoClub} :
          Start(w, Invitation(e, r, k, NoClub))
    BY <1>1 DEF Invite
  <2>2. Invitation(e, r, k, NoClub) \in Job
    BY AccountsAssumption DEF TypeOK, Invitation, Job, InviteJob, Account
  <2>3. QED BY <1>1, <2>1, <2>2 DEF Invite, Start, TypeOK
<1>2. ASSUME NEW w \in Workers, CreateClub(w) PROVE TypeOK'
  <2>1. PICK e \in Emails, k \in Clubs \ clubs :
          Start(w, Invitation(e, "CLUB_OWNER", k, k))
    BY <1>2 DEF CreateClub
  <2>2. Invitation(e, "CLUB_OWNER", k, k) \in Job
    BY DEF Invitation, Job, InviteJob, Account, UserRole
  <2>3. QED BY <1>2, <2>1, <2>2 DEF CreateClub, Start, TypeOK
<1>3. ASSUME NEW w \in Workers, CheckEmail(w) PROVE TypeOK'
  <2>1. job[w] \in InviteJob BY <1>3, JobKinds DEF TypeOK, CheckEmail
  <2>2. [job[w] EXCEPT !.step = "insertUser"] \in Job
    BY <2>1 DEF InviteJob, Job
  <2>3. QED BY <1>3, <2>2, IdleIsJob DEF CheckEmail, Go, Finish, TypeOK
<1>4. ASSUME NEW w \in Workers, InsertUser(w) PROVE TypeOK'
  <2>1. job[w] \in InviteJob BY <1>4, JobKinds DEF TypeOK, InsertUser
  <2>2. CASE Finish(w) /\ UNCHANGED drawn
    BY <1>4, <2>2, IdleIsJob DEF InsertUser, Finish, TypeOK
  <2>3. ASSUME NEW u \in Users \ drawn,
               job' = [job EXCEPT ![w].step = "sendMail", ![w].user = u],
               drawn' = drawn \cup {u}
        PROVE  TypeOK'
    <3>1. [job[w] EXCEPT !.step = "sendMail", !.user = u] \in Job
      BY <2>1 DEF InviteJob, Job
    <3>2. job' \in [Workers -> Job] BY <2>3, <3>1 DEF TypeOK
    <3>3. QED BY <1>4, <2>3, <3>2 DEF InsertUser, TypeOK
  <2>4. QED BY <1>4, <2>2, <2>3 DEF InsertUser
<1>5. ASSUME NEW w \in Workers, SendMail(w) \/ MailFails(w) \/ Commit(w)
      PROVE  TypeOK'
  <2>1. job[w] \in InviteJob
    BY <1>5, JobKinds DEF TypeOK, SendMail, MailFails, Commit
  <2>2. [job[w] EXCEPT !.step = "commit"] \in Job
    BY <2>1 DEF InviteJob, Job
  <2>3. job' \in [Workers -> Job]
    BY <1>5, <2>2, IdleIsJob DEF SendMail, MailFails, Commit, Go, Finish, TypeOK
  <2>7. job[w].user \in drawn
    BY <1>5, <2>1 DEF SendMail, MailFails, Commit, JobsBacked, JobBacked, InviteBacked
  <2>4. CASE SendMail(w) \/ MailFails(w)
    BY <2>3, <2>4, <2>7 DEF SendMail, MailFails, TypeOK
  <2>5. CASE Commit(w)
    <3>1. job[w].user \in Users /\ job[w].row \in Account
          /\ {job[w].opens} \ {NoClub} \subseteq Clubs
      BY <2>1, <2>7 DEF TypeOK, InviteJob
    <3>2. QED BY <2>3, <2>5, <3>1, RowTypes DEF Commit, TypeOK
  <2>6. QED BY <1>5, <2>4, <2>5
<1>6. ASSUME NEW w \in Workers, CheckRole(w) PROVE TypeOK'
  <2>1. PICK t \in claims, u \in Users, r \in GrantedRoles :
          Start(w, [step |-> "saveRole", by |-> t, user |-> u, role |-> r])
    BY <1>6 DEF CheckRole
  <2>2. [step |-> "saveRole", by |-> t, user |-> u, role |-> r] \in Job
    BY AccountsAssumption DEF TypeOK, Job, RoleJob
  <2>3. QED BY <1>6, <2>1, <2>2 DEF CheckRole, Start, TypeOK
<1>7. ASSUME NEW w \in Workers, SaveRole(w) PROVE TypeOK'
  <2>1. job[w] \in RoleJob BY <1>7, JobKinds DEF TypeOK, SaveRole
  <2>2. /\ job[w].user \in Users /\ job[w].role \in UserRole
        /\ accounts[job[w].user] \in Account
    BY <1>7, <2>1 DEF RoleJob, TypeOK, JobsBacked, JobBacked, RoleBacked
  <2>3. [accounts[job[w].user] EXCEPT !.role = job[w].role] \in Account
    BY <2>2 DEF Account
  <2>4. /\ accounts' \in [Users -> Account \cup {NoAccount}]
        /\ accounts'[job[w].user] \in Account
    BY <1>7, <2>2, <2>3 DEF SaveRole, TypeOK
  <2>5. claims' \subseteq Claim
    BY <1>7, <2>2, <2>4, RowTypes DEF SaveRole, TypeOK
  <2>6. QED BY <1>7, <2>4, <2>5, IdleIsJob DEF SaveRole, Finish, TypeOK
<1>8. ASSUME NEW w \in Workers, ReadProfile(w) PROVE TypeOK'
  <2>1. PICK u \in Users, e \in Emails :
          /\ accounts[u] # NoAccount
          /\ Start(w, [step |-> "saveProfile", user |-> u,
                       row |-> [accounts[u] EXCEPT !.email = e]])
    BY <1>8 DEF ReadProfile
  <2>2. [accounts[u] EXCEPT !.email = e] \in Account
    BY <2>1 DEF TypeOK, Account
  <2>3. [step |-> "saveProfile", user |-> u, row |-> [accounts[u] EXCEPT !.email = e]] \in Job
    BY <2>2 DEF Job, ProfileJob
  <2>4. QED BY <1>8, <2>1, <2>3 DEF ReadProfile, Start, TypeOK
<1>9. ASSUME NEW w \in Workers, SaveProfile(w) PROVE TypeOK'
  <2>1. job[w] \in ProfileJob BY <1>9, JobKinds DEF TypeOK, SaveProfile
  <2>2. QED BY <1>9, <2>1, IdleIsJob DEF SaveProfile, ProfileJob, Finish, TypeOK
<1>10. ASSUME NEW w \in Workers, BeginBootstrap(w) PROVE TypeOK'
  BY <1>10 DEF BeginBootstrap, Start, TypeOK, Job, BootJob
<1>11. ASSUME NEW w \in Workers, InsertAdmin(w) PROVE TypeOK'
  <2>1. job' \in [Workers -> Job] BY <1>11, IdleIsJob DEF InsertAdmin, Finish, TypeOK
  <2>2. CASE UNCHANGED <<accounts, drawn, claims>>
    BY <1>11, <2>1, <2>2 DEF InsertAdmin, TypeOK
  <2>3. ASSUME NEW u \in Users \ drawn, NEW row,
               row = [email |-> AdminEmail, role |-> "SUPER_ADMIN", club |-> NoClub],
               accounts' = [accounts EXCEPT ![u] = row],
               drawn' = drawn \cup {u}, claims' = claims \cup {ClaimOf(u, row)}
        PROVE  TypeOK'
    <3>1. row \in Account BY <2>3, AccountsAssumption DEF Account, UserRole
    <3>2. QED BY <1>11, <2>1, <2>3, <3>1, RowTypes DEF InsertAdmin, TypeOK
  <2>4. QED BY <1>11, <2>2, <2>3 DEF InsertAdmin
<1>12. ASSUME NEW w \in Workers, Kill(w) \/ NoKeyLeft(w) \/ CountUsers(w) PROVE TypeOK'
  BY <1>12, IdleIsJob DEF Kill, NoKeyLeft, CountUsers, Finish, TypeOK
<1>13. ASSUME NEW w \in Workers, CountClubs(w) PROVE TypeOK'
  <2>1. [step |-> "countUsers", clubs |-> clubs] \in Job
    BY DEF TypeOK, Job, StatsJob
  <2>2. QED BY <1>13, <2>1 DEF CountClubs, Start, TypeOK
<1>14. CASE UNCHANGED vars
  BY <1>14 DEF vars, TypeOK
<1>15. QED
  BY <1>1, <1>2, <1>3, <1>4, <1>5, <1>6, <1>7, <1>8, <1>9, <1>10, <1>11, <1>12, <1>13,
     <1>14
  DEF Next, Begin, Step

-----------------------------------------------------------------------------
(* What a step may write *)

(* Keys, clubs, claims and mails are never taken back.                     *)
Grows ==
  /\ drawn \subseteq drawn' /\ clubs \subseteq clubs'
  /\ claims \subseteq claims' /\ mailed \subseteq mailed'

(* A step that saves row for the user u takes the address of nobody else,  *)
(* neither committed nor in an open transaction.                           *)
Writes(u, row) ==
  /\ u \in Users /\ row \in Account
  /\ accounts' = [accounts EXCEPT ![u] = row]
  /\ claims' = claims \cup {ClaimOf(u, row)}
  /\ u \in drawn'
  /\ row.club \in clubs' \cup {NoClub}
  /\ accounts[u] = NoAccount => u \in mailed' \/ row.role = "SUPER_ADMIN"
  /\ \A v \in Users \ {u} : accounts[v] # NoAccount => accounts[v].email # row.email
  /\ \A v \in Workers : Inserted(v)' => /\ job'[v].row.email # row.email
                                      /\ job'[v].user # u

Quiet == UNCHANGED <<accounts, claims>>
Saves == \E u, row : Writes(u, row)

(* An open transaction holds a key that is nobody's yet and an address     *)
(* that nobody has.                                                        *)
LEMMA OpenTransaction ==
  ASSUME Inductive, NEW w \in Workers, Inserted(w)
  PROVE  /\ job[w] \in InviteJob /\ InviteBacked(job[w])
         /\ job[w].user \in drawn /\ job[w].user \in Users
         /\ accounts[job[w].user] = NoAccount
         /\ ~Taken(job[w].row.email)
<1>1. job[w] \in Job BY DEF Inductive, TypeOK
<1>2. job[w] \in InviteJob BY <1>1, JobKinds DEF Inserted
<1>3. InviteBacked(job[w]) BY <1>2 DEF Inductive, JobsBacked, JobBacked
<1>4. QED BY <1>2, <1>3 DEF InviteBacked, Inserted, Inductive, TypeOK

LEMMA CommitWrites ==
  ASSUME Inductive, NEW w \in Workers, Commit(w)
  PROVE  Writes(job[w].user, job[w].row)
<1>1. Inserted(w) /\ job[w].step = "commit" BY DEF Commit, Inserted
<1>2. PICK u, row : u = job[w].user /\ row = job[w].row OBVIOUS
<1>3. /\ u \in drawn /\ u \in Users /\ row \in Account
      /\ accounts[u] = NoAccount /\ ~Taken(row.email)
      /\ row.club \in clubs \cup {NoClub, job[w].opens} /\ u \in mailed
  BY <1>1, <1>2, OpenTransaction DEF InviteBacked, InviteJob
<1>4. row.club \in clubs' \cup {NoClub} BY <1>3 DEF Commit
<1>5. \A v \in Workers \ {w} : job'[v] = job[v]
  BY DEF Commit, Finish, Inductive, TypeOK
<1>6. ASSUME NEW v \in Workers, Inserted(v)'
      PROVE  job'[v].row.email # row.email /\ job'[v].user # u
  <2>1. v # w BY <1>6 DEF Inserted, Commit, Finish, Idle, Inductive, TypeOK
  <2>2. job'[v] = job[v] /\ Inserted(v) BY <1>5, <1>6, <2>1 DEF Inserted
  <2>3. QED BY <1>1, <1>2, <2>1, <2>2 DEF Inductive, TransactionsApart
<1>7. QED BY <1>2, <1>3, <1>4, <1>6 DEF Writes, Commit, Taken

LEMMA SaveRoleWrites ==
  ASSUME Inductive, NEW w \in Workers, SaveRole(w)
  PROVE  /\ Writes(job[w].user, [accounts[job[w].user] EXCEPT !.role = job[w].role])
         /\ job[w].role # "SUPER_ADMIN"
<1>1. job[w] \in RoleJob BY JobKinds DEF Inductive, TypeOK, SaveRole
<1>2. PICK j : j = job[w] OBVIOUS
<1>3. RoleBacked(j) BY <1>1, <1>2 DEF Inductive, JobsBacked, JobBacked
<1>4. /\ j.user \in Users /\ j.role \in UserRole /\ j.by.role \in UserRole
      /\ accounts[j.user] # NoAccount
  BY <1>1, <1>2, <1>3 DEF RoleJob, Claim, RoleBacked
<1>5. PICK old : old = accounts[j.user] OBVIOUS
<1>6. old \in Account BY <1>4, <1>5 DEF Inductive, TypeOK
<1>7. PICK row : row = [old EXCEPT !.role = j.role] OBVIOUS
<1>8. row \in Account /\ row.email = old.email /\ row.club = old.club
  BY <1>4, <1>6, <1>7 DEF Account
<1>9. accounts' = [accounts EXCEPT ![j.user] = row]
  BY <1>2, <1>4, <1>5, <1>7 DEF SaveRole, Inductive, TypeOK
<1>10. claims' = claims \cup {ClaimOf(j.user, row)}
  BY <1>2, <1>4, <1>9 DEF SaveRole, Inductive, TypeOK
<1>11. j.user \in drawn' BY <1>4 DEF SaveRole, Inductive, RowsKnown
<1>12. row.club \in clubs' \cup {NoClub}
  BY <1>4, <1>5, <1>8 DEF SaveRole, Inductive, ClubsExist
<1>13. \A v \in Users \ {j.user} :
         accounts[v] # NoAccount => accounts[v].email # row.email
  BY <1>4, <1>5, <1>8 DEF Inductive, UniqueEmails
<1>14. ASSUME NEW v \in Workers, Inserted(v)'
       PROVE  job'[v].row.email # row.email /\ job'[v].user # j.user
  <2>1. v # w BY <1>14 DEF Inserted, SaveRole, Finish, Idle, Inductive, TypeOK
  <2>2. job'[v] = job[v] BY <2>1 DEF SaveRole, Finish, Inductive, TypeOK
  <2>3. Inserted(v) BY <1>14, <2>2 DEF Inserted
  <2>4. accounts[job[v].user] = NoAccount /\ ~Taken(job[v].row.email)
    BY <2>3, OpenTransaction
  <2>5. QED BY <1>4, <1>5, <1>8, <2>2, <2>4 DEF Taken
<1>15. Writes(j.user, row)
  BY <1>4, <1>8, <1>9, <1>10, <1>11, <1>12, <1>13, <1>14 DEF Writes
<1>16. j.role # "SUPER_ADMIN"
  BY <1>3, <1>4, NoneAboveSuperAdmin DEF RoleBacked
<1>17. QED BY <1>2, <1>5, <1>7, <1>15, <1>16

LEMMA SaveProfileWrites ==
  ASSUME Inductive, NEW w \in Workers, SaveProfile(w)
  PROVE  UNCHANGED accounts \/ Writes(job[w].user, job[w].row)
<1>1. job[w] \in ProfileJob BY JobKinds DEF Inductive, TypeOK, SaveProfile
<1>2. PICK j : j = job[w] OBVIOUS
<1>3. ProfileBacked(j) BY <1>1, <1>2 DEF Inductive, JobsBacked, JobBacked
<1>4. j.user \in Users /\ j.row \in Account BY <1>1, <1>2 DEF ProfileJob
<1>5. ClaimOf(j.user, j.row) \in claims /\ accounts[j.user] # NoAccount
  BY <1>3 DEF ProfileBacked, ClaimOf, Inductive, RowsKnown
<1>6. SUFFICES ASSUME accounts' # accounts PROVE Writes(j.user, j.row)
  BY <1>2
<1>7. /\ accounts' = [accounts EXCEPT ![j.user] = j.row]
      /\ \A v \in Users \ {j.user} :
           accounts[v] # NoAccount => accounts[v].email # j.row.email
      /\ claims' = claims \cup {ClaimOf(j.user, j.row)}
  BY <1>2, <1>5, <1>6 DEF SaveProfile
<1>8. j.user \in drawn' /\ j.row.club \in clubs' \cup {NoClub}
  BY <1>3, <1>4, <1>5 DEF SaveProfile, ProfileBacked, Inductive, RowsKnown
<1>9. ASSUME NEW v \in Workers, Inserted(v)'
      PROVE  job'[v].row.email # j.row.email /\ job'[v].user # j.user
  <2>1. v # w BY <1>9 DEF Inserted, SaveProfile, Finish, Idle, Inductive, TypeOK
  <2>2. job'[v] = job[v] BY <2>1 DEF SaveProfile, Finish, Inductive, TypeOK
  <2>3. Inserted(v) BY <1>9, <2>2 DEF Inserted
  <2>4. accounts[job[v].user] = NoAccount BY <2>3, OpenTransaction
  <2>5. QED BY <1>2, <1>5, <2>2, <2>3, <2>4 DEF SaveProfile, Pending
<1>10. QED BY <1>4, <1>5, <1>7, <1>8, <1>9 DEF Writes

AdminRow == [email |-> AdminEmail, role |-> "SUPER_ADMIN", club |-> NoClub]

LEMMA InsertAdminWrites ==
  ASSUME Inductive, NEW w \in Workers, InsertAdmin(w)
  PROVE  Quiet \/ \E u \in Users \ drawn : Writes(u, AdminRow)
<1>1. CASE Taken(AdminEmail) BY <1>1 DEF InsertAdmin, Quiet
<1>2. CASE ~Taken(AdminEmail)
  <2>1. PICK u \in Users \ drawn :
          /\ accounts' = [accounts EXCEPT ![u] = AdminRow]
          /\ drawn' = drawn \cup {u}
          /\ claims' = claims \cup {ClaimOf(u, AdminRow)}
    BY <1>2 DEF InsertAdmin, AdminRow
  <2>2. /\ AdminRow \in Account /\ AdminRow.email = AdminEmail
        /\ AdminRow.role = "SUPER_ADMIN" /\ AdminRow.club = NoClub
    BY AccountsAssumption DEF AdminRow, Account, UserRole
  <2>3. \A v \in Users : accounts[v] # NoAccount => accounts[v].email # AdminEmail
    BY <1>2 DEF Taken
  <2>4. ASSUME NEW v \in Workers, Inserted(v)'
        PROVE  job'[v].row.email # AdminEmail /\ job'[v].user # u
    <3>1. v # w BY <2>4 DEF Inserted, InsertAdmin, Finish, Idle, Inductive, TypeOK
    <3>2. job'[v] = job[v] BY <3>1 DEF InsertAdmin, Finish, Inductive, TypeOK
    <3>3. Inserted(v) BY <2>4, <3>2 DEF Inserted
    <3>4. job[v].user \in drawn BY <3>3, OpenTransaction
    <3>5. QED BY <2>1, <3>2, <3>3, <3>4 DEF InsertAdmin, Pending
  <2>5. Writes(u, AdminRow)
    BY <2>1, <2>2, <2>3, <2>4 DEF Writes
  <2>6. QED BY <2>5
<1>3. QED BY <1>1, <1>2

LEMMA NextWrites ==
  ASSUME Inductive, [Next]_vars PROVE Quiet \/ Saves
<1>1. ASSUME NEW w \in Workers, Commit(w) PROVE Saves
  BY <1>1, CommitWrites DEF Saves
<1>2. ASSUME NEW w \in Workers, SaveRole(w) PROVE Saves
  BY <1>2, SaveRoleWrites DEF Saves
<1>3. ASSUME NEW w \in Workers, SaveProfile(w) PROVE Quiet \/ Saves
  BY <1>3, SaveProfileWrites DEF Saves, Quiet, SaveProfile
<1>4. ASSUME NEW w \in Workers, InsertAdmin(w) PROVE Quiet \/ Saves
  BY <1>4, InsertAdminWrites DEF Saves
<1>5. CASE Quiet BY <1>5
<1>6. QED
  BY <1>1, <1>2, <1>3, <1>4, <1>5
  DEF Next, Begin, Step, Invite, CreateClub, CheckEmail, InsertUser, SendMail,
      MailFails, CheckRole, ReadProfile, BeginBootstrap, CountClubs, CountUsers, Kill,
      NoKeyLeft, vars, Quiet

LEMMA NextGrows ==
  ASSUME [Next]_vars PROVE Grows
<1>1. ASSUME NEW w \in Workers, InsertUser(w) PROVE Grows
  BY <1>1 DEF InsertUser, Grows
<1>2. ASSUME NEW w \in Workers, InsertAdmin(w) PROVE Grows
  BY <1>2 DEF InsertAdmin, Grows
<1>3. ASSUME NEW w \in Workers, SendMail(w) \/ MailFails(w) \/ Commit(w) \/ SaveRole(w)
      PROVE  Grows
  BY <1>3 DEF SendMail, MailFails, Commit, SaveRole, Grows
<1>4. CASE UNCHANGED <<drawn, clubs, claims, mailed>> BY <1>4 DEF Grows
<1>5. QED
  BY <1>1, <1>2, <1>3, <1>4
  DEF Next, Begin, Step, Invite, CreateClub, CheckEmail, SaveProfile,
      CheckRole, ReadProfile, BeginBootstrap, CountClubs, CountUsers, Kill,
      NoKeyLeft, vars

-----------------------------------------------------------------------------
(* The invariants of the tables, from what a step may write *)

LEMMA RowsAfter ==
  ASSUME TypeOK, NEW u, NEW row, Writes(u, row)
  PROVE  /\ accounts'[u] = row /\ accounts'[u] # NoAccount
         /\ \A v \in Users \ {u} : accounts'[v] = accounts[v]
  BY RowTypes DEF TypeOK, Writes

LEMMA WritesPreserves ==
  ASSUME Inductive, Grows, NEW u, NEW row, Writes(u, row)
  PROVE  RowsKnown' /\ UniqueEmails' /\ InvitedWasMailed' /\ ClubsExist'
<1>1. TypeOK BY DEF Inductive
<1>2. /\ accounts'[u] = row /\ accounts'[u] # NoAccount
      /\ \A v \in Users \ {u} : accounts'[v] = accounts[v]
  BY <1>1, RowsAfter
<1>3. /\ u \in Users /\ row \in Account /\ u \in drawn'
      /\ claims' = claims \cup {ClaimOf(u, row)}
      /\ ClaimOf(u, row).user = u /\ ClaimOf(u, row).role = row.role
  BY DEF Writes, ClaimOf
<1>4. RowsKnown'
  <2>1. ASSUME NEW v \in Users, accounts'[v] # NoAccount
        PROVE  v \in drawn' /\ ClaimOf(v, accounts'[v]) \in claims'
    <3>1. CASE v = u BY <1>2, <1>3, <3>1
    <3>2. CASE v # u
      <4>1. accounts[v] = accounts'[v] /\ accounts[v] # NoAccount
        BY <1>2, <2>1, <3>2
      <4>2. v \in drawn /\ ClaimOf(v, accounts[v]) \in claims
        BY <4>1 DEF Inductive, RowsKnown
      <4>3. QED BY <4>1, <4>2 DEF Grows
    <3>3. QED BY <3>1, <3>2
  <2>2. ASSUME NEW t \in claims' PROVE accounts'[t.user] # NoAccount
    <3>1. CASE t \in claims
      <4>1. accounts[t.user] # NoAccount /\ t.user \in Users
        BY <3>1 DEF Inductive, RowsKnown, TypeOK, Claim
      <4>2. QED BY <1>2, <4>1
    <3>2. CASE t = ClaimOf(u, row) BY <1>2, <1>3, <3>2
    <3>3. QED BY <1>3, <2>2, <3>1, <3>2
  <2>3. (\A v \in Users : accounts[v] # NoAccount
                           => v \in drawn /\ ClaimOf(v, accounts[v]) \in claims)'
    BY <2>1 DEF ClaimOf
  <2>4. QED BY <2>2, <2>3 DEF RowsKnown
<1>5. UniqueEmails'
  <2>1. ASSUME NEW v \in Users, NEW x \in Users, v # x, accounts'[v] # NoAccount,
               accounts'[v].email = accounts'[x].email
        PROVE  FALSE
    <3>1. accounts'[x] # NoAccount
      <4>1. accounts'[v] \in Account BY <1>1, <1>2, <1>3, <2>1 DEF TypeOK
      <4>2. accounts'[v].email # NoAccount.email BY <4>1, RowTypes
      <4>3. QED BY <2>1, <4>2
    <3>2. CASE v = u \/ x = u
      BY <1>2, <2>1, <3>1, <3>2 DEF Writes
    <3>3. CASE v # u /\ x # u
      BY <1>2, <2>1, <3>3 DEF Inductive, UniqueEmails
    <3>4. QED BY <3>2, <3>3
  <2>2. QED BY <2>1 DEF UniqueEmails
<1>6. InvitedWasMailed'
  <2>1. ASSUME NEW v \in Users, Invited(v)'
        PROVE  v \in mailed' \/ Ranked(v, "SUPER_ADMIN")'
    <3>1. CASE Invited(v)
      <4>1. v \in mailed \/ Ranked(v, "SUPER_ADMIN")
        BY <3>1 DEF Inductive, InvitedWasMailed
      <4>2. QED BY <4>1 DEF Grows, Ranked
    <3>2. CASE ~Invited(v)
      <4>1. v = u /\ accounts[u] = NoAccount
        BY <1>2, <2>1, <3>2 DEF Invited
      <4>2. u \in mailed' \/ row.role = "SUPER_ADMIN" BY <4>1 DEF Writes
      <4>3. QED BY <1>3, <4>1, <4>2 DEF Ranked
    <3>3. QED BY <3>1, <3>2
  <2>2. QED BY <2>1 DEF InvitedWasMailed
<1>7. ClubsExist'
  <2>1. ASSUME NEW v \in Users, accounts'[v] # NoAccount
        PROVE  accounts'[v].club \in clubs' \cup {NoClub}
    <3>1. CASE v = u BY <1>2, <3>1 DEF Writes
    <3>2. CASE v # u BY <1>2, <2>1, <3>2 DEF Inductive, ClubsExist, Grows
    <3>3. QED BY <3>1, <3>2
  <2>2. QED BY <2>1 DEF ClubsExist
<1>8. QED BY <1>4, <1>5, <1>6, <1>7

LEMMA QuietPreserves ==
  ASSUME Inductive, Grows, Quiet
  PROVE  RowsKnown' /\ UniqueEmails' /\ InvitedWasMailed' /\ ClubsExist'
<1>1. RowsKnown' BY DEF Inductive, RowsKnown, Grows, Quiet, ClaimOf
<1>2. UniqueEmails' BY DEF Inductive, UniqueEmails, Quiet
<1>3. InvitedWasMailed'
  BY DEF Inductive, InvitedWasMailed, Invited, Ranked, Grows, Quiet
<1>4. ClubsExist' BY DEF Inductive, ClubsExist, Grows, Quiet
<1>5. QED BY <1>1, <1>2, <1>3, <1>4

LEMMA TablesPreserved ==
  ASSUME Inductive, [Next]_vars
  PROVE  RowsKnown' /\ UniqueEmails' /\ InvitedWasMailed' /\ ClubsExist'
  BY NextGrows, NextWrites, WritesPreserves, QuietPreserves DEF Saves

(* A user who was mailed an invitation never gets the role: the mail of an *)
(* open transaction goes to nobody's key, and only the bootstrap writes    *)
(* the role, at a key that no invitation drew.                             *)
LEMMA NoAdminAppointed ==
  ASSUME Inductive, [Next]_vars PROVE NoAppointedSuperAdmin'
<1>1. ASSUME NEW u \in mailed', NEW t \in claims', t.user = u, t.role = "SUPER_ADMIN",
             t \in claims => u \notin mailed
      PROVE  FALSE
  <2>1. ASSUME NEW w \in Workers, SendMail(w) \/ MailFails(w) PROVE FALSE
    <3>1. Inserted(w) BY <2>1 DEF SendMail, MailFails, Inserted
    <3>2. t \in claims /\ u = job[w].user
      BY <1>1, <2>1 DEF SendMail, MailFails
    <3>3. accounts[u] = NoAccount BY <3>1, <3>2, OpenTransaction
    <3>4. QED BY <1>1, <3>2, <3>3 DEF Inductive, RowsKnown
  <2>2. ASSUME NEW w \in Workers, Commit(w) PROVE FALSE
    <3>1. Inserted(w) BY <2>2 DEF Commit, Inserted
    <3>2. job[w].row.role # "SUPER_ADMIN"
      BY <3>1, OpenTransaction DEF InviteBacked
    <3>3. QED BY <1>1, <2>2, <3>2 DEF Commit, ClaimOf
  <2>3. ASSUME NEW w \in Workers, SaveRole(w) PROVE FALSE
    <3>1. PICK row : /\ Writes(job[w].user, row)
                     /\ row = [accounts[job[w].user] EXCEPT !.role = job[w].role]
                     /\ job[w].role # "SUPER_ADMIN"
      BY <2>3, SaveRoleWrites
    <3>2. row \in Account /\ claims' = claims \cup {ClaimOf(job[w].user, row)}
      BY <3>1 DEF Writes
    <3>3. accounts[job[w].user] \in Account
      BY <2>3, JobKinds DEF Inductive, TypeOK, SaveRole, JobsBacked, JobBacked, RoleBacked, RoleJob
    <3>4. row.role # "SUPER_ADMIN" BY <3>1, <3>3 DEF Account
    <3>5. QED BY <1>1, <2>3, <3>2, <3>4 DEF SaveRole, ClaimOf
  <2>4. ASSUME NEW w \in Workers, InsertAdmin(w) PROVE FALSE
    <3>1. u \in drawn BY <1>1, <2>4 DEF InsertAdmin, Inductive, TypeOK
    <3>2. t \notin claims BY <1>1, <2>4 DEF InsertAdmin
    <3>3. PICK v \in Users \ drawn : Writes(v, AdminRow)
      BY <1>1, <2>4, <3>2, InsertAdminWrites DEF Quiet
    <3>4. QED BY <1>1, <3>1, <3>2, <3>3 DEF Writes, ClaimOf
  <2>5. ASSUME NEW w \in Workers, SaveProfile(w) PROVE FALSE
    BY <1>1, <2>5 DEF SaveProfile
  <2>6. CASE UNCHANGED <<claims, mailed>>
    BY <1>1, <2>6
  <2>7. QED
    BY <2>1, <2>2, <2>3, <2>4, <2>5, <2>6
    DEF Next, Begin, Step, Invite, CreateClub, CheckEmail, InsertUser,
        CheckRole, ReadProfile, BeginBootstrap, CountClubs, CountUsers, Kill,
      NoKeyLeft, vars
<1>2. \A u \in mailed, t \in claims : ~(t.user = u /\ t.role = "SUPER_ADMIN")
  BY DEF Inductive, NoAppointedSuperAdmin, Ranked
<1>3. QED BY <1>1, <1>2 DEF NoAppointedSuperAdmin, Ranked

-----------------------------------------------------------------------------
(* What the workers remember *)

(* What is backed stays backed, whatever another worker saves.             *)
LEMMA NobodyVanishes ==
  ASSUME TypeOK, Quiet \/ Saves, NEW u \in Users, accounts[u] # NoAccount
  PROVE  accounts'[u] # NoAccount
  BY RowsAfter DEF Saves, Quiet

LEMMA RoleBackedStays ==
  ASSUME TypeOK, Grows, Quiet \/ Saves, NEW j \in RoleJob, RoleBacked(j)
  PROVE  RoleBacked(j)'
<1>1. accounts'[j.user] # NoAccount BY NobodyVanishes DEF RoleBacked, RoleJob
<1>2. QED BY <1>1 DEF RoleBacked, Grows

LEMMA ProfileBackedStays ==
  ASSUME Grows, NEW j, ProfileBacked(j) PROVE ProfileBacked(j)'
  BY DEF ProfileBacked, Grows, ClaimOf

LEMMA TransactionStays ==
  ASSUME Inductive, Quiet \/ Saves, NEW w \in Workers, Inserted(w), Inserted(w)',
         job'[w].user = job[w].user, job'[w].row = job[w].row
  PROVE  accounts'[job[w].user] = NoAccount /\ ~Taken(job[w].row.email)'
<1>1. /\ accounts[job[w].user] = NoAccount /\ ~Taken(job[w].row.email)
      /\ job[w].user \in Users
  BY OpenTransaction
<1>2. CASE Quiet BY <1>1, <1>2 DEF Quiet, Taken
<1>3. ASSUME NEW u, NEW row, Writes(u, row)
      PROVE  accounts'[job[w].user] = NoAccount /\ ~Taken(job[w].row.email)'
  <2>1. /\ accounts'[u] = row
        /\ \A v \in Users \ {u} : accounts'[v] = accounts[v]
    BY <1>3, RowsAfter DEF Inductive
  <2>2. row.email # job[w].row.email /\ u # job[w].user
    BY <1>3 DEF Writes
  <2>3. QED BY <1>1, <2>1, <2>2 DEF Taken
<1>4. QED BY <1>2, <1>3 DEF Saves

LEMMA InviteBackedStays ==
  ASSUME Inductive, Grows, Quiet \/ Saves, NEW w \in Workers,
         job'[w] = job[w], job[w] \in InviteJob
  PROVE  InviteBacked(job[w])'
<1>1. InviteBacked(job[w]) BY DEF Inductive, JobsBacked, JobBacked
<1>2. CASE Inserted(w)
  <2>1. Inserted(w)' BY <1>2 DEF Inserted
  <2>2. accounts'[job[w].user] = NoAccount /\ ~Taken(job[w].row.email)'
    BY <1>2, <2>1, TransactionStays
  <2>3. (accounts[job[w].user] = NoAccount /\ ~Taken(job[w].row.email))'
    BY <2>2 DEF Taken
  <2>4. QED BY <1>1, <2>3 DEF InviteBacked, Grows
<1>3. CASE ~Inserted(w)
  BY <1>1, <1>3 DEF InviteBacked, Grows, Inserted
<1>4. QED BY <1>2, <1>3

LEMMA OthersStayBacked ==
  ASSUME Inductive, Grows, Quiet \/ Saves, NEW w \in Workers, NEW j,
         job[w] = j, job'[w] = j
  PROVE  JobBacked(j)'
<1>1. JobBacked(j) BY DEF Inductive, JobsBacked
<1>2. ASSUME j \in InviteJob PROVE InviteBacked(j)'
  <2>1. InviteBacked(job[w])' BY <1>2, InviteBackedStays
  <2>2. QED BY <2>1 DEF InviteBacked, Taken
<1>3. ASSUME j \in RoleJob PROVE RoleBacked(j)'
  BY <1>1, <1>3, RoleBackedStays DEF Inductive, JobBacked
<1>4. ASSUME j \in ProfileJob PROVE ProfileBacked(j)'
  BY <1>1, <1>4, ProfileBackedStays DEF JobBacked
<1>5. QED BY <1>2, <1>3, <1>4 DEF JobBacked, InviteJob, RoleJob, ProfileJob, Account, Claim

LEMMA IdleBacked == JobBacked(Idle)'
  BY DEF JobBacked, Idle, InviteJob, RoleJob, ProfileJob

(* The memory of all the workers is backed as soon as that of the acting   *)
(* one is.                                                                 *)
LEMMA OneWorkerActs ==
  ASSUME Inductive, [Next]_vars, NEW w \in Workers,
         \A v \in Workers \ {w} : job'[v] = job[v],
         \A j : j = job'[w] => JobBacked(j)'
  PROVE  JobsBacked'
<1> SUFFICES ASSUME NEW v \in Workers, NEW j, j = job'[v]
             PROVE  JobBacked(j)'
  BY DEF JobsBacked
<1>1. CASE v = w BY <1>1
<1>2. CASE v # w
  <2>1. j = job[v] BY <1>2
  <2>2. QED BY <2>1, NextGrows, NextWrites, OthersStayBacked
<1>3. QED BY <1>1, <1>2

LEMMA InvitePreserves ==
  ASSUME Inductive, [Next]_vars, NEW w \in Workers, Invite(w) \/ CreateClub(w)
  PROVE  JobsBacked'
<1>1. PICK e, r, k, o :
        /\ job' = [job EXCEPT ![w] = Invitation(e, r, k, o)]
        /\ r # "SUPER_ADMIN"
        /\ k \in clubs \cup {NoClub, o}
        /\ o # NoClub => r = "CLUB_OWNER" /\ k = o
  <2>1. CASE Invite(w)
    <3>1. PICK t \in claims, e \in Emails, r \in GrantedRoles, k \in clubs \cup {NoClub} :
            Outranks(t.role, r) /\ job' = [job EXCEPT ![w] = Invitation(e, r, k, NoClub)]
      BY <2>1 DEF Invite, Start
    <3>2. t.role \in UserRole /\ r \in UserRole
      BY AccountsAssumption DEF Inductive, TypeOK, Claim
    <3>3. r # "SUPER_ADMIN" BY <3>1, <3>2, NoneAboveSuperAdmin
    <3>4. QED BY <3>1, <3>2, <3>3
  <2>2. CASE CreateClub(w)
    <3>1. PICK e \in Emails, k \in Clubs \ clubs :
            job' = [job EXCEPT ![w] = Invitation(e, "CLUB_OWNER", k, k)]
      BY <2>2 DEF CreateClub, Start
    <3>2. "CLUB_OWNER" \in UserRole BY DEF UserRole
    <3>3. QED BY <3>1, <3>2
  <2>3. QED BY <2>1, <2>2
<1>2. \A v \in Workers \ {w} : job'[v] = job[v]
  BY <1>1 DEF Inductive, TypeOK
<1>3. clubs' = clubs BY DEF Invite, CreateClub
<1>4. ASSUME NEW j, j = job'[w] PROVE JobBacked(j)'
  <2>1. /\ j.step = "checkEmail" /\ j.row.role = r /\ j.row.club = k /\ j.opens = o
    BY <1>1, <1>4 DEF Invitation, Inductive, TypeOK
  <2>2. InviteBacked(j)' BY <1>1, <1>3, <2>1 DEF InviteBacked
  <2>3. QED BY <2>1, <2>2 DEF JobBacked, RoleJob, ProfileJob
<1>5. QED BY <1>2, <1>4, OneWorkerActs

(* What an insert that succeeds leaves in the memory of its worker.        *)
LEMMA InsertedJob ==
  ASSUME Inductive, NEW w \in Workers, InsertUser(w), job'[w] # Idle
  PROVE  /\ job'[w].step = "sendMail"
         /\ job'[w].row = job[w].row /\ job'[w].opens = job[w].opens
         /\ job'[w].user \in Users \ drawn /\ job'[w].user \in drawn'
         /\ ~Taken(job[w].row.email) /\ ~Pending(job[w].row.email)
<1>1. job[w] \in InviteJob BY JobKinds DEF Inductive, TypeOK, InsertUser
<1>2. ~Finish(w) BY DEF Finish, Inductive, TypeOK
<1>3. PICK u \in Users \ drawn :
        /\ job' = [job EXCEPT ![w].step = "sendMail", ![w].user = u]
        /\ drawn' = drawn \cup {u}
  BY <1>2 DEF InsertUser
<1>4. job'[w] = [job[w] EXCEPT !.step = "sendMail", !.user = u]
  BY <1>3 DEF Inductive, TypeOK
<1>5. /\ job'[w].step = "sendMail" /\ job'[w].user = u
      /\ job'[w].row = job[w].row /\ job'[w].opens = job[w].opens
  BY <1>1, <1>4 DEF InviteJob
<1>6. QED BY <1>2, <1>3, <1>5 DEF InsertUser

LEMMA TransactionPreserves ==
  ASSUME Inductive, [Next]_vars, NEW w \in Workers,
         CheckEmail(w) \/ InsertUser(w) \/ SendMail(w)
  PROVE  JobsBacked'
<1>1. PICK k : k = job[w] OBVIOUS
<1>2. k \in InviteJob
  BY <1>1, JobKinds DEF CheckEmail, InsertUser, SendMail, Inductive, TypeOK
<1>3. InviteBacked(k) BY <1>1, <1>2 DEF Inductive, JobsBacked, JobBacked
<1>4. \A v \in Workers \ {w} : job'[v] = job[v]
  BY DEF CheckEmail, InsertUser, SendMail, Go, Finish, Inductive, TypeOK
<1>5. clubs' = clubs /\ accounts' = accounts
  BY DEF CheckEmail, InsertUser, SendMail
<1>6. ASSUME NEW j, j = job'[w] PROVE JobBacked(j)'
  <2>1. CASE j = Idle BY <2>1, IdleBacked
  <2>2. CASE j # Idle
    <3>1. j.row = k.row /\ j.opens = k.opens
      BY <1>1, <1>2, <1>6, <2>2, InsertedJob
      DEF CheckEmail, SendMail, Go, Finish, Inductive, TypeOK, InviteJob
    <3>2. CASE CheckEmail(w)
      <4>1. j.step = "insertUser"
        BY <1>1, <1>2, <1>6, <2>2, <3>2
        DEF CheckEmail, Go, Finish, Inductive, TypeOK, InviteJob
      <4>2. InviteBacked(j)' BY <1>3, <1>5, <3>1, <4>1 DEF InviteBacked
      <4>3. QED BY <4>1, <4>2 DEF JobBacked, RoleJob, ProfileJob
    <3>3. CASE InsertUser(w)
      <4>1. ~Taken(k.row.email) /\ j.step = "sendMail"
            /\ j.user \in Users \ drawn /\ j.user \in drawn'
        BY <1>1, <1>6, <2>2, <3>3, InsertedJob
      <4>2. accounts[j.user] = NoAccount BY <4>1 DEF Inductive, RowsKnown
      <4>3. ~Taken(j.row.email)' BY <1>5, <3>1, <4>1 DEF Taken
      <4>4. InviteBacked(j)'
        BY <1>3, <1>5, <3>1, <4>1, <4>2, <4>3 DEF InviteBacked, Taken
      <4>5. QED BY <4>1, <4>4 DEF JobBacked, RoleJob, ProfileJob
    <3>4. CASE SendMail(w)
      <4>1. /\ j.step = "commit" /\ k.step = "sendMail"
            /\ j.user = k.user /\ k.user \in mailed' /\ drawn' = drawn
        BY <1>1, <1>2, <1>6, <3>4
        DEF SendMail, Go, Inductive, TypeOK, InviteJob
      <4>2. ~Taken(j.row.email)'
        BY <1>3, <1>5, <3>1, <4>1 DEF Taken, InviteBacked
      <4>3. InviteBacked(j)'
        BY <1>3, <1>5, <3>1, <4>1, <4>2 DEF InviteBacked, Taken
      <4>4. QED BY <4>1, <4>3 DEF JobBacked, RoleJob, ProfileJob
    <3>5. QED BY <3>2, <3>3, <3>4
  <2>3. QED BY <2>1, <2>2
<1>7. QED BY <1>4, <1>6, OneWorkerActs

LEMMA CheckRolePreserves ==
  ASSUME Inductive, [Next]_vars, NEW w \in Workers, CheckRole(w)
  PROVE  JobsBacked'
<1>1. PICK t \in claims, u \in Users, r \in GrantedRoles :
        /\ accounts[u] # NoAccount
        /\ MayChangeRole(t, accounts[u], r)
        /\ job' = [job EXCEPT ![w] = [step |-> "saveRole", by |-> t, user |-> u, role |-> r]]
  BY DEF CheckRole, Start
<1>2. ClaimOf(u, accounts[u]) \in claims BY <1>1 DEF Inductive, RowsKnown
<1>3. \A v \in Workers \ {w} : job'[v] = job[v]
  BY <1>1 DEF Inductive, TypeOK
<1>4. accounts' = accounts /\ claims' = claims BY DEF CheckRole
<1>5. ASSUME NEW j, j = job'[w] PROVE JobBacked(j)'
  <2>1. j = [step |-> "saveRole", by |-> t, user |-> u, role |-> r]
    BY <1>1, <1>5 DEF Inductive, TypeOK
  <2>2. \/ t.role = "SUPER_ADMIN"
        \/ \E c \in claims : /\ c.user = u /\ c.club = t.club
                             /\ Outranks(t.role, c.role)
    BY <1>1, <1>2 DEF MayChangeRole, ClaimOf
  <2>3. RoleBacked(j)'
    BY <1>1, <1>4, <2>1, <2>2 DEF RoleBacked, MayChangeRole
  <2>4. QED BY <2>1, <2>3 DEF JobBacked, InviteJob, ProfileJob
<1>6. QED BY <1>3, <1>5, OneWorkerActs

LEMMA ReadProfilePreserves ==
  ASSUME Inductive, [Next]_vars, NEW w \in Workers, ReadProfile(w)
  PROVE  JobsBacked'
<1>1. PICK u \in Users, e \in Emails :
        /\ accounts[u] # NoAccount
        /\ job' = [job EXCEPT ![w] = [step |-> "saveProfile", user |-> u,
                                      row |-> [accounts[u] EXCEPT !.email = e]]]
  BY DEF ReadProfile, Start
<1>2. PICK old : old = accounts[u] OBVIOUS
<1>3. old \in Account /\ ClaimOf(u, old) \in claims /\ old.club \in clubs \cup {NoClub}
  BY <1>1, <1>2 DEF Inductive, TypeOK, RowsKnown, ClubsExist
<1>4. \A v \in Workers \ {w} : job'[v] = job[v]
  BY <1>1 DEF Inductive, TypeOK
<1>5. claims' = claims /\ clubs' = clubs BY DEF ReadProfile
<1>6. ASSUME NEW j, j = job'[w] PROVE JobBacked(j)'
  <2>1. j.step = "saveProfile" /\ j.user = u
        /\ j.row.role = old.role /\ j.row.club = old.club
    BY <1>1, <1>2, <1>3, <1>6 DEF Inductive, TypeOK, Account
  <2>2. ProfileBacked(j)'
    BY <1>3, <1>5, <2>1 DEF ProfileBacked, ClaimOf
  <2>3. QED BY <2>1, <2>2 DEF JobBacked, InviteJob, RoleJob
<1>7. QED BY <1>4, <1>6, OneWorkerActs

LEMMA BootPreserves ==
  ASSUME Inductive, [Next]_vars, NEW w \in Workers, BeginBootstrap(w)
  PROVE  JobsBacked'
<1>1. job' = [job EXCEPT ![w] = [step |-> "insertAdmin"]]
  BY DEF BeginBootstrap, Start
<1>2. ASSUME NEW j, j = job'[w] PROVE JobBacked(j)'
  BY <1>1, <1>2 DEF Inductive, TypeOK, JobBacked, InviteJob, RoleJob, ProfileJob
<1>3. QED BY <1>1, <1>2, OneWorkerActs DEF Inductive, TypeOK

LEMMA StatsPreserves ==
  ASSUME Inductive, [Next]_vars, NEW w \in Workers, CountClubs(w)
  PROVE  JobsBacked'
<1>1. job' = [job EXCEPT ![w] = [step |-> "countUsers", clubs |-> clubs]]
  BY DEF CountClubs, Start
<1>2. ASSUME NEW j, j = job'[w] PROVE JobBacked(j)'
  BY <1>1, <1>2 DEF Inductive, TypeOK, JobBacked, InviteJob, RoleJob, ProfileJob
<1>3. QED BY <1>1, <1>2, OneWorkerActs DEF Inductive, TypeOK

LEMMA FinishPreserves ==
  ASSUME Inductive, [Next]_vars, NEW w \in Workers, Finish(w)
  PROVE  JobsBacked'
  BY IdleBacked, OneWorkerActs DEF Finish, Inductive, TypeOK

LEMMA JobsPreserved ==
  ASSUME Inductive, [Next]_vars PROVE JobsBacked'
<1>1. CASE UNCHANGED vars
  BY <1>1, NextGrows, NextWrites, OthersStayBacked DEF vars, JobsBacked
<1>2. ASSUME NEW w \in Workers, Begin(w) \/ Step(w) \/ Kill(w) PROVE JobsBacked'
  BY <1>2, InvitePreserves, TransactionPreserves, CheckRolePreserves,
     ReadProfilePreserves, BootPreserves, StatsPreserves, FinishPreserves
  DEF Begin, Step, Kill, NoKeyLeft, CountUsers, MailFails, Commit, SaveRole, SaveProfile, InsertAdmin
<1>3. QED BY <1>1, <1>2 DEF Next

(* A new transaction opens by an insert only, which took a key that nobody *)
(* had drawn and an address that no open transaction holds.                *)
LEMMA ApartPreserved ==
  ASSUME Inductive, [Next]_vars PROVE TransactionsApart'
<1>1. ASSUME \A v \in Workers :
               Inserted(v)' => /\ Inserted(v) /\ job'[v].user = job[v].user
                               /\ job'[v].row = job[v].row
      PROVE  TransactionsApart'
  BY <1>1 DEF Inductive, TransactionsApart
<1>2. ASSUME NEW w \in Workers, InsertUser(w), job'[w] # Idle
      PROVE  TransactionsApart'
  <2>1. /\ job'[w].row = job[w].row /\ job'[w].user \notin drawn
        /\ ~Pending(job[w].row.email)
    BY <1>2, InsertedJob
  <2>2. \A v \in Workers \ {w} : job'[v] = job[v]
    BY <1>2 DEF InsertUser, Finish, Inductive, TypeOK
  <2>3. ASSUME NEW v \in Workers \ {w}, Inserted(v)'
        PROVE  /\ Inserted(v) /\ job'[v].row.email # job'[w].row.email
               /\ job'[v].user # job'[w].user
    <3>1. job'[v] = job[v] /\ Inserted(v) BY <2>2, <2>3 DEF Inserted
    <3>2. job[v].user \in drawn BY <3>1, OpenTransaction
    <3>3. QED BY <2>1, <3>1, <3>2 DEF Pending
  <2>4. QED BY <2>2, <2>3 DEF Inductive, TransactionsApart
<1>3. ASSUME NEW w \in Workers, NEW j, job' = [job EXCEPT ![w] = j],
             j.step \notin {"sendMail", "commit"}
      PROVE  TransactionsApart'
  BY <1>1, <1>3 DEF Inserted, Inductive, TypeOK
<1>4. ASSUME NEW w \in Workers, Finish(w) PROVE TransactionsApart'
  BY <1>3, <1>4 DEF Finish, Idle
<1>5. ASSUME NEW w \in Workers, InsertUser(w) PROVE TransactionsApart'
  BY <1>2, <1>4, <1>5 DEF InsertUser, Finish, Inductive, TypeOK
<1>6. ASSUME NEW w \in Workers, Invite(w) \/ CreateClub(w) PROVE TransactionsApart'
  BY <1>3, <1>6 DEF Invite, CreateClub, Start, Invitation
<1>7. ASSUME NEW w \in Workers, CheckEmail(w) PROVE TransactionsApart'
  <2>1. CASE Finish(w) BY <1>4, <2>1
  <2>2. CASE Go(w, "insertUser")
    <3>1. job[w] \in InviteJob BY <1>7, JobKinds DEF CheckEmail, Inductive, TypeOK
    <3>2. job'[w].step = "insertUser" /\ \A v \in Workers \ {w} : job'[v] = job[v]
      BY <2>2, <3>1 DEF Go, Inductive, TypeOK, InviteJob
    <3>3. QED BY <1>1, <3>2 DEF Inserted
  <2>3. QED BY <1>7, <2>1, <2>2 DEF CheckEmail
<1>8. ASSUME NEW w \in Workers, SendMail(w) PROVE TransactionsApart'
  <2>1. job[w] \in InviteJob /\ Inserted(w)
    BY <1>8, JobKinds DEF SendMail, Inserted, Inductive, TypeOK
  <2>2. /\ job'[w].user = job[w].user /\ job'[w].row = job[w].row
        /\ \A v \in Workers \ {w} : job'[v] = job[v]
    BY <1>8, <2>1 DEF SendMail, Go, Inductive, TypeOK, InviteJob
  <2>3. QED BY <1>1, <2>1, <2>2 DEF Inserted
<1>9. ASSUME NEW w \in Workers,
             CheckRole(w) \/ ReadProfile(w) \/ BeginBootstrap(w) \/ CountClubs(w)
      PROVE  TransactionsApart'
  <2>1. CASE CheckRole(w) BY <1>3, <2>1 DEF CheckRole, Start
  <2>2. CASE ReadProfile(w) BY <1>3, <2>2 DEF ReadProfile, Start
  <2>3. CASE BeginBootstrap(w) BY <1>3, <2>3 DEF BeginBootstrap, Start
  <2>4. CASE CountClubs(w) BY <1>3, <2>4 DEF CountClubs, Start
  <2>5. QED BY <1>9, <2>1, <2>2, <2>3, <2>4
<1>10. CASE UNCHANGED vars BY <1>1, <1>10 DEF vars, Inserted
<1>11. QED
  BY <1>4, <1>5, <1>6, <1>7, <1>8, <1>9, <1>10
  DEF Next, Begin, Step, Kill, NoKeyLeft, CountUsers, MailFails, Commit, SaveRole,
      SaveProfile, InsertAdmin

-----------------------------------------------------------------------------
(* The inductive invariant *)

LEMMA InitInductive == ASSUME Init PROVE Inductive
<1>1. TypeOK BY InitTypeOK
<1>2. \A u \in Users :
        accounts[u] = IF u \in DOMAIN InitialAccounts THEN InitialAccounts[u] ELSE NoAccount
  BY DEF Init
<1>3. \A u \in DOMAIN InitialAccounts : u \in Users /\ accounts[u] = InitialAccounts[u]
  BY <1>2, AccountsAssumption
<1>4. \A u \in DOMAIN InitialAccounts : accounts[u] # NoAccount
  BY <1>3, AccountsAssumption, RowTypes
<1>5. RowsKnown
  BY <1>2, <1>3, <1>4 DEF Init, RowsKnown, ClaimOf
<1>6. JobsBacked
  BY DEF Init, JobsBacked, JobBacked, Idle, InviteJob, RoleJob, ProfileJob
<1>7. TransactionsApart BY DEF Init, TransactionsApart, Inserted, Idle
<1>8. UniqueEmails
  <2>1. ASSUME NEW u \in Users, NEW v \in Users, accounts[u] # NoAccount,
               accounts[u].email = accounts[v].email
        PROVE  u = v
    <3>1. accounts[u] \in Account BY <1>1, <2>1 DEF TypeOK
    <3>2. accounts[v] # NoAccount BY <2>1, <3>1, RowTypes
    <3>3. u \in DOMAIN InitialAccounts /\ v \in DOMAIN InitialAccounts
      BY <1>2, <2>1, <3>2
    <3>4. QED BY <1>3, <2>1, <3>3, AccountsAssumption
  <2>2. QED BY <2>1 DEF UniqueEmails
<1>9. InvitedWasMailed BY <1>2 DEF InvitedWasMailed, Invited
<1>10. NoAppointedSuperAdmin BY DEF Init, NoAppointedSuperAdmin
<1>11. ClubsExist
  BY <1>2 DEF Init, ClubsExist
<1>12. QED
  BY <1>1, <1>5, <1>6, <1>7, <1>8, <1>9, <1>10, <1>11 DEF Inductive

LEMMA NextInductive == ASSUME Inductive, [Next]_vars PROVE Inductive'
<1>1. TypeOK' BY NextTypeOK DEF Inductive
<1>2. QED
  BY <1>1, TablesPreserved, NoAdminAppointed, JobsPreserved, ApartPreserved DEF Inductive

(* In every behaviour of the users and clubs tables, what the workers      *)
(* remember and what the tables hold back each other.                      *)
THEOREM AccountsInductive == Spec => []Inductive
  BY InitInductive, NextInductive, PTL DEF Spec

(* No handler ever stores a value outside the columns' types.              *)
THEOREM TypeCorrect == Spec => []TypeOK
<1>1. Inductive => TypeOK BY DEF Inductive
<1>2. QED BY <1>1, AccountsInductive, PTL

(* For any number of workers, no two rows of users share an address.       *)
THEOREM EmailsStayUnique == Spec => []UniqueEmails
<1>1. Inductive => UniqueEmails BY DEF Inductive
<1>2. QED BY <1>1, AccountsInductive, PTL

(* No invited account is ever committed whose mail was not accepted.       *)
THEOREM NobodyUnmailed == Spec => []InvitedWasMailed
<1>1. Inductive => InvitedWasMailed BY DEF Inductive
<1>2. QED BY <1>1, AccountsInductive, PTL

(* No sequence of invitations, role changes and profile saves makes a      *)
(* super admin of somebody who was invited.                                *)
THEOREM SuperAdminIsNotGranted == Spec => []NoAppointedSuperAdmin
<1>1. Inductive => NoAppointedSuperAdmin BY DEF Inductive
<1>2. QED BY <1>1, AccountsInductive, PTL

(* The club of every account is a committed row of clubs.                  *)
THEOREM ClubsAreCommitted == Spec => []ClubsExist
<1>1. Inductive => ClubsExist BY DEF Inductive
<1>2. QED BY <1>1, AccountsInductive, PTL

-----------------------------------------------------------------------------
(* What a step may never do *)

(* The transaction that commits a club commits its owner.                  *)
LEMMA ClubStep ==
  ASSUME Inductive, [Next]_vars, NEW k \in clubs' \ clubs
  PROVE  \E u \in Users : /\ accounts[u] = NoAccount /\ accounts'[u] # NoAccount
                          /\ accounts'[u].role = "CLUB_OWNER" /\ accounts'[u].club = k
<1>1. PICK w \in Workers : Commit(w) /\ k = job[w].opens /\ k # NoClub
  BY DEF Next, Begin, Step, Invite, CreateClub, CheckEmail, InsertUser, SendMail,
         MailFails, Commit, SaveRole, SaveProfile, InsertAdmin, CheckRole, ReadProfile,
         BeginBootstrap, CountClubs, CountUsers, Kill, NoKeyLeft, vars
<1>2. Inserted(w) BY <1>1 DEF Commit, Inserted
<1>3. /\ accounts[job[w].user] = NoAccount /\ job[w].user \in Users
      /\ job[w].row.role = "CLUB_OWNER" /\ job[w].row.club = k
  BY <1>1, <1>2, OpenTransaction DEF InviteBacked
<1>4. accounts'[job[w].user] = job[w].row /\ accounts'[job[w].user] # NoAccount
  BY <1>1, CommitWrites, RowsAfter DEF Inductive
<1>5. QED BY <1>3, <1>4

(* A club is never committed without its owner.                            *)
THEOREM ClubsComeWithOwners == Spec => ClubWithOwner
<1>1. Inductive /\ [Next]_vars
      => [\A k \in clubs' \ clubs :
            \E u \in Users : /\ accounts[u] = NoAccount /\ accounts'[u] # NoAccount
                             /\ accounts'[u].role = "CLUB_OWNER"
                             /\ accounts'[u].club = k]_vars
  BY ClubStep
<1>2. QED BY <1>1, AccountsInductive, PTL DEF Spec, ClubWithOwner

Authorised(u) ==
  \E w \in Workers :
    \/ /\ job[w].step = "saveRole" /\ job[w].user = u
       /\ Outranks(job[w].by.role, accounts'[u].role)
       /\ \/ job[w].by.role = "SUPER_ADMIN"
          \/ \E t \in claims : /\ t.user = u /\ t.club = job[w].by.club
                                /\ Outranks(job[w].by.role, t.role)
    \/ /\ job[w].step = "saveProfile" /\ job[w].user = u
       /\ Ranked(u, accounts'[u].role)

LEMMA RoleStep ==
  ASSUME Inductive, [Next]_vars, NEW u \in Users, RoleChanges(u)
  PROVE  Authorised(u)
<1> USE DEF RoleChanges
<1>1. ASSUME NEW w \in Workers, Commit(w) PROVE FALSE
  <2>1. Writes(job[w].user, job[w].row) BY <1>1, CommitWrites
  <2>2. accounts[job[w].user] = NoAccount
    BY <1>1, OpenTransaction DEF Commit, Inserted
  <2>3. QED BY <2>1, <2>2, RowsAfter DEF Inductive
<1>2. ASSUME NEW w \in Workers, SaveRole(w) PROVE Authorised(u)
  <2>1. PICK row : /\ Writes(job[w].user, row)
                   /\ row = [accounts[job[w].user] EXCEPT !.role = job[w].role]
    BY <1>2, SaveRoleWrites
  <2>2. u = job[w].user /\ accounts'[u] = row
    BY <2>1, RowsAfter DEF Inductive
  <2>3. accounts[u] \in Account BY DEF Inductive, TypeOK
  <2>4. accounts'[u].role = job[w].role
    BY <2>1, <2>2, <2>3 DEF Account
  <2>5. RoleBacked(job[w])
    BY <1>2, JobKinds DEF SaveRole, Inductive, TypeOK, JobsBacked, JobBacked
  <2>6. QED BY <1>2, <2>2, <2>4, <2>5 DEF Authorised, SaveRole, RoleBacked
<1>3. ASSUME NEW w \in Workers, SaveProfile(w) PROVE Authorised(u)
  <2>1. Writes(job[w].user, job[w].row) BY <1>3, SaveProfileWrites
  <2>2. u = job[w].user /\ accounts'[u] = job[w].row
    BY <2>1, RowsAfter DEF Inductive
  <2>3. ProfileBacked(job[w])
    BY <1>3, JobKinds DEF SaveProfile, Inductive, TypeOK, JobsBacked, JobBacked
  <2>4. Ranked(u, accounts'[u].role)
    BY <2>2, <2>3 DEF ProfileBacked, ClaimOf, Ranked
  <2>5. QED BY <1>3, <2>2, <2>4 DEF Authorised, SaveProfile
<1>4. ASSUME NEW w \in Workers, InsertAdmin(w) PROVE FALSE
  <2>1. PICK v \in Users \ drawn : Writes(v, AdminRow)
    BY <1>4, InsertAdminWrites DEF Quiet
  <2>2. accounts[v] = NoAccount BY DEF Inductive, RowsKnown
  <2>3. QED BY <2>1, <2>2, RowsAfter DEF Inductive
<1>5. CASE UNCHANGED accounts BY <1>5
<1>6. QED
  BY <1>1, <1>2, <1>3, <1>4, <1>5
  DEF Next, Begin, Step, Invite, CreateClub, CheckEmail, InsertUser, SendMail,
      MailFails, CheckRole, ReadProfile, BeginBootstrap, CountClubs, CountUsers, Kill,
      NoKeyLeft, vars

(* Every change of a role is one that its updater was allowed to make when *)
(* the target was read, or a return to a role the user has had.            *)
THEOREM RolesChangeByRank == Spec => RoleChangesWereAuthorised
<1>1. Inductive /\ [Next]_vars => [\A u \in Users : RoleChanges(u) => Authorised(u)]_vars
  BY RoleStep
<1>2. QED BY <1>1, AccountsInductive, PTL DEF Spec, RoleChangesWereAuthorised, Authorised

-----------------------------------------------------------------------------
(* The figures of the dashboard                                            *)

LEMMA InitClubs == ASSUME Init PROVE ClubsInductive
<1>1. Inductive BY InitInductive
<1>2. \A t \in claims : \E u \in DOMAIN InitialAccounts :
        /\ t.user = u /\ t.role = InitialAccounts[u].role /\ t.club = InitialAccounts[u].club
  BY DEF Init, ClaimOf
<1>3. ClubKept BY <1>2 DEF ClubKept
<1>4. AdminsClubless
  <2>1. \A u \in DOMAIN InitialAccounts :
          InitialAccounts[u].role = "SUPER_ADMIN" => InitialAccounts[u].club = NoClub
    BY AccountsAssumption
  <2>2. QED BY <1>2, <2>1 DEF AdminsClubless
<1>5. CountBacked BY DEF Init, Idle, CountBacked
<1>6. ASSUME NEW k \in clubs PROVE Staffed(k)
  <2>1. PICK u \in DOMAIN InitialAccounts : InitialAccounts[u].club = k BY <1>6 DEF Init
  <2>2. u \in Users /\ InitialAccounts[u] \in Account BY AccountsAssumption
  <2>3. accounts[u] = InitialAccounts[u] BY <2>2 DEF Init
  <2>4. QED BY <2>1, <2>2, <2>3, RowTypes DEF Staffed
<1>7. QED BY <1>1, <1>3, <1>4, <1>5, <1>6 DEF ClubsInductive

(* Who has an account has had its club ever since.                         *)
LEMMA SameClub ==
  ASSUME ClubsInductive, NEW t \in claims
  PROVE  accounts[t.user] # NoAccount => accounts[t.user].club = t.club
<1>1. t.user \in Users BY DEF ClubsInductive, Inductive, TypeOK, Claim
<1>2. ASSUME accounts[t.user] # NoAccount PROVE accounts[t.user].club = t.club
  <2>1. PICK c \in claims : c = ClaimOf(t.user, accounts[t.user])
    BY <1>1, <1>2 DEF ClubsInductive, Inductive, RowsKnown
  <2>2. c.user = t.user /\ c.club = accounts[t.user].club BY <2>1 DEF ClaimOf
  <2>3. QED BY <2>1, <2>2 DEF ClubsInductive, ClubKept
<1>3. QED BY <1>2

(* What is saved keeps the club of the user, and makes no super admin in a *)
(* club.                                                                   *)
KeepsClub(u, row) ==
  /\ accounts[u] # NoAccount => row.club = accounts[u].club
  /\ row.role = "SUPER_ADMIN" => row.club = NoClub

LEMMA ClubStays ==
  ASSUME ClubsInductive, [Next]_vars
  PROVE  Quiet \/ \E u, row : Writes(u, row) /\ KeepsClub(u, row)
<1>0. Inductive BY DEF ClubsInductive
<1>1. ASSUME NEW w \in Workers, Commit(w)
      PROVE  \E u, row : Writes(u, row) /\ KeepsClub(u, row)
  <2>1. Inserted(w) BY <1>1 DEF Commit, Inserted
  <2>2. accounts[job[w].user] = NoAccount /\ job[w].row.role # "SUPER_ADMIN"
    BY <1>0, <2>1, OpenTransaction DEF InviteBacked
  <2>3. QED BY <1>0, <1>1, <2>2, CommitWrites DEF KeepsClub
<1>2. ASSUME NEW w \in Workers, SaveRole(w)
      PROVE  \E u, row : Writes(u, row) /\ KeepsClub(u, row)
  <2>1. PICK u, row : /\ Writes(u, row) /\ u = job[w].user
                      /\ row = [accounts[u] EXCEPT !.role = job[w].role]
                      /\ job[w].role # "SUPER_ADMIN"
    BY <1>0, <1>2, SaveRoleWrites
  <2>2. job[w] \in RoleJob BY <1>0, <1>2, JobKinds DEF Inductive, TypeOK, SaveRole
  <2>3. RoleBacked(job[w]) BY <1>0, <2>2 DEF Inductive, JobsBacked, JobBacked
  <2>4. u \in Users /\ accounts[u] # NoAccount
    BY <2>1, <2>2, <2>3 DEF RoleBacked, RoleJob
  <2>5. accounts[u] \in Account BY <1>0, <2>4 DEF Inductive, TypeOK
  <2>6. row.club = accounts[u].club /\ row.role = job[w].role
    BY <2>1, <2>5 DEF Account
  <2>7. QED BY <2>1, <2>6 DEF KeepsClub
<1>3. ASSUME NEW w \in Workers, SaveProfile(w)
      PROVE  Quiet \/ \E u, row : Writes(u, row) /\ KeepsClub(u, row)
  <2>1. CASE UNCHANGED accounts BY <1>3, <2>1 DEF SaveProfile, Quiet
  <2>2. CASE Writes(job[w].user, job[w].row)
    <3>1. PICK u, row : u = job[w].user /\ row = job[w].row OBVIOUS
    <3>2. job[w] \in ProfileJob BY <1>0, <1>3, JobKinds DEF Inductive, TypeOK, SaveProfile
    <3>3. ClaimOf(u, row) \in claims
      BY <1>0, <3>1, <3>2 DEF Inductive, JobsBacked, JobBacked, ProfileBacked
    <3>4. PICK c \in claims : c.user = u /\ c.club = row.club /\ c.role = row.role
      BY <3>3 DEF ClaimOf
    <3>5. KeepsClub(u, row)
      BY <3>4, SameClub DEF KeepsClub, ClubsInductive, AdminsClubless
    <3>6. QED BY <2>2, <3>1, <3>5
  <2>3. QED BY <1>0, <1>3, <2>1, <2>2, SaveProfileWrites
<1>4. ASSUME NEW w \in Workers, InsertAdmin(w)
      PROVE  Quiet \/ \E u, row : Writes(u, row) /\ KeepsClub(u, row)
  <2>1. ASSUME NEW u \in Users \ drawn, Writes(u, AdminRow) PROVE KeepsClub(u, AdminRow)
    <3>1. accounts[u] = NoAccount BY <1>0, <2>1 DEF Inductive, RowsKnown
    <3>2. AdminRow.club = NoClub BY DEF AdminRow
    <3>3. QED BY <3>1, <3>2 DEF KeepsClub
  <2>2. QED BY <1>0, <1>4, <2>1, InsertAdminWrites
<1>5. CASE Quiet BY <1>5
<1>6. QED
  BY <1>1, <1>2, <1>3, <1>4, <1>5
  DEF Next, Begin, Step, Invite, CreateClub, CheckEmail, InsertUser, SendMail,
      MailFails, CheckRole, ReadProfile, BeginBootstrap, CountClubs, CountUsers, Kill,
      NoKeyLeft, vars, Quiet

(* Nobody leaves a club.                                                   *)
LEMMA StaffStays ==
  ASSUME ClubsInductive, [Next]_vars, NEW k, Staffed(k)
  PROVE  Staffed(k)'
<1>1. PICK v \in Users : accounts[v] # NoAccount /\ accounts[v].club = k BY DEF Staffed
<1>2. CASE Quiet BY <1>1, <1>2 DEF Quiet, Staffed
<1>3. ASSUME NEW u, NEW row, Writes(u, row), KeepsClub(u, row) PROVE Staffed(k)'
  <2>1. TypeOK BY DEF ClubsInductive, Inductive
  <2>2. /\ accounts'[u] = row /\ accounts'[u] # NoAccount
        /\ \A x \in Users \ {u} : accounts'[x] = accounts[x]
    BY <1>3, <2>1, RowsAfter
  <2>3. accounts'[v] # NoAccount /\ accounts'[v].club = k
    BY <1>1, <1>3, <2>2 DEF KeepsClub
  <2>4. QED BY <2>3 DEF Staffed
<1>4. QED BY <1>2, <1>3, ClubStays

LEMMA ClaimsKeepClub ==
  ASSUME ClubsInductive, [Next]_vars
  PROVE  ClubKept' /\ AdminsClubless'
<1>1. CASE Quiet BY <1>1 DEF Quiet, ClubsInductive, ClubKept, AdminsClubless
<1>2. ASSUME NEW u, NEW row, Writes(u, row), KeepsClub(u, row)
      PROVE  ClubKept' /\ AdminsClubless'
  <2> DEFINE c == ClaimOf(u, row)
  <2>1. c.user = u /\ c.role = row.role /\ c.club = row.club BY DEF ClaimOf
  <2>2. claims' = claims \cup {c} BY <1>2 DEF Writes
  <2> HIDE DEF c
  <2>3. \A t \in claims : t.user = u => t.club = row.club
    BY <1>2, SameClub DEF KeepsClub, ClubsInductive, Inductive, RowsKnown
  <2>4. ClubKept' BY <2>1, <2>2, <2>3 DEF ClubsInductive, ClubKept
  <2>5. AdminsClubless'
    BY <1>2, <2>1, <2>2 DEF ClubsInductive, AdminsClubless, KeepsClub
  <2>6. QED BY <2>4, <2>5
<1>3. QED BY <1>1, <1>2, ClubStays

(* Only CountClubs remembers a count.                                      *)
LEMMA CountJobs ==
  ASSUME Inductive, [Next]_vars, NEW w \in Workers, job'[w].step = "countUsers"
  PROVE  job'[w] = job[w] \/ CountClubs(w)
<1>1. \A j \in {Idle} : j.step # "countUsers" BY DEF Idle
<1>2. ASSUME NEW v \in Workers, Begin(v) \/ Step(v) \/ Kill(v)
      PROVE  job'[w] = job[w] \/ CountClubs(w)
  <2>1. \A x \in Workers \ {v} : job'[x] = job[x]
    BY <1>2
    DEF Begin, Step, Invite, CreateClub, CheckEmail, InsertUser, SendMail, MailFails,
        Commit, SaveRole, SaveProfile, InsertAdmin, CheckRole, ReadProfile,
        BeginBootstrap, CountClubs, CountUsers, Kill, NoKeyLeft, Start, Go, Finish,
        Inductive, TypeOK
  <2>2. CASE v = w
    <3>1. CASE Finish(v) BY <1>1, <2>2, <3>1 DEF Finish, Inductive, TypeOK
    <3>2. CASE Begin(v)
      <4>1. \A j : Start(v, j) => job'[v] = j BY DEF Start, Inductive, TypeOK
      <4>2. \A e, r, c, o : Invitation(e, r, c, o).step = "checkEmail" BY DEF Invitation
      <4>3. Invite(v) \/ CreateClub(v) => job'[v].step = "checkEmail"
        BY <4>1, <4>2 DEF Invite, CreateClub
      <4>4. CheckRole(v) => job'[v].step = "saveRole" BY <4>1 DEF CheckRole
      <4>5. ReadProfile(v) => job'[v].step = "saveProfile" BY <4>1 DEF ReadProfile
      <4>6. BeginBootstrap(v) => job'[v].step = "insertAdmin" BY <4>1 DEF BeginBootstrap
      <4>7. QED BY <2>2, <3>2, <4>3, <4>4, <4>5, <4>6 DEF Begin
    <3>3. ASSUME CheckEmail(v) \/ InsertUser(v) \/ SendMail(v), ~Finish(v) PROVE FALSE
      <4>1. job[v] \in InviteJob
        BY <3>3, JobKinds DEF CheckEmail, InsertUser, SendMail, Inductive, TypeOK
      <4>2. job'[v].step \in {"insertUser", "sendMail", "commit"}
        BY <3>3, <4>1
        DEF CheckEmail, InsertUser, SendMail, Go, Inductive, TypeOK, InviteJob
      <4>3. QED BY <2>2, <4>2
    <3>4. QED
      BY <1>2, <3>1, <3>2, <3>3
      DEF Step, MailFails, Commit, SaveRole, SaveProfile, InsertAdmin, CountUsers, Kill,
          NoKeyLeft
  <2>3. QED BY <2>1, <2>2
<1>3. CASE UNCHANGED vars BY <1>3 DEF vars
<1>4. QED BY <1>2, <1>3 DEF Next

LEMMA NextClubs == ASSUME ClubsInductive, [Next]_vars PROVE ClubsInductive'
<1>1. Inductive /\ Inductive' BY NextInductive DEF ClubsInductive
<1>2. ClubKept' /\ AdminsClubless' BY ClaimsKeepClub
<1>3. ASSUME NEW k \in clubs' PROVE Staffed(k)'
  <2>1. CASE k \in clubs BY <2>1, StaffStays DEF ClubsInductive
  <2>2. CASE k \notin clubs BY <1>1, <1>3, <2>2, ClubStep DEF Staffed
  <2>3. QED BY <2>1, <2>2
<1>4. ASSUME NEW w \in Workers, job'[w].step = "countUsers"
      PROVE  job'[w].clubs \subseteq clubs' /\ Staffed(NoClub)'
  <2>1. clubs \subseteq clubs' BY NextGrows DEF Grows
  <2>2. CASE job'[w] = job[w]
    BY <1>4, <2>1, <2>2, StaffStays DEF ClubsInductive, CountBacked
  <2>3. CASE CountClubs(w)
    <3>1. PICK t \in claims : t.role = "SUPER_ADMIN" BY <2>3 DEF CountClubs
    <3>2. t.user \in Users /\ accounts[t.user] # NoAccount /\ t.club = NoClub
      BY <1>1, <3>1 DEF Inductive, TypeOK, Claim, RowsKnown, ClubsInductive, AdminsClubless
    <3>3. Staffed(NoClub) BY <3>1, <3>2, SameClub DEF Staffed
    <3>4. job'[w].clubs = clubs BY <1>1, <2>3 DEF CountClubs, Start, Inductive, TypeOK
    <3>5. QED BY <2>1, <3>3, <3>4, StaffStays
  <2>4. QED BY <1>1, <1>4, <2>2, <2>3, CountJobs
<1>5. CountBacked' BY <1>4 DEF CountBacked
<1>6. QED BY <1>1, <1>2, <1>3, <1>5 DEF ClubsInductive

(* The users who count for a club, and one who counts for none, are as     *)
(* many as the clubs and one more.                                         *)
LEMMA ClubsFewerThanUsers ==
  ASSUME ClubsInductive, NEW C \in SUBSET clubs, Staffed(NoClub)
  PROVE  Cardinality(C) < TotalUsers
<1> DEFINE S == {u \in Users : accounts[u] # NoAccount}
           T == {accounts[u].club : u \in S}
           f == [u \in S |-> accounts[u].club]
<1>1. IsFiniteSet(S) BY AccountsAssumption, FS_Subset
<1>2. f \in Surjection(S, T) BY DEF Surjection
<1>3. IsFiniteSet(T) /\ Cardinality(T) <= Cardinality(S) BY <1>1, <1>2, FS_Surjection
<1>4. C \cup {NoClub} \in SUBSET T BY DEF ClubsInductive, Staffed
<1>5. IsFiniteSet(C) BY <1>3, <1>4, FS_Subset
<1>6. NoClub \notin C BY AccountsAssumption DEF ClubsInductive, Inductive, TypeOK
<1>7. Cardinality(C \cup {NoClub}) = Cardinality(C) + 1 BY <1>5, <1>6, FS_AddElement
<1>8. Cardinality(C \cup {NoClub}) <= Cardinality(T) BY <1>3, <1>4, FS_Subset
<1>9. Cardinality(C) \in Nat /\ Cardinality(T) \in Nat /\ Cardinality(S) \in Nat
  BY <1>1, <1>3, <1>5, FS_CardinalityType
<1>10. Cardinality(C) < Cardinality(S) BY <1>3, <1>7, <1>8, <1>9
<1>11. QED BY <1>10 DEF TotalUsers

(* Users keep their clubs, and clubs the accounts that belong to them.     *)
THEOREM ClubsStayStaffed == Spec => []ClubsInductive
  BY InitClubs, NextClubs, PTL DEF Spec

(* However many clubs and users appear between the two queries of the      *)
(* dashboard, the users it counts are more than the clubs it counted.      *)
THEOREM StatsAgree == Spec => []StatsCoverClubs
<1>1. ClubsInductive => StatsCoverClubs
  BY ClubsFewerThanUsers DEF ClubsInductive, CountBacked, StatsCoverClubs
<1>2. QED BY <1>1, ClubsStayStaffed, PTL
=============================================================================
