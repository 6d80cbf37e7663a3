------------------------------ MODULE Accounts ------------------------------
(***************************************************************************)
(* The users and clubs tables: invitation, club creation, role changes,    *)
(* profile updates, the bootstrap of the super admin and the dashboard     *)
(* (apps/users/services.py, apps/clubs/services.py,                        *)
(* apps/dashboard/services.py).                                            *)
(*                                                                         *)
(* invite_staff_member and create_club run in one database transaction:    *)
(* what they insert is seen by others at the commit only, but the unique   *)
(* index on users.email makes any other writer of the same address wait    *)
(* until that transaction ends.  Every other statement commits by itself.  *)
(* Invitation mail is sent inside the transaction (production settings).   *)
(***************************************************************************)
EXTENDS Roles, FiniteSets

CONSTANTS
  Workers,        \* gunicorn worker processes, and the entrypoint's command
  Users,          \* primary keys of the users table
  Emails,
  Clubs,          \* primary keys of the clubs table
  NoClub,         \* club_id NULL
  AdminEmail,     \* settings.SUPER_ADMIN_EMAIL
  InitialAccounts,\* [SUBSET Users -> Account]: the rows at the start
  GrantedRoles,   \* the roles invitations and role changes ask for
  Crashes         \* may a worker be killed in the middle of a request?

Account == [email : Emails, role : UserRole, club : Clubs \cup {NoClub}]
NoAccount == [email |-> ""]

ASSUME AccountsAssumption ==
  /\ NoClub \notin Clubs
  /\ "" \notin Emails
  /\ AdminEmail \in Emails
  /\ IsFiniteSet(Users)
  /\ DOMAIN InitialAccounts \subseteq Users
  /\ \A u \in DOMAIN InitialAccounts : InitialAccounts[u] \in Account
  /\ \A u, v \in DOMAIN InitialAccounts :
       InitialAccounts[u].email = InitialAccounts[v].email => u = v
  /\ \A u \in DOMAIN InitialAccounts :    \* bootstrap_super_admin gives no club
       InitialAccounts[u].role = "SUPER_ADMIN" => InitialAccounts[u].club = NoClub
  /\ GrantedRoles \subseteq UserRole
  /\ Crashes \in BOOLEAN

VARIABLES
  accounts,       \* the committed rows of users
  clubs,          \* the committed rows of clubs
  job,            \* what each worker is doing
  drawn,          \* primary keys drawn so far, by failed inserts too
  claims,         \* history: what a token issued to a user may claim
  mailed          \* history: users whose invitation the mail server accepted

vars == <<accounts, clubs, job, drawn, claims, mailed>>

Claim == [user : Users, role : UserRole, club : Clubs \cup {NoClub}]

(* In an invitation, opens is the club that the same transaction creates.  *)
Idle == [step |-> "idle"]
InviteJob ==
  [step : {"checkEmail", "insertUser", "sendMail", "commit"},
   user : Users \cup {""}, row : Account, opens : Clubs \cup {NoClub}]
RoleJob == [step : {"saveRole"}, by : Claim, user : Users, role : UserRole]
ProfileJob == [step : {"saveProfile"}, user : Users, row : Account]
BootJob == [step : {"insertAdmin"}]
StatsJob == [step : {"countUsers"}, clubs : SUBSET Clubs]
Job == {Idle} \cup InviteJob \cup RoleJob \cup ProfileJob \cup BootJob \cup StatsJob

ClaimOf(u, row) == [user |-> u, role |-> row.role, club |-> row.club]

(* The type invariant.                                                     *)
TypeOK ==
  /\ accounts \in [Users -> Account \cup {NoAccount}]
  /\ clubs \subseteq Clubs
  /\ job \in [Workers -> Job]
  /\ drawn \subseteq Users
  /\ claims \subseteq Claim
  /\ mailed \subseteq drawn

Init ==
  /\ accounts = [u \in Users |-> IF u \in DOMAIN InitialAccounts
                                 THEN InitialAccounts[u] ELSE NoAccount]
  /\ clubs = {InitialAccounts[u].club : u \in DOMAIN InitialAccounts} \ {NoClub}
  /\ job = [w \in Workers |-> Idle]
  /\ drawn = DOMAIN InitialAccounts
  /\ claims = {ClaimOf(u, InitialAccounts[u]) : u \in DOMAIN InitialAccounts}
  /\ mailed = {}

Start(w, j) == job[w] = Idle /\ job' = [job EXCEPT ![w] = j]
Go(w, step) == job' = [job EXCEPT ![w].step = step]
Finish(w) == job' = [job EXCEPT ![w] = Idle]

-----------------------------------------------------------------------------
(* The unique index on users.email *)

Taken(e) == \E u \in Users : accounts[u] # NoAccount /\ accounts[u].email = e

(* A transaction that has inserted e has not ended: others wait for it.    *)
Inserted(w) == job[w].step \in {"sendMail", "commit"}
Pending(e) == \E v \in Workers : Inserted(v) /\ job[v].row.email = e

-----------------------------------------------------------------------------
(* POST /users/invite: invite_staff_member; POST /clubs: create_club *)

Invitation(e, r, c, opens) ==
  [step |-> "checkEmail", user |-> "", opens |-> opens,
   row |-> [email |-> e, role |-> r, club |-> c]]

(* The rank and the club come from the token; only a super admin names the *)
(* club, or none.  The club must exist.                                    *)
Invite(w) ==
  /\ \E t \in claims, e \in Emails, r \in GrantedRoles, k \in clubs \cup {NoClub} :
       /\ Outranks(t.role, r)
       /\ t.role # "SUPER_ADMIN" => k = t.club
       /\ Start(w, Invitation(e, r, k, NoClub))
  /\ UNCHANGED <<accounts, clubs, drawn, claims, mailed>>

(* The club row is inserted first, in the same transaction; its owner is   *)
(* invited without the checks of an inviter.                               *)
CreateClub(w) ==
  /\ \E t \in claims, e \in Emails, k \in Clubs \ clubs :
       /\ t.role = "SUPER_ADMIN"
       /\ \A v \in Workers : job[v] \in InviteJob => job[v].opens # k
       /\ Start(w, Invitation(e, "CLUB_OWNER", k, k))
  /\ UNCHANGED <<accounts, clubs, drawn, claims, mailed>>

(* Faulty variant: the mail goes out before the row is inserted.           *)
CheckEmailThenMail(w) ==
  /\ job[w].step = "checkEmail"
  /\ IF Taken(job[w].row.email) THEN Finish(w) ELSE Go(w, "sendMail")
  /\ UNCHANGED <<accounts, clubs, drawn, claims, mailed>>

CheckEmail(w) ==
  /\ job[w].step = "checkEmail"
  /\ IF Taken(job[w].row.email) THEN Finish(w) ELSE Go(w, "insertUser")
  /\ UNCHANGED <<accounts, clubs, drawn, claims, mailed>>

(* Faulty variants: no index on email; no mail.                            *)
InsertUserUnindexed(w) ==
  /\ job[w].step = "insertUser"
  /\ \E u \in Users \ drawn :
       /\ job' = [job EXCEPT ![w].step = "sendMail", ![w].user = u]
       /\ drawn' = drawn \cup {u}
  /\ UNCHANGED <<accounts, clubs, claims, mailed>>

InsertUserUnmailed(w) ==
  /\ job[w].step = "insertUser"
  /\ ~Pending(job[w].row.email)
  /\ ~Taken(job[w].row.email)
  /\ \E u \in Users \ drawn :
       /\ job' = [job EXCEPT ![w].step = "commit", ![w].user = u]
       /\ drawn' = drawn \cup {u}
  /\ UNCHANGED <<accounts, clubs, claims, mailed>>

(* The index makes the insert wait, then refuses it or lets it in.         *)
InsertUser(w) ==
  /\ job[w].step = "insertUser"
  /\ ~Pending(job[w].row.email)
  /\ \/ /\ Taken(job[w].row.email)
        /\ Finish(w)
        /\ UNCHANGED drawn
     \/ /\ ~Taken(job[w].row.email)
        /\ \E u \in Users \ drawn :
             /\ job' = [job EXCEPT ![w].step = "sendMail", ![w].user = u]
             /\ drawn' = drawn \cup {u}
  /\ UNCHANGED <<accounts, clubs, claims, mailed>>

SendMail(w) ==
  /\ job[w].step = "sendMail"
  /\ mailed' = mailed \cup {job[w].user}
  /\ Go(w, "commit")
  /\ UNCHANGED <<accounts, clubs, drawn, claims>>

(* Faulty variant: the club was created in a transaction of its own.       *)
MailFailsAfterClub(w) ==
  /\ job[w].step = "sendMail"
  /\ clubs' = clubs \cup ({job[w].opens} \ {NoClub})
  /\ Finish(w)
  /\ UNCHANGED <<accounts, drawn, claims, mailed>>

(* An error from the mail server, whether or not it accepted the mail,     *)
(* rolls the user and the club back.                                       *)
MailFails(w) ==
  /\ job[w].step = "sendMail"
  /\ mailed' \in {mailed, mailed \cup {job[w].user}}
  /\ Finish(w)
  /\ UNCHANGED <<accounts, clubs, drawn, claims>>

(* Faulty variant: the user is committed and the club is not.              *)
CommitUserOnly(w) ==
  /\ job[w].step = "commit"
  /\ accounts' = [accounts EXCEPT ![job[w].user] = job[w].row]
  /\ claims' = claims \cup {ClaimOf(job[w].user, job[w].row)}
  /\ Finish(w)
  /\ UNCHANGED <<clubs, drawn, mailed>>

Commit(w) ==
  /\ job[w].step = "commit"
  /\ accounts' = [accounts EXCEPT ![job[w].user] = job[w].row]
  /\ clubs' = clubs \cup ({job[w].opens} \ {NoClub})
  /\ claims' = claims \cup {ClaimOf(job[w].user, job[w].row)}
  /\ Finish(w)
  /\ UNCHANGED <<drawn, mailed>>

-----------------------------------------------------------------------------
(* PATCH /users/:id/role: update_role *)

(* Faulty variant: only the new role is compared with the updater's.       *)
MayChangeRoleTo(t, row, r) == Outranks(t.role, r)

MayChangeRole(t, row, r) ==
  /\ t.role # "SUPER_ADMIN" => row.club = t.club /\ Outranks(t.role, row.role)
  /\ Outranks(t.role, r)

(* The target is read and the updater's rights over it are checked ...     *)
CheckRole(w) ==
  /\ \E t \in claims, u \in Users, r \in GrantedRoles :
       /\ accounts[u] # NoAccount
       /\ MayChangeRole(t, accounts[u], r)
       /\ Start(w, [step |-> "saveRole", by |-> t, user |-> u, role |-> r])
  /\ UNCHANGED <<accounts, clubs, drawn, claims, mailed>>

(* ... and its role column is saved, whatever it holds by now.             *)
SaveRole(w) ==
  /\ job[w].step = "saveRole"
  /\ accounts' = [accounts EXCEPT ![job[w].user].role = job[w].role]
  /\ claims' = claims \cup {ClaimOf(job[w].user, accounts'[job[w].user])}
  /\ Finish(w)
  /\ UNCHANGED <<clubs, drawn, mailed>>

-----------------------------------------------------------------------------
(* PATCH /users/me: update_profile *)

ReadProfile(w) ==
  /\ \E u \in Users, e \in Emails :
       /\ accounts[u] # NoAccount
       /\ Start(w, [step |-> "saveProfile", user |-> u,
                    row |-> [accounts[u] EXCEPT !.email = e]])
  /\ UNCHANGED <<accounts, clubs, drawn, claims, mailed>>

(* Every column is saved; the index refuses the address of somebody else.  *)
SaveProfile(w) ==
  /\ job[w].step = "saveProfile"
  /\ ~Pending(job[w].row.email)
  /\ IF \E u \in Users \ {job[w].user} :
          accounts[u] # NoAccount /\ accounts[u].email = job[w].row.email
     THEN UNCHANGED accounts
     ELSE accounts' = [accounts EXCEPT ![job[w].user] = job[w].row]
  /\ Finish(w)
  /\ UNCHANGED <<clubs, drawn, claims, mailed>>

-----------------------------------------------------------------------------
(* manage.py bootstrap_superadmin at each start: bootstrap_super_admin *)

HasSuperAdmin(rows) ==
  \E u \in Users : rows[u] # NoAccount /\ rows[u].role = "SUPER_ADMIN"

(* That the super admins there are may use the administration site, which   *)
(* the UPDATE before this check sees to, is left out with its two flags.   *)
BeginBootstrap(w) ==
  /\ ~HasSuperAdmin(accounts)
  /\ Start(w, [step |-> "insertAdmin"])
  /\ UNCHANGED <<accounts, clubs, drawn, claims, mailed>>

(* An address in use fails the command, and the entrypoint goes on.        *)
InsertAdmin(w) ==
  /\ job[w].step = "insertAdmin"
  /\ ~Pending(AdminEmail)
  /\ IF Taken(AdminEmail)
     THEN UNCHANGED <<accounts, drawn, claims>>
     ELSE \E u \in Users \ drawn :
            LET row == [email |-> AdminEmail, role |-> "SUPER_ADMIN", club |-> NoClub] IN
            /\ accounts' = [accounts EXCEPT ![u] = row]
            /\ drawn' = drawn \cup {u}
            /\ claims' = claims \cup {ClaimOf(u, row)}
  /\ Finish(w)
  /\ UNCHANGED <<clubs, mailed>>

-----------------------------------------------------------------------------
(* GET /dashboard/super-admin: get_super_admin_stats *)

(* The clubs are counted by one query and the users by another: each sees  *)
(* what is committed when it runs.                                         *)
CountClubs(w) ==
  /\ \E t \in claims : t.role = "SUPER_ADMIN"
  /\ Start(w, [step |-> "countUsers", clubs |-> clubs])
  /\ UNCHANGED <<accounts, clubs, drawn, claims, mailed>>

TotalUsers == Cardinality({u \in Users : accounts[u] # NoAccount})

CountUsers(w) ==
  /\ job[w].step = "countUsers"
  /\ Finish(w)
  /\ UNCHANGED <<accounts, clubs, drawn, claims, mailed>>

-----------------------------------------------------------------------------

(* A killed worker loses its connection: an open transaction rolls back.   *)
Kill(w) ==
  /\ Crashes
  /\ job[w] # Idle
  /\ Finish(w)
  /\ UNCHANGED <<accounts, clubs, drawn, claims, mailed>>

(* Bound: an insert for which no primary key is left gives up.             *)
NoKeyLeft(w) ==
  /\ job[w].step \in {"insertUser", "insertAdmin"}
  /\ drawn = Users
  /\ Finish(w)
  /\ UNCHANGED <<accounts, clubs, drawn, claims, mailed>>

Step(w) ==
  \/ CheckEmail(w) \/ InsertUser(w) \/ SendMail(w) \/ MailFails(w) \/ Commit(w)
  \/ SaveRole(w) \/ SaveProfile(w) \/ InsertAdmin(w) \/ CountUsers(w) \/ NoKeyLeft(w)

Begin(w) ==
  \/ Invite(w) \/ CreateClub(w) \/ CheckRole(w) \/ ReadProfile(w)
  \/ BeginBootstrap(w) \/ CountClubs(w)

Next == \E w \in Workers : Begin(w) \/ Step(w) \/ Kill(w)

Spec == Init /\ [][Next]_vars

-----------------------------------------------------------------------------
(* Safety, for any number of workers, whatever is killed *)

(* Two accounts never share an address, although invitations, profile      *)
(* updates and the bootstrap all check it before they write.               *)
UniqueEmails ==
  \A u, v \in Users :
    accounts[u] # NoAccount /\ accounts[u].email = accounts[v].email => u = v

Invited(u) == accounts[u] # NoAccount /\ u \notin DOMAIN InitialAccounts
Ranked(u, r) == \E t \in claims : t.user = u /\ t.role = r

(* An invited account exists only if the mail with its temporary password  *)
(* was accepted: "a failed prod email rolls back the user"                 *)
(* (users/services.py:54).  The bootstrapped administrator is not mailed.  *)
InvitedWasMailed ==
  \A u \in Users : Invited(u) => u \in mailed \/ Ranked(u, "SUPER_ADMIN")

(* Nobody who was invited ever holds SUPER_ADMIN, through no sequence of   *)
(* invitations, role changes and stale profile saves: only the bootstrap   *)
(* makes one.                                                              *)
NoAppointedSuperAdmin ==
  \A u \in mailed : ~Ranked(u, "SUPER_ADMIN")

(* No account belongs to a club whose creation was rolled back.            *)
ClubsExist ==
  \A u \in Users : accounts[u] # NoAccount => accounts[u].club \in clubs \cup {NoClub}

(* The figures of the dashboard agree although no transaction holds them   *)
(* together: whatever commits between its two queries, the answer counts   *)
(* an owner for every club, and an administrator of no club besides.       *)
StatsCoverClubs ==
  \A w \in Workers :
    job[w].step = "countUsers" => Cardinality(job[w].clubs) < TotalUsers

(* The inductive invariant behind these.  What a token may claim of a user *)
(* covers every account as it is, and accounts that exist only.  What a    *)
(* worker is about to write is what it was allowed to write: an open       *)
(* transaction owns its address and its key alone, and what a role change  *)
(* or a profile save writes was true of the user once.                     *)
RowsKnown ==
  /\ \A u \in Users : accounts[u] # NoAccount
                      => u \in drawn /\ ClaimOf(u, accounts[u]) \in claims
  /\ \A t \in claims : accounts[t.user] # NoAccount

InviteBacked(j) ==
  /\ j.row.role # "SUPER_ADMIN"
  /\ j.row.club \in clubs \cup {NoClub, j.opens}
  /\ j.opens # NoClub => j.row.role = "CLUB_OWNER" /\ j.row.club = j.opens
  /\ j.step \in {"sendMail", "commit"}
       => j.user \in drawn /\ accounts[j.user] = NoAccount /\ ~Taken(j.row.email)
  /\ j.step = "commit" => j.user \in mailed

RoleBacked(j) ==
  /\ accounts[j.user] # NoAccount
  /\ Outranks(j.by.role, j.role)
  /\ \/ j.by.role = "SUPER_ADMIN"
     \/ \E t \in claims : /\ t.user = j.user /\ t.club = j.by.club
                           /\ Outranks(j.by.role, t.role)

ProfileBacked(j) ==
  /\ ClaimOf(j.user, j.row) \in claims
  /\ j.row.club \in clubs \cup {NoClub}

JobBacked(j) ==
  /\ j \in InviteJob => InviteBacked(j)
  /\ j \in RoleJob => RoleBacked(j)
  /\ j \in ProfileJob => ProfileBacked(j)

JobsBacked == \A w \in Workers : JobBacked(job[w])

TransactionsApart ==
  \A v, w \in Workers :
    v # w /\ Inserted(v) /\ Inserted(w)
      => job[v].row.email # job[w].row.email /\ job[v].user # job[w].user

Inductive ==
  /\ TypeOK /\ RowsKnown /\ JobsBacked /\ TransactionsApart
  /\ UniqueEmails /\ InvitedWasMailed /\ NoAppointedSuperAdmin /\ ClubsExist

(* Behind StatsCoverClubs: users never change their club, super admins have *)
(* none, and every club was created with its owner.                        *)
ClubKept == \A t, s \in claims : t.user = s.user => t.club = s.club
AdminsClubless == \A t \in claims : t.role = "SUPER_ADMIN" => t.club = NoClub
Staffed(k) == \E u \in Users : accounts[u] # NoAccount /\ accounts[u].club = k
CountBacked ==
  \A w \in Workers :
    job[w].step = "countUsers" => job[w].clubs \subseteq clubs /\ Staffed(NoClub)

ClubsInductive ==
  /\ Inductive /\ ClubKept /\ AdminsClubless /\ CountBacked
  /\ \A k \in clubs : Staffed(k)

(* A club appears together with its owner, never without ("Create the Club *)
(* AND its CLUB_OWNER in one transaction", clubs/services.py:18).          *)
ClubWithOwner ==
  [][\A k \in clubs' \ clubs :
       \E u \in Users : /\ accounts[u] = NoAccount /\ accounts'[u] # NoAccount
                        /\ accounts'[u].role = "CLUB_OWNER"
                        /\ accounts'[u].club = k]_vars

RoleChanges(u) ==
  accounts[u] # NoAccount /\ accounts'[u].role # accounts[u].role

(* A role is changed by somebody who outranked a role that the user has    *)
(* had in the same club, to a role below the updater's; or it goes back,   *)
(* with the user's own profile save, to one that the user has had.         *)
RoleChangesWereAuthorised ==
  [][\A u \in Users : RoleChanges(u) =>
       \E w \in Workers :
         \/ /\ job[w].step = "saveRole" /\ job[w].user = u
            /\ Outranks(job[w].by.role, accounts'[u].role)
            /\ \/ job[w].by.role = "SUPER_ADMIN"
               \/ \E t \in claims : /\ t.user = u /\ t.club = job[w].by.club
                                     /\ Outranks(job[w].by.role, t.role)
         \/ /\ job[w].step = "saveProfile" /\ job[w].user = u
            /\ Ranked(u, accounts'[u].role)]_vars

-----------------------------------------------------------------------------
(* What the comments of the code claim and its interleavings refute *)

(* The entrypoint "bootstraps the super admin (if none)" (README.md:63):   *)
(* when the bootstrap command ends, there is one.                          *)
BootstrapLeavesAdmin ==
  [][\A w \in Workers :
       job[w].step = "insertAdmin" /\ job'[w] = Idle => HasSuperAdmin(accounts')]_vars
=============================================================================
