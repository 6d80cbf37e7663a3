# Formal models of the soccer-club backend

TLA+ models of the Django backend in `src/`: what its request handlers may do
to the database when several gunicorn workers serve requests at once, are
killed in the middle of one, and act on tokens that outlive a change of role.
TLC checks the models on small instances; TLAPS proves every safety property
that the passing runs check, and both refinements, for every number of workers,
users and rows. Paths below are relative
to the repository; `apps/` and `common/` stand for `src/apps/` and `src/common/`.

## The system

`docker/entrypoint.sh` migrates the database, runs the bootstrap of the super
admin and starts gunicorn with three sync workers. Each worker is a process that
serves one request at a time; the workers share nothing but PostgreSQL. There
is no `ATOMIC_REQUESTS`: outside of two `transaction.atomic()` blocks every ORM
statement commits by itself, so **two requests interleave at every statement**,
and a handler that reads a row, decides, and saves it acts on what the row was.
A worker that exceeds its timeout is killed, and the statements it has not
issued are never issued. Tokens carry role and club for 30 days
(`common/authentication.py` does not load the user), so a handler also acts on
what a role *was*. There are no foreign keys (`db_constraint=False`): rows may
refer to rows that are gone.

| Component | State | Operations that change it | Hard behaviour | Correct when |
|---|---|---|---|---|
| Connections (`apps/connections`) | `connection_requests`; `child_player_ids`, `parent_ids` of `users` | create_request, process_request (approve, reject) | approvals in any order by two parties; four separate writes; arrays rewritten whole from a stale read | no approval and no link without both consents; approved requests are linked; rejections are final; every request can be settled |
| Accounts (`apps/users`) | `users` | invite, update_role, update_profile, bootstrap | unique address under open transactions; mail inside a transaction; stale role checks; full-row saves | addresses unique; nobody invited without mail; nobody promoted beyond what somebody could grant |
| Clubs (`apps/clubs`) | `clubs` | create_club | one transaction across two services | a club exists with its owner or not at all |
| Age groups, teams, events (`apps/age_groups`, `apps/teams`, `apps/events`) | `age_groups`, `teams` (roster array, version), `events` | create, remove, update_roster | lost roster edits; edits of a deleted team; authority looked up in a row that is deleted meanwhile | no duplicate on a roster; deleted rows stay deleted; no row refers into another club |
| Performance (`apps/performance`) | `performance`, one row per player | upsert | right to rate checked against a roster that changes; concurrent upserts; rounding | one row per player; rated by somebody who had the player |
| Authentication (`apps/authentication`, `common/jwt.py`) | `password`, `is_first_login`; tokens outside | login, first-login reset, refresh, forgot, reset, change | reset tokens that stay valid; profile saves that put an old password back | no session before the temporary password is replaced |
| Guards (`common/authentication.py`, `common/permissions.py`, lists of the views) | none; the claims of tokens | none | reset tokens are signed with the secret of access tokens | a door of a role opens to nobody who has not replaced the temporary password |
| Administration site (`apps/users/admin.py`) | rows of `users` | add, edit, set a password | forms saved long after they were opened, whole rows | only an outdated form parts a flag from its password |
| Dashboard (`apps/dashboard`) | none | none | two queries, no transaction | its figures fit together |
| Object ids (`common/objectid.py`) | a counter per process | generate_object_id | a counter that turns at 0xFFFFFF; a clock read outside of the lock; several processes in one second | no id twice, but from one process a full turn apart; the counters of one process in order up to a turn (the seconds before them are not) |
| Roles (`common/roles.py`) | none | none | strict order with two equal roles | |
| Migration (`apps/users/management/commands/migrate_from_mongo.py`) | every table, once | copy of each collection, `--flush` | killed at any statement and run again; the source still in use; documents that are duplicates or malformed; a container that bootstraps meanwhile | a run that reports completion has copied everything; a run that fails has a cause outside of the command; running it again is safe |
| Mail (`common/mail.py`) | none | none | accepted and reported as failed | as accounts |
| Serializers, presenters, error shapes | none | none | | |

Components interact through the tables: connections write the rows of `users`
that profile updates and role changes write too; `create_club` calls the
invitation inside its own transaction; roster, event and rating rights are read
from teams and age groups; every handler trusts the claims of a token; the
administration site writes whole rows of `users` beside everybody else.

## Modules

| Module | Models | EXTENDS / INSTANCE |
|---|---|---|
| `Roles` | role weights, `outranks` | |
| `Guards` | token claims, authentication, `RolesGuard` and the role lists of the views | `Roles` |
| `ObjectIds` | `common/objectid.py` | |
| `ObjectIdsProofs` | theorems about `ObjectIds` | `ObjectIds`, `TLAPS` |
| `LinkConsent` | the abstract promise of linking | |
| `Connections` | `connections/services.py`; `update_profile` and `update_role` as writers of the same rows | `Roles`; INSTANCE `LinkConsent` |
| `ConnectionsProofs` | theorems about `Connections` | `Connections`, `TLAPS` |
| `Accounts` | `users/services.py`, `clubs/services.py`, `dashboard/services.py` | `Roles` |
| `AccountsProofs` | theorems about `Accounts` | `Accounts`, `TLAPS` |
| `Teams` | `age_groups`, `teams`, `events` services | `Guards` |
| `TeamsProofs` | theorems about `Teams` | `Teams`, `TLAPS` |
| `RatingBook` | the abstract promise of rating | |
| `Ratings` | `performance` services beside the rosters and age groups of `Teams` | `Teams`; INSTANCE `RatingBook` |
| `RatingsProofs` | theorems about `Ratings` | `Ratings`, `TeamsProofs` |
| `Sessions` | `authentication/services.py`, `update_password`, `update_profile`, `common/jwt.py`, the forms of `users/admin.py` | `Guards` |
| `SessionsProofs` | theorems about `Sessions` | `Sessions`, `TLAPS` |
| `Migration` | `migrate_from_mongo.py` and the bootstrap beside it | |
| `MigrationProofs` | theorems about `Migration` | `Migration`, `TLAPS` |
| `MCObjectIds`, `MCConnections`, `MCAccounts`, `MCTeams`, `MCRatings`, `MCSessions`, `MCMigration` | instances for TLC | the module each is named after |

Common conventions. `job[w]` is what the handler running in worker `w`
remembers; an action is what one SQL statement reads or writes, with the local
computation around it. The action that begins a request chooses the token and
the body among all that are possible. A request refused before it writes
anything changes no state, so where the refusal follows from the first read the
request is not begun, and different error messages are not told apart. Tables
are functions from keys to records. Faulty variants (`AdvanceAnySide`, ...)
stand before the definition they vary; no specification uses them, they show
that a property can tell a bug from the code.

**Connections.** `CreateRequest`, `ReadChild`, `FindExisting`, `InsertRequest`
are the four statements of `create_request`; `FindExisting` looks at the
smallest key of the pair because `.first()` orders by primary key, and
`FreeIds` says of `generate_object_id` what matters here: a key is new, and may
come before or after those of other requests (what one process may rely on is
the subject of `ObjectIds`). `Reject` and `Approve` are the read of
`process_request` with the decision taken on it; `ReadParentLinks` to
`SaveChildLinks` are the two calls of `_add_to_set`; `SaveStatus` is the last
save. `ReadProfile`/`SaveProfile` is `update_profile`, which saves every
column; `UpdateRole` is the one write of `update_role`. The arrays are sets:
`_add_to_set` never appends an element twice and no reader depends on their
order. `held` and `endorsed` are history: the roles a token may still claim,
and the principals that initiated or approved each request.

**Guards.** A token is the secret it is signed with and the role it claims, or
none. `RolesGuard` is the permission class, `Doors` are the combinations of a
role list with a service that weighs the role of the principal (`weight()` of no
role raises), and `Opens` says which claims pass which door. `Sessions` asks it
of every token in use, `Teams` of every request.

**ObjectIds.** Processes and their threads draw ids: `ReadClock` is line 31,
outside of the lock; `Draw` is the locked counter, which turns at `Modulus` where
the code has 0xFFFFFF. `Tick` moves the clock of the host either way within its
bound, `Kill` ends a process and `Start` begins one with a counter from anywhere.
`ids` is history. The five random bytes of processes are taken to differ.

**Accounts.** `Invite` or `CreateClub`, `CheckEmail`, `InsertUser`, `SendMail`
or `MailFails`, `Commit` is one transaction: nothing of it is seen before
`Commit`, but `Pending` makes another writer of the same address wait, as
PostgreSQL's unique index does. Production settings are modelled: a real mail
server that may accept a mail and still report an error. `claims` is history:
what tokens may claim of a user, from the first role to the present one. That
is more than will ever be logged in with, hence safe for the properties.
`CheckRole`/`SaveRole` is `update_role`. `CountClubs` and `CountUsers` are two
queries of the dashboard (that of the teams is independent of them); what the
first one found is in `job`. Passwords are in `Sessions`; names, images and the
two flags that let a super admin into the administration site (the UPDATE at the
head of `bootstrap_super_admin`) are left out.

**Teams.** Age groups and teams are created in two statements and deleted in
one step, `EditRoster`, `CheckCoordinator`, `SaveRoster` is `update_roster`.
The roster is a sequence, because clients see its order. `used` keeps deleted
keys from being drawn again. `SaveRoster` of a row that is gone does nothing:
`save(update_fields=...)` raises when no row is updated. An event keeps the
token that created it, of which the row stores the user. `since`, in the memory
of a worker that creates an age group, is history: the ids given out before the
name was looked up, which is what tells requests that overlap from others.

**Ratings.** A composition: `RatingNext` is a step of `Teams` or a step of a
rater, a worker that serves `PUT /performance/:playerId`. `Rate` reads the
player's row and, for a coach, a roster; a coordinator's request reads the first
team that lists the player (`RateAsCoordinator`, the lowest key, as `.first()`
does) and then its age group (`CheckGroup`). `FindRow` and `InsertRow` are
`update_or_create`: the row is locked and updated, or inserted, or, when the
unique index refuses the insert, updated after all. The five numbers of a rating
are left out of the table: no decision depends on them. They come back in the
operators of the team report, `JsRound` and `TopPerformers`, which are compared
with what they are to mean over bounded inputs by TLC, and over all of them by
`RoundsHalfUp` and `TopThree`. `entitled` is history: every
token that, at some moment, could have rated a player by a roster. `RatingBook`
is what all this promises: an entry per player, written only by those who were
once entitled. Its `book` is the rater in the player's row, its `rights` are
`entitled`. The player's club does not change here, and users who are not players are refused before
anything happens.

**Sessions.** A row is its address, password and first-login flag, the columns
that decide a login. `Login`, `Refresh` and `ForgotPassword` read one row and
answer with a token, in one step; `ResetPassword` stands for both endpoints that
take a token from a first login or a mail, `ChangePassword` for the one that
looks its user up by the address in the token. All three end in `SavePassword`
(`update_password`, which saves two columns). `ReadProfile`/`SaveProfile` saves
every column as read. `addresses` and `chosen` are history: what addresses a
token may still carry, and what passwords were set for a user. Tokens do not
expire in the model, so it has the behaviours of every expiry time.
`EditUser` and `EditPassword` are the administration site: the POST of a form
reads the row, puts the columns of the form in and saves all of it
(`SaveProfile` again). What a form shows may be as old as one likes, hence
`first` is any value the flag has had; the administrator is taken to leave the
flag as shown. `outdated` is history: over whom such a form was saved when the
flag it shows was not the row's any more. The addresses an administrator enters
are those of `AskedEmails` and the user's own earlier ones. A stale
profile save may undo a reset whose success was already answered; it then puts
the flag back with the password, which is what `TemporaryOpensNothing` says.

**Migration.** One run of the command at a time: `Start` (the arguments and the
database of the URI), `Flush` table by table, then for each collection `Open`
(the documents are fetched, where the code reads a cursor while it copies: this
makes no difference to documents that are not edited), `Copy` and `Stamp` of each
document (two statements), `Close`. `Kill` ends a run anywhere. Beside it the old
service edits the source and containers bootstrap. A document is reduced to the
value of the unique column of its table, if it has one; `stamped` says whether
the times of a row are those of the document. Nothing is assumed of the source:
two documents may have one value, and a value may be one that no row can hold
(`Refused`: a null where the column is NOT NULL, a text that is too long), so
that `Copy` fails, or one of a document whose times are no times (`Undated`), so
that `Stamp` does. A run that fails keeps the document it failed over in
`run.doc`, and `FailureHasCause` says what must be the matter with that very
document. A user without an email is copied with the address "", so it takes two
of them to fail a run, as two of any other address do
(`docs/MIGRATION_VALIDATION_REPORT.md:81` names one). `edited` and `settled` are
history. `Validates` is the comparison of the tables in `validate_migration.py`.

## Runs

| Run | Instance | Shows |
|---|---|---|
| `ConnectionsRaces` | 2 workers with kills, mother, child, coach; one request; `update_role` to PARENT | `TypeOK`, `ApprovedByBoth`, `LinksAgreed`, and that `Connections` implements `LinkConsent` |
| `ConnectionsSerial` | 1 worker, fair, killed finitely often; mother, two children, coach; two requests | `ApprovedLinked`, `ChildListedFirst`, `RequestsMoveForward`, `Settles` |
| `ConnectionsDuplicate` | 1 worker | violation: two live requests after a rejection |
| `ConnectionsLostLink` | 2 workers, two children | violation: an approved request without its link |
| `AccountsRaces` | 2 workers with kills, empty database, three accounts and addresses, one club | `UniqueEmails`, `InvitedWasMailed`, `NoAppointedSuperAdmin`, `ClubsExist`, `StatsCoverClubs`, `ClubWithOwner`, `RoleChangesWereAuthorised` |
| `AccountsBootstrap` | 1 worker, the admin alone | violation: a restart that leaves no super admin |
| `TeamsRaces` | 2 workers with kills, two clubs, two age groups of one name, one team and event; roster saved up to three times | `RosterWithoutDuplicates`, `TeamsFollowGroups`, `EventsFollowTeams`, `RemovedStaysRemoved`, `NamesakesOverlap`, `RosterEditsEntitled` |
| `RatingsRaces` | 2 raters and 1 worker of teams, all with kills; owner, coordinator, coach; one player, two teams, one age group, rosters saved up to three times | `OneRatingPerPlayer`, `ReportFaithful`, and that `Ratings` implements `RatingBook` |
| `SessionsRaces` | 2 workers with kills, two users, three addresses, one chosen password; the site edits one of the users | `TemporaryOpensNothing`, `RoleDoorsStayShut`, `OwnPassword` |
| `ObjectIdsTurn` | 2 processes, 2 threads, 2 seconds, a counter of 3 values | `Apart`, `OrderedUpToTurn` |
| `MigrationReruns` | any number of runs over two users and a rating, edited, duplicate or malformed, with kills and a bootstrap | `CompleteCopies`, `FlushLeavesSource`, `FailureHasCause`, `RerunKeepsRows` |
| `MigrationFallback` | a URI without a database | violation: the run dies instead of falling back |

Each passing run visits its whole state space. The bounds are the keys that may
be drawn (`RequestIds`, `Users`, `Clubs`, `AgeGroupIds`, `TeamIds`, `EventIds`)
and `MaxVersion`, and in `Migration` that the key the bootstrap draws is
always the same (`Drawn`; its row is gone when the next one is drawn);
`NoIdLeft` and `NoKeyLeft` let a worker give up when no key is left, and are no
part of the code. Two workers are enough for every race of one
read and one write, which is what these handlers consist of; in the races of
connections a second request of the same pair adds nothing that the proofs,
which hold for any number, do not cover. Two requests, with one worker, cover asking
again after a rejection and two children of one parent.
One player is enough for ratings, since every check and write of a rating is
about one player; two teams make `.first()` a choice. In `MigrationReruns` two
users and two addresses are the fewest between which addresses can collide and be
passed on; one of the users may have an address that is refused, and the rating
times that are no times; the source may start in any state, with duplicates. Two
age groups make a namesake possible. In `SessionsRaces` the administration site
edits one of the users (`Administered`), so that the other one shows that its
forms touch nobody else. In `ObjectIdsTurn` each process draws up to four ids
(`MaxDraws`) from three values, so every counter turns; the proofs hold for every
modulus. Symmetry is used over workers, raters, threads, processes and keys, in
safety runs only.

Properties are split by what the code can promise. Some hold for any number of
workers; the others hold when requests do not overlap, which one worker
expresses, and `ConnectionsLostLink` shows one of them broken by two workers. In
the same way nothing is claimed of the edits and versions of rosters that two
workers overwrite, and `NamesakesOverlap` allows two age groups of one name to
requests that overlapped, and to no others.

### What the violation runs show

1. `ConnectionsDuplicate`. The check for an existing request looks at the oldest
   one of the pair only. Once that one is rejected, live requests between the
   same users accumulate, against the 409 of `connections/services.py:36`.
2. `ConnectionsLostLink`. Two approvals for two children of one parent both read
   the parent's array before either saves it; one child is missing although both
   requests are APPROVED, against `API_REFERENCE.md:385`.
3. `AccountsBootstrap`. The only super admin may lower its own role; the next
   start finds no super admin, cannot insert one under an address in use, and
   goes on without, against `README.md:63`.
4. `MigrationFallback`. For a URI without a database the command means to fall
   back to MONGODB_DB, but line 74 uses `os`, which the module does not import:
   the run ends with a NameError, against the comment at
   `migrate_from_mongo.py:67`.

### Fairness

Only `Settles` needs it, under `FairSpec`. `WF_vars(Step(w))`: a sync worker
goes on with the request it has begun. `SF_vars(KeepsApproving(i, side))`: each
party keeps approving a request that its own pending list shows; that is the
premise of the property, not a promise of the code. `KilledFinitelyOften`: a
worker that were killed in every request would settle nothing; after the last
kill, wherever it fell, everything must still settle. With two workers the
premise is not enough, since a stale save may undo an approval every time, hence
one worker.

## Proofs

`ConnectionsProofs` proves, from `ConnectionsAssumption` alone:

| Theorem | Statement |
|---|---|
| `TypeCorrect` | `Spec => []TypeOK` |
| `InductiveInvariant` | `Spec => []Inductive` |
| `ApprovalNeedsBoth` | `Spec => []ApprovedByBoth` |
| `LinksNeedAgreement` | `Spec => []LinksAgreed` |
| `Refinement` | `Spec => ImplementsConsent` |

The argument. `ApprovedByBoth` is not inductive: a worker may be about to save
`APPROVED` from a status it read long ago. `Inductive` therefore also speaks of
the memory of every worker: a status there is `Backed` by the consents it stands
for (WAITING_ON_CHILD by the parent's, WAITING_ON_PARENT by the player's,
APPROVED by both), and an array there holds agreed links only. A consent, once
given, is never taken back (`endorsed` only grows) and a request never changes
its parties, so what was backed when it was read is backed when it is written:
this is why stale writes can lose a link but can never make one. The lemmas on
growth carry `Backed` and `Agreed` over a step; the step theorem has one case per
action. The refinement then maps each action to one of `LinkConsent` or to a
stutter, with the invariant supplying the guards.

The handlers of one worker promise more, and `ConnectionsProofs` proves it from
`OneWorker` (no two workers differ), as hypothesis of each of these theorems:

| Theorem | Statement |
|---|---|
| `SerialInductive` | `Spec => []Serial` |
| `SerialApprovalsLink` | `Spec => []ApprovedLinked` |
| `SerialParentFirst` | `Spec => []ChildListedFirst` |
| `SerialRequestsForward` | `Spec => RequestsMoveForward` |

`Serial` adds to `Inductive` what a stale read takes away: what the worker has
read of a status or an array is what the row still holds when it is written
(`AllFresh`), so `_add_to_set` loses no element, no save asks again for an
approval that was given, and none revives a rejection. Kills stay: a request may
end between any two statements, which is why the child's half of a link waits
for the parent's in the invariant. Where this breaks with two workers is what
`ConnectionsLostLink` shows.

`AccountsProofs` proves, from `AccountsAssumption` (the keys of users are
finitely many; the initial accounts are rows of the table with different
addresses; an initial super admin is in no club, as `bootstrap_super_admin`
leaves it):

| Theorem | Statement |
|---|---|
| `AccountsInductive` | `Spec => []Inductive` |
| `TypeCorrect` | `Spec => []TypeOK` |
| `EmailsStayUnique` | `Spec => []UniqueEmails` |
| `NobodyUnmailed` | `Spec => []InvitedWasMailed` |
| `SuperAdminIsNotGranted` | `Spec => []NoAppointedSuperAdmin` |
| `ClubsAreCommitted` | `Spec => []ClubsExist` |
| `ClubsComeWithOwners` | `Spec => ClubWithOwner` |
| `RolesChangeByRank` | `Spec => RoleChangesWereAuthorised` |
| `ClubsStayStaffed` | `Spec => []ClubsInductive` |
| `StatsAgree` | `Spec => []StatsCoverClubs` |

The argument. `Inductive` adds to the invariants of the tables what every worker
may still write: an open transaction holds a key that is nobody's yet and an
address that is in no row and in no other transaction; a role about to be saved
is below the updater's, who outranked a role the user has had in the updater's
club; a row about to be saved by `update_profile` agrees with a role and a club
the user has had. Every save of any handler is then an instance of one
description, `Writes(u, row)`: it takes nobody's address and claims no more than
the handler was allowed. The invariants of the tables follow from `Writes` alone
(`WritesPreserves`), and `NextWrites` shows that every step is such a save or
leaves `accounts` and `claims` alone. That nobody is appointed super admin rests
on `NoneAboveSuperAdmin` (the order of `outranks` is strict) and on keys: the
bootstrap writes at a key that no invitation drew.

`StatsAgree` is about two counts taken at different moments. `ClubsInductive`
says that a user keeps the club of every claim ever made of it, so an account
that once belonged to a club still does when the users are counted; every club
has one, and whoever asks for the statistics of all clubs is in none. Mapping
each user to the club it counts for, or to none, therefore covers the clubs
counted and one value more, and a surjection does not gain elements
(`ClubsFewerThanUsers`).

`SessionsProofs` proves, from `SessionsAssumption` (invited users have different
addresses):

| Theorem | Statement |
|---|---|
| `SessionsInductive` | `Spec => []Inductive` |
| `SessionsTyped` | `Spec => []TypeOK` |
| `RoleDoorsFollowReplacement` | `Spec => []RoleDoorsStayShut` |
| `TemporaryIsReplaced` | `Spec => []TemporaryOpensNothing` |
| `SessionsFollowReplacement` | `Spec => []SessionAfterReplacement` |
| `PasswordsStayApart` | `Spec => []OwnPassword` |

The argument. A profile update and the forms of the administration site write a
row from memory. `Inductive` says of what it holds (`ProfileBacked`) that its
password was chosen for this user or is the temporary one, and that a cleared
flag comes with a chosen password, but for users over whom an outdated form was
saved; for those it still says that some password was chosen (`FlagFollows`).
`chosen`, `over` and `outdated` only grow, so this is still true when the row is
saved, however old it is; every other save sets password and flag together. A
session therefore comes after a replacement, and the reset tokens claim no role:
every door of a role asks for one (`RoleDoorsFollowReplacement`).

`ObjectIdsProofs` proves, from `ObjectIdsAssumption` (a modulus above one):

| Theorem | Statement |
|---|---|
| `IdsTyped` | `Spec => []TypeOK` |
| `IdsOrdered` | `Spec => []OrderedUpToTurn` |
| `IdsApart` | `Spec => []Apart` |

The argument. The invariant (`Near`) relates every id drawn to the counter of its
process as it stands: an id drawn less than a turn ago lies as many values behind
it as ids have been drawn since, modulo one turn. A draw moves both by one, so
the next id keeps its distance from every id drawn within a turn; `Apart` is the
case of distance zero. The clock and the interleaving of the threads do not
enter: only the counter is needed.

`TeamsProofs` proves, from `TeamsAssumption` (principals have roles, and keys of
age groups and teams are different keys):

| Theorem | Statement |
|---|---|
| `TeamsInductive` | `Spec => []Inductive` |
| `TeamsTyped` | `Spec => []TypeOK` |
| `RostersDistinct` | `Spec => []RosterWithoutDuplicates` |
| `TeamsInClub` | `Spec => []TeamsFollowGroups` |
| `EventsInClub` | `Spec => []EventsFollowTeams` |
| `RemovedIsGone` | `Spec => RemovedStaysRemoved` |
| `NamesakesWereConcurrent` | `Spec => NamesakesOverlap` |
| `RosterEditorsEntitled` | `Spec => RosterEditsEntitled` |
| `WithoutKeeps` | `Without(roster, p)` lists everybody on the roster but `p`, in the same order, and nobody twice, for a roster of any length |

The argument. Rows refer to rows that may be gone, and workers to rows they read
long ago; what saves the code is that so little of a row ever changes. `Persists`
says it of every step: a key once given out is given out for good, an age group
is as it was or gone, and a team that is there was there before, with the same
club, age group and coach; only roster and version change. The invariant says of
each row, and of each row that a worker is about to write, that it fits the row
it refers to if that one is still there (`TeamBacked`, `EventBacked`), and one
lemma each carries that over any step with `Persists`. An age group that is
found gone is gone for good, which makes the two statements of a coordinator's
edit sound. `LookUpBacked` keeps what the look-up of a name has shown: a namesake
is not in the table, or its key was given out since.

That a roster stays without duplicates when players are removed, and that nobody
else is dropped, is a theorem about `Without`, the list comprehension of
`update_roster`, which the model writes with `Rank`, the number of players kept
up to a position. `Rank` grows by one at each player kept (`RankStep`), reaches
every number up to its last (`RankReached`, by the least position where it does
not exceed it) and is strictly ordered on those kept (`RankOrder`); so `Without`
lists exactly the players kept, in their order, each once (`WithoutKeeps`).
Nothing is assumed about the length of a roster.

`RatingsProofs` proves, from `TeamsAssumption` and `RatingsAssumption` (players
have a club, keys of teams are ordered):

| Theorem | Statement |
|---|---|
| `RatingsInductive` | `RatingSpec => []RatingInductive` |
| `RatingsTyped` | `RatingSpec => []RatingTypeOK` |
| `RatingsUnique` | `RatingSpec => []OneRatingPerPlayer` |
| `RatingsKeepBook` | `RatingSpec => ImplementsBook` |
| `RoundsHalfUp` | `JsRound(s, n)` is the nearest whole number to `s / n`, the upper of two, for all `s \in Nat` and `n > 0` |
| `TopThree` | `TopPerformers` picks three, or all, and nobody left out scores more, for any number of players and any scores |
| `ReportsFaithful` | `RatingSpec => []ReportFaithful` |

The argument. Every step of the composition is a step or a stutter of `Teams`
(`TablesStep`), so the invariant of `Teams` holds here unchanged.
`RatingInductive` adds that who is entitled now is in `entitled`, and
`RatingBacked`: a rater about to write outranks the need for a roster or is in
`entitled`, and a coordinator about to look at an age group will be entitled if
that look succeeds. The latter is the point where a right is put together
from two statements: the team that listed the player was read first, and its age
group, whose key is in `used`, is later either gone or as it was, so a
coordinator who finds its own name there coordinated that team when it listed the
player. The refinement maps the row of a player to its entry of the book; an
update and an insert are one write of the book, the unique index makes the entry
single, and all else is a stutter or a right gained. The two theorems about
arithmetic need no state; they are about every input, where TLC evaluates a few.

`MigrationProofs` proves, from `MigrationAssumption` (a document has a table that
the command copies, the key a bootstrap draws is no document's, and the address
it inserts is not one that a row refuses):

| Theorem | Statement |
|---|---|
| `MigrationInductive` | `Spec => []Inductive` |
| `MigrationTyped` | `Spec => []TypeOK` |
| `CompleteRunsCopy` | `Spec => []CompleteCopies` |
| `FlushedRunsMirror` | `Spec => []FlushLeavesSource` |
| `FailuresExplained` | `Spec => []FailureHasCause` |
| `RerunsDisturbNothing` | `Spec => []RerunKeepsRows` |

The argument. The invariant describes how far the run has come. A document that
was not edited is `Passed` when its table is behind the run, or when it is of the
table at hand and neither in the batch nor about to be stamped; what is passed is
copied (`CopiesSoFar`). What is still in the batch is as the source has it, and
once for each document (`BatchBacked`); what is about to be stamped is in its
table (`StampBacked`). Whatever happened to earlier runs does not enter, since a
run passes every document itself: this is why a kill at any statement is
harmless. For `--flush`, the tables behind the emptying are empty and later hold
values of the source only (`FlushBacked`). So a document that is as the source has
it and is neither refused nor undated can only fail on the unique index, and the
row it meets there is that of a bootstrap, of an edited document, of a document
with the same value or, without `--flush`, one left over: `FailureHasCause`, of
the document in `run.doc`. `RerunKeepsRows` is inductive once `settled` implies that
nothing was edited.

Model-checked only: `Settles`, since liveness under fairness is out of the
prover's reach. What the violation runs refute (`OneLiveRequest`,
`ApprovedLinked` of two workers, `BootstrapLeavesAdmin`, `FallsBack`) is not
true, and TLC gives the behaviour that shows it. The inductive invariants
(`Inductive`, `RatingInductive`, `ClubsInductive`, `Serial`) were checked by TLC
on the instances of the runs before they were proved; the runs list the
properties that follow from them.

## Plan

Done, in this order: `Roles`, `Connections` with `LinkConsent` and its proofs,
`Accounts` and its proofs, `Teams`, `Sessions` and its proofs, `Ratings`,
`Migration`, `ObjectIds` and its proofs, `Guards`, the administration site, the
dashboard, `RatingBook`; then the proofs of `Teams`, `Ratings` with the
refinement, `Migration`, the serial properties of `Connections` and the figures
of the dashboard. Next:

1. The safety part of `Settles`: with one worker, a request that is not decided
   is shown in the pending list of a party whose approval moves it on, as an
   invariant (`Settles` rests on it and on fairness).
2. What `RatingBook` leaves out: that a row of `performance` is never given to
   another player and never leaves the table.
3. Theorems about `Guards` alone (`Opens` for every claim, every door), from
   which `Sessions` and `Teams` would cite the cases they use.

## Not modelled

Read-only endpoints other than the pending list, the team report and the
dashboard: each answers from one state, or from a few statements whose mixture
no document promises anything about. The administration site beyond the forms of
a user: its forms of other tables are the framework's and check nothing of what
the services check, so the properties above are about requests to the API; and
its deletion of users, after which the full-row save of a profile update that was
under way inserts the user again. The wording and shape of responses, request
validation and file uploads; the HTTP part of `validate_migration.py`,
`golden_master.py` and configuration: no state of the system depends on them.
Password hashing and token signatures are taken to work. Development settings
(mail printed to the log) differ from production only in never failing.
