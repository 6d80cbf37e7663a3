------------------------------- MODULE Teams -------------------------------
(***************************************************************************)
(* Age groups, teams with their rosters, and events                        *)
(* (apps/age_groups/services.py, apps/teams/services.py,                   *)
(* apps/events/services.py).                                               *)
(*                                                                         *)
(* There are no foreign keys in this schema (db_constraint=False): a row   *)
(* may name one that is gone.  Every statement commits by itself, so the   *)
(* statements of several workers interleave.  Deleting a row that is gone  *)
(* changes nothing, so reading a row and deleting it is one step.          *)
(***************************************************************************)
EXTENDS Guards, Sequences, FiniteSets

CONSTANTS
  Workers,
  Principals,     \* claims of the tokens in use
  Coaches,        \* what clients send as coachId, coordinatorId, playerId:
  Coordinators,   \* nobody looks these users up
  Players,
  NoUser,         \* a NULL user id
  NoClub,         \* a token without clubId
  Names,          \* names of age groups
  AgeGroupIds, TeamIds, EventIds,
  MaxVersion,     \* bound on the saves of one roster
  Crashes

Clubs == {p.club : p \in Principals} \ {NoClub}
Staff == {p.user : p \in Principals}
AgeGroup == [name : Names, club : Clubs, coordinator : Coordinators \cup {NoUser}]
Team == [club : Clubs, group : AgeGroupIds, coach : Coaches \cup {NoUser},
         roster : Seq(Players), version : Nat]
Event == [team : TeamIds, club : Clubs, by : Principals]
None == [club |-> NoClub]

ASSUME TeamsAssumption ==
  /\ \A p \in Principals : p.role \in UserRole
  /\ NoUser \notin Staff
  /\ AgeGroupIds \cap TeamIds = {}
  /\ MaxVersion \in Nat
  /\ Crashes \in BOOLEAN

VARIABLES
  ageGroups,      \* the tables, None where there is no row
  teams,
  events,
  used,           \* ids of age groups and teams given out so far
  job             \* what each worker is doing

vars == <<ageGroups, teams, events, used, job>>

Idle == [step |-> "idle"]
AgeGroupJob == [step : {"insertAgeGroup"}, row : AgeGroup, since : SUBSET AgeGroupIds]
TeamJob == [step : {"insertTeam"}, row : Team]
RosterJob ==
  [step : {"checkCoordinator", "saveRoster"}, by : Principals, team : TeamIds, row : Team]
EventJob == [step : {"insertEvent"}, row : Event]
Job == {Idle} \cup AgeGroupJob \cup TeamJob \cup RosterJob \cup EventJob

(* The type invariant.                                                     *)
TypeOK ==
  /\ ageGroups \in [AgeGroupIds -> AgeGroup \cup {None}]
  /\ teams \in [TeamIds -> Team \cup {None}]
  /\ events \in [EventIds -> Event \cup {None}]
  /\ used \subseteq AgeGroupIds \cup TeamIds
  /\ job \in [Workers -> Job]

Init ==
  /\ ageGroups = [g \in AgeGroupIds |-> None]
  /\ teams = [t \in TeamIds |-> None]
  /\ events = [e \in EventIds |-> None]
  /\ used = {}
  /\ job = [w \in Workers |-> Idle]

Start(w, j) == job[w] = Idle /\ job' = [job EXCEPT ![w] = j]
Finish(w) == job' = [job EXCEPT ![w] = Idle]

(* A principal comes from an access token.                                 *)
Admits(roles, p) == RolesGuard(roles, [secret |-> "access", role |-> p.role])

(* The filter by club is left out for a token that has none.               *)
InSight(p, row) == row # None /\ (p.club # NoClub => row.club = p.club)

-----------------------------------------------------------------------------
(* POST /age-groups and DELETE /age-groups/:id *)

NameTaken(n, k) ==
  \E g \in AgeGroupIds :
    ageGroups[g] # None /\ ageGroups[g].name = n /\ ageGroups[g].club = k

(* Faulty variant: club_id may be NULL.                                    *)
CreateAgeGroupClubless(w) ==
  /\ \E p \in Principals, n \in Names :
       /\ p.role \in Managers /\ ~NameTaken(n, p.club)
       /\ Start(w, [step |-> "insertAgeGroup",
                    row |-> [name |-> n, club |-> p.club, coordinator |-> NoUser],
                    since |-> used \cap AgeGroupIds])
  /\ UNCHANGED <<ageGroups, teams, events, used>>

(* Faulty variant: the name is not looked up.                              *)
CreateAgeGroupUnchecked(w) ==
  /\ \E p \in Principals, n \in Names, c \in Coordinators \cup {NoUser} :
       /\ Admits(Managers, p)
       /\ p.club # NoClub
       /\ Start(w, [step |-> "insertAgeGroup",
                    row |-> [name |-> n, club |-> p.club, coordinator |-> c],
                    since |-> used \cap AgeGroupIds])
  /\ UNCHANGED <<ageGroups, teams, events, used>>

(* The name is looked up and the row is inserted in two statements, with   *)
(* nothing in the schema to keep the name unique.  A token without a club  *)
(* fails on the NOT NULL club_id.  since is history: the ids given out     *)
(* before the look-up.                                                     *)
CreateAgeGroup(w) ==
  /\ \E p \in Principals, n \in Names, c \in Coordinators \cup {NoUser} :
       /\ Admits(Managers, p)
       /\ p.club # NoClub
       /\ ~NameTaken(n, p.club)
       /\ Start(w, [step |-> "insertAgeGroup",
                    row |-> [name |-> n, club |-> p.club, coordinator |-> c],
                    since |-> used \cap AgeGroupIds])
  /\ UNCHANGED <<ageGroups, teams, events, used>>

InsertAgeGroup(w) ==
  /\ job[w].step = "insertAgeGroup"
  /\ \E g \in AgeGroupIds \ used :
       /\ ageGroups' = [ageGroups EXCEPT ![g] = job[w].row]
       /\ used' = used \cup {g}
  /\ Finish(w)
  /\ UNCHANGED <<teams, events>>

(* Its teams stay.                                                         *)
RemoveAgeGroup(w) ==
  /\ job[w] = Idle
  /\ \E p \in Principals, g \in AgeGroupIds :
       /\ Admits(Managers, p)
       /\ InSight(p, ageGroups[g])
       /\ ageGroups' = [ageGroups EXCEPT ![g] = None]
  /\ UNCHANGED <<teams, events, used, job>>

-----------------------------------------------------------------------------
(* POST /teams and DELETE /teams/:id *)

Coordinates(p, g) == ageGroups[g] # None /\ ageGroups[g].coordinator = p.user

(* Faulty variant: the age group may be another club's.                    *)
CreateTeamAnywhere(w) ==
  /\ \E p \in Principals, g \in AgeGroupIds :
       /\ p.role \in Managers /\ p.club # NoClub
       /\ ageGroups[g] # None
       /\ Start(w, [step |-> "insertTeam",
                    row |-> [club |-> p.club, group |-> g, coach |-> NoUser,
                             roster |-> <<>>, version |-> 0]])
  /\ UNCHANGED <<ageGroups, teams, events, used>>

(* The club of the token must be the age group's, super admin or not.      *)
CreateTeam(w) ==
  /\ \E p \in Principals, g \in AgeGroupIds, c \in Coaches \cup {NoUser} :
       /\ Admits(TeamCreators, p)
       /\ ageGroups[g] # None /\ ageGroups[g].club = p.club
       /\ p.role = "COORDINATOR" => Coordinates(p, g)
       /\ Start(w, [step |-> "insertTeam",
                    row |-> [club |-> p.club, group |-> g, coach |-> c,
                             roster |-> <<>>, version |-> 0]])
  /\ UNCHANGED <<ageGroups, teams, events, used>>

InsertTeam(w) ==
  /\ job[w].step = "insertTeam"
  /\ \E t \in TeamIds \ used :
       /\ teams' = [teams EXCEPT ![t] = job[w].row]
       /\ used' = used \cup {t}
  /\ Finish(w)
  /\ UNCHANGED <<ageGroups, events>>

(* Its events stay.                                                        *)
RemoveTeam(w) ==
  /\ job[w] = Idle
  /\ \E p \in Principals, t \in TeamIds :
       /\ Admits(Managers, p)
       /\ InSight(p, teams[t])
       /\ teams' = [teams EXCEPT ![t] = None]
  /\ UNCHANGED <<ageGroups, events, used, job>>

-----------------------------------------------------------------------------
(* PATCH /teams/:id/roster: update_roster *)

Listed(roster) == {roster[k] : k \in DOMAIN roster}

(* The others in their order: the k-th place is taken by the entry that    *)
(* has k - 1 others before it.                                             *)
Kept(roster, p) == {i \in DOMAIN roster : roster[i] # p}
Rank(places, i) == Cardinality({h \in places : h <= i})
Without(roster, p) ==
  LET kept == Kept(roster, p) IN
  [k \in 1 .. Cardinality(kept) |-> roster[CHOOSE i \in kept : Rank(kept, i) = k]]

(* Faulty variant: the add is not compared with the roster.                *)
EditsUnchecked(roster) ==
  {Append(roster, p) : p \in Players} \cup {Without(roster, p) : p \in Players}

(* The rosters that an add or a remove of one player makes of a roster; an *)
(* add of a player who is on it is refused.                                *)
Edits(roster) ==
  {Append(roster, p) : p \in Players \ Listed(roster)}
    \cup {Without(roster, p) : p \in Players}

(* The row that is saved: the edited roster with the next version.         *)
Edited(row) ==
  {[row EXCEPT !.roster = r, !.version = @ + 1] : r \in Edits(row.roster)}

(* Faulty variant: any coach of the club may edit the roster.              *)
EditRosterAsAnyCoach(w) ==
  /\ \E p \in Principals, t \in TeamIds :
       /\ p.role \in Managers \cup {"COACH"}
       /\ InSight(p, teams[t])
       /\ \E row \in Edited(teams[t]) :
            Start(w, [step |-> "saveRoster", by |-> p, team |-> t, row |-> row])
  /\ UNCHANGED <<ageGroups, teams, events, used>>

(* The team is read; what will be saved is made of the row read here.      *)
EditRoster(w) ==
  /\ \E p \in Principals, t \in TeamIds :
       /\ Admits(StaffRoles, p)
       /\ InSight(p, teams[t])
       /\ p.role = "COACH" => teams[t].coach = p.user
       /\ teams[t].version < MaxVersion
       /\ \E row \in Edited(teams[t]) :
            Start(w, [step |-> IF p.role = "COORDINATOR" THEN "checkCoordinator"
                               ELSE "saveRoster",
                      by |-> p, team |-> t, row |-> row])
  /\ UNCHANGED <<ageGroups, teams, events, used>>

CheckCoordinator(w) ==
  /\ job[w].step = "checkCoordinator"
  /\ IF Coordinates(job[w].by, job[w].row.group)
     THEN job' = [job EXCEPT ![w].step = "saveRoster"]
     ELSE Finish(w)
  /\ UNCHANGED <<ageGroups, teams, events, used>>

(* Faulty variant: the save inserts the row when it is gone.               *)
SaveRosterOrInsert(w) ==
  /\ job[w].step = "saveRoster"
  /\ teams' = [teams EXCEPT ![job[w].team] = job[w].row]
  /\ Finish(w)
  /\ UNCHANGED <<ageGroups, events, used>>

(* Roster and version are saved over whatever the row holds by now; the    *)
(* save of a row that is gone fails (save with update_fields).             *)
SaveRoster(w) ==
  /\ job[w].step = "saveRoster"
  /\ IF teams[job[w].team] = None
     THEN UNCHANGED teams
     ELSE teams' = [teams EXCEPT ![job[w].team].roster = job[w].row.roster,
                                 ![job[w].team].version = job[w].row.version]
  /\ Finish(w)
  /\ UNCHANGED <<ageGroups, events, used>>

-----------------------------------------------------------------------------
(* POST /events: create *)

(* Faulty variant: the event takes the club of the token.                  *)
CreateEventOfToken(w) ==
  /\ \E p \in Principals, t \in TeamIds :
       /\ teams[t] # None
       /\ p.club # NoClub
       /\ Start(w, [step |-> "insertEvent",
                    row |-> [team |-> t, club |-> p.club, by |-> p]])
  /\ UNCHANGED <<ageGroups, teams, events, used>>

CreateEvent(w) ==
  /\ \E p \in Principals, t \in TeamIds :
       /\ Admits(StaffRoles, p)
       /\ teams[t] # None
       /\ p.role # "SUPER_ADMIN" => teams[t].club = p.club
       /\ p.role = "COACH" => teams[t].coach = p.user
       /\ Start(w, [step |-> "insertEvent",
                    row |-> [team |-> t, club |-> teams[t].club, by |-> p]])
  /\ UNCHANGED <<ageGroups, teams, events, used>>

InsertEvent(w) ==
  /\ job[w].step = "insertEvent"
  /\ \E e \in EventIds :
       /\ events[e] = None
       /\ events' = [events EXCEPT ![e] = job[w].row]
  /\ Finish(w)
  /\ UNCHANGED <<ageGroups, teams, used>>

-----------------------------------------------------------------------------

(* A killed worker issues no further statement.                            *)
Kill(w) ==
  /\ Crashes
  /\ job[w] # Idle
  /\ Finish(w)
  /\ UNCHANGED <<ageGroups, teams, events, used>>

(* Bound: an insert for which no key is left gives up.                     *)
NoKeyLeft(w) ==
  /\ \/ job[w].step = "insertAgeGroup" /\ AgeGroupIds \subseteq used
     \/ job[w].step = "insertTeam" /\ TeamIds \subseteq used
     \/ job[w].step = "insertEvent" /\ \A e \in EventIds : events[e] # None
  /\ Finish(w)
  /\ UNCHANGED <<ageGroups, teams, events, used>>

Step(w) ==
  \/ InsertAgeGroup(w) \/ InsertTeam(w) \/ InsertEvent(w) \/ NoKeyLeft(w)
  \/ CheckCoordinator(w) \/ SaveRoster(w)

Begin(w) ==
  \/ CreateAgeGroup(w) \/ RemoveAgeGroup(w) \/ CreateTeam(w) \/ RemoveTeam(w)
  \/ EditRoster(w) \/ CreateEvent(w)

Next == \E w \in Workers : Begin(w) \/ Step(w) \/ Kill(w)

Spec == Init /\ [][Next]_vars

-----------------------------------------------------------------------------
(* Safety, for any number of workers, whatever is killed *)

Distinct(roster) == \A i, k \in DOMAIN roster : roster[i] = roster[k] => i = k

(* A roster never lists a player twice, although concurrent edits save     *)
(* rosters made of stale reads.                                            *)
RosterWithoutDuplicates ==
  \A t \in TeamIds : teams[t] # None => Distinct(teams[t].roster)

(* A team that was deleted is not brought back by the save of an edit that *)
(* read it before; nor is an age group.                                    *)
RemovedStaysRemoved ==
  [][/\ \A t \in used \cap TeamIds : teams[t] = None => teams'[t] = None
     /\ \A g \in used \cap AgeGroupIds : ageGroups[g] = None => ageGroups'[g] = None]_vars

(* No table relates rows of two clubs: a team belongs to the club of its   *)
(* age group, whoever created and deleted what in between.                 *)
TeamsFollowGroups ==
  \A t \in TeamIds :
    teams[t] # None /\ ageGroups[teams[t].group] # None
      => teams[t].club = ageGroups[teams[t].group].club

(* An event belongs to the club of its team, and was created by somebody   *)
(* of that club or a super admin, a coach for their own team only.         *)
EventsFollowTeams ==
  \A e \in EventIds :
    LET ev == events[e] IN
    ev # None =>
      /\ ev.by.role = "SUPER_ADMIN" \/ ev.by.club = ev.club
      /\ teams[ev.team] # None =>
           /\ ev.club = teams[ev.team].club
           /\ ev.by.role = "COACH" => teams[ev.team].coach = ev.by.user

(* Two age groups of a club with one name come only of requests that       *)
(* overlapped: the second was looked up before the first was inserted      *)
(* ("already exists in your club", age_groups/services.py:16).             *)
NamesakesOverlap ==
  [][\A g, h \in AgeGroupIds :
       /\ ageGroups[g] = None /\ ageGroups'[g] # None /\ ageGroups[h] # None
       /\ ageGroups[h].name = ageGroups'[g].name /\ ageGroups[h].club = ageGroups'[g].club
       => \E w \in Workers :
            /\ job[w].step = "insertAgeGroup" /\ job[w].row = ageGroups'[g]
            /\ h \notin job[w].since]_vars

(* A roster changes only by somebody entitled to when it changes, not just *)
(* when it was read: a coach of the team, or a coordinator of its age      *)
(* group unless that group has been deleted since.                         *)
RosterEditsEntitled ==
  [][\A t \in TeamIds :
       teams[t] # None /\ teams'[t] # None /\ teams'[t] # teams[t] =>
         \E w \in Workers :
           /\ job[w].step = "saveRoster" /\ job[w].team = t
           /\ InSight(job[w].by, teams[t])
           /\ job[w].by.role = "COACH" => teams[t].coach = job[w].by.user
           /\ job[w].by.role = "COORDINATOR"
                => \/ ageGroups[teams[t].group] = None
                   \/ Coordinates(job[w].by, teams[t].group)]_vars

-----------------------------------------------------------------------------
(* The inductive invariant: what is true of the rows stays true of the     *)
(* copies that workers hold, since a key is never given out twice and what *)
(* an edit compares - club, group and coach - never changes.               *)

KeysGivenOut ==
  /\ \A g \in AgeGroupIds : ageGroups[g] # None => g \in used
  /\ \A t \in TeamIds : teams[t] # None => t \in used

TeamBacked(row) ==
  /\ row.group \in used
  /\ ageGroups[row.group] # None => row.club = ageGroups[row.group].club
  /\ Distinct(row.roster)

EventBacked(row) ==
  /\ row.team \in used
  /\ row.by.role = "SUPER_ADMIN" \/ row.by.club = row.club
  /\ teams[row.team] # None =>
       /\ row.club = teams[row.team].club
       /\ row.by.role = "COACH" => teams[row.team].coach = row.by.user

(* Between the look-up and the insert a key may be given out, to the same  *)
(* name, but it is none of those given out before the look-up.             *)
LookUpBacked(j) ==
  /\ j.since \subseteq used
  /\ \A g \in j.since :
       ageGroups[g] # None => ageGroups[g].name # j.row.name \/ ageGroups[g].club # j.row.club

EditBacked(j) ==
  /\ j.team \in used
  /\ TeamBacked(j.row)
  /\ teams[j.team] # None =>
       /\ teams[j.team].club = j.row.club
       /\ teams[j.team].group = j.row.group
       /\ teams[j.team].coach = j.row.coach
  /\ j.by.club # NoClub => j.row.club = j.by.club
  /\ j.by.role = "COACH" => j.row.coach = j.by.user
  /\ j.by.role = "COORDINATOR" /\ j.step = "saveRoster"
       => ageGroups[j.row.group] = None \/ Coordinates(j.by, j.row.group)

JobBacked(j) ==
  /\ j \in AgeGroupJob => LookUpBacked(j)
  /\ j \in TeamJob => TeamBacked(j.row)
  /\ j \in RosterJob => EditBacked(j)
  /\ j \in EventJob => EventBacked(j.row)

Inductive ==
  /\ TypeOK
  /\ KeysGivenOut
  /\ \A t \in TeamIds : teams[t] # None => TeamBacked(teams[t])
  /\ \A e \in EventIds : events[e] # None => EventBacked(events[e])
  /\ \A w \in Workers : JobBacked(job[w])
=============================================================================
