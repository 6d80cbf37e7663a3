---------------------------- MODULE TeamsProofs ----------------------------
(***************************************************************************)
(* Proofs about Teams, for any set of workers, principals, keys and        *)
(* players.                                                                *)
(***************************************************************************)
EXTENDS Teams, FiniteSetTheorems, WellFoundedInduction, TLAPS

-----------------------------------------------------------------------------
(* Removal from a roster *)

(* A set of natural numbers that is not empty has a least element.         *)
LEMMA LeastElement ==
  ASSUME NEW S \in SUBSET Nat, S # {}
  PROVE  \E m \in S : \A k \in S : m <= k
<1> DEFINE Below(m) == {k \in Nat : k < m}
           Prefixes == {Below(m) : m \in S}
           R == StrictSubsetOrdering(Nat)
<1>1. \A m \in Nat : IsFiniteSet(Below(m))
  <2> SUFFICES ASSUME NEW m \in Nat PROVE IsFiniteSet(Below(m)) OBVIOUS
  <2>1. Below(m) \in SUBSET Nat /\ \A k \in Below(m) : k <= m OBVIOUS
  <2>2. QED BY <2>1, FS_BoundedSetOfNaturals
<1>2. Prefixes \subseteq FiniteSubsetsOf(Nat) /\ Prefixes # {}
  BY <1>1 DEF FiniteSubsetsOf
<1>3. PICK P \in Prefixes : \A Q \in Prefixes : ~(<<Q, P>> \in R)
  BY <1>2, FS_StrictSubsetOrderingWellFounded, WFMin
<1>4. PICK m \in S : P = Below(m) OBVIOUS
<1>5. ASSUME NEW k \in S, k < m PROVE FALSE
  <2>1. Below(k) \subseteq P /\ Below(k) # P BY <1>4, <1>5
  <2>2. <<Below(k), P>> \in R BY <2>1, <1>4 DEF StrictSubsetOrdering
  <2>3. QED BY <2>2, <1>3
<1>6. QED BY <1>4, <1>5

(* The rank of a place grows by one at each place of the set, and from 0.  *)
LEMMA RankStep ==
  ASSUME NEW n \in Nat, NEW places \in SUBSET (1 .. n)
  PROVE  /\ IsFiniteSet(places) /\ Cardinality(places) \in Nat
         /\ Rank(places, 0) = 0
         /\ Rank(places, n) = Cardinality(places)
         /\ \A i \in Nat : Rank(places, i) \in Nat
         /\ \A i \in Nat \ {0} :
              Rank(places, i) = Rank(places, i - 1) + IF i \in places THEN 1 ELSE 0
<1> DEFINE UpTo(i) == {h \in places : h <= i}
<1>1. IsFiniteSet(places) /\ Cardinality(places) \in Nat
  <2>1. IsFiniteSet(1 .. n) BY FS_Interval, 1 \in Int, n \in Int
  <2>2. QED BY <2>1, FS_Subset, FS_CardinalityType
<1>2. \A i \in Nat : IsFiniteSet(UpTo(i)) /\ Cardinality(UpTo(i)) \in Nat
  <2> SUFFICES ASSUME NEW i \in Nat
               PROVE  IsFiniteSet(UpTo(i)) /\ Cardinality(UpTo(i)) \in Nat
    OBVIOUS
  <2>1. UpTo(i) \in SUBSET places OBVIOUS
  <2>2. QED BY <2>1, <1>1, FS_Subset, FS_CardinalityType
<1>3. \A h \in places : h \in Nat /\ ~(h <= 0) /\ h <= n OBVIOUS
<1>4. UpTo(0) = {} /\ UpTo(n) = places BY <1>3, Zenon
<1>5. ASSUME NEW i \in Nat \ {0}
      PROVE  Cardinality(UpTo(i)) =
               Cardinality(UpTo(i - 1)) + IF i \in places THEN 1 ELSE 0
  <2>1. i - 1 \in Nat /\ i \notin UpTo(i - 1) OBVIOUS
  <2> \A h \in places : h <= i <=> h <= i - 1 \/ h = i BY <1>3
  <2>2. CASE i \in places
    <3>1. UpTo(i) = UpTo(i - 1) \cup {i} BY <2>2, Zenon
    <3>2. QED BY <3>1, <2>1, <2>2, <1>2, FS_AddElement
  <2>3. CASE i \notin places
    <3>1. UpTo(i) = UpTo(i - 1) BY <2>3, Zenon
    <3>2. QED BY <3>1, <2>1, <2>3, <1>2
  <2>4. QED BY <2>2, <2>3
<1>6. QED BY <1>1, <1>2, <1>4, <1>5, FS_EmptySet DEF Rank

(* Every rank is reached by a place of the set.                            *)
LEMMA RankReached ==
  ASSUME NEW n \in Nat, NEW places \in SUBSET (1 .. n), NEW k \in 1 .. Cardinality(places)
  PROVE  \E i \in places : Rank(places, i) = k
<1> DEFINE High == {i \in Nat : Rank(places, i) >= k}
<1>1. n \in High /\ 0 \notin High BY RankStep
<1>2. PICK i \in High : \A h \in High : i <= h BY <1>1, LeastElement
<1>3. i \in Nat \ {0} /\ i - 1 \notin High BY <1>1, <1>2
<1>4. Rank(places, i - 1) < k BY <1>3, RankStep
<1>5. Rank(places, i) = Rank(places, i - 1) + IF i \in places THEN 1 ELSE 0
  BY <1>3, RankStep
<1>6. /\ Rank(places, i) >= k /\ k \in Int
      /\ Rank(places, i) \in Nat /\ Rank(places, i - 1) \in Nat
  BY <1>2, <1>3, RankStep
<1>7. QED BY <1>4, <1>5, <1>6

(* Two places of the set have different ranks, of at least 1 and at most   *)
(* the number of places.                                                   *)
LEMMA RankOrder ==
  ASSUME NEW n \in Nat, NEW places \in SUBSET (1 .. n), NEW i \in places, NEW h \in places
  PROVE  /\ Rank(places, i) \in 1 .. Cardinality(places)
         /\ h < i => Rank(places, h) < Rank(places, i)
<1> DEFINE UpTo(j) == {m \in places : m <= j}
<1>1. IsFiniteSet(places) /\ Cardinality(places) \in Nat BY RankStep
<1>2. UpTo(i) \in SUBSET places OBVIOUS
<1>3. IsFiniteSet(UpTo(i)) /\ Cardinality(UpTo(i)) \in Nat /\ Cardinality(UpTo(i)) <= Cardinality(places)
  BY <1>1, <1>2, FS_Subset, FS_CardinalityType
<1>4. Cardinality(UpTo(i)) # 0 BY <1>3, FS_EmptySet, i \in UpTo(i)
<1>5. ASSUME h < i PROVE Cardinality(UpTo(h)) < Cardinality(UpTo(i))
  <2> \A m \in places : m \in Nat OBVIOUS
  <2> \A m \in places : m <= h => m <= i BY <1>5
  <2>1. UpTo(h) \in SUBSET UpTo(i) BY Zenon
  <2>2. i \notin UpTo(h) /\ i \in UpTo(i) BY <1>5
  <2>3. UpTo(h) # UpTo(i) BY <2>2
  <2>4. QED BY <1>3, <2>1, <2>3, FS_Subset, FS_CardinalityType
<1>6. QED BY <1>1, <1>3, <1>4, <1>5 DEF Rank

(* Removing p from a roster of any length (the list comprehension of       *)
(* update_roster) drops nobody else: it lists the same others, in the same *)
(* order, and nobody twice if nobody was.                                  *)
THEOREM WithoutKeeps ==
  ASSUME NEW S, NEW roster \in Seq(S), NEW p
  PROVE  /\ Without(roster, p) \in Seq(S)
         /\ Listed(Without(roster, p)) = Listed(roster) \ {p}
         /\ Distinct(roster) => Distinct(Without(roster, p))
         /\ \A k, l \in DOMAIN Without(roster, p) : k < l =>
              \E h, i \in DOMAIN roster :
                h < i /\ Without(roster, p)[k] = roster[h] /\ Without(roster, p)[l] = roster[i]
<1> DEFINE n == Len(roster)
           kept == Kept(roster, p)
           place(k) == CHOOSE i \in kept : Rank(kept, i) = k
           result == Without(roster, p)
<1>1. n \in Nat /\ DOMAIN roster = 1 .. n /\ kept \in SUBSET (1 .. n)
  BY DEF Kept
<1>2. Cardinality(kept) \in Nat BY <1>1, RankStep
<1>3. ASSUME NEW k \in 1 .. Cardinality(kept)
      PROVE  place(k) \in kept /\ Rank(kept, place(k)) = k
  <2>1. \E i \in kept : Rank(kept, i) = k BY <1>1, <1>3, RankReached
  <2>2. QED BY <2>1
<1>4. result = [k \in 1 .. Cardinality(kept) |-> roster[place(k)]] BY DEF Without
<1> HIDE DEF place, kept, result
<1>5. \A i \in kept : i \in 1 .. n /\ roster[i] \in S /\ roster[i] # p
  BY <1>1 DEF Kept, kept
<1>6. result \in Seq(S)
  BY <1>2, <1>3, <1>4, <1>5
<1>7. Listed(result) \subseteq Listed(roster) \ {p}
  BY <1>1, <1>3, <1>4, <1>5 DEF Listed
<1>8. ASSUME NEW x \in Listed(roster) \ {p} PROVE x \in Listed(result)
  <2>1. PICK i \in kept : roster[i] = x BY <1>8 DEF Listed, kept, Kept
  <2>2. Rank(kept, i) \in 1 .. Cardinality(kept) BY <1>1, RankOrder
  <2>3. PICK k \in 1 .. Cardinality(kept) : k = Rank(kept, i) BY <2>2
  <2>4. place(k) \in kept /\ Rank(kept, place(k)) = Rank(kept, i) BY <1>3, <2>3
  <2>5. i \in 1 .. n /\ place(k) \in 1 .. n BY <1>5, <2>4
  <2>6. ~(place(k) < i) /\ ~(i < place(k))
    <3>1. place(k) < i => Rank(kept, place(k)) < Rank(kept, i) BY <1>1, <2>4, RankOrder
    <3>2. i < place(k) => Rank(kept, i) < Rank(kept, place(k)) BY <1>1, <2>4, RankOrder
    <3>3. QED BY <3>1, <3>2, <2>2, <2>4, <1>2
  <2>7. place(k) = i BY <2>5, <2>6
  <2>8. result[k] = x BY <2>1, <2>7, <1>4
  <2>9. QED BY <2>8, <1>4 DEF Listed
<1>9. ASSUME Distinct(roster) PROVE Distinct(result)
  <2> SUFFICES ASSUME NEW k \in 1 .. Cardinality(kept), NEW l \in 1 .. Cardinality(kept),
                      result[k] = result[l]
               PROVE  k = l
    BY <1>4 DEF Distinct
  <2>1. roster[place(k)] = roster[place(l)] BY <1>4
  <2>2. place(k) = place(l) BY <2>1, <1>1, <1>3, <1>5, <1>9 DEF Distinct
  <2>3. QED BY <2>2, <1>3
<1>10. ASSUME NEW k \in DOMAIN result, NEW l \in DOMAIN result, k < l
       PROVE  \E h, i \in DOMAIN roster : h < i /\ result[k] = roster[h] /\ result[l] = roster[i]
  <2>1. k \in 1 .. Cardinality(kept) /\ l \in 1 .. Cardinality(kept) BY <1>4
  <2>2. /\ place(k) \in kept /\ Rank(kept, place(k)) = k
        /\ place(l) \in kept /\ Rank(kept, place(l)) = l
    BY <1>3, <2>1
  <2>3. place(k) \in 1 .. n /\ place(l) \in 1 .. n BY <1>5, <2>2
  <2>4. ~(place(l) < place(k))
    <3>1. place(l) < place(k) => Rank(kept, place(l)) < Rank(kept, place(k))
      BY <1>1, <2>2, RankOrder
    <3>2. QED BY <1>2, <1>10, <2>1, <2>2, <3>1
  <2>5. place(k) # place(l) BY <1>2, <1>10, <2>1, <2>2
  <2>6. place(k) < place(l) BY <2>3, <2>4, <2>5
  <2>7. result[k] = roster[place(k)] /\ result[l] = roster[place(l)] BY <1>4, <2>1
  <2>8. QED BY <1>1, <2>3, <2>6, <2>7
<1>11. QED BY <1>6, <1>7, <1>8, <1>9, <1>10 DEF result

-----------------------------------------------------------------------------
(* The values of the model *)

LEMMA NoneIsNoRow == None \notin AgeGroup /\ None \notin Team /\ None \notin Event
BY DEF None, AgeGroup, Team, Event, Clubs

(* A job is of the kind its step names.                                    *)
LEMMA JobKinds ==
  ASSUME NEW j \in Job
  PROVE  /\ j.step = "insertAgeGroup" => j \in AgeGroupJob
         /\ j.step = "insertTeam" => j \in TeamJob
         /\ j.step \in {"checkCoordinator", "saveRoster"} => j \in RosterJob
         /\ j.step = "insertEvent" => j \in EventJob
BY DEF Job, Idle, AgeGroupJob, TeamJob, RosterJob, EventJob

LEMMA JobsApart ==
  /\ \A j \in AgeGroupJob : j \notin TeamJob \cup RosterJob \cup EventJob
  /\ \A j \in TeamJob : j \notin AgeGroupJob \cup RosterJob \cup EventJob
  /\ \A j \in RosterJob : j \notin AgeGroupJob \cup TeamJob \cup EventJob
  /\ \A j \in EventJob : j \notin AgeGroupJob \cup TeamJob \cup RosterJob
  /\ Idle \notin AgeGroupJob \cup TeamJob \cup RosterJob \cup EventJob
BY DEF Idle, AgeGroupJob, TeamJob, RosterJob, EventJob

(* The row that an edit saves: only the roster and the version differ.     *)
LEMMA EditedRow ==
  ASSUME NEW row \in Team, NEW new \in Edited(row)
  PROVE  /\ new \in Team
         /\ new.club = row.club /\ new.group = row.group /\ new.coach = row.coach
         /\ Distinct(row.roster) => Distinct(new.roster)
<1>1. PICK r \in Edits(row.roster) : new = [row EXCEPT !.roster = r, !.version = @ + 1]
  BY DEF Edited
<1>2. row.roster \in Seq(Players) BY DEF Team
<1>3. /\ r \in Seq(Players)
      /\ Distinct(row.roster) => Distinct(r)
  <2>1. CASE r \in {Append(row.roster, p) : p \in Players \ Listed(row.roster)}
    <3>1. PICK p \in Players \ Listed(row.roster) : r = Append(row.roster, p)
      BY <2>1
    <3>2. /\ r \in Seq(Players) /\ Len(row.roster) \in Nat
          /\ DOMAIN row.roster = 1 .. Len(row.roster)
          /\ DOMAIN r = 1 .. Len(row.roster) + 1
          /\ \A i \in 1 .. Len(row.roster) : r[i] = row.roster[i]
          /\ r[Len(row.roster) + 1] = p
      BY <1>2, <3>1
    <3>3. \A i \in 1 .. Len(row.roster) : row.roster[i] # p
      BY <3>1, <3>2 DEF Listed
    <3>4. QED BY <3>2, <3>3 DEF Distinct
  <2>2. CASE r \in {Without(row.roster, p) : p \in Players}
    <3>1. PICK p \in Players : r = Without(row.roster, p) BY <2>2
    <3>2. QED BY <1>2, <3>1, WithoutKeeps
  <2>3. QED BY <2>1, <2>2 DEF Edits
<1>4. new = [club |-> row.club, group |-> row.group, coach |-> row.coach,
             roster |-> r, version |-> row.version + 1]
  BY <1>1 DEF Team
<1>5. new.roster = r BY <1>4
<1>6. new \in Team BY <1>3, <1>4 DEF Team
<1>7. QED BY <1>3, <1>4, <1>5, <1>6

-----------------------------------------------------------------------------
(* What every step keeps: a key given out stays given out, its row changes *)
(* neither club nor group nor coach, and does not come back.               *)
Persists ==
  /\ used \subseteq used'
  /\ \A g \in used \cap AgeGroupIds : ageGroups'[g] \in {ageGroups[g], None}
  /\ \A t \in used \cap TeamIds : teams'[t] # None =>
       /\ teams[t] # None
       /\ teams'[t].club = teams[t].club
       /\ teams'[t].group = teams[t].group
       /\ teams'[t].coach = teams[t].coach

LEMMA TeamStaysBacked ==
  ASSUME Persists, NEW row \in Team, TeamBacked(row)
  PROVE  TeamBacked(row)'
BY DEF Persists, TeamBacked, Team

LEMMA EventStaysBacked ==
  ASSUME Persists, NEW row \in Event, EventBacked(row)
  PROVE  EventBacked(row)'
BY DEF Persists, EventBacked, Event

LEMMA LookUpStaysBacked ==
  ASSUME Persists, NEW j \in AgeGroupJob, LookUpBacked(j)
  PROVE  LookUpBacked(j)'
BY DEF Persists, LookUpBacked, AgeGroupJob

LEMMA EditStaysBacked ==
  ASSUME Persists, NEW j \in RosterJob, EditBacked(j)
  PROVE  EditBacked(j)'
<1>1. j.team \in TeamIds /\ j.row \in Team /\ j.row.group \in AgeGroupIds
  BY DEF RosterJob, Team
<1>2. TeamBacked(j.row)' BY <1>1, TeamStaysBacked DEF EditBacked
<1>3. j.row.group \in used BY DEF EditBacked, TeamBacked
<1>4. ageGroups[j.row.group] = None \/ Coordinates(j.by, j.row.group)
        => (ageGroups[j.row.group] = None \/ Coordinates(j.by, j.row.group))'
  BY <1>1, <1>3 DEF Persists, Coordinates
<1>5. QED BY <1>1, <1>2, <1>4 DEF Persists, EditBacked

LEMMA JobStaysBacked ==
  ASSUME Persists, NEW j \in Job, JobBacked(j)
  PROVE  JobBacked(j)'
<1>1. j \in AgeGroupJob => LookUpBacked(j)' BY LookUpStaysBacked DEF JobBacked
<1>2. j \in TeamJob => TeamBacked(j.row)' BY TeamStaysBacked DEF JobBacked, TeamJob
<1>3. j \in RosterJob => EditBacked(j)' BY EditStaysBacked DEF JobBacked
<1>4. j \in EventJob => EventBacked(j.row)' BY EventStaysBacked DEF JobBacked, EventJob
<1>5. QED BY <1>1, <1>2, <1>3, <1>4 DEF JobBacked

(* So a step is judged by the rows it writes and by the job of the worker  *)
(* that takes it.                                                          *)
LEMMA StepPreserves ==
  ASSUME Inductive, Persists, TypeOK', KeysGivenOut',
         NEW w \in Workers, NEW k \in Job, job' = [job EXCEPT ![w] = k], JobBacked(k)',
         \A t \in TeamIds : teams'[t] # None => teams'[t] = teams[t] \/ TeamBacked(teams[t])',
         \A e \in EventIds : events'[e] # None => events'[e] = events[e] \/ EventBacked(events[e])'
  PROVE  Inductive'
<1>1. ASSUME NEW t \in TeamIds, teams'[t] # None PROVE TeamBacked(teams[t])'
  <2>1. CASE teams'[t] = teams[t]
    <3>1. teams[t] \in Team /\ TeamBacked(teams[t]) BY <1>1, <2>1 DEF Inductive, TypeOK
    <3>2. PICK row \in Team : row = teams[t] BY <3>1
    <3>3. TeamBacked(row)' BY <3>1, <3>2, TeamStaysBacked
    <3>4. QED BY <3>2, <3>3, <2>1 DEF TeamBacked
  <2>2. QED BY <1>1, <2>1
<1>2. ASSUME NEW e \in EventIds, events'[e] # None PROVE EventBacked(events[e])'
  <2>1. CASE events'[e] = events[e]
    <3>1. events[e] \in Event /\ EventBacked(events[e]) BY <1>2, <2>1 DEF Inductive, TypeOK
    <3>2. PICK row \in Event : row = events[e] BY <3>1
    <3>3. EventBacked(row)' BY <3>1, <3>2, EventStaysBacked
    <3>4. QED BY <3>2, <3>3, <2>1 DEF EventBacked
  <2>2. QED BY <1>2, <2>1
<1>3. ASSUME NEW v \in Workers PROVE JobBacked(job[v])'
  <2>1. PICK j \in Job : j = job'[v] BY DEF TypeOK
  <2>2. CASE v = w BY <2>2 DEF Inductive, TypeOK
  <2>3. CASE v # w
    <3>1. j = job[v] /\ JobBacked(j) BY <2>1, <2>3 DEF Inductive, TypeOK
    <3>2. JobBacked(j)' BY <3>1, JobStaysBacked
    <3>3. QED BY <3>2, <2>1 DEF JobBacked, LookUpBacked, EditBacked, Coordinates, TeamBacked, EventBacked
  <2>4. QED BY <2>2, <2>3
<1>4. QED BY <1>1, <1>2, <1>3 DEF Inductive

LEMMA InitInductive == ASSUME Init PROVE Inductive
BY JobsApart DEF Init, Inductive, TypeOK, KeysGivenOut, JobBacked, Job, Idle,
       AgeGroupJob, TeamJob, RosterJob, EventJob

(* The steps that only change what a worker is doing.                      *)
LEMMA RememberPreserves ==
  ASSUME Inductive, NEW w \in Workers, NEW k \in Job, JobBacked(k),
         job' = [job EXCEPT ![w] = k], UNCHANGED <<ageGroups, teams, events, used>>
  PROVE  Persists /\ Inductive'
<1>1. Persists BY DEF Persists
<1>2. TypeOK' /\ KeysGivenOut' BY DEF Inductive, TypeOK, KeysGivenOut
<1>3. JobBacked(k)' BY <1>1, JobStaysBacked
<1>4. QED BY <1>1, <1>2, <1>3, StepPreserves

LEMMA ForgetPreserves ==
  ASSUME Inductive, NEW w \in Workers, Finish(w), UNCHANGED <<ageGroups, teams, events, used>>
  PROVE  Persists /\ Inductive'
<1>1. Idle \in Job /\ JobBacked(Idle) BY JobsApart DEF Job, JobBacked
<1>2. QED BY <1>1, RememberPreserves DEF Finish

LEMMA CreateAgeGroupPreserves ==
  ASSUME Inductive, NEW w \in Workers, CreateAgeGroup(w)
  PROVE  Persists /\ Inductive'
<1>1. PICK p \in Principals, n \in Names, c \in Coordinators \cup {NoUser} :
        /\ p.club # NoClub /\ ~NameTaken(n, p.club)
        /\ job' = [job EXCEPT ![w] =
             [step |-> "insertAgeGroup",
              row |-> [name |-> n, club |-> p.club, coordinator |-> c],
              since |-> used \cap AgeGroupIds]]
  BY DEF CreateAgeGroup, Start
<1>2. PICK k : k = [step |-> "insertAgeGroup",
                    row |-> [name |-> n, club |-> p.club, coordinator |-> c],
                    since |-> used \cap AgeGroupIds]
  OBVIOUS
<1>3. k \in AgeGroupJob /\ k \in Job
  BY <1>1, <1>2 DEF Job, AgeGroupJob, AgeGroup, Clubs
<1>4. LookUpBacked(k) BY <1>1, <1>2 DEF LookUpBacked, NameTaken
<1>5. JobBacked(k) BY <1>3, <1>4, JobsApart DEF JobBacked
<1>6. QED BY <1>1, <1>2, <1>3, <1>5, RememberPreserves DEF CreateAgeGroup

LEMMA InsertAgeGroupPreserves ==
  ASSUME Inductive, NEW w \in Workers, InsertAgeGroup(w)
  PROVE  Persists /\ Inductive'
<1>1. PICK k \in AgeGroupJob : k = job[w]
  BY JobKinds DEF InsertAgeGroup, Inductive, TypeOK
<1>2. PICK g \in AgeGroupIds \ used :
        ageGroups' = [ageGroups EXCEPT ![g] = k.row] /\ used' = used \cup {g}
  BY <1>1 DEF InsertAgeGroup
<1>3. UNCHANGED <<teams, events>> /\ job' = [job EXCEPT ![w] = Idle]
  BY DEF InsertAgeGroup, Finish
<1>4. Persists BY <1>2, <1>3 DEF Persists, Inductive, TypeOK
<1>5. k.row \in AgeGroup BY DEF AgeGroupJob
<1>6. TypeOK'
  BY <1>2, <1>3, <1>5 DEF Inductive, TypeOK, Job
<1>7. KeysGivenOut' BY <1>2, <1>3 DEF Inductive, KeysGivenOut, TypeOK
<1>8. Idle \in Job /\ JobBacked(Idle)' BY JobsApart DEF Job, JobBacked
<1>9. QED BY <1>3, <1>4, <1>6, <1>7, <1>8, StepPreserves

LEMMA RemoveAgeGroupPreserves ==
  ASSUME Inductive, NEW w \in Workers, RemoveAgeGroup(w)
  PROVE  Persists /\ Inductive'
<1>1. PICK g \in AgeGroupIds : ageGroups' = [ageGroups EXCEPT ![g] = None]
  BY DEF RemoveAgeGroup
<1>2. UNCHANGED <<teams, events, used, job>> BY DEF RemoveAgeGroup
<1>3. job' = [job EXCEPT ![w] = Idle] BY <1>2 DEF RemoveAgeGroup, Inductive, TypeOK
<1>4. Persists BY <1>1, <1>2 DEF Persists, Inductive, TypeOK
<1>5. TypeOK' BY <1>1, <1>2 DEF Inductive, TypeOK
<1>6. KeysGivenOut' BY <1>1, <1>2 DEF Inductive, KeysGivenOut, TypeOK
<1>7. Idle \in Job /\ JobBacked(Idle)' BY JobsApart DEF Job, JobBacked
<1>8. QED BY <1>2, <1>3, <1>4, <1>5, <1>6, <1>7, StepPreserves

LEMMA CreateTeamPreserves ==
  ASSUME Inductive, NEW w \in Workers, CreateTeam(w)
  PROVE  Persists /\ Inductive'
<1>1. PICK p \in Principals, g \in AgeGroupIds, c \in Coaches \cup {NoUser} :
        /\ ageGroups[g] # None /\ ageGroups[g].club = p.club
        /\ job' = [job EXCEPT ![w] =
             [step |-> "insertTeam",
              row |-> [club |-> p.club, group |-> g, coach |-> c,
                       roster |-> <<>>, version |-> 0]]]
  BY DEF CreateTeam, Start
<1>2. PICK row : row = [club |-> p.club, group |-> g, coach |-> c,
                        roster |-> <<>>, version |-> 0]
  OBVIOUS
<1>3. PICK k : k = [step |-> "insertTeam", row |-> row] OBVIOUS
<1>4. ageGroups[g] \in AgeGroup /\ g \in used
  BY <1>1 DEF Inductive, TypeOK, KeysGivenOut
<1>5. row \in Team
  <2>1. p.club \in Clubs BY <1>1, <1>4 DEF AgeGroup
  <2>2. <<>> \in Seq(Players) OBVIOUS
  <2>3. QED BY <1>2, <2>1, <2>2 DEF Team
<1>6. k \in TeamJob /\ k \in Job BY <1>3, <1>5 DEF Job, TeamJob
<1>7. TeamBacked(row)
  <2>1. row.roster = <<>> /\ row.group = g /\ row.club = p.club BY <1>2
  <2>2. Distinct(<<>>) BY DEF Distinct
  <2>3. QED BY <1>1, <1>4, <2>1, <2>2 DEF TeamBacked
<1>8. JobBacked(k) BY <1>3, <1>6, <1>7, JobsApart DEF JobBacked
<1>9. QED BY <1>1, <1>2, <1>3, <1>6, <1>8, RememberPreserves DEF CreateTeam

LEMMA InsertTeamPreserves ==
  ASSUME Inductive, NEW w \in Workers, InsertTeam(w)
  PROVE  Persists /\ Inductive'
<1>1. PICK k \in TeamJob : k = job[w]
  BY JobKinds DEF InsertTeam, Inductive, TypeOK
<1>2. PICK t \in TeamIds \ used :
        teams' = [teams EXCEPT ![t] = k.row] /\ used' = used \cup {t}
  BY <1>1 DEF InsertTeam
<1>3. UNCHANGED <<ageGroups, events>> /\ job' = [job EXCEPT ![w] = Idle]
  BY DEF InsertTeam, Finish
<1>4. Persists BY <1>2, <1>3 DEF Persists, Inductive, TypeOK
<1>5. PICK row \in Team : row = k.row BY DEF TeamJob
<1>6. TeamBacked(row) BY <1>1, <1>5 DEF Inductive, JobBacked
<1>7. TeamBacked(row)' BY <1>4, <1>6, TeamStaysBacked
<1>8. TypeOK' BY <1>2, <1>3, <1>5 DEF Inductive, TypeOK, Job
<1>9. KeysGivenOut' BY <1>2, <1>3 DEF Inductive, KeysGivenOut, TypeOK
<1>10. ASSUME NEW u \in TeamIds, teams'[u] # None
       PROVE  teams'[u] = teams[u] \/ TeamBacked(teams[u])'
  <2>1. CASE u = t
    <3>1. teams'[u] = row BY <1>2, <1>5, <2>1 DEF Inductive, TypeOK
    <3>2. QED BY <3>1, <1>7 DEF TeamBacked
  <2>2. QED BY <1>2, <2>1 DEF Inductive, TypeOK
<1>11. Idle \in Job /\ JobBacked(Idle)' BY JobsApart DEF Job, JobBacked
<1>12. QED BY <1>3, <1>4, <1>8, <1>9, <1>10, <1>11, StepPreserves

LEMMA RemoveTeamPreserves ==
  ASSUME Inductive, NEW w \in Workers, RemoveTeam(w)
  PROVE  Persists /\ Inductive'
<1>1. PICK t \in TeamIds : teams' = [teams EXCEPT ![t] = None]
  BY DEF RemoveTeam
<1>2. UNCHANGED <<ageGroups, events, used, job>> BY DEF RemoveTeam
<1>3. job' = [job EXCEPT ![w] = Idle] BY <1>2 DEF RemoveTeam, Inductive, TypeOK
<1>4. Persists BY <1>1, <1>2 DEF Persists, Inductive, TypeOK
<1>5. TypeOK' BY <1>1, <1>2 DEF Inductive, TypeOK
<1>6. KeysGivenOut' BY <1>1, <1>2 DEF Inductive, KeysGivenOut, TypeOK
<1>7. Idle \in Job /\ JobBacked(Idle)' BY JobsApart DEF Job, JobBacked
<1>8. \A u \in TeamIds : teams'[u] # None => teams'[u] = teams[u]
  BY <1>1 DEF Inductive, TypeOK
<1>9. QED BY <1>2, <1>3, <1>4, <1>5, <1>6, <1>7, <1>8, StepPreserves

(* An edit is made of a row that backs it.                                 *)
LEMMA EditRosterPreserves ==
  ASSUME Inductive, NEW w \in Workers, EditRoster(w)
  PROVE  Persists /\ Inductive'
<1>1. PICK p \in Principals, t \in TeamIds :
        /\ InSight(p, teams[t])
        /\ p.role = "COACH" => teams[t].coach = p.user
        /\ \E row \in Edited(teams[t]) :
             job' = [job EXCEPT ![w] =
               [step |-> IF p.role = "COORDINATOR" THEN "checkCoordinator" ELSE "saveRoster",
                by |-> p, team |-> t, row |-> row]]
  BY DEF EditRoster, Start
<1> DEFINE step == IF p.role = "COORDINATOR" THEN "checkCoordinator" ELSE "saveRoster"
<1>2. PICK new \in Edited(teams[t]) :
        job' = [job EXCEPT ![w] = [step |-> step, by |-> p, team |-> t, row |-> new]]
  BY <1>1
<1>3. PICK k : k = [step |-> step, by |-> p, team |-> t, row |-> new] OBVIOUS
<1>4. teams[t] \in Team /\ t \in used /\ TeamBacked(teams[t])
  BY <1>1 DEF Inductive, TypeOK, KeysGivenOut, InSight
<1>5. /\ new \in Team
      /\ new.club = teams[t].club /\ new.group = teams[t].group /\ new.coach = teams[t].coach
      /\ Distinct(teams[t].roster) => Distinct(new.roster)
  BY <1>4, EditedRow
<1>6. k \in RosterJob /\ k \in Job BY <1>3, <1>5 DEF Job, RosterJob
<1>7. TeamBacked(new) BY <1>4, <1>5 DEF TeamBacked
<1>8. EditBacked(k) BY <1>1, <1>3, <1>4, <1>5, <1>7 DEF EditBacked, InSight
<1>9. JobBacked(k) BY <1>6, <1>8, JobsApart DEF JobBacked
<1>10. QED BY <1>2, <1>3, <1>6, <1>9, RememberPreserves DEF EditRoster

LEMMA CheckCoordinatorPreserves ==
  ASSUME Inductive, NEW w \in Workers, CheckCoordinator(w)
  PROVE  Persists /\ Inductive'
<1>1. PICK j \in RosterJob : j = job[w] /\ EditBacked(j)
  BY JobKinds DEF CheckCoordinator, Inductive, TypeOK, JobBacked
<1>2. CASE Coordinates(j.by, j.row.group)
  <2>1. PICK k : k = [j EXCEPT !.step = "saveRoster"] OBVIOUS
  <2>2. job' = [job EXCEPT ![w] = k]
    BY <1>1, <1>2, <2>1 DEF CheckCoordinator, Inductive, TypeOK
  <2>3. /\ k \in RosterJob /\ k \in Job
        /\ k.by = j.by /\ k.team = j.team /\ k.row = j.row
    BY <2>1 DEF RosterJob, Job
  <2>4. EditBacked(k) BY <1>1, <1>2, <2>3 DEF EditBacked
  <2>5. JobBacked(k) BY <2>3, <2>4, JobsApart DEF JobBacked
  <2>6. QED BY <2>2, <2>3, <2>5, RememberPreserves DEF CheckCoordinator
<1>3. CASE ~Coordinates(j.by, j.row.group)
  BY <1>1, <1>3, ForgetPreserves DEF CheckCoordinator
<1>4. QED BY <1>2, <1>3

LEMMA SaveRosterPreserves ==
  ASSUME Inductive, NEW w \in Workers, SaveRoster(w)
  PROVE  Persists /\ Inductive'
<1>1. PICK j \in RosterJob : j = job[w] /\ EditBacked(j)
  BY JobKinds DEF SaveRoster, Inductive, TypeOK, JobBacked
<1>2. UNCHANGED <<ageGroups, events, used>> /\ job' = [job EXCEPT ![w] = Idle]
  BY DEF SaveRoster, Finish
<1>3. CASE teams[j.team] = None
  BY <1>1, <1>2, <1>3, ForgetPreserves DEF SaveRoster, Finish
<1>4. CASE teams[j.team] # None
  <2>1. PICK t \in TeamIds : t = j.team /\ t \in used BY <1>1 DEF RosterJob, EditBacked
  <2>2. PICK old \in Team : old = teams[t] BY <1>4, <2>1 DEF Inductive, TypeOK
  <2>3. PICK new \in Team : new = [old EXCEPT !.roster = j.row.roster, !.version = j.row.version]
    <3>1. j.row.roster \in Seq(Players) /\ j.row.version \in Nat BY DEF RosterJob, Team
    <3>2. QED BY <3>1 DEF Team
  <2>4. teams' = [teams EXCEPT ![t] = new]
    BY <1>1, <1>4, <2>1, <2>2, <2>3 DEF SaveRoster, Inductive, TypeOK
  <2>5. /\ new.club = old.club /\ new.group = old.group /\ new.coach = old.coach
        /\ new.roster = j.row.roster
    BY <2>3 DEF Team
  <2>6. Persists BY <1>2, <2>1, <2>2, <2>4, <2>5, <1>4 DEF Persists, Inductive, TypeOK
  <2>7. TypeOK' BY <1>2, <2>3, <2>4 DEF Inductive, TypeOK, Job
  <2>8. KeysGivenOut' BY <1>2, <2>1, <2>4 DEF Inductive, KeysGivenOut, TypeOK
  <2>9. TeamBacked(new)
    <3>1. TeamBacked(old) BY <1>4, <2>1, <2>2 DEF Inductive
    <3>2. Distinct(new.roster) BY <1>1, <2>5 DEF EditBacked, TeamBacked
    <3>3. QED BY <3>1, <3>2, <2>5 DEF TeamBacked
  <2>10. TeamBacked(new)' BY <2>6, <2>9, TeamStaysBacked
  <2>11. ASSUME NEW u \in TeamIds, teams'[u] # None
         PROVE  teams'[u] = teams[u] \/ TeamBacked(teams[u])'
    <3>1. CASE u = t
      <4>1. teams'[u] = new BY <2>4, <3>1 DEF Inductive, TypeOK
      <4>2. QED BY <4>1, <2>10 DEF TeamBacked
    <3>2. QED BY <2>4, <3>1 DEF Inductive, TypeOK
  <2>12. Idle \in Job /\ JobBacked(Idle)' BY JobsApart DEF Job, JobBacked
  <2>13. QED BY <1>2, <2>6, <2>7, <2>8, <2>11, <2>12, StepPreserves
<1>5. QED BY <1>3, <1>4

LEMMA CreateEventPreserves ==
  ASSUME Inductive, NEW w \in Workers, CreateEvent(w)
  PROVE  Persists /\ Inductive'
<1>1. PICK p \in Principals, t \in TeamIds :
        /\ teams[t] # None
        /\ p.role # "SUPER_ADMIN" => teams[t].club = p.club
        /\ p.role = "COACH" => teams[t].coach = p.user
        /\ job' = [job EXCEPT ![w] =
             [step |-> "insertEvent", row |-> [team |-> t, club |-> teams[t].club, by |-> p]]]
  BY DEF CreateEvent, Start
<1>2. PICK row : row = [team |-> t, club |-> teams[t].club, by |-> p] OBVIOUS
<1>3. PICK k : k = [step |-> "insertEvent", row |-> row] OBVIOUS
<1>4. teams[t] \in Team /\ t \in used BY <1>1 DEF Inductive, TypeOK, KeysGivenOut
<1>5. row \in Event BY <1>2, <1>4 DEF Event, Team
<1>6. EventBacked(row) BY <1>1, <1>2, <1>4 DEF EventBacked
<1>7. k \in EventJob /\ k \in Job BY <1>3, <1>5 DEF Job, EventJob
<1>8. JobBacked(k) BY <1>3, <1>6, <1>7, JobsApart DEF JobBacked
<1>9. QED BY <1>1, <1>2, <1>3, <1>7, <1>8, RememberPreserves DEF CreateEvent

LEMMA InsertEventPreserves ==
  ASSUME Inductive, NEW w \in Workers, InsertEvent(w)
  PROVE  Persists /\ Inductive'
<1>1. PICK k \in EventJob : k = job[w]
  BY JobKinds DEF InsertEvent, Inductive, TypeOK
<1>2. PICK e \in EventIds : events' = [events EXCEPT ![e] = k.row]
  BY <1>1 DEF InsertEvent
<1>3. UNCHANGED <<ageGroups, teams, used>> /\ job' = [job EXCEPT ![w] = Idle]
  BY DEF InsertEvent, Finish
<1>4. Persists BY <1>3 DEF Persists
<1>5. PICK row \in Event : row = k.row BY DEF EventJob
<1>6. EventBacked(row) BY <1>1, <1>5 DEF Inductive, JobBacked
<1>7. EventBacked(row)' BY <1>4, <1>6, EventStaysBacked
<1>8. TypeOK' BY <1>2, <1>3, <1>5 DEF Inductive, TypeOK, Job
<1>9. KeysGivenOut' BY <1>3 DEF Inductive, KeysGivenOut
<1>10. ASSUME NEW d \in EventIds, events'[d] # None
       PROVE  events'[d] = events[d] \/ EventBacked(events[d])'
  <2>1. CASE d = e
    <3>1. events'[d] = row BY <1>2, <1>5, <2>1 DEF Inductive, TypeOK
    <3>2. QED BY <3>1, <1>7 DEF EventBacked
  <2>2. QED BY <1>2, <2>1 DEF Inductive, TypeOK
<1>11. Idle \in Job /\ JobBacked(Idle)' BY JobsApart DEF Job, JobBacked
<1>12. QED BY <1>3, <1>4, <1>8, <1>9, <1>10, <1>11, StepPreserves

LEMMA GiveUpPreserves ==
  ASSUME Inductive, NEW w \in Workers, NoKeyLeft(w) \/ Kill(w)
  PROVE  Persists /\ Inductive'
BY ForgetPreserves DEF NoKeyLeft, Kill

LEMMA NextPreserves ==
  ASSUME Inductive, [Next]_vars
  PROVE  Persists /\ Inductive'
<1>1. CASE UNCHANGED vars
  BY <1>1 DEF vars, Persists, Inductive, TypeOK, KeysGivenOut, TeamBacked, EventBacked,
              JobBacked, LookUpBacked, EditBacked, Coordinates
<1>2. ASSUME NEW w \in Workers, Begin(w)
      PROVE  Persists /\ Inductive'
  BY <1>2, CreateAgeGroupPreserves, RemoveAgeGroupPreserves, CreateTeamPreserves,
     RemoveTeamPreserves, EditRosterPreserves, CreateEventPreserves
  DEF Begin
<1>3. ASSUME NEW w \in Workers, Step(w) \/ Kill(w)
      PROVE  Persists /\ Inductive'
  BY <1>3, InsertAgeGroupPreserves, InsertTeamPreserves, InsertEventPreserves,
     GiveUpPreserves, CheckCoordinatorPreserves, SaveRosterPreserves
  DEF Step
<1>4. QED BY <1>1, <1>2, <1>3 DEF Next

(* Tables and workers' memory back each other, whatever workers interleave *)
(* and wherever they are killed.                                           *)
THEOREM TeamsInductive == Spec => []Inductive
<1>1. Init => Inductive BY InitInductive
<1>2. Inductive /\ [Next]_vars => Inductive' BY NextPreserves
<1>3. QED BY <1>1, <1>2, PTL DEF Spec

(* Every column and every worker's memory hold values of their types.      *)
THEOREM TeamsTyped == Spec => []TypeOK
<1>1. Inductive => TypeOK BY DEF Inductive
<1>2. QED BY <1>1, TeamsInductive, PTL

(* Edits never save a roster that lists a player twice (update_roster).    *)
THEOREM RostersDistinct == Spec => []RosterWithoutDuplicates
<1>1. Inductive => RosterWithoutDuplicates
  BY DEF Inductive, RosterWithoutDuplicates, TeamBacked
<1>2. QED BY <1>1, TeamsInductive, PTL

(* A team belongs to the club of its age group, as long as that exists.    *)
THEOREM TeamsInClub == Spec => []TeamsFollowGroups
<1>1. Inductive => TeamsFollowGroups
  BY DEF Inductive, TeamsFollowGroups, TeamBacked
<1>2. QED BY <1>1, TeamsInductive, PTL

(* An event belongs to the club of its team, and is of somebody entitled   *)
(* to create it.                                                           *)
THEOREM EventsInClub == Spec => []EventsFollowTeams
<1>1. Inductive => EventsFollowTeams
  BY DEF Inductive, EventsFollowTeams, EventBacked
<1>2. QED BY <1>1, TeamsInductive, PTL

(* No step brings back the row of a key that was given out.                *)
THEOREM RemovedIsGone == Spec => RemovedStaysRemoved
<1>1. Inductive /\ [Next]_vars =>
        [/\ \A t \in used \cap TeamIds : teams[t] = None => teams'[t] = None
         /\ \A g \in used \cap AgeGroupIds : ageGroups[g] = None => ageGroups'[g] = None]_vars
  BY NextPreserves DEF Persists
<1>2. QED BY <1>1, TeamsInductive, PTL DEF Spec, RemovedStaysRemoved

(* The only step that adds an age group, and the only one that changes the *)
(* row of a team and leaves it there.                                      *)
LEMMA AgeGroupAppears ==
  ASSUME [Next]_vars, TypeOK, NEW g \in AgeGroupIds, ageGroups[g] = None, ageGroups'[g] # None
  PROVE  \E w \in Workers : InsertAgeGroup(w)
<1>1. PICK w \in Workers : Begin(w) \/ Step(w) \/ Kill(w) BY DEF Next, vars
<1>2. ASSUME RemoveAgeGroup(w) PROVE FALSE BY <1>2 DEF RemoveAgeGroup, TypeOK
<1>3. QED
  BY <1>1, <1>2 DEF Begin, Step, Kill, CreateAgeGroup, CreateTeam, RemoveTeam, EditRoster,
     CreateEvent, InsertTeam, InsertEvent, NoKeyLeft, CheckCoordinator, SaveRoster

LEMMA TeamChanges ==
  ASSUME [Next]_vars, TypeOK, KeysGivenOut,
         NEW t \in TeamIds, teams[t] # None, teams'[t] # None, teams'[t] # teams[t]
  PROVE  \E w \in Workers : SaveRoster(w) /\ job[w].team = t
<1>1. PICK w \in Workers : Begin(w) \/ Step(w) \/ Kill(w) BY DEF Next, vars
<1>2. ASSUME RemoveTeam(w) PROVE FALSE BY <1>2 DEF RemoveTeam, TypeOK
<1>3. ASSUME InsertTeam(w) PROVE FALSE BY <1>3 DEF InsertTeam, TypeOK, KeysGivenOut
<1>4. SaveRoster(w)
  BY <1>1, <1>2, <1>3 DEF Begin, Step, Kill, CreateAgeGroup, CreateTeam, RemoveAgeGroup,
     EditRoster, CreateEvent, InsertAgeGroup, InsertEvent, NoKeyLeft, CheckCoordinator
<1>5. job[w].team = t BY <1>4 DEF SaveRoster, TypeOK
<1>6. QED BY <1>4, <1>5

(* Of two age groups of a club with one name, the second was looked up     *)
(* before the first was inserted.                                          *)
THEOREM NamesakesWereConcurrent == Spec => NamesakesOverlap
<1> DEFINE Overlap(g, h) ==
      \E w \in Workers : /\ job[w].step = "insertAgeGroup" /\ job[w].row = ageGroups'[g]
                         /\ h \notin job[w].since
<1>1. ASSUME Inductive, [Next]_vars, NEW g \in AgeGroupIds, NEW h \in AgeGroupIds,
             ageGroups[g] = None, ageGroups'[g] # None, ageGroups[h] # None,
             ageGroups[h].name = ageGroups'[g].name, ageGroups[h].club = ageGroups'[g].club
      PROVE  Overlap(g, h)
  <2>1. PICK w \in Workers : InsertAgeGroup(w) BY <1>1, AgeGroupAppears DEF Inductive
  <2>2. PICK j \in AgeGroupJob : j = job[w] /\ LookUpBacked(j)
    BY <1>1, <2>1, JobKinds DEF InsertAgeGroup, Inductive, TypeOK, JobBacked
  <2>3. j.step = "insertAgeGroup" /\ j.row = ageGroups'[g]
    BY <1>1, <2>1, <2>2 DEF InsertAgeGroup, Inductive, TypeOK
  <2>4. h \notin j.since BY <1>1, <2>2, <2>3 DEF LookUpBacked
  <2>5. QED BY <2>2, <2>3, <2>4
<1>2. Inductive /\ [Next]_vars =>
        [\A g, h \in AgeGroupIds :
           /\ ageGroups[g] = None /\ ageGroups'[g] # None /\ ageGroups[h] # None
           /\ ageGroups[h].name = ageGroups'[g].name /\ ageGroups[h].club = ageGroups'[g].club
           => Overlap(g, h)]_vars
  BY <1>1
<1>3. QED BY <1>2, TeamsInductive, PTL DEF Spec, NamesakesOverlap

(* Whoever saves a roster is entitled to at that moment.                   *)
THEOREM RosterEditorsEntitled == Spec => RosterEditsEntitled
<1> DEFINE Entitled(t, w) ==
      /\ job[w].step = "saveRoster" /\ job[w].team = t
      /\ InSight(job[w].by, teams[t])
      /\ job[w].by.role = "COACH" => teams[t].coach = job[w].by.user
      /\ job[w].by.role = "COORDINATOR"
           => \/ ageGroups[teams[t].group] = None
              \/ Coordinates(job[w].by, teams[t].group)
<1>1. ASSUME Inductive, [Next]_vars, NEW t \in TeamIds,
             teams[t] # None, teams'[t] # None, teams'[t] # teams[t]
      PROVE  \E w \in Workers : Entitled(t, w)
  <2>1. PICK w \in Workers : SaveRoster(w) /\ job[w].team = t
    BY <1>1, TeamChanges DEF Inductive
  <2>2. PICK j \in RosterJob : j = job[w] /\ EditBacked(j) /\ j.step = "saveRoster"
    BY <1>1, <2>1, JobKinds DEF SaveRoster, Inductive, TypeOK, JobBacked
  <2>3. j.team = t BY <2>1, <2>2
  <2>4. Entitled(t, w) BY <1>1, <2>2, <2>3 DEF EditBacked, InSight
  <2>5. QED BY <2>4
<1>2. Inductive /\ [Next]_vars =>
        [\A t \in TeamIds :
           teams[t] # None /\ teams'[t] # None /\ teams'[t] # teams[t]
             => \E w \in Workers : Entitled(t, w)]_vars
  BY <1>1
<1>3. QED BY <1>2, TeamsInductive, PTL DEF Spec, RosterEditsEntitled
=============================================================================
