--------------------------- MODULE RatingsProofs ---------------------------
(***************************************************************************)
(* Proofs about Ratings, for any raters beside any workers.                *)
(***************************************************************************)
EXTENDS Ratings, TeamsProofs

(* A step of the tables or of a rater is a step of Teams or none.          *)
LEMMA TablesStep == ASSUME [RatingNext]_allVars PROVE [Next]_vars
BY DEF RatingNext, allVars, vars

LEMMA RatingKinds ==
  /\ \A j \in Writing : j # Resting /\ j \notin Checking
  /\ \A j \in Checking : j # Resting /\ j \notin Writing
  /\ \A j \in {Resting} \cup Writing \cup Checking :
       /\ j.step = "checkGroup" => j \in Checking
       /\ j.step \in {"findRow", "insertRow"} => j \in Writing
BY DEF Resting, Writing, Checking

(* The team that .first() finds is one of those that list the player.      *)
LEMMA FirstListingLists ==
  ASSUME NEW x, Listing(x) # {}
  PROVE  FirstListing(x) \in Listing(x)
<1>1. Listing(x) \in SUBSET Nat BY RatingsAssumption DEF Listing
<1>2. \E t \in Listing(x) : \A u \in Listing(x) : t <= u BY <1>1, LeastElement
<1>3. QED BY <1>2 DEF FirstListing

LEMMA RatingInitInductive == ASSUME RatingInit PROVE RatingInductive
<1>1. Inductive BY InitInductive DEF RatingInit
<1>2. RatingTypeOK
  <2>1. <<>> \in Seq(Performance) OBVIOUS
  <2>2. QED BY <2>1 DEF RatingInit, RatingTypeOK
<1>3. NowEntitled = {} BY DEF RatingInit, Init, NowEntitled, Listing
<1>4. OneRatingPerPlayer BY DEF RatingInit, OneRatingPerPlayer
<1>5. \A r \in Raters : RatingBacked(rating[r])
  BY RatingKinds DEF RatingInit, RatingBacked
<1>6. QED BY <1>1, <1>2, <1>3, <1>4, <1>5 DEF RatingInductive

-----------------------------------------------------------------------------
(* A step of the tables: rights are only gained, and age groups only lost. *)
LEMMA TablesPreserve ==
  ASSUME RatingInductive, Next, UNCHANGED <<performances, rating>>,
         entitled' = entitled \cup NowEntitled'
  PROVE  RatingInductive'
<1>1. Persists /\ Inductive' BY NextPreserves DEF RatingInductive
<1>2. NowEntitled' \subseteq Principals \X Players BY DEF NowEntitled
<1>3. RatingTypeOK' BY <1>2 DEF RatingInductive, RatingTypeOK
<1>4. OneRatingPerPlayer' BY DEF RatingInductive, OneRatingPerPlayer
<1>5. ASSUME NEW r \in Raters PROVE RatingBacked(rating[r])'
  <2>1. PICK j : j = rating[r] /\ j = rating'[r] OBVIOUS
  <2>2. RatingBacked(j) BY <2>1 DEF RatingInductive
  <2>3. ASSUME j \in Checking, Coordinates(j.by, j.group)' PROVE Coordinates(j.by, j.group)
    <3>1. j.group \in used \cap AgeGroupIds BY <2>2, <2>3 DEF RatingBacked, Checking
    <3>2. QED BY <1>1, <2>3, <3>1 DEF Persists, Coordinates
  <2>4. \A p, x : MayRate(p, x)' <=> MayRate(p, x) BY DEF MayRate
  <2>5. RatingBacked(j)' BY <1>1, <2>2, <2>3, <2>4 DEF RatingBacked, Persists
  <2>6. QED BY <2>1, <2>5 DEF RatingBacked, Coordinates
<1>6. QED BY <1>1, <1>3, <1>4, <1>5 DEF RatingInductive

(* A step of a rater is judged by its job and by the rows it writes.       *)
LEMMA RaterPreserves ==
  ASSUME RatingInductive, UNCHANGED <<vars, entitled>>, NEW r \in Raters,
         NEW k \in {Resting} \cup Writing \cup Checking,
         rating' = [rating EXCEPT ![r] = k], RatingBacked(k),
         performances' \in Seq(Performance), OneRatingPerPlayer'
  PROVE  RatingInductive'
<1>1. Inductive'
  BY NextPreserves DEF RatingInductive
<1>2. RatingTypeOK' BY DEF RatingInductive, RatingTypeOK
<1>3. NowEntitled' = NowEntitled BY DEF NowEntitled, Listing, Coordinates, vars
<1>4. ASSUME NEW q \in Raters PROVE RatingBacked(rating[q])'
  <2>1. PICK j : j = rating'[q] OBVIOUS
  <2>2. RatingBacked(j) BY <2>1 DEF RatingInductive, RatingTypeOK
  <2>3. QED BY <2>1, <2>2 DEF RatingBacked, Coordinates, MayRate, vars
<1>5. QED BY <1>1, <1>2, <1>3, <1>4 DEF RatingInductive

-----------------------------------------------------------------------------
(* What update_or_create does to the rows *)

(* An update of the rows of a player gives them a rater and moves none.    *)
LEMMA UpdateKeeps ==
  ASSUME performances \in Seq(Performance), OneRatingPerPlayer,
         NEW x \in Players, NEW p \in Principals, Update(x, p)
  PROVE  /\ performances' \in Seq(Performance) /\ OneRatingPerPlayer'
         /\ \A y \in Players : RowsOf(y)' = RowsOf(y)
         /\ \A k \in DOMAIN performances :
              performances'[k] = IF k \in RowsOf(x) THEN [player |-> x, by |-> p]
                                 ELSE performances[k]
<1>1. /\ DOMAIN performances = 1 .. Len(performances) /\ Len(performances) \in Nat
      /\ \A k \in DOMAIN performances : performances[k] \in Performance
  OBVIOUS
<1>2. /\ performances' = [k \in 1 .. Len(performances) |->
           IF k \in RowsOf(x) THEN [player |-> x, by |-> p] ELSE performances[k]]
      /\ [player |-> x, by |-> p] \in Performance
  BY <1>1 DEF Update, Performance
<1>3. performances' \in Seq(Performance) BY <1>1, <1>2
<1>4. \A k \in DOMAIN performances : performances'[k].player = performances[k].player
  BY <1>1, <1>2 DEF RowsOf
<1>5. DOMAIN performances' = DOMAIN performances BY <1>1, <1>2
<1>6. OneRatingPerPlayer' BY <1>4, <1>5 DEF OneRatingPerPlayer
<1>7. \A y \in Players : RowsOf(y)' = RowsOf(y) BY <1>4, <1>5 DEF RowsOf
<1>8. QED BY <1>1, <1>2, <1>3, <1>6, <1>7

(* An insert of a player without rows adds the only one.                   *)
LEMMA InsertKeeps ==
  ASSUME performances \in Seq(Performance), OneRatingPerPlayer,
         NEW x \in Players, NEW p \in Principals, RowsOf(x) = {},
         performances' = Append(performances, [player |-> x, by |-> p])
  PROVE  /\ performances' \in Seq(Performance) /\ OneRatingPerPlayer'
         /\ RowsOf(x)' = {Len(performances) + 1}
         /\ performances'[Len(performances) + 1] = [player |-> x, by |-> p]
         /\ \A y \in Players \ {x} : RowsOf(y)' = RowsOf(y)
         /\ \A k \in DOMAIN performances : performances'[k] = performances[k]
<1> DEFINE n == Len(performances)
<1>1. /\ DOMAIN performances = 1 .. n /\ n \in Nat
      /\ DOMAIN performances' = 1 .. n + 1
      /\ \A k \in 1 .. n : performances'[k] = performances[k]
      /\ performances'[n + 1] = [player |-> x, by |-> p]
  OBVIOUS
<1>2. performances' \in Seq(Performance) BY DEF Performance
<1>3. \A k \in 1 .. n : performances[k].player # x BY <1>1 DEF RowsOf
<1>4. \A k \in 1 .. n + 1 : k \in 1 .. n \/ k = n + 1 BY <1>1
<1>5. OneRatingPerPlayer' BY <1>1, <1>3, <1>4 DEF OneRatingPerPlayer
<1>6. RowsOf(x)' = {n + 1} BY <1>1, <1>3, <1>4 DEF RowsOf
<1>7. \A y \in Players \ {x} : RowsOf(y)' = RowsOf(y) BY <1>1, <1>4 DEF RowsOf
<1>8. QED BY <1>1, <1>2, <1>5, <1>6, <1>7

-----------------------------------------------------------------------------
(* What a rater does in one step: it leaves the rows alone, or writes one  *)
(* that it is entitled to.                                                 *)
Writes(x, p) ==
  /\ <<p, x>> \in ByRank \cup RightsMap
  /\ \/ RowsOf(x) # {} /\ Update(x, p)
     \/ /\ RowsOf(x) = {}
        /\ performances' = Append(performances, [player |-> x, by |-> p])

RaterWrites == UNCHANGED performances \/ \E x \in Players, p \in Principals : Writes(x, p)

LEMMA WritesKeep ==
  ASSUME RatingInductive, NEW x \in Players, NEW p \in Principals, Writes(x, p)
  PROVE  performances' \in Seq(Performance) /\ OneRatingPerPlayer'
BY UpdateKeeps, InsertKeeps DEF RatingInductive, RatingTypeOK, Writes

(* A job that writes is of a rater who is entitled.                        *)
LEMMA WriterEntitled ==
  ASSUME RatingInductive, NEW r \in Raters, rating[r].step \in {"findRow", "insertRow"}
  PROVE  /\ rating[r] \in Writing /\ rating[r].by \in Principals /\ rating[r].player \in Players
         /\ <<rating[r].by, rating[r].player>> \in ByRank \cup RightsMap
<1>1. PICK j \in Writing : j = rating[r]
  BY RatingKinds DEF RatingInductive, RatingTypeOK
<1>2. RatingBacked(j) /\ j.by \in Principals /\ j.player \in Players
  BY <1>1 DEF RatingInductive, Writing
<1>3. <<j.by, j.player>> \in ByRank \cup RightsMap
  BY <1>1, <1>2 DEF RatingBacked, ByRank, RightsMap
<1>4. QED BY <1>1, <1>2, <1>3

LEMMA RestPreserves ==
  ASSUME RatingInductive, UNCHANGED <<vars, entitled>>, NEW r \in Raters, Rests(r),
         RaterWrites
  PROVE  RatingInductive'
<1>1. RatingBacked(Resting) BY RatingKinds DEF RatingBacked
<1>2. performances' \in Seq(Performance) /\ OneRatingPerPlayer'
  BY WritesKeep DEF RaterWrites, RatingInductive, RatingTypeOK, OneRatingPerPlayer
<1>3. QED BY <1>1, <1>2, RaterPreserves DEF Rests

LEMMA BeginPreserves ==
  ASSUME RatingInductive, UNCHANGED <<vars, entitled, performances>>, NEW r \in Raters,
         NEW k \in {Resting} \cup Writing \cup Checking, RatingBacked(k),
         rating' = [rating EXCEPT ![r] = k]
  PROVE  RatingInductive' /\ RaterWrites
<1>1. performances' \in Seq(Performance) /\ OneRatingPerPlayer'
  BY DEF RatingInductive, RatingTypeOK, OneRatingPerPlayer
<1>2. QED BY <1>1, RaterPreserves DEF RaterWrites

LEMMA WriteWrites ==
  ASSUME NEW p \in Principals, NEW x \in Players
  PROVE  \E k \in Writing : k = Write(p, x) /\ k.by = p /\ k.player = x
<1>1. PICK k : k = [step |-> "findRow", by |-> p, player |-> x] OBVIOUS
<1>2. k \in Writing BY <1>1 DEF Writing
<1>3. QED BY <1>1, <1>2 DEF Write

LEMMA RatePreserves ==
  ASSUME RatingInductive, UNCHANGED <<vars, entitled>>, NEW r \in Raters, Rate(r)
  PROVE  RatingInductive' /\ RaterWrites
<1>1. PICK p \in Principals, x \in Players :
        /\ MayRate(p, x)
        /\ p.role \in Managers \/ (p.role = "COACH" /\ CoachOf(p, x))
        /\ rating' = [rating EXCEPT ![r] = Write(p, x)]
  BY DEF Rate, Begins
<1>2. PICK k \in Writing : k = Write(p, x) /\ k.by = p /\ k.player = x BY WriteWrites
<1>3. p.role = "COACH" /\ CoachOf(p, x) => <<p, x>> \in entitled
  BY DEF CoachOf, NowEntitled, RatingInductive
<1>4. RatingBacked(k) BY <1>1, <1>2, <1>3, RatingKinds DEF RatingBacked
<1>5. QED BY <1>1, <1>2, <1>4, BeginPreserves DEF Rate

LEMMA RateAsCoordinatorPreserves ==
  ASSUME RatingInductive, UNCHANGED <<vars, entitled>>, NEW r \in Raters,
         RateAsCoordinator(r)
  PROVE  RatingInductive' /\ RaterWrites
<1>1. PICK p \in Principals, x \in Players :
        /\ MayRate(p, x) /\ p.role = "COORDINATOR" /\ Listing(x) # {}
        /\ rating' = [rating EXCEPT ![r] =
             [step |-> "checkGroup", by |-> p, player |-> x,
              group |-> teams[FirstListing(x)].group]]
  BY DEF RateAsCoordinator, Begins
<1>2. PICK t \in Listing(x) : t = FirstListing(x) BY <1>1, FirstListingLists
<1>3. t \in TeamIds /\ teams[t] \in Team /\ TeamBacked(teams[t])
  BY DEF Listing, RatingInductive, Inductive, TypeOK
<1>4. PICK k \in Checking : /\ k = [step |-> "checkGroup", by |-> p, player |-> x,
                                    group |-> teams[t].group]
                           /\ k.by = p /\ k.player = x /\ k.group = teams[t].group
  <2>1. teams[t].group \in AgeGroupIds BY <1>3 DEF Team
  <2>2. PICK k : k = [step |-> "checkGroup", by |-> p, player |-> x,
                      group |-> teams[t].group]
    OBVIOUS
  <2>3. k \in Checking BY <2>1, <2>2 DEF Checking
  <2>4. QED BY <2>2, <2>3
<1>5. Coordinates(p, teams[t].group) => <<p, x>> \in entitled
  BY <1>1 DEF NowEntitled, RatingInductive
<1>6. RatingBacked(k) BY <1>1, <1>3, <1>4, <1>5, RatingKinds DEF RatingBacked, TeamBacked
<1>7. QED BY <1>1, <1>2, <1>4, <1>6, BeginPreserves DEF RateAsCoordinator

LEMMA CheckGroupPreserves ==
  ASSUME RatingInductive, UNCHANGED <<vars, entitled>>, NEW r \in Raters, CheckGroup(r)
  PROVE  RatingInductive' /\ RaterWrites
<1>1. PICK j \in Checking : j = rating[r] /\ RatingBacked(j)
  BY RatingKinds DEF CheckGroup, RatingInductive, RatingTypeOK
<1>2. UNCHANGED performances BY DEF CheckGroup
<1>3. CASE Coordinates(j.by, j.group)
  <2>1. PICK k \in Writing : /\ k = Write(j.by, j.player)
                            /\ k.by = j.by /\ k.player = j.player
    BY WriteWrites DEF Checking
  <2>2. rating' = [rating EXCEPT ![r] = k] BY <1>1, <1>3, <2>1 DEF CheckGroup
  <2>3. RatingBacked(k) BY <1>1, <1>3, <2>1, RatingKinds DEF RatingBacked
  <2>4. QED BY <1>2, <2>2, <2>3, BeginPreserves
<1>4. CASE ~Coordinates(j.by, j.group)
  BY <1>1, <1>2, <1>4, RestPreserves DEF CheckGroup, RaterWrites
<1>5. QED BY <1>3, <1>4

LEMMA FindRowPreserves ==
  ASSUME RatingInductive, UNCHANGED <<vars, entitled>>, NEW r \in Raters, FindRow(r)
  PROVE  RatingInductive' /\ RaterWrites
<1>1. PICK j \in Writing : /\ j = rating[r] /\ j.step = "findRow"
                          /\ j.by \in Principals /\ j.player \in Players
                          /\ <<j.by, j.player>> \in ByRank \cup RightsMap
  BY WriterEntitled DEF FindRow
<1>2. CASE RowsOf(j.player) = {}
  <2>1. PICK k \in Writing : /\ k = [j EXCEPT !.step = "insertRow"]
                            /\ k.by = j.by /\ k.player = j.player
    <3>1. PICK k : k = [j EXCEPT !.step = "insertRow"] OBVIOUS
    <3>2. k = [step |-> "insertRow", by |-> j.by, player |-> j.player]
      BY <3>1 DEF Writing
    <3>3. k \in Writing BY <1>1, <3>2 DEF Writing
    <3>4. QED BY <3>1, <3>2, <3>3
  <2>2. rating' = [rating EXCEPT ![r] = k] /\ UNCHANGED performances
    BY <1>1, <1>2, <2>1 DEF FindRow, RatingInductive, RatingTypeOK
  <2>3. RatingBacked(j) BY <1>1 DEF RatingInductive
  <2>4. RatingBacked(k) BY <2>1, <2>3, RatingKinds DEF RatingBacked
  <2>5. QED BY <2>2, <2>4, BeginPreserves
<1>3. CASE RowsOf(j.player) # {}
  <2>1. Rests(r) /\ Writes(j.player, j.by) BY <1>1, <1>3 DEF FindRow, Writes
  <2>2. QED BY <1>1, <2>1, RestPreserves DEF RaterWrites
<1>4. QED BY <1>2, <1>3

LEMMA InsertRowPreserves ==
  ASSUME RatingInductive, UNCHANGED <<vars, entitled>>, NEW r \in Raters, InsertRow(r)
  PROVE  RatingInductive' /\ RaterWrites
<1>1. PICK j \in Writing : /\ j = rating[r] /\ j.step = "insertRow"
                          /\ j.by \in Principals /\ j.player \in Players
                          /\ <<j.by, j.player>> \in ByRank \cup RightsMap
  BY WriterEntitled DEF InsertRow
<1>2. Rests(r) /\ Writes(j.player, j.by) BY <1>1 DEF InsertRow, Writes
<1>3. QED BY <1>1, <1>2, RestPreserves DEF RaterWrites

LEMMA RaterStepPreserves ==
  ASSUME RatingInductive, UNCHANGED <<vars, entitled>>, NEW r \in Raters, RatingStep(r)
  PROVE  RatingInductive' /\ RaterWrites
<1>1. CASE KillRater(r) BY <1>1, RestPreserves DEF KillRater, RaterWrites
<1>2. QED
  BY <1>1, RatePreserves, RateAsCoordinatorPreserves, CheckGroupPreserves,
     FindRowPreserves, InsertRowPreserves
  DEF RatingStep

LEMMA RatingNextPreserves ==
  ASSUME RatingInductive, [RatingNext]_allVars
  PROVE  RatingInductive'
<1>1. CASE UNCHANGED allVars
  <2>1. Inductive' BY <1>1, NextPreserves DEF RatingInductive, allVars, vars
  <2>2. QED
    BY <1>1, <2>1 DEF allVars, RatingInductive, RatingTypeOK, NowEntitled, Listing,
       Coordinates, OneRatingPerPlayer, RatingBacked, MayRate
<1>2. QED BY <1>1, TablesPreserve, RaterStepPreserves DEF RatingNext

(* The tables, the right to rate and the ratings agree, whoever rates      *)
(* while teams change.                                                     *)
THEOREM RatingsInductive == RatingSpec => []RatingInductive
<1>1. RatingInit => RatingInductive BY RatingInitInductive
<1>2. RatingInductive /\ [RatingNext]_allVars => RatingInductive' BY RatingNextPreserves
<1>3. QED BY <1>1, <1>2, PTL DEF RatingSpec

(* Ratings, raters' memory and the rights gained hold values of their      *)
(* types.                                                                  *)
THEOREM RatingsTyped == RatingSpec => []RatingTypeOK
<1>1. RatingInductive => RatingTypeOK BY DEF RatingInductive
<1>2. QED BY <1>1, RatingsInductive, PTL

(* A player has one rating at most, however many rate at once.             *)
THEOREM RatingsUnique == RatingSpec => []OneRatingPerPlayer
<1>1. RatingInductive => OneRatingPerPlayer BY DEF RatingInductive
<1>2. QED BY <1>1, RatingsInductive, PTL

-----------------------------------------------------------------------------
(* RatingBook *)

(* Its one row decides the rater on record of a player; without, nobody is.*)
LEMMA OnRecord ==
  ASSUME OneRatingPerPlayer, NEW x
  PROVE  /\ RowsOf(x) = {} => Recorded(x) = NoUser
         /\ \A k \in RowsOf(x) : Recorded(x) = performances[k].by
<1>1. ASSUME NEW k \in RowsOf(x) PROVE Recorded(x) = performances[k].by
  <2>1. PICK i \in RowsOf(x) : i = CHOOSE n \in RowsOf(x) : TRUE BY <1>1
  <2>2. i = k BY <1>1, <2>1 DEF RowsOf, OneRatingPerPlayer
  <2>3. QED BY <1>1, <2>1, <2>2 DEF Recorded
<1>2. QED BY <1>1 DEF Recorded

LEMMA OnRecordNext ==
  ASSUME OneRatingPerPlayer', NEW x
  PROVE  /\ RowsOf(x)' = {} => Recorded(x)' = NoUser
         /\ \A k \in RowsOf(x)' : Recorded(x)' = performances'[k].by
<1>1. ASSUME NEW k \in RowsOf(x)' PROVE Recorded(x)' = performances'[k].by
  <2>1. PICK i \in RowsOf(x)' : i = CHOOSE n \in RowsOf(x)' : TRUE BY <1>1
  <2>2. i = k BY <1>1, <2>1 DEF RowsOf, OneRatingPerPlayer
  <2>3. QED BY <1>1, <2>1, <2>2 DEF Recorded
<1>2. QED BY <1>1 DEF Recorded

LEMMA InitRefinesBook == ASSUME RatingInit PROVE Book!Init
<1>1. \A x : RowsOf(x) = {} BY DEF RatingInit, RowsOf
<1>2. BookMap = [x \in Players |-> NoUser] BY <1>1 DEF BookMap, Recorded
<1>3. RightsMap = {} BY DEF RatingInit, RightsMap
<1>4. QED BY <1>2, <1>3 DEF Book!Init

(* A write is recorded for its player, and for nobody else.                *)
LEMMA WriteRefinesBook ==
  ASSUME RatingInductive, UNCHANGED entitled,
         NEW x \in Players, NEW p \in Principals, Writes(x, p)
  PROVE  Book!Record(x)
<1>1. performances \in Seq(Performance) /\ OneRatingPerPlayer /\ OneRatingPerPlayer'
  BY WritesKeep DEF RatingInductive, RatingTypeOK
<1>2. \A k \in RowsOf(x) : k \in DOMAIN performances BY DEF RowsOf
<1>3. Recorded(x)' = p
  <2>1. CASE RowsOf(x) # {} /\ Update(x, p)
    <3>1. PICK k \in RowsOf(x) : k \in DOMAIN performances BY <1>2, <2>1
    <3>2. k \in RowsOf(x)' /\ performances'[k] = [player |-> x, by |-> p]
      BY <1>1, <2>1, <3>1, UpdateKeeps
    <3>3. QED BY <1>1, <3>2, OnRecordNext
  <2>2. CASE RowsOf(x) = {} /\ performances' = Append(performances, [player |-> x, by |-> p])
    <3>1. PICK k \in RowsOf(x)' : performances'[k] = [player |-> x, by |-> p]
      BY <1>1, <2>2, InsertKeeps
    <3>2. QED BY <1>1, <3>1, OnRecordNext
  <2>3. QED BY <2>1, <2>2 DEF Writes
<1>4. ASSUME NEW y \in Players, y # x PROVE Recorded(y)' = Recorded(y)
  <2>1. /\ RowsOf(y)' = RowsOf(y)
        /\ \A k \in RowsOf(y) : performances'[k] = performances[k]
    <3>1. \A k \in RowsOf(y) : k \in DOMAIN performances /\ k \notin RowsOf(x)
      BY <1>4 DEF RowsOf
    <3>2. CASE Update(x, p) BY <1>1, <3>1, <3>2, UpdateKeeps
    <3>3. CASE RowsOf(x) = {} /\ performances' = Append(performances, [player |-> x, by |-> p])
      BY <1>1, <1>4, <3>1, <3>3, InsertKeeps
    <3>4. QED BY <3>2, <3>3 DEF Writes
  <2>2. CASE RowsOf(y) = {} BY <1>1, <2>1, <2>2, OnRecord, OnRecordNext
  <2>3. CASE RowsOf(y) # {}
    <3>1. PICK k : k \in RowsOf(y) BY <2>3
    <3>2. QED BY <1>1, <2>1, <3>1, OnRecord, OnRecordNext
  <2>4. QED BY <2>2, <2>3
<1>5. BookMap' = [BookMap EXCEPT ![x] = p] BY <1>3, <1>4 DEF BookMap
<1>6. RightsMap' = RightsMap BY DEF RightsMap, MayRate
<1>7. <<p, x>> \in ByRank \cup RightsMap BY DEF Writes
<1>8. PICK e \in ByRank \cup RightsMap : e = <<p, x>> BY <1>7
<1>9. e[2] = x /\ e[1] = p BY <1>8
<1>10. QED BY <1>5, <1>6, <1>9 DEF Book!Record

LEMMA BookStays ==
  ASSUME UNCHANGED performances
  PROVE  BookMap' = BookMap /\ (UNCHANGED entitled => RightsMap' = RightsMap)
BY DEF BookMap, Recorded, RowsOf, RightsMap, MayRate

LEMMA StepRefinesBook ==
  ASSUME RatingInductive, [RatingNext]_allVars
  PROVE  [Book!Next]_(Book!vars)
<1>1. CASE UNCHANGED allVars BY <1>1, BookStays DEF allVars, Book!vars
<1>2. CASE /\ UNCHANGED performances
           /\ entitled' = entitled \cup NowEntitled'
  <2>1. RightsMap \subseteq RightsMap' BY <1>2 DEF RightsMap, MayRate
  <2>2. Book!Learn BY <1>2, <2>1, BookStays DEF Book!Learn
  <2>3. QED BY <2>2 DEF Book!Next
<1>3. ASSUME NEW r \in Raters, RatingStep(r), UNCHANGED vars, UNCHANGED entitled
      PROVE  [Book!Next]_(Book!vars)
  <2>1. RaterWrites BY <1>3, RaterStepPreserves
  <2>2. CASE UNCHANGED performances BY <1>3, <2>2, BookStays DEF Book!vars
  <2>3. ASSUME NEW x \in Players, NEW p \in Principals, Writes(x, p) PROVE Book!Next
    BY <1>3, <2>3, WriteRefinesBook DEF Book!Next
  <2>4. QED BY <2>1, <2>2, <2>3 DEF RaterWrites
<1>4. QED BY <1>1, <1>2, <1>3 DEF RatingNext

(* Whoever is on record as the rater of a player was entitled by rank, or  *)
(* at some time by a team whose roster listed the player; the statements   *)
(* of raters and of the workers that change teams may interleave freely,   *)
(* and no rating is taken back.                                            *)
THEOREM RatingsKeepBook == RatingSpec => ImplementsBook
<1>1. RatingInit => Book!Init BY InitRefinesBook
<1>2. RatingInductive /\ [RatingNext]_allVars => [Book!Next]_(Book!vars)
  BY StepRefinesBook
<1>3. QED BY <1>1, <1>2, RatingsInductive, PTL DEF RatingSpec, ImplementsBook, Book!Spec

-----------------------------------------------------------------------------
(* Reports *)

(* A quotient is the one whole number between whose multiples the dividend *)
(* lies.                                                                   *)
LEMMA Quotient ==
  ASSUME NEW d \in Nat, NEW m \in Nat \ {0}, NEW a \in Nat
  PROVE  a = d \div m <=> a * m <= d /\ d < (a + 1) * m
<1>1. PICK q \in Nat : q = d \div m OBVIOUS
<1>2. q * m <= d /\ d < (q + 1) * m BY <1>1
<1>3. ASSUME a < q PROVE (a + 1) * m <= q * m BY <1>3
<1>4. ASSUME q < a PROVE (q + 1) * m <= a * m BY <1>4
<1>5. QED BY <1>1, <1>2, <1>3, <1>4

(* js_round gives the nearest whole number, and the upper of two.          *)
THEOREM RoundsHalfUp ==
  ASSUME NEW s \in Nat, NEW n \in Nat \ {0}, NEW a \in Nat
  PROVE  a = JsRound(s, n) <=> (2 * a - 1) * n <= 2 * s /\ 2 * s < (2 * a + 1) * n
<1>1. 2 * s + n \in Nat /\ 2 * n \in Nat \ {0} OBVIOUS
<1>2. a = JsRound(s, n) <=> a * (2 * n) <= 2 * s + n /\ 2 * s + n < (a + 1) * (2 * n)
  BY <1>1, Quotient DEF JsRound
<1>3. /\ a * (2 * n) = (2 * a - 1) * n + n
      /\ (a + 1) * (2 * n) = (2 * a + 1) * n + n
  OBVIOUS
<1>4. (2 * a - 1) * n \in Int /\ (2 * a + 1) * n \in Int OBVIOUS
<1>5. QED BY <1>2, <1>3, <1>4

(* Of two rows one is ahead of the other, and has a lower place.           *)
LEMMA AheadOrders ==
  ASSUME NEW n \in Nat, NEW scores \in [1 .. n -> Int], NEW i \in 1 .. n, NEW k \in 1 .. n
  PROVE  /\ Place(scores, k) \in 0 .. n - 1
         /\ i # k => i \in Ahead(scores, k) \/ k \in Ahead(scores, i)
         /\ i \in Ahead(scores, k) => Place(scores, i) < Place(scores, k)
<1> DEFINE A(m) == Ahead(scores, m)
<1>1. \A m \in 1 .. n : A(m) \in SUBSET ((1 .. n) \ {m}) BY DEF Ahead
<1>2. \A m \in 1 .. n : IsFiniteSet(A(m)) /\ Place(scores, m) \in 0 .. n - 1
  <2> SUFFICES ASSUME NEW m \in 1 .. n
               PROVE  IsFiniteSet(A(m)) /\ Place(scores, m) \in 0 .. n - 1
    OBVIOUS
  <2>1. IsFiniteSet(1 .. n) /\ Cardinality(1 .. n) = n BY FS_Interval
  <2>2. IsFiniteSet((1 .. n) \ {m}) /\ Cardinality((1 .. n) \ {m}) = n - 1
    BY <2>1, FS_RemoveElement
  <2>3. IsFiniteSet(A(m)) /\ Cardinality(A(m)) <= n - 1 BY <1>1, <2>2, FS_Subset
  <2>4. Cardinality(A(m)) \in Nat BY <2>3, FS_CardinalityType
  <2>5. QED BY <2>3, <2>4 DEF Place
<1>3. i # k => i \in A(k) \/ k \in A(i) BY DEF Ahead
<1>4. ASSUME i \in A(k) PROVE Place(scores, i) < Place(scores, k)
  <2>1. A(i) \cup {i} \in SUBSET A(k) /\ i \notin A(i) BY <1>4 DEF Ahead
  <2>2. Cardinality(A(i) \cup {i}) = Cardinality(A(i)) + 1
    BY <1>2, <2>1, FS_AddElement
  <2>3. Cardinality(A(i) \cup {i}) <= Cardinality(A(k)) BY <1>2, <2>1, FS_Subset
  <2>4. QED BY <1>2, <2>2, <2>3 DEF Place
<1>5. QED BY <1>2, <1>3, <1>4

(* Every place is taken once: the rows are sorted.                         *)
LEMMA PlacesTaken ==
  ASSUME NEW n \in Nat, NEW scores \in [1 .. n -> Int]
  PROVE  \A m \in 0 .. n - 1 : \E k \in 1 .. n : Place(scores, k) = m
<1> DEFINE f == [k \in 1 .. n |-> Place(scores, k)]
<1>1. f \in [1 .. n -> 0 .. n - 1] BY AheadOrders
<1>2. \A i, k \in 1 .. n : i # k => f[i] # f[k]
  <2> SUFFICES ASSUME NEW i \in 1 .. n, NEW k \in 1 .. n, i # k
               PROVE  Place(scores, i) # Place(scores, k)
    OBVIOUS
  <2>1. i \in Ahead(scores, k) \/ k \in Ahead(scores, i) BY AheadOrders
  <2>2. Place(scores, i) < Place(scores, k) \/ Place(scores, k) < Place(scores, i)
    BY <2>1, AheadOrders
  <2>3. Place(scores, i) \in Int /\ Place(scores, k) \in Int BY AheadOrders
  <2>4. QED BY <2>2, <2>3
<1>3. f \in Injection(1 .. n, 0 .. n - 1) BY <1>1, <1>2 DEF Injection, IsInjective
<1>4. /\ IsFiniteSet(0 .. n - 1) /\ Cardinality(0 .. n - 1) = n
      /\ Cardinality(1 .. n) = n
  BY FS_Interval
<1>5. f \in Surjection(1 .. n, 0 .. n - 1) BY <1>3, <1>4, FS_Injection
<1>6. QED BY <1>5 DEF Surjection

(* The top performers are three, or all, and nobody left out scores more.  *)
THEOREM TopThree ==
  ASSUME NEW n \in Nat, NEW scores \in [1 .. n -> Int]
  PROVE  /\ Cardinality(TopPerformers(scores)) = IF n < 3 THEN n ELSE 3
         /\ \A k \in TopPerformers(scores), i \in (1 .. n) \ TopPerformers(scores) :
              scores[i] <= scores[k]
<1> DEFINE top == TopPerformers(scores)
           places == 0 .. (IF n < 3 THEN n - 1 ELSE 2)
           f == [k \in top |-> Place(scores, k)]
<1>1. top = {k \in 1 .. n : Place(scores, k) < 3} BY DEF TopPerformers
<1>2. f \in [top -> places] BY <1>1, AheadOrders
<1>3. \A i, k \in top : f[i] = f[k] => i = k
  <2> SUFFICES ASSUME NEW i \in top, NEW k \in top, i # k
               PROVE  Place(scores, i) # Place(scores, k)
    OBVIOUS
  <2>1. i \in 1 .. n /\ k \in 1 .. n BY <1>1
  <2>2. Place(scores, i) < Place(scores, k) \/ Place(scores, k) < Place(scores, i)
    BY <2>1, AheadOrders
  <2>3. Place(scores, i) \in Int /\ Place(scores, k) \in Int BY <2>1, AheadOrders
  <2>4. QED BY <2>2, <2>3
<1>4. \A m \in places : \E k \in top : f[k] = m
  <2> SUFFICES ASSUME NEW m \in places PROVE \E k \in top : f[k] = m OBVIOUS
  <2>1. m \in 0 .. n - 1 /\ m < 3 OBVIOUS
  <2>2. PICK k \in 1 .. n : Place(scores, k) = m BY <2>1, PlacesTaken
  <2>3. QED BY <1>1, <2>1, <2>2
<1>5. f \in Bijection(top, places)
  BY <1>2, <1>3, <1>4 DEF Bijection, Injection, Surjection, IsInjective
<1>6. IsFiniteSet(top)
  <2>1. IsFiniteSet(1 .. n) BY FS_Interval
  <2>2. QED BY <1>1, <2>1, FS_Subset
<1>7. Cardinality(places) = Cardinality(top)
  BY <1>5, <1>6, FS_Bijection DEF ExistsBijection
<1>8. Cardinality(places) = IF n < 3 THEN n ELSE 3
  <2>1. CASE n < 3
    <3>1. places = 0 .. n - 1 /\ n - 1 \in Int BY <2>1
    <3>2. QED BY <2>1, <3>1, FS_Interval
  <2>2. CASE n >= 3
    <3>1. places = 0 .. 2 BY <2>2
    <3>2. QED BY <2>2, <3>1, FS_Interval
  <2>3. QED BY <2>1, <2>2
<1>9. ASSUME NEW k \in top, NEW i \in (1 .. n) \ top, scores[i] > scores[k] PROVE FALSE
  <2>1. k \in 1 .. n /\ i \in Ahead(scores, k) BY <1>1, <1>9 DEF Ahead
  <2>2. Place(scores, i) < Place(scores, k) BY <2>1, AheadOrders
  <2>3. Place(scores, i) \in Int /\ Place(scores, k) \in Int BY <2>1, AheadOrders
  <2>4. QED BY <1>1, <1>9, <2>2, <2>3
<1>10. \A k \in top, i \in (1 .. n) \ top : scores[i] \in Int /\ scores[k] \in Int BY <1>1
<1>11. QED BY <1>7, <1>8, <1>9, <1>10

(* Reports are faithful whatever the ratings; nothing in them depends on   *)
(* the bounds within which they are compared.                              *)
THEOREM ReportsFaithful == RatingSpec => []ReportFaithful
<1>1. AveragesAgree
  <2> SUFFICES ASSUME NEW s \in ReportSums, NEW n \in 1 .. 5, NEW a \in ReportSums
               PROVE  a = JsRound(s, n) <=>
                        (2 * a - 1) * n <= 2 * s /\ 2 * s < (2 * a + 1) * n
    BY DEF AveragesAgree
  <2>1. s \in Nat /\ n \in Nat \ {0} /\ a \in Nat BY DEF ReportSums
  <2>2. QED BY <2>1, RoundsHalfUp
<1>2. TopAgrees
  <2> SUFFICES ASSUME NEW scores \in ReportScores
               PROVE  LET top == TopPerformers(scores) IN
                      /\ Cardinality(top) = IF Len(scores) < 3 THEN Len(scores) ELSE 3
                      /\ \A k \in top, i \in DOMAIN scores \ top : scores[i] <= scores[k]
    BY DEF TopAgrees
  <2>1. PICK n \in 0 .. 5 : scores \in [1 .. n -> 1 .. 3] BY DEF ReportScores
  <2>2. scores \in [1 .. n -> Int] /\ n \in Nat /\ DOMAIN scores = 1 .. n BY <2>1
  <2>3. Len(scores) = n BY <2>2
  <2>4. QED BY <2>2, <2>3, TopThree
<1>3. ReportFaithful BY <1>1, <1>2 DEF ReportFaithful
<1>4. QED BY <1>3, PTL
=============================================================================
