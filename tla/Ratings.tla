------------------------------- MODULE Ratings -------------------------------
(***************************************************************************)
(* Performance ratings (apps/performance/services.py), beside the age      *)
(* groups, teams and rosters whose rows decide who may rate whom.          *)
(*                                                                         *)
(* The right to rate is read from the tables of Teams in one statement, or *)
(* in two for a coordinator, and the rating is written in later ones;      *)
(* rosters, teams and age groups change in between.                        *)
(***************************************************************************)
EXTENDS Teams, FiniteSets, Integers

CONSTANTS
  Raters,         \* workers that serve ratings
  PlayerClub      \* [Players -> Clubs]: the club_id of the players' rows

ASSUME RatingsAssumption ==
  /\ PlayerClub \in [Players -> Clubs]
  /\ TeamIds \subseteq Nat    \* primary keys are ordered

VARIABLES
  performances,   \* the table, in the order of insertion
  rating,         \* what each rater is doing
  entitled        \* history: <<token, player>> by a roster that once listed the player

ratingVars == <<performances, rating, entitled>>
allVars == <<ageGroups, teams, events, used, job, performances, rating, entitled>>

Performance == [player : Players, by : Principals]

Resting == [step |-> "idle"]
Writing ==
  [step : {"findRow", "insertRow"}, by : Principals, player : Players]
Checking ==
  [step : {"checkGroup"}, by : Principals, player : Players, group : AgeGroupIds]

(* The type invariant.                                                     *)
RatingTypeOK ==
  /\ performances \in Seq(Performance)
  /\ rating \in [Raters -> {Resting} \cup Writing \cup Checking]
  /\ entitled \subseteq Principals \X Players

RatingInit ==
  /\ Init
  /\ performances = <<>>
  /\ rating = [r \in Raters |-> Resting]
  /\ entitled = {}

-----------------------------------------------------------------------------
(* PUT /performance/:playerId: upsert_performance *)

Listing(x) == {t \in TeamIds : teams[t] # None /\ x \in Listed(teams[t].roster)}

(* Of the teams that list the player, .first() takes the lowest key.       *)
FirstListing(x) ==
  CHOOSE t \in Listing(x) : \A u \in Listing(x) : t <= u

CoachOf(p, x) == \E t \in Listing(x) : teams[t].coach = p.user

Rests(r) == rating' = [rating EXCEPT ![r] = Resting]
Begins(r, j) == rating[r] = Resting /\ rating' = [rating EXCEPT ![r] = j]
Write(p, x) == [step |-> "findRow", by |-> p, player |-> x]

(* A rater of the player's club, or the super admin.                       *)
MayRate(p, x) == p.role = "SUPER_ADMIN" \/ p.club = PlayerClub[x]

(* Faulty variant: any coach of the club will do.                          *)
RateAsAnyCoach(r) ==
  /\ \E p \in Principals, x \in Players :
       /\ MayRate(p, x)
       /\ p.role \in Managers \cup {"COACH"}
       /\ Begins(r, Write(p, x))
  /\ UNCHANGED performances

(* Managers go on to the write; coaches once the player is found on a      *)
(* roster of theirs.                                                       *)
Rate(r) ==
  /\ \E p \in Principals, x \in Players :
       /\ MayRate(p, x)
       /\ p.role \in Managers \/ (p.role = "COACH" /\ CoachOf(p, x))
       /\ Begins(r, Write(p, x))
  /\ UNCHANGED performances

(* For coordinators one team of the player is read, then its age group.    *)
RateAsCoordinator(r) ==
  /\ \E p \in Principals, x \in Players :
       /\ MayRate(p, x)
       /\ p.role = "COORDINATOR"
       /\ Listing(x) # {}
       /\ Begins(r, [step |-> "checkGroup", by |-> p, player |-> x,
                     group |-> teams[FirstListing(x)].group])
  /\ UNCHANGED performances

CheckGroup(r) ==
  /\ rating[r].step = "checkGroup"
  /\ LET j == rating[r] IN
     IF Coordinates(j.by, j.group)
     THEN rating' = [rating EXCEPT ![r] = Write(j.by, j.player)]
     ELSE Rests(r)
  /\ UNCHANGED performances

(* update_or_create: the row is locked and updated, or else inserted; when *)
(* the unique index refuses the insert, the row that is there by now is    *)
(* updated.                                                                *)
RowsOf(x) == {k \in DOMAIN performances : performances[k].player = x}

(* Faulty variant: recorded_by is set to NULL.                             *)
UpdateForgettingRater(x, p) ==
  performances' = [k \in DOMAIN performances |->
                     IF k \in RowsOf(x) THEN [player |-> x, by |-> NoUser]
                     ELSE performances[k]]

Update(x, p) ==
  performances' = [k \in DOMAIN performances |->
                     IF k \in RowsOf(x) THEN [player |-> x, by |-> p] ELSE performances[k]]

(* Faulty variant: the row inserted in between is not looked for.          *)
InsertRowBlindly(r) ==
  /\ rating[r].step = "insertRow"
  /\ performances' = Append(performances, [player |-> rating[r].player, by |-> rating[r].by])
  /\ Rests(r)

FindRow(r) ==
  /\ rating[r].step = "findRow"
  /\ LET j == rating[r] IN
     IF RowsOf(j.player) = {}
     THEN rating' = [rating EXCEPT ![r].step = "insertRow"] /\ UNCHANGED performances
     ELSE Update(j.player, j.by) /\ Rests(r)

InsertRow(r) ==
  /\ rating[r].step = "insertRow"
  /\ LET j == rating[r] IN
     IF RowsOf(j.player) = {}
     THEN performances' = Append(performances, [player |-> j.player, by |-> j.by])
     ELSE Update(j.player, j.by)
  /\ Rests(r)

KillRater(r) ==
  /\ Crashes
  /\ rating[r] # Resting
  /\ Rests(r)
  /\ UNCHANGED performances

RatingStep(r) ==
  \/ Rate(r) \/ RateAsCoordinator(r) \/ CheckGroup(r)
  \/ FindRow(r) \/ InsertRow(r) \/ KillRater(r)

(* Who may rate whom as the tables stand.                                  *)
NowEntitled ==
  {e \in Principals \X Players :
     \E t \in Listing(e[2]) :
       \/ e[1].role = "COACH" /\ teams[t].coach = e[1].user
       \/ e[1].role = "COORDINATOR" /\ Coordinates(e[1], teams[t].group)}

RatingNext ==
  \/ /\ Next
     /\ UNCHANGED <<performances, rating>>
     /\ entitled' = entitled \cup NowEntitled'
  \/ /\ \E r \in Raters : RatingStep(r)
     /\ UNCHANGED vars
     /\ UNCHANGED entitled

RatingSpec == RatingInit /\ [][RatingNext]_allVars

-----------------------------------------------------------------------------
(* Safety, for any number of raters beside any number of workers *)

(* "One record per player" (performance/models.py:15): of raters who all   *)
(* found no record, one inserts and the others update that one.            *)
OneRatingPerPlayer ==
  \A i, k \in DOMAIN performances :
    performances[i].player = performances[k].player => i = k

(* The rater on record of a player, by the rows that name the player.      *)
Recorded(x) ==
  IF RowsOf(x) = {} THEN NoUser ELSE performances[CHOOSE k \in RowsOf(x) : TRUE].by

ByRank == {e \in Principals \X Players : e[1].role \in Managers /\ MayRate(e[1], e[2])}
RightsMap == {e \in entitled : MayRate(e[1], e[2])}
BookMap == [x \in Players |-> Recorded(x)]

Book == INSTANCE RatingBook WITH
  Nobody <- NoUser, Standing <- ByRank, book <- BookMap, rights <- RightsMap

(* Ratings keep the promises of RatingBook: whoever is recorded was once   *)
(* entitled to, at a moment when all of it held at once - on the roster of *)
(* the coach, or in a team whose age group existed and was the             *)
(* coordinator's - although it is read in pieces and used after players,   *)
(* teams and age groups are gone; and no rating is ever taken back.        *)
ImplementsBook == Book!Spec

(* The inductive invariant: what entitles a rater was so once, although it *)
(* is kept as a job while the tables change.                               *)
RatingBacked(j) ==
  /\ j \in Writing =>
       MayRate(j.by, j.player) /\ (j.by.role \in Managers \/ <<j.by, j.player>> \in entitled)
  /\ j \in Checking =>
       /\ MayRate(j.by, j.player) /\ j.group \in used
       /\ Coordinates(j.by, j.group) => <<j.by, j.player>> \in entitled

RatingInductive ==
  /\ Inductive
  /\ RatingTypeOK
  /\ NowEntitled \subseteq entitled
  /\ OneRatingPerPlayer
  /\ \A r \in Raters : RatingBacked(rating[r])

-----------------------------------------------------------------------------
(* GET /performance/team/:teamId/report: get_team_report *)

(* Faulty variant: Python's round, which rounds a half to the even number. *)
RoundHalfEven(s, n) ==
  LET a == (2 * s + n) \div (2 * n) IN
  IF (2 * s + n) % (2 * n) = 0 /\ a % 2 = 1 THEN a - 1 ELSE a

(* js_round(s / n), floor(s / n + 0.5)                                     *)
JsRound(s, n) == (2 * s + n) \div (2 * n)

(* The first three after the stable descending sort of their scores: the   *)
(* place of a row is the number of rows that come before it.               *)
Ahead(scores, k) ==
  {i \in DOMAIN scores : scores[i] > scores[k] \/ (scores[i] = scores[k] /\ i < k)}
Place(scores, k) == Cardinality(Ahead(scores, k))
TopPerformers(scores) == {k \in DOMAIN scores : Place(scores, k) < 3}

(* Bounds of the reports compared: the sums of up to four ratings, and the *)
(* scores of up to five players.                                           *)
ReportSums == 0 .. 40
ReportScores == UNION {[1 .. n -> 1 .. 3] : n \in 0 .. 5}

AveragesAgree ==
  \A s \in ReportSums, n \in 1 .. 5, a \in ReportSums :
    a = JsRound(s, n) <=> (2 * a - 1) * n <= 2 * s /\ 2 * s < (2 * a + 1) * n

TopAgrees ==
  \A scores \in ReportScores :
    LET top == TopPerformers(scores) IN
    /\ Cardinality(top) = IF Len(scores) < 3 THEN Len(scores) ELSE 3
    /\ \A k \in top, i \in DOMAIN scores \ top : scores[i] <= scores[k]

(* In the report of a team that exists, whatever its ratings, an average   *)
(* is the nearest whole number and the upper one of two ("Match            *)
(* JavaScript's Math.round (round half UP), NOT Python's banker's          *)
(* rounding", common/utils.py:7); the top performers are three, or all,    *)
(* and nobody who is left out scores more than they do.                    *)
ReportFaithful ==
  \A t \in TeamIds : teams[t] # None => AveragesAgree /\ TopAgrees
=============================================================================
