\* One worker edits rosters and age groups, request by request, while two
\* raters, which may be killed too, rate the players.
SPECIFICATION RatingSpec
CONSTANTS
  boss = boss
  coord = coord
  coach = coach
  c1 = c1
  NoUser = NoUser
  NoClub = NoClub
  Workers = {w1}
  Raters = {r1, r2}
  Principals <- MCStaff
  Coaches = {coach}
  Coordinators = {coord}
  Players = {p1}
  PlayerClub <- MCPlayerClub
  Names = {n1}
  AgeGroupIds = {g1}
  TeamIds = {1, 2}
  EventIds = {}
  MaxVersion = 3
  Crashes = TRUE
SYMMETRY Symmetric
INVARIANTS RatingTypeOK OneRatingPerPlayer ReportFaithful
PROPERTY ImplementsBook
