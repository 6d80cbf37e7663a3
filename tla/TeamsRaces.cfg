\* Two workers, which may be killed, edit the teams of two clubs.
SPECIFICATION Spec
CONSTANTS
  root = root  boss = boss  coord = coord  coach = coach  other = other
  c1 = c1  c2 = c2
  NoUser = NoUser  NoClub = NoClub
  Workers = {w1, w2}
  Principals <- MCTwoClubs
  Coaches = {coach}
  Coordinators = {coord}
  Players = {p1, p2}
  Names = {n1}
  AgeGroupIds = {g1, g2}
  TeamIds = {t1}
  EventIds = {e1}
  MaxVersion = 3
  Crashes = TRUE
SYMMETRY Symmetric
INVARIANTS TypeOK RosterWithoutDuplicates TeamsFollowGroups EventsFollowTeams
PROPERTIES RemovedStaysRemoved NamesakesOverlap RosterEditsEntitled
