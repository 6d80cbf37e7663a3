\* Two workers approve the requests of two children of one mother.
SPECIFICATION Spec
CONSTANTS
  mum = mum  kid = kid  kid2 = kid2  coach = coach
  c1 = c1
  NoClub = NoClub
  Workers = {w1, w2}
  Users = {mum, kid, kid2}
  InitialRole <- MCRole3b
  ClubOf <- MCClub3b
  RequestIds = {1, 2}
  AssignedRoles = {}
  Crashes = FALSE
INVARIANT ApprovedLinked
