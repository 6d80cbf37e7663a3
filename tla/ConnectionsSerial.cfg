\* One worker, so that requests never overlap; it is killed finitely often,
\* and the parties keep approving: two children of one mother, and a coach.
SPECIFICATION FairSpec
CONSTANTS
  mum = mum  kid = kid  kid2 = kid2  coach = coach
  c1 = c1
  NoClub = NoClub
  Workers = {w1}
  Users = {mum, kid, kid2, coach}
  InitialRole <- MCRole4
  ClubOf <- MCClub4
  RequestIds = {1, 2}
  AssignedRoles = {}
  Crashes = TRUE
INVARIANTS ApprovedLinked ChildListedFirst
PROPERTIES RequestsMoveForward Settles
