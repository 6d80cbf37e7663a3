\* One worker: the check for an existing request looks at the oldest only.
SPECIFICATION Spec
CONSTANTS
  mum = mum  kid = kid  kid2 = kid2  coach = coach
  c1 = c1
  NoClub = NoClub
  Workers = {w1}
  Users = {mum, kid, coach}
  InitialRole <- MCRole3
  ClubOf <- MCClub3
  RequestIds = {1, 2, 3}
  AssignedRoles = {}
  Crashes = FALSE
INVARIANT OneLiveRequest
