\* Two workers, which may be killed, serve one family and its coach while
\* roles are changed under tokens that are still in use.
SPECIFICATION Spec
CONSTANTS
  mum = mum  kid = kid  kid2 = kid2  coach = coach
  c1 = c1
  NoClub = NoClub
  Workers = {w1, w2}
  Users = {mum, kid, coach}
  InitialRole <- MCRole3
  ClubOf <- MCClub3
  RequestIds = {1}
  AssignedRoles = {"PARENT"}
  Crashes = TRUE
SYMMETRY Symmetric
INVARIANTS TypeOK ApprovedByBoth LinksAgreed
PROPERTY ImplementsConsent
