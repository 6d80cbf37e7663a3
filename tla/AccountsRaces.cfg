\* From the empty database: bootstrap, clubs and invitations by two workers.
SPECIFICATION Spec
CONSTANTS
  root = root  u1 = u1  u2 = u2
  e0 = e0  e1 = e1  e2 = e2  e3 = e3  c1 = c1  c2 = c2
  NoClub = NoClub
  AdminEmail = e0
  Workers = {w1, w2}
  Users = {root, u1, u2}
  Emails = {e0, e1, e2}
  Clubs = {c1}
  InitialAccounts <- MCEmpty
  GrantedRoles = {"SUPER_ADMIN", "COACH"}
  Crashes = TRUE
SYMMETRY Symmetric
INVARIANTS TypeOK UniqueEmails InvitedWasMailed NoAppointedSuperAdmin ClubsExist StatsCoverClubs
PROPERTIES ClubWithOwner RoleChangesWereAuthorised
