\* One worker: the only administrator loses the role, and the service restarts.
SPECIFICATION Spec
CONSTANTS
  root = root  u1 = u1  u2 = u2
  e0 = e0  e1 = e1  e2 = e2  e3 = e3  c1 = c1  c2 = c2
  NoClub = NoClub
  AdminEmail = e0
  Workers = {w1}
  Users = {root, u1}
  Emails = {e0}
  Clubs = {c1}
  InitialAccounts <- MCAdmin
  GrantedRoles = {"COACH"}
  Crashes = FALSE
PROPERTY BootstrapLeavesAdmin
