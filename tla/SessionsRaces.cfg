\* Two workers that may be killed; an address changes hands.
SPECIFICATION Spec
CONSTANTS
  ann = ann
  bob = bob
  e1 = e1
  e2 = e2
  e3 = e3
  Workers = {w1, w2}
  Users = {ann, bob}
  Emails = {e1, e2, e3}
  InitialEmail <- MCInitialEmail
  AskedEmails <- MCAskedEmails
  Temporary = temporary
  NewPasswords = {p1}
  NoPassword = NoPassword
  Administered = {bob}
  Crashes = TRUE
SYMMETRY Symmetric
INVARIANTS TypeOK TemporaryOpensNothing RoleDoorsStayShut OwnPassword
