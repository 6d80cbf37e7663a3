\* Runs follow one another, killed or not, while documents change and
\* containers start.
SPECIFICATION Spec
CONSTANTS
  adm = adm
  usr = usr
  prf = prf
  e1 = e1
  e2 = e2
  k1 = k1
  null = null
  undated = undated
  Docs = {adm, usr, prf}
  Drawn = drawn
  Table <- MCTable
  Values = {e1, e2, k1, null, undated}
  ValuesOf <- MCValuesOf
  Refused = {null}
  Undated = {undated}
  AdminEmail = e1
  Admins = {adm}
  DefaultDatabase = TRUE
INVARIANTS TypeOK CompleteCopies FlushLeavesSource FailureHasCause RerunKeepsRows
