SPECIFICATION Spec
CONSTANTS
  r1 = r1
  r2 = r2
  k1 = k1
  k2 = k2
  u1 = u1
  Requests = {r1, r2}
  Keys = {k1, k2}
  Ops = {"pause", "cancel"}
  Users = {u1}
  MaxRev = 2
  MaxEpoch = 3
  Faults = {"crash", "db", "http", "link", "panel"}
INVARIANT TypeOK
INVARIANT OneDispatch
INVARIANT AnswersOwn
PROPERTY AuditedFirst
PROPERTY IssuedInSession
PROPERTY SettledStays
SYMMETRY RequestSymmetry
CHECK_DEADLOCK FALSE
