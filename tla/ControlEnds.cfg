SPECIFICATION FairSpec
CONSTANTS
  r1 = r1
  r2 = r2
  k1 = k1
  k2 = k2
  u1 = u1
  Requests = {r1, r2}
  Keys = {k1, k2}
  Ops = {"pause", "cancel"}
  Users = {u1}
  MaxRev = 2
  MaxEpoch = 2
  Faults = {"crash", "http"}
PROPERTY RequestEnds
CHECK_DEADLOCK FALSE
