SPECIFICATION Spec
CONSTANTS
  Items = {i1, i2}
  Printers = {p1, p2}
  NoPrinter = NoPrinter
  i1 = i1
  i2 = i2
  i3 = i3
  p1 = p1
  p2 = p2
  lib = lib
  Fixed <- AnyPrinter
  Gated = {}
  Short = {}
  Source <- FromArchive
  NoFile = NoFile
  Cleanup = {}
  MaxGen = 1
  UploadLimit = 2
  MaxAttempts = 1
  RequirePlateClear = FALSE
  Stimuli = {"crash", "stop", "late", "slow", "cancel"}
INVARIANT OnePrinting
INVARIANT ClaimOwned
PROPERTY HoldRespected
SYMMETRY RowSymmetry
CHECK_DEADLOCK FALSE
