SPECIFICATION FairSpec
CONSTANTS
  Items = {i1, i2}
  Printers = {p1}
  NoPrinter = NoPrinter
  i1 = i1
  i2 = i2
  i3 = i3
  p1 = p1
  p2 = p2
  lib = lib
  Fixed <- OnePrinter
  Gated = {}
  Short = {}
  Source <- FromArchive
  NoFile = NoFile
  Cleanup = {}
  MaxGen = 1
  UploadLimit = 1
  MaxAttempts = 2
  RequirePlateClear = FALSE
  Stimuli = {"uploadFails", "late"}
INVARIANT CommandBudget
PROPERTY Settles
CHECK_DEADLOCK FALSE
