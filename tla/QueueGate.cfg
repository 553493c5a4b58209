SPECIFICATION Spec
CONSTANTS
  Items = {i1, i2, i3}
  Printers = {p1}
  NoPrinter = NoPrinter
  i1 = i1
  i2 = i2
  i3 = i3
  p1 = p1
  p2 = p2
  lib = lib
  Fixed <- OnePrinter
  Gated = {i1, i2, i3}
  Short = {}
  Source <- FromArchive
  NoFile = NoFile
  Cleanup = {}
  MaxGen = 1
  UploadLimit = 1
  MaxAttempts = 1
  RequirePlateClear = TRUE
  Stimuli = {"uploadFails", "resume", "cancel", "clearPlate", "link"}
PROPERTY GateHonoured
PROPERTY PlateRespected
SYMMETRY RowSymmetry
CHECK_DEADLOCK FALSE
