SPECIFICATION Spec
CONSTANTS
  Items = {i1, i2}
  Printers = {p1, p2}
  NoPrinter = NoPrinter
  i1 = i1
  i2 = i2
  i3 = i3
  p1 = p1
  p2 = p2
  lib = lib
  Fixed <- FixedAndAny
  Gated = {i1}
  Short = {i2}
  Source <- FromLibrary
  NoFile = NoFile
  Cleanup = {i2}
  MaxGen = 1
  UploadLimit = 2
  MaxAttempts = 1
  RequirePlateClear = FALSE
  Stimuli = {"delete", "edit", "sourceFails", "start"}
INVARIANT TargetFixed
CHECK_DEADLOCK FALSE
