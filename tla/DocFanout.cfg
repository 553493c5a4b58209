CONSTANTS
    p1 = p1  p2 = p2
    Gfa = Gfa  PLA = PLA  CF = CF  CF12 = CF12
    Printers = {p1, p2}
    Statuses <- Contents
    Plates <- Files
    TypeGroups <- Groups
    NoNozzle = NoNozzle  NoIdx = NoIdx  NoColor = NoColor  NoType = NoType
    Nothing = Nothing  NotYet = NotYet
    MaxEdits = 1  MaxSwaps = 1
SPECIFICATION Spec
CHECK_DEADLOCK FALSE
INVARIANTS
    OwnTrays
