CONSTANTS
    Tokens = {t1}
    Links = {p1, p2}
    MaxLoads = 1
    MaxFailures = 3
    None = None
SPECIFICATION Spec
CHECK_DEADLOCK FALSE
INVARIANTS
    SocketOwned
    SessionKept
    NoLoop
PROPERTIES
    Reconnects
