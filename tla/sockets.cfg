SPECIFICATION Spec
CONSTANTS
    Client = {"local", "remote"}
    Local = {"local"}
    Offset <- MCOffset
    MaxLoop = 2
    MaxTry = 2
    MaxTime = 2
INVARIANTS
    ShiftIsWithinRoundTrip
    OnlyFailuresCutShort
PROPERTY
    ClientsReturn
CHECK_DEADLOCK FALSE
