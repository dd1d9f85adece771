\* Two machines answer four scene updates through a window of two frames.
SPECIFICATION Spec
CONSTANTS
    m1 = m1
    m2 = m2
    Machine = {m1, m2}
    NoMachine = NoMachine
    TotalTiles = 3
    GcMessages = 1
    Data = {1, 2, 3}
    InitialMergeTypes = {"SYNCID_LINEUP"}
    MergeTypes = {}
    CacheFrames = 2
    SyncId = {1, 2, 3, 5}
    MaxProgress = 1
    LaterStatuses = {"RENDERING"}
    ActionIds = TRUE
    Restarts = FALSE
    Requests = {0, 2}
    Feedbacks = {FALSE}
    Tunnels = {NoMachine}
    CallbackOutcomes = {TRUE}
SYMMETRY MachineSymmetry
INVARIANTS
    NoCompleteFrameIsOverlooked
    ShiftedIsShiftLoop
