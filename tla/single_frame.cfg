\* Two machines answer two scene updates, and may start over, in one frame.
SPECIFICATION Spec
CONSTANTS
    m1 = m1
    m2 = m2
    Machine = {m1, m2}
    NoMachine = NoMachine
    TotalTiles = 1
    GcMessages = 1
    Data = {1, 2, 3, 4}
    InitialMergeTypes = {"PICKUP_LATEST", "SEAMLESS_COMBINE"}
    MergeTypes = {}
    CacheFrames = 1
    SyncId = {1, 2}
    MaxProgress = 1
    LaterStatuses = {"RENDERING", "FINISHED", "ERROR"}
    ActionIds = FALSE
    Restarts = TRUE
    Requests = {0}
    Feedbacks = {FALSE}
    Tunnels = {NoMachine}
    CallbackOutcomes = {TRUE}
SYMMETRY MachineSymmetry
VIEW AllButImage
INVARIANTS
    FramesCountMachines
    FramesHoldTheirRenderings
    SeamlessHoldsNewest
    StatusAgreesWithReports
    CoarsePassEndsWithAll
PROPERTIES
    DisplayMoves
