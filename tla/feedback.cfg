\* Two machines answer two scene updates; feedback is switched on and off.
SPECIFICATION FeedbackSpec
CONSTANTS
    m1 = m1
    m2 = m2
    Machine = {m1, m2}
    NoMachine = NoMachine
    TotalTiles = 3
    GcMessages = 5
    Data = {1, 2, 3}
    MergeTypes = {}
    InitialMergeTypes = {"PICKUP_LATEST"}
    CacheFrames = 1
    SyncId = {1, 2}
    MaxProgress = 1
    LaterStatuses = {"RENDERING"}
    ActionIds = TRUE
    Restarts = FALSE
    Requests = {2}
    Feedbacks = {TRUE, FALSE}
    Tunnels = {NoMachine}
    CallbackOutcomes = {TRUE}
    MaxInFlight = 1
SYMMETRY MachineSymmetry
INVARIANTS
    FeedbackRebuildsRendering
PROPERTIES
    ImageIsOfOneFrame
    ProgressNeverDrops
