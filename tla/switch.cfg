\* The merge type and the tunnel are changed while two machines start frames; feedback may fail.
SPECIFICATION Spec
CONSTANTS
    m1 = m1
    m2 = m2
    Machine = {m1, m2}
    NoMachine = NoMachine
    TotalTiles = 1
    GcMessages = 5
    Data = {1, 2}
    MergeTypes = {"SEAMLESS_COMBINE", "PICKUP_LATEST", "SYNCID_LINEUP"}
    InitialMergeTypes = {"PICKUP_LATEST"}
    CacheFrames = 2
    SyncId = {1, 3}
    MaxProgress = 0
    LaterStatuses = {}
    ActionIds = FALSE
    Restarts = FALSE
    Requests = {0}
    Feedbacks = {TRUE, FALSE}
    Tunnels = {NoMachine, m1, m2}
    CallbackOutcomes = {TRUE, FALSE}
SYMMETRY MachineSymmetry
INVARIANTS
    WindowOK
