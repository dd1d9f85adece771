SPECIFICATION Spec
CONSTANTS
    Machine = {m1, m2}
    MergeItem = MergeItem
    Host = {h1, h2}
    NoHost = NoHost
    Number = {1, 2}
    ReportedPhase = {"LOADGEO0", "TESSELLATION1"}
    Activity = {"values", "stages", "comments", "clocks"}
    MaxMessages = 1
    MaxInputs = 3
    ConcurrentSets = FALSE
INVARIANTS
    ValuesAreOnTheirWay
    CommentsArriveOnceInOrder
    ClocksAgree
PROPERTY
    ClientCatchesUp
CHECK_DEADLOCK FALSE
