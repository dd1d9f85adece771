\* One MCRT computation that sets values while another of its threads encodes.
SPECIFICATION Spec
CONSTANTS
    Machine = {m1}
    MergeItem = MergeItem
    Host = {h1}
    NoHost = NoHost
    Number = {1, 2}
    ReportedPhase = {"LOADGEO0"}
    Activity = {"values"}
    MaxMessages = 1
    MaxInputs = 2
    ConcurrentSets = TRUE
INVARIANT
    NoChangeIsLost
CHECK_DEADLOCK FALSE
