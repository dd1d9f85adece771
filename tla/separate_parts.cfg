SPECIFICATION PartsSpec
CONSTANTS
    TotalTiles = 4
    Requests = {2, 3}
    FullMerges = TRUE
    MaxActionId = 2
    MaxRecord = 2
    MaxPending = 2
    s1 = s1
    s2 = s2
    Pixel = {1, 2}
    Reso = {"small", "large"}
    Sender = {s1, s2}
    NoSender = NoSender
    Contents <- MCContents
    MaxMessages = 4
    KeepDuration = 4
    MinRateEvents = 2
    SampleCounts = {1, 2, 4}
    TrackedValue = {1, 2}
    TimeSteps = {0, 1, 3}
    MaxPushes = 5
    MaxMachines = 3
    Dumps <- MCDumps
    FeedbackId = {1, 2}
    CharReso = 4
    ReGamma <- MCReGamma
    Tolerance = 1
    MaxOptions = 4
    Missing = Missing
    Width = 5
    Height = 4
    Unit = 48
    Lines <- MCLines
    Circles <- MCCircles
    MaxShapes = 2
    Sizes <- MCSizes
    RootPanels <- MCRootPanels
    ChildPanels <- MCChildPanels
    PanelPaths <- MCPaths
    Layout <- MCLayout
    MaxImages = 2
    MaxCalls = 2
    Nothing = Nothing
INVARIANTS
    WaitBound
    ReplicaIsOnItsWay
    DelayedDecodeIsDirect
    UpstreamIsFresh
    ResampleIsStepFunction
    RatesKeepInterval
    CoverageIsExact
    OverlayOverNewestImage
    PanelsFollowTheStack
PROPERTIES
    ImplementsLaggingCopy
    VerdictIsRight
CHECK_DEADLOCK FALSE
