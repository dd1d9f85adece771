SPECIFICATION Spec
CONSTANTS
    Buffer = {"Beauty", "albedo"}
    Viewport = {"small", "large"}
    CoarsePrecision <- MCPrecision
    FinePrecision <- MCPrecision
    LastFrame = 2
    ReadMode = {"DISABLE", "ENABLE", "ENABLE_W_ALBEDO"}
    MaxSent = 3
INVARIANTS
    NoReaderWhileFrameIsRebuilt
    ShownAgainExists
PROPERTY
    CallsReturn
CHECK_DEADLOCK FALSE
