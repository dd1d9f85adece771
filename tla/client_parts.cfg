\* Three frames whose images are sent as differences; two ranks that send packets with
\* clipped lines in any order, and every command of the user.
SPECIFICATION PartsSpec
CONSTANTS
    Buffer = {"Beauty", "albedo"}
    Viewport = {"small", "large"}
    CoarsePrecision <- MCCoarsePrecision
    FinePrecision <- MCFinePrecision
    ImageValue <- MCImageValue
    Control = {"AUTO16"}
    FirstFrame = 1
    LastFrame = 3
    Failures = 1
    MaxSent = 3
    MaxPending = 1
    RankId = {0, 1}
    Packet <- MCPacket
    Pixel = {0, 1, 2, 3}
    MousePixel = {1, 3}
    PickThreshDist = 1
    MaxInputs = 4
INVARIANTS
    ImageArrives
    CurrentLineIsOfShownPacket
PROPERTIES
    ProgressDropsOnlyForNewFrame
    SelectionIsTheOneAsked
CHECK_DEADLOCK FALSE
