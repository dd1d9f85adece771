SPECIFICATION SessionSpec
CONSTANTS
    Machine = {m1, m2}
    Unnumbered = {}
    Full = 2
    MaxStarts = 3
    MaxItems = 3
SYMMETRY MachineSymmetry
INVARIANTS
    FinalRecordIsOneRun
    SpanIsOneRendering
PROPERTY
    CompletionIsSaved
CHECK_DEADLOCK FALSE
