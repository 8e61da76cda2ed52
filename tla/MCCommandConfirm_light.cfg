SPECIFICATION Spec
CONSTANTS
    Calls = {c1, c2}
    Commands <- LightCommands
    Tolerance <- OneOff
    Readings <- DimReadings
    Initial <- LampDim
    Carried <- OnlyDim
    MaxPushes = 1
    None = None
    Absent = Absent
    NoCall = NoCall
SYMMETRY CallSymmetry
CHECK_DEADLOCK FALSE
INVARIANT TasksAreReachable
PROPERTY PromiseKept
PROPERTY NewestReportDecides
