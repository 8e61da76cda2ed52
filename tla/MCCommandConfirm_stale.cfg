SPECIFICATION FairSpec
CONSTANTS
    Calls = {c1, c2}
    Commands <- PowerCommands
    Tolerance <- AllZero
    Readings <- NoReadings
    Initial <- LampOn
    Carried <- OnlyPower
    MaxPushes = 1
    None = None
    Absent = Absent
    NoCall = NoCall
CHECK_DEADLOCK FALSE
PROPERTIES
    LatestCommandSupersedes
