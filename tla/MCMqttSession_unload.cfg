SPECIFICATION SessionFairSpec
CONSTANTS
    l1 = l1
    l2 = l2
    NoLoop = NoLoop
    Loops = {l1, l2}
    GiveUp = 2
    MaxMishaps = 1
    MaxLogins = 1
CHECK_DEADLOCK FALSE
INVARIANT UnloadStops
