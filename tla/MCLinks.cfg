SPECIFICATION PartsSpec
CONSTANTS
    a = a
    b = b
    x = x
    y = y
    z = z
    None = None
    Devices = {a, b}
    Addresses = {x, y, z}
    Leases <- AtSetup
    PinSets <- Pins
    WriteOnly = {}
    OffScan = {}
    Nudged = {b}
    Threshold = 2
    MaxMoves = 2
    MaxLost = 1
    w1 = w1
    w2 = w2
    RawPaints = {w1, w2}
    RawCopies = 2
    Drop = "drop"
    MaxClients = 2
    MaxUnloads = 1
    LanStale = 0
    BleStale = 1
    PushWindow = 1
    PollEvery = 1
    Cap = 3
    m1 = m1
    core = core
    Unset = Unset
    Meters = {m1}
    Limits = {core}
    Values = {60}
    ReadEvery = 2
    MaxPasses = 2
    MaxReplies = 2
    MaxWrites = 1
    MaxAppChanges = 1
    MaxDrops = 1
    MaxProbeReloads = 1
    Nothing = Nothing
    Followups = 2
    Protect = 2
    Lag = 1
    MaxKettleMoves = 2
    MaxKettleBoots = 2
    EnergyNoise = 10
    OnTimeNoise = 300
    RestoreTimeout = 600
    MaxDelay = 120
    MinCopy = 600
    MaxGap = 720
    Steps = {120, 600}
    MaxTime = 960
    MaxReboots = 1
    MaxTaken = 3
    MaxMeterReloads = 1
CHECK_DEADLOCK FALSE
INVARIANT AllTypeOK
INVARIANT LinksAreSound
INVARIANT EnergyIsBookedOnce
PROPERTY NothingGoesBack
INVARIANT RoutesAreKept
PROPERTY DemotedOnlySilent
PROPERTY EveryMoveIsFound
