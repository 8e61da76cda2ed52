SPECIFICATION PartsSpec
CONSTANTS
    DayLength = 12
    Budget = 6
    MaxInterval = 8
    ResetMargin = 2
    ConfiguredInterval = 2
    CycleCost = 2
    Early = 1
    LastDay = 1
    MaxOther = 1
    MaxReloads = 1
    a = a
    b = b
    NoDevice = NoDevice
    Devices = {a, b}
    Held = {}
    Missing = {}
    Kettles = {a}
    CanDisable = {}
    BaseInterval = 2
    PacedTo = {2, 6}
    MaxSkips = 1
    Divisor = 2
    DefaultBackoff = 4
    RetryAfters = {1, 8}
    Allowances = {0, 9}
    Resets = {0, 3}
    MinRemaining = 2
    Outcomes = {"ok", "auth"}
    MaxRefusals = 0
    MaxFailures = 1
    lamp = lamp
    Lamps = {lamp}
    c1 = c1
    c2 = c2
    c3 = c3
    Calls = {c1, c2, c3}
    Commands <- QueueCommands
    Deferrable <- OnlyOn
    Boot <- LitLamp
    WriteOnly = {}
    Threshold = 2
    NoJob = NoJob
    e1 = e1
    e2 = e2
    f1 = f1
    f2 = f2
    k1 = k1
    k2 = k2
    a1 = a1
    a2 = a2
    None = None
    Entries = {e1, e2}
    Flows = {f1, f2}
    Keys = {k1, k2}
    Accounts = {a1, a2}
    MaxFlowLogins = 2
    strip = strip
    bulb = bulb
    kettle = kettle
    grouped = grouped
    single = single
    tea = tea
    SegmentLights = {strip, bulb}
    SlotKettles = {kettle}
    SegmentModes = {grouped, single}
    SlotLabels = {tea}
    MaxPollInterval = 3
    MaxOptionReloads = 1
CHECK_DEADLOCK FALSE
INVARIANT AllTypeOK
PROPERTY EntryDataAreKept
INVARIANT BudgetIsKept
INVARIANT ResetIsMet
PROPERTY SpendIsEven
INVARIANT ReconciledInTime
INVARIANT SegmentsKeepOrder
PROPERTY StreakSilencesLan
