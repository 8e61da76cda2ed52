SPECIFICATION PartsSpec
CONSTANTS
    a = a
    b = b
    NoDevice = NoDevice
    DayLength = 24
    Budget = 100
    MaxInterval = 9
    ResetMargin = 1
    Devices = {a, b}
    Held = {b}
    Missing = {}
    Kettles = {a}
    CanDisable = {a}
    BaseInterval = 2
    PacedTo = {2, 6}
    MaxSkips = 1
    Divisor = 1
    DefaultBackoff = 4
    RetryAfters = {1, 8}
    Allowances = {0, 9}
    Resets = {0, 3}
    MinRemaining = 2
    Outcomes = {"ok", "limited", "outage"}
    MaxRefusals = 1
    MaxFailures = 1
    l1 = l1
    l2 = l2
    NoLoop = NoLoop
    Loops = {l1, l2}
    GiveUp = 2
    MaxMishaps = 2
    MaxLogins = 1
    c1 = c1
    c2 = c2
    Calls = {c1, c2}
    MaxPushes = 1
    None = None
    Absent = Absent
    NoCall = NoCall
    meter = meter
    group = group
    leaks = leaks
    detector = detector
    hygro = hygro
    EntryDevices = {meter, group, detector}
    EntryDetectors = {detector}
    EntryHygrometers = {hygro}
    EntryGroups = {group}
    EntryMeters = {meter}
    EntrySensors = {leaks}
    MaxEntryChanges = 1
    MaxEntryEdits = 1
    MaxEntryFaults = 1
    MaxEntryBoots = 1
    MaxAlerts = 2
    MaxReports = 2
    MaxOnTheWay = 2
    MaxListFailures = 1
    MaxLifts = 1
    MaxWaterReloads = 1
CHECK_DEADLOCK FALSE
INVARIANT AllTypeOK
 
PROPERTY AccountIsFollowed
PROPERTY CloudIsReadRight
PROPERTY CloudKeepsGoing
INVARIANT SessionIsSound
PROPERTY SessionComesBack
PROPERTY EveryConfirmEnds
