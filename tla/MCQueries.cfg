SPECIFICATION PartsSpec
CONSTANTS
    a1 = a1
    a2 = a2
    b = b
    service = service
    Sweep = Sweep
    NoDevice = NoDevice
    Devices = {a1, a2, b}
    Outlets = {b}
    Sku <- TwoModels
    Requests = {service}
    Strikes = 2
    RefusalSkus = 2
    Spacing = 1
    Reconnect = 3
    MaxCount = 4
    MaxDrops = 1
    MaxRestarts = 1
    k1 = k1
    s1 = s1
    s2 = s2
    s3 = s3
    NoCatalog = NoCatalog
    SceneKinds = {k1}
    SceneAskers = {s1, s2, s3}
    MaxScenes = 2
    MaxFetches = 2
    Window = 3
    Margin = 1
    SaveDelay = 1
    MaxTime = 9
    MaxLeaks = 2
    MaxLeakReloads = 1
    NoAlert = NoAlert
    MaxEvents = 2
    MaxClears = 1
    MaxOutages = 2
    MaxTankBoots = 2
CHECK_DEADLOCK FALSE
INVARIANT AllTypeOK
INVARIANT AnswersAreHeld
INVARIANT QueriesAreFair
INVARIANT AccountIsNotBlamed
PROPERTY QueriesKeepGoing
PROPERTY LeaksAreTold
