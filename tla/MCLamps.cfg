SPECIFICATION PartsSpec
CONSTANTS
    lamp = lamp
    old = old
    c1 = c1
    c2 = c2
    Lamps = {lamp, old}
    Calls = {c1, c2}
    Commands <- PowerCommands
    Deferrable <- OnlyOn
    WriteOnly = {old}
    Threshold = 1
    Boot <- DarkLamp
    NoJob = NoJob
    s1 = s1
    s2 = s2
    all = all
    red = red
    blue = blue
    p1 = p1
    p2 = p2
    NoColour = NoColour
    Segments = {s1, s2}
    RingColours = {red}
    Panels = {p1, p2}
    MaxTurns = 3
    MaxLosses = 1
    Count = 2
    PerFrame = 1
    Colours = {red, blue}
    MaxPushes = 1
    MaxEvents = 2
    Copies = 2
    MaxZoneCalls = 3
    MaxZoneFaults = 1
    MaxZonePowers = 1
    MaxZoneBoots = 1
    ripple = ripple
    ring = ring
    Off = Off
    Glow = Glow
    Raw = Raw
    Empty = Empty
    Palette = Palette
    Lost = Lost
    Any = Any
    DiyZones = {ripple, ring}
    DiyCopies = 2
    MaxStages = 1
    MaxUploads = 1
    MaxDiyBoots = 1
CHECK_DEADLOCK FALSE
INVARIANT AllTypeOK
INVARIANT LampsAreRight
INVARIANT CallsEndCleanly
PROPERTY StaleDeferredStaysSilent
PROPERTY EveryCallEnds
