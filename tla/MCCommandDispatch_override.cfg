SPECIFICATION DispatchFairSpec
CONSTANTS
    Lamps = {lamp}
    Calls = {c1, c2}
    Commands <- PowerCommands
    Deferrable <- OnlyOn
    WriteOnly = {}
    Threshold = 2
    Boot <- DarkLamp
    NoJob = NoJob
CHECK_DEADLOCK FALSE
PROPERTIES
    DeferredNeverOverridesNewer
