SPECIFICATION Spec
CONSTANTS
    light = light
    leaks = leaks
    Devices = {light}
    Groups = {}
    Thermometers = {}
    Detectors = {}
    Sensors = {leaks}
    Hygrometers = {}
    MaxChanges = 0
    MaxEdits = 1
    MaxFaults = 1
    MaxBoots = 1
CHECK_DEADLOCK FALSE
PROPERTY FailedStepKeepsEntities
