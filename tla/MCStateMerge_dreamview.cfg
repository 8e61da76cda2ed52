SPECIFICATION Spec
CONSTANTS
    white = white
    warm = warm
    None = None
    Black = Black
    Absent = Absent
    Colors = {white}
    White = white
    Kelvins = {warm}
    Readings = {"temperature", "configured_humidity"}
    Polled = {"temperature"}
    WriteOnly = {"configured_humidity"}
    Window = 2
    MaxCommands = 3
CHECK_DEADLOCK FALSE
PROPERTIES
    DreamViewSettlesOff
