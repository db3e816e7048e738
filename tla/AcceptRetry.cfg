CONSTANTS
    Numbers <- MCNumbers
    MaxPort = 3
    Forbidden = {3}
    EphemeralPorts = {1, 2}
    SizeMod = 16
    DefaultSize = 8
    MaxAlloc = 10
    CommandLines <- MCCommandLines
    SetCommands <- MCSetCommands
    Clients = {c1, c2}
SPECIFICATION Spec
CHECK_DEADLOCK FALSE
PROPERTIES
    RetryCanBind
