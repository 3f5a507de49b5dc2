\* A driver that dies leaves the listener waiting.
SPECIFICATION Spec
CONSTANTS
    Driver = {p, c, o}
    p = p
    c = c
    o = o
    Position = {p}
    LonController = {c}
    WaitTime = 0
    InitStatus = {"OPERATIONAL"}
    MaxQueue = 1
    MaxChanges = 1
PROPERTY ListenerGoesOn
CHECK_DEADLOCK FALSE
