\* The robot status is never listened to.
SPECIFICATION Spec
CONSTANTS
    Driver = {p, c, o}
    p = p
    c = c
    o = o
    Position = {p}
    LonController = {c}
    WaitTime = 0
    InitStatus = {"OPERATIONAL"}
    MaxQueue = 1
    MaxChanges = 1
PROPERTY RobotIsWatched
CHECK_DEADLOCK FALSE
