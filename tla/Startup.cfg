\* A position driver and a controller, two changes of status or deaths.
SPECIFICATION Spec
CONSTANTS
    Driver = {p, c}
    p = p
    c = c
    Position = {p}
    LonController = {c}
    WaitTime = 0
    InitStatus = {"OPERATIONAL"}
    MaxQueue = 1
    MaxChanges = 2
INVARIANTS EssentialDriversWork
PROPERTIES StartupDecides LossIsAnnounced
CHECK_DEADLOCK FALSE
