\* A system alert ends the spin loop.
SPECIFICATION FairSpec
CONSTANTS
    CmdTimeout = 1
    SendPeriod = 0
    MaxLag = 1
    MaxFaults = 0
    MaxQueue = 1
    MaxFrames = 1
    MaxErrors = 0
PROPERTIES Stops
\* run() returns
CHECK_DEADLOCK FALSE
