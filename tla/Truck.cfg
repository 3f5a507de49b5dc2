\* A command is too old after more than a tick and is sent every tick; two frames, a queue of one.
SPECIFICATION FairSpec
CONSTANTS
    CmdTimeout = 1
    SendPeriod = 0
    MaxLag = 1
    MaxFaults = 1
    MaxQueue = 1
    MaxFrames = 2
    MaxErrors = 1
INVARIANTS QueueOutlivesDevice CommandIsFresh DisableIsObeyed
PROPERTIES LatestIsHandled StatusFollows
\* run() returns
CHECK_DEADLOCK FALSE
