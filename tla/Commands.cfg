\* Two speed commands that have to be clamped, two steering commands, the wrench override.
SPECIFICATION FairSpec
CONSTANTS
    Command <- MCCommand
    Steering <- MCSteering
    Velocity = {1}
    MaxSpeed = 2
    MaxAngle = 1
    AccelLimit = 3
    Override = TRUE
    MaxCalls = 2
INVARIANTS TypeOK LatchHolds LateralIsWhole ReadyIsSet AtMostOneLateCommand
PROPERTIES CommandIsSent
\* SHUTDOWN ends the timing loop and the jobs
CHECK_DEADLOCK FALSE
