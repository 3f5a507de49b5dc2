\* Engaging before the first iteration of the timing loop.
SPECIFICATION Spec
CONSTANTS
    Command <- MCCommand
    Steering = {}
    Velocity = {1}
    MaxSpeed = 2
    MaxAngle = 1
    AccelLimit = 3
    Override = FALSE
    MaxCalls = 2
INVARIANTS EngagedIsSet
\* SHUTDOWN ends the timing loop and the jobs
CHECK_DEADLOCK FALSE
