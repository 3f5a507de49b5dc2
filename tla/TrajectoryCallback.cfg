\* A complex maneuver.
SPECIFICATION Spec
CONSTANTS
    MaxPlans = 3
    MaxChanges = 1
    MaxFailures = 0
    Shape = {"plain", "complex"}
INVARIANTS CalledOnce
\* the route ends, or MaxPlans is reached
CHECK_DEADLOCK FALSE
