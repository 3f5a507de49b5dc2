\* Three trajectories, with complex maneuvers, up to the end of the route.
SPECIFICATION Spec
CONSTANTS
    MaxPlans = 3
    MaxChanges = 1
    MaxFailures = 0
    Shape = {"complex", "last"}
INVARIANTS BufferIsNewer
\* the route ends, or MaxPlans is reached
CHECK_DEADLOCK FALSE
