\* The first trajectory.
SPECIFICATION FairSpec
CONSTANTS
    MaxPlans = 2
    MaxChanges = 1
    MaxFailures = 0
    Shape = {"plain"}
PROPERTIES PlannedIsRun
\* the route ends, or MaxPlans is reached
CHECK_DEADLOCK FALSE
