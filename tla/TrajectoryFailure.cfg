\* Another thread reports a failure at any time.
SPECIFICATION FairSpec
CONSTANTS
    MaxPlans = 2
    MaxChanges = 1
    MaxFailures = 1
    Shape = {"plain"}
INVARIANTS PlannerAtWork
PROPERTIES EndIsSucceeded
\* the route ends, or MaxPlans is reached
CHECK_DEADLOCK FALSE
