\* A failure in the middle of a swap.
SPECIFICATION Spec
CONSTANTS
    MaxPlans = 3
    MaxChanges = 1
    MaxFailures = 1
    Shape = {"plain"}
PROPERTIES InOrder
\* the route ends, or MaxPlans is reached
CHECK_DEADLOCK FALSE
