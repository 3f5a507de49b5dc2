\* Guidance engages, deactivates and engages again, or restarts.
SPECIFICATION Spec
CONSTANTS
    MaxPlans = 2
    MaxChanges = 3
    MaxFailures = 0
    Shape = {"plain"}
PROPERTIES FreshStart
\* the route ends, or MaxPlans is reached
CHECK_DEADLOCK FALSE
