\* Three vehicles, of which one that leads a platoon joins another.
SPECIFICATION Spec
CONSTANTS
    Vehicles = 3
    MaxSize = 3
    CounterLimit = 1
    MaxPlans = 4
    MaxMoves = 0
    MaxIds = 5
INVARIANTS LeaderIsAhead FollowersAreBehind
CHECK_DEADLOCK FALSE
