\* A time-out overwrites a follower, or a follower passes through standby: a leader whose manager
\* follows.
SPECIFICATION FairSpec
CONSTANTS
    Vehicles = 2
    MaxSize = 2
    CounterLimit = 2
    MaxPlans = 3
    MaxMoves = 1
    MaxIds = 3
INVARIANT LeaderManages
CHECK_DEADLOCK FALSE
