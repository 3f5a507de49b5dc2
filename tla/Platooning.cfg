\* Two vehicles.
SPECIFICATION FairSpec
CONSTANTS
    Vehicles = 2
    MaxSize = 2
    CounterLimit = 2
    MaxPlans = 4
    MaxMoves = 2
    MaxIds = 4
PROPERTIES FollowsByConsent NegotiationEnds FollowerHasLeader
CHECK_DEADLOCK FALSE
