\* The state handler may report an exception, the plugin manager may throw.
SPECIFICATION FairSpec
CONSTANTS
    Component = {sh, pm}
    StateHandler = sh
    PluginManager = pm
    MayThrow = {pm}
    MayRaise = {sh}
    MaxQueue = 2
INVARIANTS QueuesLeadToMachine EngagedHasRobot
PROPERTIES MachineFollowsLifecycle ComponentsFollowLifecycle
           StateReachesComponents ShutdownCompletes
\* the node is down and every thread has ended
CHECK_DEADLOCK FALSE
