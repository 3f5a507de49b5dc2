\* onSystemReady of the state handler throws.
SPECIFICATION FairSpec
CONSTANTS
    Component = {sh, pm}
    StateHandler = sh
    PluginManager = pm
    MayThrow = {sh}
    MayRaise = {}
    MaxQueue = 2
PROPERTIES ShutdownCompletes
\* the node is down and every thread has ended
CHECK_DEADLOCK FALSE
