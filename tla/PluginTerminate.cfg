\* onTerminate after terminate.
SPECIFICATION FairSpec
CONSTANTS
    MaxWorkers = 2
    MaxTasks = 2
PROPERTIES TerminateIsRun
\* a terminated plugin has nothing left to do
CHECK_DEADLOCK FALSE
