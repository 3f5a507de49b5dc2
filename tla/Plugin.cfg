\* Two suspends, two resumes in the queue.
SPECIFICATION FairSpec
CONSTANTS
    MaxWorkers = 3
    MaxTasks = 2
INVARIANTS CallsInOrder OneWorkerGoesOn AtMostOneLateLoop
PROPERTIES ResumeIsRun WorkersEnd
\* a terminated plugin has nothing left to do
CHECK_DEADLOCK FALSE
