--------------------------- MODULE PluginLifecycle ---------------------------
(***************************************************************************)
(* PluginLifecycleHandler: the life of one plugin.  The caller, always the *)
(* job thread of the PluginManager (through PluginExecutor), asks for      *)
(* initialize, resume, suspend and terminate; a worker thread takes the    *)
(* resulting tasks from a queue and calls the plugin.  suspend and         *)
(* terminate interrupt the worker; suspend starts another one.  After      *)
(* terminate PluginExecutor forgets the handler, so nothing is asked of it *)
(* any more.                                                               *)
(*                                                                         *)
(* A worker learns of an interrupt at three places: the test of its own    *)
(* loop, the test of LoopPluginTask, and in BlockingQueue.take.  A take    *)
(* that begins with the flag set throws; one that is already waiting may   *)
(* either throw or be handed a task that arrives, as java.util.concurrent  *)
(* leaves open which of the two comes first.                               *)
(***************************************************************************)
EXTENDS Naturals, Sequences

CONSTANTS MaxWorkers, \* bound: worker threads that are ever started
          MaxTasks    \* bound: a queue this long takes no further resume

ASSUME PluginAssumption ==
    MaxWorkers \in Nat \ {0} /\ MaxTasks \in Nat \ {0}

VARIABLES
    state,       \* PluginLifecycleHandler.state
    tasks,       \* the task queue
    t,           \* number of the current worker, 0 for null
    caller,      \* what the caller has still to do
    started,     \* number of workers started
    phase,       \* phase[w]: where worker w is
    task,        \* task[w]: the task it has taken last
    interrupted, \* interrupted[w]: its interrupt flag
    called,      \* the methods of the plugin that have returned
    late         \* late[w]: calls of loop() begun by w after its interruption

callerVars == <<t, caller, started>>
workerVars == <<phase, task, interrupted, late>>
vars == <<state, tasks, callerVars, workerVars, called>>

Worker == 1 .. MaxWorkers

Task == {"INITIALIZE", "RESUME", "LOOP", "SUSPEND", "TERMINATE"}

PluginState == {"UNINITIALIZED", "INITIALIZING", "INITIALIZED", "RESUMING", "RESUMED",
                "LOOPING", "SUSPENDING", "SUSPENDED", "DESTROYING", "DESTROYED"}

(* The state that a task's completion callback sets. *)
Completed == [INITIALIZE |-> "INITIALIZED", RESUME |-> "RESUMED", LOOP |-> "LOOPING",
              SUSPEND |-> "SUSPENDED", TERMINATE |-> "DESTROYED"]

-----------------------------------------------------------------------------
(* The caller.  A call in a state that does not allow it throws
   IllegalStateException and changes nothing. *)

StartWorker ==
    /\ started' = started + 1
    /\ t' = started + 1
    /\ phase' = [phase EXCEPT ![started + 1] = "top"]

initialize ==
    /\ caller = "idle" /\ state = "UNINITIALIZED"
    /\ state' = "INITIALIZING"
    /\ tasks' = Append(tasks, "INITIALIZE")
    /\ StartWorker
    /\ UNCHANGED <<caller, task, interrupted, late, called>>

(* Mutant: a plugin may be resumed before it was initialized; a worker is there
   because somebody else initializes it later. *)
resume_any ==
    /\ caller = "idle" /\ Len(tasks) < MaxTasks
    /\ state \in {"UNINITIALIZED", "INITIALIZING", "INITIALIZED", "SUSPENDING", "SUSPENDED"}
    /\ state' = "RESUMING"
    /\ tasks' = Append(tasks, "RESUME")
    /\ caller' = "loop"
    /\ IF t = 0 THEN StartWorker ELSE UNCHANGED <<t, started, phase>>
    /\ UNCHANGED <<task, interrupted, late, called>>

(* resume puts two tasks, one after the other. *)
resume ==
    /\ caller = "idle" /\ Len(tasks) < MaxTasks
    /\ state \in {"INITIALIZING", "INITIALIZED", "SUSPENDING", "SUSPENDED"}
    /\ state' = "RESUMING"
    /\ tasks' = Append(tasks, "RESUME")
    /\ caller' = "loop"
    /\ UNCHANGED <<t, started, workerVars, called>>

(* Mutant: resume forgets that it always goes on to looping. *)
ResumePutLoop_not ==
    /\ caller = "loop"
    /\ caller' = "idle"
    /\ UNCHANGED <<state, tasks, t, started, workerVars, called>>

ResumePutLoop ==
    /\ caller = "loop"
    /\ tasks' = Append(tasks, "LOOP")
    /\ caller' = "idle"
    /\ UNCHANGED <<state, t, started, workerVars, called>>

(* Mutant: suspend and terminate leave the worker to find out for itself. *)
Interrupt_not == UNCHANGED interrupted

Interrupt == interrupted' = [interrupted EXCEPT ![t] = TRUE]

suspend ==
    /\ caller = "idle" /\ started < MaxWorkers
    /\ state \in {"RESUMED", "LOOPING"}
    /\ Interrupt
    /\ caller' = "suspend_clear"
    /\ UNCHANGED <<state, tasks, t, started, phase, task, late, called>>

terminate ==
    /\ caller = "idle"
    /\ state \notin {"UNINITIALIZED", "DESTROYING", "DESTROYED"}
    /\ Interrupt
    /\ caller' = "terminate_clear"
    /\ UNCHANGED <<state, tasks, t, started, phase, task, late, called>>

(* tasks.clear(). *)
Clear(op, next) ==
    /\ caller = op
    /\ tasks' = <<>>
    /\ caller' = next
    /\ UNCHANGED <<state, t, started, workerVars, called>>

(* state.set(...). *)
SetState(op, s, next) ==
    /\ caller = op
    /\ state' = s
    /\ caller' = next
    /\ UNCHANGED <<tasks, t, started, workerVars, called>>

SuspendPut ==
    /\ caller = "suspend_put"
    /\ tasks' = Append(tasks, "SUSPEND")
    /\ caller' = "suspend_start"
    /\ UNCHANGED <<state, t, started, workerVars, called>>

SuspendStart ==
    /\ caller = "suspend_start"
    /\ StartWorker
    /\ caller' = "idle"
    /\ UNCHANGED <<state, tasks, task, interrupted, late, called>>

(* The last part of terminate, and PluginExecutor's remove. *)
TerminatePut ==
    /\ caller = "terminate_put"
    /\ tasks' = Append(tasks, "TERMINATE")
    /\ t' = 0
    /\ caller' = "removed"
    /\ UNCHANGED <<state, started, workerVars, called>>

CallerGoesOn ==
    \/ ResumePutLoop
    \/ Clear("suspend_clear", "suspend_set")
    \/ SetState("suspend_set", "SUSPENDING", "suspend_put")
    \/ SuspendPut \/ SuspendStart
    \/ Clear("terminate_clear", "terminate_set")
    \/ SetState("terminate_set", "DESTROYING", "terminate_put")
    \/ TerminatePut

-----------------------------------------------------------------------------
(* The workers *)

Become(w, p) == phase' = [phase EXCEPT ![w] = p]

(* The test of PluginWorker's loop. *)
Top(w) ==
    /\ phase[w] = "top"
    /\ Become(w, IF interrupted[w] THEN "ended" ELSE "take")
    /\ UNCHANGED <<state, tasks, callerVars, task, interrupted, called, late>>

(* Worker w has been handed the first task.  LoopPluginTask calls its callback
   first, the others call the plugin. *)
Receive(w) ==
    /\ tasks # <<>>
    /\ task' = [task EXCEPT ![w] = Head(tasks)]
    /\ tasks' = Tail(tasks)
    /\ Become(w, IF Head(tasks) = "LOOP" THEN "callback" ELSE "call")
    /\ UNCHANGED <<state, callerVars, interrupted, called, late>>

Take(w) ==
    /\ phase[w] = "take"
    /\ \/ ~interrupted[w] /\ Receive(w)
       \/ /\ interrupted[w] \/ tasks = <<>>
          /\ Become(w, IF interrupted[w] THEN "ended" ELSE "waiting")
          /\ UNCHANGED <<state, tasks, callerVars, task, interrupted, called, late>>

(* A waiting worker gets a task, or its interrupt, whichever it sees. *)
Wake(w) ==
    /\ phase[w] = "waiting"
    /\ \/ Receive(w)
       \/ /\ interrupted[w]
          /\ Become(w, "ended")
          /\ UNCHANGED <<state, tasks, callerVars, task, interrupted, called, late>>

(* onInitialize, onResume, onSuspend or onTerminate returns. *)
Return(w) ==
    /\ phase[w] = "call"
    /\ called' = called \cup {task[w]}
    /\ Become(w, "callback")
    /\ UNCHANGED <<state, tasks, callerVars, task, interrupted, late>>

Callback(w) ==
    /\ phase[w] = "callback"
    /\ state' = Completed[task[w]]
    /\ Become(w, IF task[w] = "LOOP" THEN "test" ELSE "top")
    /\ UNCHANGED <<tasks, callerVars, task, interrupted, called, late>>

(* Mutant: the InterruptedException of loop() is swallowed and the flag with it. *)
LoopTest_deaf(w) ==
    /\ phase[w] = "test"
    /\ Become(w, "enter")
    /\ UNCHANGED <<state, tasks, callerVars, task, interrupted, called, late>>

(* The test of LoopPluginTask. *)
LoopTest(w) ==
    /\ phase[w] = "test"
    /\ Become(w, IF interrupted[w] THEN "top" ELSE "enter")
    /\ UNCHANGED <<state, tasks, callerVars, task, interrupted, called, late>>

LoopEnter(w) ==
    /\ phase[w] = "enter"
    /\ Become(w, "loop")
    /\ late' = [late EXCEPT ![w] = IF interrupted[w] THEN @ + 1 ELSE @]
    /\ UNCHANGED <<state, tasks, callerVars, task, interrupted, called>>

LoopReturn(w) ==
    /\ phase[w] = "loop"
    /\ called' = called \cup {"LOOP"}
    /\ Become(w, "test")
    /\ UNCHANGED <<state, tasks, callerVars, task, interrupted, late>>

(* A method of the plugin throws: nothing catches it and the worker is gone.  (The
   default handler of GuidanceMain then raises PANIC: GuidanceStateMachine.) *)
Throw(w) ==
    /\ phase[w] \in {"call", "loop"}
    /\ Become(w, "died")
    /\ UNCHANGED <<state, tasks, callerVars, task, interrupted, called, late>>

-----------------------------------------------------------------------------
Init ==
    /\ state = "UNINITIALIZED" /\ tasks = <<>>
    /\ t = 0 /\ caller = "idle" /\ started = 0
    /\ phase = [w \in Worker |-> "new"]
    /\ task = [w \in Worker |-> "INITIALIZE"]
    /\ interrupted = [w \in Worker |-> FALSE]
    /\ called = {} /\ late = [w \in Worker |-> 0]

WorkerStep(w) == \/ Top(w) \/ Take(w) \/ Wake(w) \/ Return(w) \/ Callback(w)
                 \/ LoopTest(w) \/ LoopEnter(w) \/ LoopReturn(w)

Next == \/ initialize \/ resume \/ suspend \/ terminate \/ CallerGoesOn
        \/ \E w \in Worker : WorkerStep(w) \/ Throw(w)

Spec == Init /\ [][Next]_vars

(* Workers are scheduled, the plugin's methods return or throw, and a call that has
   begun goes on.  Nobody owes a call. *)
Fairness == WF_vars(CallerGoesOn) /\ \A w \in Worker : WF_vars(WorkerStep(w))

FairSpec == Spec /\ Fairness

-----------------------------------------------------------------------------
(* Properties *)

(* The handler's state, its queue and its workers have their types: callbacks only
   report states that PluginState has. *)
TypeOK ==
    /\ state \in PluginState /\ tasks \in Seq(Task)
    /\ t \in 0 .. MaxWorkers /\ started \in 0 .. MaxWorkers
    /\ caller \in {"idle", "loop", "suspend_clear", "suspend_set", "suspend_put",
                   "suspend_start", "terminate_clear", "terminate_set", "terminate_put",
                   "removed"}
    /\ phase \in [Worker -> {"new", "top", "take", "waiting", "call", "callback", "test",
                             "enter", "loop", "ended", "died"}]
    /\ task \in [Worker -> Task]
    /\ interrupted \in [Worker -> BOOLEAN]
    /\ called \subseteq Task
    /\ late \in [Worker -> Nat]

(* The plugin is never resumed before onInitialize has returned, and neither suspended
   nor in loop() before onResume has: the queue keeps the order of the calls although
   resume is accepted while onInitialize runs. *)
CallsInOrder ==
    \A w \in Worker :
        /\ phase[w] = "call" /\ task[w] = "RESUME" => "INITIALIZE" \in called
        /\ phase[w] = "call" /\ task[w] = "SUSPEND" => "RESUME" \in called
        /\ phase[w] = "loop" => "RESUME" \in called

(* Every worker but the current one has been told to stop: there is never a second
   worker that goes on taking tasks or looping. *)
OneWorkerGoesOn ==
    \A w \in Worker : phase[w] # "new" /\ w # t => interrupted[w]

(* A worker that has been interrupted begins at most one more call of loop(), the
   one it had already decided on. *)
AtMostOneLateLoop == \A w \in Worker : late[w] <= 1

Terminated == caller \in {"terminate_clear", "terminate_set", "terminate_put", "removed"}

Died == \E w \in Worker : phase[w] = "died"

(* A plugin that is resumed for the first time (PluginManager never resumes one that
   it has suspended) gets to loop() in its worker, unless it is suspended or terminated
   before, or one of its methods throws. *)
ResumeIsRun == state = "RESUMING" ~> \/ t # 0 /\ phase[t] = "loop"
                                     \/ started > 1
                                     \/ caller \notin {"idle", "loop"}
                                     \/ Died

(* No thread outlives the plugin: after terminate every worker ends, wherever the
   interrupt has met it. *)
WorkersEnd ==
    Terminated ~> \A w \in Worker : phase[w] \in {"new", "ended", "died"}

(* terminate calls the plugin's onTerminate, as the test of the class expects. *)
TerminateIsRun == Terminated ~> "TERMINATE" \in called
====
