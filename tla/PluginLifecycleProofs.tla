------------------------ MODULE PluginLifecycleProofs ------------------------
(***************************************************************************)
(* Proofs about PluginLifecycle, for any number of workers and any length  *)
(* of the queue.                                                           *)
(***************************************************************************)
EXTENDS PluginLifecycle, TLAPS

Suspending == {"suspend_clear", "suspend_set", "suspend_put", "suspend_start"}

(* Only workers that were started have left "new"; the last of them is the current one, and
   a call that has interrupted it has thereby interrupted all. *)
Threads ==
    /\ (state = "UNINITIALIZED") <=> (started = 0)
    /\ \A w \in Worker : (phase[w] = "new") <=> (w > started)
    /\ started = 0 => t = 0 /\ tasks = <<>> /\ caller = "idle"
    /\ started # 0 => t = IF caller = "removed" THEN 0 ELSE started
    /\ caller \in Suspending => started < MaxWorkers
    /\ caller \notin {"idle", "loop"} => \A w \in Worker : w <= started => interrupted[w]

(* A call of loop() that was begun late was begun once, and the worker is past the test. *)
LateInv ==
    \A w \in Worker : late[w] = 0 \/ (interrupted[w] /\ late[w] = 1 /\ phase[w] # "enter")

(* What is in the queue while the caller is in the middle of suspend or terminate, and
   afterwards. *)
QueueInv ==
    /\ caller \in {"suspend_set", "suspend_put", "terminate_set", "terminate_put"} => tasks = <<>>
    /\ caller = "removed" => \A i \in DOMAIN tasks : tasks[i] = "TERMINATE"
    /\ \A i \in DOMAIN tasks : tasks[i] = "TERMINATE" => caller = "removed"
    /\ \A w \in Worker : phase[w] \in {"call", "callback"} /\ task[w] = "TERMINATE"
                           => caller = "removed"

(* As long as onInitialize has not returned, only the first worker exists, and it either is
   in onInitialize or has that task before it; unless the plugin is being terminated. *)
InitializeFirst ==
    /\ started <= 1 /\ caller \notin Suspending
    /\ state \in {"UNINITIALIZED", "INITIALIZING", "RESUMING", "DESTROYING", "DESTROYED"}
    /\ \A w \in Worker :
         /\ phase[w] \notin {"test", "enter", "loop"}
         /\ phase[w] = "call" => task[w] \in {"INITIALIZE", "TERMINATE"}
         /\ phase[w] = "callback" => task[w] = "TERMINATE"
         /\ phase[w] \in {"top", "take", "waiting"} /\ caller \in {"idle", "loop", "terminate_clear"}
              => tasks # <<>> /\ tasks[1] = "INITIALIZE"

(* In the queue a RESUME comes before every LOOP, and before the one that is about to be put. *)
LoopAfterResume ==
    /\ \A i \in DOMAIN tasks : tasks[i] = "LOOP" => \E j \in 1 .. i - 1 : tasks[j] = "RESUME"
    /\ caller = "loop" => \E j \in DOMAIN tasks : tasks[j] = "RESUME"

(* As long as onResume has not returned, nobody can have asked for a suspend, which needs the
   state that onResume or looping leads to. *)
ResumeFirst ==
    /\ started <= 1 /\ caller \notin Suspending
    /\ state \notin {"RESUMED", "LOOPING", "SUSPENDING", "SUSPENDED"}
    /\ \A i \in DOMAIN tasks : tasks[i] # "SUSPEND"
    /\ \A w \in Worker :
         /\ phase[w] \notin {"test", "enter", "loop"}
         /\ phase[w] = "call" => task[w] \in {"INITIALIZE", "RESUME", "TERMINATE"}
         /\ phase[w] = "callback" => task[w] \in {"INITIALIZE", "TERMINATE"}
         /\ \/ phase[w] \in {"top", "take", "waiting", "callback"}
            \/ phase[w] = "call" /\ task[w] # "RESUME"
            => LoopAfterResume

InitializeInv == "INITIALIZE" \notin called => InitializeFirst

ResumeInv == "RESUME" \notin called => ResumeFirst

IInv == /\ TypeOK /\ Threads /\ OneWorkerGoesOn /\ LateInv /\ QueueInv
        /\ InitializeInv /\ ResumeInv

-----------------------------------------------------------------------------
(* Every part of the invariant is preserved by every step *)

(* Take and Wake either receive a task or do not; where they go from there does not matter. *)
Get(w) == phase[w] \in {"take", "waiting"} /\ Receive(w)

StayOrEnd(w) ==
    /\ phase[w] \in {"take", "waiting"}
    /\ \E p \in {"waiting", "ended"} : Become(w, p)
    /\ UNCHANGED <<state, tasks, callerVars, task, interrupted, called, late>>

LEMMA TakeSteps ==
    ASSUME NEW w \in Worker, Take(w) \/ Wake(w)
    PROVE  Get(w) \/ StayOrEnd(w)
BY DEF Take, Wake, Get, StayOrEnd

(* Taking the first task of a queue. *)
LEMMA HeadTail ==
    ASSUME NEW q \in Seq(Task), q # <<>>
    PROVE  /\ Head(q) = q[1] /\ Head(q) \in Task /\ Tail(q) \in Seq(Task)
           /\ Len(Tail(q)) = Len(q) - 1 /\ Len(q) \in Nat \ {0}
           /\ \A i \in 1 .. Len(q) - 1 : Tail(q)[i] = q[i + 1]
OBVIOUS

(* Putting a task at the end of a queue. *)
LEMMA AppendTask ==
    ASSUME NEW q \in Seq(Task), NEW k \in Task
    PROVE  /\ Append(q, k) \in Seq(Task) /\ Len(Append(q, k)) = Len(q) + 1 /\ Len(q) \in Nat
           /\ DOMAIN Append(q, k) = 1 .. Len(q) + 1 /\ DOMAIN q = 1 .. Len(q)
           /\ \A i \in 1 .. Len(q) : Append(q, k)[i] = q[i]
           /\ Append(q, k)[Len(q) + 1] = k
OBVIOUS

(* What a completed task reports is a state of the plugin, and not the first one. *)
LEMMA CompletedState ==
    ASSUME NEW k \in Task
    PROVE  Completed[k] \in PluginState \ {"UNINITIALIZED"}
BY DEF Task, PluginState, Completed

(* The variables keep their types. *)
LEMMA TypeStep == IInv /\ [Next]_vars => TypeOK'
<1> SUFFICES ASSUME IInv, [Next]_vars
             PROVE  TypeOK'
  OBVIOUS
<1> USE PluginAssumption DEF IInv, Worker, callerVars, workerVars
<1>1. CASE initialize
  BY <1>1 DEF initialize, StartWorker, TypeOK, Threads, Task, PluginState
<1>2. CASE resume
  BY <1>2 DEF resume, TypeOK, Threads, Task, PluginState
<1>3. CASE suspend
  BY <1>3 DEF suspend, Interrupt, TypeOK, Threads, Task, PluginState
<1>4. CASE terminate
  BY <1>4 DEF terminate, Interrupt, TypeOK, Threads, Task, PluginState
<1>5. CASE ResumePutLoop
  BY <1>5 DEF ResumePutLoop, TypeOK, Threads, Task, PluginState
<1>6. CASE Clear("suspend_clear", "suspend_set")
  BY <1>6 DEF Clear, TypeOK, Threads, Task, PluginState
<1>7. CASE SetState("suspend_set", "SUSPENDING", "suspend_put")
  BY <1>7 DEF SetState, TypeOK, Threads, Task, PluginState
<1>8. CASE SuspendPut
  BY <1>8 DEF SuspendPut, TypeOK, Threads, Task, PluginState
<1>9. CASE SuspendStart
  BY <1>9 DEF SuspendStart, StartWorker, TypeOK, Threads, Suspending
<1>10. CASE Clear("terminate_clear", "terminate_set")
  BY <1>10 DEF Clear, TypeOK, Threads, Task, PluginState
<1>11. CASE SetState("terminate_set", "DESTROYING", "terminate_put")
  BY <1>11 DEF SetState, TypeOK, Threads, Task, PluginState
<1>12. CASE TerminatePut
  BY <1>12 DEF TerminatePut, TypeOK, Threads, Task, PluginState
<1>13. ASSUME NEW w \in Worker, Top(w)
     PROVE  TypeOK'
  BY <1>13 DEF Top, Become, TypeOK, Threads, Task, PluginState
<1>14. ASSUME NEW w \in Worker, Get(w)
     PROVE  TypeOK'
  <2>1. Head(tasks) \in Task /\ Tail(tasks) \in Seq(Task)
    BY <1>14, HeadTail DEF Get, Receive, TypeOK
  <2> QED
    BY <2>1, <1>14 DEF Get, Become, Receive, TypeOK
<1>15. ASSUME NEW w \in Worker, StayOrEnd(w)
     PROVE  TypeOK'
  BY <1>15 DEF StayOrEnd, Become, TypeOK, Threads, Task, PluginState
<1>16. ASSUME NEW w \in Worker, Return(w)
     PROVE  TypeOK'
  BY <1>16 DEF Return, Become, TypeOK, Threads, Task, PluginState
<1>17. ASSUME NEW w \in Worker, Callback(w)
     PROVE  TypeOK'
  BY <1>17 DEF Callback, Become, Completed, TypeOK, Threads, Task, PluginState
<1>18. ASSUME NEW w \in Worker, LoopTest(w)
     PROVE  TypeOK'
  BY <1>18 DEF LoopTest, Become, TypeOK, Threads, Task, PluginState
<1>19. ASSUME NEW w \in Worker, LoopEnter(w)
     PROVE  TypeOK'
  BY <1>19 DEF LoopEnter, Become, TypeOK, Threads, Task, PluginState
<1>20. ASSUME NEW w \in Worker, LoopReturn(w)
     PROVE  TypeOK'
  BY <1>20 DEF LoopReturn, Become, TypeOK, Threads, Task, PluginState
<1>21. ASSUME NEW w \in Worker, Throw(w)
     PROVE  TypeOK'
  BY <1>21 DEF Throw, Become, TypeOK, Threads, Task, PluginState
<1>22. CASE UNCHANGED vars
  BY <1>22 DEF vars, TypeOK, Threads, Task, PluginState
<1> QED
  BY <1>1, <1>2, <1>3, <1>4, <1>5, <1>6, <1>7, <1>8, <1>9, <1>10, <1>11, <1>12, <1>13, <1>14,
     <1>15, <1>16, <1>17, <1>18, <1>19, <1>20, <1>21, <1>22, TakeSteps
  DEF Next, CallerGoesOn, WorkerStep

(* Workers are started one after the other. *)
LEMMA ThreadsStep == IInv /\ [Next]_vars => Threads'
<1> SUFFICES ASSUME IInv, [Next]_vars
             PROVE  Threads'
  OBVIOUS
<1> USE PluginAssumption DEF IInv, Worker, callerVars, workerVars
<1>1. CASE initialize
  BY <1>1 DEF initialize, StartWorker, TypeOK, Threads, Suspending
<1>2. CASE resume
  BY <1>2 DEF resume, TypeOK, Threads, Suspending
<1>3. CASE suspend
  BY <1>3 DEF suspend, Interrupt, TypeOK, Threads, OneWorkerGoesOn, Suspending
<1>4. CASE terminate
  BY <1>4 DEF terminate, Interrupt, TypeOK, Threads, OneWorkerGoesOn, Suspending
<1>5. CASE ResumePutLoop
  BY <1>5 DEF ResumePutLoop, TypeOK, Threads, Suspending
<1>6. CASE Clear("suspend_clear", "suspend_set")
  BY <1>6 DEF Clear, TypeOK, Threads, Suspending
<1>7. CASE SetState("suspend_set", "SUSPENDING", "suspend_put")
  BY <1>7 DEF SetState, TypeOK, Threads, Suspending
<1>8. CASE SuspendPut
  BY <1>8 DEF SuspendPut, TypeOK, Threads, Suspending
<1>9. CASE SuspendStart
  BY <1>9 DEF SuspendStart, StartWorker, TypeOK, Threads, Suspending
<1>10. CASE Clear("terminate_clear", "terminate_set")
  BY <1>10 DEF Clear, TypeOK, Threads, Suspending
<1>11. CASE SetState("terminate_set", "DESTROYING", "terminate_put")
  BY <1>11 DEF SetState, TypeOK, Threads, Suspending
<1>12. CASE TerminatePut
  BY <1>12 DEF TerminatePut, TypeOK, Threads, Suspending
<1>13. ASSUME NEW w \in Worker, Top(w)
     PROVE  Threads'
  BY <1>13 DEF Top, Become, TypeOK, Threads, Suspending
<1>14. ASSUME NEW w \in Worker, Get(w)
     PROVE  Threads'
  BY <1>14 DEF Get, Become, Receive, TypeOK, Threads, Suspending
<1>15. ASSUME NEW w \in Worker, StayOrEnd(w)
     PROVE  Threads'
  BY <1>15 DEF StayOrEnd, Become, TypeOK, Threads, Suspending
<1>16. ASSUME NEW w \in Worker, Return(w)
     PROVE  Threads'
  BY <1>16 DEF Return, Become, TypeOK, Threads, Suspending
<1>17. ASSUME NEW w \in Worker, Callback(w)
     PROVE  Threads'
  BY <1>17, CompletedState DEF Callback, Become, TypeOK, Threads, Suspending
<1>18. ASSUME NEW w \in Worker, LoopTest(w)
     PROVE  Threads'
  BY <1>18 DEF LoopTest, Become, TypeOK, Threads, Suspending
<1>19. ASSUME NEW w \in Worker, LoopEnter(w)
     PROVE  Threads'
  BY <1>19 DEF LoopEnter, Become, TypeOK, Threads, Suspending
<1>20. ASSUME NEW w \in Worker, LoopReturn(w)
     PROVE  Threads'
  BY <1>20 DEF LoopReturn, Become, TypeOK, Threads, Suspending
<1>21. ASSUME NEW w \in Worker, Throw(w)
     PROVE  Threads'
  BY <1>21 DEF Throw, Become, TypeOK, Threads, Suspending
<1>22. CASE UNCHANGED vars
  BY <1>22 DEF vars, TypeOK, Threads, Suspending
<1> QED
  BY <1>1, <1>2, <1>3, <1>4, <1>5, <1>6, <1>7, <1>8, <1>9, <1>10, <1>11, <1>12, <1>13, <1>14,
     <1>15, <1>16, <1>17, <1>18, <1>19, <1>20, <1>21, <1>22, TakeSteps
  DEF Next, CallerGoesOn, WorkerStep

(* suspend starts a worker only after it has interrupted the one before. *)
LEMMA OneWorkerStep == IInv /\ [Next]_vars => OneWorkerGoesOn'
<1> SUFFICES ASSUME IInv, [Next]_vars
             PROVE  OneWorkerGoesOn'
  OBVIOUS
<1> USE PluginAssumption DEF IInv, Worker, callerVars, workerVars
<1>1. CASE initialize
  BY <1>1 DEF initialize, StartWorker, TypeOK, Threads, OneWorkerGoesOn, Suspending
<1>2. CASE resume
  BY <1>2 DEF resume, TypeOK, Threads, OneWorkerGoesOn, Suspending
<1>3. CASE suspend
  BY <1>3 DEF suspend, Interrupt, TypeOK, Threads, OneWorkerGoesOn, Suspending
<1>4. CASE terminate
  BY <1>4 DEF terminate, Interrupt, TypeOK, Threads, OneWorkerGoesOn, Suspending
<1>5. CASE ResumePutLoop
  BY <1>5 DEF ResumePutLoop, TypeOK, Threads, OneWorkerGoesOn, Suspending
<1>6. CASE Clear("suspend_clear", "suspend_set")
  BY <1>6 DEF Clear, TypeOK, Threads, OneWorkerGoesOn, Suspending
<1>7. CASE SetState("suspend_set", "SUSPENDING", "suspend_put")
  BY <1>7 DEF SetState, TypeOK, Threads, OneWorkerGoesOn, Suspending
<1>8. CASE SuspendPut
  BY <1>8 DEF SuspendPut, TypeOK, Threads, OneWorkerGoesOn, Suspending
<1>9. CASE SuspendStart
  BY <1>9 DEF SuspendStart, StartWorker, TypeOK, Threads, OneWorkerGoesOn, Suspending
<1>10. CASE Clear("terminate_clear", "terminate_set")
  BY <1>10 DEF Clear, TypeOK, Threads, OneWorkerGoesOn, Suspending
<1>11. CASE SetState("terminate_set", "DESTROYING", "terminate_put")
  BY <1>11 DEF SetState, TypeOK, Threads, OneWorkerGoesOn, Suspending
<1>12. CASE TerminatePut
  BY <1>12 DEF TerminatePut, TypeOK, Threads, OneWorkerGoesOn, Suspending
<1>13. ASSUME NEW w \in Worker, Top(w)
     PROVE  OneWorkerGoesOn'
  BY <1>13 DEF Top, Become, TypeOK, Threads, OneWorkerGoesOn, Suspending
<1>14. ASSUME NEW w \in Worker, Get(w)
     PROVE  OneWorkerGoesOn'
  BY <1>14 DEF Get, Become, Receive, TypeOK, Threads, OneWorkerGoesOn, Suspending
<1>15. ASSUME NEW w \in Worker, StayOrEnd(w)
     PROVE  OneWorkerGoesOn'
  BY <1>15 DEF StayOrEnd, Become, TypeOK, Threads, OneWorkerGoesOn, Suspending
<1>16. ASSUME NEW w \in Worker, Return(w)
     PROVE  OneWorkerGoesOn'
  BY <1>16 DEF Return, Become, TypeOK, Threads, OneWorkerGoesOn, Suspending
<1>17. ASSUME NEW w \in Worker, Callback(w)
     PROVE  OneWorkerGoesOn'
  BY <1>17 DEF Callback, Become, Completed, TypeOK, Threads, OneWorkerGoesOn, Suspending
<1>18. ASSUME NEW w \in Worker, LoopTest(w)
     PROVE  OneWorkerGoesOn'
  BY <1>18 DEF LoopTest, Become, TypeOK, Threads, OneWorkerGoesOn, Suspending
<1>19. ASSUME NEW w \in Worker, LoopEnter(w)
     PROVE  OneWorkerGoesOn'
  BY <1>19 DEF LoopEnter, Become, TypeOK, Threads, OneWorkerGoesOn, Suspending
<1>20. ASSUME NEW w \in Worker, LoopReturn(w)
     PROVE  OneWorkerGoesOn'
  BY <1>20 DEF LoopReturn, Become, TypeOK, Threads, OneWorkerGoesOn, Suspending
<1>21. ASSUME NEW w \in Worker, Throw(w)
     PROVE  OneWorkerGoesOn'
  BY <1>21 DEF Throw, Become, TypeOK, Threads, OneWorkerGoesOn, Suspending
<1>22. CASE UNCHANGED vars
  BY <1>22 DEF vars, TypeOK, Threads, OneWorkerGoesOn, Suspending
<1> QED
  BY <1>1, <1>2, <1>3, <1>4, <1>5, <1>6, <1>7, <1>8, <1>9, <1>10, <1>11, <1>12, <1>13, <1>14,
     <1>15, <1>16, <1>17, <1>18, <1>19, <1>20, <1>21, <1>22, TakeSteps
  DEF Next, CallerGoesOn, WorkerStep

(* The test of LoopPluginTask lets no interrupted worker pass. *)
LEMMA LateStep == IInv /\ [Next]_vars => LateInv'
<1> SUFFICES ASSUME IInv, [Next]_vars
             PROVE  LateInv'
  OBVIOUS
<1> USE PluginAssumption DEF IInv, Worker, callerVars, workerVars
<1>1. CASE initialize
  BY <1>1 DEF initialize, StartWorker, TypeOK, LateInv, OneWorkerGoesOn
<1>2. CASE resume
  BY <1>2 DEF resume, TypeOK, LateInv, OneWorkerGoesOn
<1>3. CASE suspend
  BY <1>3 DEF suspend, Interrupt, TypeOK, LateInv, OneWorkerGoesOn
<1>4. CASE terminate
  BY <1>4 DEF terminate, Interrupt, TypeOK, LateInv, OneWorkerGoesOn
<1>5. CASE ResumePutLoop
  BY <1>5 DEF ResumePutLoop, TypeOK, LateInv, OneWorkerGoesOn
<1>6. CASE Clear("suspend_clear", "suspend_set")
  BY <1>6 DEF Clear, TypeOK, LateInv, OneWorkerGoesOn
<1>7. CASE SetState("suspend_set", "SUSPENDING", "suspend_put")
  BY <1>7 DEF SetState, TypeOK, LateInv, OneWorkerGoesOn
<1>8. CASE SuspendPut
  BY <1>8 DEF SuspendPut, TypeOK, LateInv, OneWorkerGoesOn
<1>9. CASE SuspendStart
  BY <1>9 DEF SuspendStart, StartWorker, TypeOK, LateInv, OneWorkerGoesOn
<1>10. CASE Clear("terminate_clear", "terminate_set")
  BY <1>10 DEF Clear, TypeOK, LateInv, OneWorkerGoesOn
<1>11. CASE SetState("terminate_set", "DESTROYING", "terminate_put")
  BY <1>11 DEF SetState, TypeOK, LateInv, OneWorkerGoesOn
<1>12. CASE TerminatePut
  BY <1>12 DEF TerminatePut, TypeOK, LateInv, OneWorkerGoesOn
<1>13. ASSUME NEW w \in Worker, Top(w)
     PROVE  LateInv'
  BY <1>13 DEF Top, Become, TypeOK, LateInv, OneWorkerGoesOn
<1>14. ASSUME NEW w \in Worker, Get(w)
     PROVE  LateInv'
  BY <1>14 DEF Get, Become, Receive, TypeOK, LateInv, OneWorkerGoesOn
<1>15. ASSUME NEW w \in Worker, StayOrEnd(w)
     PROVE  LateInv'
  BY <1>15 DEF StayOrEnd, Become, TypeOK, LateInv, OneWorkerGoesOn
<1>16. ASSUME NEW w \in Worker, Return(w)
     PROVE  LateInv'
  BY <1>16 DEF Return, Become, TypeOK, LateInv, OneWorkerGoesOn
<1>17. ASSUME NEW w \in Worker, Callback(w)
     PROVE  LateInv'
  BY <1>17 DEF Callback, Become, Completed, TypeOK, LateInv, OneWorkerGoesOn
<1>18. ASSUME NEW w \in Worker, LoopTest(w)
     PROVE  LateInv'
  BY <1>18 DEF LoopTest, Become, TypeOK, LateInv, OneWorkerGoesOn
<1>19. ASSUME NEW w \in Worker, LoopEnter(w)
     PROVE  LateInv'
  BY <1>19 DEF LoopEnter, Become, TypeOK, LateInv, OneWorkerGoesOn
<1>20. ASSUME NEW w \in Worker, LoopReturn(w)
     PROVE  LateInv'
  BY <1>20 DEF LoopReturn, Become, TypeOK, LateInv, OneWorkerGoesOn
<1>21. ASSUME NEW w \in Worker, Throw(w)
     PROVE  LateInv'
  BY <1>21 DEF Throw, Become, TypeOK, LateInv, OneWorkerGoesOn
<1>22. CASE UNCHANGED vars
  BY <1>22 DEF vars, TypeOK, LateInv, OneWorkerGoesOn
<1> QED
  BY <1>1, <1>2, <1>3, <1>4, <1>5, <1>6, <1>7, <1>8, <1>9, <1>10, <1>11, <1>12, <1>13, <1>14,
     <1>15, <1>16, <1>17, <1>18, <1>19, <1>20, <1>21, <1>22, TakeSteps
  DEF Next, CallerGoesOn, WorkerStep

(* Workers only take from the queue. *)
LEMMA QueueStep == IInv /\ [Next]_vars => QueueInv'
<1> SUFFICES ASSUME IInv, [Next]_vars
             PROVE  QueueInv'
  OBVIOUS
<1> USE PluginAssumption DEF IInv, Worker, callerVars, workerVars
<1>1. CASE initialize
  BY <1>1 DEF initialize, StartWorker, TypeOK, QueueInv
<1>2. CASE resume
  BY <1>2 DEF resume, TypeOK, QueueInv
<1>3. CASE suspend
  BY <1>3 DEF suspend, Interrupt, TypeOK, QueueInv
<1>4. CASE terminate
  BY <1>4 DEF terminate, Interrupt, TypeOK, QueueInv
<1>5. CASE ResumePutLoop
  BY <1>5 DEF ResumePutLoop, TypeOK, QueueInv
<1>6. CASE Clear("suspend_clear", "suspend_set")
  BY <1>6 DEF Clear, TypeOK, QueueInv
<1>7. CASE SetState("suspend_set", "SUSPENDING", "suspend_put")
  BY <1>7 DEF SetState, TypeOK, QueueInv
<1>8. CASE SuspendPut
  BY <1>8 DEF SuspendPut, TypeOK, QueueInv
<1>9. CASE SuspendStart
  BY <1>9 DEF SuspendStart, StartWorker, TypeOK, QueueInv
<1>10. CASE Clear("terminate_clear", "terminate_set")
  BY <1>10 DEF Clear, TypeOK, QueueInv
<1>11. CASE SetState("terminate_set", "DESTROYING", "terminate_put")
  BY <1>11 DEF SetState, TypeOK, QueueInv
<1>12. CASE TerminatePut
  BY <1>12 DEF TerminatePut, TypeOK, QueueInv
<1>13. ASSUME NEW w \in Worker, Top(w)
     PROVE  QueueInv'
  BY <1>13 DEF Top, Become, TypeOK, QueueInv
<1>14. ASSUME NEW w \in Worker, Get(w)
     PROVE  QueueInv'
  <2>1. \A i \in DOMAIN Tail(tasks) : i + 1 \in DOMAIN tasks /\ Tail(tasks)[i] = tasks[i + 1]
    BY <1>14, HeadTail DEF Get, Receive, TypeOK
  <2>2. 1 \in DOMAIN tasks /\ tasks[1] = Head(tasks) /\ tasks # <<>>
    BY <1>14, HeadTail DEF Get, Receive, TypeOK
  <2>3. caller' = caller /\ tasks' = Tail(tasks) /\ task' = [task EXCEPT ![w] = Head(tasks)]
        /\ \E p \in {"call", "callback"} : phase' = [phase EXCEPT ![w] = p]
    BY <1>14 DEF Get, Receive, Become
  <2>4. caller \notin {"suspend_set", "suspend_put", "terminate_set", "terminate_put"}
    BY <2>2 DEF QueueInv
  <2>5. Head(tasks) = "TERMINATE" => caller = "removed"
    BY <2>2 DEF QueueInv
  <2>6. \A v \in Worker : phase'[v] \in {"call", "callback"} /\ task'[v] = "TERMINATE"
                           => caller' = "removed"
    BY <2>3, <2>5 DEF QueueInv, TypeOK
  <2> QED
    BY <2>1, <2>3, <2>4, <2>6 DEF QueueInv
<1>15. ASSUME NEW w \in Worker, StayOrEnd(w)
     PROVE  QueueInv'
  BY <1>15 DEF StayOrEnd, Become, TypeOK, QueueInv
<1>16. ASSUME NEW w \in Worker, Return(w)
     PROVE  QueueInv'
  BY <1>16 DEF Return, Become, TypeOK, QueueInv
<1>17. ASSUME NEW w \in Worker, Callback(w)
     PROVE  QueueInv'
  BY <1>17 DEF Callback, Become, Completed, TypeOK, QueueInv
<1>18. ASSUME NEW w \in Worker, LoopTest(w)
     PROVE  QueueInv'
  BY <1>18 DEF LoopTest, Become, TypeOK, QueueInv
<1>19. ASSUME NEW w \in Worker, LoopEnter(w)
     PROVE  QueueInv'
  BY <1>19 DEF LoopEnter, Become, TypeOK, QueueInv
<1>20. ASSUME NEW w \in Worker, LoopReturn(w)
     PROVE  QueueInv'
  BY <1>20 DEF LoopReturn, Become, TypeOK, QueueInv
<1>21. ASSUME NEW w \in Worker, Throw(w)
     PROVE  QueueInv'
  BY <1>21 DEF Throw, Become, TypeOK, QueueInv
<1>22. CASE UNCHANGED vars
  BY <1>22 DEF vars, TypeOK, QueueInv
<1> QED
  BY <1>1, <1>2, <1>3, <1>4, <1>5, <1>6, <1>7, <1>8, <1>9, <1>10, <1>11, <1>12, <1>13, <1>14,
     <1>15, <1>16, <1>17, <1>18, <1>19, <1>20, <1>21, <1>22, TakeSteps
  DEF Next, CallerGoesOn, WorkerStep

(* Until onInitialize returns, nothing else is called but onTerminate. *)
LEMMA InitializeStep == IInv /\ [Next]_vars => InitializeInv'
<1> SUFFICES ASSUME IInv, [Next]_vars
             PROVE  InitializeInv'
  OBVIOUS
<1> USE PluginAssumption DEF IInv, Worker, callerVars, workerVars
<1>1. CASE initialize
  <2>1. tasks' = Append(<<>>, "INITIALIZE") /\ started = 0
    BY <1>1 DEF initialize, Threads
  <2>2. tasks' # <<>> /\ tasks'[1] = "INITIALIZE"
    BY <2>1
  <2> QED
    BY <2>1, <2>2, <1>1
    DEF initialize, StartWorker, TypeOK, Threads, Suspending, InitializeInv, InitializeFirst
<1>2. CASE resume
  <2> SUFFICES ASSUME "INITIALIZE" \notin called
               PROVE  InitializeFirst'
    BY <1>2 DEF resume, InitializeInv
  <2>1. InitializeFirst
    BY DEF InitializeInv
  <2>2. tasks # <<>> => tasks'[1] = tasks[1] /\ tasks' # <<>>
    <3>1. tasks # <<>> => 1 \in 1 .. Len(tasks)
      BY HeadTail DEF TypeOK
    <3>2. tasks' = Append(tasks, "RESUME") /\ tasks \in Seq(Task) /\ "RESUME" \in Task
      BY <1>2 DEF resume, TypeOK, Task
    <3>3. Len(tasks') # 0 /\ \A i \in 1 .. Len(tasks) : tasks'[i] = tasks[i]
      BY <3>2, AppendTask
    <3> QED
      BY <3>1, <3>3
  <2> QED
    BY <2>1, <2>2, <1>2 DEF resume, InitializeFirst, Suspending
<1>3. CASE suspend
  BY <1>3 DEF suspend, Interrupt, TypeOK, Threads, QueueInv, Suspending, InitializeInv,
     InitializeFirst, Task
<1>4. CASE terminate
  BY <1>4 DEF terminate, Interrupt, TypeOK, Threads, QueueInv, Suspending, InitializeInv,
     InitializeFirst, Task
<1>5. CASE ResumePutLoop
  BY <1>5 DEF ResumePutLoop, TypeOK, Threads, QueueInv, Suspending, InitializeInv,
     InitializeFirst, Task
<1>6. CASE Clear("suspend_clear", "suspend_set")
  BY <1>6 DEF Clear, TypeOK, Threads, QueueInv, Suspending, InitializeInv, InitializeFirst, Task
<1>7. CASE SetState("suspend_set", "SUSPENDING", "suspend_put")
  BY <1>7
  DEF SetState, TypeOK, Threads, QueueInv, Suspending, InitializeInv, InitializeFirst, Task
<1>8. CASE SuspendPut
  BY <1>8
  DEF SuspendPut, TypeOK, Threads, QueueInv, Suspending, InitializeInv, InitializeFirst, Task
<1>9. CASE SuspendStart
  BY <1>9 DEF SuspendStart, StartWorker, TypeOK, Threads, QueueInv, Suspending, InitializeInv,
     InitializeFirst, Task
<1>10. CASE Clear("terminate_clear", "terminate_set")
  BY <1>10 DEF Clear, TypeOK, Threads, QueueInv, Suspending, InitializeInv, InitializeFirst, Task
<1>11. CASE SetState("terminate_set", "DESTROYING", "terminate_put")
  BY <1>11
  DEF SetState, TypeOK, Threads, QueueInv, Suspending, InitializeInv, InitializeFirst, Task
<1>12. CASE TerminatePut
  BY <1>12
  DEF TerminatePut, TypeOK, Threads, QueueInv, Suspending, InitializeInv, InitializeFirst, Task
<1>13. ASSUME NEW w \in Worker, Top(w)
     PROVE  InitializeInv'
  BY <1>13
  DEF Top, Become, TypeOK, Threads, QueueInv, Suspending, InitializeInv, InitializeFirst, Task
<1>14. ASSUME NEW w \in Worker, Get(w)
     PROVE  InitializeInv'
  <2> SUFFICES ASSUME "INITIALIZE" \notin called
               PROVE  InitializeFirst'
    BY <1>14 DEF Get, Receive, InitializeInv
  <2>1. InitializeFirst
    BY DEF InitializeInv
  <2>2. tasks[1] = Head(tasks) /\ 1 \in DOMAIN tasks
    BY <1>14, HeadTail DEF Get, Receive, TypeOK
  <2>3. Head(tasks) \in {"INITIALIZE", "TERMINATE"}
    BY <2>1, <2>2, <1>14 DEF Get, Receive, InitializeFirst, QueueInv, TypeOK, Suspending
  <2>4. \A v \in Worker : v # w => phase[v] = "new"
    BY <2>1, <1>14 DEF Get, InitializeFirst, Threads, TypeOK
  <2>5. phase' = [phase EXCEPT ![w] = "call"] /\ task' = [task EXCEPT ![w] = Head(tasks)]
        /\ UNCHANGED <<state, started, caller>>
    BY <2>3, <1>14 DEF Get, Receive, Become
  <2> QED
    BY <2>1, <2>3, <2>4, <2>5 DEF InitializeFirst, TypeOK
<1>15. ASSUME NEW w \in Worker, StayOrEnd(w)
     PROVE  InitializeInv'
  BY <1>15 DEF StayOrEnd, Become, TypeOK, Threads, QueueInv, Suspending, InitializeInv,
     InitializeFirst, Task
<1>16. ASSUME NEW w \in Worker, Return(w)
     PROVE  InitializeInv'
  BY <1>16 DEF Return, Become, TypeOK, Threads, QueueInv, Suspending, InitializeInv,
     InitializeFirst, Task
<1>17. ASSUME NEW w \in Worker, Callback(w)
     PROVE  InitializeInv'
  <2> SUFFICES ASSUME "INITIALIZE" \notin called
               PROVE  InitializeFirst'
    BY <1>17 DEF Callback, InitializeInv
  <2>1. InitializeFirst /\ task[w] = "TERMINATE"
    BY <1>17 DEF InitializeInv, InitializeFirst, Callback
  <2>2. caller = "removed"
    BY <2>1, <1>17 DEF Callback, QueueInv
  <2>3. state' = "DESTROYED" /\ phase' = [phase EXCEPT ![w] = "top"]
    BY <2>1, <1>17 DEF Callback, Become, Completed
  <2> QED
    BY <2>1, <2>2, <2>3, <1>17 DEF Callback, InitializeFirst, TypeOK, Suspending
<1>18. ASSUME NEW w \in Worker, LoopTest(w)
     PROVE  InitializeInv'
  BY <1>18 DEF LoopTest, Become, TypeOK, Threads, QueueInv, Suspending, InitializeInv,
     InitializeFirst, Task
<1>19. ASSUME NEW w \in Worker, LoopEnter(w)
     PROVE  InitializeInv'
  BY <1>19 DEF LoopEnter, Become, TypeOK, Threads, QueueInv, Suspending, InitializeInv,
     InitializeFirst, Task
<1>20. ASSUME NEW w \in Worker, LoopReturn(w)
     PROVE  InitializeInv'
  BY <1>20 DEF LoopReturn, Become, TypeOK, Threads, QueueInv, Suspending, InitializeInv,
     InitializeFirst, Task
<1>21. ASSUME NEW w \in Worker, Throw(w)
     PROVE  InitializeInv'
  BY <1>21 DEF Throw, Become, TypeOK, Threads, QueueInv, Suspending, InitializeInv,
     InitializeFirst, Task
<1>22. CASE UNCHANGED vars
  BY <1>22 DEF vars, TypeOK, Threads, QueueInv, Suspending, InitializeInv, InitializeFirst, Task
<1> QED
  BY <1>1, <1>2, <1>3, <1>4, <1>5, <1>6, <1>7, <1>8, <1>9, <1>10, <1>11, <1>12, <1>13, <1>14,
     <1>15, <1>16, <1>17, <1>18, <1>19, <1>20, <1>21, <1>22, TakeSteps
  DEF Next, CallerGoesOn, WorkerStep

(* Until onResume returns, nobody suspends. *)
LEMMA ResumeStep == IInv /\ [Next]_vars => ResumeInv'
<1> SUFFICES ASSUME IInv, [Next]_vars
             PROVE  ResumeInv'
  OBVIOUS
<1> USE PluginAssumption DEF IInv, Worker, callerVars, workerVars
<1>1. CASE initialize
  BY <1>1 DEF initialize, StartWorker, TypeOK, Threads, QueueInv, Suspending, ResumeInv,
     ResumeFirst, LoopAfterResume, Task
<1>2. CASE resume
  <2> SUFFICES ASSUME "RESUME" \notin called
               PROVE  ResumeFirst'
    BY <1>2 DEF resume, ResumeInv
  <2>1. ResumeFirst
    BY DEF ResumeInv
  <2>2. /\ DOMAIN tasks = 1 .. Len(tasks) /\ DOMAIN tasks' = 1 .. Len(tasks) + 1 /\ Len(tasks) \in Nat
        /\ \A i \in 1 .. Len(tasks) : tasks'[i] = tasks[i]
        /\ tasks'[Len(tasks) + 1] = "RESUME"
    BY <1>2, AppendTask DEF resume, TypeOK, Task
  <2>3. LoopAfterResume => LoopAfterResume'
    BY <2>2 DEF LoopAfterResume
  <2>4. \A i \in DOMAIN tasks' : tasks'[i] # "SUSPEND"
    BY <2>1, <2>2 DEF ResumeFirst
  <2> QED
    BY <2>1, <2>3, <2>4, <1>2 DEF resume, ResumeFirst, Suspending
<1>3. CASE suspend
  BY <1>3 DEF suspend, Interrupt, TypeOK, Threads, QueueInv, Suspending, ResumeInv, ResumeFirst,
     LoopAfterResume, Task
<1>4. CASE terminate
  BY <1>4 DEF terminate, Interrupt, TypeOK, Threads, QueueInv, Suspending, ResumeInv,
     ResumeFirst, LoopAfterResume, Task
<1>5. CASE ResumePutLoop
  <2> SUFFICES ASSUME "RESUME" \notin called
               PROVE  ResumeFirst'
    BY <1>5 DEF ResumePutLoop, ResumeInv
  <2>1. ResumeFirst
    BY DEF ResumeInv
  <2>2. /\ DOMAIN tasks = 1 .. Len(tasks) /\ DOMAIN tasks' = 1 .. Len(tasks) + 1 /\ Len(tasks) \in Nat
        /\ \A i \in 1 .. Len(tasks) : tasks'[i] = tasks[i]
        /\ tasks'[Len(tasks) + 1] = "LOOP"
    BY <1>5, AppendTask DEF ResumePutLoop, TypeOK, Task
  <2>3. LoopAfterResume => LoopAfterResume'
    BY <2>2, <1>5 DEF LoopAfterResume, ResumePutLoop
  <2>4. \A i \in DOMAIN tasks' : tasks'[i] # "SUSPEND"
    BY <2>1, <2>2 DEF ResumeFirst
  <2> QED
    BY <2>1, <2>3, <2>4, <1>5 DEF ResumePutLoop, ResumeFirst, Suspending
<1>6. CASE Clear("suspend_clear", "suspend_set")
  BY <1>6 DEF Clear, TypeOK, Threads, QueueInv, Suspending, ResumeInv, ResumeFirst,
     LoopAfterResume, Task
<1>7. CASE SetState("suspend_set", "SUSPENDING", "suspend_put")
  BY <1>7 DEF SetState, TypeOK, Threads, QueueInv, Suspending, ResumeInv, ResumeFirst,
     LoopAfterResume, Task
<1>8. CASE SuspendPut
  BY <1>8 DEF SuspendPut, TypeOK, Threads, QueueInv, Suspending, ResumeInv, ResumeFirst,
     LoopAfterResume, Task
<1>9. CASE SuspendStart
  BY <1>9 DEF SuspendStart, StartWorker, TypeOK, Threads, QueueInv, Suspending, ResumeInv,
     ResumeFirst, LoopAfterResume, Task
<1>10. CASE Clear("terminate_clear", "terminate_set")
  BY <1>10 DEF Clear, TypeOK, Threads, QueueInv, Suspending, ResumeInv, ResumeFirst,
     LoopAfterResume, Task
<1>11. CASE SetState("terminate_set", "DESTROYING", "terminate_put")
  BY <1>11 DEF SetState, TypeOK, Threads, QueueInv, Suspending, ResumeInv, ResumeFirst,
     LoopAfterResume, Task
<1>12. CASE TerminatePut
  BY <1>12 DEF TerminatePut, TypeOK, Threads, QueueInv, Suspending, ResumeInv, ResumeFirst,
     LoopAfterResume, Task
<1>13. ASSUME NEW w \in Worker, Top(w)
     PROVE  ResumeInv'
  BY <1>13 DEF Top, Become, TypeOK, Threads, QueueInv, Suspending, ResumeInv, ResumeFirst,
     LoopAfterResume, Task
<1>14. ASSUME NEW w \in Worker, Get(w)
     PROVE  ResumeInv'
  <2> SUFFICES ASSUME "RESUME" \notin called
               PROVE  ResumeFirst'
    BY <1>14 DEF Get, Receive, ResumeInv
  <2>1. ResumeFirst
    BY DEF ResumeInv
  <2>2. LoopAfterResume
    BY <2>1, <1>14 DEF ResumeFirst, Get
  <2>3. /\ DOMAIN tasks = 1 .. Len(tasks) /\ DOMAIN tasks' = 1 .. Len(tasks) - 1
        /\ Len(tasks) \in Nat \ {0} /\ tasks[1] = Head(tasks) /\ Head(tasks) \in Task
        /\ \A i \in 1 .. Len(tasks) - 1 : tasks'[i] = tasks[i + 1]
    BY <1>14, HeadTail DEF Get, Receive, TypeOK
  <2>4. Head(tasks) \in {"INITIALIZE", "RESUME", "TERMINATE"}
    BY <2>1, <2>2, <2>3 DEF LoopAfterResume, ResumeFirst, Task
  <2>5. \A v \in Worker : v # w => phase[v] = "new"
    BY <2>1, <1>14 DEF Get, ResumeFirst, Threads, TypeOK
  <2>6. phase' = [phase EXCEPT ![w] = "call"] /\ task' = [task EXCEPT ![w] = Head(tasks)]
        /\ UNCHANGED <<state, started, caller>>
    BY <2>4, <1>14 DEF Get, Receive, Become
  <2>7. Head(tasks) # "RESUME" => LoopAfterResume'
    <3> SUFFICES ASSUME Head(tasks) # "RESUME"
                 PROVE  LoopAfterResume'
      OBVIOUS
    <3>1. ASSUME NEW i \in DOMAIN tasks', tasks'[i] = "LOOP"
          PROVE  \E j \in 1 .. i - 1 : tasks'[j] = "RESUME"
      <4>1. i + 1 \in DOMAIN tasks /\ tasks[i + 1] = "LOOP"
        BY <2>3, <3>1
      <4>2. PICK j \in 1 .. (i + 1) - 1 : tasks[j] = "RESUME"
        BY <2>2, <4>1 DEF LoopAfterResume
      <4>3. j - 1 \in 1 .. i - 1 /\ tasks'[j - 1] = "RESUME"
        BY <2>3, <4>1, <4>2
      <4> QED
        BY <4>3
    <3>2. ASSUME caller' = "loop"
          PROVE  \E j \in DOMAIN tasks' : tasks'[j] = "RESUME"
      <4>1. PICK j \in DOMAIN tasks : tasks[j] = "RESUME"
        BY <2>2, <2>6, <3>2 DEF LoopAfterResume
      <4>2. j - 1 \in DOMAIN tasks' /\ tasks'[j - 1] = "RESUME"
        BY <2>3, <4>1
      <4> QED
        BY <4>2
    <3> QED
      BY <3>1, <3>2 DEF LoopAfterResume
  <2>8. \A i \in DOMAIN tasks' : tasks'[i] # "SUSPEND"
    BY <2>1, <2>3 DEF ResumeFirst
  <2> QED
    BY <2>1, <2>4, <2>5, <2>6, <2>7, <2>8 DEF ResumeFirst, TypeOK
<1>15. ASSUME NEW w \in Worker, StayOrEnd(w)
     PROVE  ResumeInv'
  BY <1>15 DEF StayOrEnd, Become, TypeOK, Threads, QueueInv, Suspending, ResumeInv, ResumeFirst,
     LoopAfterResume, Task
<1>16. ASSUME NEW w \in Worker, Return(w)
     PROVE  ResumeInv'
  BY <1>16 DEF Return, Become, TypeOK, Threads, QueueInv, Suspending, ResumeInv, ResumeFirst,
     LoopAfterResume, Task
<1>17. ASSUME NEW w \in Worker, Callback(w)
     PROVE  ResumeInv'
  BY <1>17 DEF Callback, Become, Completed, TypeOK, Threads, QueueInv, Suspending, ResumeInv,
     ResumeFirst, LoopAfterResume, Task
<1>18. ASSUME NEW w \in Worker, LoopTest(w)
     PROVE  ResumeInv'
  BY <1>18 DEF LoopTest, Become, TypeOK, Threads, QueueInv, Suspending, ResumeInv, ResumeFirst,
     LoopAfterResume, Task
<1>19. ASSUME NEW w \in Worker, LoopEnter(w)
     PROVE  ResumeInv'
  BY <1>19 DEF LoopEnter, Become, TypeOK, Threads, QueueInv, Suspending, ResumeInv, ResumeFirst,
     LoopAfterResume, Task
<1>20. ASSUME NEW w \in Worker, LoopReturn(w)
     PROVE  ResumeInv'
  BY <1>20 DEF LoopReturn, Become, TypeOK, Threads, QueueInv, Suspending, ResumeInv, ResumeFirst,
     LoopAfterResume, Task
<1>21. ASSUME NEW w \in Worker, Throw(w)
     PROVE  ResumeInv'
  BY <1>21 DEF Throw, Become, TypeOK, Threads, QueueInv, Suspending, ResumeInv, ResumeFirst,
     LoopAfterResume, Task
<1>22. CASE UNCHANGED vars
  BY <1>22 DEF vars, TypeOK, Threads, QueueInv, Suspending, ResumeInv, ResumeFirst,
     LoopAfterResume, Task
<1> QED
  BY <1>1, <1>2, <1>3, <1>4, <1>5, <1>6, <1>7, <1>8, <1>9, <1>10, <1>11, <1>12, <1>13, <1>14,
     <1>15, <1>16, <1>17, <1>18, <1>19, <1>20, <1>21, <1>22, TakeSteps
  DEF Next, CallerGoesOn, WorkerStep

-----------------------------------------------------------------------------
(* The theorems *)

(* In every reachable state of the handler all parts of the invariant hold together. *)
THEOREM Invariant == Spec => []IInv
<1>1. Init => IInv
  BY PluginAssumption DEF Init, IInv, TypeOK, Threads, OneWorkerGoesOn, LateInv, QueueInv,
     InitializeInv, InitializeFirst, ResumeInv, ResumeFirst, LoopAfterResume, Suspending,
     Worker, Task, PluginState
<1>2. IInv /\ [Next]_vars => IInv'
  BY TypeStep, ThreadsStep, OneWorkerStep, LateStep, QueueStep, InitializeStep, ResumeStep
  DEF IInv
<1> QED
  BY <1>1, <1>2, PTL DEF Spec

(* The variables have their types; in particular a callback reports only states that the
   handler knows. *)
THEOREM PluginTypeCorrect == Spec => []TypeOK
BY Invariant, PTL DEF IInv

(* However many times the plugin is suspended and resumed, at most one worker has not been
   told to stop (PluginLifecycleHandler.suspend, terminate). *)
THEOREM OneWorker == Spec => []OneWorkerGoesOn
BY Invariant, PTL DEF IInv

(* onResume is called after onInitialize has returned, loop() and onSuspend after onResume has
   (PluginLifecycleHandler.initialize, resume, suspend), although resume is accepted
   while onInitialize runs and two workers may share the queue. *)
THEOREM MethodsInOrder == Spec => []CallsInOrder
<1>1. IInv => CallsInOrder
  BY DEF IInv, CallsInOrder, InitializeInv, InitializeFirst, ResumeInv, ResumeFirst
<1> QED
  BY <1>1, Invariant, PTL

(* An interrupted worker begins at most one more call of loop(). *)
THEOREM OneLateLoop == Spec => []AtMostOneLateLoop
<1>1. IInv => AtMostOneLateLoop
  BY DEF IInv, AtMostOneLateLoop, LateInv, TypeOK
<1> QED
  BY <1>1, Invariant, PTL
=============================================================================
