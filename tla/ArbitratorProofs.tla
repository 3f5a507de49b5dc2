--------------------------- MODULE ArbitratorProofs ---------------------------
(***************************************************************************)
(* Proofs about Arbitrator and TrajectoryExecutor, for any number of       *)
(* trajectories, changes of the guidance state and failures.               *)
(***************************************************************************)
EXTENDS Arbitrator, SequenceTheorems, TLAPS

(* Every thread is at a place of its own code. *)
ThreadType ==
    /\ pc = [th \in Thread |-> pc[th]]
    /\ pc["route"] \in {"idle", "swap", "swap_read", "swap_set", "swap_clear", "swap_reset",
                        "callbacks", "pct", "each", "progress", "mark", "failure", "event",
                        "look", "read", "notify", "dead"}
    /\ pc["executor"] \in {"idle", "engage_run", "engaged", "run", "run_set", "run_reset",
                           "run_queue", "abort", "abort_next", "restart", "restart_callbacks",
                           "restart_done"}
    /\ pc["arbitrator"] \in {"idle", "event", "look", "read", "notify", "plan", "register",
                             "submit", "run", "run_set", "run_reset", "run_queue", "abort", "abort_next",
                             "planned", "dead"}
    /\ pc["other"] \in {"idle", "event", "look", "read", "notify"}

(* The state machine and the jobs of both components. *)
Alert == {"TRAJECTORY_COMPLETION_ALERT", "COMPLEX_TRAJECTORY_COMPLETION_ALERT",
          "TRAJECTORY_FAILED_EXECUTION"}

Job == Planning \cup {"ENGAGE", "RESTART"}

MachineType ==
    /\ machine \in MachineState /\ seen \in [Thread -> MachineState]
    /\ DOMAIN event = Thread
    /\ event["arbitrator"] \in {"NONE", "INITIALIZE", "CLEAN_RESTART",
                                "FINISHED_TRAJECTORY_PLANNING"}
    /\ event["route"] \in Alert \cup {"NONE"} /\ event["other"] \in Alert \cup {"NONE"}
    /\ job \in Planning \cup {"NONE"}
    /\ pc["arbitrator"] = "plan" => job \in Planning
    /\ exState \in {"ACTIVE", "ENGAGED", "INACTIVE", "DRIVERS_READY"}
    /\ guidance \in {"ACTIVE", "ENGAGED", "INACTIVE", "DRIVERS_READY"}

JobType ==
    /\ arbJobs \in Seq(Job)
    /\ exJobs \in Seq({"ENGAGE", "RESTART", "ACTIVATE", "DEACTIVATE"})

(* The trajectories in all hands have been planned. *)
PlanType ==
    /\ plans \in 0 .. MaxPlans
    /\ currentTrajectory \in 0 .. plans /\ bufferedTrajectoryRunning \in BOOLEAN
    /\ current \in 0 .. plans /\ next \in 0 .. plans /\ timeSteps \in 0 .. 3
    /\ traj \in [Thread -> 0 .. plans]
    /\ shape \in [Trajectory -> {"plain", "complex", "last", "steadying"}]
    /\ covered \in [Trajectory -> Percent] /\ pct \in Percent
    /\ changes \in 0 .. MaxChanges /\ failures \in 0 .. MaxFailures

(* A callback as it is kept in the list. *)
Callback == [pct : {75, 95}, called : BOOLEAN, live : BOOLEAN]

CallbackType ==
    /\ callbacks \in Seq(Callback)
    /\ left \subseteq DOMAIN callbacks /\ at \in 0 .. Len(callbacks)

(* The job thread of the arbitrator is at work on a plan, or about to report that it is done. *)
AtWork ==
    \/ pc["arbitrator"] \in {"plan", "register", "submit", "run", "run_set", "run_reset",
                             "run_queue", "abort", "abort_next", "planned", "dead"}
    \/ /\ pc["arbitrator"] = "event"
       /\ event["arbitrator"] = "FINISHED_TRAJECTORY_PLANNING"

(* A thread will find out that a plan is wanted, or has found out and will queue a job. *)
WillQueue ==
    \E th \in Thread : \/ pc[th] = "look" /\ seen[th] \notin Planning
                       \/ pc[th] = "read"
                       \/ pc[th] = "notify" /\ seen[th] \in Planning

Queued == \E i \in DOMAIN arbJobs : arbJobs[i] \in Planning

PlannerInv == machine \in Planning => Queued \/ WillQueue \/ AtWork \/ RouteDone

(* What the arbitrator is about to hand over is newer than all that the executor has. *)
NewestInv ==
    traj["arbitrator"] # None /\ pc["arbitrator"] # "run_reset" =>
        /\ current < traj["arbitrator"] /\ next < traj["arbitrator"]
        /\ currentTrajectory < traj["arbitrator"]
        /\ traj["route"] < traj["arbitrator"] /\ traj["executor"] < traj["arbitrator"]

(* Guidance has been engaged once at most, and no other thread has reported a failure. *)
First == changes <= 1 /\ failures = 0

(* The initial planning is not done yet. *)
Ahead ==
    \/ changes = 0
    \/ \E i \in DOMAIN arbJobs : arbJobs[i] \in {"ENGAGE", "INITIAL_PLANNING"}
    \/ pc["arbitrator"] \in {"event", "look", "read", "notify"} /\ event["arbitrator"] = "INITIALIZE"
    \/ pc["arbitrator"] = "plan" /\ job = "INITIAL_PLANNING"

(* It is done once: before it nothing happens, and after it nobody sees INITIAL_PLANNING as a
   new state. *)
StartInv ==
    First =>
    /\ pc["other"] = "idle"
    /\ changes = 0 => arbJobs = <<>> /\ pc["arbitrator"] = "idle" /\ machine = "INIT"
    /\ Ahead => plans = 0 /\ pc["route"] = "idle" /\ Len(arbJobs) <= 1
    /\ Ahead /\ pc["arbitrator"] # "idle" => arbJobs = <<>>
    /\ ~Ahead => \A th \in Thread :
          /\ pc[th] = "notify" => seen[th] # "INITIAL_PLANNING"
          /\ pc[th] = "read" => machine # "INITIAL_PLANNING"
          /\ pc[th] = "look" /\ machine = "INITIAL_PLANNING" => seen[th] = "INITIAL_PLANNING"

(* In the first engagement the executor is done with its one job before the arbitrator runs a
   trajectory, and nothing runs before that but the trajectory it kept. *)
ExecutorInv ==
    First =>
    /\ Len(exJobs) <= 1 /\ (changes = 0 \/ pc["executor"] # "idle" => exJobs = <<>>)
    /\ changes = 0 => pc["executor"] = "idle" /\ exState # "ENGAGED"
    /\ exState = "ENGAGED" => pc["executor"] = "idle" /\ exJobs = <<>>
    /\ pc["arbitrator"] \in {"run", "run_set", "run_reset", "run_queue"} => exState = "ENGAGED"
    /\ exState # "ENGAGED" =>
          /\ next = None /\ traj["route"] = None
          /\ pc["executor"] \notin {"run_reset", "engaged"} => current = None
    /\ pc["executor"] # "run_queue"

(* The arbitrator finds the buffer empty when it finds that nothing runs, but for what a swap is
   about to clear. *)
BufferInv ==
    First =>
    /\ pc["arbitrator"] \in {"register", "submit", "run"} /\ current = None /\ next # None
          => pc["route"] = "swap_clear"
    /\ pc["arbitrator"] = "run_set" /\ next # None => pc["route"] = "swap_clear"

IInv == /\ ThreadType /\ MachineType /\ JobType /\ PlanType /\ CallbackType /\ PlannerInv
        /\ NewestInv /\ StartInv /\ ExecutorInv /\ BufferInv /\ BufferIsNewer

(* t has not begun to be executed, and will not be unless its holder hands it over. *)
Unstarted(t) == covered[t] = 0 /\ t \notin {current, next, traj["route"]}

(* Of a trajectory that is handed over, buffered, or read for a swap, nothing is covered: only
   the current one is, and only between two swaps. *)
FreshInv ==
    /\ \A t \in Trajectory : t > plans => covered[t] = 0
    /\ traj["arbitrator"] # None /\ pc["arbitrator"] # "run_reset" => covered[traj["arbitrator"]] = 0
    /\ next # None => covered[next] = 0 /\ (next = current => pc["route"] = "swap_clear")
    /\ traj["route"] # None => covered[traj["route"]] = 0 /\ pc["route"] = "swap_set"

(* The trajectory kept while Guidance was not engaged is run once: when the executor's thread is
   done with it, bufferedTrajectoryRunning is set. *)
KeptInv ==
    /\ currentTrajectory # None =>
          \/ bufferedTrajectoryRunning /\ pc["executor"] # "engage_run"
          \/ pc["executor"] \in {"run", "run_set", "run_queue", "run_reset"}
          \/ Unstarted(currentTrajectory)
    /\ traj["executor"] # None /\ pc["executor"] # "run_reset" => Unstarted(traj["executor"])

-----------------------------------------------------------------------------
(* Sequences *)

(* Taking the first entry out of a queue. *)
LEMMA TakeHead ==
    ASSUME NEW S, NEW q \in Seq(S), q # <<>>
    PROVE  /\ Head(q) = q[1] /\ Head(q) \in S /\ 1 \in DOMAIN q
           /\ Tail(q) \in Seq(S) /\ Len(Tail(q)) = Len(q) - 1 /\ Len(q) \in Nat
           /\ Len(q) <= 1 => Tail(q) = <<>>
           /\ \A i \in DOMAIN Tail(q) : i + 1 \in DOMAIN q /\ Tail(q)[i] = q[i + 1]
           /\ \A i \in DOMAIN q : i # 1 => i - 1 \in DOMAIN Tail(q) /\ Tail(q)[i - 1] = q[i]
OBVIOUS

(* Putting an entry into a queue. *)
LEMMA PutLast ==
    ASSUME NEW S, NEW q \in Seq(S), NEW e \in S
    PROVE  /\ Append(q, e) \in Seq(S) /\ Len(Append(q, e)) = Len(q) + 1 /\ Len(q) \in Nat
           /\ \A i \in DOMAIN q : i \in DOMAIN Append(q, e) /\ Append(q, e)[i] = q[i]
           /\ Len(q) + 1 \in DOMAIN Append(q, e) /\ Append(q, e)[Len(q) + 1] = e
           /\ \A i \in DOMAIN Append(q, e) : i \in DOMAIN q \/ Append(q, e)[i] = e
OBVIOUS

(* Changing the entries of a sequence. *)
LEMMA SameLength ==
    ASSUME NEW S, NEW q \in Seq(S), NEW f \in [DOMAIN q -> S]
    PROVE  f \in Seq(S) /\ Len(f) = Len(q) /\ DOMAIN f = DOMAIN q
<1>1. DOMAIN q = 1 .. Len(q) /\ Len(q) \in Nat
  BY LenProperties
<1>2. f \in [1 .. Len(q) -> S] /\ DOMAIN f = 1 .. Len(q)
  BY <1>1
<1>3. f \in Seq(S)
  BY <1>1, <1>2, SeqDef
<1>4. DOMAIN f = 1 .. Len(f) /\ Len(f) \in Nat
  BY <1>3, LenProperties
<1> QED
  BY <1>1, <1>2, <1>3, <1>4

-----------------------------------------------------------------------------
(* What some of the steps do *)

(* The reset of the flags, the end of all registrations and the mark on a callback keep the list. *)
LEMMA CallbacksKept ==
    ASSUME callbacks \in Seq(Callback),
           \/ callbacks' = Reset
           \/ callbacks' = [i \in DOMAIN callbacks |-> [callbacks[i] EXCEPT !.live = FALSE]]
           \/ callbacks' = [callbacks EXCEPT ![at].called = TRUE]
    PROVE  /\ callbacks' \in Seq(Callback) /\ Len(callbacks') = Len(callbacks)
           /\ DOMAIN callbacks' = DOMAIN callbacks
<1>1. \A i \in DOMAIN callbacks : callbacks[i] \in Callback
  BY LenProperties, ElementOfSeq
<1>2. callbacks' \in [DOMAIN callbacks -> Callback]
  <2>1. \A c \in Callback : /\ [c EXCEPT !.called = FALSE] \in Callback
                            /\ [c EXCEPT !.called = TRUE] \in Callback
                            /\ [c EXCEPT !.live = FALSE] \in Callback
    BY DEF Callback
  <2>2. CASE callbacks' = Reset
    BY <1>1, <2>1, <2>2 DEF Reset
  <2>3. CASE callbacks' = [i \in DOMAIN callbacks |-> [callbacks[i] EXCEPT !.live = FALSE]]
    BY <1>1, <2>1, <2>3
  <2>4. CASE callbacks' = [callbacks EXCEPT ![at].called = TRUE]
    <3>1. callbacks' = [i \in DOMAIN callbacks |->
                          IF i = at THEN [callbacks[i] EXCEPT !.called = TRUE] ELSE callbacks[i]]
      BY <2>4
    <3> QED
      BY <1>1, <2>1, <3>1
  <2> QED
    BY <2>2, <2>3, <2>4
<1> QED
  BY <1>2, SameLength

(* What the executor's thread does with a job. *)
LEMMA ExecutorJob ==
    ASSUME ThreadType, JobType, TakeExecutorJob
    PROVE  /\ pc["executor"] = "idle" /\ exJobs # <<>> /\ exJobs' = Tail(exJobs)
           /\ \/ /\ exState' = exState
                 /\ \/ pc' = [pc EXCEPT !["executor"] = "engage_run"]
                    \/ pc' = [pc EXCEPT !["executor"] = "engaged"]
              \/ /\ exState' \in {"ACTIVE", "INACTIVE", "DRIVERS_READY"}
                 /\ pc' = pc \/ pc' = [pc EXCEPT !["executor"] = "abort"]
           /\ pc'["executor"] = "engage_run" => ~bufferedTrajectoryRunning
<1>1. pc["executor"] = "idle" /\ exJobs # <<>> /\ exJobs' = Tail(exJobs)
  BY DEF TakeExecutorJob
<1>2. Head(exJobs) \in {"ENGAGE", "RESTART", "ACTIVATE", "DEACTIVATE"}
  BY <1>1, TakeHead DEF JobType
<1>3. CASE Head(exJobs) = "ENGAGE"
  BY <1>1, <1>3 DEF TakeExecutorJob, Go, ThreadType, Thread
<1>4. CASE Head(exJobs) = "RESTART"
  BY <1>1, <1>4 DEF TakeExecutorJob, Go, ThreadType, Thread
<1>5. CASE Head(exJobs) = "ACTIVATE"
  BY <1>1, <1>5 DEF TakeExecutorJob, Go, ThreadType, Thread
<1>6. CASE Head(exJobs) = "DEACTIVATE"
  BY <1>1, <1>6 DEF TakeExecutorJob, Go, ThreadType, Thread
<1> QED
  BY <1>2, <1>3, <1>4, <1>5, <1>6

(* What the arbitrator's thread does with a job. *)
LEMMA ArbitratorJob ==
    ASSUME JobType, TakeArbitratorJob
    PROVE  /\ pc["arbitrator"] = "idle" /\ arbJobs # <<>> /\ arbJobs' = Tail(arbJobs)
           /\ \/ /\ Head(arbJobs) = "ENGAGE" /\ job' = job
                 /\ event' = [event EXCEPT !["arbitrator"] = "INITIALIZE"]
                 /\ pc' = [pc EXCEPT !["arbitrator"] = "event"]
              \/ /\ Head(arbJobs) = "RESTART" /\ job' = job
                 /\ event' = [event EXCEPT !["arbitrator"] = "CLEAN_RESTART"]
                 /\ pc' = [pc EXCEPT !["arbitrator"] = "event"]
              \/ /\ Head(arbJobs) \in Planning /\ job' = Head(arbJobs) /\ event' = event
                 /\ pc' = [pc EXCEPT !["arbitrator"] = "plan"]
<1>1. pc["arbitrator"] = "idle" /\ arbJobs # <<>> /\ arbJobs' = Tail(arbJobs)
  BY DEF TakeArbitratorJob
<1>2. Head(arbJobs) \in Job
  BY <1>1, TakeHead DEF JobType
<1>3. CASE Head(arbJobs) = "ENGAGE"
  BY <1>1, <1>3 DEF TakeArbitratorJob, Raise, Go
<1>4. CASE Head(arbJobs) = "RESTART"
  BY <1>1, <1>4 DEF TakeArbitratorJob, Raise, Go
<1>5. CASE Head(arbJobs) \in Planning
  <2>1. Head(arbJobs) # "ENGAGE" /\ Head(arbJobs) # "RESTART"
    BY <1>5 DEF Planning
  <2> QED
    BY <1>1, <1>5, <2>1 DEF TakeArbitratorJob, Go
<1> QED
  BY <1>2, <1>3, <1>4, <1>5 DEF Job

(* Where an event takes the state machine. *)
LEMMA SuccessorOf ==
    ASSUME NEW s \in MachineState, NEW e
    PROVE  /\ Successor(s, e) \in MachineState
           /\ Successor(s, e) \in Planning =>
                \/ s \notin Planning
                \/ Successor(s, e) = s /\ e # "FINISHED_TRAJECTORY_PLANNING"
           /\ Successor(s, e) = "INITIAL_PLANNING" =>
                s = "INITIAL_PLANNING" \/ e = "INITIALIZE"
<1>1. CASE e = "CLEAN_RESTART"
  BY <1>1 DEF Successor, MachineState, Planning
<1>2. CASE e # "CLEAN_RESTART" /\ s = "INIT"
  BY <1>2 DEF Successor, MachineState, Planning
<1>3. CASE e # "CLEAN_RESTART" /\ s = "AWAITING_REPLAN"
  BY <1>3 DEF Successor, MachineState, Planning
<1>4. CASE e # "CLEAN_RESTART" /\ s \in Planning
  <2>1. s # "INIT" /\ s # "AWAITING_REPLAN"
    BY <1>4 DEF Planning
  <2>2. Successor(s, e) = IF e = "FINISHED_TRAJECTORY_PLANNING" THEN "AWAITING_REPLAN" ELSE s
    BY <1>4, <2>1 DEF Successor
  <2> QED
    BY <1>4, <2>2 DEF MachineState, Planning
<1> QED
  BY <1>1, <1>2, <1>3, <1>4 DEF MachineState

(* A change of the guidance state queues a job for the executor, and perhaps for the arbitrator. *)
LEMMA GuidanceJobs ==
    ASSUME MachineType, GuidanceChange
    PROVE  /\ guidance' \in {"ACTIVE", "ENGAGED", "INACTIVE", "DRIVERS_READY"}
           /\ \E j \in {"ENGAGE", "RESTART", "ACTIVATE", "DEACTIVATE"} :
                exJobs' = Append(exJobs, j)
           /\ \/ arbJobs' = arbJobs
              \/ \E j \in {"ENGAGE", "RESTART"} : arbJobs' = Append(arbJobs, j)
<1>1. PICK s \in Lifecycle!Successor[guidance] \ {"SHUTDOWN"} :
          /\ guidance' = s
          /\ exJobs' = Append(exJobs, ActionTo(s))
          /\ arbJobs' = IF s \in {"ENGAGED", "DRIVERS_READY"}
                        THEN Append(arbJobs, ActionTo(s)) ELSE arbJobs
  BY DEF GuidanceChange
<1>2. guidance \in {"ACTIVE", "ENGAGED", "INACTIVE", "DRIVERS_READY"}
  BY DEF MachineType
<1>3. s \in {"ACTIVE", "ENGAGED", "INACTIVE", "DRIVERS_READY"}
  <2>1. guidance \in Lifecycle!State
    BY <1>2 DEF Lifecycle!State
  <2>2. CASE guidance = "ACTIVE"
    BY <1>1, <2>1, <2>2 DEF Lifecycle!Successor
  <2>3. CASE guidance = "ENGAGED"
    BY <1>1, <2>1, <2>3 DEF Lifecycle!Successor
  <2>4. CASE guidance = "INACTIVE"
    BY <1>1, <2>1, <2>4 DEF Lifecycle!Successor
  <2>5. CASE guidance = "DRIVERS_READY"
    BY <1>1, <2>1, <2>5 DEF Lifecycle!Successor
  <2> QED
    BY <1>2, <2>2, <2>3, <2>4, <2>5
<1>4. /\ ActionTo(s) \in {"ENGAGE", "RESTART", "ACTIVATE", "DEACTIVATE"}
      /\ s \in {"ENGAGED", "DRIVERS_READY"} => ActionTo(s) \in {"ENGAGE", "RESTART"}
  BY <1>3 DEF ActionTo
<1> QED
  BY <1>1, <1>3, <1>4

(* The progress is a percentage that the code tells from less, and never decreases. *)
LEMMA Progress ==
    ASSUME PlanType, CallbackType, RouteState
    PROVE  \E p \in {75, 95, 100} :
              /\ current \in Trajectory /\ p >= covered[current]
              /\ covered' = [covered EXCEPT ![current] = p]
              /\ pc' = [pc EXCEPT !["route"] = IF p = 100 THEN "swap" ELSE "callbacks"]
<1>1. \A i \in DOMAIN callbacks : callbacks[i].pct \in {75, 95}
  <2>1. \A i \in DOMAIN callbacks : callbacks[i] \in Callback
    BY LenProperties, ElementOfSeq DEF CallbackType
  <2> QED
    BY <2>1 DEF Callback
<1>2. Milestones \subseteq {75, 95, 100}
  BY <1>1 DEF Milestones, Live
<1>3. current \in Trajectory
  BY PlansAssumption DEF RouteState, PlanType, Trajectory, None
<1>4. PICK p \in {q \in Milestones : q >= covered[current]} :
         /\ covered' = [covered EXCEPT ![current] = p]
         /\ Go("route", IF p = 100 THEN "swap" ELSE "callbacks")
  BY DEF RouteState
<1>5. p \in {75, 95, 100} /\ p >= covered[current]
  BY <1>2, <1>4
<1> DEFINE To(x) == /\ current \in Trajectory /\ x >= covered[current]
                    /\ covered' = [covered EXCEPT ![current] = x]
                    /\ pc' = [pc EXCEPT !["route"] = IF x = 100 THEN "swap" ELSE "callbacks"]
<1>6. To(p)
  BY <1>3, <1>4, <1>5 DEF Go
<1> SUFFICES \E x \in {75, 95, 100} : To(x)
  OBVIOUS
<1> HIDE DEF To
<1> QED
  BY <1>5, <1>6

(* The vehicle does not get away from the end of the route. *)
LEMMA RouteStaysDone ==
    ASSUME PlanType, CallbackType, RouteState, RouteDone, UNCHANGED <<plans, shape>>
    PROVE  RouteDone'
<1>1. PICK t \in 1 .. plans : shape[t] = "last" /\ covered[t] = 100
  BY DEF RouteDone
<1>2. PICK p \in {75, 95, 100} :
         /\ current \in Trajectory /\ p >= covered[current]
         /\ covered' = [covered EXCEPT ![current] = p]
  BY Progress
<1>3. t \in Trajectory /\ covered \in [Trajectory -> Percent]
  BY PlansAssumption DEF PlanType, Trajectory
<1>4. covered'[t] = 100
  <2>1. CASE t = current
    BY <1>1, <1>2, <1>3, <2>1
  <2>2. CASE t # current
    BY <1>1, <1>2, <1>3, <2>2
  <2> QED
    BY <2>1, <2>2
<1> QED
  BY <1>1, <1>4 DEF RouteDone

-----------------------------------------------------------------------------
(* Every part of the invariant is preserved by every step *)

(* Every thread keeps to its own code. *)
LEMMA ThreadStep == IInv /\ [Next]_vars => ThreadType'
<1> SUFFICES ASSUME IInv, [Next]_vars
             PROVE  ThreadType'
  OBVIOUS
<1> USE PlansAssumption, ArbitratorAssumption
    DEF IInv, Thread, None, Go, Raise, executorVars, bufferVars, planVars, routeVars,
       machineVars, guidanceVars, executorAll, arbitratorAll
<1>1. CASE TakeExecutorJob /\ UNCHANGED arbitratorAll
  <2>1. /\ pc["executor"] = "idle" /\ exJobs # <<>> /\ exJobs' = Tail(exJobs)
        /\ \/ /\ exState' = exState
              /\ \/ pc' = [pc EXCEPT !["executor"] = "engage_run"]
                 \/ pc' = [pc EXCEPT !["executor"] = "engaged"]
           \/ /\ exState' \in {"ACTIVE", "INACTIVE", "DRIVERS_READY"}
              /\ pc' = pc \/ pc' = [pc EXCEPT !["executor"] = "abort"]
    BY <1>1, ExecutorJob
  <2>2. UNCHANGED <<currentTrajectory, bufferedTrajectoryRunning, bufferVars, callbacks, planVars, traj, routeVars, arbitratorAll>>
    BY <1>1 DEF TakeExecutorJob
  <2> QED
    BY <2>1, <2>2 DEF ThreadType
<1>2. CASE EngageRun /\ UNCHANGED arbitratorAll
  BY <1>2 DEF EngageRun, ThreadType
<1>3. CASE Engaged /\ UNCHANGED arbitratorAll
  BY <1>3 DEF Engaged, ThreadType
<1>4. CASE CleanRestart /\ UNCHANGED arbitratorAll
  BY <1>4 DEF CleanRestart, ThreadType
<1>5. CASE UnregisterAll /\ UNCHANGED arbitratorAll
  BY <1>5 DEF UnregisterAll, ThreadType
<1>6. CASE RestartDone /\ UNCHANGED arbitratorAll
  BY <1>6 DEF RestartDone, ThreadType
<1>7. ASSUME NEW th \in {"executor", "arbitrator"}, Run(th), UNCHANGED arbitratorAll
     PROVE  ThreadType'
  BY <1>7 DEF Run, ThreadType
<1>8. ASSUME NEW th \in {"executor", "arbitrator"}, RunSet(th), UNCHANGED arbitratorAll
     PROVE  ThreadType'
  BY <1>8 DEF RunSet, ThreadType
<1>9. ASSUME NEW th \in {"executor", "arbitrator"}, RunReset(th), UNCHANGED arbitratorAll
     PROVE  ThreadType'
  BY <1>9 DEF RunReset, RunDone, Reset, ThreadType
<1>10. ASSUME NEW th \in {"executor", "arbitrator"}, RunQueue(th), UNCHANGED arbitratorAll
     PROVE  ThreadType'
  BY <1>10 DEF RunQueue, RunDone, ThreadType
<1>11. ASSUME NEW th \in {"executor", "arbitrator"}, Abort(th), UNCHANGED arbitratorAll
     PROVE  ThreadType'
  BY <1>11 DEF Abort, ThreadType
<1>12. ASSUME NEW th \in {"executor", "arbitrator"}, AbortNext(th), UNCHANGED arbitratorAll
     PROVE  ThreadType'
  BY <1>12 DEF AbortNext, ThreadType
<1>13. CASE Submit /\ UNCHANGED arbitratorAll
  BY <1>13 DEF Submit, ThreadType
<1>14. CASE RouteState /\ UNCHANGED arbitratorAll
  BY <1>14 DEF RouteState, Milestones, ThreadType
<1>15. CASE Swap /\ UNCHANGED arbitratorAll
  BY <1>15 DEF Swap, ThreadType
<1>16. CASE SwapRead /\ UNCHANGED arbitratorAll
  BY <1>16 DEF SwapRead, ThreadType
<1>17. CASE SwapSet /\ UNCHANGED arbitratorAll
  BY <1>17 DEF SwapSet, ThreadType
<1>18. CASE SwapClear /\ UNCHANGED arbitratorAll
  BY <1>18 DEF SwapClear, ThreadType
<1>19. CASE SwapReset /\ UNCHANGED arbitratorAll
  BY <1>19 DEF SwapReset, Reset, ThreadType
<1>20. CASE Snapshot /\ UNCHANGED arbitratorAll
  BY <1>20 DEF Snapshot, Live, ThreadType
<1>21. CASE CompletionPct /\ UNCHANGED arbitratorAll
  BY <1>21 DEF CompletionPct, ThreadType
<1>22. CASE Each /\ UNCHANGED arbitratorAll
  BY <1>22 DEF Each, ThreadType
<1>23. CASE Mark /\ UNCHANGED arbitratorAll
  BY <1>23 DEF Mark, ThreadType
<1>24. ASSUME NEW th \in {"route", "arbitrator", "other"}, Event(th)
     PROVE  ThreadType'
  BY <1>24 DEF Event, ThreadType
<1>25. ASSUME NEW th \in {"route", "arbitrator", "other"}, Look(th)
     PROVE  ThreadType'
  BY <1>25 DEF Look, After, ThreadType
<1>26. ASSUME NEW th \in {"route", "arbitrator", "other"}, Read(th)
     PROVE  ThreadType'
  BY <1>26 DEF Read, ThreadType
<1>27. ASSUME NEW th \in {"route", "arbitrator", "other"}, Notify(th)
     PROVE  ThreadType'
  BY <1>27 DEF Notify, After, ThreadType
<1>28. CASE TakeArbitratorJob
  BY <1>28 DEF TakeArbitratorJob, ThreadType
<1>29. CASE PlanNothing
  BY <1>29 DEF PlanNothing, ThreadType
<1>30. CASE PlanAfterRoute
  BY <1>30 DEF PlanAfterRoute, ThreadType
<1>31. CASE PlanThrows
  BY <1>31 DEF PlanThrows, ThreadType
<1>32. CASE Plan
  BY <1>32 DEF Plan, ToPlan, ThreadType
<1>33. CASE Register
  BY <1>33 DEF Register, register, ThreadType
<1>34. CASE Planned
  BY <1>34 DEF Planned, ThreadType
<1>35. CASE OnProgress
  BY <1>35 DEF OnProgress, register, ThreadType
<1>36. CASE Failure
  BY <1>36 DEF Failure, ThreadType
<1>37. CASE notifyTrajectoryFailure
  BY <1>37 DEF notifyTrajectoryFailure, ThreadType
<1>38. CASE GuidanceChange
  BY <1>38 DEF GuidanceChange, ThreadType
<1>39. CASE UNCHANGED vars
  BY <1>39 DEF vars, ThreadType
<1> QED
  BY <1>1, <1>2, <1>3, <1>4, <1>5, <1>6, <1>7, <1>8, <1>9, <1>10, <1>11, <1>12, <1>13, <1>14,
     <1>15, <1>16, <1>17, <1>18, <1>19, <1>20, <1>21, <1>22, <1>23, <1>24, <1>25, <1>26, <1>27,
     <1>28, <1>29, <1>30, <1>31, <1>32, <1>33, <1>34, <1>35, <1>36, <1>37, <1>38, <1>39
  DEF Next, Executor, Route, ArbitratorThread, Other, ExecutorThread, RouteThread, processEvent

(* The state machine keeps to its states. *)
LEMMA MachineStep == IInv /\ [Next]_vars => MachineType'
<1> SUFFICES ASSUME IInv, [Next]_vars
             PROVE  MachineType'
  OBVIOUS
<1> USE PlansAssumption, ArbitratorAssumption
    DEF IInv, Thread, None, Go, Raise, executorVars, bufferVars, planVars, routeVars,
       machineVars, guidanceVars, executorAll, arbitratorAll
<1>1. CASE TakeExecutorJob /\ UNCHANGED arbitratorAll
  <2>1. /\ pc["executor"] = "idle" /\ exJobs # <<>> /\ exJobs' = Tail(exJobs)
        /\ \/ /\ exState' = exState
              /\ \/ pc' = [pc EXCEPT !["executor"] = "engage_run"]
                 \/ pc' = [pc EXCEPT !["executor"] = "engaged"]
           \/ /\ exState' \in {"ACTIVE", "INACTIVE", "DRIVERS_READY"}
              /\ pc' = pc \/ pc' = [pc EXCEPT !["executor"] = "abort"]
    BY <1>1, ExecutorJob
  <2>2. UNCHANGED <<currentTrajectory, bufferedTrajectoryRunning, bufferVars, callbacks, planVars, traj, routeVars, arbitratorAll>>
    BY <1>1 DEF TakeExecutorJob
  <2> QED
    BY <2>1, <2>2 DEF MachineType, ThreadType
<1>2. CASE EngageRun /\ UNCHANGED arbitratorAll
  BY <1>2 DEF EngageRun, MachineType, ThreadType, MachineState, Planning, Alert
<1>3. CASE Engaged /\ UNCHANGED arbitratorAll
  BY <1>3 DEF Engaged, MachineType, ThreadType, MachineState, Planning, Alert
<1>4. CASE CleanRestart /\ UNCHANGED arbitratorAll
  BY <1>4 DEF CleanRestart, MachineType, ThreadType, MachineState, Planning, Alert
<1>5. CASE UnregisterAll /\ UNCHANGED arbitratorAll
  BY <1>5 DEF UnregisterAll, MachineType, ThreadType, MachineState, Planning, Alert
<1>6. CASE RestartDone /\ UNCHANGED arbitratorAll
  BY <1>6 DEF RestartDone, MachineType, ThreadType, MachineState, Planning, Alert
<1>7. ASSUME NEW th \in {"executor", "arbitrator"}, Run(th), UNCHANGED arbitratorAll
     PROVE  MachineType'
  BY <1>7 DEF Run, MachineType, ThreadType, MachineState, Planning, Alert
<1>8. ASSUME NEW th \in {"executor", "arbitrator"}, RunSet(th), UNCHANGED arbitratorAll
     PROVE  MachineType'
  BY <1>8 DEF RunSet, MachineType, ThreadType, MachineState, Planning, Alert
<1>9. ASSUME NEW th \in {"executor", "arbitrator"}, RunReset(th), UNCHANGED arbitratorAll
     PROVE  MachineType'
  BY <1>9 DEF RunReset, RunDone, Reset, MachineType, ThreadType, MachineState, Planning, Alert
<1>10. ASSUME NEW th \in {"executor", "arbitrator"}, RunQueue(th), UNCHANGED arbitratorAll
     PROVE  MachineType'
  BY <1>10 DEF RunQueue, RunDone, MachineType, ThreadType, MachineState, Planning, Alert
<1>11. ASSUME NEW th \in {"executor", "arbitrator"}, Abort(th), UNCHANGED arbitratorAll
     PROVE  MachineType'
  BY <1>11 DEF Abort, MachineType, ThreadType, MachineState, Planning, Alert
<1>12. ASSUME NEW th \in {"executor", "arbitrator"}, AbortNext(th), UNCHANGED arbitratorAll
     PROVE  MachineType'
  BY <1>12 DEF AbortNext, MachineType, ThreadType, MachineState, Planning, Alert
<1>13. CASE Submit /\ UNCHANGED arbitratorAll
  BY <1>13 DEF Submit, MachineType, ThreadType, MachineState, Planning, Alert
<1>14. CASE RouteState /\ UNCHANGED arbitratorAll
  BY <1>14 DEF RouteState, Milestones, MachineType, ThreadType, MachineState, Planning, Alert
<1>15. CASE Swap /\ UNCHANGED arbitratorAll
  BY <1>15 DEF Swap, MachineType, ThreadType, MachineState, Planning, Alert
<1>16. CASE SwapRead /\ UNCHANGED arbitratorAll
  BY <1>16 DEF SwapRead, MachineType, ThreadType, MachineState, Planning, Alert
<1>17. CASE SwapSet /\ UNCHANGED arbitratorAll
  BY <1>17 DEF SwapSet, MachineType, ThreadType, MachineState, Planning, Alert
<1>18. CASE SwapClear /\ UNCHANGED arbitratorAll
  BY <1>18 DEF SwapClear, MachineType, ThreadType, MachineState, Planning, Alert
<1>19. CASE SwapReset /\ UNCHANGED arbitratorAll
  BY <1>19 DEF SwapReset, Reset, MachineType, ThreadType, MachineState, Planning, Alert
<1>20. CASE Snapshot /\ UNCHANGED arbitratorAll
  BY <1>20 DEF Snapshot, Live, MachineType, ThreadType, MachineState, Planning, Alert
<1>21. CASE CompletionPct /\ UNCHANGED arbitratorAll
  BY <1>21 DEF CompletionPct, MachineType, ThreadType, MachineState, Planning, Alert
<1>22. CASE Each /\ UNCHANGED arbitratorAll
  BY <1>22 DEF Each, MachineType, ThreadType, MachineState, Planning, Alert
<1>23. CASE Mark /\ UNCHANGED arbitratorAll
  BY <1>23 DEF Mark, MachineType, ThreadType, MachineState, Planning, Alert
<1>24. ASSUME NEW th \in {"route", "arbitrator", "other"}, Event(th)
     PROVE  MachineType'
  <2>1. machine' \in MachineState
    BY <1>24, SuccessorOf DEF Event, MachineType
  <2> QED
    BY <2>1, <1>24 DEF Event, MachineType, ThreadType
<1>25. ASSUME NEW th \in {"route", "arbitrator", "other"}, Look(th)
     PROVE  MachineType'
  BY <1>25 DEF Look, After, MachineType, ThreadType, MachineState, Planning, Alert
<1>26. ASSUME NEW th \in {"route", "arbitrator", "other"}, Read(th)
     PROVE  MachineType'
  BY <1>26 DEF Read, MachineType, ThreadType, MachineState, Planning, Alert
<1>27. ASSUME NEW th \in {"route", "arbitrator", "other"}, Notify(th)
     PROVE  MachineType'
  BY <1>27 DEF Notify, After, MachineType, ThreadType, MachineState, Planning, Alert
<1>28. CASE TakeArbitratorJob
  <2>1. /\ pc["arbitrator"] = "idle" /\ arbJobs # <<>> /\ arbJobs' = Tail(arbJobs)
        /\ \/ /\ Head(arbJobs) = "ENGAGE" /\ job' = job
              /\ event' = [event EXCEPT !["arbitrator"] = "INITIALIZE"]
              /\ pc' = [pc EXCEPT !["arbitrator"] = "event"]
           \/ /\ Head(arbJobs) = "RESTART" /\ job' = job
              /\ event' = [event EXCEPT !["arbitrator"] = "CLEAN_RESTART"]
              /\ pc' = [pc EXCEPT !["arbitrator"] = "event"]
           \/ /\ Head(arbJobs) \in Planning /\ job' = Head(arbJobs) /\ event' = event
              /\ pc' = [pc EXCEPT !["arbitrator"] = "plan"]
    BY <1>28, ArbitratorJob
  <2>2. UNCHANGED <<executorAll, machine, seen, plans, guidanceVars, failures>>
    BY <1>28 DEF TakeArbitratorJob
  <2> QED
    BY <2>1, <2>2 DEF MachineType, ThreadType
<1>29. CASE PlanNothing
  BY <1>29 DEF PlanNothing, MachineType, ThreadType, MachineState, Planning, Alert
<1>30. CASE PlanAfterRoute
  BY <1>30 DEF PlanAfterRoute, MachineType, ThreadType, MachineState, Planning, Alert
<1>31. CASE PlanThrows
  BY <1>31 DEF PlanThrows, MachineType, ThreadType, MachineState, Planning, Alert
<1>32. CASE Plan
  BY <1>32 DEF Plan, ToPlan, MachineType, ThreadType, MachineState, Planning, Alert
<1>33. CASE Register
  BY <1>33 DEF Register, register, MachineType, ThreadType, MachineState, Planning, Alert
<1>34. CASE Planned
  BY <1>34 DEF Planned, MachineType, ThreadType, MachineState, Planning, Alert
<1>35. CASE OnProgress
  BY <1>35 DEF OnProgress, register, MachineType, ThreadType, MachineState, Planning, Alert
<1>36. CASE Failure
  BY <1>36 DEF Failure, MachineType, ThreadType, MachineState, Planning, Alert
<1>37. CASE notifyTrajectoryFailure
  BY <1>37 DEF notifyTrajectoryFailure, MachineType, ThreadType, MachineState, Planning, Alert
<1>38. CASE GuidanceChange
  <2>1. guidance' \in {"ACTIVE", "ENGAGED", "INACTIVE", "DRIVERS_READY"}
    BY <1>38, GuidanceJobs
  <2> QED
    BY <2>1, <1>38 DEF GuidanceChange, MachineType
<1>39. CASE UNCHANGED vars
  BY <1>39 DEF vars, MachineType, ThreadType, MachineState, Planning, Alert
<1> QED
  BY <1>1, <1>2, <1>3, <1>4, <1>5, <1>6, <1>7, <1>8, <1>9, <1>10, <1>11, <1>12, <1>13, <1>14,
     <1>15, <1>16, <1>17, <1>18, <1>19, <1>20, <1>21, <1>22, <1>23, <1>24, <1>25, <1>26, <1>27,
     <1>28, <1>29, <1>30, <1>31, <1>32, <1>33, <1>34, <1>35, <1>36, <1>37, <1>38, <1>39
  DEF Next, Executor, Route, ArbitratorThread, Other, ExecutorThread, RouteThread, processEvent

(* Jobs are what the job threads know. *)
LEMMA JobStep == IInv /\ [Next]_vars => JobType'
<1> SUFFICES ASSUME IInv, [Next]_vars
             PROVE  JobType'
  OBVIOUS
<1> USE PlansAssumption, ArbitratorAssumption
    DEF IInv, Thread, None, Go, Raise, executorVars, bufferVars, planVars, routeVars,
       machineVars, guidanceVars, executorAll, arbitratorAll
<1>1. CASE TakeExecutorJob /\ UNCHANGED arbitratorAll
  BY <1>1 DEF TakeExecutorJob, JobType
<1>2. CASE EngageRun /\ UNCHANGED arbitratorAll
  BY <1>2 DEF EngageRun, JobType
<1>3. CASE Engaged /\ UNCHANGED arbitratorAll
  BY <1>3 DEF Engaged, JobType
<1>4. CASE CleanRestart /\ UNCHANGED arbitratorAll
  BY <1>4 DEF CleanRestart, JobType
<1>5. CASE UnregisterAll /\ UNCHANGED arbitratorAll
  BY <1>5 DEF UnregisterAll, JobType
<1>6. CASE RestartDone /\ UNCHANGED arbitratorAll
  BY <1>6 DEF RestartDone, JobType
<1>7. ASSUME NEW th \in {"executor", "arbitrator"}, Run(th), UNCHANGED arbitratorAll
     PROVE  JobType'
  BY <1>7 DEF Run, JobType
<1>8. ASSUME NEW th \in {"executor", "arbitrator"}, RunSet(th), UNCHANGED arbitratorAll
     PROVE  JobType'
  BY <1>8 DEF RunSet, JobType
<1>9. ASSUME NEW th \in {"executor", "arbitrator"}, RunReset(th), UNCHANGED arbitratorAll
     PROVE  JobType'
  BY <1>9 DEF RunReset, RunDone, Reset, JobType
<1>10. ASSUME NEW th \in {"executor", "arbitrator"}, RunQueue(th), UNCHANGED arbitratorAll
     PROVE  JobType'
  BY <1>10 DEF RunQueue, RunDone, JobType
<1>11. ASSUME NEW th \in {"executor", "arbitrator"}, Abort(th), UNCHANGED arbitratorAll
     PROVE  JobType'
  BY <1>11 DEF Abort, JobType
<1>12. ASSUME NEW th \in {"executor", "arbitrator"}, AbortNext(th), UNCHANGED arbitratorAll
     PROVE  JobType'
  BY <1>12 DEF AbortNext, JobType
<1>13. CASE Submit /\ UNCHANGED arbitratorAll
  BY <1>13 DEF Submit, JobType
<1>14. CASE RouteState /\ UNCHANGED arbitratorAll
  BY <1>14 DEF RouteState, Milestones, JobType
<1>15. CASE Swap /\ UNCHANGED arbitratorAll
  BY <1>15 DEF Swap, JobType
<1>16. CASE SwapRead /\ UNCHANGED arbitratorAll
  BY <1>16 DEF SwapRead, JobType
<1>17. CASE SwapSet /\ UNCHANGED arbitratorAll
  BY <1>17 DEF SwapSet, JobType
<1>18. CASE SwapClear /\ UNCHANGED arbitratorAll
  BY <1>18 DEF SwapClear, JobType
<1>19. CASE SwapReset /\ UNCHANGED arbitratorAll
  BY <1>19 DEF SwapReset, Reset, JobType
<1>20. CASE Snapshot /\ UNCHANGED arbitratorAll
  BY <1>20 DEF Snapshot, Live, JobType
<1>21. CASE CompletionPct /\ UNCHANGED arbitratorAll
  BY <1>21 DEF CompletionPct, JobType
<1>22. CASE Each /\ UNCHANGED arbitratorAll
  BY <1>22 DEF Each, JobType
<1>23. CASE Mark /\ UNCHANGED arbitratorAll
  BY <1>23 DEF Mark, JobType
<1>24. ASSUME NEW th \in {"route", "arbitrator", "other"}, Event(th)
     PROVE  JobType'
  BY <1>24 DEF Event, JobType
<1>25. ASSUME NEW th \in {"route", "arbitrator", "other"}, Look(th)
     PROVE  JobType'
  BY <1>25 DEF Look, After, JobType
<1>26. ASSUME NEW th \in {"route", "arbitrator", "other"}, Read(th)
     PROVE  JobType'
  BY <1>26 DEF Read, JobType
<1>27. ASSUME NEW th \in {"route", "arbitrator", "other"}, Notify(th)
     PROVE  JobType'
  <2>1. seen[th] \in Planning => Append(arbJobs, seen[th]) \in Seq(Job)
    BY PutLast DEF JobType, Job
  <2> QED
    BY <2>1, <1>27 DEF Notify, JobType
<1>28. CASE TakeArbitratorJob
  BY <1>28 DEF TakeArbitratorJob, JobType
<1>29. CASE PlanNothing
  BY <1>29 DEF PlanNothing, JobType
<1>30. CASE PlanAfterRoute
  BY <1>30 DEF PlanAfterRoute, JobType
<1>31. CASE PlanThrows
  BY <1>31 DEF PlanThrows, JobType
<1>32. CASE Plan
  BY <1>32 DEF Plan, ToPlan, JobType
<1>33. CASE Register
  BY <1>33 DEF Register, register, JobType
<1>34. CASE Planned
  BY <1>34 DEF Planned, JobType
<1>35. CASE OnProgress
  BY <1>35 DEF OnProgress, register, JobType
<1>36. CASE Failure
  BY <1>36 DEF Failure, JobType
<1>37. CASE notifyTrajectoryFailure
  BY <1>37 DEF notifyTrajectoryFailure, JobType
<1>38. CASE GuidanceChange
  <2> DEFINE E == {"ENGAGE", "RESTART", "ACTIVATE", "DEACTIVATE"}
  <2>1. PICK j \in E : exJobs' = Append(exJobs, j)
    BY <1>38, GuidanceJobs
  <2>2. exJobs \in Seq(E)
    BY DEF JobType
  <2> HIDE DEF E
  <2>3. exJobs' \in Seq(E)
    BY <2>1, <2>2, PutLast
  <2>4. arbJobs' = arbJobs \/ \E k \in {"ENGAGE", "RESTART"} : arbJobs' = Append(arbJobs, k)
    BY <1>38, GuidanceJobs
  <2>5. arbJobs' \in Seq(Job)
    <3>1. CASE arbJobs' = arbJobs
      BY <3>1 DEF JobType
    <3>2. ASSUME NEW k \in {"ENGAGE", "RESTART"}, arbJobs' = Append(arbJobs, k)
          PROVE  arbJobs' \in Seq(Job)
      <4>1. k \in Job /\ arbJobs \in Seq(Job)
        BY DEF Job, JobType
      <4> QED
        BY <3>2, <4>1, PutLast
    <3> QED
      BY <2>4, <3>1, <3>2
  <2> QED
    BY <2>3, <2>5 DEF JobType, E
<1>39. CASE UNCHANGED vars
  BY <1>39 DEF vars, JobType
<1> QED
  BY <1>1, <1>2, <1>3, <1>4, <1>5, <1>6, <1>7, <1>8, <1>9, <1>10, <1>11, <1>12, <1>13, <1>14,
     <1>15, <1>16, <1>17, <1>18, <1>19, <1>20, <1>21, <1>22, <1>23, <1>24, <1>25, <1>26, <1>27,
     <1>28, <1>29, <1>30, <1>31, <1>32, <1>33, <1>34, <1>35, <1>36, <1>37, <1>38, <1>39
  DEF Next, Executor, Route, ArbitratorThread, Other, ExecutorThread, RouteThread, processEvent

(* Trajectories are planned before they are handed on. *)
LEMMA PlanStep == IInv /\ [Next]_vars => PlanType'
<1> SUFFICES ASSUME IInv, [Next]_vars
             PROVE  PlanType'
  OBVIOUS
<1> USE PlansAssumption, ArbitratorAssumption
    DEF IInv, Thread, None, Go, Raise, executorVars, bufferVars, planVars, routeVars,
       machineVars, guidanceVars, executorAll, arbitratorAll
<1>1. CASE TakeExecutorJob /\ UNCHANGED arbitratorAll
  BY <1>1 DEF TakeExecutorJob, PlanType, ThreadType
<1>2. CASE EngageRun /\ UNCHANGED arbitratorAll
  BY <1>2 DEF EngageRun, PlanType, ThreadType
<1>3. CASE Engaged /\ UNCHANGED arbitratorAll
  BY <1>3 DEF Engaged, PlanType, ThreadType
<1>4. CASE CleanRestart /\ UNCHANGED arbitratorAll
  BY <1>4 DEF CleanRestart, PlanType, ThreadType
<1>5. CASE UnregisterAll /\ UNCHANGED arbitratorAll
  BY <1>5 DEF UnregisterAll, PlanType, ThreadType
<1>6. CASE RestartDone /\ UNCHANGED arbitratorAll
  <2>1. 0 \in 0 .. plans
    BY DEF PlanType
  <2> QED
    BY <2>1, <1>6 DEF RestartDone, PlanType
<1>7. ASSUME NEW th \in {"executor", "arbitrator"}, Run(th), UNCHANGED arbitratorAll
     PROVE  PlanType'
  BY <1>7 DEF Run, PlanType, ThreadType
<1>8. ASSUME NEW th \in {"executor", "arbitrator"}, RunSet(th), UNCHANGED arbitratorAll
     PROVE  PlanType'
  BY <1>8 DEF RunSet, PlanType, ThreadType
<1>9. ASSUME NEW th \in {"executor", "arbitrator"}, RunReset(th), UNCHANGED arbitratorAll
     PROVE  PlanType'
  BY <1>9 DEF RunReset, RunDone, Reset, PlanType, ThreadType
<1>10. ASSUME NEW th \in {"executor", "arbitrator"}, RunQueue(th), UNCHANGED arbitratorAll
     PROVE  PlanType'
  BY <1>10 DEF RunQueue, RunDone, PlanType, ThreadType
<1>11. ASSUME NEW th \in {"executor", "arbitrator"}, Abort(th), UNCHANGED arbitratorAll
     PROVE  PlanType'
  BY <1>11 DEF Abort, PlanType, ThreadType
<1>12. ASSUME NEW th \in {"executor", "arbitrator"}, AbortNext(th), UNCHANGED arbitratorAll
     PROVE  PlanType'
  BY <1>12 DEF AbortNext, PlanType, ThreadType
<1>13. CASE Submit /\ UNCHANGED arbitratorAll
  BY <1>13 DEF Submit, PlanType, ThreadType
<1>14. CASE RouteState /\ UNCHANGED arbitratorAll
  <2>1. PICK p \in {75, 95, 100} : covered' = [covered EXCEPT ![current] = p]
    BY <1>14, Progress
  <2>2. covered' \in [Trajectory -> Percent]
    BY <2>1 DEF PlanType, Percent
  <2> QED
    BY <2>2, <1>14 DEF RouteState, PlanType
<1>15. CASE Swap /\ UNCHANGED arbitratorAll
  BY <1>15 DEF Swap, PlanType, ThreadType
<1>16. CASE SwapRead /\ UNCHANGED arbitratorAll
  BY <1>16 DEF SwapRead, PlanType, ThreadType
<1>17. CASE SwapSet /\ UNCHANGED arbitratorAll
  BY <1>17 DEF SwapSet, PlanType, ThreadType
<1>18. CASE SwapClear /\ UNCHANGED arbitratorAll
  BY <1>18 DEF SwapClear, PlanType, ThreadType
<1>19. CASE SwapReset /\ UNCHANGED arbitratorAll
  BY <1>19 DEF SwapReset, Reset, PlanType, ThreadType
<1>20. CASE Snapshot /\ UNCHANGED arbitratorAll
  <2> QED
    BY <1>20 DEF Snapshot, PlanType, Unknown, Percent
<1>21. CASE CompletionPct /\ UNCHANGED arbitratorAll
  <2>1. current # None => current \in Trajectory
    BY DEF PlanType, Trajectory
  <2>2. pct' \in Percent
    BY <2>1, <1>21 DEF CompletionPct, PlanType
  <2> QED
    BY <2>2, <1>21 DEF CompletionPct, PlanType
<1>22. CASE Each /\ UNCHANGED arbitratorAll
  <2> QED
    BY <1>22 DEF Each, PlanType, Unknown, Percent
<1>23. CASE Mark /\ UNCHANGED arbitratorAll
  BY <1>23 DEF Mark, PlanType, ThreadType
<1>24. ASSUME NEW th \in {"route", "arbitrator", "other"}, Event(th)
     PROVE  PlanType'
  BY <1>24 DEF Event, PlanType, ThreadType
<1>25. ASSUME NEW th \in {"route", "arbitrator", "other"}, Look(th)
     PROVE  PlanType'
  BY <1>25 DEF Look, After, PlanType, ThreadType
<1>26. ASSUME NEW th \in {"route", "arbitrator", "other"}, Read(th)
     PROVE  PlanType'
  BY <1>26 DEF Read, PlanType, ThreadType
<1>27. ASSUME NEW th \in {"route", "arbitrator", "other"}, Notify(th)
     PROVE  PlanType'
  BY <1>27 DEF Notify, After, PlanType, ThreadType
<1>28. CASE TakeArbitratorJob
  BY <1>28 DEF TakeArbitratorJob, PlanType, ThreadType
<1>29. CASE PlanNothing
  BY <1>29 DEF PlanNothing, PlanType, ThreadType
<1>30. CASE PlanAfterRoute
  BY <1>30 DEF PlanAfterRoute, PlanType, ThreadType
<1>31. CASE PlanThrows
  BY <1>31 DEF PlanThrows, PlanType, ThreadType
<1>32. CASE Plan
  BY <1>32 DEF Plan, ToPlan, PlanType, ThreadType
<1>33. CASE Register
  BY <1>33 DEF Register, register, PlanType, ThreadType
<1>34. CASE Planned
  BY <1>34 DEF Planned, PlanType, ThreadType
<1>35. CASE OnProgress
  BY <1>35 DEF OnProgress, register, PlanType, ThreadType
<1>36. CASE Failure
  BY <1>36 DEF Failure, PlanType, ThreadType
<1>37. CASE notifyTrajectoryFailure
  BY <1>37 DEF notifyTrajectoryFailure, PlanType, ThreadType
<1>38. CASE GuidanceChange
  <2>1. changes' \in 0 .. MaxChanges
    BY <1>38 DEF GuidanceChange, PlanType
  <2>2. UNCHANGED <<plans, currentTrajectory, bufferedTrajectoryRunning, bufferVars, planVars, traj, routeVars, failures>>
    BY <1>38 DEF GuidanceChange
  <2> QED
    BY <2>1, <2>2 DEF PlanType
<1>39. CASE UNCHANGED vars
  BY <1>39 DEF vars, PlanType, ThreadType
<1> QED
  BY <1>1, <1>2, <1>3, <1>4, <1>5, <1>6, <1>7, <1>8, <1>9, <1>10, <1>11, <1>12, <1>13, <1>14,
     <1>15, <1>16, <1>17, <1>18, <1>19, <1>20, <1>21, <1>22, <1>23, <1>24, <1>25, <1>26, <1>27,
     <1>28, <1>29, <1>30, <1>31, <1>32, <1>33, <1>34, <1>35, <1>36, <1>37, <1>38, <1>39
  DEF Next, Executor, Route, ArbitratorThread, Other, ExecutorThread, RouteThread, processEvent

(* Callbacks stay in their list. *)
LEMMA CallbackStep == IInv /\ [Next]_vars => CallbackType'
<1> SUFFICES ASSUME IInv, [Next]_vars
             PROVE  CallbackType'
  OBVIOUS
<1> USE PlansAssumption, ArbitratorAssumption
    DEF IInv, Thread, None, Go, Raise, executorVars, bufferVars, planVars, routeVars,
       machineVars, guidanceVars, executorAll, arbitratorAll
<1>1. CASE TakeExecutorJob /\ UNCHANGED arbitratorAll
  BY <1>1 DEF TakeExecutorJob, CallbackType
<1>2. CASE EngageRun /\ UNCHANGED arbitratorAll
  BY <1>2 DEF EngageRun, CallbackType
<1>3. CASE Engaged /\ UNCHANGED arbitratorAll
  BY <1>3 DEF Engaged, CallbackType
<1>4. CASE CleanRestart /\ UNCHANGED arbitratorAll
  BY <1>4 DEF CleanRestart, CallbackType
<1>5. CASE UnregisterAll /\ UNCHANGED arbitratorAll
  <2>1. callbacks' \in Seq(Callback) /\ Len(callbacks') = Len(callbacks) /\ DOMAIN callbacks' = DOMAIN callbacks
    BY <1>5, CallbacksKept DEF UnregisterAll, CallbackType
  <2> QED
    BY <2>1, <1>5 DEF UnregisterAll, CallbackType
<1>6. CASE RestartDone /\ UNCHANGED arbitratorAll
  BY <1>6 DEF RestartDone, CallbackType
<1>7. ASSUME NEW th \in {"executor", "arbitrator"}, Run(th), UNCHANGED arbitratorAll
     PROVE  CallbackType'
  BY <1>7 DEF Run, CallbackType
<1>8. ASSUME NEW th \in {"executor", "arbitrator"}, RunSet(th), UNCHANGED arbitratorAll
     PROVE  CallbackType'
  BY <1>8 DEF RunSet, CallbackType
<1>9. ASSUME NEW th \in {"executor", "arbitrator"}, RunReset(th), UNCHANGED arbitratorAll
     PROVE  CallbackType'
  <2>1. callbacks' \in Seq(Callback) /\ Len(callbacks') = Len(callbacks) /\ DOMAIN callbacks' = DOMAIN callbacks
    BY <1>9, CallbacksKept DEF RunReset, RunDone, CallbackType
  <2> QED
    BY <2>1, <1>9 DEF RunReset, RunDone, CallbackType
<1>10. ASSUME NEW th \in {"executor", "arbitrator"}, RunQueue(th), UNCHANGED arbitratorAll
     PROVE  CallbackType'
  BY <1>10 DEF RunQueue, RunDone, CallbackType
<1>11. ASSUME NEW th \in {"executor", "arbitrator"}, Abort(th), UNCHANGED arbitratorAll
     PROVE  CallbackType'
  BY <1>11 DEF Abort, CallbackType
<1>12. ASSUME NEW th \in {"executor", "arbitrator"}, AbortNext(th), UNCHANGED arbitratorAll
     PROVE  CallbackType'
  BY <1>12 DEF AbortNext, CallbackType
<1>13. CASE Submit /\ UNCHANGED arbitratorAll
  BY <1>13 DEF Submit, CallbackType
<1>14. CASE RouteState /\ UNCHANGED arbitratorAll
  BY <1>14 DEF RouteState, Milestones, CallbackType
<1>15. CASE Swap /\ UNCHANGED arbitratorAll
  BY <1>15 DEF Swap, CallbackType
<1>16. CASE SwapRead /\ UNCHANGED arbitratorAll
  BY <1>16 DEF SwapRead, CallbackType
<1>17. CASE SwapSet /\ UNCHANGED arbitratorAll
  BY <1>17 DEF SwapSet, CallbackType
<1>18. CASE SwapClear /\ UNCHANGED arbitratorAll
  BY <1>18 DEF SwapClear, CallbackType
<1>19. CASE SwapReset /\ UNCHANGED arbitratorAll
  <2>1. callbacks' \in Seq(Callback) /\ Len(callbacks') = Len(callbacks) /\ DOMAIN callbacks' = DOMAIN callbacks
    BY <1>19, CallbacksKept DEF SwapReset, CallbackType
  <2> QED
    BY <2>1, <1>19 DEF SwapReset, CallbackType
<1>20. CASE Snapshot /\ UNCHANGED arbitratorAll
  BY <1>20 DEF Snapshot, Live, CallbackType
<1>21. CASE CompletionPct /\ UNCHANGED arbitratorAll
  BY <1>21 DEF CompletionPct, CallbackType
<1>22. CASE Each /\ UNCHANGED arbitratorAll
  BY <1>22 DEF Each, CallbackType
<1>23. CASE Mark /\ UNCHANGED arbitratorAll
  <2>1. callbacks' \in Seq(Callback) /\ Len(callbacks') = Len(callbacks) /\ DOMAIN callbacks' = DOMAIN callbacks
    BY <1>23, CallbacksKept DEF Mark, CallbackType
  <2> QED
    BY <2>1, <1>23 DEF Mark, CallbackType
<1>24. ASSUME NEW th \in {"route", "arbitrator", "other"}, Event(th)
     PROVE  CallbackType'
  BY <1>24 DEF Event, CallbackType
<1>25. ASSUME NEW th \in {"route", "arbitrator", "other"}, Look(th)
     PROVE  CallbackType'
  BY <1>25 DEF Look, After, CallbackType
<1>26. ASSUME NEW th \in {"route", "arbitrator", "other"}, Read(th)
     PROVE  CallbackType'
  BY <1>26 DEF Read, CallbackType
<1>27. ASSUME NEW th \in {"route", "arbitrator", "other"}, Notify(th)
     PROVE  CallbackType'
  BY <1>27 DEF Notify, After, CallbackType
<1>28. CASE TakeArbitratorJob
  BY <1>28 DEF TakeArbitratorJob, CallbackType
<1>29. CASE PlanNothing
  BY <1>29 DEF PlanNothing, CallbackType
<1>30. CASE PlanAfterRoute
  BY <1>30 DEF PlanAfterRoute, CallbackType
<1>31. CASE PlanThrows
  BY <1>31 DEF PlanThrows, CallbackType
<1>32. CASE Plan
  BY <1>32 DEF Plan, ToPlan, CallbackType
<1>33. CASE Register
  <2> DEFINE c == [pct |-> 75, called |-> FALSE, live |-> TRUE]
  <2>1. c \in Callback
    BY DEF Callback
  <2>2. callbacks' = Append(callbacks, c)
    BY <1>33 DEF Register, register
  <2> HIDE DEF c
  <2>3. /\ callbacks' \in Seq(Callback) /\ Len(callbacks') = Len(callbacks) + 1
        /\ Len(callbacks) \in Nat /\ \A i \in DOMAIN callbacks : i \in DOMAIN callbacks'
    BY <2>1, <2>2, PutLast DEF CallbackType
  <2> QED
    BY <2>3, <1>33 DEF Register, CallbackType
<1>34. CASE Planned
  BY <1>34 DEF Planned, CallbackType
<1>35. CASE OnProgress
  <2> DEFINE c == [pct |-> 95, called |-> FALSE, live |-> TRUE]
  <2>1. c \in Callback
    BY DEF Callback
  <2>2. callbacks' = callbacks \/ callbacks' = Append(callbacks, c)
    BY <1>35 DEF OnProgress, register
  <2> HIDE DEF c
  <2>3. CASE callbacks' = callbacks
    BY <2>3, <1>35 DEF OnProgress, CallbackType
  <2>4. CASE callbacks' = Append(callbacks, c)
    <3>1. /\ callbacks' \in Seq(Callback) /\ Len(callbacks') = Len(callbacks) + 1
          /\ Len(callbacks) \in Nat /\ \A i \in DOMAIN callbacks : i \in DOMAIN callbacks'
      BY <2>1, <2>4, PutLast DEF CallbackType
    <3> QED
      BY <3>1, <1>35 DEF OnProgress, CallbackType
  <2> QED
    BY <2>2, <2>3, <2>4
<1>36. CASE Failure
  BY <1>36 DEF Failure, CallbackType
<1>37. CASE notifyTrajectoryFailure
  BY <1>37 DEF notifyTrajectoryFailure, CallbackType
<1>38. CASE GuidanceChange
  BY <1>38 DEF GuidanceChange, CallbackType
<1>39. CASE UNCHANGED vars
  BY <1>39 DEF vars, CallbackType
<1> QED
  BY <1>1, <1>2, <1>3, <1>4, <1>5, <1>6, <1>7, <1>8, <1>9, <1>10, <1>11, <1>12, <1>13, <1>14,
     <1>15, <1>16, <1>17, <1>18, <1>19, <1>20, <1>21, <1>22, <1>23, <1>24, <1>25, <1>26, <1>27,
     <1>28, <1>29, <1>30, <1>31, <1>32, <1>33, <1>34, <1>35, <1>36, <1>37, <1>38, <1>39
  DEF Next, Executor, Route, ArbitratorThread, Other, ExecutorThread, RouteThread, processEvent

(* Somebody goes on planning. *)
LEMMA PlannerStep == IInv /\ [Next]_vars => PlannerInv'
<1> SUFFICES ASSUME IInv, [Next]_vars
             PROVE  PlannerInv'
  OBVIOUS
<1> USE PlansAssumption, ArbitratorAssumption
    DEF IInv, Thread, None, Go, Raise, executorVars, bufferVars, planVars, routeVars,
       machineVars, guidanceVars, executorAll, arbitratorAll
<1>1. CASE TakeExecutorJob /\ UNCHANGED arbitratorAll
  <2>1. /\ pc["executor"] = "idle" /\ exJobs # <<>> /\ exJobs' = Tail(exJobs)
        /\ \/ /\ exState' = exState
              /\ \/ pc' = [pc EXCEPT !["executor"] = "engage_run"]
                 \/ pc' = [pc EXCEPT !["executor"] = "engaged"]
           \/ /\ exState' \in {"ACTIVE", "INACTIVE", "DRIVERS_READY"}
              /\ pc' = pc \/ pc' = [pc EXCEPT !["executor"] = "abort"]
    BY <1>1, ExecutorJob
  <2>2. UNCHANGED <<currentTrajectory, bufferedTrajectoryRunning, bufferVars, callbacks, planVars, traj, routeVars, arbitratorAll>>
    BY <1>1 DEF TakeExecutorJob
  <2> QED
    BY <2>1, <2>2 DEF PlannerInv, Queued, WillQueue, AtWork, RouteDone, ThreadType
<1>2. CASE EngageRun /\ UNCHANGED arbitratorAll
  BY <1>2 DEF EngageRun, PlannerInv, Queued, WillQueue, AtWork, RouteDone, ThreadType
<1>3. CASE Engaged /\ UNCHANGED arbitratorAll
  BY <1>3 DEF Engaged, PlannerInv, Queued, WillQueue, AtWork, RouteDone, ThreadType
<1>4. CASE CleanRestart /\ UNCHANGED arbitratorAll
  BY <1>4 DEF CleanRestart, PlannerInv, Queued, WillQueue, AtWork, RouteDone, ThreadType
<1>5. CASE UnregisterAll /\ UNCHANGED arbitratorAll
  BY <1>5 DEF UnregisterAll, PlannerInv, Queued, WillQueue, AtWork, RouteDone, ThreadType
<1>6. CASE RestartDone /\ UNCHANGED arbitratorAll
  BY <1>6 DEF RestartDone, PlannerInv, Queued, WillQueue, AtWork, RouteDone, ThreadType
<1>7. ASSUME NEW th \in {"executor", "arbitrator"}, Run(th), UNCHANGED arbitratorAll
     PROVE  PlannerInv'
  BY <1>7 DEF Run, PlannerInv, Queued, WillQueue, AtWork, RouteDone, ThreadType
<1>8. ASSUME NEW th \in {"executor", "arbitrator"}, RunSet(th), UNCHANGED arbitratorAll
     PROVE  PlannerInv'
  BY <1>8 DEF RunSet, PlannerInv, Queued, WillQueue, AtWork, RouteDone, ThreadType
<1>9. ASSUME NEW th \in {"executor", "arbitrator"}, RunReset(th), UNCHANGED arbitratorAll
     PROVE  PlannerInv'
  BY <1>9
  DEF RunReset, RunDone, Reset, PlannerInv, Queued, WillQueue, AtWork, RouteDone, ThreadType
<1>10. ASSUME NEW th \in {"executor", "arbitrator"}, RunQueue(th), UNCHANGED arbitratorAll
     PROVE  PlannerInv'
  BY <1>10 DEF RunQueue, RunDone, PlannerInv, Queued, WillQueue, AtWork, RouteDone, ThreadType
<1>11. ASSUME NEW th \in {"executor", "arbitrator"}, Abort(th), UNCHANGED arbitratorAll
     PROVE  PlannerInv'
  BY <1>11 DEF Abort, PlannerInv, Queued, WillQueue, AtWork, RouteDone, ThreadType
<1>12. ASSUME NEW th \in {"executor", "arbitrator"}, AbortNext(th), UNCHANGED arbitratorAll
     PROVE  PlannerInv'
  BY <1>12 DEF AbortNext, PlannerInv, Queued, WillQueue, AtWork, RouteDone, ThreadType
<1>13. CASE Submit /\ UNCHANGED arbitratorAll
  BY <1>13 DEF Submit, PlannerInv, Queued, WillQueue, AtWork, RouteDone, ThreadType
<1>14. CASE RouteState /\ UNCHANGED arbitratorAll
  <2> SUFFICES ASSUME machine' \in Planning
               PROVE  Queued' \/ WillQueue' \/ AtWork' \/ RouteDone'
    BY DEF PlannerInv
  <2>1. UNCHANGED <<machine, arbJobs, event, seen, plans, shape>>
    BY <1>14 DEF RouteState
  <2>2. PICK p \in {75, 95, 100} : pc' = [pc EXCEPT !["route"] = IF p = 100 THEN "swap" ELSE "callbacks"]
    BY <1>14, Progress
  <2>3. CASE RouteDone
    BY <2>1, <2>3, <1>14, RouteStaysDone
  <2>4. CASE Queued
    BY <2>1, <2>4 DEF Queued
  <2>5. CASE WillQueue
    <3>1. pc["route"] = "idle"
      BY <1>14 DEF RouteState
    <3> QED
      BY <2>1, <2>2, <2>5, <3>1 DEF WillQueue, ThreadType
  <2>6. CASE AtWork
    BY <2>1, <2>2, <2>6 DEF AtWork, ThreadType
  <2> QED
    BY <2>1, <2>3, <2>4, <2>5, <2>6 DEF PlannerInv
<1>15. CASE Swap /\ UNCHANGED arbitratorAll
  BY <1>15 DEF Swap, PlannerInv, Queued, WillQueue, AtWork, RouteDone, ThreadType
<1>16. CASE SwapRead /\ UNCHANGED arbitratorAll
  BY <1>16 DEF SwapRead, PlannerInv, Queued, WillQueue, AtWork, RouteDone, ThreadType
<1>17. CASE SwapSet /\ UNCHANGED arbitratorAll
  BY <1>17 DEF SwapSet, PlannerInv, Queued, WillQueue, AtWork, RouteDone, ThreadType
<1>18. CASE SwapClear /\ UNCHANGED arbitratorAll
  BY <1>18 DEF SwapClear, PlannerInv, Queued, WillQueue, AtWork, RouteDone, ThreadType
<1>19. CASE SwapReset /\ UNCHANGED arbitratorAll
  BY <1>19 DEF SwapReset, Reset, PlannerInv, Queued, WillQueue, AtWork, RouteDone, ThreadType
<1>20. CASE Snapshot /\ UNCHANGED arbitratorAll
  BY <1>20 DEF Snapshot, Live, PlannerInv, Queued, WillQueue, AtWork, RouteDone, ThreadType
<1>21. CASE CompletionPct /\ UNCHANGED arbitratorAll
  BY <1>21 DEF CompletionPct, PlannerInv, Queued, WillQueue, AtWork, RouteDone, ThreadType
<1>22. CASE Each /\ UNCHANGED arbitratorAll
  BY <1>22 DEF Each, PlannerInv, Queued, WillQueue, AtWork, RouteDone, ThreadType
<1>23. CASE Mark /\ UNCHANGED arbitratorAll
  BY <1>23 DEF Mark, PlannerInv, Queued, WillQueue, AtWork, RouteDone, ThreadType
<1>24. ASSUME NEW th \in {"route", "arbitrator", "other"}, Event(th)
     PROVE  PlannerInv'
  <2> SUFFICES ASSUME machine' \in Planning
               PROVE  Queued' \/ WillQueue' \/ AtWork' \/ RouteDone'
    BY DEF PlannerInv
  <2>1. /\ pc[th] = "event" /\ pc' = [pc EXCEPT ![th] = "look"] /\ DOMAIN pc = Thread
        /\ seen' = [seen EXCEPT ![th] = machine] /\ DOMAIN seen = Thread
        /\ UNCHANGED <<arbJobs, event, plans, planVars>>
    BY <1>24 DEF Event, ThreadType, MachineType
  <2>2. \/ machine \notin Planning
        \/ machine \in Planning /\ event[th] # "FINISHED_TRAJECTORY_PLANNING"
    BY <1>24, SuccessorOf DEF Event, MachineType
  <2>3. CASE machine \notin Planning
    BY <2>1, <2>3 DEF WillQueue
  <2>4. CASE machine \in Planning /\ event[th] # "FINISHED_TRAJECTORY_PLANNING"
    <3>1. CASE Queued
      BY <2>1, <3>1 DEF Queued
    <3>2. CASE WillQueue
      BY <2>1, <3>2 DEF WillQueue
    <3>3. CASE AtWork
      BY <2>1, <2>4, <3>3 DEF AtWork
    <3>4. CASE RouteDone
      BY <2>1, <3>4 DEF RouteDone
    <3> QED
      BY <2>4, <3>1, <3>2, <3>3, <3>4 DEF PlannerInv
  <2> QED
    BY <2>2, <2>3, <2>4
<1>25. ASSUME NEW th \in {"route", "arbitrator", "other"}, Look(th)
     PROVE  PlannerInv'
  <2> SUFFICES ASSUME machine' \in Planning
               PROVE  Queued' \/ WillQueue' \/ AtWork' \/ RouteDone'
    BY DEF PlannerInv
  <2>1. /\ pc[th] = "look" /\ DOMAIN pc = Thread /\ DOMAIN seen = Thread /\ DOMAIN event = Thread
        /\ machine' = machine /\ UNCHANGED <<arbJobs, plans, planVars>>
    BY <1>25 DEF Look, ThreadType, MachineType
  <2>2. \A t \in Thread : t # th => pc'[t] = pc[t] /\ seen'[t] = seen[t] /\ event'[t] = event[t]
    BY <2>1, <1>25 DEF Look
  <2>3. CASE Queued
    BY <2>1, <2>3 DEF Queued
  <2>4. CASE WillQueue
    <3>1. PICK t \in Thread : \/ pc[t] = "look" /\ seen[t] \notin Planning
                              \/ pc[t] = "read"
                              \/ pc[t] = "notify" /\ seen[t] \in Planning
      BY <2>4 DEF WillQueue
    <3>2. CASE t = th
      <4>1. pc'[th] = "read"
        BY <2>1, <3>1, <3>2, <1>25 DEF Look
      <4> QED
        BY <2>1, <4>1 DEF WillQueue
    <3>3. CASE t # th
      BY <2>2, <3>1, <3>3 DEF WillQueue
    <3> QED
      BY <3>2, <3>3
  <2>5. CASE AtWork
    BY <2>1, <2>2, <2>5 DEF AtWork
  <2>6. CASE RouteDone
    BY <2>1, <2>6 DEF RouteDone
  <2> QED
    BY <2>1, <2>3, <2>4, <2>5, <2>6 DEF PlannerInv
<1>26. ASSUME NEW th \in {"route", "arbitrator", "other"}, Read(th)
     PROVE  PlannerInv'
  <2> SUFFICES ASSUME machine' \in Planning
               PROVE  Queued' \/ WillQueue' \/ AtWork' \/ RouteDone'
    BY DEF PlannerInv
  <2>1. /\ pc[th] = "read" /\ DOMAIN pc = Thread /\ DOMAIN seen = Thread /\ DOMAIN event = Thread
        /\ machine' = machine /\ UNCHANGED <<arbJobs, plans, planVars>>
    BY <1>26 DEF Read, ThreadType, MachineType
  <2>2. \A t \in Thread : t # th => pc'[t] = pc[t] /\ seen'[t] = seen[t] /\ event'[t] = event[t]
    BY <2>1, <1>26 DEF Read
  <2>3. CASE Queued
    BY <2>1, <2>3 DEF Queued
  <2>4. CASE WillQueue
    <3>1. PICK t \in Thread : \/ pc[t] = "look" /\ seen[t] \notin Planning
                              \/ pc[t] = "read"
                              \/ pc[t] = "notify" /\ seen[t] \in Planning
      BY <2>4 DEF WillQueue
    <3>2. CASE t = th
      <4>1. pc'[th] = "notify" /\ seen'[th] = machine
        BY <2>1, <3>1, <3>2, <1>26 DEF Read
      <4> QED
        BY <2>1, <4>1 DEF WillQueue
    <3>3. CASE t # th
      BY <2>2, <3>1, <3>3 DEF WillQueue
    <3> QED
      BY <3>2, <3>3
  <2>5. CASE AtWork
    BY <2>1, <2>2, <2>5 DEF AtWork
  <2>6. CASE RouteDone
    BY <2>1, <2>6 DEF RouteDone
  <2> QED
    BY <2>1, <2>3, <2>4, <2>5, <2>6 DEF PlannerInv
<1>27. ASSUME NEW th \in {"route", "arbitrator", "other"}, Notify(th)
     PROVE  PlannerInv'
  <2> SUFFICES ASSUME machine' \in Planning
               PROVE  Queued' \/ WillQueue' \/ AtWork' \/ RouteDone'
    BY DEF PlannerInv
  <2>1. /\ pc[th] = "notify" /\ DOMAIN pc = Thread /\ DOMAIN seen = Thread /\ DOMAIN event = Thread
        /\ machine' = machine /\ UNCHANGED <<plans, planVars>>
        /\ arbJobs' = IF seen[th] \in Planning THEN Append(arbJobs, seen[th]) ELSE arbJobs
    BY <1>27 DEF Notify, ThreadType, MachineType
  <2>2. \A t \in Thread : t # th => pc'[t] = pc[t] /\ seen'[t] = seen[t] /\ event'[t] = event[t]
    BY <2>1, <1>27 DEF Notify
  <2>3. CASE seen[th] \in Planning
    <3>1. seen[th] \in Job /\ arbJobs \in Seq(Job)
      BY <2>3 DEF Job, JobType
    <3> QED
      BY <2>1, <2>3, <3>1, PutLast DEF Queued
  <2>4. CASE seen[th] \notin Planning
    <3>1. CASE Queued
      BY <2>1, <2>4, <3>1 DEF Queued
    <3>2. CASE WillQueue
      BY <2>1, <2>2, <2>4, <3>2 DEF WillQueue
    <3>3. CASE AtWork
      BY <2>1, <2>2, <3>3 DEF AtWork
    <3>4. CASE RouteDone
      BY <2>1, <3>4 DEF RouteDone
    <3> QED
      BY <2>1, <3>1, <3>2, <3>3, <3>4 DEF PlannerInv
  <2> QED
    BY <2>3, <2>4
<1>28. CASE TakeArbitratorJob
  <2> SUFFICES ASSUME machine' \in Planning
               PROVE  Queued' \/ WillQueue' \/ AtWork' \/ RouteDone'
    BY DEF PlannerInv
  <2>1. /\ pc["arbitrator"] = "idle" /\ arbJobs # <<>> /\ arbJobs' = Tail(arbJobs)
        /\ \/ /\ Head(arbJobs) = "ENGAGE" /\ job' = job
              /\ event' = [event EXCEPT !["arbitrator"] = "INITIALIZE"]
              /\ pc' = [pc EXCEPT !["arbitrator"] = "event"]
           \/ /\ Head(arbJobs) = "RESTART" /\ job' = job
              /\ event' = [event EXCEPT !["arbitrator"] = "CLEAN_RESTART"]
              /\ pc' = [pc EXCEPT !["arbitrator"] = "event"]
           \/ /\ Head(arbJobs) \in Planning /\ job' = Head(arbJobs) /\ event' = event
              /\ pc' = [pc EXCEPT !["arbitrator"] = "plan"]
    BY <1>28, ArbitratorJob
  <2>2. UNCHANGED <<executorAll, machine, seen, plans, guidanceVars, failures>>
    BY <1>28 DEF TakeArbitratorJob
  <2>3. CASE Queued
    <3>1. PICK i \in DOMAIN arbJobs : arbJobs[i] \in Planning
      BY <2>3 DEF Queued
    <3>2. CASE i = 1
      <4>1. Head(arbJobs) \in Planning
        BY <2>1, <3>1, <3>2, TakeHead DEF JobType
      <4>2. Head(arbJobs) # "ENGAGE" /\ Head(arbJobs) # "RESTART"
        BY <4>1 DEF Planning
      <4> QED
        BY <2>1, <4>2 DEF AtWork, ThreadType
    <3>3. CASE i # 1
      <4>1. i - 1 \in DOMAIN arbJobs' /\ arbJobs'[i - 1] = arbJobs[i]
        BY <2>1, <3>3, TakeHead DEF JobType
      <4> QED
        BY <3>1, <4>1 DEF Queued
    <3> QED
      BY <3>2, <3>3
  <2>4. CASE WillQueue
    <3>1. \A t \in Thread : t # "arbitrator" => pc'[t] = pc[t]
      BY <2>1 DEF ThreadType
    <3> QED
      BY <2>1, <2>2, <2>4, <3>1 DEF WillQueue
  <2>5. CASE AtWork
    BY <2>1, <2>5 DEF AtWork
  <2>6. CASE RouteDone
    BY <2>2, <2>6 DEF RouteDone
  <2> QED
    BY <2>2, <2>3, <2>4, <2>5, <2>6 DEF PlannerInv
<1>29. CASE PlanNothing
  <2> SUFFICES ASSUME machine' \in Planning
               PROVE  Queued' \/ WillQueue' \/ AtWork' \/ RouteDone'
    BY DEF PlannerInv
  <2>1. /\ UNCHANGED <<machine, arbJobs, seen, plans, planVars>>
        /\ pc["arbitrator"] \notin {"look", "read", "notify"}
        /\ \A t \in Thread : t # "arbitrator" => pc'[t] = pc[t] /\ event'[t] = event[t]
    BY <1>29 DEF PlanNothing, ThreadType, MachineType
  <2>2. CASE Queued
    BY <2>1, <2>2 DEF Queued
  <2>3. CASE WillQueue
    BY <2>1, <2>3 DEF WillQueue
  <2>4. CASE AtWork
    BY <2>1, <2>4, <1>29 DEF AtWork, PlanNothing, ThreadType, MachineType
  <2>5. CASE RouteDone
    BY <2>1, <2>5 DEF RouteDone
  <2> QED
    BY <2>1, <2>2, <2>3, <2>4, <2>5 DEF PlannerInv
<1>30. CASE PlanAfterRoute
  BY <1>30 DEF PlanAfterRoute, PlannerInv, Queued, WillQueue, AtWork, RouteDone, ThreadType
<1>31. CASE PlanThrows
  BY <1>31 DEF PlanThrows, PlannerInv, Queued, WillQueue, AtWork, RouteDone, ThreadType
<1>32. CASE Plan
  BY <1>32 DEF Plan, ToPlan, PlannerInv, Queued, WillQueue, AtWork, RouteDone, ThreadType
<1>33. CASE Register
  BY <1>33 DEF Register, register, PlannerInv, Queued, WillQueue, AtWork, RouteDone, ThreadType
<1>34. CASE Planned
  <2> SUFFICES ASSUME machine' \in Planning
               PROVE  Queued' \/ WillQueue' \/ AtWork' \/ RouteDone'
    BY DEF PlannerInv
  <2>1. /\ UNCHANGED <<machine, arbJobs, seen, plans, planVars>>
        /\ pc["arbitrator"] \notin {"look", "read", "notify"}
        /\ \A t \in Thread : t # "arbitrator" => pc'[t] = pc[t] /\ event'[t] = event[t]
    BY <1>34 DEF Planned, ThreadType, MachineType
  <2>2. CASE Queued
    BY <2>1, <2>2 DEF Queued
  <2>3. CASE WillQueue
    BY <2>1, <2>3 DEF WillQueue
  <2>4. CASE AtWork
    BY <2>1, <2>4, <1>34 DEF AtWork, Planned, ThreadType, MachineType
  <2>5. CASE RouteDone
    BY <2>1, <2>5 DEF RouteDone
  <2> QED
    BY <2>1, <2>2, <2>3, <2>4, <2>5 DEF PlannerInv
<1>35. CASE OnProgress
  <2> SUFFICES ASSUME machine' \in Planning
               PROVE  Queued' \/ WillQueue' \/ AtWork' \/ RouteDone'
    BY DEF PlannerInv
  <2>1. /\ UNCHANGED <<machine, arbJobs, seen, plans, planVars>>
        /\ pc["route"] \notin {"look", "read", "notify"}
        /\ \A t \in Thread : t # "route" => pc'[t] = pc[t] /\ event'[t] = event[t]
    BY <1>35 DEF OnProgress, ThreadType, MachineType
  <2>2. CASE Queued
    BY <2>1, <2>2 DEF Queued
  <2>3. CASE WillQueue
    BY <2>1, <2>3 DEF WillQueue
  <2>4. CASE AtWork
    BY <2>1, <2>4, <1>35 DEF AtWork, OnProgress, ThreadType, MachineType
  <2>5. CASE RouteDone
    BY <2>1, <2>5 DEF RouteDone
  <2> QED
    BY <2>1, <2>2, <2>3, <2>4, <2>5 DEF PlannerInv
<1>36. CASE Failure
  BY <1>36 DEF Failure, PlannerInv, Queued, WillQueue, AtWork, RouteDone, ThreadType
<1>37. CASE notifyTrajectoryFailure
  BY <1>37
  DEF notifyTrajectoryFailure, PlannerInv, Queued, WillQueue, AtWork, RouteDone, ThreadType
<1>38. CASE GuidanceChange
  BY <1>38 DEF GuidanceChange, PlannerInv, Queued, WillQueue, AtWork, RouteDone, ThreadType
<1>39. CASE UNCHANGED vars
  BY <1>39 DEF vars, PlannerInv, Queued, WillQueue, AtWork, RouteDone, ThreadType
<1> QED
  BY <1>1, <1>2, <1>3, <1>4, <1>5, <1>6, <1>7, <1>8, <1>9, <1>10, <1>11, <1>12, <1>13, <1>14,
     <1>15, <1>16, <1>17, <1>18, <1>19, <1>20, <1>21, <1>22, <1>23, <1>24, <1>25, <1>26, <1>27,
     <1>28, <1>29, <1>30, <1>31, <1>32, <1>33, <1>34, <1>35, <1>36, <1>37, <1>38, <1>39
  DEF Next, Executor, Route, ArbitratorThread, Other, ExecutorThread, RouteThread, processEvent

(* The newest trajectory is in the hands of the arbitrator. *)
LEMMA NewestStep == IInv /\ [Next]_vars => NewestInv'
<1> SUFFICES ASSUME IInv, [Next]_vars
             PROVE  NewestInv'
  OBVIOUS
<1> USE PlansAssumption, ArbitratorAssumption
    DEF IInv, Thread, None, Go, Raise, executorVars, bufferVars, planVars, routeVars,
       machineVars, guidanceVars, executorAll, arbitratorAll
<1>1. CASE TakeExecutorJob /\ UNCHANGED arbitratorAll
  <2>1. /\ pc["executor"] = "idle" /\ exJobs # <<>> /\ exJobs' = Tail(exJobs)
        /\ \/ /\ exState' = exState
              /\ \/ pc' = [pc EXCEPT !["executor"] = "engage_run"]
                 \/ pc' = [pc EXCEPT !["executor"] = "engaged"]
           \/ /\ exState' \in {"ACTIVE", "INACTIVE", "DRIVERS_READY"}
              /\ pc' = pc \/ pc' = [pc EXCEPT !["executor"] = "abort"]
    BY <1>1, ExecutorJob
  <2>2. UNCHANGED <<currentTrajectory, bufferedTrajectoryRunning, bufferVars, callbacks, planVars, traj, routeVars, arbitratorAll>>
    BY <1>1 DEF TakeExecutorJob
  <2> QED
    BY <2>1, <2>2 DEF NewestInv, PlanType, ThreadType
<1>2. CASE EngageRun /\ UNCHANGED arbitratorAll
  BY <1>2 DEF EngageRun, NewestInv, PlanType, ThreadType
<1>3. CASE Engaged /\ UNCHANGED arbitratorAll
  BY <1>3 DEF Engaged, NewestInv, PlanType, ThreadType
<1>4. CASE CleanRestart /\ UNCHANGED arbitratorAll
  BY <1>4 DEF CleanRestart, NewestInv, PlanType, ThreadType
<1>5. CASE UnregisterAll /\ UNCHANGED arbitratorAll
  BY <1>5 DEF UnregisterAll, NewestInv, PlanType, ThreadType
<1>6. CASE RestartDone /\ UNCHANGED arbitratorAll
  BY <1>6 DEF RestartDone, NewestInv, PlanType, ThreadType
<1>7. ASSUME NEW th \in {"executor", "arbitrator"}, Run(th), UNCHANGED arbitratorAll
     PROVE  NewestInv'
  BY <1>7 DEF Run, NewestInv, PlanType, ThreadType
<1>8. ASSUME NEW th \in {"executor", "arbitrator"}, RunSet(th), UNCHANGED arbitratorAll
     PROVE  NewestInv'
  BY <1>8 DEF RunSet, NewestInv, PlanType, ThreadType
<1>9. ASSUME NEW th \in {"executor", "arbitrator"}, RunReset(th), UNCHANGED arbitratorAll
     PROVE  NewestInv'
  BY <1>9 DEF RunReset, RunDone, Reset, NewestInv, PlanType, ThreadType
<1>10. ASSUME NEW th \in {"executor", "arbitrator"}, RunQueue(th), UNCHANGED arbitratorAll
     PROVE  NewestInv'
  BY <1>10 DEF RunQueue, RunDone, NewestInv, PlanType, ThreadType
<1>11. ASSUME NEW th \in {"executor", "arbitrator"}, Abort(th), UNCHANGED arbitratorAll
     PROVE  NewestInv'
  BY <1>11 DEF Abort, NewestInv, PlanType, ThreadType
<1>12. ASSUME NEW th \in {"executor", "arbitrator"}, AbortNext(th), UNCHANGED arbitratorAll
     PROVE  NewestInv'
  BY <1>12 DEF AbortNext, NewestInv, PlanType, ThreadType
<1>13. CASE Submit /\ UNCHANGED arbitratorAll
  BY <1>13 DEF Submit, NewestInv, PlanType, ThreadType
<1>14. CASE RouteState /\ UNCHANGED arbitratorAll
  BY <1>14 DEF RouteState, Milestones, NewestInv, PlanType, ThreadType
<1>15. CASE Swap /\ UNCHANGED arbitratorAll
  BY <1>15 DEF Swap, NewestInv, PlanType, ThreadType
<1>16. CASE SwapRead /\ UNCHANGED arbitratorAll
  BY <1>16 DEF SwapRead, NewestInv, PlanType, ThreadType
<1>17. CASE SwapSet /\ UNCHANGED arbitratorAll
  BY <1>17 DEF SwapSet, NewestInv, PlanType, ThreadType
<1>18. CASE SwapClear /\ UNCHANGED arbitratorAll
  BY <1>18 DEF SwapClear, NewestInv, PlanType, ThreadType
<1>19. CASE SwapReset /\ UNCHANGED arbitratorAll
  BY <1>19 DEF SwapReset, Reset, NewestInv, PlanType, ThreadType
<1>20. CASE Snapshot /\ UNCHANGED arbitratorAll
  BY <1>20 DEF Snapshot, Live, NewestInv, PlanType, ThreadType
<1>21. CASE CompletionPct /\ UNCHANGED arbitratorAll
  BY <1>21 DEF CompletionPct, NewestInv, PlanType, ThreadType
<1>22. CASE Each /\ UNCHANGED arbitratorAll
  BY <1>22 DEF Each, NewestInv, PlanType, ThreadType
<1>23. CASE Mark /\ UNCHANGED arbitratorAll
  BY <1>23 DEF Mark, NewestInv, PlanType, ThreadType
<1>24. ASSUME NEW th \in {"route", "arbitrator", "other"}, Event(th)
     PROVE  NewestInv'
  BY <1>24 DEF Event, NewestInv, PlanType, ThreadType
<1>25. ASSUME NEW th \in {"route", "arbitrator", "other"}, Look(th)
     PROVE  NewestInv'
  BY <1>25 DEF Look, After, NewestInv, PlanType, ThreadType
<1>26. ASSUME NEW th \in {"route", "arbitrator", "other"}, Read(th)
     PROVE  NewestInv'
  BY <1>26 DEF Read, NewestInv, PlanType, ThreadType
<1>27. ASSUME NEW th \in {"route", "arbitrator", "other"}, Notify(th)
     PROVE  NewestInv'
  BY <1>27 DEF Notify, After, NewestInv, PlanType, ThreadType
<1>28. CASE TakeArbitratorJob
  BY <1>28 DEF TakeArbitratorJob, NewestInv, PlanType, ThreadType
<1>29. CASE PlanNothing
  BY <1>29 DEF PlanNothing, NewestInv, PlanType, ThreadType
<1>30. CASE PlanAfterRoute
  BY <1>30 DEF PlanAfterRoute, NewestInv, PlanType, ThreadType
<1>31. CASE PlanThrows
  BY <1>31 DEF PlanThrows, NewestInv, PlanType, ThreadType
<1>32. CASE Plan
  BY <1>32 DEF Plan, ToPlan, NewestInv, PlanType, ThreadType
<1>33. CASE Register
  BY <1>33 DEF Register, register, NewestInv, PlanType, ThreadType
<1>34. CASE Planned
  BY <1>34 DEF Planned, NewestInv, PlanType, ThreadType
<1>35. CASE OnProgress
  BY <1>35 DEF OnProgress, register, NewestInv, PlanType, ThreadType
<1>36. CASE Failure
  BY <1>36 DEF Failure, NewestInv, PlanType, ThreadType
<1>37. CASE notifyTrajectoryFailure
  BY <1>37 DEF notifyTrajectoryFailure, NewestInv, PlanType, ThreadType
<1>38. CASE GuidanceChange
  BY <1>38 DEF GuidanceChange, NewestInv, PlanType, ThreadType
<1>39. CASE UNCHANGED vars
  BY <1>39 DEF vars, NewestInv, PlanType, ThreadType
<1> QED
  BY <1>1, <1>2, <1>3, <1>4, <1>5, <1>6, <1>7, <1>8, <1>9, <1>10, <1>11, <1>12, <1>13, <1>14,
     <1>15, <1>16, <1>17, <1>18, <1>19, <1>20, <1>21, <1>22, <1>23, <1>24, <1>25, <1>26, <1>27,
     <1>28, <1>29, <1>30, <1>31, <1>32, <1>33, <1>34, <1>35, <1>36, <1>37, <1>38, <1>39
  DEF Next, Executor, Route, ArbitratorThread, Other, ExecutorThread, RouteThread, processEvent

(* The initial planning is done once. *)
LEMMA StartStep == IInv /\ [Next]_vars => StartInv'
<1> SUFFICES ASSUME IInv, [Next]_vars
             PROVE  StartInv'
  OBVIOUS
<1> USE PlansAssumption, ArbitratorAssumption
    DEF IInv, Thread, None, Go, Raise, executorVars, bufferVars, planVars, routeVars,
       machineVars, guidanceVars, executorAll, arbitratorAll
<1>1. CASE TakeExecutorJob /\ UNCHANGED arbitratorAll
  <2>1. /\ pc["executor"] = "idle" /\ exJobs # <<>> /\ exJobs' = Tail(exJobs)
        /\ \/ /\ exState' = exState
              /\ \/ pc' = [pc EXCEPT !["executor"] = "engage_run"]
                 \/ pc' = [pc EXCEPT !["executor"] = "engaged"]
           \/ /\ exState' \in {"ACTIVE", "INACTIVE", "DRIVERS_READY"}
              /\ pc' = pc \/ pc' = [pc EXCEPT !["executor"] = "abort"]
    BY <1>1, ExecutorJob
  <2>2. UNCHANGED <<currentTrajectory, bufferedTrajectoryRunning, bufferVars, callbacks, planVars, traj, routeVars, arbitratorAll>>
    BY <1>1 DEF TakeExecutorJob
  <2> QED
    BY <2>1, <2>2 DEF StartInv, First, Ahead, ThreadType
<1>2. CASE EngageRun /\ UNCHANGED arbitratorAll
  BY <1>2 DEF EngageRun, StartInv, First, Ahead, ThreadType, PlanType, MachineType
<1>3. CASE Engaged /\ UNCHANGED arbitratorAll
  BY <1>3 DEF Engaged, StartInv, First, Ahead, ThreadType, PlanType, MachineType
<1>4. CASE CleanRestart /\ UNCHANGED arbitratorAll
  BY <1>4 DEF CleanRestart, StartInv, First, Ahead, ThreadType, PlanType, MachineType
<1>5. CASE UnregisterAll /\ UNCHANGED arbitratorAll
  BY <1>5 DEF UnregisterAll, StartInv, First, Ahead, ThreadType, PlanType, MachineType
<1>6. CASE RestartDone /\ UNCHANGED arbitratorAll
  BY <1>6 DEF RestartDone, StartInv, First, Ahead, ThreadType, PlanType, MachineType
<1>7. ASSUME NEW th \in {"executor", "arbitrator"}, Run(th), UNCHANGED arbitratorAll
     PROVE  StartInv'
  BY <1>7 DEF Run, StartInv, First, Ahead, ThreadType, PlanType, MachineType
<1>8. ASSUME NEW th \in {"executor", "arbitrator"}, RunSet(th), UNCHANGED arbitratorAll
     PROVE  StartInv'
  BY <1>8 DEF RunSet, StartInv, First, Ahead, ThreadType, PlanType, MachineType
<1>9. ASSUME NEW th \in {"executor", "arbitrator"}, RunReset(th), UNCHANGED arbitratorAll
     PROVE  StartInv'
  BY <1>9 DEF RunReset, RunDone, Reset, StartInv, First, Ahead, ThreadType, PlanType, MachineType
<1>10. ASSUME NEW th \in {"executor", "arbitrator"}, RunQueue(th), UNCHANGED arbitratorAll
     PROVE  StartInv'
  BY <1>10 DEF RunQueue, RunDone, StartInv, First, Ahead, ThreadType, PlanType, MachineType
<1>11. ASSUME NEW th \in {"executor", "arbitrator"}, Abort(th), UNCHANGED arbitratorAll
     PROVE  StartInv'
  BY <1>11 DEF Abort, StartInv, First, Ahead, ThreadType, PlanType, MachineType
<1>12. ASSUME NEW th \in {"executor", "arbitrator"}, AbortNext(th), UNCHANGED arbitratorAll
     PROVE  StartInv'
  BY <1>12 DEF AbortNext, StartInv, First, Ahead, ThreadType, PlanType, MachineType
<1>13. CASE Submit /\ UNCHANGED arbitratorAll
  BY <1>13 DEF Submit, StartInv, First, Ahead, ThreadType, PlanType, MachineType
<1>14. CASE RouteState /\ UNCHANGED arbitratorAll
  BY <1>14 DEF RouteState, Milestones, StartInv, First, Ahead, ThreadType, PlanType, MachineType
<1>15. CASE Swap /\ UNCHANGED arbitratorAll
  BY <1>15 DEF Swap, StartInv, First, Ahead, ThreadType, PlanType, MachineType
<1>16. CASE SwapRead /\ UNCHANGED arbitratorAll
  BY <1>16 DEF SwapRead, StartInv, First, Ahead, ThreadType, PlanType, MachineType
<1>17. CASE SwapSet /\ UNCHANGED arbitratorAll
  BY <1>17 DEF SwapSet, StartInv, First, Ahead, ThreadType, PlanType, MachineType
<1>18. CASE SwapClear /\ UNCHANGED arbitratorAll
  BY <1>18 DEF SwapClear, StartInv, First, Ahead, ThreadType, PlanType, MachineType
<1>19. CASE SwapReset /\ UNCHANGED arbitratorAll
  BY <1>19 DEF SwapReset, Reset, StartInv, First, Ahead, ThreadType, PlanType, MachineType
<1>20. CASE Snapshot /\ UNCHANGED arbitratorAll
  BY <1>20 DEF Snapshot, Live, StartInv, First, Ahead, ThreadType, PlanType, MachineType
<1>21. CASE CompletionPct /\ UNCHANGED arbitratorAll
  BY <1>21 DEF CompletionPct, StartInv, First, Ahead, ThreadType, PlanType, MachineType
<1>22. CASE Each /\ UNCHANGED arbitratorAll
  BY <1>22 DEF Each, StartInv, First, Ahead, ThreadType, PlanType, MachineType
<1>23. CASE Mark /\ UNCHANGED arbitratorAll
  BY <1>23 DEF Mark, StartInv, First, Ahead, ThreadType, PlanType, MachineType
<1>24. ASSUME NEW th \in {"route", "arbitrator", "other"}, Event(th)
     PROVE  StartInv'
  <2> SUFFICES ASSUME First'
               PROVE  StartInv'
    BY DEF StartInv
  <2>1. /\ pc[th] = "event" /\ pc' = [pc EXCEPT ![th] = "look"] /\ DOMAIN pc = Thread
        /\ seen' = [seen EXCEPT ![th] = machine] /\ DOMAIN seen = Thread
        /\ UNCHANGED <<arbJobs, event, plans, job, changes, failures>> /\ First
    BY <1>24 DEF Event, ThreadType, MachineType, First
  <2>2. machine' = "INITIAL_PLANNING" => machine = "INITIAL_PLANNING" \/ event[th] = "INITIALIZE"
    BY <1>24, SuccessorOf DEF Event, MachineType
  <2>3. changes # 0 /\ pc'["other"] = "idle" /\ th # "other" /\ (Ahead' <=> Ahead)
    BY <2>1 DEF StartInv, Ahead
  <2>4. CASE Ahead
    BY <2>1, <2>3, <2>4 DEF StartInv
  <2>5. CASE ~Ahead
    <3>1. event[th] # "INITIALIZE"
      BY <2>1, <2>3, <2>5 DEF Ahead, MachineType, Alert
    <3>2. ASSUME NEW t \in Thread
          PROVE  /\ pc'[t] = "notify" => seen'[t] # "INITIAL_PLANNING"
                 /\ pc'[t] = "read" => machine' # "INITIAL_PLANNING"
                 /\ pc'[t] = "look" /\ machine' = "INITIAL_PLANNING" => seen'[t] = "INITIAL_PLANNING"
      BY <2>1, <2>2, <2>5, <3>1 DEF StartInv
    <3> QED
      BY <2>1, <2>3, <2>5, <3>2 DEF StartInv
  <2> QED
    BY <2>4, <2>5
<1>25. ASSUME NEW th \in {"route", "arbitrator", "other"}, Look(th)
     PROVE  StartInv'
  BY <1>25 DEF Look, After, StartInv, First, Ahead, ThreadType, PlanType, MachineType
<1>26. ASSUME NEW th \in {"route", "arbitrator", "other"}, Read(th)
     PROVE  StartInv'
  BY <1>26 DEF Read, StartInv, First, Ahead, ThreadType, PlanType, MachineType
<1>27. ASSUME NEW th \in {"route", "arbitrator", "other"}, Notify(th)
     PROVE  StartInv'
  <2> SUFFICES ASSUME First'
               PROVE  StartInv'
    BY DEF StartInv
  <2>1. /\ pc[th] = "notify" /\ DOMAIN pc = Thread /\ DOMAIN seen = Thread /\ DOMAIN event = Thread
        /\ UNCHANGED <<machine, plans, job, changes, failures>> /\ First
        /\ arbJobs' = IF seen[th] \in Planning THEN Append(arbJobs, seen[th]) ELSE arbJobs
    BY <1>27 DEF Notify, ThreadType, MachineType, First
  <2>2. /\ \A t \in Thread : t # th => pc'[t] = pc[t] /\ seen'[t] = seen[t] /\ event'[t] = event[t]
        /\ pc'[th] \in {"idle", "callbacks", "mark"} /\ (th = "arbitrator" => pc'[th] = "idle")
    BY <2>1, <1>27 DEF Notify, After
  <2>3. th # "other" /\ pc'["other"] = "idle" /\ changes # 0
    BY <2>1, <2>2 DEF StartInv, Ahead
  <2>4. CASE Ahead
    <3>1. th = "arbitrator" /\ arbJobs = <<>> /\ plans = 0 /\ pc["route"] = "idle"
      BY <2>1, <2>3, <2>4 DEF StartInv
    <3>2. Len(arbJobs') <= 1
      BY <2>1, <3>1
    <3>3. \A t \in Thread : pc'[t] \notin {"look", "read", "notify"}
      BY <2>2, <2>3, <3>1 DEF ThreadType
    <3> QED
      BY <2>1, <2>2, <2>3, <3>1, <3>2, <3>3 DEF StartInv
  <2>5. CASE ~Ahead
    <3>1. seen[th] # "INITIAL_PLANNING"
      BY <2>1, <2>5 DEF StartInv
    <3>2. \A i \in DOMAIN arbJobs' : arbJobs'[i] \notin {"ENGAGE", "INITIAL_PLANNING"}
      <4>1. \A i \in DOMAIN arbJobs : arbJobs[i] \notin {"ENGAGE", "INITIAL_PLANNING"}
        BY <2>5 DEF Ahead
      <4>2. CASE seen[th] \in Planning
        <5>1. seen[th] \in Job /\ arbJobs \in Seq(Job) /\ seen[th] # "ENGAGE"
          BY <4>2 DEF Job, JobType, Planning
        <5> QED
          BY <2>1, <3>1, <4>1, <4>2, <5>1, PutLast
      <4>3. CASE seen[th] \notin Planning
        BY <2>1, <4>1, <4>3
      <4> QED
        BY <4>2, <4>3
    <3>3. ~Ahead'
      BY <2>1, <2>2, <2>3, <2>5, <3>2 DEF Ahead
    <3>4. \A t \in Thread :
             /\ pc'[t] = "notify" => seen'[t] # "INITIAL_PLANNING"
             /\ pc'[t] = "read" => machine' # "INITIAL_PLANNING"
             /\ pc'[t] = "look" /\ machine' = "INITIAL_PLANNING" => seen'[t] = "INITIAL_PLANNING"
      BY <2>1, <2>2, <2>5 DEF StartInv
    <3> QED
      BY <2>1, <2>3, <3>3, <3>4 DEF StartInv
  <2> QED
    BY <2>4, <2>5
<1>28. CASE TakeArbitratorJob
  <2> SUFFICES ASSUME First'
               PROVE  StartInv'
    BY DEF StartInv
  <2>1. /\ pc["arbitrator"] = "idle" /\ arbJobs # <<>> /\ arbJobs' = Tail(arbJobs)
        /\ \/ /\ Head(arbJobs) = "ENGAGE" /\ job' = job
              /\ event' = [event EXCEPT !["arbitrator"] = "INITIALIZE"]
              /\ pc' = [pc EXCEPT !["arbitrator"] = "event"]
           \/ /\ Head(arbJobs) = "RESTART" /\ job' = job
              /\ event' = [event EXCEPT !["arbitrator"] = "CLEAN_RESTART"]
              /\ pc' = [pc EXCEPT !["arbitrator"] = "event"]
           \/ /\ Head(arbJobs) \in Planning /\ job' = Head(arbJobs) /\ event' = event
              /\ pc' = [pc EXCEPT !["arbitrator"] = "plan"]
    BY <1>28, ArbitratorJob
  <2>2. UNCHANGED <<executorAll, machine, seen, plans, guidanceVars, failures>>
    BY <1>28 DEF TakeArbitratorJob
  <2>3. First /\ changes # 0 /\ pc["other"] = "idle"
    BY <2>1, <2>2 DEF First, StartInv
  <2>4. \A t \in Thread : t # "arbitrator" => pc'[t] = pc[t]
    BY <2>1 DEF ThreadType
  <2>5. pc'["arbitrator"] \in {"event", "plan"}
    BY <2>1 DEF ThreadType
  <2>6. Head(arbJobs) = arbJobs[1] /\ 1 \in DOMAIN arbJobs
    BY <2>1, TakeHead DEF JobType
  <2>7. CASE Head(arbJobs) \in {"ENGAGE", "INITIAL_PLANNING"}
    <3>1. Ahead
      BY <2>6, <2>7 DEF Ahead
    <3>2. plans = 0 /\ pc["route"] = "idle" /\ Len(arbJobs) <= 1
      BY <2>3, <3>1 DEF StartInv
    <3>3. arbJobs' = <<>>
      BY <2>1, <3>2, TakeHead DEF JobType
    <3>4. Ahead'
      BY <2>1, <2>7 DEF Ahead, ThreadType, MachineType, Planning
    <3> QED
      BY <2>2, <2>3, <2>4, <2>5, <3>2, <3>3, <3>4 DEF StartInv
  <2>8. CASE Head(arbJobs) \notin {"ENGAGE", "INITIAL_PLANNING"}
    <3>1. ~Ahead
      <4> SUFFICES ASSUME Ahead
                   PROVE  FALSE
        OBVIOUS
      <4>1. Len(arbJobs) <= 1
        BY <2>3 DEF StartInv
      <4>2. \A i \in DOMAIN arbJobs : i = 1
        BY <4>1, LenProperties DEF JobType
      <4> QED
        BY <2>1, <2>3, <2>6, <2>8, <4>2 DEF Ahead
    <3>2. \A i \in DOMAIN arbJobs' : arbJobs'[i] \notin {"ENGAGE", "INITIAL_PLANNING"}
      BY <2>1, <3>1, TakeHead DEF JobType, Ahead
    <3>3. ~Ahead'
      BY <2>1, <2>2, <2>3, <2>5, <2>8, <3>2 DEF Ahead, ThreadType, MachineType
    <3> QED
      BY <2>2, <2>3, <2>4, <2>5, <3>1, <3>3 DEF StartInv
  <2> QED
    BY <2>7, <2>8
<1>29. CASE PlanNothing
  BY <1>29 DEF PlanNothing, StartInv, First, Ahead, ThreadType, PlanType, MachineType
<1>30. CASE PlanAfterRoute
  BY <1>30 DEF PlanAfterRoute, StartInv, First, Ahead, ThreadType, PlanType, MachineType
<1>31. CASE PlanThrows
  BY <1>31 DEF PlanThrows, StartInv, First, Ahead, ThreadType, PlanType, MachineType
<1>32. CASE Plan
  BY <1>32 DEF Plan, ToPlan, StartInv, First, Ahead, ThreadType, PlanType, MachineType
<1>33. CASE Register
  BY <1>33 DEF Register, register, StartInv, First, Ahead, ThreadType, PlanType, MachineType
<1>34. CASE Planned
  BY <1>34 DEF Planned, StartInv, First, Ahead, ThreadType, PlanType, MachineType
<1>35. CASE OnProgress
  <2> SUFFICES ASSUME First'
               PROVE  StartInv'
    BY DEF StartInv
  <2>1. /\ UNCHANGED <<machine, arbJobs, seen, plans, job, changes, failures>>
        /\ pc["route"] # "idle" /\ pc'["route"] \notin {"look", "read", "notify"}
        /\ \A t \in Thread : t # "route" => pc'[t] = pc[t] /\ event'[t] = event[t]
    BY <1>35 DEF OnProgress, ThreadType, MachineType
  <2>2. First /\ (Ahead' <=> Ahead)
    BY <2>1 DEF First, Ahead
  <2> QED
    BY <2>1, <2>2 DEF StartInv
<1>36. CASE Failure
  BY <1>36 DEF Failure, StartInv, First, Ahead, ThreadType, PlanType, MachineType
<1>37. CASE notifyTrajectoryFailure
  BY <1>37 DEF notifyTrajectoryFailure, StartInv, First, Ahead, ThreadType, PlanType, MachineType
<1>38. CASE GuidanceChange
  BY <1>38 DEF GuidanceChange, StartInv, First, Ahead, ThreadType, PlanType, MachineType
<1>39. CASE UNCHANGED vars
  BY <1>39 DEF vars, StartInv, First, Ahead, ThreadType, PlanType, MachineType
<1> QED
  BY <1>1, <1>2, <1>3, <1>4, <1>5, <1>6, <1>7, <1>8, <1>9, <1>10, <1>11, <1>12, <1>13, <1>14,
     <1>15, <1>16, <1>17, <1>18, <1>19, <1>20, <1>21, <1>22, <1>23, <1>24, <1>25, <1>26, <1>27,
     <1>28, <1>29, <1>30, <1>31, <1>32, <1>33, <1>34, <1>35, <1>36, <1>37, <1>38, <1>39
  DEF Next, Executor, Route, ArbitratorThread, Other, ExecutorThread, RouteThread, processEvent

(* The executor engages first. *)
LEMMA ExecutorStep == IInv /\ [Next]_vars => ExecutorInv'
<1> SUFFICES ASSUME IInv, [Next]_vars
             PROVE  ExecutorInv'
  OBVIOUS
<1> USE PlansAssumption, ArbitratorAssumption
    DEF IInv, Thread, None, Go, Raise, executorVars, bufferVars, planVars, routeVars,
       machineVars, guidanceVars, executorAll, arbitratorAll
<1>1. CASE TakeExecutorJob /\ UNCHANGED arbitratorAll
  <2>1. /\ pc["executor"] = "idle" /\ exJobs # <<>> /\ exJobs' = Tail(exJobs)
        /\ \/ /\ exState' = exState
              /\ \/ pc' = [pc EXCEPT !["executor"] = "engage_run"]
                 \/ pc' = [pc EXCEPT !["executor"] = "engaged"]
           \/ /\ exState' \in {"ACTIVE", "INACTIVE", "DRIVERS_READY"}
              /\ pc' = pc \/ pc' = [pc EXCEPT !["executor"] = "abort"]
    BY <1>1, ExecutorJob
  <2>2. UNCHANGED <<currentTrajectory, bufferedTrajectoryRunning, bufferVars, callbacks, planVars, traj, routeVars, arbitratorAll>>
    BY <1>1 DEF TakeExecutorJob
  <2>3. /\ Len(exJobs) <= 1 => exJobs' = <<>>
        /\ Len(exJobs') = Len(exJobs) - 1 /\ Len(exJobs) \in Nat
    BY <2>1, TakeHead DEF JobType
  <2>4. DOMAIN pc = Thread
    BY DEF ThreadType
  <2> QED
    BY <2>1, <2>2, <2>3, <2>4 DEF ExecutorInv, First
<1>2. CASE EngageRun /\ UNCHANGED arbitratorAll
  BY <1>2 DEF EngageRun, ExecutorInv, First, ThreadType, PlanType, StartInv
<1>3. CASE Engaged /\ UNCHANGED arbitratorAll
  BY <1>3 DEF Engaged, ExecutorInv, First, ThreadType, PlanType, StartInv
<1>4. CASE CleanRestart /\ UNCHANGED arbitratorAll
  BY <1>4 DEF CleanRestart, ExecutorInv, First, ThreadType, PlanType, StartInv
<1>5. CASE UnregisterAll /\ UNCHANGED arbitratorAll
  BY <1>5 DEF UnregisterAll, ExecutorInv, First, ThreadType, PlanType, StartInv
<1>6. CASE RestartDone /\ UNCHANGED arbitratorAll
  BY <1>6 DEF RestartDone, ExecutorInv, First, ThreadType, PlanType, StartInv
<1>7. ASSUME NEW th \in {"executor", "arbitrator"}, Run(th), UNCHANGED arbitratorAll
     PROVE  ExecutorInv'
  BY <1>7 DEF Run, ExecutorInv, First, ThreadType, PlanType, StartInv
<1>8. ASSUME NEW th \in {"executor", "arbitrator"}, RunSet(th), UNCHANGED arbitratorAll
     PROVE  ExecutorInv'
  BY <1>8 DEF RunSet, ExecutorInv, First, ThreadType, PlanType, StartInv
<1>9. ASSUME NEW th \in {"executor", "arbitrator"}, RunReset(th), UNCHANGED arbitratorAll
     PROVE  ExecutorInv'
  BY <1>9 DEF RunReset, RunDone, Reset, ExecutorInv, First, ThreadType, PlanType, StartInv
<1>10. ASSUME NEW th \in {"executor", "arbitrator"}, RunQueue(th), UNCHANGED arbitratorAll
     PROVE  ExecutorInv'
  BY <1>10 DEF RunQueue, RunDone, ExecutorInv, First, ThreadType, PlanType, StartInv
<1>11. ASSUME NEW th \in {"executor", "arbitrator"}, Abort(th), UNCHANGED arbitratorAll
     PROVE  ExecutorInv'
  BY <1>11 DEF Abort, ExecutorInv, First, ThreadType, PlanType, StartInv
<1>12. ASSUME NEW th \in {"executor", "arbitrator"}, AbortNext(th), UNCHANGED arbitratorAll
     PROVE  ExecutorInv'
  BY <1>12 DEF AbortNext, ExecutorInv, First, ThreadType, PlanType, StartInv
<1>13. CASE Submit /\ UNCHANGED arbitratorAll
  BY <1>13 DEF Submit, ExecutorInv, First, ThreadType, PlanType, StartInv
<1>14. CASE RouteState /\ UNCHANGED arbitratorAll
  BY <1>14 DEF RouteState, Milestones, ExecutorInv, First, ThreadType, PlanType, StartInv
<1>15. CASE Swap /\ UNCHANGED arbitratorAll
  BY <1>15 DEF Swap, ExecutorInv, First, ThreadType, PlanType, StartInv
<1>16. CASE SwapRead /\ UNCHANGED arbitratorAll
  BY <1>16 DEF SwapRead, ExecutorInv, First, ThreadType, PlanType, StartInv
<1>17. CASE SwapSet /\ UNCHANGED arbitratorAll
  BY <1>17 DEF SwapSet, ExecutorInv, First, ThreadType, PlanType, StartInv
<1>18. CASE SwapClear /\ UNCHANGED arbitratorAll
  BY <1>18 DEF SwapClear, ExecutorInv, First, ThreadType, PlanType, StartInv
<1>19. CASE SwapReset /\ UNCHANGED arbitratorAll
  BY <1>19 DEF SwapReset, Reset, ExecutorInv, First, ThreadType, PlanType, StartInv
<1>20. CASE Snapshot /\ UNCHANGED arbitratorAll
  BY <1>20 DEF Snapshot, Live, ExecutorInv, First, ThreadType, PlanType, StartInv
<1>21. CASE CompletionPct /\ UNCHANGED arbitratorAll
  BY <1>21 DEF CompletionPct, ExecutorInv, First, ThreadType, PlanType, StartInv
<1>22. CASE Each /\ UNCHANGED arbitratorAll
  BY <1>22 DEF Each, ExecutorInv, First, ThreadType, PlanType, StartInv
<1>23. CASE Mark /\ UNCHANGED arbitratorAll
  BY <1>23 DEF Mark, ExecutorInv, First, ThreadType, PlanType, StartInv
<1>24. ASSUME NEW th \in {"route", "arbitrator", "other"}, Event(th)
     PROVE  ExecutorInv'
  BY <1>24 DEF Event, ExecutorInv, First, ThreadType, PlanType, StartInv
<1>25. ASSUME NEW th \in {"route", "arbitrator", "other"}, Look(th)
     PROVE  ExecutorInv'
  BY <1>25 DEF Look, After, ExecutorInv, First, ThreadType, PlanType, StartInv
<1>26. ASSUME NEW th \in {"route", "arbitrator", "other"}, Read(th)
     PROVE  ExecutorInv'
  BY <1>26 DEF Read, ExecutorInv, First, ThreadType, PlanType, StartInv
<1>27. ASSUME NEW th \in {"route", "arbitrator", "other"}, Notify(th)
     PROVE  ExecutorInv'
  BY <1>27 DEF Notify, After, ExecutorInv, First, ThreadType, PlanType, StartInv
<1>28. CASE TakeArbitratorJob
  BY <1>28 DEF TakeArbitratorJob, ExecutorInv, First, ThreadType, PlanType, StartInv
<1>29. CASE PlanNothing
  BY <1>29 DEF PlanNothing, ExecutorInv, First, ThreadType, PlanType, StartInv
<1>30. CASE PlanAfterRoute
  BY <1>30 DEF PlanAfterRoute, ExecutorInv, First, ThreadType, PlanType, StartInv
<1>31. CASE PlanThrows
  BY <1>31 DEF PlanThrows, ExecutorInv, First, ThreadType, PlanType, StartInv
<1>32. CASE Plan
  BY <1>32 DEF Plan, ToPlan, ExecutorInv, First, ThreadType, PlanType, StartInv
<1>33. CASE Register
  BY <1>33 DEF Register, register, ExecutorInv, First, ThreadType, PlanType, StartInv
<1>34. CASE Planned
  BY <1>34 DEF Planned, ExecutorInv, First, ThreadType, PlanType, StartInv
<1>35. CASE OnProgress
  BY <1>35 DEF OnProgress, register, ExecutorInv, First, ThreadType, PlanType, StartInv
<1>36. CASE Failure
  BY <1>36 DEF Failure, ExecutorInv, First, ThreadType, PlanType, StartInv
<1>37. CASE notifyTrajectoryFailure
  BY <1>37 DEF notifyTrajectoryFailure, ExecutorInv, First, ThreadType, PlanType, StartInv
<1>38. CASE GuidanceChange
  <2> SUFFICES ASSUME First'
               PROVE  ExecutorInv'
    BY DEF ExecutorInv
  <2>1. /\ UNCHANGED <<exState, pc, next, current, traj, failures>>
        /\ changes' = changes + 1 /\ changes \in Nat
    BY <1>38 DEF GuidanceChange, PlanType
  <2>2. changes = 0 /\ First
    BY <2>1 DEF First
  <2>3. exJobs = <<>> /\ pc["executor"] = "idle" /\ pc["arbitrator"] = "idle"
    BY <2>2 DEF ExecutorInv, StartInv
  <2>4. PICK j \in {"ENGAGE", "RESTART", "ACTIVATE", "DEACTIVATE"} : exJobs' = Append(exJobs, j)
    BY <1>38, GuidanceJobs
  <2>5. Len(exJobs') <= 1
    BY <2>3, <2>4
  <2>6. exState # "ENGAGED"
    BY <2>2 DEF ExecutorInv
  <2> QED
    BY <2>1, <2>2, <2>3, <2>5, <2>6 DEF ExecutorInv
<1>39. CASE UNCHANGED vars
  BY <1>39 DEF vars, ExecutorInv, First, ThreadType, PlanType, StartInv
<1> QED
  BY <1>1, <1>2, <1>3, <1>4, <1>5, <1>6, <1>7, <1>8, <1>9, <1>10, <1>11, <1>12, <1>13, <1>14,
     <1>15, <1>16, <1>17, <1>18, <1>19, <1>20, <1>21, <1>22, <1>23, <1>24, <1>25, <1>26, <1>27,
     <1>28, <1>29, <1>30, <1>31, <1>32, <1>33, <1>34, <1>35, <1>36, <1>37, <1>38, <1>39
  DEF Next, Executor, Route, ArbitratorThread, Other, ExecutorThread, RouteThread, processEvent

(* Nothing is buffered when nothing runs. *)
LEMMA BufferStep == IInv /\ [Next]_vars => BufferInv'
<1> SUFFICES ASSUME IInv, [Next]_vars
             PROVE  BufferInv'
  OBVIOUS
<1> USE PlansAssumption, ArbitratorAssumption
    DEF IInv, Thread, None, Go, Raise, executorVars, bufferVars, planVars, routeVars,
       machineVars, guidanceVars, executorAll, arbitratorAll
<1>1. CASE TakeExecutorJob /\ UNCHANGED arbitratorAll
  BY <1>1
  DEF TakeExecutorJob, BufferInv, ExecutorInv, StartInv, Ahead, First, ThreadType, PlanType
<1>2. CASE EngageRun /\ UNCHANGED arbitratorAll
  BY <1>2 DEF EngageRun, BufferInv, ExecutorInv, StartInv, Ahead, First, ThreadType, PlanType
<1>3. CASE Engaged /\ UNCHANGED arbitratorAll
  BY <1>3 DEF Engaged, BufferInv, ExecutorInv, StartInv, Ahead, First, ThreadType, PlanType
<1>4. CASE CleanRestart /\ UNCHANGED arbitratorAll
  BY <1>4 DEF CleanRestart, BufferInv, ExecutorInv, StartInv, Ahead, First, ThreadType, PlanType
<1>5. CASE UnregisterAll /\ UNCHANGED arbitratorAll
  BY <1>5 DEF UnregisterAll, BufferInv, ExecutorInv, StartInv, Ahead, First, ThreadType, PlanType
<1>6. CASE RestartDone /\ UNCHANGED arbitratorAll
  BY <1>6 DEF RestartDone, BufferInv, ExecutorInv, StartInv, Ahead, First, ThreadType, PlanType
<1>7. ASSUME NEW th \in {"executor", "arbitrator"}, Run(th), UNCHANGED arbitratorAll
     PROVE  BufferInv'
  BY <1>7 DEF Run, BufferInv, ExecutorInv, StartInv, Ahead, First, ThreadType, PlanType
<1>8. ASSUME NEW th \in {"executor", "arbitrator"}, RunSet(th), UNCHANGED arbitratorAll
     PROVE  BufferInv'
  BY <1>8 DEF RunSet, BufferInv, ExecutorInv, StartInv, Ahead, First, ThreadType, PlanType
<1>9. ASSUME NEW th \in {"executor", "arbitrator"}, RunReset(th), UNCHANGED arbitratorAll
     PROVE  BufferInv'
  BY <1>9 DEF RunReset, RunDone, Reset, BufferInv, ExecutorInv, StartInv, Ahead, First,
     ThreadType, PlanType
<1>10. ASSUME NEW th \in {"executor", "arbitrator"}, RunQueue(th), UNCHANGED arbitratorAll
     PROVE  BufferInv'
  BY <1>10
  DEF RunQueue, RunDone, BufferInv, ExecutorInv, StartInv, Ahead, First, ThreadType, PlanType
<1>11. ASSUME NEW th \in {"executor", "arbitrator"}, Abort(th), UNCHANGED arbitratorAll
     PROVE  BufferInv'
  BY <1>11 DEF Abort, BufferInv, ExecutorInv, StartInv, Ahead, First, ThreadType, PlanType
<1>12. ASSUME NEW th \in {"executor", "arbitrator"}, AbortNext(th), UNCHANGED arbitratorAll
     PROVE  BufferInv'
  BY <1>12 DEF AbortNext, BufferInv, ExecutorInv, StartInv, Ahead, First, ThreadType, PlanType
<1>13. CASE Submit /\ UNCHANGED arbitratorAll
  BY <1>13 DEF Submit, BufferInv, ExecutorInv, StartInv, Ahead, First, ThreadType, PlanType
<1>14. CASE RouteState /\ UNCHANGED arbitratorAll
  BY <1>14 DEF RouteState, Milestones, BufferInv, ExecutorInv, StartInv, Ahead, First,
     ThreadType, PlanType
<1>15. CASE Swap /\ UNCHANGED arbitratorAll
  BY <1>15 DEF Swap, BufferInv, ExecutorInv, StartInv, Ahead, First, ThreadType, PlanType
<1>16. CASE SwapRead /\ UNCHANGED arbitratorAll
  BY <1>16 DEF SwapRead, BufferInv, ExecutorInv, StartInv, Ahead, First, ThreadType, PlanType
<1>17. CASE SwapSet /\ UNCHANGED arbitratorAll
  BY <1>17 DEF SwapSet, BufferInv, ExecutorInv, StartInv, Ahead, First, ThreadType, PlanType
<1>18. CASE SwapClear /\ UNCHANGED arbitratorAll
  BY <1>18 DEF SwapClear, BufferInv, ExecutorInv, StartInv, Ahead, First, ThreadType, PlanType
<1>19. CASE SwapReset /\ UNCHANGED arbitratorAll
  BY <1>19
  DEF SwapReset, Reset, BufferInv, ExecutorInv, StartInv, Ahead, First, ThreadType, PlanType
<1>20. CASE Snapshot /\ UNCHANGED arbitratorAll
  BY <1>20
  DEF Snapshot, Live, BufferInv, ExecutorInv, StartInv, Ahead, First, ThreadType, PlanType
<1>21. CASE CompletionPct /\ UNCHANGED arbitratorAll
  BY <1>21 DEF CompletionPct, BufferInv, ExecutorInv, StartInv, Ahead, First, ThreadType, PlanType
<1>22. CASE Each /\ UNCHANGED arbitratorAll
  BY <1>22 DEF Each, BufferInv, ExecutorInv, StartInv, Ahead, First, ThreadType, PlanType
<1>23. CASE Mark /\ UNCHANGED arbitratorAll
  BY <1>23 DEF Mark, BufferInv, ExecutorInv, StartInv, Ahead, First, ThreadType, PlanType
<1>24. ASSUME NEW th \in {"route", "arbitrator", "other"}, Event(th)
     PROVE  BufferInv'
  BY <1>24 DEF Event, BufferInv, ExecutorInv, StartInv, Ahead, First, ThreadType, PlanType
<1>25. ASSUME NEW th \in {"route", "arbitrator", "other"}, Look(th)
     PROVE  BufferInv'
  BY <1>25 DEF Look, After, BufferInv, ExecutorInv, StartInv, Ahead, First, ThreadType, PlanType
<1>26. ASSUME NEW th \in {"route", "arbitrator", "other"}, Read(th)
     PROVE  BufferInv'
  BY <1>26 DEF Read, BufferInv, ExecutorInv, StartInv, Ahead, First, ThreadType, PlanType
<1>27. ASSUME NEW th \in {"route", "arbitrator", "other"}, Notify(th)
     PROVE  BufferInv'
  BY <1>27 DEF Notify, After, BufferInv, ExecutorInv, StartInv, Ahead, First, ThreadType, PlanType
<1>28. CASE TakeArbitratorJob
  BY <1>28
  DEF TakeArbitratorJob, BufferInv, ExecutorInv, StartInv, Ahead, First, ThreadType, PlanType
<1>29. CASE PlanNothing
  BY <1>29 DEF PlanNothing, BufferInv, ExecutorInv, StartInv, Ahead, First, ThreadType, PlanType
<1>30. CASE PlanAfterRoute
  BY <1>30
  DEF PlanAfterRoute, BufferInv, ExecutorInv, StartInv, Ahead, First, ThreadType, PlanType
<1>31. CASE PlanThrows
  BY <1>31 DEF PlanThrows, BufferInv, ExecutorInv, StartInv, Ahead, First, ThreadType, PlanType
<1>32. CASE Plan
  <2> SUFFICES ASSUME First'
               PROVE  BufferInv'
    BY DEF BufferInv
  <2>1. First /\ UNCHANGED <<current, next>> /\ pc["arbitrator"] = "plan" /\ job \in Planning
    BY <1>32 DEF Plan, ToPlan, First, MachineType
  <2>2. CASE job = "INITIAL_PLANNING"
    <3>1. plans = 0
      BY <2>1, <2>2 DEF StartInv, Ahead
    <3>2. next = 0
      BY <3>1 DEF PlanType
    <3> QED
      BY <2>1, <3>2 DEF BufferInv
  <2>3. CASE job = "REPLAN_DUE_TO_FAILED_TRAJECTORY"
    BY <2>3, <1>32 DEF Plan, ThreadType, BufferInv
  <2>4. CASE job \in {"NORMAL_REPLANNING", "REPLAN_AFTER_COMPLEX_TRAJECTORY"}
    <3>1. current # None /\ pc'["arbitrator"] = "submit"
      BY <2>4, <1>32 DEF Plan, ToPlan, ThreadType
    <3> QED
      BY <2>1, <3>1 DEF BufferInv
  <2> QED
    BY <2>1, <2>2, <2>3, <2>4 DEF Planning
<1>33. CASE Register
  BY <1>33
  DEF Register, register, BufferInv, ExecutorInv, StartInv, Ahead, First, ThreadType, PlanType
<1>34. CASE Planned
  BY <1>34 DEF Planned, BufferInv, ExecutorInv, StartInv, Ahead, First, ThreadType, PlanType
<1>35. CASE OnProgress
  BY <1>35 DEF OnProgress, register, BufferInv, ExecutorInv, StartInv, Ahead, First, ThreadType,
     PlanType
<1>36. CASE Failure
  BY <1>36 DEF Failure, BufferInv, ExecutorInv, StartInv, Ahead, First, ThreadType, PlanType
<1>37. CASE notifyTrajectoryFailure
  BY <1>37 DEF notifyTrajectoryFailure, BufferInv, ExecutorInv, StartInv, Ahead, First,
     ThreadType, PlanType
<1>38. CASE GuidanceChange
  BY <1>38
  DEF GuidanceChange, BufferInv, ExecutorInv, StartInv, Ahead, First, ThreadType, PlanType
<1>39. CASE UNCHANGED vars
  BY <1>39 DEF vars, BufferInv, ExecutorInv, StartInv, Ahead, First, ThreadType, PlanType
<1> QED
  BY <1>1, <1>2, <1>3, <1>4, <1>5, <1>6, <1>7, <1>8, <1>9, <1>10, <1>11, <1>12, <1>13, <1>14,
     <1>15, <1>16, <1>17, <1>18, <1>19, <1>20, <1>21, <1>22, <1>23, <1>24, <1>25, <1>26, <1>27,
     <1>28, <1>29, <1>30, <1>31, <1>32, <1>33, <1>34, <1>35, <1>36, <1>37, <1>38, <1>39
  DEF Next, Executor, Route, ArbitratorThread, Other, ExecutorThread, RouteThread, processEvent

(* The buffer stays newer. *)
LEMMA NewerStep == IInv /\ [Next]_vars => BufferIsNewer'
<1> SUFFICES ASSUME IInv, [Next]_vars
             PROVE  BufferIsNewer'
  OBVIOUS
<1> USE PlansAssumption, ArbitratorAssumption
    DEF IInv, Thread, None, Go, Raise, executorVars, bufferVars, planVars, routeVars,
       machineVars, guidanceVars, executorAll, arbitratorAll
<1>1. CASE TakeExecutorJob /\ UNCHANGED arbitratorAll
  BY <1>1 DEF TakeExecutorJob, BufferIsNewer, BufferInv, NewestInv, ExecutorInv, First,
     ThreadType, PlanType
<1>2. CASE EngageRun /\ UNCHANGED arbitratorAll
  BY <1>2
  DEF EngageRun, BufferIsNewer, BufferInv, NewestInv, ExecutorInv, First, ThreadType, PlanType
<1>3. CASE Engaged /\ UNCHANGED arbitratorAll
  BY <1>3
  DEF Engaged, BufferIsNewer, BufferInv, NewestInv, ExecutorInv, First, ThreadType, PlanType
<1>4. CASE CleanRestart /\ UNCHANGED arbitratorAll
  BY <1>4 DEF CleanRestart, BufferIsNewer, BufferInv, NewestInv, ExecutorInv, First, ThreadType,
     PlanType
<1>5. CASE UnregisterAll /\ UNCHANGED arbitratorAll
  BY <1>5 DEF UnregisterAll, BufferIsNewer, BufferInv, NewestInv, ExecutorInv, First, ThreadType,
     PlanType
<1>6. CASE RestartDone /\ UNCHANGED arbitratorAll
  BY <1>6 DEF RestartDone, BufferIsNewer, BufferInv, NewestInv, ExecutorInv, First, ThreadType,
     PlanType
<1>7. ASSUME NEW th \in {"executor", "arbitrator"}, Run(th), UNCHANGED arbitratorAll
     PROVE  BufferIsNewer'
  BY <1>7 DEF Run, BufferIsNewer, BufferInv, NewestInv, ExecutorInv, First, ThreadType, PlanType
<1>8. ASSUME NEW th \in {"executor", "arbitrator"}, RunSet(th), UNCHANGED arbitratorAll
     PROVE  BufferIsNewer'
  BY <1>8
  DEF RunSet, BufferIsNewer, BufferInv, NewestInv, ExecutorInv, First, ThreadType, PlanType
<1>9. ASSUME NEW th \in {"executor", "arbitrator"}, RunReset(th), UNCHANGED arbitratorAll
     PROVE  BufferIsNewer'
  BY <1>9 DEF RunReset, RunDone, Reset, BufferIsNewer, BufferInv, NewestInv, ExecutorInv, First,
     ThreadType, PlanType
<1>10. ASSUME NEW th \in {"executor", "arbitrator"}, RunQueue(th), UNCHANGED arbitratorAll
     PROVE  BufferIsNewer'
  BY <1>10 DEF RunQueue, RunDone, BufferIsNewer, BufferInv, NewestInv, ExecutorInv, First,
     ThreadType, PlanType
<1>11. ASSUME NEW th \in {"executor", "arbitrator"}, Abort(th), UNCHANGED arbitratorAll
     PROVE  BufferIsNewer'
  BY <1>11
  DEF Abort, BufferIsNewer, BufferInv, NewestInv, ExecutorInv, First, ThreadType, PlanType
<1>12. ASSUME NEW th \in {"executor", "arbitrator"}, AbortNext(th), UNCHANGED arbitratorAll
     PROVE  BufferIsNewer'
  BY <1>12
  DEF AbortNext, BufferIsNewer, BufferInv, NewestInv, ExecutorInv, First, ThreadType, PlanType
<1>13. CASE Submit /\ UNCHANGED arbitratorAll
  BY <1>13
  DEF Submit, BufferIsNewer, BufferInv, NewestInv, ExecutorInv, First, ThreadType, PlanType
<1>14. CASE RouteState /\ UNCHANGED arbitratorAll
  BY <1>14 DEF RouteState, Milestones, BufferIsNewer, BufferInv, NewestInv, ExecutorInv, First,
     ThreadType, PlanType
<1>15. CASE Swap /\ UNCHANGED arbitratorAll
  BY <1>15 DEF Swap, BufferIsNewer, BufferInv, NewestInv, ExecutorInv, First, ThreadType, PlanType
<1>16. CASE SwapRead /\ UNCHANGED arbitratorAll
  BY <1>16
  DEF SwapRead, BufferIsNewer, BufferInv, NewestInv, ExecutorInv, First, ThreadType, PlanType
<1>17. CASE SwapSet /\ UNCHANGED arbitratorAll
  BY <1>17
  DEF SwapSet, BufferIsNewer, BufferInv, NewestInv, ExecutorInv, First, ThreadType, PlanType
<1>18. CASE SwapClear /\ UNCHANGED arbitratorAll
  BY <1>18
  DEF SwapClear, BufferIsNewer, BufferInv, NewestInv, ExecutorInv, First, ThreadType, PlanType
<1>19. CASE SwapReset /\ UNCHANGED arbitratorAll
  BY <1>19 DEF SwapReset, Reset, BufferIsNewer, BufferInv, NewestInv, ExecutorInv, First,
     ThreadType, PlanType
<1>20. CASE Snapshot /\ UNCHANGED arbitratorAll
  BY <1>20 DEF Snapshot, Live, BufferIsNewer, BufferInv, NewestInv, ExecutorInv, First,
     ThreadType, PlanType
<1>21. CASE CompletionPct /\ UNCHANGED arbitratorAll
  BY <1>21 DEF CompletionPct, BufferIsNewer, BufferInv, NewestInv, ExecutorInv, First,
     ThreadType, PlanType
<1>22. CASE Each /\ UNCHANGED arbitratorAll
  BY <1>22 DEF Each, BufferIsNewer, BufferInv, NewestInv, ExecutorInv, First, ThreadType, PlanType
<1>23. CASE Mark /\ UNCHANGED arbitratorAll
  BY <1>23 DEF Mark, BufferIsNewer, BufferInv, NewestInv, ExecutorInv, First, ThreadType, PlanType
<1>24. ASSUME NEW th \in {"route", "arbitrator", "other"}, Event(th)
     PROVE  BufferIsNewer'
  BY <1>24
  DEF Event, BufferIsNewer, BufferInv, NewestInv, ExecutorInv, First, ThreadType, PlanType
<1>25. ASSUME NEW th \in {"route", "arbitrator", "other"}, Look(th)
     PROVE  BufferIsNewer'
  BY <1>25 DEF Look, After, BufferIsNewer, BufferInv, NewestInv, ExecutorInv, First, ThreadType,
     PlanType
<1>26. ASSUME NEW th \in {"route", "arbitrator", "other"}, Read(th)
     PROVE  BufferIsNewer'
  BY <1>26 DEF Read, BufferIsNewer, BufferInv, NewestInv, ExecutorInv, First, ThreadType, PlanType
<1>27. ASSUME NEW th \in {"route", "arbitrator", "other"}, Notify(th)
     PROVE  BufferIsNewer'
  BY <1>27 DEF Notify, After, BufferIsNewer, BufferInv, NewestInv, ExecutorInv, First,
     ThreadType, PlanType
<1>28. CASE TakeArbitratorJob
  BY <1>28 DEF TakeArbitratorJob, BufferIsNewer, BufferInv, NewestInv, ExecutorInv, First,
     ThreadType, PlanType
<1>29. CASE PlanNothing
  BY <1>29 DEF PlanNothing, BufferIsNewer, BufferInv, NewestInv, ExecutorInv, First, ThreadType,
     PlanType
<1>30. CASE PlanAfterRoute
  BY <1>30 DEF PlanAfterRoute, BufferIsNewer, BufferInv, NewestInv, ExecutorInv, First,
     ThreadType, PlanType
<1>31. CASE PlanThrows
  BY <1>31
  DEF PlanThrows, BufferIsNewer, BufferInv, NewestInv, ExecutorInv, First, ThreadType, PlanType
<1>32. CASE Plan
  BY <1>32 DEF Plan, ToPlan, BufferIsNewer, BufferInv, NewestInv, ExecutorInv, First, ThreadType,
     PlanType
<1>33. CASE Register
  BY <1>33 DEF Register, register, BufferIsNewer, BufferInv, NewestInv, ExecutorInv, First,
     ThreadType, PlanType
<1>34. CASE Planned
  BY <1>34
  DEF Planned, BufferIsNewer, BufferInv, NewestInv, ExecutorInv, First, ThreadType, PlanType
<1>35. CASE OnProgress
  BY <1>35 DEF OnProgress, register, BufferIsNewer, BufferInv, NewestInv, ExecutorInv, First,
     ThreadType, PlanType
<1>36. CASE Failure
  BY <1>36
  DEF Failure, BufferIsNewer, BufferInv, NewestInv, ExecutorInv, First, ThreadType, PlanType
<1>37. CASE notifyTrajectoryFailure
  BY <1>37 DEF notifyTrajectoryFailure, BufferIsNewer, BufferInv, NewestInv, ExecutorInv, First,
     ThreadType, PlanType
<1>38. CASE GuidanceChange
  BY <1>38 DEF GuidanceChange, BufferIsNewer, BufferInv, NewestInv, ExecutorInv, First,
     ThreadType, PlanType
<1>39. CASE UNCHANGED vars
  BY <1>39 DEF vars, BufferIsNewer, BufferInv, NewestInv, ExecutorInv, First, ThreadType, PlanType
<1> QED
  BY <1>1, <1>2, <1>3, <1>4, <1>5, <1>6, <1>7, <1>8, <1>9, <1>10, <1>11, <1>12, <1>13, <1>14,
     <1>15, <1>16, <1>17, <1>18, <1>19, <1>20, <1>21, <1>22, <1>23, <1>24, <1>25, <1>26, <1>27,
     <1>28, <1>29, <1>30, <1>31, <1>32, <1>33, <1>34, <1>35, <1>36, <1>37, <1>38, <1>39
  DEF Next, Executor, Route, ArbitratorThread, Other, ExecutorThread, RouteThread, processEvent

-----------------------------------------------------------------------------
(* The theorems *)

(* In every reachable state all parts of the invariant hold together. *)
THEOREM Invariant == Spec => []IInv
<1>1. Init => IInv
  <2> SUFFICES ASSUME Init
               PROVE  IInv
    OBVIOUS
  <2> USE PlansAssumption, ArbitratorAssumption DEF Init, None, Thread
  <2>1. ThreadType
    BY DEF ThreadType
  <2>2. MachineType
    BY DEF MachineType, MachineState, Planning
  <2>3. JobType
    BY DEF JobType
  <2>4. PlanType
    <3>1. shape \in [Trajectory -> {"plain", "complex", "last", "steadying"}]
      OBVIOUS
    <3>2. covered \in [Trajectory -> Percent] /\ pct \in Percent
      BY DEF Percent, Unknown
    <3>3. traj \in [Thread -> 0 .. plans] /\ plans \in 0 .. MaxPlans
      OBVIOUS
    <3>4. changes \in 0 .. MaxChanges /\ failures \in 0 .. MaxFailures
      OBVIOUS
    <3>5. /\ currentTrajectory \in 0 .. plans /\ current \in 0 .. plans /\ next \in 0 .. plans
          /\ timeSteps \in 0 .. 3
      OBVIOUS
    <3>6. bufferedTrajectoryRunning \in BOOLEAN
      OBVIOUS
    <3> HIDE DEF Init
    <3> QED
      BY <3>1, <3>2, <3>3, <3>4, <3>5, <3>6 DEF PlanType
  <2>5. CallbackType
    BY DEF CallbackType
  <2>6. PlannerInv
    BY DEF PlannerInv, Planning
  <2>7. NewestInv
    BY DEF NewestInv
  <2>8. StartInv
    BY DEF StartInv, Ahead, First
  <2>9. ExecutorInv
    BY DEF ExecutorInv, First
  <2>10. BufferInv /\ BufferIsNewer
    BY DEF BufferInv, BufferIsNewer
  <2> QED
    BY <2>1, <2>2, <2>3, <2>4, <2>5, <2>6, <2>7, <2>8, <2>9, <2>10 DEF IInv
<1>2. IInv /\ [Next]_vars => IInv'
  BY ThreadStep, MachineStep, JobStep, PlanStep, CallbackStep, PlannerStep, NewestStep,
     StartStep, ExecutorStep, BufferStep, NewerStep DEF IInv
<1> QED
  BY <1>1, <1>2, PTL DEF Spec

(* All trajectories that are handed about have been planned, the callbacks the route thread has
   still to look at are in the list, and every thread is at a place of its own code. *)
THEOREM ArbitratorTypeCorrect == Spec => []TypeOK
<1>1. IInv => TypeOK
  BY DEF IInv, TypeOK, ThreadType, MachineType, JobType, PlanType, CallbackType, Callback, Job
<1> QED
  BY <1>1, Invariant, PTL

(* The arbitrator never waits for a plan nobody makes, however the events of the route thread, the
   job thread and other threads interleave in processEvent. *)
THEOREM SomebodyPlans == Spec => []PlannerAtWork
<1>1. IInv => PlannerAtWork
  BY DEF IInv, PlannerInv, Queued, WillQueue, AtWork, PlannerAtWork, ThreadType
<1> QED
  BY <1>1, Invariant, PTL

(* In the first engagement a swap never leads back to an older trajectory, whichever steps of a
   swap, an abort and a handover interleave. *)
THEOREM SwapLeadsOn == Spec => []BufferIsNewer
BY Invariant, PTL DEF IInv

(* What waits is fresh. *)
LEMMA FreshStep == IInv /\ FreshInv /\ KeptInv /\ [Next]_vars => FreshInv'
<1> SUFFICES ASSUME IInv /\ FreshInv /\ KeptInv, [Next]_vars
             PROVE  FreshInv'
  OBVIOUS
<1> USE PlansAssumption, ArbitratorAssumption
    DEF IInv, Thread, None, Go, Raise, executorVars, bufferVars, planVars, routeVars,
       machineVars, guidanceVars, executorAll, arbitratorAll
<1>1. CASE TakeExecutorJob /\ UNCHANGED arbitratorAll
  <2>1. /\ pc["executor"] = "idle" /\ exJobs # <<>> /\ exJobs' = Tail(exJobs)
        /\ \/ /\ exState' = exState
              /\ \/ pc' = [pc EXCEPT !["executor"] = "engage_run"]
                 \/ pc' = [pc EXCEPT !["executor"] = "engaged"]
           \/ /\ exState' \in {"ACTIVE", "INACTIVE", "DRIVERS_READY"}
              /\ pc' = pc \/ pc' = [pc EXCEPT !["executor"] = "abort"]
    BY <1>1, ExecutorJob
  <2>2. UNCHANGED <<currentTrajectory, bufferedTrajectoryRunning, bufferVars, callbacks, planVars, traj, routeVars, arbitratorAll>>
    BY <1>1 DEF TakeExecutorJob
  <2> QED
    BY <2>1, <2>2 DEF FreshInv, ThreadType
<1>2. CASE EngageRun /\ UNCHANGED arbitratorAll
  BY <1>2 DEF EngageRun, FreshInv, KeptInv, Unstarted, NewestInv, PlanType, ThreadType, Trajectory
<1>3. CASE Engaged /\ UNCHANGED arbitratorAll
  BY <1>3 DEF Engaged, FreshInv, KeptInv, Unstarted, NewestInv, PlanType, ThreadType, Trajectory
<1>4. CASE CleanRestart /\ UNCHANGED arbitratorAll
  BY <1>4
  DEF CleanRestart, FreshInv, KeptInv, Unstarted, NewestInv, PlanType, ThreadType, Trajectory
<1>5. CASE UnregisterAll /\ UNCHANGED arbitratorAll
  BY <1>5
  DEF UnregisterAll, FreshInv, KeptInv, Unstarted, NewestInv, PlanType, ThreadType, Trajectory
<1>6. CASE RestartDone /\ UNCHANGED arbitratorAll
  BY <1>6
  DEF RestartDone, FreshInv, KeptInv, Unstarted, NewestInv, PlanType, ThreadType, Trajectory
<1>7. ASSUME NEW th \in {"executor", "arbitrator"}, Run(th), UNCHANGED arbitratorAll
     PROVE  FreshInv'
  BY <1>7 DEF Run, FreshInv, KeptInv, Unstarted, NewestInv, PlanType, ThreadType, Trajectory
<1>8. ASSUME NEW th \in {"executor", "arbitrator"}, RunSet(th), UNCHANGED arbitratorAll
     PROVE  FreshInv'
  BY <1>8 DEF RunSet, FreshInv, KeptInv, Unstarted, NewestInv, PlanType, ThreadType, Trajectory
<1>9. ASSUME NEW th \in {"executor", "arbitrator"}, RunReset(th), UNCHANGED arbitratorAll
     PROVE  FreshInv'
  BY <1>9 DEF RunReset, RunDone, Reset, FreshInv, KeptInv, Unstarted, NewestInv, PlanType,
     ThreadType, Trajectory
<1>10. ASSUME NEW th \in {"executor", "arbitrator"}, RunQueue(th), UNCHANGED arbitratorAll
     PROVE  FreshInv'
  BY <1>10 DEF RunQueue, RunDone, FreshInv, KeptInv, Unstarted, NewestInv, PlanType, ThreadType,
     Trajectory
<1>11. ASSUME NEW th \in {"executor", "arbitrator"}, Abort(th), UNCHANGED arbitratorAll
     PROVE  FreshInv'
  BY <1>11 DEF Abort, FreshInv, KeptInv, Unstarted, NewestInv, PlanType, ThreadType, Trajectory
<1>12. ASSUME NEW th \in {"executor", "arbitrator"}, AbortNext(th), UNCHANGED arbitratorAll
     PROVE  FreshInv'
  BY <1>12
  DEF AbortNext, FreshInv, KeptInv, Unstarted, NewestInv, PlanType, ThreadType, Trajectory
<1>13. CASE Submit /\ UNCHANGED arbitratorAll
  BY <1>13 DEF Submit, FreshInv, KeptInv, Unstarted, NewestInv, PlanType, ThreadType, Trajectory
<1>14. CASE RouteState /\ UNCHANGED arbitratorAll
  BY <1>14 DEF RouteState, Milestones, FreshInv, KeptInv, Unstarted, NewestInv, PlanType,
     ThreadType, Trajectory
<1>15. CASE Swap /\ UNCHANGED arbitratorAll
  BY <1>15 DEF Swap, FreshInv, KeptInv, Unstarted, NewestInv, PlanType, ThreadType, Trajectory
<1>16. CASE SwapRead /\ UNCHANGED arbitratorAll
  BY <1>16 DEF SwapRead, FreshInv, KeptInv, Unstarted, NewestInv, PlanType, ThreadType, Trajectory
<1>17. CASE SwapSet /\ UNCHANGED arbitratorAll
  BY <1>17 DEF SwapSet, FreshInv, KeptInv, Unstarted, NewestInv, PlanType, ThreadType, Trajectory
<1>18. CASE SwapClear /\ UNCHANGED arbitratorAll
  BY <1>18
  DEF SwapClear, FreshInv, KeptInv, Unstarted, NewestInv, PlanType, ThreadType, Trajectory
<1>19. CASE SwapReset /\ UNCHANGED arbitratorAll
  BY <1>19 DEF SwapReset, Reset, FreshInv, KeptInv, Unstarted, NewestInv, PlanType, ThreadType,
     Trajectory
<1>20. CASE Snapshot /\ UNCHANGED arbitratorAll
  BY <1>20
  DEF Snapshot, Live, FreshInv, KeptInv, Unstarted, NewestInv, PlanType, ThreadType, Trajectory
<1>21. CASE CompletionPct /\ UNCHANGED arbitratorAll
  BY <1>21
  DEF CompletionPct, FreshInv, KeptInv, Unstarted, NewestInv, PlanType, ThreadType, Trajectory
<1>22. CASE Each /\ UNCHANGED arbitratorAll
  BY <1>22 DEF Each, FreshInv, KeptInv, Unstarted, NewestInv, PlanType, ThreadType, Trajectory
<1>23. CASE Mark /\ UNCHANGED arbitratorAll
  BY <1>23 DEF Mark, FreshInv, KeptInv, Unstarted, NewestInv, PlanType, ThreadType, Trajectory
<1>24. ASSUME NEW th \in {"route", "arbitrator", "other"}, Event(th)
     PROVE  FreshInv'
  BY <1>24 DEF Event, FreshInv, KeptInv, Unstarted, NewestInv, PlanType, ThreadType, Trajectory
<1>25. ASSUME NEW th \in {"route", "arbitrator", "other"}, Look(th)
     PROVE  FreshInv'
  BY <1>25
  DEF Look, After, FreshInv, KeptInv, Unstarted, NewestInv, PlanType, ThreadType, Trajectory
<1>26. ASSUME NEW th \in {"route", "arbitrator", "other"}, Read(th)
     PROVE  FreshInv'
  BY <1>26 DEF Read, FreshInv, KeptInv, Unstarted, NewestInv, PlanType, ThreadType, Trajectory
<1>27. ASSUME NEW th \in {"route", "arbitrator", "other"}, Notify(th)
     PROVE  FreshInv'
  BY <1>27
  DEF Notify, After, FreshInv, KeptInv, Unstarted, NewestInv, PlanType, ThreadType, Trajectory
<1>28. CASE TakeArbitratorJob
  BY <1>28 DEF TakeArbitratorJob, FreshInv, KeptInv, Unstarted, NewestInv, PlanType, ThreadType,
     Trajectory
<1>29. CASE PlanNothing
  BY <1>29
  DEF PlanNothing, FreshInv, KeptInv, Unstarted, NewestInv, PlanType, ThreadType, Trajectory
<1>30. CASE PlanAfterRoute
  BY <1>30
  DEF PlanAfterRoute, FreshInv, KeptInv, Unstarted, NewestInv, PlanType, ThreadType, Trajectory
<1>31. CASE PlanThrows
  BY <1>31
  DEF PlanThrows, FreshInv, KeptInv, Unstarted, NewestInv, PlanType, ThreadType, Trajectory
<1>32. CASE Plan
  BY <1>32
  DEF Plan, ToPlan, FreshInv, KeptInv, Unstarted, NewestInv, PlanType, ThreadType, Trajectory
<1>33. CASE Register
  BY <1>33 DEF Register, register, FreshInv, KeptInv, Unstarted, NewestInv, PlanType, ThreadType,
     Trajectory
<1>34. CASE Planned
  BY <1>34 DEF Planned, FreshInv, KeptInv, Unstarted, NewestInv, PlanType, ThreadType, Trajectory
<1>35. CASE OnProgress
  BY <1>35 DEF OnProgress, register, FreshInv, KeptInv, Unstarted, NewestInv, PlanType,
     ThreadType, Trajectory
<1>36. CASE Failure
  BY <1>36 DEF Failure, FreshInv, KeptInv, Unstarted, NewestInv, PlanType, ThreadType, Trajectory
<1>37. CASE notifyTrajectoryFailure
  BY <1>37 DEF notifyTrajectoryFailure, FreshInv, KeptInv, Unstarted, NewestInv, PlanType,
     ThreadType, Trajectory
<1>38. CASE GuidanceChange
  BY <1>38
  DEF GuidanceChange, FreshInv, KeptInv, Unstarted, NewestInv, PlanType, ThreadType, Trajectory
<1>39. CASE UNCHANGED vars
  BY <1>39 DEF vars, FreshInv, KeptInv, Unstarted, NewestInv, PlanType, ThreadType, Trajectory
<1> QED
  BY <1>1, <1>2, <1>3, <1>4, <1>5, <1>6, <1>7, <1>8, <1>9, <1>10, <1>11, <1>12, <1>13, <1>14,
     <1>15, <1>16, <1>17, <1>18, <1>19, <1>20, <1>21, <1>22, <1>23, <1>24, <1>25, <1>26, <1>27,
     <1>28, <1>29, <1>30, <1>31, <1>32, <1>33, <1>34, <1>35, <1>36, <1>37, <1>38, <1>39
  DEF Next, Executor, Route, ArbitratorThread, Other, ExecutorThread, RouteThread, processEvent

(* What is kept is fresh, or done with. *)
LEMMA KeptStep == IInv /\ FreshInv /\ KeptInv /\ [Next]_vars => KeptInv'
<1> SUFFICES ASSUME IInv /\ FreshInv /\ KeptInv, [Next]_vars
             PROVE  KeptInv'
  OBVIOUS
<1> USE PlansAssumption, ArbitratorAssumption
    DEF IInv, Thread, None, Go, Raise, executorVars, bufferVars, planVars, routeVars,
       machineVars, guidanceVars, executorAll, arbitratorAll
<1>1. CASE TakeExecutorJob /\ UNCHANGED arbitratorAll
  <2>1. /\ pc["executor"] = "idle" /\ exJobs # <<>> /\ exJobs' = Tail(exJobs)
        /\ \/ /\ exState' = exState
              /\ \/ pc' = [pc EXCEPT !["executor"] = "engage_run"]
                 \/ pc' = [pc EXCEPT !["executor"] = "engaged"]
           \/ /\ exState' \in {"ACTIVE", "INACTIVE", "DRIVERS_READY"}
              /\ pc' = pc \/ pc' = [pc EXCEPT !["executor"] = "abort"]
    BY <1>1, ExecutorJob
  <2>2. UNCHANGED <<currentTrajectory, bufferedTrajectoryRunning, bufferVars, callbacks, planVars, traj, routeVars, arbitratorAll>>
    BY <1>1 DEF TakeExecutorJob
  <2>3. pc'["executor"] = "engage_run" => ~bufferedTrajectoryRunning
    BY <1>1, ExecutorJob
  <2> QED
    BY <2>1, <2>2, <2>3 DEF KeptInv, Unstarted, ThreadType
<1>2. CASE EngageRun /\ UNCHANGED arbitratorAll
  BY <1>2 DEF EngageRun, FreshInv, KeptInv, Unstarted, NewestInv, PlanType, ThreadType, Trajectory
<1>3. CASE Engaged /\ UNCHANGED arbitratorAll
  BY <1>3 DEF Engaged, FreshInv, KeptInv, Unstarted, NewestInv, PlanType, ThreadType, Trajectory
<1>4. CASE CleanRestart /\ UNCHANGED arbitratorAll
  BY <1>4
  DEF CleanRestart, FreshInv, KeptInv, Unstarted, NewestInv, PlanType, ThreadType, Trajectory
<1>5. CASE UnregisterAll /\ UNCHANGED arbitratorAll
  BY <1>5
  DEF UnregisterAll, FreshInv, KeptInv, Unstarted, NewestInv, PlanType, ThreadType, Trajectory
<1>6. CASE RestartDone /\ UNCHANGED arbitratorAll
  BY <1>6
  DEF RestartDone, FreshInv, KeptInv, Unstarted, NewestInv, PlanType, ThreadType, Trajectory
<1>7. ASSUME NEW th \in {"executor", "arbitrator"}, Run(th), UNCHANGED arbitratorAll
     PROVE  KeptInv'
  BY <1>7 DEF Run, FreshInv, KeptInv, Unstarted, NewestInv, PlanType, ThreadType, Trajectory
<1>8. ASSUME NEW th \in {"executor", "arbitrator"}, RunSet(th), UNCHANGED arbitratorAll
     PROVE  KeptInv'
  BY <1>8 DEF RunSet, FreshInv, KeptInv, Unstarted, NewestInv, PlanType, ThreadType, Trajectory
<1>9. ASSUME NEW th \in {"executor", "arbitrator"}, RunReset(th), UNCHANGED arbitratorAll
     PROVE  KeptInv'
  BY <1>9 DEF RunReset, RunDone, Reset, FreshInv, KeptInv, Unstarted, NewestInv, PlanType,
     ThreadType, Trajectory
<1>10. ASSUME NEW th \in {"executor", "arbitrator"}, RunQueue(th), UNCHANGED arbitratorAll
     PROVE  KeptInv'
  BY <1>10 DEF RunQueue, RunDone, FreshInv, KeptInv, Unstarted, NewestInv, PlanType, ThreadType,
     Trajectory
<1>11. ASSUME NEW th \in {"executor", "arbitrator"}, Abort(th), UNCHANGED arbitratorAll
     PROVE  KeptInv'
  BY <1>11 DEF Abort, FreshInv, KeptInv, Unstarted, NewestInv, PlanType, ThreadType, Trajectory
<1>12. ASSUME NEW th \in {"executor", "arbitrator"}, AbortNext(th), UNCHANGED arbitratorAll
     PROVE  KeptInv'
  BY <1>12
  DEF AbortNext, FreshInv, KeptInv, Unstarted, NewestInv, PlanType, ThreadType, Trajectory
<1>13. CASE Submit /\ UNCHANGED arbitratorAll
  <2>1. CASE traj["arbitrator"] # None /\ currentTrajectory' = traj["arbitrator"]
    <3>1. traj["arbitrator"] # None /\ pc["arbitrator"] = "submit" /\ traj["arbitrator"] \in Trajectory
      BY <2>1, <1>13 DEF Submit, PlanType, Trajectory
    <3>2. Unstarted(traj["arbitrator"])
      BY <3>1 DEF Unstarted, FreshInv, NewestInv, PlanType, Trajectory
    <3>3. UNCHANGED <<covered, current, next>> /\ traj'["route"] = traj["route"]
      BY <1>13 DEF Submit, PlanType
    <3> QED
      BY <2>1, <3>2, <3>3, <1>13 DEF Submit, KeptInv, Unstarted, PlanType, ThreadType
  <2>2. CASE UNCHANGED <<currentTrajectory, traj>>
    BY <2>2, <1>13 DEF Submit, KeptInv, Unstarted, ThreadType
  <2> QED
    BY <2>1, <2>2, <1>13 DEF Submit
<1>14. CASE RouteState /\ UNCHANGED arbitratorAll
  BY <1>14 DEF RouteState, Milestones, FreshInv, KeptInv, Unstarted, NewestInv, PlanType,
     ThreadType, Trajectory
<1>15. CASE Swap /\ UNCHANGED arbitratorAll
  BY <1>15 DEF Swap, FreshInv, KeptInv, Unstarted, NewestInv, PlanType, ThreadType, Trajectory
<1>16. CASE SwapRead /\ UNCHANGED arbitratorAll
  BY <1>16 DEF SwapRead, FreshInv, KeptInv, Unstarted, NewestInv, PlanType, ThreadType, Trajectory
<1>17. CASE SwapSet /\ UNCHANGED arbitratorAll
  BY <1>17 DEF SwapSet, FreshInv, KeptInv, Unstarted, NewestInv, PlanType, ThreadType, Trajectory
<1>18. CASE SwapClear /\ UNCHANGED arbitratorAll
  BY <1>18
  DEF SwapClear, FreshInv, KeptInv, Unstarted, NewestInv, PlanType, ThreadType, Trajectory
<1>19. CASE SwapReset /\ UNCHANGED arbitratorAll
  BY <1>19 DEF SwapReset, Reset, FreshInv, KeptInv, Unstarted, NewestInv, PlanType, ThreadType,
     Trajectory
<1>20. CASE Snapshot /\ UNCHANGED arbitratorAll
  BY <1>20
  DEF Snapshot, Live, FreshInv, KeptInv, Unstarted, NewestInv, PlanType, ThreadType, Trajectory
<1>21. CASE CompletionPct /\ UNCHANGED arbitratorAll
  BY <1>21
  DEF CompletionPct, FreshInv, KeptInv, Unstarted, NewestInv, PlanType, ThreadType, Trajectory
<1>22. CASE Each /\ UNCHANGED arbitratorAll
  BY <1>22 DEF Each, FreshInv, KeptInv, Unstarted, NewestInv, PlanType, ThreadType, Trajectory
<1>23. CASE Mark /\ UNCHANGED arbitratorAll
  BY <1>23 DEF Mark, FreshInv, KeptInv, Unstarted, NewestInv, PlanType, ThreadType, Trajectory
<1>24. ASSUME NEW th \in {"route", "arbitrator", "other"}, Event(th)
     PROVE  KeptInv'
  BY <1>24 DEF Event, FreshInv, KeptInv, Unstarted, NewestInv, PlanType, ThreadType, Trajectory
<1>25. ASSUME NEW th \in {"route", "arbitrator", "other"}, Look(th)
     PROVE  KeptInv'
  BY <1>25
  DEF Look, After, FreshInv, KeptInv, Unstarted, NewestInv, PlanType, ThreadType, Trajectory
<1>26. ASSUME NEW th \in {"route", "arbitrator", "other"}, Read(th)
     PROVE  KeptInv'
  BY <1>26 DEF Read, FreshInv, KeptInv, Unstarted, NewestInv, PlanType, ThreadType, Trajectory
<1>27. ASSUME NEW th \in {"route", "arbitrator", "other"}, Notify(th)
     PROVE  KeptInv'
  BY <1>27
  DEF Notify, After, FreshInv, KeptInv, Unstarted, NewestInv, PlanType, ThreadType, Trajectory
<1>28. CASE TakeArbitratorJob
  BY <1>28 DEF TakeArbitratorJob, FreshInv, KeptInv, Unstarted, NewestInv, PlanType, ThreadType,
     Trajectory
<1>29. CASE PlanNothing
  BY <1>29
  DEF PlanNothing, FreshInv, KeptInv, Unstarted, NewestInv, PlanType, ThreadType, Trajectory
<1>30. CASE PlanAfterRoute
  BY <1>30
  DEF PlanAfterRoute, FreshInv, KeptInv, Unstarted, NewestInv, PlanType, ThreadType, Trajectory
<1>31. CASE PlanThrows
  BY <1>31
  DEF PlanThrows, FreshInv, KeptInv, Unstarted, NewestInv, PlanType, ThreadType, Trajectory
<1>32. CASE Plan
  <2>1. /\ UNCHANGED <<currentTrajectory, bufferedTrajectoryRunning, covered, current, next>>
        /\ pc'["executor"] = pc["executor"] /\ traj'["executor"] = traj["executor"]
        /\ traj'["route"] = traj["route"]
    BY <1>32 DEF Plan, ToPlan, PlanType, ThreadType
  <2> QED
    BY <2>1 DEF KeptInv, Unstarted
<1>33. CASE Register
  BY <1>33 DEF Register, register, FreshInv, KeptInv, Unstarted, NewestInv, PlanType, ThreadType,
     Trajectory
<1>34. CASE Planned
  BY <1>34 DEF Planned, FreshInv, KeptInv, Unstarted, NewestInv, PlanType, ThreadType, Trajectory
<1>35. CASE OnProgress
  BY <1>35 DEF OnProgress, register, FreshInv, KeptInv, Unstarted, NewestInv, PlanType,
     ThreadType, Trajectory
<1>36. CASE Failure
  BY <1>36 DEF Failure, FreshInv, KeptInv, Unstarted, NewestInv, PlanType, ThreadType, Trajectory
<1>37. CASE notifyTrajectoryFailure
  BY <1>37 DEF notifyTrajectoryFailure, FreshInv, KeptInv, Unstarted, NewestInv, PlanType,
     ThreadType, Trajectory
<1>38. CASE GuidanceChange
  BY <1>38
  DEF GuidanceChange, FreshInv, KeptInv, Unstarted, NewestInv, PlanType, ThreadType, Trajectory
<1>39. CASE UNCHANGED vars
  BY <1>39 DEF vars, FreshInv, KeptInv, Unstarted, NewestInv, PlanType, ThreadType, Trajectory
<1> QED
  BY <1>1, <1>2, <1>3, <1>4, <1>5, <1>6, <1>7, <1>8, <1>9, <1>10, <1>11, <1>12, <1>13, <1>14,
     <1>15, <1>16, <1>17, <1>18, <1>19, <1>20, <1>21, <1>22, <1>23, <1>24, <1>25, <1>26, <1>27,
     <1>28, <1>29, <1>30, <1>31, <1>32, <1>33, <1>34, <1>35, <1>36, <1>37, <1>38, <1>39
  DEF Next, Executor, Route, ArbitratorThread, Other, ExecutorThread, RouteThread, processEvent

(* No trajectory is executed a second time: whatever the order of engaging, deactivating,
   restarting, aborting and swapping, nothing of a trajectory that begins has been covered. *)
THEOREM NothingRunsTwice == Spec => FreshStart
<1>1. Init => FreshInv /\ KeptInv
  BY PlansAssumption DEF Init, FreshInv, KeptInv, None, Thread, Trajectory
<1>2. IInv /\ FreshInv /\ KeptInv /\ [Next]_vars
        => [current' # current /\ current' # None => covered[current'] = 0]_vars
  <2> SUFFICES ASSUME IInv, FreshInv, KeptInv, Next, current' # current, current' # None
               PROVE  covered[current'] = 0
    OBVIOUS
  <2> USE DEF IInv, Thread, None, executorVars, bufferVars, planVars, routeVars, executorAll
  <2>1. \/ RunSet("executor") \/ RunSet("arbitrator") \/ SwapSet
        \/ CleanRestart \/ Abort("executor") \/ Abort("arbitrator")
    <3>1. Executor => RunSet("executor") \/ CleanRestart \/ Abort("executor") \/ UNCHANGED current
      BY DEF Executor, ExecutorThread, TakeExecutorJob, EngageRun, Engaged, UnregisterAll,
         RestartDone, Run, RunReset, RunQueue, RunDone, AbortNext
    <3>2. Route => SwapSet \/ UNCHANGED current
      BY DEF Route, RouteThread, RouteState, Swap, SwapRead, SwapClear, SwapReset, Snapshot,
         CompletionPct, Each, Mark, OnProgress, Failure, processEvent, Event, Look, Read, Notify
    <3>3. ArbitratorThread => RunSet("arbitrator") \/ Abort("arbitrator") \/ UNCHANGED current
      BY DEF ArbitratorThread, Submit, Run, RunReset, RunQueue, RunDone, AbortNext,
         TakeArbitratorJob, PlanNothing, PlanAfterRoute, PlanThrows, Plan, Register, Planned,
         processEvent, Event, Look, Read, Notify
    <3>4. Other \/ GuidanceChange => UNCHANGED current
      BY DEF Other, notifyTrajectoryFailure, GuidanceChange, processEvent, Event, Look, Read,
         Notify
    <3> QED
      BY <3>1, <3>2, <3>3, <3>4 DEF Next
  <2>2. CASE RunSet("executor")
    BY <2>2 DEF RunSet, KeptInv, Unstarted
  <2>3. CASE RunSet("arbitrator")
    BY <2>3 DEF RunSet, FreshInv
  <2>4. CASE SwapSet
    BY <2>4 DEF SwapSet, FreshInv
  <2>5. CASE CleanRestart \/ Abort("executor") \/ Abort("arbitrator")
    BY <2>5 DEF CleanRestart, Abort
  <2> QED
    BY <2>1, <2>2, <2>3, <2>4, <2>5
<1> QED
  BY <1>1, <1>2, Invariant, FreshStep, KeptStep, PTL DEF Spec, FreshStart

=============================================================================
