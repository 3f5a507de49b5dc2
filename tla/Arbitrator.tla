----------------------------- MODULE Arbitrator -----------------------------
(***************************************************************************)
(* The arbitrator plans trajectories and hands them to the executor.  Its  *)
(* state machine (ArbitratorStateMachine) is moved by events of several    *)
(* threads and queues the planning jobs that the arbitrator's job thread   *)
(* runs.  An event changes the state under a lock, but the listener is     *)
(* told afterwards, without it, of the state as it is by then: hence the   *)
(* four steps Event, Look, Read and Notify.                                *)
(*                                                                         *)
(* "other" stands for the threads of Tracking, MobilityRouter and the      *)
(* plugins, which may call notifyTrajectoryFailure or requestNewPlan.      *)
(***************************************************************************)
EXTENDS TrajectoryExecutor

CONSTANTS MaxChanges,  \* bound: changes of the guidance state
          MaxFailures, \* bound: failures reported by other threads
          Shape        \* the trajectories the plugins come up with

ASSUME ArbitratorAssumption ==
    /\ MaxChanges \in Nat /\ MaxFailures \in Nat
    /\ Shape \subseteq {"plain", "complex", "last"} /\ Shape # {}

VARIABLES
    machine,           \* ArbitratorStateMachine.state
    arbJobs, job,      \* the job queue, the planning job in hand
    event, seen,       \* event[th], seen[th]: the event th processes, the state it has seen
    plans,             \* number of trajectories planned
    guidance, changes, \* the guidance state machine; number of its changes
    failures           \* number of failures reported by other threads

machineVars  == <<machine, event, seen>>
guidanceVars == <<guidance, changes>>
executorAll  == <<executorVars, bufferVars, callbacks, planVars, traj, routeVars>>
arbitratorAll == <<machineVars, arbJobs, job, plans, guidanceVars, failures>>
vars == <<executorAll, pc, machineVars, arbJobs, job, plans, guidanceVars, failures>>

Lifecycle == INSTANCE GuidanceLifecycle WITH state <- guidance

Planning == {"INITIAL_PLANNING", "NORMAL_REPLANNING", "REPLAN_AFTER_COMPLEX_TRAJECTORY",
             "REPLAN_DUE_TO_FAILED_TRAJECTORY"}

MachineState == Planning \cup {"INIT", "AWAITING_REPLAN"}

-----------------------------------------------------------------------------
(* ArbitratorStateMachine.processEvent *)

Successor(s, e) ==
    CASE e = "CLEAN_RESTART" -> "INIT"
      [] s = "INIT" /\ e = "INITIALIZE" -> "INITIAL_PLANNING"
      [] s \in Planning /\ e = "FINISHED_TRAJECTORY_PLANNING" -> "AWAITING_REPLAN"
      [] s = "AWAITING_REPLAN" /\ e = "TRAJECTORY_COMPLETION_ALERT" -> "NORMAL_REPLANNING"
      [] s = "AWAITING_REPLAN" /\ e = "COMPLEX_TRAJECTORY_COMPLETION_ALERT"
             -> "REPLAN_AFTER_COMPLEX_TRAJECTORY"
      [] s = "AWAITING_REPLAN" /\ e = "TRAJECTORY_FAILED_EXECUTION"
             -> "REPLAN_DUE_TO_FAILED_TRAJECTORY"
      [] OTHER -> s

(* Thread th is about to process event e. *)
Raise(th, e) ==
    /\ event' = [event EXCEPT ![th] = e]
    /\ Go(th, "event")

Event(th) ==
    /\ pc[th] = "event"
    /\ seen' = [seen EXCEPT ![th] = machine]
    /\ machine' = Successor(machine, event[th])
    /\ Go(th, "look")
    /\ UNCHANGED <<executorAll, event, arbJobs, job, plans, guidanceVars, failures>>

(* Where a thread goes on when it has processed its event. *)
After(th) == IF th # "route" THEN "idle"
             ELSE IF event[th] = "TRAJECTORY_FAILED_EXECUTION" THEN "callbacks" ELSE "mark"

(* Is the state another one than before the event? *)
Look(th) ==
    /\ pc[th] = "look"
    /\ IF seen[th] # machine
       THEN Go(th, "read") /\ UNCHANGED <<event, seen>>
       ELSE /\ Go(th, After(th))
            /\ event' = [event EXCEPT ![th] = "NONE"] /\ seen' = [seen EXCEPT ![th] = "INIT"]
    /\ UNCHANGED <<executorAll, machine, arbJobs, job, plans, guidanceVars, failures>>

(* The state is read again for the call of the listener. *)
Read(th) ==
    /\ pc[th] = "read"
    /\ seen' = [seen EXCEPT ![th] = machine]
    /\ Go(th, "notify")
    /\ UNCHANGED <<executorAll, machine, event, arbJobs, job, plans, guidanceVars, failures>>

(* Mutant: the jobs of a failed trajectory are forgotten. *)
Notify_deaf(th) ==
    /\ pc[th] = "notify"
    /\ arbJobs' = IF seen[th] \in Planning \ {"REPLAN_DUE_TO_FAILED_TRAJECTORY"}
                  THEN Append(arbJobs, seen[th]) ELSE arbJobs
    /\ event' = [event EXCEPT ![th] = "NONE"] /\ seen' = [seen EXCEPT ![th] = "INIT"]
    /\ Go(th, After(th))
    /\ UNCHANGED <<executorAll, machine, job, plans, guidanceVars, failures>>

(* Arbitrator.onStateChange(ArbitratorState). *)
Notify(th) ==
    /\ pc[th] = "notify"
    /\ arbJobs' = IF seen[th] \in Planning THEN Append(arbJobs, seen[th]) ELSE arbJobs
    /\ event' = [event EXCEPT ![th] = "NONE"] /\ seen' = [seen EXCEPT ![th] = "INIT"]
    /\ Go(th, After(th))
    /\ UNCHANGED <<executorAll, machine, job, plans, guidanceVars, failures>>

processEvent(th) == Event(th) \/ Look(th) \/ Read(th) \/ Notify(th)

-----------------------------------------------------------------------------
(* The arbitrator's job thread *)

(* The vehicle has reached the end of the route. *)
RouteDone == \E t \in 1 .. plans : shape[t] = "last" /\ covered[t] = 100

(* onEngaged, onCleanRestart, or a planning job. *)
TakeArbitratorJob ==
    /\ pc["arbitrator"] = "idle" /\ arbJobs # <<>>
    /\ arbJobs' = Tail(arbJobs)
    /\ CASE Head(arbJobs) = "ENGAGE" -> Raise("arbitrator", "INITIALIZE") /\ UNCHANGED job
         [] Head(arbJobs) = "RESTART" -> Raise("arbitrator", "CLEAN_RESTART") /\ UNCHANGED job
         [] OTHER -> job' = Head(arbJobs) /\ Go("arbitrator", "plan") /\ UNCHANGED event
    /\ UNCHANGED <<executorAll, machine, seen, plans, guidanceVars, failures>>

(* The trajectory would start where the route ends: there is nothing to plan. *)
PlanNothing ==
    /\ pc["arbitrator"] = "plan"
    /\ \/ job = "INITIAL_PLANNING" /\ RouteDone
       \/ /\ job \in {"NORMAL_REPLANNING", "REPLAN_AFTER_COMPLEX_TRAJECTORY"}
          /\ ~RouteDone /\ current # None /\ shape[current] = "last"
    /\ Raise("arbitrator", "FINISHED_TRAJECTORY_PLANNING") /\ job' = "NONE"
    /\ UNCHANGED <<executorAll, machine, seen, arbJobs, plans, guidanceVars, failures>>

(* A replan after the end of the route: a warning, and no event. *)
PlanAfterRoute ==
    /\ pc["arbitrator"] = "plan" /\ job # "INITIAL_PLANNING" /\ RouteDone
    /\ Go("arbitrator", "idle") /\ job' = "NONE"
    /\ UNCHANGED <<executorAll, machineVars, arbJobs, plans, guidanceVars, failures>>

(* normalReplan and complexTrajectoryReplan ask the current trajectory for its end
   without looking whether there is one. *)
PlanThrows ==
    /\ pc["arbitrator"] = "plan" /\ ~RouteDone /\ current = None
    /\ job \in {"NORMAL_REPLANNING", "REPLAN_AFTER_COMPLEX_TRAJECTORY"}
    /\ Go("arbitrator", "dead")
    /\ UNCHANGED <<executorAll, machineVars, arbJobs, job, plans, guidanceVars, failures>>

(* There is a trajectory to plan. *)
ToPlan ==
    /\ pc["arbitrator"] = "plan" /\ ~RouteDone
    /\ job \in {"NORMAL_REPLANNING", "REPLAN_AFTER_COMPLEX_TRAJECTORY"} =>
          current # None /\ shape[current] # "last"

(* A trajectory is planned by the plugins, in so many attempts, or, to steady the
   vehicle after a complex maneuver, by the cruising plugin alone.  When no attempt is
   valid the exception handler is told (it panics) and the job goes on with null. *)
Plan ==
    /\ ToPlan /\ plans < MaxPlans
    /\ \/ /\ plans' = plans + 1
          /\ \E s \in IF job = "REPLAN_AFTER_COMPLEX_TRAJECTORY" THEN {"steadying"} ELSE Shape :
                shape' = [shape EXCEPT ![plans + 1] = s]
          /\ traj' = [traj EXCEPT !["arbitrator"] = plans + 1]
       \/ /\ job # "REPLAN_AFTER_COMPLEX_TRAJECTORY"
          /\ traj' = [traj EXCEPT !["arbitrator"] = None]
          /\ UNCHANGED <<plans, shape>>
    /\ Go("arbitrator", CASE job = "INITIAL_PLANNING" -> "register"
                          [] job = "REPLAN_DUE_TO_FAILED_TRAJECTORY" -> "abort"
                          [] OTHER -> "submit")
    /\ UNCHANGED <<executorVars, bufferVars, callbacks, covered, routeVars, machineVars,
                   arbJobs, job, guidanceVars, failures>>

(* initialPlan registers the callback that triggers the replanning. *)
Register ==
    /\ pc["arbitrator"] = "register"
    /\ register(75)
    /\ Go("arbitrator", "submit")
    /\ UNCHANGED <<executorVars, bufferVars, planVars, traj, routeVars, machineVars, arbJobs,
                   job, plans, guidanceVars, failures>>

(* After the steadying trajectory complexTrajectoryReplan goes on as normalReplan;
   every other job is finished. *)
Planned ==
    /\ pc["arbitrator"] = "planned"
    /\ IF job = "REPLAN_AFTER_COMPLEX_TRAJECTORY"
       THEN job' = "NORMAL_REPLANNING" /\ Go("arbitrator", "plan") /\ UNCHANGED event
       ELSE Raise("arbitrator", "FINISHED_TRAJECTORY_PLANNING") /\ job' = "NONE"
    /\ UNCHANGED <<executorAll, machine, seen, arbJobs, plans, guidanceVars, failures>>

ArbitratorThread ==
    \/ /\ Submit \/ Run("arbitrator") \/ RunSet("arbitrator") \/ RunReset("arbitrator")
          \/ RunQueue("arbitrator") \/ Abort("arbitrator")
          \/ AbortNext("arbitrator")
       /\ UNCHANGED arbitratorAll
    \/ TakeArbitratorJob \/ PlanNothing \/ PlanAfterRoute \/ PlanThrows \/ Plan \/ Register
    \/ Planned \/ processEvent("arbitrator")

-----------------------------------------------------------------------------
(* What the callbacks do on the route thread.  The one of initialPlan raises the alert,
   or, for a trajectory with a complex maneuver, registers the complexReplanCallback;
   that one unregisters itself and raises its alert.  unregisterOnTrajectoryProgress-
   Callback looks for the OnTrajectoryProgressCallback in a list of PctCallbacks and
   removes nothing. *)
OnProgress ==
    /\ pc["route"] = "progress"
    /\ IF callbacks[at].pct = 75 /\ current # None /\ shape[current] = "complex"
       THEN register(95) /\ Go("route", "mark") /\ UNCHANGED event
       ELSE /\ Raise("route", IF callbacks[at].pct = 75 THEN "TRAJECTORY_COMPLETION_ALERT"
                              ELSE "COMPLEX_TRAJECTORY_COMPLETION_ALERT")
            /\ UNCHANGED callbacks
    /\ UNCHANGED <<executorVars, bufferVars, planVars, traj, routeVars, machine, seen, arbJobs,
                   job, plans, guidanceVars, failures>>

Failure ==
    /\ pc["route"] = "failure"
    /\ Raise("route", "TRAJECTORY_FAILED_EXECUTION")
    /\ UNCHANGED <<executorAll, machine, seen, arbJobs, job, plans, guidanceVars, failures>>

(* notifyTrajectoryFailure by another thread. *)
notifyTrajectoryFailure ==
    /\ pc["other"] = "idle" /\ failures < MaxFailures
    /\ failures' = failures + 1
    /\ Raise("other", "TRAJECTORY_FAILED_EXECUTION")
    /\ UNCHANGED <<executorAll, machine, seen, arbJobs, job, plans, guidanceVars>>

(* The guidance state machine queues a job for both components. *)
ActionTo(s) == CASE s = "ENGAGED" -> "ENGAGE" [] s = "INACTIVE" -> "DEACTIVATE"
                 [] s = "ACTIVE" -> "ACTIVATE" [] s = "DRIVERS_READY" -> "RESTART"

GuidanceChange ==
    /\ changes < MaxChanges
    /\ \E s \in Lifecycle!Successor[guidance] \ {"SHUTDOWN"} :
          /\ guidance' = s
          /\ exJobs' = Append(exJobs, ActionTo(s))
          /\ arbJobs' = IF s \in {"ENGAGED", "DRIVERS_READY"}
                        THEN Append(arbJobs, ActionTo(s)) ELSE arbJobs
    /\ changes' = changes + 1
    /\ UNCHANGED <<exState, currentTrajectory, bufferedTrajectoryRunning, bufferVars, callbacks,
                   planVars, pc, traj, routeVars, machineVars, job, plans, failures>>

-----------------------------------------------------------------------------
(* Guidance is ACTIVE and nothing has been planned. *)
Init ==
    /\ exState = "ACTIVE" /\ exJobs = <<>> /\ currentTrajectory = None
    /\ bufferedTrajectoryRunning = FALSE
    /\ current = None /\ next = None /\ timeSteps = 0 /\ callbacks = <<>>
    /\ shape = [t \in Trajectory |-> "plain"] /\ covered = [t \in Trajectory |-> 0]
    /\ pc = [th \in Thread |-> "idle"] /\ traj = [th \in Thread |-> None]
    /\ left = {} /\ at = 0 /\ pct = Unknown
    /\ machine = "INIT" /\ arbJobs = <<>> /\ job = "NONE"
    /\ event = [th \in Thread |-> "NONE"] /\ seen = [th \in Thread |-> "INIT"]
    /\ plans = 0 /\ guidance = "ACTIVE" /\ changes = 0 /\ failures = 0

Executor == ExecutorThread /\ UNCHANGED arbitratorAll

Route == \/ RouteThread /\ UNCHANGED arbitratorAll
         \/ OnProgress \/ Failure \/ processEvent("route")

Other == notifyTrajectoryFailure \/ processEvent("other")

Next == Executor \/ Route \/ ArbitratorThread \/ Other \/ GuidanceChange

Spec == Init /\ [][Next]_vars

(* RouteState messages keep coming, and every thread that can go on does. *)
FairSpec == /\ Spec
            /\ WF_vars(Executor) /\ WF_vars(Route) /\ WF_vars(ArbitratorThread)
            /\ WF_vars(processEvent("other"))

-----------------------------------------------------------------------------
(* Properties *)

(* The fields of the executor, of its worker and of the arbitrator have their types,
   and every thread is at a place of its own code. *)
TypeOK ==
    /\ exState \in {"ACTIVE", "ENGAGED", "INACTIVE", "DRIVERS_READY"}
    /\ exJobs \in Seq({"ENGAGE", "RESTART", "ACTIVATE", "DEACTIVATE"})
    /\ currentTrajectory \in 0 .. plans /\ bufferedTrajectoryRunning \in BOOLEAN
    /\ current \in 0 .. plans /\ next \in 0 .. plans /\ timeSteps \in 0 .. 3
    /\ callbacks \in Seq([pct : {75, 95}, called : BOOLEAN, live : BOOLEAN])
    /\ shape \in [Trajectory -> {"plain", "complex", "last", "steadying"}]
    /\ covered \in [Trajectory -> Percent]
    /\ traj \in [Thread -> 0 .. plans]
    /\ left \subseteq DOMAIN callbacks /\ at \in 0 .. Len(callbacks) /\ pct \in Percent
    /\ machine \in MachineState /\ seen \in [Thread -> MachineState]
    /\ arbJobs \in Seq(Planning \cup {"ENGAGE", "RESTART"}) /\ job \in Planning \cup {"NONE"}
    /\ plans \in 0 .. MaxPlans /\ failures \in 0 .. MaxFailures
    /\ pc["other"] \in {"idle", "event", "look", "read", "notify"}
    /\ pc["executor"] \notin {"event", "look", "read", "notify", "submit", "dead"}

(* A thread was stopped by an exception.  The handler of uncaught exceptions panics
   and guidance shuts down (GuidanceStateMachine). *)
Dead == \E th \in Thread : pc[th] = "dead"

(* The arbitrator never waits for a plan nobody makes: in a planning state, some job is
   queued or being run, or a thread is about to queue it.  Otherwise every later alert
   and failure would be ignored (processEvent hears them in AWAITING_REPLAN only). *)
PlannerAtWork ==
    machine \in Planning =>
        \/ \E i \in DOMAIN arbJobs : arbJobs[i] \in Planning
        \/ pc["arbitrator"] # "idle"
        \/ \E th \in Thread : pc[th] \in {"look", "read", "notify"}
        \/ RouteDone

(* In the first engagement, and when no other thread reports a failure, the buffered
   trajectory was planned after the one in execution (except in the middle of a swap or
   of an abort): a swap never leads back.  A clean restart of the executor does not wait
   for a runTrajectory of the arbitrator, which can leave a trajectory of before the
   restart in the buffer; and a failure reported while INITIALIZE is processed gets the
   initial trajectory planned twice. *)
BufferIsNewer ==
    changes <= 1 /\ failures = 0 /\ next # None =>
        \/ next > current \/ pc["route"] = "swap_clear"
        \/ \E th \in Thread : pc[th] = "abort_next"

(* A trajectory that begins to execute has not been executed before, whatever the order
   of engaging, deactivating and restarting. *)
FreshStart ==
    [][current' # current /\ current' # None => covered[current'] = 0]_vars

AtEnd == current # None /\ covered[current] = 100

(* The vehicle does not stay at the end of a trajectory: a successor is swapped in, or
   the failure that swapTrajectories reports gets another one planned, however alerts,
   failures and the planning interleave.  (MaxPlans is the model's end.) *)
EndIsSucceeded ==
    AtEnd ~> (~AtEnd \/ RouteDone \/ plans = MaxPlans \/ Dead \/ guidance # "ENGAGED")

(* A trajectory that is handed to the executor while none is running is run at once, or
   when guidance gets engaged. *)
PlannedIsRun ==
    (currentTrajectory # None /\ guidance = "ENGAGED") ~>
        (current # None \/ guidance # "ENGAGED" \/ Dead)

(* An aborted trajectory never replaces the one planned in its place. *)
InOrder == [][current # None /\ current' # None => current' >= current]_vars

(* The callback that is to be called once is not registered any more when it has been. *)
CalledOnce == \A i \in Live : callbacks[i].pct = 95 => ~callbacks[i].called

=============================================================================
