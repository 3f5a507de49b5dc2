------------------------- MODULE TrajectoryExecutor -------------------------
(***************************************************************************)
(* TrajectoryExecutor and its TrajectoryExecutorWorker: the trajectory in  *)
(* execution, the one buffered behind it, and the callbacks that fire at a *)
(* percentage of the trajectory.  They are used by                         *)
(*                                                                         *)
(*  - the route thread, which brings the progress of the vehicle           *)
(*    (updateDowntrackDistance) and calls the callbacks;                   *)
(*  - the executor's own job thread (onEngaged, onCleanRestart, ...);      *)
(*  - the arbitrator's job thread (runTrajectory, abortTrajectory),        *)
(*                                                                         *)
(* without a common lock: a thread may be interrupted wherever what it has *)
(* read or written of a shared field matters to another.                   *)
(* This module has the steps of the first two threads and of the methods   *)
(* the third one calls; Arbitrator composes them with the arbitrator.      *)
(*                                                                         *)
(* Trajectories are numbered in the order they are planned.  Distances are *)
(* reduced to what the code compares: how much of a trajectory the vehicle *)
(* has covered.                                                            *)
(***************************************************************************)
EXTENDS Naturals, Sequences

CONSTANT MaxPlans  \* bound: trajectories that are ever planned

ASSUME PlansAssumption == MaxPlans \in Nat \ {0}

VARIABLES
    exState, exJobs,    \* TrajectoryExecutor: its copy of the guidance state, its jobs
    currentTrajectory,  \* TrajectoryExecutor.currentTrajectory, set when not engaged
    bufferedTrajectoryRunning,
    current, next,      \* the worker's currentTrajectory and nextTrajectory
    timeSteps,          \* timeStepsWithoutTraj
    callbacks,          \* every PctCallback made; live: it is in the worker's list
    shape,              \* shape[t]: whether t has a complex maneuver or ends the route
    covered,            \* covered[t]: how much of trajectory t lies behind the vehicle
    pc,                 \* pc[th]: where thread th is
    traj,               \* traj[th]: the trajectory in its hands
    left, at, pct       \* the route thread: callbacks still to look at, the one it is at,
                        \* the completion it has read

executorVars == <<exState, exJobs, currentTrajectory, bufferedTrajectoryRunning>>
bufferVars   == <<current, next, timeSteps>>
routeVars    == <<left, at, pct>>
planVars     == <<shape, covered>>

Thread == {"route", "executor", "arbitrator", "other"}

Trajectory == 1 .. MaxPlans

None == 0

(* Percentages: 75 and 95 are the arbitrator's replan thresholds. *)
Percent == {0, 75, 95, 100}

Unknown == 0 \* getTrajectoryCompletionPct's -1.0: below every threshold

Go(th, p) == pc' = [pc EXCEPT ![th] = p]

Reset == [i \in DOMAIN callbacks |-> [callbacks[i] EXCEPT !.called = FALSE]]

Live == {i \in DOMAIN callbacks : callbacks[i].live}

register(threshold) ==
    callbacks' = Append(callbacks, [pct |-> threshold, called |-> FALSE, live |-> TRUE])

-----------------------------------------------------------------------------
(* TrajectoryExecutorWorker.runTrajectory(traj[th]), called by the executor and the
   arbitrator. *)

Run(th) ==
    /\ pc[th] = "run"
    /\ Go(th, IF current = None THEN "run_set" ELSE "run_queue")
    /\ UNCHANGED <<executorVars, bufferVars, callbacks, planVars, traj, routeVars>>

(* The end of runTrajectory in the worker and in the executor. *)
RunDone(th) ==
    /\ timeSteps' = 0
    /\ bufferedTrajectoryRunning' = TRUE
    /\ traj' = [traj EXCEPT ![th] = None]
    /\ Go(th, IF th = "executor" THEN "engaged" ELSE "planned")
    /\ UNCHANGED <<exState, exJobs, currentTrajectory, planVars, routeVars>>

RunSet(th) ==
    /\ pc[th] = "run_set"
    /\ current' = traj[th]
    /\ Go(th, "run_reset")
    /\ UNCHANGED <<executorVars, next, timeSteps, callbacks, planVars, traj, routeVars>>

RunReset(th) ==
    /\ pc[th] = "run_reset"
    /\ callbacks' = Reset
    /\ RunDone(th)
    /\ UNCHANGED <<current, next>>

RunQueue(th) ==
    /\ pc[th] = "run_queue"
    /\ next' = traj[th]
    /\ RunDone(th)
    /\ UNCHANGED <<current, callbacks>>

(* TrajectoryExecutor.runTrajectory: when not engaged the trajectory is kept for
   onEngaged; null is dereferenced at once and ends the thread. *)
Submit ==
    /\ pc["arbitrator"] = "submit"
    /\ \/ /\ traj["arbitrator"] = None
          /\ Go("arbitrator", "dead")
          /\ UNCHANGED <<currentTrajectory, traj>>
       \/ /\ traj["arbitrator"] # None /\ exState = "ENGAGED"
          /\ Go("arbitrator", "run")
          /\ UNCHANGED <<currentTrajectory, traj>>
       \/ /\ traj["arbitrator"] # None /\ exState # "ENGAGED"
          /\ currentTrajectory' = traj["arbitrator"]
          /\ traj' = [traj EXCEPT !["arbitrator"] = None]
          /\ Go("arbitrator", "planned")
    /\ UNCHANGED <<exState, exJobs, bufferedTrajectoryRunning, bufferVars, callbacks,
                   planVars, routeVars>>

(* abortTrajectory clears both fields, one after the other. *)
Abort(th) ==
    /\ pc[th] = "abort"
    /\ current' = None
    /\ Go(th, "abort_next")
    /\ UNCHANGED <<executorVars, next, timeSteps, callbacks, planVars, traj, routeVars>>

AbortNext(th) ==
    /\ pc[th] = "abort_next"
    /\ next' = None
    /\ Go(th, IF th = "executor" THEN "restart" ELSE "submit")
    /\ UNCHANGED <<executorVars, current, timeSteps, callbacks, planVars, traj, routeVars>>

-----------------------------------------------------------------------------
(* The executor's job thread *)

(* Mutant: the kept trajectory is run at every engagement. *)
TakeExecutorJob_again ==
    /\ pc["executor"] = "idle" /\ exJobs # <<>>
    /\ exJobs' = Tail(exJobs)
    /\ CASE Head(exJobs) = "ENGAGE" ->
              /\ Go("executor", IF currentTrajectory # None THEN "engage_run" ELSE "engaged")
              /\ UNCHANGED exState
         [] Head(exJobs) = "RESTART" -> exState' = "DRIVERS_READY" /\ Go("executor", "abort")
         [] Head(exJobs) = "ACTIVATE" -> exState' = "ACTIVE" /\ UNCHANGED pc
         [] Head(exJobs) = "DEACTIVATE" -> exState' = "INACTIVE" /\ UNCHANGED pc
    /\ UNCHANGED <<currentTrajectory, bufferedTrajectoryRunning, bufferVars, callbacks,
                   planVars, traj, routeVars>>

TakeExecutorJob ==
    /\ pc["executor"] = "idle" /\ exJobs # <<>>
    /\ exJobs' = Tail(exJobs)
    /\ CASE Head(exJobs) = "ENGAGE" ->
              /\ Go("executor", IF currentTrajectory # None /\ ~bufferedTrajectoryRunning
                                THEN "engage_run" ELSE "engaged")
              /\ UNCHANGED exState
         [] Head(exJobs) = "RESTART" -> exState' = "DRIVERS_READY" /\ Go("executor", "abort")
         [] Head(exJobs) = "ACTIVATE" -> exState' = "ACTIVE" /\ UNCHANGED pc
         [] Head(exJobs) = "DEACTIVATE" -> exState' = "INACTIVE" /\ UNCHANGED pc
    /\ UNCHANGED <<currentTrajectory, bufferedTrajectoryRunning, bufferVars, callbacks,
                   planVars, traj, routeVars>>

EngageRun ==
    /\ pc["executor"] = "engage_run"
    /\ traj' = [traj EXCEPT !["executor"] = currentTrajectory]
    /\ Go("executor", "run")
    /\ UNCHANGED <<executorVars, bufferVars, callbacks, planVars, routeVars>>

Engaged ==
    /\ pc["executor"] = "engaged"
    /\ exState' = "ENGAGED"
    /\ Go("executor", "idle")
    /\ UNCHANGED <<exJobs, currentTrajectory, bufferedTrajectoryRunning, bufferVars,
                   callbacks, planVars, traj, routeVars>>

(* cleanRestart puts new, empty references in the place of both fields: a write to
   the old one that the route thread is about to make has no effect any more. *)
CleanRestart ==
    /\ pc["executor"] = "restart"
    /\ current' = None /\ next' = None
    /\ pc' = [pc EXCEPT !["executor"] = "restart_callbacks",
                        !["route"] = IF @ = "swap_set" THEN "swap_clear" ELSE @]
    /\ traj' = [traj EXCEPT !["route"] = None]
    /\ UNCHANGED <<executorVars, timeSteps, callbacks, planVars, routeVars>>

UnregisterAll ==
    /\ pc["executor"] = "restart_callbacks"
    /\ callbacks' = [i \in DOMAIN callbacks |-> [callbacks[i] EXCEPT !.live = FALSE]]
    /\ Go("executor", "restart_done")
    /\ UNCHANGED <<executorVars, bufferVars, planVars, traj, routeVars>>

RestartDone ==
    /\ pc["executor"] = "restart_done"
    /\ currentTrajectory' = None /\ bufferedTrajectoryRunning' = FALSE
    /\ Go("executor", "idle")
    /\ UNCHANGED <<exState, exJobs, bufferVars, callbacks, planVars, traj, routeVars>>

ExecutorThread ==
    \/ TakeExecutorJob \/ EngageRun \/ Engaged \/ CleanRestart \/ UnregisterAll \/ RestartDone
    \/ Run("executor") \/ RunSet("executor") \/ RunReset("executor") \/ RunQueue("executor")
    \/ Abort("executor") \/ AbortNext("executor")

-----------------------------------------------------------------------------
(* The route thread: updateDowntrackDistance *)

(* The progress that the code can tell from less: the thresholds of the callbacks and
   the end of the trajectory. *)
Milestones == {100} \cup {callbacks[i].pct : i \in Live}

RouteState ==
    /\ pc["route"] = "idle" /\ current # None
    /\ \E p \in {q \in Milestones : q >= covered[current]} :
          /\ covered' = [covered EXCEPT ![current] = p]
          /\ Go("route", IF p = 100 THEN "swap" ELSE "callbacks")
    /\ UNCHANGED <<executorVars, bufferVars, callbacks, shape, traj, routeVars>>

(* Mutant: a missing successor is not reported. *)
Swap_silent ==
    /\ pc["route"] = "swap"
    /\ Go("route", IF next # None THEN "swap_read" ELSE "callbacks")
    /\ UNCHANGED <<executorVars, bufferVars, callbacks, planVars, traj, routeVars>>

(* swapTrajectories.  The third message in a row at the end of a trajectory that has
   no successor is a failure of the trajectory. *)
Swap ==
    /\ pc["route"] = "swap"
    /\ \/ /\ next # None
          /\ Go("route", "swap_read")
          /\ UNCHANGED timeSteps
       \/ /\ next = None
          /\ timeSteps' = IF timeSteps < 3 THEN timeSteps + 1 ELSE 3
          /\ Go("route", IF timeSteps' = 3 THEN "failure" ELSE "callbacks")
    /\ UNCHANGED <<executorVars, current, next, callbacks, planVars, traj, routeVars>>

SwapRead ==
    /\ pc["route"] = "swap_read"
    /\ traj' = [traj EXCEPT !["route"] = next]
    /\ Go("route", "swap_set")
    /\ UNCHANGED <<executorVars, bufferVars, callbacks, planVars, routeVars>>

SwapSet ==
    /\ pc["route"] = "swap_set"
    /\ current' = traj["route"]
    /\ traj' = [traj EXCEPT !["route"] = None]
    /\ Go("route", "swap_clear")
    /\ UNCHANGED <<executorVars, next, timeSteps, callbacks, planVars, routeVars>>

(* Mutant: the trajectory that has become the current one stays buffered too. *)
SwapClear_not ==
    /\ pc["route"] = "swap_clear"
    /\ Go("route", "swap_reset")
    /\ UNCHANGED <<executorVars, bufferVars, callbacks, planVars, traj, routeVars>>

SwapClear ==
    /\ pc["route"] = "swap_clear"
    /\ next' = None
    /\ Go("route", "swap_reset")
    /\ UNCHANGED <<executorVars, current, timeSteps, callbacks, planVars, traj, routeVars>>

SwapReset ==
    /\ pc["route"] = "swap_reset"
    /\ callbacks' = Reset
    /\ Go("route", "callbacks")
    /\ UNCHANGED <<executorVars, bufferVars, planVars, traj, routeVars>>

(* invokeCallbacks: a copy of the list, then the completion.  The trajectory is read
   once to see that there is one and again to compute with it. *)
Snapshot ==
    /\ pc["route"] = "callbacks"
    /\ left' = Live
    /\ pct' = Unknown
    /\ Go("route", IF current = None THEN "each" ELSE "pct")
    /\ UNCHANGED <<executorVars, bufferVars, callbacks, planVars, traj, at>>

CompletionPct ==
    /\ pc["route"] = "pct"
    /\ IF current = None
       THEN Go("route", "dead") /\ UNCHANGED pct
       ELSE pct' = covered[current] /\ Go("route", "each")
    /\ UNCHANGED <<executorVars, bufferVars, callbacks, planVars, traj, left, at>>

Triggered(i) == ~callbacks[i].called /\ pct >= callbacks[i].pct

(* The next callback, in the order of the list, that has not been called and whose
   threshold is reached. *)
Each ==
    /\ pc["route"] = "each"
    /\ \/ /\ \A i \in left : ~Triggered(i)
          /\ left' = {} /\ pct' = Unknown /\ at' = 0
          /\ Go("route", "idle")
       \/ \E i \in left :
             /\ Triggered(i)
             /\ \A j \in left : j < i => ~Triggered(j)
             /\ left' = {j \in left : j > i}
             /\ at' = i
             /\ Go("route", "progress")
             /\ UNCHANGED pct
    /\ UNCHANGED <<executorVars, bufferVars, callbacks, planVars, traj>>

(* The callback is marked when it has returned. *)
Mark ==
    /\ pc["route"] = "mark"
    /\ callbacks' = [callbacks EXCEPT ![at].called = TRUE]
    /\ Go("route", "each")
    /\ UNCHANGED <<executorVars, bufferVars, planVars, traj, routeVars>>

RouteThread == \/ RouteState \/ Swap \/ SwapRead \/ SwapSet \/ SwapClear \/ SwapReset
               \/ Snapshot \/ CompletionPct \/ Each \/ Mark
=============================================================================
