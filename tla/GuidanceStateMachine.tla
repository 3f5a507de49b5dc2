------------------------ MODULE GuidanceStateMachine ------------------------
(***************************************************************************)
(* The core of CARMA Guidance: GuidanceStateMachine, the GuidanceComponents *)
(* that listen to it through their job queues, and GuidanceStateHandler,    *)
(* the component that turns ROS messages into events and that kills the     *)
(* node at the end.                                                         *)
(*                                                                          *)
(* Threads.  processEvent is a synchronized method: the caller holds the    *)
(* monitor from the moment the state is set until the last listener got its *)
(* job, and `toNotify` is the set of listeners still to be called, so the   *)
(* monitor is free iff it is empty.  The components' job threads do not     *)
(* take the monitor to run jobs, so they run while others are notified.     *)
(* The code calls the listeners in registration order; any order is allowed *)
(* here.                                                                    *)
(***************************************************************************)
EXTENDS Naturals, Sequences

CONSTANTS Component,     \* the GuidanceComponents registered as listeners
          StateHandler,  \* the one that is the GuidanceStateHandler
          PluginManager, \* the one that is the PluginManager
          MayThrow,      \* components whose jobs may end in an uncaught exception
          MayRaise,      \* components whose jobs may report an exception and go on
          MaxQueue       \* bound: a job queue this long takes no further regular job

ASSUME ComponentAssumption ==
    /\ StateHandler \in Component
    /\ PluginManager \in Component
    /\ StateHandler # PluginManager
    /\ MayThrow \subseteq Component
    /\ MayRaise \subseteq Component
    /\ MaxQueue \in Nat \ {0}

VARIABLES
    guidance_state, \* GuidanceStateMachine.guidance_state
    action,         \* the last GuidanceAction decided on, "NONE" before the first
    toNotify,       \* listeners that have not been given that action yet
    jobQueue,       \* jobQueue[c]: the jobs component c has still to run
    currentState,   \* currentState[c]: c's own copy of the guidance state
    thread,         \* thread[c]: what c's job thread is doing
    subscribed,     \* the state handler has created its subscribers and service
    robotSub,       \* the state handler listens to the robot status topic
    robotStatus,    \* GuidanceStateHandler.robotStatus
    robotEdge,      \* the edge its callback has posted and not yet remembered
    request,        \* the set_guidance_active call being served
    answer,         \* its last response
    alerts,         \* SHUTDOWN and FATAL, once Guidance has published such an alert
    node            \* the ROS node

machineVars == <<guidance_state, action, toNotify>>
queueVars   == <<jobQueue, currentState, thread>>
handlerVars == <<subscribed, robotSub, robotStatus, robotEdge>>
serviceVars == <<request, answer>>
vars == <<machineVars, queueVars, handlerVars, serviceVars, alerts, node>>

(* The life cycle as the state machine and as component c go through it. *)
Life == INSTANCE GuidanceLifecycle WITH state <- guidance_state
ComponentLife(c) == INSTANCE GuidanceLifecycle WITH state <- currentState[c]

ComponentsStart == \A c \in Component : ComponentLife(c)!Init
ComponentsStep  == \A c \in Component : ComponentLife(c)!Next \/ UNCHANGED currentState[c]

-----------------------------------------------------------------------------
(* The state machine *)

State == {"STARTUP", "DRIVERS_READY", "ACTIVE", "INACTIVE", "ENGAGED", "SHUTDOWN"}

Event == {"FOUND_DRIVERS", "ACTIVATE", "START_ROUTE", "FINISH_ROUTE", "LEFT_ROUTE",
          "DISENGAGE", "ROBOT_DISABLED", "PANIC", "SHUTDOWN"}

Action == {"INTIALIZE", "ACTIVATE", "ENGAGE", "DEACTIVATE", "SHUTDOWN",
           "PANIC_SHUTDOWN", "RESTART"}

(* A job is the handler of an action, or onStartup, which the constructor puts
   first in the queue. *)
Job == Action \cup {"ONSTARTUP"}

(* The events that end Guidance, in whatever state it is. *)
Ending == {"PANIC", "SHUTDOWN"}

(* The events that take the machine back to DRIVERS_READY once it is active. *)
Leaving == {"LEFT_ROUTE", "DISENGAGE", "FINISH_ROUTE"}

(* The switch of processEvent: the action decided on in state s, "NONE" for an
   event that the state does not handle. *)
Switch(s, e) ==
    CASE s = "STARTUP" /\ e = "FOUND_DRIVERS"                      -> "INTIALIZE"
      [] s = "DRIVERS_READY" /\ e = "ACTIVATE"                     -> "ACTIVATE"
      [] s \in {"ACTIVE", "INACTIVE"} /\ e = "START_ROUTE"         -> "ENGAGE"
      [] s = "ENGAGED" /\ e = "ROBOT_DISABLED"                     -> "DEACTIVATE"
      [] s \in {"ACTIVE", "INACTIVE", "ENGAGED"} /\ e \in Leaving  -> "RESTART"
      [] OTHER                                                     -> "NONE"

(* Mutants: START_ROUTE accepted before the user activated Guidance; a disabled
   robot ignored. *)
ActionOf_early(s, e) ==
    CASE e = "PANIC"    -> "PANIC_SHUTDOWN"
      [] e = "SHUTDOWN" -> "SHUTDOWN"
      [] OTHER          -> IF s = "DRIVERS_READY" /\ e = "START_ROUTE"
                           THEN "ENGAGE" ELSE Switch(s, e)

ActionOf_deaf(s, e) ==
    CASE e = "PANIC"          -> "PANIC_SHUTDOWN"
      [] e = "SHUTDOWN"       -> "SHUTDOWN"
      [] e = "ROBOT_DISABLED" -> "NONE"
      [] OTHER                -> Switch(s, e)

ActionOf(s, e) ==
    CASE e = "PANIC"    -> "PANIC_SHUTDOWN"
      [] e = "SHUTDOWN" -> "SHUTDOWN"
      [] OTHER          -> Switch(s, e)

(* The guidance state that a job stands for: the state the machine takes with
   the action, and the value the component's handler gives its own copy. *)
Target ==
    [j \in Job |->
        CASE j = "ONSTARTUP"                       -> "STARTUP"
          [] j \in {"INTIALIZE", "RESTART"}        -> "DRIVERS_READY"
          [] j = "ACTIVATE"                        -> "ACTIVE"
          [] j = "ENGAGE"                          -> "ENGAGED"
          [] j = "DEACTIVATE"                      -> "INACTIVE"
          [] j \in {"SHUTDOWN", "PANIC_SHUTDOWN"}  -> "SHUTDOWN"]

(* The monitor of the state machine is not held. *)
MonitorFree == toNotify = {}

(* The action changes the state, so the listeners are called. *)
Changes(a) == a \in Action /\ Target[a] # guidance_state

(* processEvent up to the loop over the listeners.  Only the two events that
   end Guidance, each of which has an effect once, are exempt from MaxQueue. *)
processEvent(e) ==
    LET a == ActionOf(guidance_state, e) IN
    /\ MonitorFree
    /\ e \notin Ending => \A c \in Component : Len(jobQueue[c]) < MaxQueue
    /\ \/ /\ Changes(a)
          /\ action' = a
          /\ guidance_state' = Target[a]
          /\ toNotify' = Component
       \/ /\ ~Changes(a)
          /\ UNCHANGED machineVars

(* Mutants: a job finds the queue full and is dropped; a job overtakes the ones
   already waiting. *)
Notify_drop(c) ==
    /\ c \in toNotify
    /\ jobQueue' = [jobQueue EXCEPT ![c] = IF @ = <<>> THEN <<action>> ELSE @]
    /\ toNotify' = toNotify \ {c}
    /\ UNCHANGED <<guidance_state, action, currentState, thread, handlerVars,
                   serviceVars, alerts, node>>

Notify_lifo(c) ==
    /\ c \in toNotify
    /\ jobQueue' = [jobQueue EXCEPT ![c] = <<action>> \o @]
    /\ toNotify' = toNotify \ {c}
    /\ UNCHANGED <<guidance_state, action, currentState, thread, handlerVars,
                   serviceVars, alerts, node>>

(* One turn of processEvent's loop: onStateChange of listener c queues the job;
   with the last listener the monitor is released. *)
Notify(c) ==
    /\ c \in toNotify
    /\ jobQueue' = [jobQueue EXCEPT ![c] = Append(@, action)]
    /\ toNotify' = toNotify \ {c}
    /\ UNCHANGED <<guidance_state, action, currentState, thread, handlerVars,
                   serviceVars, alerts, node>>

-----------------------------------------------------------------------------
(* The components' job threads *)

(* running : takes jobs
   raising : in a job, has an exception to report;  raised: has reported it
   dying   : has thrown out of a job, to report it; died  : has reported it
   sleeping: the state handler in the wait of onShutdown
   stopped : has interrupted itself *)
ThreadState == {"running", "raising", "raised", "dying", "sleeping", "stopped", "died"}

(* Component c finishes the job at the head of its queue.  onShutdown and onPanic
   interrupt the job thread, which ends CancellableLoop. *)
JobDone(c, after) ==
    /\ currentState' = [currentState EXCEPT ![c] = Target[Head(jobQueue[c])]]
    /\ jobQueue' = [jobQueue EXCEPT ![c] = Tail(@)]
    /\ thread' = [thread EXCEPT ![c] = after]

Stopping(c) == Target[Head(jobQueue[c])] = "SHUTDOWN"

HasJob(c) == thread[c] \in {"running", "raised"} /\ jobQueue[c] # <<>>

(* A job of an ordinary component.  PluginManager overrides onShutdown to publish
   a FATAL alert; onPanic it inherits. *)
RunJob(c) ==
    /\ c # StateHandler
    /\ HasJob(c)
    /\ JobDone(c, IF Stopping(c) THEN "stopped" ELSE "running")
    /\ alerts' = IF c = PluginManager /\ Head(jobQueue[c]) = "SHUTDOWN"
                 THEN alerts \cup {"FATAL"} ELSE alerts
    /\ UNCHANGED <<machineVars, handlerVars, serviceVars, node>>

(* A job of c calls GuidanceExceptionHandler.handleException, to go on after it:
   c waits for the monitor, posts PANIC, then finishes the job.  The state handler
   does so in onSystemReady only, when the interface manager does not answer. *)
JobRaises(c) ==
    /\ c \in MayRaise
    /\ thread[c] = "running" /\ jobQueue[c] # <<>> /\ ~Stopping(c)
    /\ c = StateHandler => Head(jobQueue[c]) = "INTIALIZE"
    /\ thread' = [thread EXCEPT ![c] = "raising"]
    /\ UNCHANGED <<machineVars, jobQueue, currentState, handlerVars, serviceVars,
                   alerts, node>>

(* A job of c throws: the job thread is gone, with or without the component's
   copy of the state already set, and the default uncaught-exception handler posts
   PANIC from it.  In the state handler that can happen in onSystemReady only,
   which goes on to use the service that it did not find. *)
JobThrows(c) ==
    /\ c \in MayThrow
    /\ thread[c] = "running" /\ jobQueue[c] # <<>> /\ ~Stopping(c)
    /\ c = StateHandler => Head(jobQueue[c]) = "INTIALIZE"
    /\ thread' = [thread EXCEPT ![c] = "dying"]
    /\ jobQueue' = [jobQueue EXCEPT ![c] = Tail(@)]
    /\ \/ c # StateHandler
          /\ currentState' = [currentState EXCEPT ![c] = Target[Head(jobQueue[c])]]
       \/ UNCHANGED currentState
    /\ UNCHANGED <<machineVars, handlerVars, serviceVars, alerts, node>>

(* GuidanceExceptionHandler.handleException. *)
handleException(c) ==
    /\ thread[c] \in {"raising", "dying"}
    /\ processEvent("PANIC")
    /\ thread' = [thread EXCEPT ![c] = IF @ = "raising" THEN "raised" ELSE "died"]
    /\ UNCHANGED <<jobQueue, currentState, handlerVars, serviceVars, alerts, node>>

-----------------------------------------------------------------------------
(* GuidanceStateHandler: its jobs *)

(* onStartup creates the subscribers and the set_guidance_active service. *)
HandlerStartup ==
    /\ HasJob(StateHandler) /\ Head(jobQueue[StateHandler]) = "ONSTARTUP"
    /\ JobDone(StateHandler, "running")
    /\ subscribed' = TRUE
    /\ UNCHANGED <<machineVars, robotSub, robotStatus, robotEdge, serviceVars, alerts, node>>

(* onSystemReady subscribes to the robot status topic if the interface manager
   knows a driver for it, and otherwise goes on without. *)
HandlerSystemReady ==
    /\ HasJob(StateHandler) /\ Head(jobQueue[StateHandler]) = "INTIALIZE"
    /\ JobDone(StateHandler, "running")
    /\ \E found \in BOOLEAN :
          /\ thread[StateHandler] = "raised" => ~found
          /\ robotSub' = found
    /\ UNCHANGED <<machineVars, subscribed, robotStatus, robotEdge, serviceVars, alerts, node>>

(* onActive, onEngaged, onDeactivate and onCleanRestart. *)
HandlerFollow ==
    /\ HasJob(StateHandler)
    /\ Head(jobQueue[StateHandler]) \in {"ACTIVATE", "ENGAGE", "DEACTIVATE", "RESTART"}
    /\ JobDone(StateHandler, "running")
    /\ UNCHANGED <<machineVars, handlerVars, serviceVars, alerts, node>>

(* onShutdown publishes SHUTDOWN and sleeps shutdownDelayMs ... *)
HandlerShutdown ==
    /\ HasJob(StateHandler) /\ Head(jobQueue[StateHandler]) = "SHUTDOWN"
    /\ JobDone(StateHandler, "sleeping")
    /\ alerts' = alerts \cup {"SHUTDOWN"}
    /\ UNCHANGED <<machineVars, handlerVars, serviceVars, node>>

(* ... and then kills the node. *)
HandlerKill ==
    /\ thread[StateHandler] = "sleeping"
    /\ thread' = [thread EXCEPT ![StateHandler] = "stopped"]
    /\ node' = "down"
    /\ UNCHANGED <<machineVars, jobQueue, currentState, handlerVars, serviceVars, alerts>>

(* Mutant: onPanic forgets node.shutdown(). *)
HandlerPanic_leaves ==
    /\ HasJob(StateHandler) /\ Head(jobQueue[StateHandler]) = "PANIC_SHUTDOWN"
    /\ JobDone(StateHandler, "stopped")
    /\ alerts' = alerts \cup {"FATAL"}
    /\ UNCHANGED <<machineVars, handlerVars, serviceVars, node>>

(* onPanic publishes FATAL and kills the node at once. *)
HandlerPanic ==
    /\ HasJob(StateHandler) /\ Head(jobQueue[StateHandler]) = "PANIC_SHUTDOWN"
    /\ JobDone(StateHandler, "stopped")
    /\ alerts' = alerts \cup {"FATAL"}
    /\ node' = "down"
    /\ UNCHANGED <<machineVars, handlerVars, serviceVars>>

-----------------------------------------------------------------------------
(* GuidanceStateHandler: its ROS callbacks, which run on threads of their own *)

(* The callbacks exist: onStartup has run and the node has not been shut down. *)
Listening == subscribed /\ node = "up"

(* system_alert: DRIVERS_READY, FATAL and SHUTDOWN, from whatever node (Guidance
   itself included); the other types are ignored. *)
SystemAlertMsg ==
    /\ Listening
    /\ \E e \in {"FOUND_DRIVERS", "PANIC", "SHUTDOWN"} : processEvent(e)
    /\ UNCHANGED <<queueVars, handlerVars, serviceVars, alerts, node>>

(* route_event: LEFT_ROUTE, or ROUTE_COMPLETED and ROUTE_ABORTED.  The CAUTION
   alert that goes out first, and that nobody acts on, is not recorded. *)
RouteEventMsg ==
    /\ Listening
    /\ \E e \in {"LEFT_ROUTE", "FINISH_ROUTE"} : processEvent(e)
    /\ UNCHANGED <<queueVars, handlerVars, serviceVars, alerts, node>>

(* The robot status topic: an edge of robot_active is an event ... *)
RobotStatusMsg(active) ==
    /\ Listening /\ robotSub /\ robotEdge = "none"
    /\ active # robotStatus
    /\ processEvent(IF active THEN "START_ROUTE" ELSE "ROBOT_DISABLED")
    /\ robotEdge' = IF active THEN "on" ELSE "off"
    /\ UNCHANGED <<queueVars, subscribed, robotSub, robotStatus, serviceVars, alerts, node>>

(* ... and once processEvent has returned it is remembered, whether or not the
   state machine had a use for it.  The callbacks of one subscriber run one after
   the other, so nobody reads robotStatus in between. *)
RobotStatusSet ==
    /\ robotEdge # "none" /\ MonitorFree
    /\ robotStatus' = (robotEdge = "on")
    /\ robotEdge' = "none"
    /\ UNCHANGED <<machineVars, queueVars, subscribed, robotSub, serviceVars, alerts, node>>

(* set_guidance_active(true), in three steps of its service thread.  First the
   check of the handler's own copy of the state; when it fails the response is
   false and nothing else happens. *)
ActivateCheck ==
    /\ Listening /\ request = "idle"
    /\ \/ /\ currentState[StateHandler] = "DRIVERS_READY"
          /\ request' = "checked"
          /\ UNCHANGED answer
       \/ /\ currentState[StateHandler] # "DRIVERS_READY"
          /\ answer' = FALSE
          /\ UNCHANGED request
    /\ UNCHANGED <<machineVars, queueVars, handlerVars, alerts, node>>

(* Then the event; "accepted" and "ignored" record what it did. *)
ActivatePost ==
    /\ node = "up" /\ request = "checked"
    /\ processEvent("ACTIVATE")
    /\ request' = IF guidance_state = "DRIVERS_READY" THEN "accepted" ELSE "ignored"
    /\ UNCHANGED <<queueVars, handlerVars, answer, alerts, node>>

(* Then the response, from a second look at the machine.  The thread leaves
   processEvent with the monitor free; a state read while another thread holds it
   is the state read after it is released. *)
ActivateAnswer ==
    /\ node = "up" /\ request \in {"accepted", "ignored"}
    /\ MonitorFree
    /\ request' = "idle"
    /\ answer' = (guidance_state = "ACTIVE")
    /\ UNCHANGED <<machineVars, queueVars, handlerVars, alerts, node>>

(* set_guidance_active(false). *)
DeactivateRequest ==
    /\ Listening /\ request = "idle"
    /\ processEvent("DISENGAGE")
    /\ answer' = FALSE
    /\ UNCHANGED <<queueVars, handlerVars, request, alerts, node>>

(* An exception in any other thread of Guidance (a subscriber's callback, a timing
   loop): RosSubscriber or the default handler calls handleException. *)
OtherThreadPanics ==
    /\ node = "up"
    /\ processEvent("PANIC")
    /\ UNCHANGED <<queueVars, handlerVars, serviceVars, alerts, node>>

-----------------------------------------------------------------------------
Init ==
    /\ guidance_state = "STARTUP" /\ action = "NONE" /\ toNotify = {}
    /\ jobQueue = [c \in Component |-> <<"ONSTARTUP">>]
    /\ currentState = [c \in Component |-> "STARTUP"]
    /\ thread = [c \in Component |-> "running"]
    /\ subscribed = FALSE /\ robotSub = FALSE
    /\ robotStatus = FALSE /\ robotEdge = "none"
    /\ request = "idle" /\ answer = FALSE
    /\ alerts = {} /\ node = "up"

Handler == \/ HandlerStartup \/ HandlerSystemReady \/ HandlerFollow
           \/ HandlerShutdown \/ HandlerKill \/ HandlerPanic

Environment == \/ SystemAlertMsg \/ RouteEventMsg \/ OtherThreadPanics
               \/ \E b \in BOOLEAN : RobotStatusMsg(b)
               \/ ActivateCheck \/ DeactivateRequest

(* The second halves of the callbacks and service calls. *)
Service == ActivatePost \/ ActivateAnswer \/ RobotStatusSet

Next == \/ Environment \/ Service \/ Handler
        \/ \E c \in Component : \/ Notify(c) \/ RunJob(c) \/ JobRaises(c)
                                \/ JobThrows(c) \/ handleException(c)

Spec == Init /\ [][Next]_vars

(* Threads that have something to do get to do it: the listener loop, the job
   threads, the exception reports and the state handler.  Messages, exceptions and
   user requests are never owed. *)
Fairness ==
    /\ WF_vars(Handler)
    /\ \A c \in Component : /\ WF_vars(Notify(c))
                            /\ WF_vars(RunJob(c))
                            /\ WF_vars(handleException(c))

FairSpec == Spec /\ Fairness

-----------------------------------------------------------------------------
(* Properties *)

(* The machine, the queues, the threads and the handler's fields have their types. *)
TypeOK ==
    /\ guidance_state \in State
    /\ action \in Action \cup {"NONE"}
    /\ toNotify \subseteq Component
    /\ jobQueue \in [Component -> Seq(Job)]
    /\ currentState \in [Component -> State]
    /\ thread \in [Component -> ThreadState]
    /\ subscribed \in BOOLEAN /\ robotSub \in BOOLEAN
    /\ robotStatus \in BOOLEAN /\ robotEdge \in {"none", "on", "off"}
    /\ request \in {"idle", "checked", "accepted", "ignored"}
    /\ answer \in BOOLEAN
    /\ alerts \subseteq {"SHUTDOWN", "FATAL"}
    /\ node \in {"up", "down"}

(* The job thread of c still works, or has ended the way it should. *)
Alive(c) == thread[c] \notin {"dying", "died"}

(* The state component c will be in when it has run all the jobs it has now. *)
Pending(c) == IF jobQueue[c] = <<>> THEN currentState[c]
              ELSE Target[jobQueue[c][Len(jobQueue[c])]]

(* No component that works loses or repeats a change of state: the jobs it has
   queued take it exactly to the state of the machine, except for the change that
   processEvent is just announcing (the hand-over of processEvent, onStateChange
   and runJobQueue). *)
QueuesLeadToMachine ==
    \A c \in Component : Alive(c) =>
        IF c \in toNotify THEN guidance_state \in Life!Successor[Pending(c)]
        ELSE Pending(c) = guidance_state

(* The jobs waiting in a queue are, one after the other, a legal run of the life
   cycle; in particular nothing is queued behind the onShutdown or onPanic that
   ends the job thread, where it would never run. *)
QueuesAreLegal ==
    \A c \in Component : \A i \in 1 .. Len(jobQueue[c]) - 1 :
        Target[jobQueue[c][i + 1]] \in Life!Successor[Target[jobQueue[c][i]]]

(* Guidance is only ENGAGED while the last robot status seen by the state handler
   was "active": the edge detector of the robot status callback and the state
   machine cannot drift apart so far that a disabled robot goes unnoticed. *)
EngagedHasRobot == guidance_state = "ENGAGED" => robotStatus \/ robotEdge = "on"

(* The state machine goes through the life cycle only. *)
MachineFollowsLifecycle == Life!Spec

(* Every component's own copy of the state, which is set later and from another
   thread, goes through the same life cycle: no component skips a state, repeats
   one or sees two in the wrong order, whatever the others do. *)
ComponentsFollowLifecycle == ComponentsStart /\ [][ComponentsStep]_vars

(* Every state the machine stays in is reached by every component that works:
   onStateChange and the job queues lose nothing. *)
StateReachesComponents ==
    \A c \in Component : \A s \in State :
        guidance_state = s ~> \/ currentState[c] = s
                              \/ guidance_state # s
                              \/ ~Alive(c)

(* "Handle an uncaught exception, which will result in guidance shutdown"
   (GuidanceExceptionHandler): once Guidance is in SHUTDOWN, by an alert or by an
   exception in whatever thread, the state handler takes the node down. *)
ShutdownCompletes == guidance_state = "SHUTDOWN" ~> node = "down"
====
