---------------------------- MODULE InterfaceMgr ----------------------------
(***************************************************************************)
(* The interface manager: drivers announce their status on the topic       *)
(* driver_discovery; when no new one has come for a while the manager      *)
(* declares the system operational, or shuts everything down because an    *)
(* essential driver is missing.                                            *)
(*                                                                         *)
(* Three threads meet without a lock: the listener of driver_discovery,    *)
(* which waits for a service of the driver it handles, the main loop, and  *)
(* the service get_drivers_with_capabilities.  The drivers are external:   *)
(* they change their status at will and may die.  The category of a driver *)
(* does not change.  No driver ever fulfils the condition under which the  *)
(* listener of the robot topic is made (see checkRobotTopic).              *)
(***************************************************************************)
EXTENDS Naturals, Sequences, FiniteSets

CONSTANTS Driver,         \* names of drivers
          Position,       \* the drivers of category position
          LonController,  \* the drivers of category lon_controller
          WaitTime,       \* waitTime_
          InitStatus,     \* bound: how the drivers may be when the manager comes up
          MaxQueue,       \* bound: messages of a driver under way
          MaxChanges      \* bound: changes of status and deaths of drivers

Status == {"OFF", "OPERATIONAL", "DEGRADED", "FAULT"}

ASSUME InterfaceMgrAssumption ==
    /\ Position \subseteq Driver /\ LonController \subseteq Driver /\ InitStatus \subseteq Status
    /\ {WaitTime, MaxQueue, MaxChanges} \subseteq Nat /\ MaxQueue > 0

Unavailable == {"OFF", "FAULT"}

VARIABLES
    status, alive, changes,   \* the drivers
    inbox,                    \* driver_discovery: messages not yet handled, per driver
    pc, msg,                  \* the listener, and the message it handles, <<>> if none
    drivers,                  \* drivers_: the state recorded, "none" for an unknown driver
    caps,                     \* the drivers whose capabilities are not null
    positionReady, lonControllerReady, systemOperational,
    waited,                   \* time since startedWaiting_
    recent,                   \* less than two minutes since systemReadyTime_
    loop,                     \* mainLoop_
    robotListenerCreated,
    node,                     \* "closing" once shutdownInitiated_ is set
    alerts                    \* kinds of system alerts published

driverVars == <<status, alive, changes>>
listenVars == <<pc, msg>>
workerVars == <<drivers, caps, positionReady, lonControllerReady>>
readyVars  == <<systemOperational, recent, loop, robotListenerCreated>>
nodeVars   == <<node, alerts>>
vars == <<driverVars, inbox, listenVars, workerVars, readyVars, waited, nodeVars>>

name  == msg[1]
state == msg[2]

Known == {d \in Driver : drivers[d] # "none"}

-----------------------------------------------------------------------------
(* The drivers and the clock, as long as the node is up *)

SetStatus(d) ==
    /\ node # "down" /\ alive[d] /\ changes < MaxChanges /\ changes' = changes + 1
    /\ \E s \in Status \ {status[d]} : status' = [status EXCEPT ![d] = s]
    /\ UNCHANGED <<alive, inbox, listenVars, workerVars, readyVars, waited, nodeVars>>

Die(d) ==
    /\ node # "down" /\ alive[d] /\ changes < MaxChanges /\ changes' = changes + 1
    /\ alive' = [alive EXCEPT ![d] = FALSE]
    /\ UNCHANGED <<status, inbox, listenVars, workerVars, readyVars, waited, nodeVars>>

(* A driver publishes its status every second. *)
Publish(d) ==
    /\ node # "down" /\ alive[d] /\ Len(inbox[d]) < MaxQueue
    /\ inbox' = [inbox EXCEPT ![d] = Append(@, status[d])]
    /\ UNCHANGED <<driverVars, listenVars, workerVars, readyVars, waited, nodeVars>>

Tick ==
    /\ node # "down" /\ loop = "run" /\ waited <= WaitTime /\ waited' = waited + 1
    /\ UNCHANGED <<driverVars, inbox, listenVars, workerVars, readyVars, nodeVars>>

TwoMinutes ==
    /\ node # "down" /\ recent /\ recent' = FALSE
    /\ UNCHANGED <<driverVars, inbox, listenVars, workerVars, systemOperational, loop,
                   robotListenerCreated, waited, nodeVars>>

-----------------------------------------------------------------------------
(* InterfaceMgr: ends of the node *)

errorShutdown == node' = "closing" /\ alerts' = alerts \cup {"FATAL"}

(* Before the system is ready systemReadyTime_ is 0, which is long ago. *)
handleException ==
    /\ node' = "closing"
    /\ alerts' = alerts \cup {IF recent THEN "FATAL" ELSE "WARNING"}

(* FATAL or SHUTDOWN of another node. *)
onSystemAlert ==
    /\ node = "up" /\ node' = "closing"
    /\ UNCHANGED <<driverVars, inbox, listenVars, workerVars, readyVars, waited, alerts>>

(* connectedNode.shutdown(): the threads go on until it has happened. *)
Shutdown ==
    /\ node = "closing" /\ node' = "down"
    /\ UNCHANGED <<driverVars, inbox, listenVars, workerVars, readyVars, waited, alerts>>

-----------------------------------------------------------------------------
(* InterfaceWorker.handleNewDriverStatus, in the thread of the listener *)

(* Mutant: every status message restarts the timer. *)
Receive_resets(d) ==
    /\ node # "down" /\ pc = "idle" /\ inbox[d] # <<>>
    /\ LET s == Head(inbox[d]) IN
         pc' = CASE d \notin Known -> "new"
                 [] d \in Known /\ drivers[d] # s -> "changed"
                 [] OTHER -> "idle"
    /\ msg' = IF pc' = "idle" THEN <<>> ELSE <<d, Head(inbox[d])>>
    /\ inbox' = [inbox EXCEPT ![d] = Tail(@)]
    /\ waited' = 0
    /\ UNCHANGED <<driverVars, workerVars, readyVars, nodeVars>>

Receive(d) ==
    /\ node # "down" /\ pc = "idle" /\ inbox[d] # <<>>
    /\ LET s == Head(inbox[d]) IN
         pc' = CASE d \notin Known -> "new"
                 [] d \in Known /\ drivers[d] # s -> "changed"
                 [] OTHER -> "idle"
    /\ msg' = IF pc' = "idle" THEN <<>> ELSE <<d, Head(inbox[d])>>
    /\ inbox' = [inbox EXCEPT ![d] = Tail(@)]
    /\ UNCHANGED <<driverVars, workerVars, readyVars, waited, nodeVars>>

(* handleNewDriverStatus returns. *)
Done == pc' = "idle" /\ msg' = <<>>

(* getDriverApi.  waitForService looks for the service for five seconds, and the call then
   waits for its answer as long as it takes (RosServiceResult.get).  The master may still
   know the service of a driver that is gone. *)
Calls == {"newCall", "changedCall"}

FindService ==
    /\ node # "down"
    /\ \/ pc = "new" /\ pc' = "newCall"
       \/ pc = "changed" /\ pc' = "changedCall"
    /\ UNCHANGED <<driverVars, inbox, msg, workerVars, readyVars, waited, nodeVars>>

(* It returns capabilities when the driver answers, and null when the service is not found
   or the call fails. *)
getDriverApi(ok) == ok => pc \in Calls /\ alive[name]

(* Mutant: only FAULT counts as a loss of the driver. *)
Lost_fault(d, s) == d \in Position \cup LonController /\ s = "FAULT"

(* Mutant: only position drivers count. *)
Lost_position(d, s) == d \in Position /\ s \in Unavailable

Lost(d, s) == d \in Position \cup LonController /\ s \in Unavailable

(* The status of a driver that is known has changed. *)
Changed ==
    /\ node # "down" /\ pc \in {"changed", "changedCall"}
    /\ \E ok \in BOOLEAN :
         /\ getDriverApi(ok)
         /\ caps' = IF ok THEN caps \cup {name} ELSE caps \ {name}
    /\ drivers' = [drivers EXCEPT ![name] = state]
    /\ IF Lost(name, state) THEN pc' = "lost" /\ UNCHANGED msg ELSE Done
    /\ UNCHANGED <<driverVars, inbox, positionReady, lonControllerReady,
                   readyVars, waited, nodeVars>>

LostDriver ==
    /\ node # "down" /\ pc = "lost"
    /\ errorShutdown /\ Done
    /\ UNCHANGED <<driverVars, inbox, workerVars, readyVars, waited>>

(* A new driver: it is added to the list, and bound to, when it may be used. *)
NewDriver ==
    /\ node # "down" /\ pc \in {"new", "newCall"}
    /\ \E ok \in BOOLEAN :
         /\ getDriverApi(ok)
         /\ IF ok /\ (state = "OPERATIONAL" \/ (state = "DEGRADED" /\ name \in Position))
            THEN /\ drivers' = [drivers EXCEPT ![name] = state]
                 /\ caps' = caps \cup {name} /\ pc' = "bind" /\ UNCHANGED msg
            ELSE Done /\ UNCHANGED <<drivers, caps>>
    /\ UNCHANGED <<driverVars, inbox, positionReady, lonControllerReady,
                   readyVars, waited, nodeVars>>

(* bindWithDriver has come back.  A driver of both categories counts as a position
   driver only. *)
Bound ==
    /\ node # "down" /\ pc = "bind" /\ pc' = "timer"
    /\ positionReady' = (positionReady \/ name \in Position)
    /\ lonControllerReady' = (lonControllerReady \/ name \in LonController \ Position)
    /\ UNCHANGED <<driverVars, inbox, msg, drivers, caps, readyVars, waited, nodeVars>>

(* The main loop may look between the flags and the timer. *)
RestartTimer ==
    /\ node # "down" /\ pc = "timer" /\ Done
    /\ waited' = 0
    /\ UNCHANGED <<driverVars, inbox, workerVars, readyVars, nodeVars>>

-----------------------------------------------------------------------------
(* The service, and the main loop *)

(* A driver whose capabilities are null makes getDrivers fail.  An answer changes nothing. *)
GetDrivers ==
    /\ node # "down" /\ systemOperational /\ Known \ caps # {}
    /\ handleException
    /\ UNCHANGED <<driverVars, inbox, listenVars, workerVars, readyVars, waited>>

(* checkRobotTopic: the drivers with the capability robot_status, of which there must be
   exactly one.  getDrivers returns none before the system is operational. *)
RobotTopics == IF systemOperational THEN Known \cap LonController ELSE {}

(* isSystemReady, once the timer has expired. *)
Loop ==
    /\ node # "down" /\ loop = "run" /\ waited > WaitTime
    /\ robotListenerCreated' = (robotListenerCreated \/ Cardinality(RobotTopics) = 1)
    /\ \/ /\ lonControllerReady /\ positionReady
          /\ systemOperational' = TRUE /\ recent' = TRUE /\ loop' = "ready"
          /\ UNCHANGED nodeVars
       \/ /\ ~(lonControllerReady /\ positionReady)
          /\ errorShutdown
          /\ UNCHANGED <<systemOperational, recent, loop>>
    /\ UNCHANGED <<driverVars, inbox, listenVars, workerVars, waited>>

(* DRIVERS_READY; the loop cancels itself. *)
AnnounceReady ==
    /\ node # "down" /\ loop = "ready" /\ loop' = "cancelled"
    /\ alerts' = alerts \cup {"DRIVERS_READY"}
    /\ UNCHANGED <<driverVars, inbox, listenVars, workerVars, systemOperational, recent,
                   robotListenerCreated, waited, node>>

-----------------------------------------------------------------------------
(* The manager may come up at any time in the life of the drivers. *)
Init ==
    /\ status \in [Driver -> InitStatus] /\ alive = [d \in Driver |-> TRUE] /\ changes = 0
    /\ inbox = [d \in Driver |-> <<>>]
    /\ pc = "idle" /\ msg = <<>>
    /\ drivers = [d \in Driver |-> "none"] /\ caps = {}
    /\ positionReady = FALSE /\ lonControllerReady = FALSE /\ systemOperational = FALSE
    /\ waited = 0 /\ recent = FALSE /\ loop = "run" /\ robotListenerCreated = FALSE
    /\ node = "up" /\ alerts = {"NOT_READY"}

Listener == FindService \/ Changed \/ LostDriver \/ NewDriver \/ Bound \/ RestartTimer
MainLoop == Loop \/ AnnounceReady

Next == \/ \E d \in Driver : SetStatus(d) \/ Die(d) \/ Publish(d) \/ Receive(d)
        \/ Tick \/ TwoMinutes \/ onSystemAlert \/ Shutdown
        \/ Listener \/ GetDrivers \/ MainLoop

(* The listener waits for the answer of a driver that is gone, or hangs. *)
Blocked == pc \in Calls /\ ~alive[name]

(* A driver publishes and answers as long as it lives, and messages are handled in the order
   in which they came.  Nobody owes the listener an answer of a driver that is gone. *)
Fairness ==
    /\ WF_vars(Tick) /\ WF_vars(~Blocked /\ Listener) /\ WF_vars(MainLoop) /\ WF_vars(Shutdown)
    /\ \A d \in Driver : WF_vars(Publish(d)) /\ SF_vars(Receive(d))

Spec == Init /\ [][Next]_vars /\ Fairness

-----------------------------------------------------------------------------
(* The fields have their types; the listener has a message exactly while it is busy. *)
TypeOK ==
    /\ status \in [Driver -> Status] /\ alive \in [Driver -> BOOLEAN] /\ changes \in 0 .. MaxChanges
    /\ inbox \in [Driver -> Seq(Status)] /\ \A d \in Driver : Len(inbox[d]) <= MaxQueue
    /\ pc \in {"idle", "new", "newCall", "changed", "changedCall", "bind", "timer", "lost"}
    /\ msg \in (Driver \X Status) \cup {<<>>} /\ (pc = "idle" <=> msg = <<>>)
    /\ drivers \in [Driver -> Status \cup {"none"}] /\ caps \subseteq Known
    /\ {positionReady, lonControllerReady, systemOperational, recent, robotListenerCreated}
         \subseteq BOOLEAN
    /\ waited \in 0 .. WaitTime + 1 /\ loop \in {"run", "ready", "cancelled"}
    /\ node \in {"up", "closing", "down"}
    /\ alerts \subseteq {"NOT_READY", "DRIVERS_READY", "WARNING", "FATAL"}

(* While the system counts as operational, every essential driver in the list is usable and
   there is one of each kind, except while the listener is about to announce the loss of
   one; the flags of isSystemReady are set once and never cleared. *)
EssentialDriversWork ==
    systemOperational /\ node = "up" /\ pc # "lost" =>
        /\ Known \cap Position # {} /\ Known \cap LonController # {}
        /\ \A d \in Known \cap (Position \cup LonController) : drivers[d] \notin Unavailable

(* Start-up comes to a decision however often the drivers publish: the timer is restarted
   for a new driver only, and of those there are finitely many. *)
StartupDecides == <>(alerts \cap {"DRIVERS_READY", "FATAL"} # {} \/ node = "down")

(* The loss of an essential driver stops the system, unless the driver recovers or dies
   before it has said so, or another driver has left the listener waiting. *)
LossIsAnnounced ==
    \A d \in Position \cup LonController :
        drivers[d] # "none" /\ status[d] \in Unavailable
            ~> \/ "FATAL" \in alerts \/ node # "up"
               \/ status[d] \notin Unavailable \/ ~alive[d] \/ Blocked

(* handleNewDriverStatus is "called frequently throughout the life of the node": a driver
   that has something to say is listened to again and again. *)
ListenerGoesOn == pc # "idle" ~> pc = "idle" \/ node # "up"

(* The manager listens to the robot status once the system is operational. *)
RobotIsWatched == systemOperational /\ node = "up" ~> robotListenerCreated \/ node # "up"

(* After FATAL no node is told that the drivers are ready. *)
FatalIsLast == [][~("FATAL" \in alerts /\ "DRIVERS_READY" \notin alerts
                     /\ "DRIVERS_READY" \in alerts')]_vars
=============================================================================
