-------------------------- MODULE TruckController --------------------------
(***************************************************************************)
(* The driver of the truck's drive-by-wire module: TruckApplication.  Its  *)
(* spin loop stores the commands it receives and, on a timer, writes a     *)
(* robotic command or a disable frame to the CAN bus.  Feedback comes in   *)
(* on the threads of CanClient; a system alert ends the loop and destroys  *)
(* the client.  Time is counted in ticks; ages saturate.                   *)
(*                                                                         *)
(* The values of commands, and the frames for engine brake, PID, LEDs,     *)
(* lights and clearing faults, are left out: no decision depends on them.  *)
(***************************************************************************)
EXTENDS CanClient, FiniteSetsExt

CONSTANTS CmdTimeout,  \* ticks after which a command is too old (0.3 s)
          SendPeriod,  \* send_control_mode_message
          MaxLag,      \* bound: ticks between two passes of the spin loop
          MaxFaults    \* bound: writes that fail

ASSUME TruckAssumption ==
    CmdTimeout \in Nat /\ SendPeriod \in Nat /\ MaxLag \in Nat \ {0} /\ MaxFaults \in Nat

VARIABLES enabled,  \* robotic_enabled_
          mode,     \* set_ContolMessage_.mode
          cmdAge,   \* now - control_message_recv_time
          sentAge,  \* now - last_sent_control_mode_message_
          active,   \* robotic_wrench_control_active_ || robotic_speed_control_active_
          robot,    \* robot_active of the last robot_status published
          shutdown, \* DriverApplication.shutdown_
          lag,      \* ticks since the last pass of the loop
          vehicle,  \* the last control frame that reached the bus
          vehAge,   \* how long ago the command in it was received
          offAge,   \* how long robotic control has been disabled
          lost,     \* the last control frame did not reach the bus
          faults    \* writes that have failed

cmdVars   == <<enabled, mode, cmdAge, sentAge, active>>
appVars   == <<robot, shutdown>>
vehVars   == <<vehicle, vehAge, lost, faults>>
vars == <<canVars, cmdVars, appVars, lag, vehVars, offAge>>

Spinning == main = "up"

(* CommandMode; None, the initial mode, is treated like DisableACCSystem. *)
Frame == {"disable", "wrench", "speed"}

(* The longest time a control frame stays the last one. *)
Gap == SendPeriod + MaxLag

Older(age, bound) == Min({age + 1, bound + 1})

-----------------------------------------------------------------------------
(* The callbacks of ros::spinOnce *)

cmd_longitudinal_effort ==
    /\ Spinning
    /\ cmdAge' = 0 /\ mode' = "wrench"
    /\ UNCHANGED <<canVars, enabled, sentAge, active, appVars, lag, vehVars, offAge>>

(* A message with a negative speed or acceleration is ignored. *)
cmd_speed ==
    /\ Spinning
    /\ cmdAge' = 0 /\ mode' = "speed"
    /\ UNCHANGED <<canVars, enabled, sentAge, active, appVars, lag, vehVars, offAge>>

enableRobotic(set) ==
    /\ Spinning
    /\ enabled' = set
    /\ offAge' = IF set = enabled THEN offAge ELSE 0
    /\ UNCHANGED <<canVars, mode, cmdAge, sentAge, active, appVars, lag, vehVars>>

(* Mutant: the status is published only while a command is being sent. *)
updateControlStatus_active ==
    /\ Spinning
    /\ robot' = (active \/ robot)
    /\ UNCHANGED <<canVars, cmdVars, shutdown, lag, vehVars, offAge>>

updateControlStatus ==
    /\ Spinning
    /\ robot' = active
    /\ UNCHANGED <<canVars, cmdVars, shutdown, lag, vehVars, offAge>>

system_alert_cb ==
    /\ Spinning
    /\ shutdown' = TRUE
    /\ UNCHANGED <<canVars, cmdVars, robot, lag, vehVars, offAge>>

-----------------------------------------------------------------------------
(* post_spin *)

(* SocketCANInterface::write: an error only raises onError, which the driver does not
   listen to. *)
Write(frame) ==
    \/ /\ vehicle' = frame
       /\ vehAge' = IF frame = "disable" THEN 0 ELSE cmdAge
       /\ lost' = FALSE
       /\ UNCHANGED faults
    \/ /\ faults < MaxFaults /\ faults' = faults + 1
       /\ lost' = TRUE
       /\ UNCHANGED <<vehicle, vehAge>>

(* Mutant: a command that has timed out is no reason to disable when robotic control is
   enabled and the mode is speed control. *)
Control_wrenchOnly ==
    IF ~enabled \/ (cmdAge > CmdTimeout /\ mode # "speed") THEN "disable" ELSE mode

(* What sendCommands does with the stored command. *)
Control == IF ~enabled \/ cmdAge > CmdTimeout THEN "disable" ELSE mode

(* Mutant: the flag that the service sets is not looked at. *)
sendControl_noDisable ==
    IF sentAge > SendPeriod
    THEN LET next == IF cmdAge > CmdTimeout THEN "disable" ELSE mode
         IN  /\ active' = (next # "disable")
             /\ mode' = next
             /\ Write(next)
             /\ sentAge' = 0
    ELSE UNCHANGED <<active, mode, vehVars, sentAge>>

sendControl ==
    IF sentAge > SendPeriod
    THEN /\ active' = (Control # "disable")
         /\ mode' = Control
         /\ Write(Control)
         /\ sentAge' = 0
    ELSE UNCHANGED <<active, mode, vehVars, sentAge>>

(* One pass of the loop ends: sendCommands, checkLastReceivedMsgs, and the test of
   shutdown_.  shutdown() destroys the client and sends no last disable frame. *)
PostSpin ==
    /\ Spinning
    /\ sendControl
    /\ lag' = 0
    /\ main' = IF shutdown THEN "close" ELSE "up"
    /\ UNCHANGED <<ioVars, queue, procVars, enabled, cmdAge, appVars, offAge>>

-----------------------------------------------------------------------------
Tick ==
    /\ Spinning /\ lag < MaxLag
    /\ lag' = lag + 1
    /\ cmdAge' = Older(cmdAge, CmdTimeout)
    /\ sentAge' = Older(sentAge, SendPeriod)
    /\ vehAge' = IF vehicle = "disable" THEN 0 ELSE Older(vehAge, CmdTimeout + Gap)
    /\ offAge' = IF enabled THEN 0 ELSE Older(offAge, Gap)
    /\ UNCHANGED <<canVars, enabled, mode, active, appVars, vehicle, lost, faults>>

(* control_message_recv_time is 0 until the first command: that command has timed out. *)
Init ==
    /\ CanInit
    /\ enabled \in BOOLEAN
    /\ mode = "disable" /\ cmdAge = CmdTimeout + 1 /\ sentAge = 0 /\ active = FALSE
    /\ robot = FALSE /\ shutdown = FALSE
    /\ lag = 0 /\ vehicle = "disable" /\ vehAge = 0 /\ offAge = 0
    /\ lost = FALSE /\ faults = 0

Receive == CanStep /\ UNCHANGED <<cmdVars, appVars, lag, vehVars, offAge>>

Next == \/ cmd_longitudinal_effort \/ cmd_speed
        \/ \E set \in BOOLEAN : enableRobotic(set)
        \/ updateControlStatus \/ system_alert_cb
        \/ PostSpin \/ Tick \/ Receive

Spec == Init /\ [][Next]_vars

(* The spin loop goes round and the timer of the status fires. *)
FairSpec == Spec /\ CanFairness /\ WF_vars(PostSpin) /\ WF_vars(updateControlStatus)
                 /\ WF_vars(Tick)

-----------------------------------------------------------------------------
(* The fields and clocks have their types; ages stop one above the bound they are compared with. *)
TypeOK ==
    /\ main \in {"up", "close", "joinIo", "stopQueue", "joinProc", "down"}
    /\ open \in BOOLEAN /\ io \in {"read", "push", "lastPush", "ended"}
    /\ rx \in 0 .. MaxFrames /\ errors \in 0 .. MaxErrors
    /\ queue \in Seq(0 .. MaxFrames) /\ Len(queue) <= MaxQueue
    /\ proc \in {"loop", "lock", "park", "wait", "handle", "ended"}
    /\ {hand, handled} \subseteq 0 .. MaxFrames
    /\ {running, enabled, active, robot, shutdown, lost} \subseteq BOOLEAN
    /\ mode \in Frame
    /\ vehicle \in Frame
    /\ cmdAge \in 0 .. CmdTimeout + 1 /\ sentAge \in 0 .. SendPeriod + 1
    /\ vehAge \in 0 .. CmdTimeout + Gap + 1 /\ offAge \in 0 .. Gap + 1
    /\ lag \in 0 .. MaxLag /\ faults \in 0 .. MaxFaults

(* While the driver spins, the vehicle never goes on following a command that was received
   more than the time out, one send period and one pass of the loop ago, unless the bus
   refuses the disable frame: the readme's "commands @ >5hz" is enforced by the driver. *)
CommandIsFresh ==
    Spinning => \/ lost \/ vehicle = "disable"
                \/ vehAge <= CmdTimeout + Gap

(* Robotic control that was disabled through enable_robotic, and not enabled again since,
   has ended one send period and one pass of the loop later, whatever commands still
   arrive. *)
DisableIsObeyed ==
    Spinning /\ ~enabled /\ offAge > Gap => lost \/ vehicle = "disable"

(* When commands stop, the status that the interface manager and the state handler of
   Guidance listen to says so: robot_active does not stay set. *)
StatusFollows ==
    (cmdAge > CmdTimeout) ~> (~robot \/ cmdAge = 0 \/ ~Spinning)

(* shutdown() destroys the client, and run() returns. *)
Stops == shutdown ~> main = "down"
=============================================================================
