-------------------------- MODULE GuidanceCommands --------------------------
(***************************************************************************)
(* GuidanceCommands latches the last speed, acceleration and steering      *)
(* command of the maneuvers and sends them to the controllers at a fixed   *)
(* rate.  Three threads share its fields:                                  *)
(*                                                                         *)
(*  - the trajectory executor's, in setSpeedCommand and setSteeringCommand *)
(*    (synchronized methods: they hold the monitor between two writes);    *)
(*  - the timing loop, which reads the fields, partly under the monitor;   *)
(*  - the job thread, whose onCleanRestart resets the fields without it.   *)
(*                                                                         *)
(* Every access to a field is a step of its own unless the monitor makes   *)
(* several of them one.  The component's copy of the guidance state goes   *)
(* through GuidanceLifecycle, as GuidanceStateMachine establishes.         *)
(***************************************************************************)
EXTENDS Integers

CONSTANTS Command,    \* the <<speed, accel>> that maneuvers ask for
          Steering,   \* the <<axle angle, lateral accel, yaw rate>> they ask for
          Velocity,   \* readings of the velocity topic
          MaxSpeed,   \* MAX_SPEED_CMD_M_S
          MaxAngle,   \* the largest axle angle, a quarter turn in the code
          AccelLimit, \* ~vehicle_acceleration_limit
          Override,   \* ~use_wrench_effort_stopping_override
          MaxCalls    \* bound on the number of calls of the maneuvers

ASSUME CommandsAssumption ==
    /\ Command \subseteq Int \X Int
    /\ Steering \subseteq Int \X Int \X Int
    /\ Velocity \subseteq Int /\ Velocity # {}
    /\ MaxSpeed \in Nat \ {0} /\ MaxAngle \in Nat \ {0} /\ AccelLimit \in Nat \ {0}
    /\ Override \in BOOLEAN /\ MaxCalls \in Nat

VARIABLES
    currentState, \* the component's copy of the guidance state
    job,          \* what the job thread has still to do in its current job
    robotic,      \* the last value sent to the enable_robotic service
    speedCommand, maxAccel,
    steering,     \* <<steeringCommand, lateralAccel, yawRate>>
    setter,       \* the trajectory executor's thread; it has the monitor unless "idle"
    arg,          \* the arguments of the call it is in, after clamping
    loop,         \* where the timing loop is
    msg,          \* the values it has read
    sent,         \* the last SpeedAccel message: its branch and its values
    lateral,      \* the last LateralControl message
    calls,        \* number of calls of the maneuvers
    latched,      \* history: the last speed command, None if a reset came during or after it
    late          \* history: messages of the ENGAGED branch sent since ENGAGED was left

fieldVars   == <<speedCommand, maxAccel, steering>>
jobVars     == <<currentState, job, robotic>>
setterVars  == <<setter, arg, calls>>
loopVars    == <<loop, msg, sent, lateral>>
historyVars == <<latched, late>>
vars == <<fieldVars, jobVars, setterVars, loopVars, historyVars>>

Lifecycle == INSTANCE GuidanceLifecycle WITH state <- currentState

Unset == -1

None == <<>>

Clamp(x, lo, hi) == IF x < lo THEN lo ELSE IF x > hi THEN hi ELSE x

Abs(x) == IF x < 0 THEN -x ELSE x

-----------------------------------------------------------------------------
(* The maneuvers' thread *)

(* Mutant: negative speeds are let through, as if they meant reversing. *)
Clamped_signed(c) == << IF c[1] > MaxSpeed THEN MaxSpeed ELSE c[1],
                        Clamp(Abs(c[2]), 0, AccelLimit) >>

(* What setSpeedCommand makes of its arguments: a negative speed becomes 0, so that
   no command is ever mistaken for Unset; the acceleration loses its sign. *)
Clamped(c) == << Clamp(c[1], 0, MaxSpeed), Clamp(Abs(c[2]), 0, AccelLimit) >>

(* A maneuver may call in any state of this component: the trajectory executor has a
   copy of the guidance state of its own, which may be ahead of this one or behind. *)
SetSpeedBegin ==
    /\ setter = "idle" /\ calls < MaxCalls
    /\ \E c \in Command : arg' = Clamped(c)
    /\ setter' = "speed"
    /\ calls' = calls + 1
    /\ UNCHANGED <<fieldVars, jobVars, loopVars, historyVars>>

SetSpeed ==
    /\ setter = "speed"
    /\ speedCommand' = arg[1]
    /\ setter' = "accel"
    /\ latched' = arg
    /\ UNCHANGED <<maxAccel, steering, arg, calls, jobVars, loopVars, late>>

SetAccel ==
    /\ setter = "accel"
    /\ maxAccel' = arg[2]
    /\ setter' = "idle" /\ arg' = None
    /\ UNCHANGED <<speedCommand, steering, calls, jobVars, loopVars, historyVars>>

(* setSteeringCommand, up to its first write ... *)
SetSteeringBegin ==
    /\ setter = "idle" /\ calls < MaxCalls
    /\ \E c \in Steering :
          /\ arg' = << Clamp(c[1], -MaxAngle, MaxAngle), c[2], c[3] >>
          /\ steering' = [steering EXCEPT ![1] = Clamp(c[1], -MaxAngle, MaxAngle)]
    /\ setter' = "steering"
    /\ calls' = calls + 1
    /\ UNCHANGED <<speedCommand, maxAccel, jobVars, loopVars, historyVars>>

(* ... and the two others. *)
SetSteering ==
    /\ setter = "steering"
    /\ steering' = arg
    /\ setter' = "idle" /\ arg' = None
    /\ UNCHANGED <<speedCommand, maxAccel, calls, jobVars, loopVars, historyVars>>

-----------------------------------------------------------------------------
(* The job thread *)

(* onActive enables the robotic mode first and becomes ACTIVE when the service has
   answered. *)
Enable ==
    /\ job = "idle" /\ currentState = "DRIVERS_READY"
    /\ robotic' = TRUE
    /\ job' = "activate"
    /\ UNCHANGED <<currentState, fieldVars, setterVars, loopVars, historyVars>>

Activate ==
    /\ job = "activate"
    /\ currentState' = "ACTIVE"
    /\ job' = "idle"
    /\ UNCHANGED <<robotic, fieldVars, setterVars, loopVars, historyVars>>

(* The jobs that do no more than follow the guidance state, as far as the commands
   are concerned. *)
Follow(s) ==
    /\ job = "idle" /\ s \in Lifecycle!Successor[currentState]
    /\ currentState' = s
    /\ late' = IF currentState = "ENGAGED" THEN 0 ELSE late
    /\ UNCHANGED <<job, robotic, fieldVars, setterVars, loopVars, latched>>

onSystemReady == currentState = "STARTUP" /\ Follow("DRIVERS_READY")

onEngaged == Follow("ENGAGED")

onDeactivate == Follow("INACTIVE")

(* onShutdown or onPanic, which also close the service. *)
onShutdown == Follow("SHUTDOWN")

(* onCleanRestart: the state first, then the two fields, then the robotic mode. *)
Restart ==
    /\ job = "idle" /\ currentState \in {"ACTIVE", "INACTIVE", "ENGAGED"}
    /\ currentState' = "DRIVERS_READY"
    /\ job' = "reset_speed"
    /\ latched' = None
    /\ late' = IF currentState = "ENGAGED" THEN 0 ELSE late
    /\ UNCHANGED <<robotic, fieldVars, setterVars, loopVars>>

ResetSpeed ==
    /\ job = "reset_speed"
    /\ speedCommand' = 0
    /\ job' = "reset_accel"
    /\ latched' = None
    /\ UNCHANGED <<maxAccel, steering, currentState, robotic, setterVars, loopVars, late>>

ResetAccel ==
    /\ job = "reset_accel"
    /\ maxAccel' = 0
    /\ job' = "disable"
    /\ latched' = None
    /\ UNCHANGED <<speedCommand, steering, currentState, robotic, setterVars, loopVars, late>>

Disable ==
    /\ job = "disable"
    /\ robotic' = FALSE
    /\ job' = "idle"
    /\ UNCHANGED <<currentState, fieldVars, setterVars, loopVars, historyVars>>

-----------------------------------------------------------------------------
(* The timing loop *)

(* Mutant: an iteration that was ENGAGED is followed by another one. *)
LoopLook_blind ==
    \/ /\ loop = "start" /\ currentState # "SHUTDOWN"
       /\ loop' = IF currentState = "ENGAGED" \/ sent.branch = "engaged"
                  THEN "cache" ELSE "if_active"
    \/ /\ loop = "if_active"
       /\ loop' = IF currentState = "ACTIVE" THEN "seed_speed" ELSE "if_inactive"
    \/ /\ loop = "if_inactive"
       /\ loop' = IF currentState = "INACTIVE" THEN "seed_speed" ELSE "start"

(* The three looks at the state that choose the branch of an iteration.  onShutdown
   and onPanic interrupt the loop, which then begins no other iteration. *)
LoopLook ==
    \/ /\ loop = "start" /\ currentState # "SHUTDOWN"
       /\ loop' = IF currentState = "ENGAGED" THEN "cache" ELSE "if_active"
    \/ /\ loop = "if_active"
       /\ loop' = IF currentState = "ACTIVE" THEN "seed_speed" ELSE "if_inactive"
    \/ /\ loop = "if_inactive"
       /\ loop' = IF currentState = "INACTIVE" THEN "seed_speed" ELSE "start"

LoopBranch ==
    /\ LoopLook
    /\ UNCHANGED <<msg, sent, lateral, fieldVars, jobVars, setterVars, historyVars>>

(* ENGAGED: both fields are read under the monitor; they decide whether the wrench
   effort override takes over (the vehicle's own speed is any). *)
LoopCache ==
    /\ loop = "cache" /\ setter = "idle"
    /\ \/ /\ Override /\ speedCommand = 0 /\ Abs(maxAccel) <= AccelLimit
          /\ loop' = "lateral"
          /\ sent' = [branch |-> "wrench", speed |-> 0, accel |-> 0]
       \/ /\ loop' = "read_speed"
          /\ UNCHANGED sent
    /\ UNCHANGED <<msg, lateral, fieldVars, jobVars, setterVars, historyVars>>

(* The message is built from a second reading, field by field, without it. *)
LoopReadSpeed ==
    /\ loop \in {"read_speed", "ready_speed"}
    /\ msg' = speedCommand
    /\ loop' = IF loop = "read_speed" THEN "read_accel" ELSE "ready_accel"
    /\ UNCHANGED <<sent, lateral, fieldVars, jobVars, setterVars, historyVars>>

(* Mutant: a message is sent only when the speed has changed. *)
LoopSendEngaged_changed ==
    /\ loop = "read_accel"
    /\ sent' = IF msg = sent.speed THEN sent
               ELSE [branch |-> "engaged", speed |-> msg, accel |-> maxAccel]
    /\ msg' = Unset
    /\ loop' = "lateral"
    /\ UNCHANGED <<lateral, fieldVars, jobVars, setterVars, historyVars>>

LoopSendEngaged ==
    /\ loop = "read_accel"
    /\ sent' = [branch |-> "engaged", speed |-> msg, accel |-> maxAccel]
    /\ msg' = Unset
    /\ loop' = "lateral"
    /\ late' = IF currentState = "ENGAGED" THEN late ELSE late + 1
    /\ UNCHANGED <<lateral, fieldVars, jobVars, setterVars, latched>>

(* Mutant: the monitor is not taken for the steering command. *)
LoopLateral_torn ==
    /\ loop = "lateral"
    /\ lateral' = steering
    /\ loop' = "start"
    /\ UNCHANGED <<msg, sent, fieldVars, jobVars, setterVars, historyVars>>

LoopLateral ==
    /\ loop = "lateral" /\ setter = "idle"
    /\ lateral' = steering
    /\ loop' = "start"
    /\ UNCHANGED <<msg, sent, fieldVars, jobVars, setterVars, historyVars>>

(* Mutant: the speed is seeded whether or not it has been set. *)
LoopSeedSpeed_always ==
    /\ loop = "seed_speed"
    /\ \E v \in Velocity : speedCommand' = Clamp(v, 0, MaxSpeed)
    /\ loop' = "seed_accel"
    /\ UNCHANGED <<maxAccel, steering, msg, sent, lateral, jobVars, setterVars, historyVars>>

(* ACTIVE and INACTIVE: the fields are given first values, each only if no maneuver
   has been there before. *)
LoopSeedSpeed ==
    /\ loop = "seed_speed"
    /\ \/ /\ speedCommand = Unset
          /\ \E v \in Velocity : speedCommand' = Clamp(v, 0, MaxSpeed)
       \/ /\ speedCommand # Unset
          /\ UNCHANGED speedCommand
    /\ loop' = "seed_accel"
    /\ UNCHANGED <<maxAccel, steering, msg, sent, lateral, jobVars, setterVars, historyVars>>

(* Mutant: the acceleration is left to the first maneuver. *)
LoopSeedAccel_skip ==
    /\ loop = "seed_accel"
    /\ loop' = "ready_speed"
    /\ UNCHANGED <<msg, sent, lateral, fieldVars, jobVars, setterVars, historyVars>>

LoopSeedAccel ==
    /\ loop = "seed_accel"
    /\ maxAccel' = IF maxAccel = Unset THEN AccelLimit ELSE maxAccel
    /\ loop' = "ready_speed"
    /\ UNCHANGED <<speedCommand, steering, msg, sent, lateral, jobVars, setterVars,
                   historyVars>>

LoopSendReady ==
    /\ loop = "ready_accel"
    /\ sent' = [branch |-> "ready", speed |-> msg, accel |-> maxAccel]
    /\ lateral' = <<0, 0, 0>>
    /\ msg' = Unset
    /\ loop' = "start"
    /\ UNCHANGED <<fieldVars, jobVars, setterVars, historyVars>>

-----------------------------------------------------------------------------
Init ==
    /\ currentState = "STARTUP" /\ job = "idle" /\ robotic = FALSE
    /\ speedCommand = Unset /\ maxAccel = Unset /\ steering = <<0, 0, 0>>
    /\ setter = "idle" /\ arg = None /\ calls = 0
    /\ loop = "start" /\ msg = Unset
    /\ sent = [branch |-> "none", speed |-> 0, accel |-> 0]
    /\ lateral = <<0, 0, 0>>
    /\ latched = None /\ late = 0

Setter == SetSpeedBegin \/ SetSpeed \/ SetAccel \/ SetSteeringBegin \/ SetSteering

JobThread == \/ Enable \/ Activate \/ onSystemReady \/ onEngaged \/ onDeactivate \/ onShutdown
             \/ Restart \/ ResetSpeed \/ ResetAccel \/ Disable

TimingLoop == \/ LoopBranch \/ LoopCache \/ LoopReadSpeed \/ LoopSendEngaged \/ LoopLateral
              \/ LoopSeedSpeed \/ LoopSeedAccel \/ LoopSendReady

Next == Setter \/ JobThread \/ TimingLoop

Spec == Init /\ [][Next]_vars

(* The timing loop goes on, a call that has begun ends, and so does a job; nobody
   owes a call, a job or a change of state. *)
Fairness == /\ WF_vars(TimingLoop)
            /\ WF_vars(SetSpeed \/ SetAccel \/ SetSteering)
            /\ WF_vars(Activate \/ ResetSpeed \/ ResetAccel \/ Disable)

FairSpec == Spec /\ Fairness

-----------------------------------------------------------------------------
(* Properties *)

Message == [branch : {"none", "engaged", "ready", "wrench"}, speed : -1 .. MaxSpeed,
            accel : -1 .. AccelLimit]

(* The fields, the threads and the messages have their types: no command leaves the
   limits that setSpeedCommand and the seeding put on it. *)
TypeOK ==
    /\ currentState \in Lifecycle!State
    /\ job \in {"idle", "activate", "reset_speed", "reset_accel", "disable"}
    /\ robotic \in BOOLEAN
    /\ speedCommand \in -1 .. MaxSpeed /\ maxAccel \in -1 .. AccelLimit
    /\ steering \in Int \X Int \X Int /\ lateral \in Int \X Int \X Int
    /\ setter \in {"idle", "speed", "accel", "steering"}
    /\ calls \in 0 .. MaxCalls
    /\ loop \in {"start", "if_active", "if_inactive", "cache", "read_speed", "read_accel",
                 "lateral", "seed_speed", "seed_accel", "ready_speed", "ready_accel"}
    /\ msg \in -1 .. MaxSpeed /\ sent \in Message
    /\ late \in Nat

(* A command that setSpeedCommand has set stays latched until another one is set or
   Guidance restarts: the loop's seeding, which runs at the same time, never
   replaces it (the race the comment in timingLoop is about). *)
LatchHolds == latched # None => /\ speedCommand = latched[1]
                                /\ setter = "accel" \/ maxAccel = latched[2]

(* The controller is never given a mixture of two steering commands. *)
LateralIsWhole ==
    lateral = <<0, 0, 0>> \/
    \E c \in Steering : lateral = << Clamp(c[1], -MaxAngle, MaxAngle), c[2], c[3] >>

(* Before Guidance engages the controller is never given the value that stands for
   "unset": the seeding of the ACTIVE and INACTIVE branch comes first, and neither
   a restart nor a clamped negative command brings that value back. *)
ReadyIsSet == sent.branch = "ready" => sent.speed # Unset /\ sent.accel # Unset

(* A loop that has looked at the state before Guidance left ENGAGED sends at most
   that one command afterwards. *)
AtMostOneLateCommand == late <= 1

(* While Guidance stays ENGAGED, a latched command is sent to the controller, unless
   another command or the wrench effort override takes its place. *)
CommandIsSent ==
    \A c \in {Clamped(d) : d \in Command} :
        latched = c /\ currentState = "ENGAGED"
            ~> \/ sent.branch = "engaged" /\ <<sent.speed, sent.accel>> = c
               \/ sent.branch = "wrench"
               \/ latched # c \/ currentState # "ENGAGED"

(* "Set the speed/accel commands to ensure valid values are passed to the controller
   before we engage" (timingLoop): no message of the ENGAGED branch is unset. *)
EngagedIsSet == sent.branch = "engaged" => sent.speed # Unset /\ sent.accel # Unset
====
