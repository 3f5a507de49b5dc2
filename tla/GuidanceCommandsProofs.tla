----------------------- MODULE GuidanceCommandsProofs -----------------------
(***************************************************************************)
(* Proofs about GuidanceCommands, for every set of commands and velocity   *)
(* readings, every limit and any number of calls.                          *)
(***************************************************************************)
EXTENDS GuidanceCommands, TLAPS

(* The values that setSpeedCommand latches and that setSteeringCommand makes of its
   arguments. *)
SpeedCommand == (0 .. MaxSpeed) \X (0 .. AccelLimit)

SteeringCommand == {<<0, 0, 0>>} \cup
    { << Clamp(c[1], -MaxAngle, MaxAngle), c[2], c[3] >> : c \in Steering }

(* What the call in progress has in its hands. *)
ArgType == /\ setter \in {"speed", "accel"} => arg \in SpeedCommand
           /\ setter = "steering" => arg \in SteeringCommand

-----------------------------------------------------------------------------
(* The operators of the model *)

(* Clamping leads into the limits. *)
LEMMA ClampedType ==
    ASSUME NEW c \in Command
    PROVE  Clamped(c) \in SpeedCommand
<1>1. c[1] \in Int /\ c[2] \in Int
  BY CommandsAssumption
<1>2. Abs(c[2]) \in Int
  BY <1>1 DEF Abs
<1>3. Clamp(c[1], 0, MaxSpeed) \in 0 .. MaxSpeed
  BY <1>1, CommandsAssumption DEF Clamp
<1>4. Clamp(Abs(c[2]), 0, AccelLimit) \in 0 .. AccelLimit
  BY <1>2, CommandsAssumption DEF Clamp
<1> QED
  BY <1>3, <1>4 DEF Clamped, SpeedCommand

(* setSteeringCommand's limit on the wheel angle yields a number. *)
LEMMA AngleType ==
    ASSUME NEW c \in Steering
    PROVE  Clamp(c[1], -MaxAngle, MaxAngle) \in Int
<1>1. c[1] \in Int
  BY CommandsAssumption
<1> QED
  BY <1>1, CommandsAssumption DEF Clamp

(* A steering command is made of three numbers. *)
LEMMA SteeringType == SteeringCommand \subseteq Int \X Int \X Int
<1> SUFFICES ASSUME NEW c \in Steering
             PROVE  << Clamp(c[1], -MaxAngle, MaxAngle), c[2], c[3] >> \in Int \X Int \X Int
  BY DEF SteeringCommand
<1>1. c[1] \in Int /\ c[2] \in Int /\ c[3] \in Int
  BY CommandsAssumption
<1> QED
  BY <1>1, AngleType

(* The zeros sent before engagement count as a steering command. *)
LEMMA StraightCommand == <<0, 0, 0>> \in SteeringCommand
BY DEF SteeringCommand

(* One write of setSteeringCommand. *)
LEMMA FirstWriteType ==
    ASSUME NEW s \in Int \X Int \X Int, NEW x \in Int
    PROVE  [s EXCEPT ![1] = x] \in Int \X Int \X Int
OBVIOUS

(* No value of a command, and neither a reset nor a limit, is taken for unset. *)
LEMMA NeverUnset ==
    /\ 0 # Unset /\ AccelLimit # Unset
    /\ \A v \in 0 .. MaxSpeed : v # Unset
    /\ \A a \in 0 .. AccelLimit : a # Unset
BY CommandsAssumption DEF Unset

(* The guard of a setter keeps the count of calls within its bound. *)
LEMMA NextCall ==
    ASSUME NEW n \in 0 .. MaxCalls, n < MaxCalls
    PROVE  n + 1 \in 0 .. MaxCalls
BY CommandsAssumption

(* A message is made of values of the fields. *)
LEMMA MessageType ==
    ASSUME NEW b \in {"none", "engaged", "ready", "wrench"}, NEW v \in -1 .. MaxSpeed,
           NEW a \in -1 .. AccelLimit
    PROVE  [branch |-> b, speed |-> v, accel |-> a] \in Message
BY DEF Message

(* The fields hold what the setters and the seeding give them. *)
LEMMA Limits ==
    /\ {-1, 0} \cup (0 .. MaxSpeed) \subseteq -1 .. MaxSpeed
    /\ {-1, 0, AccelLimit} \cup (0 .. AccelLimit) \subseteq -1 .. AccelLimit
BY CommandsAssumption

(* The velocity that the loop seeds with is brought within the limits. *)
LEMMA SeedType ==
    ASSUME NEW v \in Velocity
    PROVE  Clamp(v, 0, MaxSpeed) \in 0 .. MaxSpeed
BY CommandsAssumption DEF Clamp

(* onStateChange leads from a state of the life cycle to another. *)
LEMMA FollowsType ==
    ASSUME NEW s \in Lifecycle!State
    PROVE  Lifecycle!Successor[s] \subseteq Lifecycle!State
BY DEF Lifecycle!Successor, Lifecycle!State

-----------------------------------------------------------------------------
(* Types *)

(* The type invariant together with what a setter under way and the last latched
   command may hold. *)
TypeInv == TypeOK /\ ArgType /\ latched \in {None} \cup SpeedCommand

(* The initial values have their types. *)
LEMMA InitType == Init => TypeInv
<1> SUFFICES ASSUME Init PROVE TypeInv
  OBVIOUS
<1>1. sent \in Message
  BY Limits, MessageType DEF Init
<1>2. calls \in 0 .. MaxCalls
  BY CommandsAssumption DEF Init
<1>3. /\ speedCommand \in -1 .. MaxSpeed /\ msg \in -1 .. MaxSpeed
      /\ maxAccel \in -1 .. AccelLimit
  BY Limits DEF Init, Unset
<1>4. steering \in Int \X Int \X Int /\ lateral \in Int \X Int \X Int
  BY DEF Init
<1> QED
  BY <1>1, <1>2, <1>3, <1>4 DEF Init, TypeInv, TypeOK, ArgType, Lifecycle!State

(* Every access of the loop, the setters and the jobs keeps the types. *)
LEMMA StepType == TypeInv /\ [Next]_vars => TypeInv'
<1> SUFFICES ASSUME TypeInv, [Next]_vars PROVE TypeInv'
  OBVIOUS
<1> USE DEF TypeInv, TypeOK, ArgType
<1>1. CASE SetSpeedBegin
  <2>1. PICK c \in Command : arg' = Clamped(c)
    BY <1>1 DEF SetSpeedBegin
  <2>2. arg' \in SpeedCommand
    BY <2>1, ClampedType
  <2>3. calls' \in 0 .. MaxCalls
    BY <1>1, NextCall DEF SetSpeedBegin
  <2> QED
    BY <1>1, <2>2, <2>3 DEF SetSpeedBegin, fieldVars, jobVars, loopVars, historyVars
<1>2. CASE SetSpeed
  <2>1. arg[1] \in 0 .. MaxSpeed
    BY <1>2 DEF SetSpeed, SpeedCommand
  <2> QED
    BY <1>2, <2>1, Limits DEF SetSpeed, jobVars, loopVars
<1>3. CASE SetAccel
  <2>1. arg[2] \in 0 .. AccelLimit
    BY <1>3 DEF SetAccel, SpeedCommand
  <2> QED
    BY <1>3, <2>1, Limits DEF SetAccel, jobVars, loopVars, historyVars
<1>4. CASE SetSteeringBegin
  <2>1. PICK c \in Steering :
            /\ arg' = << Clamp(c[1], -MaxAngle, MaxAngle), c[2], c[3] >>
            /\ steering' = [steering EXCEPT ![1] = Clamp(c[1], -MaxAngle, MaxAngle)]
    BY <1>4 DEF SetSteeringBegin
  <2>2. arg' \in SteeringCommand
    BY <2>1 DEF SteeringCommand
  <2>3. steering' \in Int \X Int \X Int
    BY <2>1, AngleType, FirstWriteType
  <2>4. calls' \in 0 .. MaxCalls
    BY <1>4, NextCall DEF SetSteeringBegin
  <2> QED
    BY <1>4, <2>2, <2>3, <2>4 DEF SetSteeringBegin, jobVars, loopVars, historyVars
<1>5. CASE SetSteering
  <2>1. arg \in Int \X Int \X Int
    BY <1>5, SteeringType DEF SetSteering
  <2> QED
    BY <1>5, <2>1 DEF SetSteering, jobVars, loopVars, historyVars
<1>6. CASE Enable
  BY <1>6 DEF Enable, fieldVars, setterVars, loopVars, historyVars
<1>7. CASE Activate
  BY <1>7 DEF Activate, Lifecycle!State, fieldVars, setterVars, loopVars, historyVars
<1>8. CASE onSystemReady
  BY <1>8, FollowsType
     DEF onSystemReady, Follow, Lifecycle!State, fieldVars, setterVars, loopVars
<1>9. CASE onEngaged
  BY <1>9, FollowsType DEF onEngaged, Follow, fieldVars, setterVars, loopVars
<1>10. CASE onDeactivate
  BY <1>10, FollowsType DEF onDeactivate, Follow, fieldVars, setterVars, loopVars
<1>11. CASE onShutdown
  BY <1>11, FollowsType DEF onShutdown, Follow, fieldVars, setterVars, loopVars
<1>12. CASE Restart
  BY <1>12 DEF Restart, Lifecycle!State, fieldVars, setterVars, loopVars
<1>13. CASE ResetSpeed
  BY <1>13, Limits DEF ResetSpeed, setterVars, loopVars
<1>14. CASE ResetAccel
  BY <1>14, Limits DEF ResetAccel, setterVars, loopVars
<1>15. CASE Disable
  BY <1>15 DEF Disable, fieldVars, setterVars, loopVars, historyVars
<1>16. CASE LoopBranch
  BY <1>16 DEF LoopBranch, LoopLook, fieldVars, jobVars, setterVars, historyVars
<1>17. CASE LoopCache
  <2>1. sent' \in Message
    BY <1>17, Limits, MessageType DEF LoopCache
  <2> QED
    BY <1>17, <2>1, Limits DEF LoopCache, fieldVars, jobVars, setterVars, historyVars
<1>18. CASE LoopReadSpeed
  BY <1>18, Limits DEF LoopReadSpeed, fieldVars, jobVars, setterVars, historyVars
<1>19. CASE LoopSendEngaged
  <2>1. sent' \in Message
    BY <1>19, Limits, MessageType DEF LoopSendEngaged
  <2> QED
    BY <1>19, <2>1, Limits DEF LoopSendEngaged, Unset, fieldVars, jobVars, setterVars
<1>20. CASE LoopLateral
  BY <1>20 DEF LoopLateral, fieldVars, jobVars, setterVars, historyVars
<1>21. CASE LoopSeedSpeed
  BY <1>21, SeedType, Limits DEF LoopSeedSpeed, jobVars, setterVars, historyVars
<1>22. CASE LoopSeedAccel
  BY <1>22, Limits DEF LoopSeedAccel, Unset, jobVars, setterVars, historyVars
<1>23. CASE LoopSendReady
  <2>1. sent' \in Message
    BY <1>23, Limits, MessageType DEF LoopSendReady
  <2> QED
    BY <1>23, <2>1, Limits
       DEF LoopSendReady, Unset, fieldVars, jobVars, setterVars, historyVars
<1>24. CASE UNCHANGED vars
  BY <1>24 DEF vars, fieldVars, jobVars, setterVars, loopVars, historyVars
<1> QED
  BY <1>1, <1>2, <1>3, <1>4, <1>5, <1>6, <1>7, <1>8, <1>9, <1>10, <1>11, <1>12,
     <1>13, <1>14, <1>15, <1>16, <1>17, <1>18, <1>19, <1>20, <1>21, <1>22, <1>23,
     <1>24 DEF Next, Setter, JobThread, TimingLoop

(* Every field, and every message to a controller, keeps its type: speeds and
   accelerations stay within the limits of setSpeedCommand or are the value that
   stands for unset. *)
THEOREM CommandsTypeCorrect == Spec => []TypeOK
<1>1. TypeInv => TypeOK
  BY DEF TypeInv
<1> QED
  BY InitType, StepType, <1>1, PTL DEF Spec

-----------------------------------------------------------------------------
(* The latch *)

(* LatchHolds is not inductive: when the second write comes, it must be of the call
   whose first write was latched. *)
LatchInv == LatchHolds /\ (setter = "accel" /\ latched # None => latched = arg)

(* Nothing is latched at first. *)
LEMMA InitLatch == Init => LatchInv
BY DEF Init, LatchInv, LatchHolds

(* Neither the seeding nor a reset breaks the latch. *)
LEMMA StepLatch == TypeInv /\ LatchInv /\ [Next]_vars => LatchInv'
<1> SUFFICES ASSUME TypeInv, LatchInv, [Next]_vars PROVE LatchInv'
  OBVIOUS
<1> USE DEF LatchInv, LatchHolds
<1>1. CASE SetSpeedBegin
  BY <1>1 DEF SetSpeedBegin, fieldVars, historyVars
<1>2. CASE SetSpeed
  BY <1>2 DEF SetSpeed
<1>3. CASE SetAccel
  BY <1>3 DEF SetAccel, historyVars
<1>4. CASE SetSteeringBegin
  BY <1>4 DEF SetSteeringBegin, historyVars
<1>5. CASE SetSteering
  BY <1>5 DEF SetSteering, historyVars
<1>6. CASE Restart
  BY <1>6 DEF Restart
<1>7. CASE ResetSpeed
  BY <1>7 DEF ResetSpeed
<1>8. CASE ResetAccel
  BY <1>8 DEF ResetAccel
<1>9. CASE LoopSeedSpeed
  <2>1. CASE speedCommand # Unset
    BY <1>9, <2>1 DEF LoopSeedSpeed, setterVars, historyVars
  <2>2. CASE speedCommand = Unset
    <3>1. latched \in SpeedCommand => latched[1] # Unset
      BY DEF SpeedCommand, Unset
    <3>2. latched = None
      BY <2>2, <3>1 DEF TypeInv
    <3> QED
      BY <1>9, <3>2 DEF LoopSeedSpeed, historyVars
  <2> QED
    BY <2>1, <2>2
<1>10. CASE LoopSeedAccel
  <2>1. CASE maxAccel # Unset
    BY <1>10, <2>1 DEF LoopSeedAccel, setterVars, historyVars
  <2>2. CASE maxAccel = Unset
    <3>1. latched \in SpeedCommand => latched[2] # Unset
      BY DEF SpeedCommand, Unset
    <3>2. latched = None \/ setter = "accel"
      BY <2>2, <3>1 DEF TypeInv
    <3> QED
      BY <1>10, <3>2 DEF LoopSeedAccel, setterVars, historyVars
  <2> QED
    BY <2>1, <2>2
<1>11. CASE \/ Enable \/ Activate \/ onSystemReady \/ onEngaged \/ onDeactivate \/
             onShutdown \/ Disable \/ LoopBranch \/ LoopCache \/ LoopReadSpeed \/
             LoopSendEngaged \/ LoopLateral \/ LoopSendReady \/ UNCHANGED vars
  <2>1. UNCHANGED <<speedCommand, maxAccel, setter, arg, latched>>
    BY <1>11 DEF Enable, Activate, onSystemReady, onEngaged, onDeactivate,
       onShutdown, Disable, LoopBranch, LoopCache, LoopReadSpeed, LoopSendEngaged,
       LoopLateral, LoopSendReady, Follow, LoopLook, vars, fieldVars, jobVars,
       setterVars, loopVars, historyVars
  <2> QED
    BY <2>1
<1> QED
  BY <1>1, <1>2, <1>3, <1>4, <1>5, <1>6, <1>7, <1>8, <1>9, <1>10, <1>11 DEF Next,
     Setter, JobThread, TimingLoop

(* A speed command of a maneuver stays in force until the next one or a restart:
   seeding, however late, never replaces it. *)
THEOREM LatchIsKept == Spec => []LatchHolds
<1>1. LatchInv => LatchHolds
  BY DEF LatchInv
<1> QED
  BY InitType, StepType, InitLatch, StepLatch, <1>1, PTL DEF Spec

-----------------------------------------------------------------------------
(* Steering *)

(* Outside a call of setSteeringCommand, which has the monitor, the three fields
   belong together. *)
SteeringInv == /\ setter # "steering" => steering \in SteeringCommand
               /\ lateral \in SteeringCommand

(* The wheels are straight at first. *)
LEMMA InitSteering == Init => SteeringInv
BY DEF Init, SteeringInv, SteeringCommand

(* The loop copies the three fields only when no call is in progress. *)
LEMMA StepSteering == TypeInv /\ SteeringInv /\ [Next]_vars => SteeringInv'
<1> SUFFICES ASSUME TypeInv, SteeringInv, [Next]_vars PROVE SteeringInv'
  OBVIOUS
<1> USE DEF SteeringInv
<1>1. CASE SetSpeedBegin
  BY <1>1 DEF SetSpeedBegin, fieldVars, loopVars
<1>2. CASE SetSpeed
  BY <1>2 DEF SetSpeed, loopVars
<1>3. CASE SetAccel
  BY <1>3 DEF SetAccel, loopVars
<1>4. CASE SetSteeringBegin
  BY <1>4 DEF SetSteeringBegin, loopVars
<1>5. CASE SetSteering
  BY <1>5 DEF SetSteering, TypeInv, TypeOK, ArgType, loopVars
<1>6. CASE LoopLateral
  BY <1>6 DEF LoopLateral, fieldVars, setterVars
<1>7. CASE LoopSendReady
  BY <1>7, StraightCommand DEF LoopSendReady, fieldVars, setterVars
<1>8. CASE \/ Enable \/ Activate \/ onSystemReady \/ onEngaged \/ onDeactivate \/
             onShutdown \/ Restart \/ ResetSpeed \/ ResetAccel \/ Disable \/ LoopBranch \/
             LoopCache \/ LoopReadSpeed \/ LoopSendEngaged \/ LoopSeedSpeed \/ LoopSeedAccel
             \/ UNCHANGED vars
  <2>1. UNCHANGED <<steering, setter, lateral>>
    BY <1>8 DEF Enable, Activate, onSystemReady, onEngaged, onDeactivate,
       onShutdown, Restart, ResetSpeed, ResetAccel, Disable, LoopBranch, LoopCache,
       LoopReadSpeed, LoopSendEngaged, LoopSeedSpeed, LoopSeedAccel, Follow,
       LoopLook, vars, fieldVars, jobVars, setterVars, loopVars, historyVars
  <2> QED
    BY <2>1
<1> QED
  BY <1>1, <1>2, <1>3, <1>4, <1>5, <1>6, <1>7, <1>8 DEF Next, Setter, JobThread,
     TimingLoop

(* The controller is never given a mixture of two steering commands. *)
THEOREM SteeringIsWhole == Spec => []LateralIsWhole
<1>1. SteeringInv => LateralIsWhole
  BY DEF SteeringInv, SteeringCommand, LateralIsWhole
<1> QED
  BY InitType, StepType, InitSteering, StepSteering, <1>1, PTL DEF Spec

-----------------------------------------------------------------------------
(* Seeding *)

(* Along the ACTIVE and INACTIVE branch of the timing loop, more and more of what it
   is going to send is set, and nobody ever unsets it. *)
SeedInv == /\ loop = "seed_accel" => speedCommand # Unset
           /\ loop = "ready_speed" => speedCommand # Unset /\ maxAccel # Unset
           /\ loop = "ready_accel" => msg # Unset /\ maxAccel # Unset
           /\ ReadyIsSet

(* The loop is at its beginning and has sent nothing. *)
LEMMA InitSeed == Init => SeedInv
BY DEF Init, SeedInv, ReadyIsSet

(* No setter, reset or iteration of the loop brings the unset value back. *)
LEMMA StepSeed == TypeInv /\ SeedInv /\ [Next]_vars => SeedInv'
<1> SUFFICES ASSUME TypeInv, SeedInv, [Next]_vars PROVE SeedInv'
  OBVIOUS
<1> USE DEF SeedInv, ReadyIsSet
<1>1. CASE SetSpeed
  <2>1. arg[1] # Unset
    BY <1>1, NeverUnset DEF SetSpeed, TypeInv, ArgType, SpeedCommand
  <2> QED
    BY <1>1, <2>1 DEF SetSpeed, loopVars
<1>2. CASE SetAccel
  <2>1. arg[2] # Unset
    BY <1>2, NeverUnset DEF SetAccel, TypeInv, ArgType, SpeedCommand
  <2> QED
    BY <1>2, <2>1 DEF SetAccel, loopVars
<1>3. CASE ResetSpeed
  BY <1>3, NeverUnset DEF ResetSpeed, loopVars
<1>4. CASE ResetAccel
  BY <1>4, NeverUnset DEF ResetAccel, loopVars
<1>5. CASE LoopBranch
  BY <1>5 DEF LoopBranch, LoopLook, fieldVars
<1>6. CASE LoopCache
  BY <1>6 DEF LoopCache, fieldVars
<1>7. CASE LoopReadSpeed
  BY <1>7 DEF LoopReadSpeed, fieldVars
<1>8. CASE LoopSendEngaged
  BY <1>8 DEF LoopSendEngaged, fieldVars
<1>9. CASE LoopLateral
  BY <1>9 DEF LoopLateral, fieldVars
<1>10. CASE LoopSeedSpeed
  <2>1. speedCommand' # Unset
    <3>1. \A v \in Velocity : Clamp(v, 0, MaxSpeed) # Unset
      BY SeedType, NeverUnset
    <3> QED
      BY <1>10, <3>1 DEF LoopSeedSpeed
  <2> QED
    BY <1>10, <2>1 DEF LoopSeedSpeed
<1>11. CASE LoopSeedAccel
  <2>1. maxAccel' # Unset
    BY <1>11, NeverUnset DEF LoopSeedAccel
  <2> QED
    BY <1>11, <2>1 DEF LoopSeedAccel
<1>12. CASE LoopSendReady
  BY <1>12 DEF LoopSendReady, fieldVars
<1>13. CASE \/ SetSpeedBegin \/ SetSteeringBegin \/ SetSteering \/ Enable \/
             Activate \/ onSystemReady \/ onEngaged \/ onDeactivate \/ onShutdown \/ Restart
             \/ Disable \/ UNCHANGED vars
  <2>1. UNCHANGED <<speedCommand, maxAccel, loop, msg, sent>>
    BY <1>13 DEF SetSpeedBegin, SetSteeringBegin, SetSteering, Enable, Activate,
       onSystemReady, onEngaged, onDeactivate, onShutdown, Restart, Disable, Follow,
       vars, fieldVars, jobVars, setterVars, loopVars, historyVars
  <2> QED
    BY <2>1
<1> QED
  BY <1>1, <1>2, <1>3, <1>4, <1>5, <1>6, <1>7, <1>8, <1>9, <1>10, <1>11, <1>12,
     <1>13 DEF Next, Setter, JobThread, TimingLoop

(* Before Guidance engages, the controller is never given the value that stands for
   unset, in whatever order the loop, the maneuvers and a restart get to the fields. *)
THEOREM ReadyIsAlwaysSet == Spec => []ReadyIsSet
<1>1. SeedInv => ReadyIsSet
  BY DEF SeedInv
<1> QED
  BY InitType, StepType, InitSeed, StepSeed, <1>1, PTL DEF Spec

-----------------------------------------------------------------------------
(* Late commands *)

(* An iteration that is on its way to send in the ENGAGED branch while Guidance is not
   ENGAGED has begun before ENGAGED was left, and no other has sent since. *)
LateInv == /\ late \in 0 .. 1
           /\ loop \in {"cache", "read_speed", "read_accel"} /\ currentState # "ENGAGED"
                 => late = 0
           /\ job = "activate" => currentState = "DRIVERS_READY"

(* Nothing has been sent late at first. *)
LEMMA InitLate == Init => LateInv
BY DEF Init, LateInv

(* Leaving ENGAGED begins the count anew; only an iteration under way can add to it. *)
LEMMA StepLate == TypeInv /\ LateInv /\ [Next]_vars => LateInv'
<1> SUFFICES ASSUME TypeInv, LateInv, [Next]_vars PROVE LateInv'
  OBVIOUS
<1> USE DEF LateInv
<1>1. CASE Enable
  BY <1>1 DEF Enable, loopVars, historyVars
<1>2. CASE ResetSpeed
  BY <1>2 DEF ResetSpeed, loopVars
<1>3. CASE ResetAccel
  BY <1>3 DEF ResetAccel, loopVars
<1>4. CASE Disable
  BY <1>4 DEF Disable, loopVars, historyVars
<1>5. CASE Activate
  BY <1>5 DEF Activate, loopVars, historyVars
<1>6. CASE onSystemReady
  BY <1>6 DEF onSystemReady, Follow, loopVars
<1>7. CASE onEngaged
  BY <1>7 DEF onEngaged, Follow, loopVars
<1>8. CASE onDeactivate
  BY <1>8 DEF onDeactivate, Follow, loopVars
<1>9. CASE onShutdown
  BY <1>9 DEF onShutdown, Follow, loopVars
<1>10. CASE Restart
  BY <1>10 DEF Restart, loopVars
<1>11. CASE LoopBranch
  BY <1>11 DEF LoopBranch, LoopLook, jobVars, historyVars
<1>12. CASE LoopCache
  BY <1>12 DEF LoopCache, jobVars, historyVars
<1>13. CASE LoopReadSpeed
  BY <1>13 DEF LoopReadSpeed, jobVars, historyVars
<1>14. CASE LoopSendEngaged
  BY <1>14 DEF LoopSendEngaged, jobVars
<1>15. CASE LoopLateral
  BY <1>15 DEF LoopLateral, jobVars, historyVars
<1>16. CASE LoopSeedSpeed
  BY <1>16 DEF LoopSeedSpeed, jobVars, historyVars
<1>17. CASE LoopSeedAccel
  BY <1>17 DEF LoopSeedAccel, jobVars, historyVars
<1>18. CASE LoopSendReady
  BY <1>18 DEF LoopSendReady, jobVars, historyVars
<1>19. CASE \/ SetSpeedBegin \/ SetSpeed \/ SetAccel \/ SetSteeringBegin \/
             SetSteering \/ UNCHANGED vars
  <2>1. UNCHANGED <<late, loop, currentState, job>>
    BY <1>19 DEF SetSpeedBegin, SetSpeed, SetAccel, SetSteeringBegin, SetSteering,
       vars, fieldVars, jobVars, setterVars, loopVars, historyVars
  <2> QED
    BY <2>1
<1> QED
  BY <1>1, <1>2, <1>3, <1>4, <1>5, <1>6, <1>7, <1>8, <1>9, <1>10, <1>11, <1>12,
     <1>13, <1>14, <1>15, <1>16, <1>17, <1>18, <1>19 DEF Next, Setter, JobThread,
     TimingLoop

(* At most one command of the ENGAGED branch goes out after ENGAGED was left, for any
   number of engagements. *)
THEOREM OneLateCommand == Spec => []AtMostOneLateCommand
<1>1. LateInv => AtMostOneLateCommand
  BY DEF LateInv, AtMostOneLateCommand
<1> QED
  BY InitType, StepType, InitLate, StepLate, <1>1, PTL DEF Spec
====
