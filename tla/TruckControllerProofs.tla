------------------------ MODULE TruckControllerProofs ------------------------
(***************************************************************************)
(* Proofs about TruckController and the CanClient it extends, for any time *)
(* out, send period, delay of the spin loop, and length of the queue.      *)
(***************************************************************************)
EXTENDS TruckController, TLAPS

(* The parts of TypeOK: the client of the CAN bus, and the driver. *)
CanType ==
    /\ main \in {"up", "close", "joinIo", "stopQueue", "joinProc", "down"}
    /\ open \in BOOLEAN /\ io \in {"read", "push", "lastPush", "ended"}
    /\ rx \in 0 .. MaxFrames /\ errors \in 0 .. MaxErrors /\ running \in BOOLEAN
    /\ proc \in {"loop", "lock", "park", "wait", "handle", "ended"}
    /\ hand \in 0 .. MaxFrames /\ handled \in 0 .. MaxFrames

QueueType == queue \in Seq(0 .. MaxFrames) /\ Len(queue) <= MaxQueue

DriverType ==
    /\ enabled \in BOOLEAN /\ active \in BOOLEAN /\ robot \in BOOLEAN
    /\ shutdown \in BOOLEAN /\ lost \in BOOLEAN
    /\ mode \in Frame /\ vehicle \in Frame
    /\ cmdAge \in 0 .. CmdTimeout + 1 /\ sentAge \in 0 .. SendPeriod + 1
    /\ vehAge \in 0 .. CmdTimeout + Gap + 1 /\ offAge \in 0 .. Gap + 1
    /\ lag \in 0 .. MaxLag /\ faults \in 0 .. MaxFaults

(* The io thread has ended when the destructor stops the queue, and stays so. *)
JoinInv == main \in {"stopQueue", "joinProc", "down"} => io = "ended"

(* How long ago the driver last had the occasion to send a control frame.  sentAge counts no
   further than SendPeriod + 1: from there on the loop has not gone round. *)
SinceSent == IF sentAge <= SendPeriod THEN sentAge ELSE SendPeriod + lag

(* A pass of the loop that finds the period over sends, so that the loop has still to go round. *)
PassInv == sentAge > SendPeriod => lag > 0

(* The command in the last frame was fresh when the frame was sent. *)
FreshInv == lost \/ vehicle = "disable" \/ vehAge <= CmdTimeout + SinceSent

(* When the last frame was sent, robotic control was enabled. *)
ObeyInv == enabled \/ lost \/ vehicle = "disable" \/ offAge <= SinceSent

IInv == CanType /\ QueueType /\ DriverType /\ JoinInv /\ PassInv /\ FreshInv /\ ObeyInv

-----------------------------------------------------------------------------
(* Clocks, and the circular buffer *)

(* The constants are natural numbers. *)
LEMMA Constants ==
    /\ CmdTimeout \in Nat /\ SendPeriod \in Nat /\ MaxLag \in Nat \ {0} /\ MaxFaults \in Nat
    /\ MaxQueue \in Nat \ {0} /\ MaxFrames \in Nat /\ MaxErrors \in Nat
    /\ Gap \in Nat /\ Gap = SendPeriod + MaxLag
BY TruckAssumption, CanAssumption DEF Gap

(* A clock goes on by one tick until it is past its bound, and then stands. *)
LEMMA OlderProperty ==
    ASSUME NEW bound \in Nat, NEW age \in 0 .. bound + 1
    PROVE  Older(age, bound) = IF age <= bound THEN age + 1 ELSE bound + 1
<1> DEFINE m == IF age <= bound THEN age + 1 ELSE bound + 1
<1>1. m \in {age + 1, bound + 1} /\ \A y \in {age + 1, bound + 1} : m <= y
  OBVIOUS
<1>2. \A x \in {age + 1, bound + 1} : (\A y \in {age + 1, bound + 1} : x <= y) => x = m
  OBVIOUS
<1> QED
  BY <1>1, <1>2 DEF Older, Min

(* A full buffer drops its oldest entry for the new one; it never grows past its capacity. *)
LEMMA PushBackType ==
    ASSUME QueueType, NEW e \in 0 .. MaxFrames, PushBack(e)
    PROVE  QueueType'
<1>1. CASE Len(queue) = MaxQueue
  <2>1. queue # <<>> /\ queue' = Append(Tail(queue), e)
    BY <1>1, Constants DEF PushBack, QueueType
  <2>2. Tail(queue) \in Seq(0 .. MaxFrames) /\ Len(Tail(queue)) = Len(queue) - 1
    BY <2>1 DEF QueueType
  <2> QED
    BY <1>1, <2>1, <2>2, Constants DEF QueueType
<1>2. CASE Len(queue) # MaxQueue
  <2>1. queue' = Append(queue, e)
    BY <1>2 DEF PushBack
  <2>2. Append(queue, e) \in Seq(0 .. MaxFrames) /\ Len(Append(queue, e)) = Len(queue) + 1
        /\ Len(queue) \in Nat
    BY DEF QueueType
  <2> QED
    BY <1>2, <2>1, <2>2, Constants DEF QueueType
<1> QED
  BY <1>1, <1>2

-----------------------------------------------------------------------------
(* Every part of the invariant is preserved by every step *)

(* The state of the client keeps its type. *)
LEMMA CanTypeStep == IInv /\ [Next]_vars => CanType'
<1> SUFFICES ASSUME IInv, [Next]_vars
             PROVE  CanType'
  OBVIOUS
<1> USE Constants DEF IInv, canVars, ioVars, procVars, cmdVars, appVars, vehVars
<1>1. CASE cmd_longitudinal_effort
  BY <1>1 DEF cmd_longitudinal_effort, CanType
<1>2. CASE cmd_speed
  BY <1>2 DEF cmd_speed, CanType
<1>3. ASSUME NEW set \in BOOLEAN, enableRobotic(set)
     PROVE  CanType'
  BY <1>3 DEF enableRobotic, CanType
<1>4. CASE updateControlStatus
  BY <1>4 DEF updateControlStatus, CanType
<1>5. CASE system_alert_cb
  BY <1>5 DEF system_alert_cb, CanType
<1>6. CASE PostSpin
  BY <1>6 DEF PostSpin, CanType
<1>7. CASE Tick
  BY <1>7 DEF Tick, CanType
<1>8. CASE Read /\ UNCHANGED <<cmdVars, appVars, lag, vehVars, offAge>>
  BY <1>8 DEF Read, CanType
<1>9. CASE ReadError /\ UNCHANGED <<cmdVars, appVars, lag, vehVars, offAge>>
  BY <1>9 DEF ReadError, CanType
<1>10. CASE ReadAborted /\ UNCHANGED <<cmdVars, appVars, lag, vehVars, offAge>>
  BY <1>10 DEF ReadAborted, CanType
<1>11. CASE Push /\ UNCHANGED <<cmdVars, appVars, lag, vehVars, offAge>>
  BY <1>11 DEF Push, Notified, CanType
<1>12. CASE While /\ UNCHANGED <<cmdVars, appVars, lag, vehVars, offAge>>
  BY <1>12 DEF While, CanType
<1>13. CASE Lock /\ UNCHANGED <<cmdVars, appVars, lag, vehVars, offAge>>
  <2>1. queue # <<>> => Head(queue) \in 0 .. MaxFrames
    BY DEF QueueType
  <2> QED
    BY <2>1, <1>13 DEF Lock, CanType
<1>14. CASE Wait /\ UNCHANGED <<cmdVars, appVars, lag, vehVars, offAge>>
  BY <1>14 DEF Wait, CanType
<1>15. CASE Handle /\ UNCHANGED <<cmdVars, appVars, lag, vehVars, offAge>>
  BY <1>15 DEF Handle, CanType
<1>16. CASE CloseDevice /\ UNCHANGED <<cmdVars, appVars, lag, vehVars, offAge>>
  BY <1>16 DEF CloseDevice, CanType
<1>17. CASE JoinIo /\ UNCHANGED <<cmdVars, appVars, lag, vehVars, offAge>>
  BY <1>17 DEF JoinIo, CanType
<1>18. CASE StopQueue /\ UNCHANGED <<cmdVars, appVars, lag, vehVars, offAge>>
  BY <1>18 DEF StopQueue, Notified, CanType
<1>19. CASE JoinProc /\ UNCHANGED <<cmdVars, appVars, lag, vehVars, offAge>>
  BY <1>19 DEF JoinProc, CanType
<1>20. CASE UNCHANGED vars
  BY <1>20 DEF vars, CanType
<1> QED
  BY <1>1, <1>2, <1>3, <1>4, <1>5, <1>6, <1>7, <1>8, <1>9, <1>10, <1>11, <1>12, <1>13, <1>14,
     <1>15, <1>16, <1>17, <1>18, <1>19, <1>20
  DEF Next, Receive, CanStep, ProcStep, CloseStep

(* The queue never grows past its limit. *)
LEMMA QueueTypeStep == IInv /\ [Next]_vars => QueueType'
<1> SUFFICES ASSUME IInv, [Next]_vars
             PROVE  QueueType'
  OBVIOUS
<1> USE Constants DEF IInv, canVars, ioVars, procVars, cmdVars, appVars, vehVars
<1>1. CASE cmd_longitudinal_effort
  BY <1>1 DEF cmd_longitudinal_effort, QueueType
<1>2. CASE cmd_speed
  BY <1>2 DEF cmd_speed, QueueType
<1>3. ASSUME NEW set \in BOOLEAN, enableRobotic(set)
     PROVE  QueueType'
  BY <1>3 DEF enableRobotic, QueueType
<1>4. CASE updateControlStatus
  BY <1>4 DEF updateControlStatus, QueueType
<1>5. CASE system_alert_cb
  BY <1>5 DEF system_alert_cb, QueueType
<1>6. CASE PostSpin
  BY <1>6 DEF PostSpin, QueueType
<1>7. CASE Tick
  BY <1>7 DEF Tick, QueueType
<1>8. CASE Read /\ UNCHANGED <<cmdVars, appVars, lag, vehVars, offAge>>
  BY <1>8 DEF Read, QueueType
<1>9. CASE ReadError /\ UNCHANGED <<cmdVars, appVars, lag, vehVars, offAge>>
  BY <1>9 DEF ReadError, QueueType
<1>10. CASE ReadAborted /\ UNCHANGED <<cmdVars, appVars, lag, vehVars, offAge>>
  BY <1>10 DEF ReadAborted, QueueType
<1>11. CASE Push /\ UNCHANGED <<cmdVars, appVars, lag, vehVars, offAge>>
  BY <1>11, PushBackType DEF Push, CanType
<1>12. CASE While /\ UNCHANGED <<cmdVars, appVars, lag, vehVars, offAge>>
  BY <1>12 DEF While, QueueType
<1>13. CASE Lock /\ UNCHANGED <<cmdVars, appVars, lag, vehVars, offAge>>
  <2>1. queue # <<>> => /\ Tail(queue) \in Seq(0 .. MaxFrames)
                        /\ Len(Tail(queue)) = Len(queue) - 1 /\ Len(queue) \in Nat
    BY DEF QueueType
  <2>2. queue' = queue \/ (queue # <<>> /\ queue' = Tail(queue))
    BY <1>13 DEF Lock
  <2> QED
    BY <2>1, <2>2 DEF QueueType
<1>14. CASE Wait /\ UNCHANGED <<cmdVars, appVars, lag, vehVars, offAge>>
  BY <1>14 DEF Wait, QueueType
<1>15. CASE Handle /\ UNCHANGED <<cmdVars, appVars, lag, vehVars, offAge>>
  BY <1>15 DEF Handle, QueueType
<1>16. CASE CloseDevice /\ UNCHANGED <<cmdVars, appVars, lag, vehVars, offAge>>
  BY <1>16 DEF CloseDevice, QueueType
<1>17. CASE JoinIo /\ UNCHANGED <<cmdVars, appVars, lag, vehVars, offAge>>
  BY <1>17 DEF JoinIo, QueueType
<1>18. CASE StopQueue /\ UNCHANGED <<cmdVars, appVars, lag, vehVars, offAge>>
  BY <1>18 DEF StopQueue, Notified, QueueType
<1>19. CASE JoinProc /\ UNCHANGED <<cmdVars, appVars, lag, vehVars, offAge>>
  BY <1>19 DEF JoinProc, QueueType
<1>20. CASE UNCHANGED vars
  BY <1>20 DEF vars, QueueType
<1> QED
  BY <1>1, <1>2, <1>3, <1>4, <1>5, <1>6, <1>7, <1>8, <1>9, <1>10, <1>11, <1>12, <1>13, <1>14,
     <1>15, <1>16, <1>17, <1>18, <1>19, <1>20
  DEF Next, Receive, CanStep, ProcStep, CloseStep

(* The fields and clocks of the driver keep their types. *)
LEMMA DriverTypeStep == IInv /\ [Next]_vars => DriverType'
<1> SUFFICES ASSUME IInv, [Next]_vars
             PROVE  DriverType'
  OBVIOUS
<1> USE Constants DEF IInv, canVars, ioVars, procVars, cmdVars, appVars, vehVars
<1>1. CASE cmd_longitudinal_effort
  BY <1>1 DEF cmd_longitudinal_effort, DriverType, Frame
<1>2. CASE cmd_speed
  BY <1>2 DEF cmd_speed, DriverType, Frame
<1>3. ASSUME NEW set \in BOOLEAN, enableRobotic(set)
     PROVE  DriverType'
  BY <1>3 DEF enableRobotic, DriverType, Frame
<1>4. CASE updateControlStatus
  BY <1>4 DEF updateControlStatus, DriverType, Frame
<1>5. CASE system_alert_cb
  BY <1>5 DEF system_alert_cb, DriverType, Frame
<1>6. CASE PostSpin
  <2>1. Control \in Frame
    BY DEF Control, Frame, DriverType
  <2>2. CASE sentAge > SendPeriod
    <3>1. /\ vehicle' \in Frame /\ vehAge' \in 0 .. CmdTimeout + Gap + 1
          /\ lost' \in BOOLEAN /\ faults' \in 0 .. MaxFaults
      <4>1. Write(Control)
        BY <2>2, <1>6 DEF PostSpin, sendControl
      <4>2. cmdAge \in 0 .. CmdTimeout + Gap + 1
        BY DEF DriverType
      <4>3. vehicle' \in Frame /\ faults' \in 0 .. MaxFaults
        BY <2>1, <4>1 DEF Write, DriverType
      <4>4. lost' \in BOOLEAN
        BY <4>1, Zenon DEF Write
      <4>5. vehAge' \in {0, cmdAge, vehAge}
        BY <4>1 DEF Write
      <4>6. vehAge' \in 0 .. CmdTimeout + Gap + 1
        BY <4>2, <4>5 DEF DriverType
      <4> QED
        BY <4>3, <4>4, <4>6
    <3>2. active' \in BOOLEAN /\ mode' \in Frame /\ sentAge' = 0
      BY <2>1, <2>2, <1>6 DEF PostSpin, sendControl
    <3> QED
      BY <3>1, <3>2, <1>6 DEF PostSpin, DriverType
  <2>3. CASE ~(sentAge > SendPeriod)
    BY <2>3, <1>6 DEF PostSpin, sendControl, DriverType
  <2> QED
    BY <2>2, <2>3
<1>7. CASE Tick
  <2>1. /\ Older(cmdAge, CmdTimeout) \in 0 .. CmdTimeout + 1
        /\ Older(sentAge, SendPeriod) \in 0 .. SendPeriod + 1
        /\ Older(vehAge, CmdTimeout + Gap) \in 0 .. CmdTimeout + Gap + 1
        /\ Older(offAge, Gap) \in 0 .. Gap + 1
    <3>1. CmdTimeout + Gap \in Nat
      OBVIOUS
    <3>2. Older(cmdAge, CmdTimeout) \in 0 .. CmdTimeout + 1
      BY OlderProperty DEF DriverType
    <3>3. Older(sentAge, SendPeriod) \in 0 .. SendPeriod + 1
      BY OlderProperty DEF DriverType
    <3>4. Older(vehAge, CmdTimeout + Gap) \in 0 .. CmdTimeout + Gap + 1
      BY <3>1, OlderProperty DEF DriverType
    <3>5. Older(offAge, Gap) \in 0 .. Gap + 1
      BY OlderProperty DEF DriverType
    <3> QED
      BY <3>2, <3>3, <3>4, <3>5
  <2> QED
    BY <2>1, <1>7 DEF Tick, DriverType
<1>8. CASE Receive
  BY <1>8 DEF Receive, DriverType, Frame
<1>9. CASE UNCHANGED vars
  BY <1>9 DEF vars, DriverType, Frame
<1> QED
  BY <1>1, <1>2, <1>3, <1>4, <1>5, <1>6, <1>7, <1>8, <1>9
  DEF Next

(* The io thread is joined before the queue is stopped. *)
LEMMA JoinStep == IInv /\ [Next]_vars => JoinInv'
<1> SUFFICES ASSUME IInv, [Next]_vars
             PROVE  JoinInv'
  OBVIOUS
<1> USE Constants DEF IInv, canVars, ioVars, procVars, cmdVars, appVars, vehVars
<1>1. CASE cmd_longitudinal_effort
  BY <1>1 DEF cmd_longitudinal_effort, JoinInv
<1>2. CASE cmd_speed
  BY <1>2 DEF cmd_speed, JoinInv
<1>3. ASSUME NEW set \in BOOLEAN, enableRobotic(set)
     PROVE  JoinInv'
  BY <1>3 DEF enableRobotic, JoinInv
<1>4. CASE updateControlStatus
  BY <1>4 DEF updateControlStatus, JoinInv
<1>5. CASE system_alert_cb
  BY <1>5 DEF system_alert_cb, JoinInv
<1>6. CASE PostSpin
  BY <1>6 DEF PostSpin, Spinning, JoinInv
<1>7. CASE Tick
  BY <1>7 DEF Tick, JoinInv
<1>8. CASE Read /\ UNCHANGED <<cmdVars, appVars, lag, vehVars, offAge>>
  BY <1>8 DEF Read, JoinInv
<1>9. CASE ReadError /\ UNCHANGED <<cmdVars, appVars, lag, vehVars, offAge>>
  BY <1>9 DEF ReadError, JoinInv
<1>10. CASE ReadAborted /\ UNCHANGED <<cmdVars, appVars, lag, vehVars, offAge>>
  BY <1>10 DEF ReadAborted, JoinInv
<1>11. CASE Push /\ UNCHANGED <<cmdVars, appVars, lag, vehVars, offAge>>
  BY <1>11 DEF Push, JoinInv, CanType
<1>12. CASE While /\ UNCHANGED <<cmdVars, appVars, lag, vehVars, offAge>>
  BY <1>12 DEF While, JoinInv
<1>13. CASE Lock /\ UNCHANGED <<cmdVars, appVars, lag, vehVars, offAge>>
  BY <1>13 DEF Lock, JoinInv
<1>14. CASE Wait /\ UNCHANGED <<cmdVars, appVars, lag, vehVars, offAge>>
  BY <1>14 DEF Wait, JoinInv
<1>15. CASE Handle /\ UNCHANGED <<cmdVars, appVars, lag, vehVars, offAge>>
  BY <1>15 DEF Handle, JoinInv
<1>16. CASE CloseDevice /\ UNCHANGED <<cmdVars, appVars, lag, vehVars, offAge>>
  BY <1>16 DEF CloseDevice, JoinInv
<1>17. CASE JoinIo /\ UNCHANGED <<cmdVars, appVars, lag, vehVars, offAge>>
  BY <1>17 DEF JoinIo, JoinInv
<1>18. CASE StopQueue /\ UNCHANGED <<cmdVars, appVars, lag, vehVars, offAge>>
  BY <1>18 DEF StopQueue, Notified, JoinInv
<1>19. CASE JoinProc /\ UNCHANGED <<cmdVars, appVars, lag, vehVars, offAge>>
  BY <1>19 DEF JoinProc, JoinInv
<1>20. CASE UNCHANGED vars
  BY <1>20 DEF vars, JoinInv
<1> QED
  BY <1>1, <1>2, <1>3, <1>4, <1>5, <1>6, <1>7, <1>8, <1>9, <1>10, <1>11, <1>12, <1>13, <1>14,
     <1>15, <1>16, <1>17, <1>18, <1>19, <1>20
  DEF Next, Receive, CanStep, ProcStep, CloseStep

(* When the period is over, the next pass sends. *)
LEMMA PassStep == IInv /\ [Next]_vars => PassInv'
<1> SUFFICES ASSUME IInv, [Next]_vars
             PROVE  PassInv'
  OBVIOUS
<1> USE Constants DEF IInv, canVars, ioVars, procVars, cmdVars, appVars, vehVars
<1>1. CASE cmd_longitudinal_effort
  BY <1>1 DEF cmd_longitudinal_effort, PassInv
<1>2. CASE cmd_speed
  BY <1>2 DEF cmd_speed, PassInv
<1>3. ASSUME NEW set \in BOOLEAN, enableRobotic(set)
     PROVE  PassInv'
  BY <1>3 DEF enableRobotic, PassInv
<1>4. CASE updateControlStatus
  BY <1>4 DEF updateControlStatus, PassInv
<1>5. CASE system_alert_cb
  BY <1>5 DEF system_alert_cb, PassInv
<1>6. CASE PostSpin
  BY <1>6 DEF PostSpin, sendControl, PassInv, DriverType
<1>7. CASE Tick
  BY <1>7 DEF Tick, PassInv, DriverType
<1>8. CASE Receive
  BY <1>8 DEF Receive, PassInv
<1>9. CASE UNCHANGED vars
  BY <1>9 DEF vars, PassInv
<1> QED
  BY <1>1, <1>2, <1>3, <1>4, <1>5, <1>6, <1>7, <1>8, <1>9
  DEF Next

(* The vehicle's command grows no older than the time since it was sent. *)
LEMMA FreshStep == IInv /\ [Next]_vars => FreshInv'
<1> SUFFICES ASSUME IInv, [Next]_vars
             PROVE  FreshInv'
  OBVIOUS
<1> USE Constants DEF IInv, canVars, ioVars, procVars, cmdVars, appVars, vehVars
<1>1. CASE cmd_longitudinal_effort
  BY <1>1 DEF cmd_longitudinal_effort, FreshInv, SinceSent
<1>2. CASE cmd_speed
  BY <1>2 DEF cmd_speed, FreshInv, SinceSent
<1>3. ASSUME NEW set \in BOOLEAN, enableRobotic(set)
     PROVE  FreshInv'
  BY <1>3 DEF enableRobotic, FreshInv, SinceSent
<1>4. CASE updateControlStatus
  BY <1>4 DEF updateControlStatus, FreshInv, SinceSent
<1>5. CASE system_alert_cb
  BY <1>5 DEF system_alert_cb, FreshInv, SinceSent
<1>6. CASE PostSpin
  <2>1. CASE sentAge > SendPeriod
    <3>1. SinceSent' = 0
      BY <2>1, <1>6 DEF PostSpin, sendControl, SinceSent
    <3> QED
      BY <2>1, <3>1, <1>6 DEF PostSpin, sendControl, Write, Control, FreshInv, DriverType
  <2>2. CASE ~(sentAge > SendPeriod)
    BY <2>2, <1>6 DEF PostSpin, sendControl, SinceSent, FreshInv, DriverType
  <2> QED
    BY <2>1, <2>2
<1>7. CASE Tick
  <2>1. /\ Older(sentAge, SendPeriod) = IF sentAge <= SendPeriod THEN sentAge + 1
                                                               ELSE SendPeriod + 1
        /\ Older(vehAge, CmdTimeout + Gap) <= vehAge + 1
        /\ Older(offAge, Gap) <= offAge + 1
    BY OlderProperty DEF DriverType
  <2>2. SinceSent' >= SinceSent + 1 /\ SinceSent \in Nat /\ SinceSent' \in Nat
    BY <2>1, <1>7 DEF Tick, SinceSent, DriverType, PassInv
  <2> QED
    BY <2>1, <2>2, <1>7 DEF Tick, FreshInv, DriverType
<1>8. CASE Receive
  BY <1>8 DEF Receive, FreshInv, SinceSent
<1>9. CASE UNCHANGED vars
  BY <1>9 DEF vars, FreshInv, SinceSent
<1> QED
  BY <1>1, <1>2, <1>3, <1>4, <1>5, <1>6, <1>7, <1>8, <1>9
  DEF Next

(* A frame that is sent while robotic control is disabled disables. *)
LEMMA ObeyStep == IInv /\ [Next]_vars => ObeyInv'
<1> SUFFICES ASSUME IInv, [Next]_vars
             PROVE  ObeyInv'
  OBVIOUS
<1> USE Constants DEF IInv, canVars, ioVars, procVars, cmdVars, appVars, vehVars
<1>1. CASE cmd_longitudinal_effort
  BY <1>1 DEF cmd_longitudinal_effort, ObeyInv, SinceSent
<1>2. CASE cmd_speed
  BY <1>2 DEF cmd_speed, ObeyInv, SinceSent
<1>3. ASSUME NEW set \in BOOLEAN, enableRobotic(set)
     PROVE  ObeyInv'
  BY <1>3 DEF enableRobotic, ObeyInv, SinceSent, DriverType
<1>4. CASE updateControlStatus
  BY <1>4 DEF updateControlStatus, ObeyInv, SinceSent
<1>5. CASE system_alert_cb
  BY <1>5 DEF system_alert_cb, ObeyInv, SinceSent
<1>6. CASE PostSpin
  <2>1. CASE sentAge > SendPeriod
    <3>1. SinceSent' = 0
      BY <2>1, <1>6 DEF PostSpin, sendControl, SinceSent
    <3> QED
      BY <2>1, <3>1, <1>6 DEF PostSpin, sendControl, Write, Control, ObeyInv, DriverType
  <2>2. CASE ~(sentAge > SendPeriod)
    BY <2>2, <1>6 DEF PostSpin, sendControl, SinceSent, ObeyInv, DriverType
  <2> QED
    BY <2>1, <2>2
<1>7. CASE Tick
  <2>1. /\ Older(sentAge, SendPeriod) = IF sentAge <= SendPeriod THEN sentAge + 1
                                                               ELSE SendPeriod + 1
        /\ Older(vehAge, CmdTimeout + Gap) <= vehAge + 1
        /\ Older(offAge, Gap) <= offAge + 1
    BY OlderProperty DEF DriverType
  <2>2. SinceSent' >= SinceSent + 1 /\ SinceSent \in Nat /\ SinceSent' \in Nat
    BY <2>1, <1>7 DEF Tick, SinceSent, DriverType, PassInv
  <2> QED
    BY <2>1, <2>2, <1>7 DEF Tick, ObeyInv, DriverType
<1>8. CASE Receive
  BY <1>8 DEF Receive, ObeyInv, SinceSent
<1>9. CASE UNCHANGED vars
  BY <1>9 DEF vars, ObeyInv, SinceSent
<1> QED
  BY <1>1, <1>2, <1>3, <1>4, <1>5, <1>6, <1>7, <1>8, <1>9
  DEF Next

-----------------------------------------------------------------------------
(* The theorems *)

(* In every reachable state all parts of the invariant hold together. *)
THEOREM Invariant == Spec => []IInv
<1>1. Init => IInv
  <2> SUFFICES ASSUME Init
               PROVE  IInv
    OBVIOUS
  <2> USE Constants DEF Init, CanInit
  <2>1. CanType /\ QueueType
    BY DEF CanType, QueueType
  <2>2. DriverType
    <3>1. CmdTimeout + 1 \in 0 .. CmdTimeout + 1 /\ 0 \in 0 .. SendPeriod + 1 /\ 0 \in 0 .. Gap + 1
          /\ 0 \in 0 .. CmdTimeout + Gap + 1 /\ 0 \in 0 .. MaxLag /\ 0 \in 0 .. MaxFaults
      OBVIOUS
    <3> QED
      BY <3>1 DEF DriverType, Frame
  <2>3. JoinInv /\ PassInv /\ FreshInv /\ ObeyInv
    BY DEF JoinInv, PassInv, FreshInv, ObeyInv
  <2> QED
    BY <2>1, <2>2, <2>3 DEF IInv
<1>2. IInv /\ [Next]_vars => IInv'
  BY CanTypeStep, QueueTypeStep, DriverTypeStep, JoinStep, PassStep, FreshStep, ObeyStep DEF IInv
<1> QED
  BY <1>1, <1>2, PTL DEF Spec

(* Types and bounds: in particular the queue never holds more than max_size frames and no clock
   passes the bound at which it saturates. *)
THEOREM TruckTypeCorrect == Spec => []TypeOK
<1>1. IInv => TypeOK
  BY DEF IInv, TypeOK, CanType, QueueType, DriverType
<1> QED
  BY <1>1, Invariant, PTL

(* frameReceivedHandler never pushes into a queue that is being destroyed
   (~TruckDBWController closes the device and joins its thread first). *)
THEOREM DeviceGoesFirst == Spec => []QueueOutlivesDevice
<1>1. IInv => QueueOutlivesDevice
  BY DEF IInv, JoinInv, QueueOutlivesDevice
<1> QED
  BY <1>1, Invariant, PTL

(* For every time out, period and delay of the loop: the vehicle's last command is no older than
   their sum (sendCommands). *)
THEOREM CommandsExpire == Spec => []CommandIsFresh
<1>1. IInv => CommandIsFresh
  BY Constants DEF IInv, FreshInv, SinceSent, DriverType, CommandIsFresh
<1> QED
  BY <1>1, Invariant, PTL

(* Whatever commands go on arriving, robotic control ends one period and one pass after it was
   disabled. *)
THEOREM DisableEnds == Spec => []DisableIsObeyed
<1>1. IInv => DisableIsObeyed
  BY Constants DEF IInv, ObeyInv, SinceSent, DriverType, DisableIsObeyed
<1> QED
  BY <1>1, Invariant, PTL
=============================================================================
