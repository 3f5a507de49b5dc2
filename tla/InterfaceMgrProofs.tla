-------------------------- MODULE InterfaceMgrProofs --------------------------
(***************************************************************************)
(* Proofs about InterfaceMgr, for any drivers, of any categories, and any  *)
(* number of messages and changes of status.                               *)
(***************************************************************************)
EXTENDS InterfaceMgr, FiniteSetTheorems, TLAPS

(* The parts of TypeOK: drivers and topic, listener and list, and the manager itself. *)
TopicType ==
    /\ status \in [Driver -> Status] /\ alive \in [Driver -> BOOLEAN] /\ changes \in 0 .. MaxChanges
    /\ inbox \in [Driver -> Seq(Status)] /\ \A d \in Driver : Len(inbox[d]) <= MaxQueue

ListenerType ==
    /\ pc \in {"idle", "new", "newCall", "changed", "changedCall", "bind", "timer", "lost"}
    /\ pc = "idle" => msg = <<>>
    /\ pc # "idle" => msg \in Driver \X Status
    /\ drivers \in [Driver -> Status \cup {"none"}] /\ caps \subseteq Known

ManagerType ==
    /\ positionReady \in BOOLEAN /\ lonControllerReady \in BOOLEAN
    /\ systemOperational \in BOOLEAN /\ recent \in BOOLEAN
    /\ waited \in 0 .. WaitTime + 1 /\ loop \in {"run", "ready", "cancelled"}
    /\ node \in {"up", "closing", "down"}
    /\ alerts \subseteq {"NOT_READY", "DRIVERS_READY", "WARNING", "FATAL"}

(* The driver that the listener binds to, or whose change it handles, is in the list. *)
HandlesKnown == pc \in {"bind", "timer", "changed", "changedCall", "lost"} => name \in Known

(* An essential driver of the list is usable unless its loss is being announced, or was. *)
LostIsHandled ==
    node = "up" /\ pc # "lost" =>
        \A d \in Known \cap (Position \cup LonController) : drivers[d] \notin Unavailable

(* The flags of isSystemReady are never cleared, and neither is a driver removed. *)
ReadyInv ==
    /\ positionReady => Known \cap Position # {}
    /\ lonControllerReady => Known \cap LonController # {}
    /\ systemOperational => positionReady /\ lonControllerReady

(* The main loop decides once, and looks for the robot topic only before that. *)
RobotInv == (systemOperational => loop # "run") /\ robotListenerCreated = FALSE

IInv == /\ TopicType /\ ListenerType /\ ManagerType
        /\ HandlesKnown /\ LostIsHandled /\ ReadyInv /\ RobotInv

(* What the assumption says of each constant. *)
LEMMA Constants ==
    /\ Position \subseteq Driver /\ LonController \subseteq Driver /\ InitStatus \subseteq Status
    /\ WaitTime \in Nat /\ MaxQueue \in Nat \ {0} /\ MaxChanges \in Nat
BY InterfaceMgrAssumption

(* No driver offers a robot topic before the system is operational. *)
LEMMA NoRobotTopic ==
    ASSUME systemOperational = FALSE
    PROVE  Cardinality(RobotTopics) # 1
<1>1. RobotTopics = {}
  BY DEF RobotTopics
<1> QED
  BY <1>1, FS_EmptySet

(* Taking the first message of a driver. *)
LEMMA HeadTail ==
    ASSUME NEW q \in Seq(Status), q # <<>>
    PROVE  /\ Head(q) \in Status /\ Tail(q) \in Seq(Status)
           /\ Len(Tail(q)) = Len(q) - 1 /\ Len(q) \in Nat
OBVIOUS

-----------------------------------------------------------------------------
(* Every part of the invariant is preserved by every step *)

(* Drivers and messages keep their types. *)
LEMMA TopicStep == IInv /\ [Next]_vars => TopicType'
<1> SUFFICES ASSUME IInv, [Next]_vars
             PROVE  TopicType'
  OBVIOUS
<1> USE Constants DEF IInv, driverVars, listenVars, workerVars, readyVars, nodeVars
<1>1. ASSUME NEW d \in Driver, SetStatus(d)
     PROVE  TopicType'
  BY <1>1 DEF SetStatus, TopicType
<1>2. ASSUME NEW d \in Driver, Die(d)
     PROVE  TopicType'
  BY <1>2 DEF Die, TopicType
<1>3. ASSUME NEW d \in Driver, Publish(d)
     PROVE  TopicType'
  <2>1. Append(inbox[d], status[d]) \in Seq(Status)
        /\ Len(Append(inbox[d], status[d])) = Len(inbox[d]) + 1 /\ Len(inbox[d]) \in Nat
    BY DEF TopicType
  <2> QED
    BY <2>1, <1>3 DEF Publish, TopicType
<1>4. ASSUME NEW d \in Driver, Receive(d)
     PROVE  TopicType'
  <2>1. Tail(inbox[d]) \in Seq(Status) /\ Len(Tail(inbox[d])) = Len(inbox[d]) - 1
        /\ Len(inbox[d]) \in Nat
    BY <1>4, HeadTail DEF Receive, TopicType
  <2> QED
    BY <2>1, <1>4 DEF Receive, TopicType
<1>5. CASE Tick
  BY <1>5 DEF Tick, TopicType
<1>6. CASE TwoMinutes
  BY <1>6 DEF TwoMinutes, TopicType
<1>7. CASE onSystemAlert
  BY <1>7 DEF onSystemAlert, TopicType
<1>8. CASE Shutdown
  BY <1>8 DEF Shutdown, TopicType
<1>9. CASE FindService
  BY <1>9 DEF FindService, TopicType
<1>10. CASE Changed
  BY <1>10 DEF Changed, Done, TopicType
<1>11. CASE LostDriver
  BY <1>11 DEF LostDriver, errorShutdown, Done, TopicType
<1>12. CASE NewDriver
  BY <1>12 DEF NewDriver, Done, TopicType
<1>13. CASE Bound
  BY <1>13 DEF Bound, TopicType
<1>14. CASE RestartTimer
  BY <1>14 DEF RestartTimer, Done, TopicType
<1>15. CASE GetDrivers
  BY <1>15 DEF GetDrivers, handleException, TopicType
<1>16. CASE Loop
  BY <1>16 DEF Loop, errorShutdown, TopicType
<1>17. CASE AnnounceReady
  BY <1>17 DEF AnnounceReady, TopicType
<1>18. CASE UNCHANGED vars
  BY <1>18 DEF vars, TopicType
<1> QED
  BY <1>1, <1>2, <1>3, <1>4, <1>5, <1>6, <1>7, <1>8, <1>9, <1>10, <1>11, <1>12, <1>13, <1>14,
     <1>15, <1>16, <1>17, <1>18
  DEF Next, Listener, MainLoop

(* The listener has a message exactly while it is busy. *)
LEMMA ListenerStep == IInv /\ [Next]_vars => ListenerType'
<1> SUFFICES ASSUME IInv, [Next]_vars
             PROVE  ListenerType'
  OBVIOUS
<1> USE Constants DEF IInv, driverVars, listenVars, workerVars, readyVars, nodeVars
<1>1. ASSUME NEW d \in Driver, SetStatus(d)
     PROVE  ListenerType'
  BY <1>1 DEF SetStatus, ListenerType, Known
<1>2. ASSUME NEW d \in Driver, Die(d)
     PROVE  ListenerType'
  BY <1>2 DEF Die, ListenerType, Known
<1>3. ASSUME NEW d \in Driver, Publish(d)
     PROVE  ListenerType'
  BY <1>3 DEF Publish, ListenerType, Known
<1>4. ASSUME NEW d \in Driver, Receive(d)
     PROVE  ListenerType'
  <2>1. Head(inbox[d]) \in Status
    BY <1>4, HeadTail DEF Receive, TopicType
  <2>2. pc' \in {"idle", "new", "changed"}
    BY <1>4 DEF Receive
  <2>3. msg' = IF pc' = "idle" THEN <<>> ELSE <<d, Head(inbox[d])>>
    BY <1>4 DEF Receive
  <2> QED
    BY <2>1, <2>2, <2>3, <1>4 DEF Receive, ListenerType, Known
<1>5. CASE Tick
  BY <1>5 DEF Tick, ListenerType, Known
<1>6. CASE TwoMinutes
  BY <1>6 DEF TwoMinutes, ListenerType, Known
<1>7. CASE onSystemAlert
  BY <1>7 DEF onSystemAlert, ListenerType, Known
<1>8. CASE Shutdown
  BY <1>8 DEF Shutdown, ListenerType, Known
<1>9. CASE FindService
  BY <1>9 DEF FindService, ListenerType, Known
<1>10. CASE Changed
  <2>1. name \in Driver /\ state \in Status
    BY <1>10 DEF Changed, ListenerType, name, state
  <2>2. drivers' \in [Driver -> Status \cup {"none"}] /\ Known' = Known \cup {name}
    BY <2>1, <1>10 DEF Changed, ListenerType, Known, Status
  <2>3. caps' \subseteq Known'
    BY <2>1, <2>2, <1>10 DEF Changed, ListenerType
  <2>4. (pc' = "lost" /\ msg' = msg) \/ (pc' = "idle" /\ msg' = <<>>)
    BY <1>10 DEF Changed, Done
  <2> QED
    BY <2>2, <2>3, <2>4, <1>10 DEF Changed, ListenerType
<1>11. CASE LostDriver
  BY <1>11 DEF LostDriver, errorShutdown, Done, ListenerType, Known
<1>12. CASE NewDriver
  <2>1. name \in Driver /\ state \in Status
    BY <1>12 DEF NewDriver, ListenerType, name, state
  <2>2. CASE Done /\ UNCHANGED <<drivers, caps>>
    BY <2>2 DEF Done, ListenerType, Known
  <2>3. CASE /\ drivers' = [drivers EXCEPT ![name] = state]
             /\ caps' = caps \cup {name} /\ pc' = "bind" /\ UNCHANGED msg
    <3>1. drivers' \in [Driver -> Status \cup {"none"}] /\ Known' = Known \cup {name}
      BY <2>1, <2>3 DEF ListenerType, Known, Status
    <3> QED
      BY <2>3, <3>1, <1>12 DEF NewDriver, ListenerType
  <2> QED
    BY <2>2, <2>3, <1>12 DEF NewDriver
<1>13. CASE Bound
  BY <1>13 DEF Bound, ListenerType, Known
<1>14. CASE RestartTimer
  BY <1>14 DEF RestartTimer, Done, ListenerType, Known
<1>15. CASE GetDrivers
  BY <1>15 DEF GetDrivers, handleException, ListenerType, Known
<1>16. CASE Loop
  BY <1>16 DEF Loop, errorShutdown, ListenerType, Known
<1>17. CASE AnnounceReady
  BY <1>17 DEF AnnounceReady, ListenerType, Known
<1>18. CASE UNCHANGED vars
  BY <1>18 DEF vars, ListenerType, Known
<1> QED
  BY <1>1, <1>2, <1>3, <1>4, <1>5, <1>6, <1>7, <1>8, <1>9, <1>10, <1>11, <1>12, <1>13, <1>14,
     <1>15, <1>16, <1>17, <1>18
  DEF Next, Listener, MainLoop

(* The manager's fields keep their types. *)
LEMMA ManagerStep == IInv /\ [Next]_vars => ManagerType'
<1> SUFFICES ASSUME IInv, [Next]_vars
             PROVE  ManagerType'
  OBVIOUS
<1> USE Constants DEF IInv, driverVars, listenVars, workerVars, readyVars, nodeVars
<1>1. ASSUME NEW d \in Driver, SetStatus(d)
     PROVE  ManagerType'
  BY <1>1 DEF SetStatus, ManagerType
<1>2. ASSUME NEW d \in Driver, Die(d)
     PROVE  ManagerType'
  BY <1>2 DEF Die, ManagerType
<1>3. ASSUME NEW d \in Driver, Publish(d)
     PROVE  ManagerType'
  BY <1>3 DEF Publish, ManagerType
<1>4. ASSUME NEW d \in Driver, Receive(d)
     PROVE  ManagerType'
  BY <1>4 DEF Receive, ManagerType
<1>5. CASE Tick
  BY <1>5 DEF Tick, ManagerType
<1>6. CASE TwoMinutes
  BY <1>6 DEF TwoMinutes, ManagerType
<1>7. CASE onSystemAlert
  BY <1>7 DEF onSystemAlert, ManagerType
<1>8. CASE Shutdown
  BY <1>8 DEF Shutdown, ManagerType
<1>9. CASE FindService
  BY <1>9 DEF FindService, ManagerType
<1>10. CASE Changed
  BY <1>10 DEF Changed, Done, ManagerType
<1>11. CASE LostDriver
  BY <1>11 DEF LostDriver, errorShutdown, Done, ManagerType
<1>12. CASE NewDriver
  BY <1>12 DEF NewDriver, Done, ManagerType
<1>13. CASE Bound
  BY <1>13 DEF Bound, ManagerType
<1>14. CASE RestartTimer
  BY <1>14 DEF RestartTimer, Done, ManagerType
<1>15. CASE GetDrivers
  BY <1>15 DEF GetDrivers, handleException, ManagerType
<1>16. CASE Loop
  BY <1>16 DEF Loop, errorShutdown, ManagerType
<1>17. CASE AnnounceReady
  BY <1>17 DEF AnnounceReady, ManagerType
<1>18. CASE UNCHANGED vars
  BY <1>18 DEF vars, ManagerType
<1> QED
  BY <1>1, <1>2, <1>3, <1>4, <1>5, <1>6, <1>7, <1>8, <1>9, <1>10, <1>11, <1>12, <1>13, <1>14,
     <1>15, <1>16, <1>17, <1>18
  DEF Next, Listener, MainLoop

(* The list only grows. *)
LEMMA HandlesStep == IInv /\ [Next]_vars => HandlesKnown'
<1> SUFFICES ASSUME IInv, [Next]_vars
             PROVE  HandlesKnown'
  OBVIOUS
<1> USE Constants DEF IInv, driverVars, listenVars, workerVars, readyVars, nodeVars
<1>1. ASSUME NEW d \in Driver, SetStatus(d)
     PROVE  HandlesKnown'
  BY <1>1 DEF SetStatus, HandlesKnown, Known, name
<1>2. ASSUME NEW d \in Driver, Die(d)
     PROVE  HandlesKnown'
  BY <1>2 DEF Die, HandlesKnown, Known, name
<1>3. ASSUME NEW d \in Driver, Publish(d)
     PROVE  HandlesKnown'
  BY <1>3 DEF Publish, HandlesKnown, Known, name
<1>4. ASSUME NEW d \in Driver, Receive(d)
     PROVE  HandlesKnown'
  <2>1. pc' = "changed" => d \in Known /\ msg' = <<d, Head(inbox[d])>>
    BY <1>4 DEF Receive
  <2>2. pc' \in {"idle", "new", "changed"} /\ drivers' = drivers
    BY <1>4 DEF Receive
  <2> QED
    BY <2>1, <2>2 DEF HandlesKnown, Known, name
<1>5. CASE Tick
  BY <1>5 DEF Tick, HandlesKnown, Known, name
<1>6. CASE TwoMinutes
  BY <1>6 DEF TwoMinutes, HandlesKnown, Known, name
<1>7. CASE onSystemAlert
  BY <1>7 DEF onSystemAlert, HandlesKnown, Known, name
<1>8. CASE Shutdown
  BY <1>8 DEF Shutdown, HandlesKnown, Known, name
<1>9. CASE FindService
  BY <1>9 DEF FindService, HandlesKnown, Known, name
<1>10. CASE Changed
  <2>1. name \in Driver /\ state \in Status
    BY <1>10 DEF Changed, ListenerType, name, state
  <2>2. Known' = Known \cup {name}
    BY <2>1, <1>10 DEF Changed, ListenerType, Known, Status
  <2>3. (pc' = "lost" /\ name' = name) \/ pc' = "idle"
    BY <1>10 DEF Changed, Done, name
  <2> QED
    BY <2>1, <2>2, <2>3 DEF HandlesKnown
<1>11. CASE LostDriver
  BY <1>11 DEF LostDriver, errorShutdown, Done, HandlesKnown, Known, name
<1>12. CASE NewDriver
  <2>1. name \in Driver /\ state \in Status
    BY <1>12 DEF NewDriver, ListenerType, name, state
  <2>2. CASE Done /\ UNCHANGED <<drivers, caps>>
    BY <2>2 DEF Done, HandlesKnown
  <2>3. CASE drivers' = [drivers EXCEPT ![name] = state] /\ UNCHANGED msg
    BY <2>1, <2>3 DEF HandlesKnown, ListenerType, Known, Status, name, state
  <2> QED
    BY <2>2, <2>3, <1>12 DEF NewDriver
<1>13. CASE Bound
  BY <1>13 DEF Bound, HandlesKnown, Known, name
<1>14. CASE RestartTimer
  BY <1>14 DEF RestartTimer, Done, HandlesKnown, Known, name
<1>15. CASE GetDrivers
  BY <1>15 DEF GetDrivers, handleException, HandlesKnown, Known, name
<1>16. CASE Loop
  BY <1>16 DEF Loop, errorShutdown, HandlesKnown, Known, name
<1>17. CASE AnnounceReady
  BY <1>17 DEF AnnounceReady, HandlesKnown, Known, name
<1>18. CASE UNCHANGED vars
  BY <1>18 DEF vars, HandlesKnown, Known, name
<1> QED
  BY <1>1, <1>2, <1>3, <1>4, <1>5, <1>6, <1>7, <1>8, <1>9, <1>10, <1>11, <1>12, <1>13, <1>14,
     <1>15, <1>16, <1>17, <1>18
  DEF Next, Listener, MainLoop

(* A driver that becomes unusable is handled before anything else. *)
LEMMA LostStep == IInv /\ [Next]_vars => LostIsHandled'
<1> SUFFICES ASSUME IInv, [Next]_vars
             PROVE  LostIsHandled'
  OBVIOUS
<1> USE Constants DEF IInv, driverVars, listenVars, workerVars, readyVars, nodeVars
<1>1. ASSUME NEW d \in Driver, SetStatus(d)
     PROVE  LostIsHandled'
  BY <1>1 DEF SetStatus, LostIsHandled, Known
<1>2. ASSUME NEW d \in Driver, Die(d)
     PROVE  LostIsHandled'
  BY <1>2 DEF Die, LostIsHandled, Known
<1>3. ASSUME NEW d \in Driver, Publish(d)
     PROVE  LostIsHandled'
  BY <1>3 DEF Publish, LostIsHandled, Known
<1>4. ASSUME NEW d \in Driver, Receive(d)
     PROVE  LostIsHandled'
  <2>1. pc' \in {"idle", "new", "changed"} /\ pc = "idle" /\ UNCHANGED <<node, drivers>>
    BY <1>4 DEF Receive
  <2> QED
    BY <2>1 DEF LostIsHandled, Known
<1>5. CASE Tick
  BY <1>5 DEF Tick, LostIsHandled, Known
<1>6. CASE TwoMinutes
  BY <1>6 DEF TwoMinutes, LostIsHandled, Known
<1>7. CASE onSystemAlert
  BY <1>7 DEF onSystemAlert, LostIsHandled, Known
<1>8. CASE Shutdown
  BY <1>8 DEF Shutdown, LostIsHandled, Known
<1>9. CASE FindService
  BY <1>9 DEF FindService, LostIsHandled, Known
<1>10. CASE Changed
  <2>1. name \in Driver /\ state \in Status
    BY <1>10 DEF Changed, ListenerType, name, state
  <2>2. drivers' = [drivers EXCEPT ![name] = state] /\ node' = node /\ pc \in {"changed", "changedCall"}
    BY <1>10 DEF Changed
  <2>3. pc' = "lost" \/ name \notin Position \cup LonController \/ state \notin Unavailable
    BY <1>10 DEF Changed, Lost
  <2> QED
    BY <2>1, <2>2, <2>3 DEF LostIsHandled, ListenerType, Known
<1>11. CASE LostDriver
  BY <1>11 DEF LostDriver, errorShutdown, Done, LostIsHandled, Known
<1>12. CASE NewDriver
  <2>1. name \in Driver /\ state \in Status
    BY <1>12 DEF NewDriver, ListenerType, name, state
  <2>2. CASE Done /\ UNCHANGED <<drivers, caps>>
    BY <2>2, <1>12 DEF NewDriver, Done, LostIsHandled, Known
  <2>3. CASE drivers' = [drivers EXCEPT ![name] = state] /\ state \in {"OPERATIONAL", "DEGRADED"}
    BY <2>1, <2>3, <1>12 DEF NewDriver, LostIsHandled, ListenerType, Known, Unavailable
  <2> QED
    BY <2>2, <2>3, <1>12 DEF NewDriver
<1>13. CASE Bound
  BY <1>13 DEF Bound, LostIsHandled, Known
<1>14. CASE RestartTimer
  BY <1>14 DEF RestartTimer, Done, LostIsHandled, Known
<1>15. CASE GetDrivers
  BY <1>15 DEF GetDrivers, handleException, LostIsHandled, Known
<1>16. CASE Loop
  BY <1>16 DEF Loop, errorShutdown, LostIsHandled, Known
<1>17. CASE AnnounceReady
  BY <1>17 DEF AnnounceReady, LostIsHandled, Known
<1>18. CASE UNCHANGED vars
  BY <1>18 DEF vars, LostIsHandled, Known
<1> QED
  BY <1>1, <1>2, <1>3, <1>4, <1>5, <1>6, <1>7, <1>8, <1>9, <1>10, <1>11, <1>12, <1>13, <1>14,
     <1>15, <1>16, <1>17, <1>18
  DEF Next, Listener, MainLoop

(* A category that was ready once has a driver in the list. *)
LEMMA ReadyStep == IInv /\ [Next]_vars => ReadyInv'
<1> SUFFICES ASSUME IInv, [Next]_vars
             PROVE  ReadyInv'
  OBVIOUS
<1> USE Constants DEF IInv, driverVars, listenVars, workerVars, readyVars, nodeVars
<1>1. ASSUME NEW d \in Driver, SetStatus(d)
     PROVE  ReadyInv'
  BY <1>1 DEF SetStatus, ReadyInv, Known
<1>2. ASSUME NEW d \in Driver, Die(d)
     PROVE  ReadyInv'
  BY <1>2 DEF Die, ReadyInv, Known
<1>3. ASSUME NEW d \in Driver, Publish(d)
     PROVE  ReadyInv'
  BY <1>3 DEF Publish, ReadyInv, Known
<1>4. ASSUME NEW d \in Driver, Receive(d)
     PROVE  ReadyInv'
  BY <1>4 DEF Receive, ReadyInv, Known
<1>5. CASE Tick
  BY <1>5 DEF Tick, ReadyInv, Known
<1>6. CASE TwoMinutes
  BY <1>6 DEF TwoMinutes, ReadyInv, Known
<1>7. CASE onSystemAlert
  BY <1>7 DEF onSystemAlert, ReadyInv, Known
<1>8. CASE Shutdown
  BY <1>8 DEF Shutdown, ReadyInv, Known
<1>9. CASE FindService
  BY <1>9 DEF FindService, ReadyInv, Known
<1>10. CASE Changed
  <2>1. name \in Driver /\ state \in Status
    BY <1>10 DEF Changed, ListenerType, name, state
  <2>2. Known \subseteq Known'
    BY <2>1, <1>10 DEF Changed, ListenerType, Known, Status
  <2> QED
    BY <2>2, <1>10 DEF Changed, ReadyInv
<1>11. CASE LostDriver
  BY <1>11 DEF LostDriver, errorShutdown, Done, ReadyInv, Known
<1>12. CASE NewDriver
  <2>1. name \in Driver /\ state \in Status
    BY <1>12 DEF NewDriver, ListenerType, name, state
  <2>2. Known \subseteq Known'
    BY <2>1, <1>12 DEF NewDriver, ListenerType, Known, Status
  <2> QED
    BY <2>2, <1>12 DEF NewDriver, ReadyInv
<1>13. CASE Bound
  <2>1. name \in Known /\ Known' = Known
    BY <1>13 DEF Bound, HandlesKnown, Known
  <2>2. /\ positionReady' = (positionReady \/ name \in Position)
        /\ lonControllerReady' = (lonControllerReady \/ name \in LonController \ Position)
        /\ systemOperational' = systemOperational
    BY <1>13 DEF Bound
  <2> QED
    BY <2>1, <2>2 DEF ReadyInv
<1>14. CASE RestartTimer
  BY <1>14 DEF RestartTimer, Done, ReadyInv, Known
<1>15. CASE GetDrivers
  BY <1>15 DEF GetDrivers, handleException, ReadyInv, Known
<1>16. CASE Loop
  BY <1>16 DEF Loop, errorShutdown, ReadyInv, Known
<1>17. CASE AnnounceReady
  BY <1>17 DEF AnnounceReady, ReadyInv, Known
<1>18. CASE UNCHANGED vars
  BY <1>18 DEF vars, ReadyInv, Known
<1> QED
  BY <1>1, <1>2, <1>3, <1>4, <1>5, <1>6, <1>7, <1>8, <1>9, <1>10, <1>11, <1>12, <1>13, <1>14,
     <1>15, <1>16, <1>17, <1>18
  DEF Next, Listener, MainLoop

(* The main loop is over when the system is operational. *)
LEMMA RobotStep == IInv /\ [Next]_vars => RobotInv'
<1> SUFFICES ASSUME IInv, [Next]_vars
             PROVE  RobotInv'
  OBVIOUS
<1> USE Constants DEF IInv, driverVars, listenVars, workerVars, readyVars, nodeVars
<1>1. ASSUME NEW d \in Driver, SetStatus(d)
     PROVE  RobotInv'
  BY <1>1 DEF SetStatus, RobotInv
<1>2. ASSUME NEW d \in Driver, Die(d)
     PROVE  RobotInv'
  BY <1>2 DEF Die, RobotInv
<1>3. ASSUME NEW d \in Driver, Publish(d)
     PROVE  RobotInv'
  BY <1>3 DEF Publish, RobotInv
<1>4. ASSUME NEW d \in Driver, Receive(d)
     PROVE  RobotInv'
  BY <1>4 DEF Receive, RobotInv
<1>5. CASE Tick
  BY <1>5 DEF Tick, RobotInv
<1>6. CASE TwoMinutes
  BY <1>6 DEF TwoMinutes, RobotInv
<1>7. CASE onSystemAlert
  BY <1>7 DEF onSystemAlert, RobotInv
<1>8. CASE Shutdown
  BY <1>8 DEF Shutdown, RobotInv
<1>9. CASE FindService
  BY <1>9 DEF FindService, RobotInv
<1>10. CASE Changed
  BY <1>10 DEF Changed, Done, RobotInv
<1>11. CASE LostDriver
  BY <1>11 DEF LostDriver, errorShutdown, Done, RobotInv
<1>12. CASE NewDriver
  BY <1>12 DEF NewDriver, Done, RobotInv
<1>13. CASE Bound
  BY <1>13 DEF Bound, RobotInv
<1>14. CASE RestartTimer
  BY <1>14 DEF RestartTimer, Done, RobotInv
<1>15. CASE GetDrivers
  BY <1>15 DEF GetDrivers, handleException, RobotInv
<1>16. CASE Loop
  <2>1. systemOperational = FALSE
    BY <1>16 DEF Loop, RobotInv, ManagerType
  <2>2. robotListenerCreated' = FALSE
    BY <2>1, <1>16, NoRobotTopic DEF Loop, RobotInv
  <2> QED
    BY <2>1, <2>2, <1>16 DEF Loop, RobotInv
<1>17. CASE AnnounceReady
  BY <1>17 DEF AnnounceReady, RobotInv
<1>18. CASE UNCHANGED vars
  BY <1>18 DEF vars, RobotInv
<1> QED
  BY <1>1, <1>2, <1>3, <1>4, <1>5, <1>6, <1>7, <1>8, <1>9, <1>10, <1>11, <1>12, <1>13, <1>14,
     <1>15, <1>16, <1>17, <1>18
  DEF Next, Listener, MainLoop

-----------------------------------------------------------------------------
(* The theorems *)

(* In every reachable state all parts of the invariant hold together. *)
THEOREM Invariant == Spec => []IInv
<1>1. Init => IInv
  <2> SUFFICES ASSUME Init
               PROVE  IInv
    OBVIOUS
  <2> USE Constants DEF Init
  <2>1. TopicType
    <3>1. status \in [Driver -> Status]
      OBVIOUS
    <3>2. <<>> \in Seq(Status) /\ Len(<<>>) <= MaxQueue
      OBVIOUS
    <3> QED
      BY <3>1, <3>2 DEF TopicType
  <2>2. Known = {}
    BY DEF Known
  <2>3. ListenerType /\ ManagerType
    <3>1. ListenerType
      BY <2>2 DEF ListenerType
    <3>2. ManagerType
      <4>1. 0 \in 0 .. WaitTime + 1
        OBVIOUS
      <4>2. alerts \subseteq {"NOT_READY", "DRIVERS_READY", "WARNING", "FATAL"}
        OBVIOUS
      <4> QED
        BY <4>1, <4>2 DEF ManagerType
    <3> QED
      BY <3>1, <3>2
  <2>4. HandlesKnown /\ LostIsHandled /\ ReadyInv /\ RobotInv
    BY <2>2 DEF HandlesKnown, LostIsHandled, ReadyInv, RobotInv
  <2> QED
    BY <2>1, <2>3, <2>4 DEF IInv
<1>2. IInv /\ [Next]_vars => IInv'
  BY TopicStep, ListenerStep, ManagerStep, HandlesStep, LostStep, ReadyStep, RobotStep DEF IInv
<1> QED
  BY <1>1, <1>2, PTL DEF Spec

(* The fields have their types; the listener has a message exactly while it is busy, and a driver
   with capabilities is in the list. *)
THEOREM ManagerTypeCorrect == Spec => []TypeOK
<1>1. IInv => TypeOK
  <2> SUFFICES ASSUME IInv
               PROVE  TypeOK
    OBVIOUS
  <2>1. msg \in (Driver \X Status) \cup {<<>>} /\ (pc = "idle" <=> msg = <<>>)
    <3>1. \A m \in Driver \X Status : m # <<>>
      OBVIOUS
    <3> QED
      BY <3>1 DEF IInv, ListenerType
  <2>2. {positionReady, lonControllerReady, systemOperational, recent, robotListenerCreated}
           \subseteq BOOLEAN
    BY DEF IInv, ManagerType, RobotInv
  <2> QED
    BY <2>1, <2>2 DEF IInv, TypeOK, TopicType, ListenerType, ManagerType
<1> QED
  BY <1>1, Invariant, PTL

(* However the listener, the main loop and the services interleave, an operational system has a
   usable driver of each essential category, until the loss of one is announced. *)
THEOREM OperationalHasDrivers == Spec => []EssentialDriversWork
<1>1. IInv => EssentialDriversWork
  BY DEF IInv, EssentialDriversWork, LostIsHandled, ReadyInv
<1> QED
  BY <1>1, Invariant, PTL

(* The listener of the robot topic is never made, whatever drivers there are: checkRobotTopic asks
   getDrivers, which returns nothing before the system is operational, and the main loop that
   calls it is over from then on. *)
THEOREM RobotTopicNeverFound == Spec => [](robotListenerCreated = FALSE)
<1>1. IInv => robotListenerCreated = FALSE
  BY DEF IInv, RobotInv
<1> QED
  BY <1>1, Invariant, PTL
=============================================================================
