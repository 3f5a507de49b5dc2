--------------------- MODULE GuidanceStateMachineProofs ---------------------
(***************************************************************************)
(* Proofs about GuidanceStateMachine, for every set of components, every   *)
(* choice of the components that fail and every queue bound.               *)
(***************************************************************************)
EXTENDS GuidanceStateMachine, TLAPS

-----------------------------------------------------------------------------
(* The operators of the model *)

(* Every job stands for a guidance state. *)
LEMMA TargetType == Target \in [Job -> State]
BY DEF Target, Job, Action, State

(* Every state has a set of successors, all of them states. *)
LEMMA SuccessorType == Life!Successor \in [State -> SUBSET State]
BY DEF Life!Successor, Life!State, State

(* The switch of processEvent: whatever the event, a change of state is one that
   the life cycle allows. *)
LEMMA ActionIsLegal ==
    ASSUME NEW s \in State, NEW e \in Event,
           ActionOf(s, e) \in Action, Target[ActionOf(s, e)] # s
    PROVE  Target[ActionOf(s, e)] \in Life!Successor[s]
<1>1. CASE e = "PANIC"
  BY <1>1 DEF ActionOf, Target, Job, Action, State, Life!Successor, Life!State
<1>2. CASE e = "SHUTDOWN"
  BY <1>2 DEF ActionOf, Target, Job, Action, State, Life!Successor, Life!State
<1>3. CASE e \notin {"PANIC", "SHUTDOWN"}
  <2>1. ActionOf(s, e) = Switch(s, e)
    BY <1>3 DEF ActionOf
  <2> QED
    BY <2>1, <1>3 DEF Switch, Leaving, Event, Target, Job, Action, State,
                      Life!Successor, Life!State
<1> QED
  BY <1>1, <1>2, <1>3

(* ENGAGED is entered by START_ROUTE alone, and ROBOT_DISABLED always leaves it. *)
LEMMA EngagedByStart ==
    ASSUME NEW s \in State, NEW e \in Event,
           ActionOf(s, e) \in Action, Target[ActionOf(s, e)] = "ENGAGED"
    PROVE  e = "START_ROUTE"
BY DEF ActionOf, Switch, Leaving, Event, Target, Job, Action, State

(* A disabled robot takes Guidance from ENGAGED to INACTIVE. *)
LEMMA DisabledLeavesEngaged ==
    /\ ActionOf("ENGAGED", "ROBOT_DISABLED") = "DEACTIVATE"
    /\ Target["DEACTIVATE"] = "INACTIVE"
BY DEF ActionOf, Switch, Leaving, Target, Job, Action

-----------------------------------------------------------------------------
(* Job queues *)

(* Consecutive jobs of q follow each other in the life cycle. *)
Legal(q) == \A i \in 1 .. Len(q) - 1 :
                Target[q[i + 1]] \in Life!Successor[Target[q[i]]]

(* A queue stays legal when a job is appended that may follow its last one. *)
LEMMA AppendLegal ==
    ASSUME NEW q \in Seq(Job), NEW a \in Job, Legal(q),
           q # <<>> => Target[a] \in Life!Successor[Target[q[Len(q)]]]
    PROVE  /\ Append(q, a) \in Seq(Job)
           /\ Legal(Append(q, a))
           /\ Append(q, a) # <<>>
           /\ Append(q, a)[Len(Append(q, a))] = a
           /\ Append(q, a)[1] = IF q = <<>> THEN a ELSE q[1]
<1>1. /\ Append(q, a) \in Seq(Job)
      /\ Len(Append(q, a)) = Len(q) + 1
      /\ Append(q, a)[Len(q) + 1] = a
      /\ \A i \in 1 .. Len(q) : Append(q, a)[i] = q[i]
  OBVIOUS
<1>2. Len(q) \in Nat /\ (q # <<>> => Len(q) > 0) /\ (q = <<>> => Len(q) = 0)
  OBVIOUS
<1>3. Legal(Append(q, a))
  <2> SUFFICES ASSUME NEW i \in 1 .. Len(Append(q, a)) - 1
               PROVE  Target[Append(q, a)[i + 1]] \in Life!Successor[Target[Append(q, a)[i]]]
    BY DEF Legal
  <2>1. CASE i = Len(q)
    BY <1>1, <1>2, <2>1
  <2>2. CASE i # Len(q)
    <3>1. i \in 1 .. Len(q) - 1
      BY <1>1, <1>2, <2>2
    <3> QED
      BY <1>1, <1>2, <3>1 DEF Legal
  <2> QED
    BY <2>1, <2>2
<1>4. Append(q, a)[1] = IF q = <<>> THEN a ELSE q[1]
  <2>1. CASE q = <<>>
    BY <1>1, <1>2, <2>1
  <2>2. CASE q # <<>>
    <3>1. 1 \in 1 .. Len(q)
      BY <1>2, <2>2
    <3> QED
      BY <1>1, <3>1, <2>2
  <2> QED
    BY <2>1, <2>2
<1>5. Append(q, a) # <<>>
  BY <1>1, <1>2
<1> QED
  BY <1>1, <1>3, <1>4, <1>5

(* What is left of a queue when its first job has been taken. *)
LEMMA TailLegal ==
    ASSUME NEW q \in Seq(Job), q # <<>>, Legal(q)
    PROVE  /\ Head(q) = q[1] /\ Head(q) \in Job
           /\ q[Len(q)] \in Job
           /\ Tail(q) \in Seq(Job)
           /\ Legal(Tail(q))
           /\ Tail(q) = <<>> => q[Len(q)] = q[1]
           /\ Tail(q) # <<>> =>
                 /\ Tail(q)[Len(Tail(q))] = q[Len(q)]
                 /\ Target[Tail(q)[1]] \in Life!Successor[Target[q[1]]]
<1>1. /\ Len(q) \in Nat /\ Len(q) > 0
      /\ Head(q) = q[1] /\ q[1] \in Job /\ q[Len(q)] \in Job
      /\ Tail(q) \in Seq(Job)
      /\ Len(Tail(q)) = Len(q) - 1
      /\ \A i \in 1 .. Len(q) - 1 : Tail(q)[i] = q[i + 1]
  OBVIOUS
<1>2. Legal(Tail(q))
  <2> SUFFICES ASSUME NEW i \in 1 .. Len(Tail(q)) - 1
               PROVE  Target[Tail(q)[i + 1]] \in Life!Successor[Target[Tail(q)[i]]]
    BY DEF Legal
  <2>1. i \in 1 .. Len(q) - 1 /\ i + 1 \in 1 .. Len(q) - 1
    BY <1>1
  <2>2. Tail(q)[i] = q[i + 1] /\ Tail(q)[i + 1] = q[(i + 1) + 1]
    BY <1>1, <2>1
  <2> QED
    BY <2>1, <2>2 DEF Legal
<1>3. Tail(q) = <<>> => q[Len(q)] = q[1]
  BY <1>1
<1>4. ASSUME Tail(q) # <<>>
      PROVE  /\ Tail(q)[Len(Tail(q))] = q[Len(q)]
             /\ Target[Tail(q)[1]] \in Life!Successor[Target[q[1]]]
  <2>1. Len(q) > 1
    BY <1>1, <1>4
  <2>2. Tail(q)[1] = q[2] /\ Tail(q)[Len(Tail(q))] = q[Len(q)]
    BY <1>1, <2>1
  <2>3. 1 \in 1 .. Len(q) - 1 /\ 1 + 1 = 2
    BY <1>1, <2>1
  <2>4. Target[q[2]] \in Life!Successor[Target[q[1]]]
    BY <2>3 DEF Legal
  <2> QED
    BY <2>2, <2>4
<1> QED
  BY <1>1, <1>2, <1>3, <1>4

-----------------------------------------------------------------------------
(* Type correctness *)

(* The machine's part of a call of processEvent: nothing, or a legal change that
   is to be announced to every component. *)
Announce ==
    /\ toNotify = {} /\ toNotify' = Component
    /\ action' \in Action /\ Target[action'] = guidance_state'
    /\ guidance_state' \in Life!Successor[guidance_state]

(* What a call of processEvent may do to the machine, whatever the event. *)
LEMMA ProcessEvent ==
    ASSUME TypeOK, NEW e \in Event, processEvent(e)
    PROVE  /\ guidance_state' \in State
           /\ action' \in Action \cup {"NONE"}
           /\ toNotify' \in SUBSET Component
           /\ Announce \/ UNCHANGED machineVars
           /\ guidance_state' = "ENGAGED" => guidance_state = "ENGAGED" \/ e = "START_ROUTE"
           /\ e = "ROBOT_DISABLED" => guidance_state' # "ENGAGED"
<1> DEFINE a == ActionOf(guidance_state, e)
<1>0. guidance_state \in State
  BY DEF TypeOK
<1>1. CASE /\ Changes(a)
           /\ action' = a /\ guidance_state' = Target[a] /\ toNotify' = Component
  <2>1. a \in Action /\ a \in Job /\ Target[a] # guidance_state
    BY <1>1 DEF Changes, Job
  <2>2. Target[a] \in Life!Successor[guidance_state]
    BY <1>0, <2>1, ActionIsLegal
  <2>3. Announce
    BY <1>1, <2>1, <2>2 DEF Announce, processEvent, MonitorFree
  <2>4. Target[a] = "ENGAGED" => e = "START_ROUTE"
    BY <1>0, <2>1, EngagedByStart
  <2> QED
    BY <1>1, <2>1, <2>3, <2>4, TargetType
<1>2. CASE ~Changes(a) /\ UNCHANGED machineVars
  <2>1. ASSUME e = "ROBOT_DISABLED" PROVE guidance_state # "ENGAGED"
    <3> SUFFICES ASSUME guidance_state = "ENGAGED" PROVE FALSE
      OBVIOUS
    <3>1. a = "DEACTIVATE" /\ Target[a] = "INACTIVE"
      BY <2>1, DisabledLeavesEngaged
    <3> QED
      BY <1>2, <3>1 DEF Changes, Action
  <2> QED
    BY <1>2, <2>1 DEF machineVars, TypeOK
<1> QED
  BY <1>1, <1>2 DEF processEvent

(* Taking the first job of a queue. *)
LEMMA JobTypes ==
    ASSUME TypeOK, NEW c \in Component, jobQueue[c] # <<>>
    PROVE  /\ Head(jobQueue[c]) \in Job
           /\ Target[Head(jobQueue[c])] \in State
           /\ Tail(jobQueue[c]) \in Seq(Job)
<1>1. jobQueue[c] \in Seq(Job)
  BY DEF TypeOK
<1> QED
  BY <1>1, TargetType

(* Finishing a job keeps the types of queues, copies and threads. *)
LEMMA JobDoneType ==
    ASSUME TypeOK, NEW c \in Component, jobQueue[c] # <<>>,
           NEW after \in ThreadState, JobDone(c, after)
    PROVE  /\ jobQueue' \in [Component -> Seq(Job)]
           /\ currentState' \in [Component -> State]
           /\ thread' \in [Component -> ThreadState]
BY JobTypes DEF JobDone, TypeOK

(* Types alone are not inductive: a component that is still to be called must be
   given a real action, the one that took the machine to its state. *)
Announcing == toNotify # {} => action \in Action /\ Target[action] = guidance_state

TypeInv == TypeOK /\ Announcing

(* The node starts with well-typed fields and nothing to announce. *)
LEMMA InitType == Init => TypeInv
<1> SUFFICES ASSUME Init PROVE TypeInv
  OBVIOUS
<1>1. <<"ONSTARTUP">> \in Seq(Job)
  BY DEF Job
<1> QED
  BY <1>1 DEF Init, TypeInv, Announcing, TypeOK, State, Action, ThreadState

(* Every step of every thread keeps the types and the announced action. *)
LEMMA NextType == TypeInv /\ [Next]_vars => TypeInv'
<1> SUFFICES ASSUME TypeOK, Announcing, [Next]_vars PROVE TypeInv'
  BY DEF TypeInv
<1> USE ComponentAssumption DEF TypeInv
<1>1. ASSUME NEW e \in Event, processEvent(e)
      PROVE  /\ guidance_state' \in State
             /\ action' \in Action \cup {"NONE"}
             /\ toNotify' \in SUBSET Component
             /\ Announcing'
  BY <1>1, ProcessEvent DEF Announce, Announcing, machineVars
<1>2. ASSUME NEW c \in Component, Notify(c) PROVE TypeInv'
  <2>1. action \in Action /\ action \in Job /\ jobQueue[c] \in Seq(Job)
    BY <1>2 DEF Notify, Announcing, TypeOK, Job
  <2>2. Append(jobQueue[c], action) \in Seq(Job)
    BY <2>1
  <2>3. TypeOK'
    BY <1>2, <2>2 DEF Notify, TypeOK, handlerVars, serviceVars
  <2> QED
    BY <1>2, <2>3 DEF Notify, Announcing
<1>3. ASSUME NEW c \in Component, RunJob(c) PROVE TypeInv'
  <2>1. jobQueue[c] # <<>>
    BY <1>3 DEF RunJob, HasJob
  <2>2. \E after \in ThreadState : JobDone(c, after)
    BY <1>3 DEF RunJob, ThreadState
  <2> QED
    BY <1>3, <2>1, <2>2, JobDoneType
    DEF RunJob, TypeOK, Announcing, machineVars, handlerVars, serviceVars
<1>4. ASSUME NEW c \in Component, JobRaises(c) PROVE TypeInv'
  BY <1>4 DEF JobRaises, TypeOK, Announcing, machineVars, handlerVars, serviceVars, ThreadState
<1>5. ASSUME NEW c \in Component, JobThrows(c) PROVE TypeInv'
  <2>1. jobQueue[c] # <<>>
    BY <1>5 DEF JobThrows
  <2>2. jobQueue' \in [Component -> Seq(Job)]
    BY <1>5, <2>1, JobTypes DEF JobThrows, TypeOK
  <2>3. currentState' \in [Component -> State]
    BY <1>5, <2>1, JobTypes DEF JobThrows, TypeOK
  <2>4. thread' \in [Component -> ThreadState]
    BY <1>5 DEF JobThrows, TypeOK, ThreadState
  <2> QED
    BY <1>5, <2>2, <2>3, <2>4
    DEF JobThrows, TypeOK, Announcing, machineVars, handlerVars, serviceVars
<1>6. ASSUME NEW c \in Component, handleException(c) PROVE TypeInv'
  <2>1. "PANIC" \in Event
    BY DEF Event
  <2> QED
    BY <1>1, <1>6, <2>1
    DEF handleException, TypeOK, handlerVars, serviceVars, ThreadState
<1>7. CASE Handler
  <2> DEFINE J == jobQueue[StateHandler] # <<>>
  <2>1. CASE HandlerStartup
    <3>1. J /\ JobDone(StateHandler, "running") /\ "running" \in ThreadState
      BY <2>1 DEF HandlerStartup, HasJob, ThreadState
    <3> QED
      BY <2>1, <3>1, JobDoneType
      DEF HandlerStartup, TypeOK, Announcing, machineVars, serviceVars
  <2>2. CASE HandlerSystemReady
    <3>1. J /\ JobDone(StateHandler, "running") /\ "running" \in ThreadState
      BY <2>2 DEF HandlerSystemReady, HasJob, ThreadState
    <3> QED
      BY <2>2, <3>1, JobDoneType
      DEF HandlerSystemReady, TypeOK, Announcing, machineVars, serviceVars
  <2>3. CASE HandlerFollow
    <3>1. J /\ JobDone(StateHandler, "running") /\ "running" \in ThreadState
      BY <2>3 DEF HandlerFollow, HasJob, ThreadState
    <3> QED
      BY <2>3, <3>1, JobDoneType
      DEF HandlerFollow, TypeOK, Announcing, machineVars, handlerVars, serviceVars
  <2>4. CASE HandlerShutdown
    <3>1. J /\ JobDone(StateHandler, "sleeping") /\ "sleeping" \in ThreadState
      BY <2>4 DEF HandlerShutdown, HasJob, ThreadState
    <3> QED
      BY <2>4, <3>1, JobDoneType
      DEF HandlerShutdown, TypeOK, Announcing, machineVars, handlerVars, serviceVars
  <2>5. CASE HandlerKill
    BY <2>5 DEF HandlerKill, TypeOK, Announcing, machineVars, handlerVars, serviceVars,
                ThreadState
  <2>6. CASE HandlerPanic
    <3>1. J /\ JobDone(StateHandler, "stopped") /\ "stopped" \in ThreadState
      BY <2>6 DEF HandlerPanic, HasJob, ThreadState
    <3> QED
      BY <2>6, <3>1, JobDoneType
      DEF HandlerPanic, TypeOK, Announcing, machineVars, handlerVars, serviceVars
  <2> QED
    BY <1>7, <2>1, <2>2, <2>3, <2>4, <2>5, <2>6 DEF Handler
<1>8. CASE Environment
  <2>1. CASE SystemAlertMsg
    <3>1. \E e \in Event : processEvent(e)
      BY <2>1 DEF SystemAlertMsg, Event
    <3> QED
      BY <1>1, <2>1, <3>1 DEF SystemAlertMsg, TypeOK, queueVars, handlerVars, serviceVars
  <2>2. CASE RouteEventMsg
    <3>1. \E e \in Event : processEvent(e)
      BY <2>2 DEF RouteEventMsg, Event
    <3> QED
      BY <1>1, <2>2, <3>1 DEF RouteEventMsg, TypeOK, queueVars, handlerVars, serviceVars
  <2>3. CASE OtherThreadPanics
    <3>1. \E e \in Event : processEvent(e)
      BY <2>3 DEF OtherThreadPanics, Event
    <3> QED
      BY <1>1, <2>3, <3>1 DEF OtherThreadPanics, TypeOK, queueVars, handlerVars, serviceVars
  <2>4. ASSUME NEW b \in BOOLEAN, RobotStatusMsg(b) PROVE TypeInv'
    <3>1. \E e \in Event : processEvent(e)
      BY <2>4 DEF RobotStatusMsg, Event
    <3>2. robotEdge' \in {"none", "on", "off"}
      BY <2>4 DEF RobotStatusMsg
    <3> QED
      BY <1>1, <2>4, <3>1, <3>2 DEF RobotStatusMsg, TypeOK, queueVars, serviceVars
  <2>5. CASE ActivateCheck
    BY <2>5 DEF ActivateCheck, TypeOK, Announcing, machineVars, queueVars, handlerVars
  <2>6. CASE DeactivateRequest
    <3>1. \E e \in Event : processEvent(e)
      BY <2>6 DEF DeactivateRequest, Event
    <3> QED
      BY <1>1, <2>6, <3>1 DEF DeactivateRequest, TypeOK, queueVars, handlerVars
  <2> QED
    BY <1>8, <2>1, <2>2, <2>3, <2>4, <2>5, <2>6 DEF Environment
<1>9. CASE Service
  <2>1. CASE ActivatePost
    <3>1. \E e \in Event : processEvent(e)
      BY <2>1 DEF ActivatePost, Event
    <3>2. request' \in {"idle", "checked", "accepted", "ignored"}
      BY <2>1 DEF ActivatePost
    <3> QED
      BY <1>1, <2>1, <3>1, <3>2 DEF ActivatePost, TypeOK, queueVars, handlerVars
  <2>2. CASE ActivateAnswer
    <3>1. answer' \in BOOLEAN
      BY <2>2 DEF ActivateAnswer
    <3> QED
      BY <2>2, <3>1 DEF ActivateAnswer, TypeOK, Announcing, machineVars, queueVars, handlerVars
  <2>3. CASE RobotStatusSet
    <3>1. robotStatus' \in BOOLEAN
      BY <2>3 DEF RobotStatusSet
    <3> QED
      BY <2>3, <3>1 DEF RobotStatusSet, TypeOK, Announcing, machineVars, queueVars, serviceVars
  <2> QED
    BY <1>9, <2>1, <2>2, <2>3 DEF Service
<1>10. CASE UNCHANGED vars
  BY <1>10 DEF vars, TypeOK, Announcing, machineVars, queueVars, handlerVars, serviceVars
<1> QED
  BY <1>2, <1>3, <1>4, <1>5, <1>6, <1>7, <1>8, <1>9, <1>10 DEF Next

(* Every variable keeps its type, whatever threads, messages and failures do. *)
THEOREM TypeCorrect == Spec => []TypeOK
<1>1. TypeInv => TypeOK
  BY DEF TypeInv
<1> QED
  BY <1>1, InitType, NextType, PTL DEF Spec

-----------------------------------------------------------------------------
(* The hand-over from the state machine to the components *)

(* The inductive invariant.  QueuesLeadToMachine speaks of the last job and
   QueuesAreLegal of neighbours; what joins them to the component's own copy of
   the state is the first job, which leads on from that copy (or, for onStartup,
   stays there).  A thread that died may still be given jobs, so the tail of its
   queue has to be known as well. *)
Leads(c) ==
    IF c \in toNotify THEN guidance_state \in Life!Successor[Pending(c)]
    ELSE Pending(c) = guidance_state

Starts(c) == Target[jobQueue[c][1]] \in Life!Successor[currentState[c]] \cup {currentState[c]}

QueueOK(c) ==
    /\ Legal(jobQueue[c])
    /\ Alive(c) \/ jobQueue[c] # <<>> => Leads(c)
    /\ Alive(c) /\ jobQueue[c] # <<>> => Starts(c)

(* ... and the robot's edge detector is never on its way to "off" in ENGAGED. *)
RobotOK == guidance_state = "ENGAGED" => \/ robotStatus /\ robotEdge = "none"
                                         \/ robotEdge = "on"

IInv == TypeInv /\ (\A c \in Component : QueueOK(c)) /\ RobotOK

(* The ways in which a step touches the machine and the queues, besides Notify: an
   event (or nothing at all), and a component taking a job. *)
EventStep ==
    /\ Announce \/ UNCHANGED machineVars
    /\ UNCHANGED <<jobQueue, currentState>>
    /\ \A c \in Component : Alive(c)' <=> Alive(c)

JobStep(c) ==
    /\ Alive(c) /\ jobQueue[c] # <<>>
    /\ UNCHANGED machineVars
    /\ jobQueue' = [jobQueue EXCEPT ![c] = Tail(@)]
    /\ \/ currentState' = [currentState EXCEPT ![c] = Target[Head(jobQueue[c])]]
       \/ ~Alive(c)' /\ UNCHANGED currentState
    /\ \A d \in Component \ {c} : Alive(d)' <=> Alive(d)

(* Every step is of one of these kinds. *)
LEMMA StepKinds ==
    ASSUME TypeInv, [Next]_vars
    PROVE  \/ EventStep
           \/ \E c \in Component : Notify(c) \/ JobStep(c)
<1> USE ComponentAssumption
<1>0. TypeOK /\ thread \in [Component -> ThreadState]
  BY DEF TypeInv, TypeOK
<1>1. ASSUME NEW e \in Event, processEvent(e), UNCHANGED queueVars PROVE EventStep
  BY <1>0, <1>1, ProcessEvent DEF EventStep, Alive, queueVars
<1>2. ASSUME UNCHANGED machineVars, UNCHANGED queueVars PROVE EventStep
  BY <1>2 DEF EventStep, Alive, queueVars
<1>3. ASSUME NEW c \in Component, NEW after \in ThreadState \ {"dying", "died"},
             HasJob(c), JobDone(c, after), UNCHANGED machineVars
      PROVE  JobStep(c)
  BY <1>0, <1>3 DEF JobStep, HasJob, JobDone, Alive
<1>4. ASSUME NEW c \in Component, RunJob(c) PROVE JobStep(c)
  <2>1. \E after \in ThreadState \ {"dying", "died"} : JobDone(c, after)
    BY <1>4 DEF RunJob, ThreadState
  <2> QED
    BY <1>3, <1>4, <2>1 DEF RunJob
<1>5. ASSUME NEW c \in Component, JobRaises(c) PROVE EventStep
  BY <1>0, <1>5 DEF JobRaises, EventStep, Alive
<1>6. ASSUME NEW c \in Component, JobThrows(c) PROVE JobStep(c)
  BY <1>0, <1>6 DEF JobThrows, JobStep, Alive
<1>7. ASSUME NEW c \in Component, handleException(c) PROVE EventStep
  <2>1. "PANIC" \in Event
    BY DEF Event
  <2>2. Announce \/ UNCHANGED machineVars
    BY <1>0, <1>7, <2>1, ProcessEvent DEF handleException
  <2> QED
    BY <1>0, <1>7, <2>2 DEF handleException, EventStep, Alive
<1>8. CASE Handler
  <2>0. {"running", "sleeping", "stopped"} \subseteq ThreadState \ {"dying", "died"}
    BY DEF ThreadState
  <2>1. CASE HandlerKill
    BY <1>0, <2>1 DEF HandlerKill, EventStep, Alive
  <2>2. CASE ~HandlerKill
    <3>1. /\ HasJob(StateHandler) /\ UNCHANGED machineVars
          /\ \E after \in {"running", "sleeping", "stopped"} : JobDone(StateHandler, after)
      BY <1>8, <2>2 DEF Handler, HandlerStartup, HandlerSystemReady, HandlerFollow,
                        HandlerShutdown, HandlerPanic
    <3> QED
      BY <1>3, <2>0, <3>1
  <2> QED
    BY <2>1, <2>2
<1>9. CASE Environment
  <2>1. CASE ActivateCheck
    BY <1>2, <2>1 DEF ActivateCheck
  <2>2. CASE ~ActivateCheck
    <3>1. UNCHANGED queueVars /\ \E e \in Event : processEvent(e)
      BY <1>9, <2>2 DEF Environment, SystemAlertMsg, RouteEventMsg, OtherThreadPanics,
                        RobotStatusMsg, DeactivateRequest, Event
    <3> QED
      BY <1>1, <3>1
  <2> QED
    BY <2>1, <2>2
<1>10. CASE Service
  <2>1. CASE ActivatePost
    <3>1. UNCHANGED queueVars /\ \E e \in Event : processEvent(e)
      BY <2>1 DEF ActivatePost, Event
    <3> QED
      BY <1>1, <3>1
  <2>2. CASE ActivateAnswer \/ RobotStatusSet
    BY <1>2, <2>2 DEF ActivateAnswer, RobotStatusSet
  <2> QED
    BY <1>10, <2>1, <2>2 DEF Service
<1>11. CASE UNCHANGED vars
  BY <1>2, <1>11 DEF vars
<1> QED
  BY <1>4, <1>5, <1>6, <1>7, <1>8, <1>9, <1>10, <1>11 DEF Next

(* Every component starts with onStartup in its queue, which leads to STARTUP. *)
LEMMA InitInductive == Init => IInv
<1> SUFFICES ASSUME Init PROVE IInv
  OBVIOUS
<1>1. ASSUME NEW c \in Component PROVE QueueOK(c)
  <2>1. jobQueue[c] = <<"ONSTARTUP">> /\ currentState[c] = "STARTUP" /\ c \notin toNotify
    BY DEF Init
  <2>2. Target["ONSTARTUP"] = "STARTUP"
    BY DEF Target, Job, Action
  <2>3. Len(jobQueue[c]) = 1 /\ jobQueue[c][1] = "ONSTARTUP" /\ jobQueue[c] # <<>>
    BY <2>1
  <2> QED
    BY <2>1, <2>2, <2>3 DEF Init, QueueOK, Legal, Leads, Starts, Pending
<1>2. RobotOK
  BY DEF Init, RobotOK
<1> QED
  BY <1>1, <1>2, InitType DEF IInv

(* An event, announced or without effect, keeps every queue in order. *)
LEMMA EventStepQueues ==
    ASSUME IInv, EventStep, NEW c \in Component
    PROVE  QueueOK(c)'
<1>0. QueueOK(c)
  BY DEF IInv
<1>1. Pending(c)' = Pending(c) /\ jobQueue[c]' = jobQueue[c]
  BY DEF EventStep, Pending
<1>2. Legal(jobQueue[c])'
  BY <1>0 DEF EventStep, QueueOK, Legal
<1>3. Alive(c)' <=> Alive(c)
  BY DEF EventStep
<1>4. ASSUME Leads(c) PROVE Leads(c)'
  <2>1. CASE UNCHANGED machineVars
    BY <1>1, <1>4, <2>1 DEF Leads, machineVars
  <2>2. CASE Announce
    BY <1>1, <1>4, <2>2 DEF Leads, Announce
  <2> QED
    BY <2>1, <2>2 DEF EventStep
<1>5. Starts(c)' <=> Starts(c)
  BY DEF EventStep, Starts
<1> QED
  BY <1>0, <1>1, <1>2, <1>3, <1>4, <1>5 DEF QueueOK

(* So does calling a listener ... *)
LEMMA NotifyQueues ==
    ASSUME IInv, NEW d \in Component, Notify(d), NEW c \in Component
    PROVE  QueueOK(c)'
<1>0. /\ QueueOK(c) /\ TypeOK /\ jobQueue[c] \in Seq(Job)
      /\ action \in Action /\ action \in Job /\ Target[action] = guidance_state
  BY DEF IInv, TypeInv, TypeOK, Announcing, Notify, Job
<1>1. /\ Alive(c)' <=> Alive(c)
      /\ guidance_state' = guidance_state /\ currentState' = currentState
  BY DEF Notify, Alive
<1>2. CASE c # d
  <2>1. jobQueue'[c] = jobQueue[c] /\ (c \in toNotify' <=> c \in toNotify)
    BY <1>0, <1>2 DEF Notify, TypeOK
  <2> QED
    BY <1>0, <1>1, <2>1 DEF QueueOK, Legal, Leads, Starts, Pending
<1>3. CASE c = d
  <2> DEFINE q == jobQueue[c]
  <2>1. jobQueue'[c] = Append(q, action) /\ c \in toNotify /\ c \notin toNotify'
    BY <1>0, <1>3 DEF Notify, TypeOK
  <2>2. Legal(q) /\ (Alive(c) \/ q # <<>> => Target[action] \in Life!Successor[Pending(c)])
    BY <1>0, <2>1 DEF QueueOK, Leads
  <2>3. /\ Legal(jobQueue'[c])
        /\ jobQueue'[c] # <<>>
        /\ jobQueue'[c][Len(jobQueue'[c])] = action
        /\ jobQueue'[c][1] = IF q = <<>> THEN action ELSE q[1]
    BY <1>0, <2>1, <2>2, AppendLegal DEF Pending
  <2>4. Leads(c)'
    BY <1>0, <1>1, <2>1, <2>3 DEF Leads, Pending
  <2>5. Alive(c) => Starts(c)'
    BY <1>0, <1>1, <2>2, <2>3 DEF Starts, QueueOK, Pending
  <2>6. Legal(jobQueue[c])'
    BY <2>3 DEF Legal
  <2> QED
    BY <1>1, <2>4, <2>5, <2>6 DEF QueueOK
<1> QED
  BY <1>2, <1>3

(* ... and running a job, or dying in it. *)
LEMMA JobStepQueues ==
    ASSUME IInv, NEW d \in Component, JobStep(d), NEW c \in Component
    PROVE  QueueOK(c)'
<1>0. /\ QueueOK(c) /\ TypeOK /\ jobQueue[c] \in Seq(Job) /\ currentState[c] \in State
      /\ guidance_state' = guidance_state /\ toNotify' = toNotify
  BY DEF IInv, TypeInv, TypeOK, JobStep, machineVars
<1>1. CASE c # d
  <2>1. jobQueue'[c] = jobQueue[c] /\ currentState'[c] = currentState[c]
    BY <1>0, <1>1 DEF JobStep, TypeOK
  <2>2. Alive(c)' <=> Alive(c)
    BY <1>1 DEF JobStep
  <2> QED
    BY <1>0, <2>1, <2>2 DEF QueueOK, Legal, Leads, Starts, Pending
<1>2. CASE c = d
  <2> DEFINE q == jobQueue[c]
  <2>1. /\ q # <<>> /\ Alive(c) /\ Legal(q) /\ Leads(c)
        /\ jobQueue'[c] = Tail(q)
        /\ Alive(c)' => currentState'[c] = Target[Head(q)]
    BY <1>0, <1>2 DEF JobStep, TypeOK, QueueOK
  <2>2. /\ Head(q) = q[1]
        /\ Legal(Tail(q))
        /\ Tail(q) = <<>> => q[Len(q)] = q[1]
        /\ Tail(q) # <<>> => /\ Tail(q)[Len(Tail(q))] = q[Len(q)]
                             /\ Target[Tail(q)[1]] \in Life!Successor[Target[q[1]]]
    BY <1>0, <2>1, TailLegal
  <2>3. Alive(c)' \/ Tail(q) # <<>> => Pending(c)' = Pending(c)
    BY <2>1, <2>2 DEF Pending
  <2>4. Alive(c)' \/ jobQueue'[c] # <<>> => Leads(c)'
    BY <1>0, <2>1, <2>3 DEF Leads
  <2>5. Alive(c)' /\ jobQueue'[c] # <<>> => Starts(c)'
    BY <2>1, <2>2 DEF Starts
  <2>6. Legal(jobQueue[c])'
    BY <2>1, <2>2 DEF Legal
  <2> QED
    BY <2>4, <2>5, <2>6 DEF QueueOK
<1> QED
  BY <1>1, <1>2

(* The robot's edge detector. *)
LEMMA RobotStep ==
    ASSUME TypeInv, RobotOK, [Next]_vars
    PROVE  RobotOK'
<1>0. TypeOK
  BY DEF TypeInv
<1>1. ASSUME NEW b \in BOOLEAN, RobotStatusMsg(b) PROVE RobotOK'
  <2>1. CASE b
    BY <1>1, <2>1 DEF RobotStatusMsg, RobotOK
  <2>2. CASE ~b
    <3>1. "ROBOT_DISABLED" \in Event /\ processEvent("ROBOT_DISABLED")
      BY <1>1, <2>2 DEF RobotStatusMsg, Event
    <3> QED
      BY <1>0, <3>1, ProcessEvent DEF RobotOK
  <2> QED
    BY <1>1, <2>1, <2>2
<1>2. CASE RobotStatusSet
  BY <1>2 DEF RobotStatusSet, RobotOK, machineVars
<1>3. ASSUME NEW e \in Event, processEvent(e), e # "START_ROUTE",
             UNCHANGED <<robotStatus, robotEdge>>
      PROVE  RobotOK'
  BY <1>0, <1>3, ProcessEvent DEF RobotOK
<1>4. ASSUME UNCHANGED <<guidance_state, robotStatus, robotEdge>> PROVE RobotOK'
  BY <1>4 DEF RobotOK
<1>5. CASE Environment
  <2>1. CASE ActivateCheck
    BY <1>4, <2>1 DEF ActivateCheck, machineVars, handlerVars
  <2>2. CASE SystemAlertMsg \/ RouteEventMsg \/ OtherThreadPanics \/ DeactivateRequest
    <3>1. /\ UNCHANGED <<robotStatus, robotEdge>>
          /\ \E e \in Event : processEvent(e) /\ e # "START_ROUTE"
      BY <2>2 DEF SystemAlertMsg, RouteEventMsg, OtherThreadPanics, DeactivateRequest,
                  Event, handlerVars
    <3> QED
      BY <1>3, <3>1
  <2> QED
    BY <1>1, <1>5, <2>1, <2>2 DEF Environment
<1>6. CASE Service
  <2>1. CASE ActivatePost
    <3>1. /\ UNCHANGED <<robotStatus, robotEdge>> /\ "ACTIVATE" \in Event
          /\ processEvent("ACTIVATE")
      BY <2>1 DEF ActivatePost, Event, handlerVars
    <3> QED
      BY <1>3, <3>1
  <2>2. CASE ActivateAnswer
    BY <1>4, <2>2 DEF ActivateAnswer, machineVars, handlerVars
  <2> QED
    BY <1>2, <1>6, <2>1, <2>2 DEF Service
<1>7. CASE Handler
  BY <1>4, <1>7 DEF Handler, HandlerStartup, HandlerSystemReady, HandlerFollow, HandlerShutdown,
                    HandlerKill, HandlerPanic, machineVars, handlerVars
<1>8. ASSUME NEW c \in Component, Notify(c) \/ RunJob(c) \/ JobRaises(c) \/ JobThrows(c)
      PROVE  RobotOK'
  BY <1>4, <1>8 DEF Notify, RunJob, JobRaises, JobThrows, machineVars, handlerVars
<1>9. ASSUME NEW c \in Component, handleException(c) PROVE RobotOK'
  <2>1. "PANIC" \in Event
    BY DEF Event
  <2> QED
    BY <1>3, <1>9, <2>1 DEF handleException, handlerVars
<1>10. CASE UNCHANGED vars
  BY <1>4, <1>10 DEF vars, machineVars, handlerVars
<1> QED
  BY <1>5, <1>6, <1>7, <1>8, <1>9, <1>10 DEF Next

(* The three parts of the invariant are kept together. *)
LEMMA NextInductive == IInv /\ [Next]_vars => IInv'
<1> SUFFICES ASSUME IInv, [Next]_vars PROVE IInv'
  OBVIOUS
<1>1. TypeInv' /\ RobotOK'
  BY NextType, RobotStep DEF IInv
<1>2. ASSUME NEW c \in Component PROVE QueueOK(c)'
  BY StepKinds, EventStepQueues, NotifyQueues, JobStepQueues DEF IInv
<1> QED
  BY <1>1, <1>2 DEF IInv

(* The invariant holds throughout. *)
LEMMA Inductive == Spec => []IInv
BY InitInductive, NextInductive, PTL DEF Spec

-----------------------------------------------------------------------------
(* The theorems *)

(* Components that work lose and repeat no change of state, and nothing is queued
   where it would never run: the hand-over of processEvent, onStateChange and
   runJobQueue is exact for any number of components. *)
THEOREM HandOver == Spec => [](QueuesLeadToMachine /\ QueuesAreLegal)
<1>1. IInv => QueuesLeadToMachine /\ QueuesAreLegal
  BY DEF IInv, QueueOK, Leads, Legal, QueuesLeadToMachine, QueuesAreLegal
<1> QED
  BY <1>1, Inductive, PTL

(* Guidance is ENGAGED only while the robot's last reported status is active. *)
THEOREM EngagedOnlyWithRobot == Spec => []EngagedHasRobot
<1>1. IInv => EngagedHasRobot
  BY DEF IInv, RobotOK, EngagedHasRobot
<1> QED
  BY <1>1, Inductive, PTL

(* The state machine implements the life cycle. *)
THEOREM MachineImplementsLifecycle == Spec => MachineFollowsLifecycle
<1>1. Init => Life!Init
  BY DEF Init, Life!Init
<1>2. IInv /\ [Next]_vars => [Life!Next]_guidance_state
  <2> SUFFICES ASSUME IInv, [Next]_vars PROVE [Life!Next]_guidance_state
    OBVIOUS
  <2> QED
    BY StepKinds DEF IInv, EventStep, Announce, Notify, JobStep, machineVars, Life!Next
<1> QED
  BY <1>1, <1>2, Inductive, PTL DEF Spec, MachineFollowsLifecycle, Life!Spec

(* Every component's own copy of the state implements the life cycle too. *)
THEOREM ComponentsImplementLifecycle == Spec => ComponentsFollowLifecycle
<1>1. Init => ComponentsStart
  BY DEF Init, ComponentsStart, ComponentLife!Init
<1>2. IInv /\ [Next]_vars => [ComponentsStep]_vars
  <2> SUFFICES ASSUME IInv, [Next]_vars, NEW c \in Component
               PROVE  ComponentLife(c)!Next \/ UNCHANGED currentState[c]
    BY DEF ComponentsStep
  <2>1. CASE EventStep \/ \E d \in Component : Notify(d)
    BY <2>1 DEF EventStep, Notify
  <2>2. ASSUME NEW d \in Component, JobStep(d)
        PROVE  ComponentLife(c)!Next \/ UNCHANGED currentState[c]
    <3>1. TypeOK /\ QueueOK(c) /\ jobQueue[c] \in Seq(Job)
      BY DEF IInv, TypeInv, TypeOK
    <3>2. CASE c # d
      BY <2>2, <3>1, <3>2 DEF JobStep, TypeOK
    <3>3. CASE c = d
      <4>1. Starts(c) /\ Head(jobQueue[c]) = jobQueue[c][1]
        BY <2>2, <3>1, <3>3, TailLegal DEF JobStep, QueueOK
      <4>2. currentState'[c] \in Life!Successor[currentState[c]] \cup {currentState[c]}
        BY <2>2, <3>1, <3>3, <4>1 DEF JobStep, TypeOK, Starts
      <4>3. ComponentLife(c)!Successor = Life!Successor
        BY DEF ComponentLife!Successor, Life!Successor, ComponentLife!State, Life!State
      <4> QED
        BY <4>2, <4>3 DEF ComponentLife!Next
    <3> QED
      BY <3>2, <3>3
  <2> QED
    BY <2>1, <2>2, StepKinds DEF IInv
<1> QED
  BY <1>1, <1>2, Inductive, PTL DEF Spec, ComponentsFollowLifecycle
====
