-------------------------- MODULE PlatooningProofs --------------------------
(***************************************************************************)
(* Proofs about Platooning, for any number of vehicles, requests and       *)
(* changes of state.                                                       *)
(***************************************************************************)
EXTENDS Platooning, FiniteSetTheorems, WellFoundedInduction, TLAPS

(* The parts of TypeOK, which are disturbed by different actions. *)
StateType ==
    /\ state \in [Vehicle -> {"standby", "leader", "waiting", "candidate", "follower"}]
    /\ peer \in [Vehicle -> Vehicle] /\ counter \in [Vehicle -> 0 .. CounterLimit - 1]
    /\ late \in [Vehicle -> 0 .. Vehicles] /\ following \in [Vehicle -> BOOLEAN]
    /\ alive \in [Vehicle -> BOOLEAN] /\ moves \in 0 .. MaxMoves

ManagerType ==
    /\ isFollower \in [Vehicle -> BOOLEAN] /\ leaderID \in [Vehicle -> Vehicle]
    /\ platoon \in [Vehicle -> SUBSET Vehicle]

IdType ==
    /\ currentId \in [Vehicle -> 1 .. MaxIds] /\ platoonId \in [Vehicle -> 0 .. MaxIds]
    /\ ids \in Vehicles .. MaxIds

Request == [type : {"JOIN", "FOLLOW"}, from : Vehicle, to : Vehicle, size : Nat]

NetType ==
    /\ plan \in [Vehicle -> 0 .. MaxPlans]
    /\ requests \in Seq(Request) /\ Len(requests) <= MaxPlans
    /\ responses \subseteq [plan : DOMAIN requests, from : Vehicle]

(* What a vehicle has of a negotiation: a plan is a request that was sent, a candidate's is a
   request to follow, and whoever may become a candidate or a follower knows the platoon. *)
NegotiationInv ==
    \A v \in Vehicle :
      /\ plan[v] # 0 => plan[v] <= Len(requests) /\ state[v] \in {"leader", "candidate"}
      /\ state[v] = "candidate" /\ plan[v] # 0 => requests[plan[v]].type = "FOLLOW"
      /\ state[v] = "candidate" \/ plan[v] # 0 => platoonId[v] # 0

(* No id is used before it was given out. *)
IdsInUse == \A v \in Vehicle : currentId[v] <= ids /\ platoonId[v] <= ids

(* A follower's leader is the first vehicle of its list. *)
LeaderInv ==
    \A v \in Vehicle :
      /\ leaderID[v] <= v
      /\ isFollower[v] => \A m \in platoon[v] : leaderID[v] <= m /\ m < v

(* owner[i] is the vehicle that was given the id i.  Whoever uses an id, or is about to, drives
   behind its owner, and so do all the vehicles that a follower counts; a manager that leads
   uses its own id. *)
OwnedBy(owner) ==
    \A v \in Vehicle :
      /\ owner[currentId[v]] <= v
      /\ isFollower[v] => \A m \in platoon[v] : owner[currentId[v]] <= m
      /\ ~isFollower[v] => owner[currentId[v]] = v
      /\ platoonId[v] # 0 => owner[platoonId[v]] <= v

OwnerInv == \E owner \in [1 .. ids -> Vehicle] : OwnedBy(owner)

IInv == /\ StateType /\ ManagerType /\ IdType /\ NetType /\ NegotiationInv /\ IdsInUse
        /\ LeaderInv /\ FollowersAreBehind /\ OwnerInv

-----------------------------------------------------------------------------
(* Constants, minimum and maximum *)

(* What the assumption says of each constant. *)
LEMMA Constants ==
    /\ Vehicles \in Nat /\ MaxSize \in Nat /\ CounterLimit \in Nat \ {0} /\ MaxPlans \in Nat
    /\ MaxMoves \in Nat /\ MaxIds \in Nat /\ Vehicles <= MaxIds /\ Vehicle \subseteq Nat
    /\ \A v \in Vehicle : v \in Nat
BY PlatooningAssumption DEF Vehicle

(* Every set of natural numbers that is not empty has a least element. *)
LEMMA LeastNat ==
    ASSUME NEW S \in SUBSET Nat, S # {}
    PROVE  \E x \in S : \A y \in S : x <= y
<1>1. PICK x \in S : \A y \in S : ~(<<y, x>> \in OpToRel(<, Nat))
  BY NatLessThanWellFounded, WFMin
<1>2. \A y \in S : ~(y < x)
  BY <1>1 DEF OpToRel
<1> QED
  BY <1>2

(* Min, with which a follower finds its leader. *)
LEMMA MinProperty ==
    ASSUME NEW S \in SUBSET Nat, S # {}
    PROVE  Min(S) \in S /\ \A y \in S : Min(S) <= y
BY LeastNat DEF Min

(* Max, with which a leader finds the rear of its platoon. *)
LEMMA MaxProperty ==
    ASSUME NEW N \in Nat, NEW S \in SUBSET (1 .. N), S # {}
    PROVE  Max(S) \in S /\ \A y \in S : y <= Max(S)
<1> DEFINE T == {N - y : y \in S}
<1>1. \A y \in S : N - y \in Nat
  OBVIOUS
<1>2. T \in SUBSET Nat /\ T # {}
  BY <1>1
<1>3. PICK d \in T : \A y \in T : d <= y
  BY <1>2, LeastNat
<1>4. PICK x \in S : d = N - x
  BY <1>3
<1>5. \A y \in S : N - y \in T
  OBVIOUS
<1>6. \A y \in S : x >= y
  BY <1>3, <1>4, <1>5
<1> QED
  BY <1>6 DEF Max

(* Nobody in a follower's list drives in front of the first of it. *)
LEMMA FirstProperty ==
    ASSUME NEW v \in Vehicle, NEW S \in SUBSET Vehicle
    PROVE  First(v, S) \in Vehicle /\ (S = {} => First(v, S) = v)
           /\ (S # {} => First(v, S) \in S) /\ \A m \in S : First(v, S) <= m
<1>1. S # {} => Min(S) \in S /\ \A y \in S : Min(S) <= y
  BY Constants, MinProperty
<1> QED
  BY <1>1, Constants DEF First

(* Every member of a vehicle's list drives in front of the rear. *)
LEMMA RearProperty ==
    ASSUME NEW v \in Vehicle, platoon \in [Vehicle -> SUBSET Vehicle]
    PROVE  Rear(v) \in Vehicle /\ (platoon[v] = {} => Rear(v) = v)
           /\ \A m \in platoon[v] : m <= Rear(v)
<1>1. platoon[v] # {} => /\ Max(platoon[v]) \in platoon[v]
                         /\ \A y \in platoon[v] : y <= Max(platoon[v])
  BY Constants, MaxProperty DEF Vehicle
<1> QED
  BY <1>1, Constants DEF Rear

(* A platoon has a size. *)
LEMMA SizeType ==
    ASSUME NEW v \in Vehicle, platoon \in [Vehicle -> SUBSET Vehicle]
    PROVE  TotalPlatooningSize(v) \in SUBSET Nat
<1>1. IsFiniteSet(1 .. Vehicles)
  BY FS_Interval, Constants
<1>2. IsFiniteSet(platoon[v])
  BY <1>1, FS_Subset DEF Vehicle
<1>3. Cardinality(platoon[v]) \in Nat
  BY <1>2, FS_CardinalityType
<1> QED
  BY <1>3, Constants DEF TotalPlatooningSize

-----------------------------------------------------------------------------
(* Every part of the invariant is preserved by every step *)

(* Sending a request. *)
LEMMA SendProperty ==
    ASSUME NEW S, NEW q \in Seq(S), NEW m \in S
    PROVE  /\ Append(q, m) \in Seq(S) /\ Len(Append(q, m)) = Len(q) + 1 /\ Len(q) \in Nat
           /\ DOMAIN q = 1 .. Len(q) /\ DOMAIN Append(q, m) = 1 .. Len(q) + 1
           /\ \A i \in 1 .. Len(q) : Append(q, m)[i] = q[i]
           /\ Append(q, m)[Len(q) + 1] = m
OBVIOUS

(* A thread that is late has a vehicle to write to, if only its own. *)
LEMMA LateType ==
    (\A v \in Vehicle : v \in 0 .. Vehicles) /\ \A x \in 0 .. Vehicles : x # 0 => x \in Vehicle
BY Constants DEF Vehicle

(* Whoever sends a request, and whom it is for, is a vehicle. *)
LEMMA RequestType ==
    ASSUME NetType
    PROVE  /\ \A n \in DOMAIN requests : /\ requests[n].from \in Vehicle
                                         /\ requests[n].to \in Vehicle /\ n \in Nat \ {0}
           /\ \A r \in responses : r.plan \in DOMAIN requests /\ r.from \in Vehicle
                                   /\ requests[r.plan].from \in Vehicle
<1>1. \A n \in DOMAIN requests : requests[n] \in Request /\ n \in Nat \ {0}
  BY DEF NetType
<1>2. \A r \in responses : r.plan \in DOMAIN requests /\ r.from \in Vehicle
  BY DEF NetType
<1> QED
  BY <1>1, <1>2 DEF Request

(* States keep their types. *)
LEMMA StateTypeStep == IInv /\ [Next]_vars => StateType'
<1> SUFFICES ASSUME IInv, [Next]_vars
             PROVE  StateType'
  OBVIOUS
<1> USE Constants DEF IInv, stateVars, threadVars, managerVars, netVars
<1>1. ASSUME NEW v \in Vehicle, planTrajectory(v)
     PROVE  StateType'
  <2>1. PICK s \in {"leader", "standby"} : Enter(v, s)
    BY <1>1 DEF planTrajectory
  <2>2. moves' = moves + 1 /\ moves < MaxMoves /\ UNCHANGED <<threadVars, managerVars, netVars>>
    BY <1>1 DEF planTrajectory
  <2> QED
    BY <2>1, <2>2 DEF Enter, setState, StateType
<1>2. ASSUME NEW v \in Vehicle, onSuspend(v)
     PROVE  StateType'
  BY <1>2 DEF onSuspend, StateType
<1>3. ASSUME NEW v \in Vehicle, onResume(v)
     PROVE  StateType'
  BY <1>3 DEF onResume, Enter, setState, changeFromFollowerToLeader, StateType
<1>4. ASSUME NEW v \in Vehicle, PlanTimeout(v)
     PROVE  StateType'
  BY <1>4 DEF PlanTimeout, ForgetPlan, StateType
<1>5. ASSUME NEW v \in Vehicle, RequestFollow(v)
     PROVE  StateType'
  BY <1>5 DEF RequestFollow, Send, StateType
<1>6. ASSUME NEW v \in Vehicle, StateTimeout(v)
     PROVE  StateType'
  BY <1>6, LateType DEF StateTimeout, StateType
<1>7. ASSUME NEW v \in Vehicle, GiveUp(v)
     PROVE  StateType'
  BY <1>7 DEF GiveUp, Enter, setState, StateType
<1>8. ASSUME NEW v \in Vehicle, Follow(v)
     PROVE  StateType'
  BY <1>8 DEF Follow, Enter, setState, StateType
<1>9. ASSUME NEW v \in Vehicle, LookForLeader(v)
     PROVE  StateType'
  <2>1. CASE changeFromFollowerToLeader(v) /\ late' = [late EXCEPT ![v] = v] /\ UNCHANGED counter
    BY <2>1, <1>9, LateType DEF LookForLeader, changeFromFollowerToLeader, StateType
  <2>2. CASE /\ counter' = [counter EXCEPT ![v] = IF ~isFollower[v] \/ platoon[v] = {}
                                                 THEN @ + 1 ELSE 0]
             /\ ~((~isFollower[v] \/ platoon[v] = {}) /\ counter[v] + 1 >= CounterLimit)
             /\ UNCHANGED <<late, managerVars>>
    BY <2>2, <1>9 DEF LookForLeader, StateType
  <2> QED
    BY <2>1, <2>2, <1>9 DEF LookForLeader
<1>10. ASSUME NEW v \in Vehicle, removeExpiredMember(v)
     PROVE  StateType'
  BY <1>10 DEF removeExpiredMember, StateType
<1>11. ASSUME NEW l \in Vehicle, NEW v \in Vehicle, onInfo(l, v)
     PROVE  StateType'
  BY <1>11 DEF onInfo, Send, StateType
<1>12. ASSUME NEW s \in Vehicle, NEW v \in Vehicle, onStatus(s, v)
     PROVE  StateType'
  BY <1>12 DEF onStatus, memberUpdates, StateType
<1>13. ASSUME NEW n \in DOMAIN requests, onJoin(n)
     PROVE  StateType'
  <2>1. requests[n].from \in Vehicle /\ requests[n].to \in Vehicle
    BY RequestType DEF NetType
  <2>2. CASE setState(requests[n].to, "waiting", requests[n].from, 0) /\ Accept(n)
    BY <2>1, <2>2, <1>13 DEF onJoin, setState, Accept, StateType
  <2>3. CASE Reject(n) /\ UNCHANGED responses
    BY <2>1, <2>3, <1>13 DEF onJoin, Reject, ForgetPlan, StateType
  <2> QED
    BY <2>2, <2>3, <1>13 DEF onJoin
<1>14. ASSUME NEW n \in DOMAIN requests, onFollowerJoin(n)
     PROVE  StateType'
  <2>1. requests[n].from \in Vehicle /\ requests[n].to \in Vehicle
    BY RequestType DEF NetType
  <2> QED
    BY <2>1, <1>14 DEF onFollowerJoin, Enter, setState, StateType
<1>15. ASSUME NEW r \in responses, onJoinResponse(r)
     PROVE  StateType'
  <2>1. r.plan \in DOMAIN requests /\ requests[r.plan].from \in Vehicle
    BY RequestType DEF NetType
  <2> QED
    BY <2>1, <1>15 DEF onJoinResponse, setState, StateType
<1>16. ASSUME NEW r \in responses, onFollowResponse(r)
     PROVE  StateType'
  <2>1. r.plan \in DOMAIN requests /\ requests[r.plan].from \in Vehicle
    BY RequestType DEF NetType
  <2> QED
    BY <2>1, <1>16 DEF onFollowResponse, StateType
<1>17. CASE UNCHANGED vars
  BY <1>17 DEF vars, StateType
<1> QED
  BY <1>1, <1>2, <1>3, <1>4, <1>5, <1>6, <1>7, <1>8, <1>9, <1>10, <1>11, <1>12, <1>13, <1>14,
     <1>15, <1>16, <1>17
  DEF Next, Step

(* Managers keep their types. *)
LEMMA ManagerTypeStep == IInv /\ [Next]_vars => ManagerType'
<1> SUFFICES ASSUME IInv, [Next]_vars
             PROVE  ManagerType'
  OBVIOUS
<1> USE Constants DEF IInv, stateVars, threadVars, managerVars, netVars
<1>1. ASSUME NEW v \in Vehicle, planTrajectory(v)
     PROVE  ManagerType'
  BY <1>1 DEF planTrajectory, Enter, setState, ManagerType
<1>2. ASSUME NEW v \in Vehicle, onSuspend(v)
     PROVE  ManagerType'
  BY <1>2 DEF onSuspend, ManagerType
<1>3. ASSUME NEW v \in Vehicle, onResume(v)
     PROVE  ManagerType'
  BY <1>3 DEF onResume, Enter, setState, changeFromFollowerToLeader, ManagerType
<1>4. ASSUME NEW v \in Vehicle, PlanTimeout(v)
     PROVE  ManagerType'
  BY <1>4 DEF PlanTimeout, ForgetPlan, ManagerType
<1>5. ASSUME NEW v \in Vehicle, RequestFollow(v)
     PROVE  ManagerType'
  BY <1>5 DEF RequestFollow, Send, ManagerType
<1>6. ASSUME NEW v \in Vehicle, StateTimeout(v)
     PROVE  ManagerType'
  BY <1>6 DEF StateTimeout, ManagerType
<1>7. ASSUME NEW v \in Vehicle, GiveUp(v)
     PROVE  ManagerType'
  BY <1>7 DEF GiveUp, Enter, setState, ManagerType
<1>8. ASSUME NEW v \in Vehicle, Follow(v)
     PROVE  ManagerType'
  BY <1>8 DEF Follow, Enter, setState, ManagerType
<1>9. ASSUME NEW v \in Vehicle, LookForLeader(v)
     PROVE  ManagerType'
  <2>1. CASE changeFromFollowerToLeader(v) /\ late' = [late EXCEPT ![v] = v] /\ UNCHANGED counter
    BY <2>1, <1>9 DEF LookForLeader, changeFromFollowerToLeader, ManagerType
  <2>2. CASE /\ counter' = [counter EXCEPT ![v] = IF ~isFollower[v] \/ platoon[v] = {}
                                                 THEN @ + 1 ELSE 0]
             /\ ~((~isFollower[v] \/ platoon[v] = {}) /\ counter[v] + 1 >= CounterLimit)
             /\ UNCHANGED <<late, managerVars>>
    BY <2>2, <1>9 DEF LookForLeader, ManagerType
  <2> QED
    BY <2>1, <2>2, <1>9 DEF LookForLeader
<1>10. ASSUME NEW v \in Vehicle, removeExpiredMember(v)
     PROVE  ManagerType'
  <2>1. PICK gone \in SUBSET platoon[v] :
          /\ platoon' = [platoon EXCEPT ![v] = @ \ gone] /\ isFollower' = isFollower
          /\ leaderID' = [leaderID EXCEPT ![v] = IF isFollower[v] THEN First(v, platoon'[v]) ELSE @]
    BY <1>10 DEF removeExpiredMember
  <2>2. platoon' \in [Vehicle -> SUBSET Vehicle]
    BY <2>1, <1>10 DEF ManagerType
  <2>3. First(v, platoon'[v]) \in Vehicle
    BY <2>2, FirstProperty
  <2> QED
    BY <2>1, <2>2, <2>3 DEF ManagerType
<1>11. ASSUME NEW l \in Vehicle, NEW v \in Vehicle, onInfo(l, v)
     PROVE  ManagerType'
  BY <1>11 DEF onInfo, Send, ManagerType
<1>12. ASSUME NEW s \in Vehicle, NEW v \in Vehicle, onStatus(s, v)
     PROVE  ManagerType'
  <2>1. platoon' = [platoon EXCEPT ![v] = @ \cup {s}] /\ isFollower' = isFollower
    BY <1>12 DEF onStatus, memberUpdates
  <2>2. platoon' \in [Vehicle -> SUBSET Vehicle]
    BY <2>1, <1>12 DEF ManagerType
  <2>3. First(v, platoon'[v]) \in Vehicle
    BY <2>2, FirstProperty
  <2> QED
    BY <2>1, <2>2, <2>3, <1>12 DEF onStatus, memberUpdates, ManagerType
<1>13. ASSUME NEW n \in DOMAIN requests, onJoin(n)
     PROVE  ManagerType'
  BY <1>13 DEF onJoin, Reject, ForgetPlan, Accept, setState, ManagerType
<1>14. ASSUME NEW n \in DOMAIN requests, onFollowerJoin(n)
     PROVE  ManagerType'
  BY <1>14 DEF onFollowerJoin, Accept, Enter, setState, ManagerType
<1>15. ASSUME NEW r \in responses, onJoinResponse(r)
     PROVE  ManagerType'
  BY <1>15 DEF onJoinResponse, IsForCurrentPlan, setState, ManagerType
<1>16. ASSUME NEW r \in responses, onFollowResponse(r)
     PROVE  ManagerType'
  <2>1. r.plan \in DOMAIN requests /\ requests[r.plan].from \in Vehicle
    BY RequestType DEF NetType
  <2> QED
    BY <2>1, <1>16 DEF onFollowResponse, changeFromLeaderToFollower, ManagerType
<1>17. CASE UNCHANGED vars
  BY <1>17 DEF vars, ManagerType
<1> QED
  BY <1>1, <1>2, <1>3, <1>4, <1>5, <1>6, <1>7, <1>8, <1>9, <1>10, <1>11, <1>12, <1>13, <1>14,
     <1>15, <1>16, <1>17
  DEF Next, Step

(* Ids stay within their bound. *)
LEMMA IdTypeStep == IInv /\ [Next]_vars => IdType'
<1> SUFFICES ASSUME IInv, [Next]_vars
             PROVE  IdType'
  OBVIOUS
<1> USE Constants DEF IInv, stateVars, threadVars, managerVars, netVars
<1>1. ASSUME NEW v \in Vehicle, planTrajectory(v)
     PROVE  IdType'
  BY <1>1 DEF planTrajectory, Enter, setState, IdType
<1>2. ASSUME NEW v \in Vehicle, onSuspend(v)
     PROVE  IdType'
  BY <1>2 DEF onSuspend, IdType
<1>3. ASSUME NEW v \in Vehicle, onResume(v)
     PROVE  IdType'
  BY <1>3 DEF onResume, Enter, setState, changeFromFollowerToLeader, IdType
<1>4. ASSUME NEW v \in Vehicle, PlanTimeout(v)
     PROVE  IdType'
  BY <1>4 DEF PlanTimeout, ForgetPlan, IdType
<1>5. ASSUME NEW v \in Vehicle, RequestFollow(v)
     PROVE  IdType'
  BY <1>5 DEF RequestFollow, Send, IdType
<1>6. ASSUME NEW v \in Vehicle, StateTimeout(v)
     PROVE  IdType'
  BY <1>6 DEF StateTimeout, IdType
<1>7. ASSUME NEW v \in Vehicle, GiveUp(v)
     PROVE  IdType'
  BY <1>7 DEF GiveUp, Enter, setState, IdType
<1>8. ASSUME NEW v \in Vehicle, Follow(v)
     PROVE  IdType'
  BY <1>8 DEF Follow, Enter, setState, IdType
<1>9. ASSUME NEW v \in Vehicle, LookForLeader(v)
     PROVE  IdType'
  BY <1>9 DEF LookForLeader, changeFromFollowerToLeader, IdType
<1>10. ASSUME NEW v \in Vehicle, removeExpiredMember(v)
     PROVE  IdType'
  BY <1>10 DEF removeExpiredMember, IdType
<1>11. ASSUME NEW l \in Vehicle, NEW v \in Vehicle, onInfo(l, v)
     PROVE  IdType'
  BY <1>11 DEF onInfo, Send, IdType
<1>12. ASSUME NEW s \in Vehicle, NEW v \in Vehicle, onStatus(s, v)
     PROVE  IdType'
  BY <1>12 DEF onStatus, memberUpdates, IdType
<1>13. ASSUME NEW n \in DOMAIN requests, onJoin(n)
     PROVE  IdType'
  <2>1. requests[n].from \in Vehicle /\ requests[n].to \in Vehicle
    BY RequestType DEF NetType
  <2> QED
    BY <2>1, <1>13 DEF onJoin, Reject, ForgetPlan, setState, IdType
<1>14. ASSUME NEW n \in DOMAIN requests, onFollowerJoin(n)
     PROVE  IdType'
  <2>1. requests[n].from \in Vehicle /\ requests[n].to \in Vehicle
    BY RequestType DEF NetType
  <2> QED
    BY <2>1, <1>14 DEF onFollowerJoin, Enter, setState, IdType
<1>15. ASSUME NEW r \in responses, onJoinResponse(r)
     PROVE  IdType'
  <2>1. r.plan \in DOMAIN requests /\ requests[r.plan].from \in Vehicle
    BY RequestType DEF NetType
  <2> QED
    BY <2>1, <1>15 DEF onJoinResponse, setState, IdType
<1>16. ASSUME NEW r \in responses, onFollowResponse(r)
     PROVE  IdType'
  <2>1. r.plan \in DOMAIN requests /\ requests[r.plan].from \in Vehicle
    BY RequestType DEF NetType
  <2> DEFINE v == requests[r.plan].from
  <2>2. platoonId[v] \in 1 .. MaxIds
    <3>1. platoonId[v] \in 0 .. MaxIds /\ state[v] = "candidate"
      BY <2>1, <1>16 DEF onFollowResponse, IdType
    <3>2. platoonId[v] # 0
      BY <2>1, <3>1 DEF NegotiationInv
    <3> HIDE DEF v
    <3> QED
      BY <3>1, <3>2
  <2>3. /\ currentId' = [currentId EXCEPT ![v] = platoonId[v]] /\ ids' = ids
        /\ platoonId' = platoonId
    BY <1>16 DEF onFollowResponse, changeFromLeaderToFollower
  <2> QED
    BY <2>1, <2>2, <2>3 DEF IdType
<1>17. CASE UNCHANGED vars
  BY <1>17 DEF vars, IdType
<1> QED
  BY <1>1, <1>2, <1>3, <1>4, <1>5, <1>6, <1>7, <1>8, <1>9, <1>10, <1>11, <1>12, <1>13, <1>14,
     <1>15, <1>16, <1>17
  DEF Next, Step

(* Requests and responses keep their types. *)
LEMMA NetTypeStep == IInv /\ [Next]_vars => NetType'
<1> SUFFICES ASSUME IInv, [Next]_vars
             PROVE  NetType'
  OBVIOUS
<1> USE Constants DEF IInv, stateVars, threadVars, managerVars, netVars
<1>1. ASSUME NEW v \in Vehicle, planTrajectory(v)
     PROVE  NetType'
  BY <1>1 DEF planTrajectory, Enter, setState, NetType
<1>2. ASSUME NEW v \in Vehicle, onSuspend(v)
     PROVE  NetType'
  BY <1>2 DEF onSuspend, NetType
<1>3. ASSUME NEW v \in Vehicle, onResume(v)
     PROVE  NetType'
  BY <1>3 DEF onResume, Enter, setState, changeFromFollowerToLeader, NetType
<1>4. ASSUME NEW v \in Vehicle, PlanTimeout(v)
     PROVE  NetType'
  BY <1>4 DEF PlanTimeout, ForgetPlan, NetType
<1>5. ASSUME NEW v \in Vehicle, RequestFollow(v)
     PROVE  NetType'
  <2>1. PICK m \in Request : requests' = Append(requests, m)
    BY <1>5, SizeType DEF RequestFollow, Send, Request, ManagerType, StateType
  <2>2. requests' \in Seq(Request) /\ Len(requests') = Len(requests) + 1 /\ Len(requests) \in Nat
        /\ DOMAIN requests = 1 .. Len(requests) /\ DOMAIN requests' = 1 .. Len(requests) + 1
    BY <2>1, SendProperty DEF NetType
  <2> QED
    BY <2>2, <1>5 DEF RequestFollow, NetType
<1>6. ASSUME NEW v \in Vehicle, StateTimeout(v)
     PROVE  NetType'
  BY <1>6 DEF StateTimeout, NetType
<1>7. ASSUME NEW v \in Vehicle, GiveUp(v)
     PROVE  NetType'
  <2>0. late[v] # 0 => late[v] \in Vehicle
    BY LateType DEF StateType
  <2>1. CASE UNCHANGED requests
    BY <2>1, <1>7 DEF GiveUp, Enter, setState, NetType
  <2>2. CASE Len(requests) < MaxPlans /\ Send("FOLLOW", v, late[v], 1) /\ late[v] # 0
    <3>1. PICK m \in Request : requests' = Append(requests, m)
      BY <2>2, <2>0 DEF Send, Request
    <3>2. requests' \in Seq(Request) /\ Len(requests') = Len(requests) + 1 /\ Len(requests) \in Nat
          /\ DOMAIN requests = 1 .. Len(requests) /\ DOMAIN requests' = 1 .. Len(requests) + 1
      BY <3>1, SendProperty DEF NetType
    <3> QED
      BY <2>2, <3>2, <1>7 DEF GiveUp, Enter, setState, NetType
  <2> QED
    BY <2>1, <2>2, <1>7 DEF GiveUp
<1>8. ASSUME NEW v \in Vehicle, Follow(v)
     PROVE  NetType'
  BY <1>8 DEF Follow, Enter, setState, NetType
<1>9. ASSUME NEW v \in Vehicle, LookForLeader(v)
     PROVE  NetType'
  BY <1>9 DEF LookForLeader, changeFromFollowerToLeader, NetType
<1>10. ASSUME NEW v \in Vehicle, removeExpiredMember(v)
     PROVE  NetType'
  BY <1>10 DEF removeExpiredMember, NetType
<1>11. ASSUME NEW l \in Vehicle, NEW v \in Vehicle, onInfo(l, v)
     PROVE  NetType'
  <2>1. PICK m \in Request : requests' = Append(requests, m)
    BY <1>11, SizeType DEF onInfo, Send, Request, ManagerType, StateType
  <2>2. requests' \in Seq(Request) /\ Len(requests') = Len(requests) + 1 /\ Len(requests) \in Nat
        /\ DOMAIN requests = 1 .. Len(requests) /\ DOMAIN requests' = 1 .. Len(requests) + 1
    BY <2>1, SendProperty DEF NetType
  <2> QED
    BY <2>2, <1>11 DEF onInfo, NetType
<1>12. ASSUME NEW s \in Vehicle, NEW v \in Vehicle, onStatus(s, v)
     PROVE  NetType'
  BY <1>12 DEF onStatus, memberUpdates, NetType
<1>13. ASSUME NEW n \in DOMAIN requests, onJoin(n)
     PROVE  NetType'
  <2>1. requests[n].from \in Vehicle /\ requests[n].to \in Vehicle
    BY RequestType DEF NetType
  <2> QED
    BY <2>1, <1>13 DEF onJoin, Reject, ForgetPlan, Accept, setState, NetType
<1>14. ASSUME NEW n \in DOMAIN requests, onFollowerJoin(n)
     PROVE  NetType'
  <2>1. requests[n].from \in Vehicle /\ requests[n].to \in Vehicle
    BY RequestType DEF NetType
  <2> QED
    BY <2>1, <1>14 DEF onFollowerJoin, Accept, Enter, setState, NetType
<1>15. ASSUME NEW r \in responses, onJoinResponse(r)
     PROVE  NetType'
  <2>1. r.plan \in DOMAIN requests /\ requests[r.plan].from \in Vehicle
    BY RequestType DEF NetType
  <2> QED
    BY <2>1, <1>15 DEF onJoinResponse, setState, NetType
<1>16. ASSUME NEW r \in responses, onFollowResponse(r)
     PROVE  NetType'
  <2>1. r.plan \in DOMAIN requests /\ requests[r.plan].from \in Vehicle
    BY RequestType DEF NetType
  <2> QED
    BY <2>1, <1>16 DEF onFollowResponse, NetType
<1>17. CASE UNCHANGED vars
  BY <1>17 DEF vars, NetType
<1> QED
  BY <1>1, <1>2, <1>3, <1>4, <1>5, <1>6, <1>7, <1>8, <1>9, <1>10, <1>11, <1>12, <1>13, <1>14,
     <1>15, <1>16, <1>17
  DEF Next, Step

(* Plans are what they were made for. *)
LEMMA NegotiationStep == IInv /\ [Next]_vars => NegotiationInv'
<1> SUFFICES ASSUME IInv, [Next]_vars
             PROVE  NegotiationInv'
  OBVIOUS
<1> USE Constants DEF IInv, stateVars, threadVars, managerVars, netVars
<1>1. ASSUME NEW v \in Vehicle, planTrajectory(v)
     PROVE  NegotiationInv'
  <2>1. PICK s \in {"leader", "standby"} : Enter(v, s)
    BY <1>1 DEF planTrajectory
  <2>2. moves' = moves + 1 /\ moves < MaxMoves /\ UNCHANGED <<threadVars, managerVars, netVars>>
    BY <1>1 DEF planTrajectory
  <2> QED
    BY <2>1, <2>2 DEF Enter, setState, NegotiationInv, StateType, NetType, IdType
<1>2. ASSUME NEW v \in Vehicle, onSuspend(v)
     PROVE  NegotiationInv'
  BY <1>2 DEF onSuspend, NegotiationInv, StateType, NetType, IdType
<1>3. ASSUME NEW v \in Vehicle, onResume(v)
     PROVE  NegotiationInv'
  BY <1>3 DEF onResume, Enter, setState, changeFromFollowerToLeader, NegotiationInv, StateType,
     NetType, IdType
<1>4. ASSUME NEW v \in Vehicle, PlanTimeout(v)
     PROVE  NegotiationInv'
  BY <1>4 DEF PlanTimeout, ForgetPlan, NegotiationInv, StateType, NetType, IdType
<1>5. ASSUME NEW v \in Vehicle, RequestFollow(v)
     PROVE  NegotiationInv'
  <2>1. PICK m \in Request : requests' = Append(requests, m) /\ m.type = "FOLLOW"
    BY <1>5, SizeType DEF RequestFollow, Send, Request, ManagerType, StateType
  <2>2. /\ Len(requests') = Len(requests) + 1 /\ Len(requests) \in Nat
        /\ \A i \in 1 .. Len(requests) : requests'[i] = requests[i]
        /\ requests'[Len(requests) + 1].type = "FOLLOW"
    BY <2>1, SendProperty DEF NetType
  <2>3. plan' = [plan EXCEPT ![v] = Len(requests) + 1] /\ state' = state
    BY <2>2, <1>5 DEF RequestFollow
  <2>4. platoonId' = platoonId /\ state[v] = "candidate"
    BY <1>5 DEF RequestFollow
  <2>5. platoonId'[v] # 0
    BY <2>4 DEF NegotiationInv
  <2>6. ASSUME NEW w \in Vehicle, w # v, plan[w] # 0
        PROVE  plan[w] \in 1 .. Len(requests) /\ requests'[plan[w]] = requests[plan[w]]
    <3>1. plan[w] \in Nat /\ plan[w] <= Len(requests)
      BY <2>6 DEF NegotiationInv, NetType
    <3>2. plan[w] \in 1 .. Len(requests)
      BY <2>2, <2>6, <3>1
    <3> QED
      BY <2>2, <3>2
  <2>7. \A w \in Vehicle : w # v => plan'[w] = plan[w] /\ platoonId'[w] = platoonId[w]
    BY <2>3, <2>4 DEF NetType, IdType
  <2>8. plan'[v] = Len(requests) + 1
    BY <2>3 DEF NetType
  <2>9. ASSUME NEW w \in Vehicle, w # v
        PROVE  /\ plan'[w] # 0 => /\ plan'[w] <= Len(requests')
                                  /\ state'[w] \in {"leader", "candidate"}
               /\ state'[w] = "candidate" /\ plan'[w] # 0 => requests'[plan'[w]].type = "FOLLOW"
               /\ state'[w] = "candidate" \/ plan'[w] # 0 => platoonId'[w] # 0
    <3>1. plan'[w] = plan[w] /\ platoonId'[w] = platoonId[w] /\ state'[w] = state[w]
      BY <2>3, <2>7, <2>9
    <3>2. plan[w] # 0 => plan[w] <= Len(requests') /\ requests'[plan[w]] = requests[plan[w]]
      BY <2>2, <2>6, <2>9
    <3> QED
      BY <3>1, <3>2 DEF NegotiationInv
  <2> QED
    BY <2>2, <2>3, <2>4, <2>5, <2>8, <2>9 DEF NegotiationInv
<1>6. ASSUME NEW v \in Vehicle, StateTimeout(v)
     PROVE  NegotiationInv'
  BY <1>6 DEF StateTimeout, NegotiationInv, StateType, NetType, IdType
<1>7. ASSUME NEW v \in Vehicle, GiveUp(v)
     PROVE  NegotiationInv'
  <2>0. late[v] # 0 => late[v] \in Vehicle
    BY LateType DEF StateType
  <2>1. /\ state' = [state EXCEPT ![v] = "leader"] /\ plan' = [plan EXCEPT ![v] = 0]
        /\ platoonId' = [platoonId EXCEPT ![v] = 0]
    BY <1>7 DEF GiveUp, Enter, setState
  <2>2. ASSUME NEW w \in Vehicle, plan[w] # 0
        PROVE  plan[w] <= Len(requests') /\ requests'[plan[w]] = requests[plan[w]]
    <3>1. plan[w] \in Nat /\ plan[w] <= Len(requests) /\ Len(requests) \in Nat
      BY <2>2 DEF NegotiationInv, NetType
    <3>2. CASE UNCHANGED requests
      BY <3>1, <3>2
    <3>3. CASE Send("FOLLOW", v, late[v], 1) /\ late[v] # 0
      <4>1. PICK m \in Request : requests' = Append(requests, m)
        BY <2>0, <3>3 DEF Send, Request
      <4>2. /\ Len(requests') = Len(requests) + 1
            /\ \A i \in 1 .. Len(requests) : requests'[i] = requests[i]
        BY <4>1, SendProperty DEF NetType
      <4> QED
        BY <2>2, <3>1, <4>2
    <3> QED
      BY <3>2, <3>3, <1>7 DEF GiveUp
  <2> QED
    BY <2>1, <2>2 DEF NegotiationInv, StateType, NetType, IdType
<1>8. ASSUME NEW v \in Vehicle, Follow(v)
     PROVE  NegotiationInv'
  BY <1>8 DEF Follow, Enter, setState, NegotiationInv, StateType, NetType, IdType
<1>9. ASSUME NEW v \in Vehicle, LookForLeader(v)
     PROVE  NegotiationInv'
  <2>1. CASE changeFromFollowerToLeader(v) /\ late' = [late EXCEPT ![v] = v] /\ UNCHANGED counter
    BY <2>1, <1>9
    DEF LookForLeader, changeFromFollowerToLeader, NegotiationInv, StateType, NetType, IdType
  <2>2. CASE /\ counter' = [counter EXCEPT ![v] = IF ~isFollower[v] \/ platoon[v] = {}
                                                 THEN @ + 1 ELSE 0]
             /\ ~((~isFollower[v] \/ platoon[v] = {}) /\ counter[v] + 1 >= CounterLimit)
             /\ UNCHANGED <<late, managerVars>>
    BY <2>2, <1>9 DEF LookForLeader, NegotiationInv, StateType, NetType, IdType
  <2> QED
    BY <2>1, <2>2, <1>9 DEF LookForLeader
<1>10. ASSUME NEW v \in Vehicle, removeExpiredMember(v)
     PROVE  NegotiationInv'
  BY <1>10 DEF removeExpiredMember, NegotiationInv, StateType, NetType, IdType
<1>11. ASSUME NEW l \in Vehicle, NEW v \in Vehicle, onInfo(l, v)
     PROVE  NegotiationInv'
  <2>1. PICK m \in Request : requests' = Append(requests, m) /\ m.type = "JOIN"
    BY <1>11, SizeType DEF onInfo, Send, Request, ManagerType, StateType
  <2>2. /\ Len(requests') = Len(requests) + 1 /\ Len(requests) \in Nat
        /\ \A i \in 1 .. Len(requests) : requests'[i] = requests[i]
        /\ requests'[Len(requests) + 1].type = "JOIN"
    BY <2>1, SendProperty DEF NetType
  <2>3. plan' = [plan EXCEPT ![v] = Len(requests) + 1] /\ state' = state
    BY <2>2, <1>11 DEF onInfo
  <2>4. platoonId' = [platoonId EXCEPT ![v] = currentId[l]] /\ state[v] = "leader"
    BY <1>11 DEF onInfo
  <2>5. platoonId'[v] # 0 /\ \A w \in Vehicle : w # v => platoonId'[w] = platoonId[w]
    BY <2>4 DEF IdType
  <2>6. ASSUME NEW w \in Vehicle, w # v, plan[w] # 0
        PROVE  plan[w] \in 1 .. Len(requests) /\ requests'[plan[w]] = requests[plan[w]]
    <3>1. plan[w] \in Nat /\ plan[w] <= Len(requests)
      BY <2>6 DEF NegotiationInv, NetType
    <3>2. plan[w] \in 1 .. Len(requests)
      BY <2>2, <2>6, <3>1
    <3> QED
      BY <2>2, <3>2
  <2>7. \A w \in Vehicle : w # v => plan'[w] = plan[w] /\ platoonId'[w] = platoonId[w]
    BY <2>3, <2>4 DEF NetType, IdType
  <2>8. plan'[v] = Len(requests) + 1
    BY <2>3 DEF NetType
  <2>9. ASSUME NEW w \in Vehicle, w # v
        PROVE  /\ plan'[w] # 0 => /\ plan'[w] <= Len(requests')
                                  /\ state'[w] \in {"leader", "candidate"}
               /\ state'[w] = "candidate" /\ plan'[w] # 0 => requests'[plan'[w]].type = "FOLLOW"
               /\ state'[w] = "candidate" \/ plan'[w] # 0 => platoonId'[w] # 0
    <3>1. plan'[w] = plan[w] /\ platoonId'[w] = platoonId[w] /\ state'[w] = state[w]
      BY <2>3, <2>7, <2>9
    <3>2. plan[w] # 0 => plan[w] <= Len(requests') /\ requests'[plan[w]] = requests[plan[w]]
      BY <2>2, <2>6, <2>9
    <3> QED
      BY <3>1, <3>2 DEF NegotiationInv
  <2> QED
    BY <2>2, <2>3, <2>4, <2>5, <2>8, <2>9 DEF NegotiationInv
<1>12. ASSUME NEW s \in Vehicle, NEW v \in Vehicle, onStatus(s, v)
     PROVE  NegotiationInv'
  BY <1>12 DEF onStatus, memberUpdates, NegotiationInv, StateType, NetType, IdType
<1>13. ASSUME NEW n \in DOMAIN requests, onJoin(n)
     PROVE  NegotiationInv'
  <2>1. requests[n].from \in Vehicle /\ requests[n].to \in Vehicle
    BY RequestType DEF NetType
  <2>2. CASE setState(requests[n].to, "waiting", requests[n].from, 0) /\ Accept(n)
    BY <2>1, <2>2, <1>13 DEF onJoin, setState, Accept, NegotiationInv, StateType, NetType, IdType
  <2>3. CASE Reject(n) /\ UNCHANGED responses
    BY <2>1, <2>3, <1>13
    DEF onJoin, Reject, ForgetPlan, NegotiationInv, StateType, NetType, IdType
  <2> QED
    BY <2>2, <2>3, <1>13 DEF onJoin
<1>14. ASSUME NEW n \in DOMAIN requests, onFollowerJoin(n)
     PROVE  NegotiationInv'
  <2>1. requests[n].from \in Vehicle /\ requests[n].to \in Vehicle
    BY RequestType DEF NetType
  <2> QED
    BY <2>1, <1>14 DEF onFollowerJoin, Enter, setState, NegotiationInv, StateType, NetType, IdType
<1>15. ASSUME NEW r \in responses, onJoinResponse(r)
     PROVE  NegotiationInv'
  <2>1. r.plan \in DOMAIN requests /\ requests[r.plan].from \in Vehicle
    BY RequestType DEF NetType
  <2>2. plan[requests[r.plan].from] # 0
    BY <2>1, <1>15, RequestType DEF onJoinResponse, IsForCurrentPlan
  <2> QED
    BY <2>1, <2>2, <1>15 DEF onJoinResponse, setState, NegotiationInv, StateType, NetType, IdType
<1>16. ASSUME NEW r \in responses, onFollowResponse(r)
     PROVE  NegotiationInv'
  <2>1. r.plan \in DOMAIN requests /\ requests[r.plan].from \in Vehicle
    BY RequestType DEF NetType
  <2> QED
    BY <2>1, <1>16 DEF onFollowResponse, NegotiationInv, StateType, NetType, IdType
<1>17. CASE UNCHANGED vars
  BY <1>17 DEF vars, NegotiationInv, StateType, NetType, IdType
<1> QED
  BY <1>1, <1>2, <1>3, <1>4, <1>5, <1>6, <1>7, <1>8, <1>9, <1>10, <1>11, <1>12, <1>13, <1>14,
     <1>15, <1>16, <1>17
  DEF Next, Step

(* Ids are given out by counting. *)
LEMMA IdsStep == IInv /\ [Next]_vars => IdsInUse'
<1> SUFFICES ASSUME IInv, [Next]_vars
             PROVE  IdsInUse'
  OBVIOUS
<1> USE Constants DEF IInv, stateVars, threadVars, managerVars, netVars
<1>1. ASSUME NEW v \in Vehicle, planTrajectory(v)
     PROVE  IdsInUse'
  <2>1. PICK s \in {"leader", "standby"} : Enter(v, s)
    BY <1>1 DEF planTrajectory
  <2>2. moves' = moves + 1 /\ moves < MaxMoves /\ UNCHANGED <<threadVars, managerVars, netVars>>
    BY <1>1 DEF planTrajectory
  <2> QED
    BY <2>1, <2>2 DEF Enter, setState, IdsInUse, IdType
<1>2. ASSUME NEW v \in Vehicle, onSuspend(v)
     PROVE  IdsInUse'
  BY <1>2 DEF onSuspend, IdsInUse, IdType
<1>3. ASSUME NEW v \in Vehicle, onResume(v)
     PROVE  IdsInUse'
  BY <1>3 DEF onResume, Enter, setState, changeFromFollowerToLeader, IdsInUse, IdType
<1>4. ASSUME NEW v \in Vehicle, PlanTimeout(v)
     PROVE  IdsInUse'
  BY <1>4 DEF PlanTimeout, ForgetPlan, IdsInUse, IdType
<1>5. ASSUME NEW v \in Vehicle, RequestFollow(v)
     PROVE  IdsInUse'
  BY <1>5 DEF RequestFollow, Send, IdsInUse, IdType
<1>6. ASSUME NEW v \in Vehicle, StateTimeout(v)
     PROVE  IdsInUse'
  BY <1>6 DEF StateTimeout, IdsInUse, IdType
<1>7. ASSUME NEW v \in Vehicle, GiveUp(v)
     PROVE  IdsInUse'
  BY <1>7 DEF GiveUp, Enter, setState, IdsInUse, IdType
<1>8. ASSUME NEW v \in Vehicle, Follow(v)
     PROVE  IdsInUse'
  BY <1>8 DEF Follow, Enter, setState, IdsInUse, IdType
<1>9. ASSUME NEW v \in Vehicle, LookForLeader(v)
     PROVE  IdsInUse'
  <2>1. CASE changeFromFollowerToLeader(v) /\ late' = [late EXCEPT ![v] = v] /\ UNCHANGED counter
    BY <2>1, <1>9 DEF LookForLeader, changeFromFollowerToLeader, IdsInUse, IdType
  <2>2. CASE /\ counter' = [counter EXCEPT ![v] = IF ~isFollower[v] \/ platoon[v] = {}
                                                 THEN @ + 1 ELSE 0]
             /\ ~((~isFollower[v] \/ platoon[v] = {}) /\ counter[v] + 1 >= CounterLimit)
             /\ UNCHANGED <<late, managerVars>>
    BY <2>2, <1>9 DEF LookForLeader, IdsInUse, IdType
  <2> QED
    BY <2>1, <2>2, <1>9 DEF LookForLeader
<1>10. ASSUME NEW v \in Vehicle, removeExpiredMember(v)
     PROVE  IdsInUse'
  BY <1>10 DEF removeExpiredMember, IdsInUse, IdType
<1>11. ASSUME NEW l \in Vehicle, NEW v \in Vehicle, onInfo(l, v)
     PROVE  IdsInUse'
  BY <1>11 DEF onInfo, Send, IdsInUse, IdType
<1>12. ASSUME NEW s \in Vehicle, NEW v \in Vehicle, onStatus(s, v)
     PROVE  IdsInUse'
  BY <1>12 DEF onStatus, memberUpdates, IdsInUse, IdType
<1>13. ASSUME NEW n \in DOMAIN requests, onJoin(n)
     PROVE  IdsInUse'
  <2>1. requests[n].from \in Vehicle /\ requests[n].to \in Vehicle
    BY RequestType DEF NetType
  <2>2. CASE setState(requests[n].to, "waiting", requests[n].from, 0) /\ Accept(n)
    BY <2>1, <2>2, <1>13 DEF onJoin, setState, Accept, IdsInUse, IdType
  <2>3. CASE Reject(n) /\ UNCHANGED responses
    BY <2>1, <2>3, <1>13 DEF onJoin, Reject, ForgetPlan, IdsInUse, IdType
  <2> QED
    BY <2>2, <2>3, <1>13 DEF onJoin
<1>14. ASSUME NEW n \in DOMAIN requests, onFollowerJoin(n)
     PROVE  IdsInUse'
  <2>1. requests[n].from \in Vehicle /\ requests[n].to \in Vehicle
    BY RequestType DEF NetType
  <2> QED
    BY <2>1, <1>14 DEF onFollowerJoin, Enter, setState, IdsInUse, IdType
<1>15. ASSUME NEW r \in responses, onJoinResponse(r)
     PROVE  IdsInUse'
  <2>1. r.plan \in DOMAIN requests /\ requests[r.plan].from \in Vehicle
    BY RequestType DEF NetType
  <2> QED
    BY <2>1, <1>15 DEF onJoinResponse, setState, IdsInUse, IdType
<1>16. ASSUME NEW r \in responses, onFollowResponse(r)
     PROVE  IdsInUse'
  <2>1. r.plan \in DOMAIN requests /\ requests[r.plan].from \in Vehicle
    BY RequestType DEF NetType
  <2> DEFINE v == requests[r.plan].from
  <2>2. /\ currentId' = [currentId EXCEPT ![v] = platoonId[v]] /\ ids' = ids
        /\ platoonId' = platoonId
    BY <1>16 DEF onFollowResponse, changeFromLeaderToFollower
  <2>3. v \in Vehicle /\ platoonId[v] <= ids
    BY <2>1 DEF IdsInUse
  <2> HIDE DEF v
  <2> QED
    BY <2>2, <2>3 DEF IdsInUse, IdType
<1>17. CASE UNCHANGED vars
  BY <1>17 DEF vars, IdsInUse, IdType
<1> QED
  BY <1>1, <1>2, <1>3, <1>4, <1>5, <1>6, <1>7, <1>8, <1>9, <1>10, <1>11, <1>12, <1>13, <1>14,
     <1>15, <1>16, <1>17
  DEF Next, Step

(* A follower looks only ahead. *)
LEMMA LeaderStep == IInv /\ [Next]_vars => LeaderInv'
<1> SUFFICES ASSUME IInv, [Next]_vars
             PROVE  LeaderInv'
  OBVIOUS
<1> USE Constants DEF IInv, stateVars, threadVars, managerVars, netVars
<1>1. ASSUME NEW v \in Vehicle, planTrajectory(v)
     PROVE  LeaderInv'
  BY <1>1 DEF planTrajectory, Enter, setState, LeaderInv, ManagerType
<1>2. ASSUME NEW v \in Vehicle, onSuspend(v)
     PROVE  LeaderInv'
  BY <1>2 DEF onSuspend, LeaderInv, ManagerType
<1>3. ASSUME NEW v \in Vehicle, onResume(v)
     PROVE  LeaderInv'
  BY <1>3 DEF onResume, Enter, setState, changeFromFollowerToLeader, LeaderInv, ManagerType
<1>4. ASSUME NEW v \in Vehicle, PlanTimeout(v)
     PROVE  LeaderInv'
  BY <1>4 DEF PlanTimeout, ForgetPlan, LeaderInv, ManagerType
<1>5. ASSUME NEW v \in Vehicle, RequestFollow(v)
     PROVE  LeaderInv'
  BY <1>5 DEF RequestFollow, Send, LeaderInv, ManagerType
<1>6. ASSUME NEW v \in Vehicle, StateTimeout(v)
     PROVE  LeaderInv'
  BY <1>6 DEF StateTimeout, LeaderInv, ManagerType
<1>7. ASSUME NEW v \in Vehicle, GiveUp(v)
     PROVE  LeaderInv'
  BY <1>7 DEF GiveUp, Enter, setState, LeaderInv, ManagerType
<1>8. ASSUME NEW v \in Vehicle, Follow(v)
     PROVE  LeaderInv'
  BY <1>8 DEF Follow, Enter, setState, LeaderInv, ManagerType
<1>9. ASSUME NEW v \in Vehicle, LookForLeader(v)
     PROVE  LeaderInv'
  <2>1. CASE changeFromFollowerToLeader(v) /\ late' = [late EXCEPT ![v] = v] /\ UNCHANGED counter
    BY <2>1, <1>9 DEF LookForLeader, changeFromFollowerToLeader, LeaderInv, ManagerType
  <2>2. CASE /\ counter' = [counter EXCEPT ![v] = IF ~isFollower[v] \/ platoon[v] = {}
                                                 THEN @ + 1 ELSE 0]
             /\ ~((~isFollower[v] \/ platoon[v] = {}) /\ counter[v] + 1 >= CounterLimit)
             /\ UNCHANGED <<late, managerVars>>
    BY <2>2, <1>9 DEF LookForLeader, LeaderInv, ManagerType
  <2> QED
    BY <2>1, <2>2, <1>9 DEF LookForLeader
<1>10. ASSUME NEW v \in Vehicle, removeExpiredMember(v)
     PROVE  LeaderInv'
  <2>1. PICK gone \in SUBSET platoon[v] :
          /\ platoon' = [platoon EXCEPT ![v] = @ \ gone] /\ isFollower' = isFollower
          /\ leaderID' = [leaderID EXCEPT ![v] = IF isFollower[v] THEN First(v, platoon'[v]) ELSE @]
    BY <1>10 DEF removeExpiredMember
  <2>2. platoon'[v] \in SUBSET Vehicle /\ platoon'[v] \subseteq platoon[v]
    BY <2>1 DEF ManagerType
  <2>3. isFollower[v] => \A m \in platoon'[v] : First(v, platoon'[v]) <= m /\ m < v
    BY <2>2, FirstProperty DEF LeaderInv
  <2>4. isFollower[v] => First(v, platoon'[v]) <= v
    <3>1. First(v, platoon'[v]) = v \/ First(v, platoon'[v]) \in platoon'[v]
      BY <2>2, FirstProperty
    <3>2. First(v, platoon'[v]) \in Nat
      BY <2>2, FirstProperty
    <3>3. CASE First(v, platoon'[v]) = v
      BY <3>2, <3>3
    <3>4. CASE First(v, platoon'[v]) \in platoon'[v]
      BY <2>3, <3>2, <3>4
    <3> QED
      BY <3>1, <3>3, <3>4
  <2> QED
    BY <2>1, <2>3, <2>4 DEF LeaderInv, ManagerType
<1>11. ASSUME NEW l \in Vehicle, NEW v \in Vehicle, onInfo(l, v)
     PROVE  LeaderInv'
  BY <1>11 DEF onInfo, Send, LeaderInv, ManagerType
<1>12. ASSUME NEW s \in Vehicle, NEW v \in Vehicle, onStatus(s, v)
     PROVE  LeaderInv'
  <2>1. platoon' = [platoon EXCEPT ![v] = @ \cup {s}] /\ isFollower' = isFollower /\ s # v
    BY <1>12 DEF onStatus, memberUpdates
  <2>2. platoon'[v] \in SUBSET Vehicle /\ platoon'[v] = platoon[v] \cup {s}
    BY <2>1 DEF ManagerType
  <2>3. CASE ~isFollower[v]
    <3>1. leaderID' = leaderID
      BY <2>3, <1>12 DEF onStatus, memberUpdates, ManagerType
    <3> QED
      BY <2>1, <2>3, <3>1 DEF LeaderInv, ManagerType
  <2>4. CASE isFollower[v] /\ currentId[v] = currentId[s] /\ s < v
    <3>1. leaderID' = [leaderID EXCEPT ![v] = First(v, platoon'[v])]
      BY <2>4, <1>12 DEF onStatus, memberUpdates, ManagerType
    <3>2. \A m \in platoon'[v] : First(v, platoon'[v]) <= m /\ m < v
      BY <2>2, <2>4, FirstProperty DEF LeaderInv
    <3>3. First(v, platoon'[v]) <= v
      <4>1. First(v, platoon'[v]) \in platoon'[v]
        BY <2>2, FirstProperty
      <4>2. First(v, platoon'[v]) \in Nat /\ v \in Nat
        BY <2>2, FirstProperty
      <4>3. First(v, platoon'[v]) < v
        BY <3>2, <4>1
      <4> QED
        BY <4>2, <4>3
    <3> QED
      BY <2>1, <3>1, <3>2, <3>3 DEF LeaderInv, ManagerType
  <2>5. CASE isFollower[v] /\ leaderID[v] = s /\ ~(currentId[v] = currentId[s] /\ s < v)
    <3>1. leaderID' = leaderID
      BY <2>5, <1>12 DEF onStatus, memberUpdates, ManagerType
    <3>2. s < v /\ \A m \in platoon'[v] : s <= m /\ m < v
      BY <2>1, <2>2, <2>5 DEF LeaderInv
    <3> QED
      BY <2>1, <2>5, <3>1, <3>2 DEF LeaderInv, ManagerType
  <2> QED
    BY <2>3, <2>4, <2>5, <1>12 DEF onStatus, memberUpdates, ManagerType
<1>13. ASSUME NEW n \in DOMAIN requests, onJoin(n)
     PROVE  LeaderInv'
  BY <1>13 DEF onJoin, Reject, ForgetPlan, Accept, setState, LeaderInv, ManagerType
<1>14. ASSUME NEW n \in DOMAIN requests, onFollowerJoin(n)
     PROVE  LeaderInv'
  BY <1>14 DEF onFollowerJoin, Accept, Enter, setState, LeaderInv, ManagerType
<1>15. ASSUME NEW r \in responses, onJoinResponse(r)
     PROVE  LeaderInv'
  BY <1>15 DEF onJoinResponse, IsForCurrentPlan, setState, LeaderInv, ManagerType
<1>16. ASSUME NEW r \in responses, onFollowResponse(r)
     PROVE  LeaderInv'
  <2>1. r.plan \in DOMAIN requests /\ requests[r.plan].from \in Vehicle
    BY RequestType DEF NetType
  <2>2. /\ isFollower' = [isFollower EXCEPT ![requests[r.plan].from] = TRUE]
        /\ platoon' = [platoon EXCEPT ![requests[r.plan].from] = {}] /\ leaderID' = leaderID
    BY <1>16 DEF onFollowResponse, changeFromLeaderToFollower
  <2> QED
    BY <2>1, <2>2 DEF LeaderInv, ManagerType
<1>17. CASE UNCHANGED vars
  BY <1>17 DEF vars, LeaderInv, ManagerType
<1> QED
  BY <1>1, <1>2, <1>3, <1>4, <1>5, <1>6, <1>7, <1>8, <1>9, <1>10, <1>11, <1>12, <1>13, <1>14,
     <1>15, <1>16, <1>17
  DEF Next, Step

(* A vehicle that uses the id of a leader drives behind it. *)
LEMMA BehindStep == IInv /\ [Next]_vars => FollowersAreBehind'
<1> SUFFICES ASSUME IInv, [Next]_vars
             PROVE  FollowersAreBehind'
  OBVIOUS
<1> USE Constants DEF IInv, stateVars, threadVars, managerVars, netVars
<1>1. ASSUME NEW v \in Vehicle, planTrajectory(v)
     PROVE  FollowersAreBehind'
  BY <1>1 DEF planTrajectory, Enter, setState, FollowersAreBehind, ManagerType
<1>2. ASSUME NEW v \in Vehicle, onSuspend(v)
     PROVE  FollowersAreBehind'
  BY <1>2 DEF onSuspend, FollowersAreBehind, ManagerType
<1>3. ASSUME NEW v \in Vehicle, onResume(v)
     PROVE  FollowersAreBehind'
  BY <1>3
  DEF onResume, Enter, setState, changeFromFollowerToLeader, FollowersAreBehind, ManagerType
<1>4. ASSUME NEW v \in Vehicle, PlanTimeout(v)
     PROVE  FollowersAreBehind'
  BY <1>4 DEF PlanTimeout, ForgetPlan, FollowersAreBehind, ManagerType
<1>5. ASSUME NEW v \in Vehicle, RequestFollow(v)
     PROVE  FollowersAreBehind'
  BY <1>5 DEF RequestFollow, Send, FollowersAreBehind, ManagerType
<1>6. ASSUME NEW v \in Vehicle, StateTimeout(v)
     PROVE  FollowersAreBehind'
  BY <1>6 DEF StateTimeout, FollowersAreBehind, ManagerType
<1>7. ASSUME NEW v \in Vehicle, GiveUp(v)
     PROVE  FollowersAreBehind'
  BY <1>7 DEF GiveUp, Enter, setState, FollowersAreBehind, ManagerType
<1>8. ASSUME NEW v \in Vehicle, Follow(v)
     PROVE  FollowersAreBehind'
  BY <1>8 DEF Follow, Enter, setState, FollowersAreBehind, ManagerType
<1>9. ASSUME NEW v \in Vehicle, LookForLeader(v)
     PROVE  FollowersAreBehind'
  <2>1. CASE changeFromFollowerToLeader(v) /\ late' = [late EXCEPT ![v] = v] /\ UNCHANGED counter
    BY <2>1, <1>9 DEF LookForLeader, changeFromFollowerToLeader, FollowersAreBehind, ManagerType
  <2>2. CASE /\ counter' = [counter EXCEPT ![v] = IF ~isFollower[v] \/ platoon[v] = {}
                                                 THEN @ + 1 ELSE 0]
             /\ ~((~isFollower[v] \/ platoon[v] = {}) /\ counter[v] + 1 >= CounterLimit)
             /\ UNCHANGED <<late, managerVars>>
    BY <2>2, <1>9 DEF LookForLeader, FollowersAreBehind, ManagerType
  <2> QED
    BY <2>1, <2>2, <1>9 DEF LookForLeader
<1>10. ASSUME NEW v \in Vehicle, removeExpiredMember(v)
     PROVE  FollowersAreBehind'
  BY <1>10 DEF removeExpiredMember, FollowersAreBehind, ManagerType
<1>11. ASSUME NEW l \in Vehicle, NEW v \in Vehicle, onInfo(l, v)
     PROVE  FollowersAreBehind'
  BY <1>11 DEF onInfo, Send, FollowersAreBehind, ManagerType
<1>12. ASSUME NEW s \in Vehicle, NEW v \in Vehicle, onStatus(s, v)
     PROVE  FollowersAreBehind'
  <2>1. platoon' = [platoon EXCEPT ![v] = @ \cup {s}] /\ isFollower' = isFollower /\ s # v
    BY <1>12 DEF onStatus, memberUpdates
  <2>2. ASSUME ~isFollower[v]
        PROVE  s > v
    <3>1. PICK owner \in [1 .. ids -> Vehicle] : OwnedBy(owner)
      BY DEF OwnerInv
    <3>2. currentId[s] = currentId[v]
      BY <2>2, <1>12 DEF onStatus, memberUpdates
    <3>3. owner[currentId[v]] = v /\ owner[currentId[s]] <= s
      BY <2>2, <3>1 DEF OwnedBy
    <3> QED
      BY <2>1, <3>2, <3>3
  <2> QED
    BY <2>1, <2>2 DEF FollowersAreBehind, ManagerType
<1>13. ASSUME NEW n \in DOMAIN requests, onJoin(n)
     PROVE  FollowersAreBehind'
  BY <1>13 DEF onJoin, Reject, ForgetPlan, Accept, setState, FollowersAreBehind, ManagerType
<1>14. ASSUME NEW n \in DOMAIN requests, onFollowerJoin(n)
     PROVE  FollowersAreBehind'
  BY <1>14 DEF onFollowerJoin, Accept, Enter, setState, FollowersAreBehind, ManagerType
<1>15. ASSUME NEW r \in responses, onJoinResponse(r)
     PROVE  FollowersAreBehind'
  BY <1>15 DEF onJoinResponse, IsForCurrentPlan, setState, FollowersAreBehind, ManagerType
<1>16. ASSUME NEW r \in responses, onFollowResponse(r)
     PROVE  FollowersAreBehind'
  <2>1. r.plan \in DOMAIN requests /\ requests[r.plan].from \in Vehicle
    BY RequestType DEF NetType
  <2>2. /\ isFollower' = [isFollower EXCEPT ![requests[r.plan].from] = TRUE]
        /\ platoon' = [platoon EXCEPT ![requests[r.plan].from] = {}] /\ leaderID' = leaderID
    BY <1>16 DEF onFollowResponse, changeFromLeaderToFollower
  <2> QED
    BY <2>1, <2>2 DEF FollowersAreBehind, ManagerType
<1>17. CASE UNCHANGED vars
  BY <1>17 DEF vars, FollowersAreBehind, ManagerType
<1> QED
  BY <1>1, <1>2, <1>3, <1>4, <1>5, <1>6, <1>7, <1>8, <1>9, <1>10, <1>11, <1>12, <1>13, <1>14,
     <1>15, <1>16, <1>17
  DEF Next, Step

(* A step that gives out no id, and in which nobody learns one, keeps the owners. *)
LEMMA SameOwner ==
    ASSUME IInv, UNCHANGED managerVars, \A v \in Vehicle : platoonId'[v] \in {0, platoonId[v]}
    PROVE  OwnerInv'
BY DEF IInv, managerVars, OwnerInv, OwnedBy

(* The vehicle that leads a new platoon owns its id, which nobody has used. *)
LEMMA NewOwner ==
    ASSUME IInv, NEW v \in Vehicle, changeFromFollowerToLeader(v),
           \A w \in Vehicle : platoonId'[w] \in {0, platoonId[w]}
    PROVE  OwnerInv'
<1> USE Constants DEF IInv
<1>1. PICK owner \in [1 .. ids -> Vehicle] : OwnedBy(owner)
  BY DEF OwnerInv
<1>2. ids \in Nat /\ ids' = ids + 1
  BY DEF changeFromFollowerToLeader, IdType
<1>3. PICK new \in [1 .. ids' -> Vehicle] :
        new[ids + 1] = v /\ \A i \in 1 .. ids : new[i] = owner[i]
  <2> DEFINE f == [i \in 1 .. ids + 1 |-> IF i = ids + 1 THEN v ELSE owner[i]]
  <2>1. f \in [1 .. ids' -> Vehicle] /\ f[ids + 1] = v /\ \A i \in 1 .. ids : f[i] = owner[i]
    BY <1>2
  <2> QED
    BY <2>1
<1>4. /\ currentId' = [currentId EXCEPT ![v] = ids + 1]
      /\ isFollower' = [isFollower EXCEPT ![v] = FALSE] /\ platoon' = [platoon EXCEPT ![v] = {}]
  BY <1>2 DEF changeFromFollowerToLeader
<1>5. \A w \in Vehicle : currentId[w] \in 1 .. ids /\ platoonId[w] \in 0 .. ids
  BY <1>2 DEF IdType, IdsInUse
<1>6. OwnedBy(new)'
  BY <1>1, <1>3, <1>4, <1>5 DEF OwnedBy, IdType, ManagerType
<1> QED
  BY <1>3, <1>6 DEF OwnerInv

(* A vehicle learns an id whose owner drives in front of it. *)
LEMMA OwnedById ==
    ASSUME IInv, NEW owner \in [1 .. ids -> Vehicle], OwnedBy(owner), UNCHANGED managerVars,
           NEW v \in Vehicle, NEW i \in 1 .. ids, owner[i] <= v,
           platoonId' = [platoonId EXCEPT ![v] = i]
    PROVE  OwnerInv'
<1>1. OwnedBy(owner)'
  BY DEF IInv, managerVars, OwnedBy, IdType
<1> QED
  BY <1>1 DEF OwnerInv, managerVars

(* The ownership of ids. *)
LEMMA OwnerStep == IInv /\ [Next]_vars => OwnerInv'
<1> SUFFICES ASSUME IInv, [Next]_vars
             PROVE  OwnerInv'
  OBVIOUS
<1> USE Constants DEF IInv, stateVars, threadVars, managerVars, netVars
<1>1. ASSUME NEW v \in Vehicle, planTrajectory(v)
     PROVE  OwnerInv'
  <2>1. PICK s \in {"leader", "standby"} : Enter(v, s)
    BY <1>1 DEF planTrajectory
  <2>2. UNCHANGED managerVars
    BY <1>1 DEF planTrajectory
  <2> QED
    BY <2>1, <2>2, SameOwner DEF Enter, setState, IdType
<1>2. ASSUME NEW v \in Vehicle, onSuspend(v)
     PROVE  OwnerInv'
  BY <1>2, SameOwner DEF onSuspend, IdType
<1>3. ASSUME NEW v \in Vehicle, onResume(v)
     PROVE  OwnerInv'
  <2>1. platoonId' = [platoonId EXCEPT ![v] = 0] /\ changeFromFollowerToLeader(v)
    BY <1>3 DEF onResume, Enter, setState
  <2> QED
    BY <2>1, NewOwner DEF IdType
<1>4. ASSUME NEW v \in Vehicle, PlanTimeout(v)
     PROVE  OwnerInv'
  BY <1>4, SameOwner DEF PlanTimeout, ForgetPlan, IdType
<1>5. ASSUME NEW v \in Vehicle, RequestFollow(v)
     PROVE  OwnerInv'
  BY <1>5, SameOwner DEF RequestFollow, IdType
<1>6. ASSUME NEW v \in Vehicle, StateTimeout(v)
     PROVE  OwnerInv'
  BY <1>6, SameOwner DEF StateTimeout, IdType
<1>7. ASSUME NEW v \in Vehicle, GiveUp(v)
     PROVE  OwnerInv'
  BY <1>7, SameOwner DEF GiveUp, Enter, setState, IdType
<1>8. ASSUME NEW v \in Vehicle, Follow(v)
     PROVE  OwnerInv'
  BY <1>8, SameOwner DEF Follow, Enter, setState, IdType
<1>9. ASSUME NEW v \in Vehicle, LookForLeader(v)
     PROVE  OwnerInv'
  <2>1. CASE changeFromFollowerToLeader(v)
    BY <2>1, <1>9, NewOwner DEF LookForLeader
  <2>2. CASE UNCHANGED managerVars
    BY <2>2, <1>9, SameOwner DEF LookForLeader
  <2> QED
    BY <2>1, <2>2, <1>9 DEF LookForLeader
<1>10. ASSUME NEW v \in Vehicle, removeExpiredMember(v)
     PROVE  OwnerInv'
  <2>1. PICK owner \in [1 .. ids -> Vehicle] : OwnedBy(owner)
    BY DEF OwnerInv
  <2>2. platoon'[v] \subseteq platoon[v] /\ \A w \in Vehicle : w # v => platoon'[w] = platoon[w]
    BY <1>10 DEF removeExpiredMember, ManagerType
  <2>3. UNCHANGED <<isFollower, currentId, ids, platoonId>>
    BY <1>10 DEF removeExpiredMember
  <2>4. OwnedBy(owner)'
    BY <2>1, <2>2, <2>3 DEF OwnedBy
  <2> QED
    BY <2>1, <2>3, <2>4 DEF OwnerInv
<1>11. ASSUME NEW l \in Vehicle, NEW v \in Vehicle, onInfo(l, v)
     PROVE  OwnerInv'
  <2>1. PICK owner \in [1 .. ids -> Vehicle] : OwnedBy(owner)
    BY DEF OwnerInv
  <2>2. UNCHANGED managerVars /\ platoonId' = [platoonId EXCEPT ![v] = currentId[l]] /\ Rear(l) < v
    BY <1>11 DEF onInfo
  <2>3. currentId[l] \in 1 .. ids
    BY DEF IdsInUse, IdType
  <2>4. owner[currentId[l]] \in Vehicle
    BY <2>1, <2>3
  <2>5. \A m \in platoon[l] : m \in Vehicle /\ m <= Rear(l)
    BY RearProperty DEF ManagerType
  <2>6. Rear(l) \in Vehicle /\ (platoon[l] = {} => Rear(l) = l)
    BY RearProperty DEF ManagerType
  <2>7. CASE platoon[l] = {} \/ ~isFollower[l]
    <3>1. owner[currentId[l]] <= l
      BY <2>1 DEF OwnedBy
    <3>2. l <= Rear(l)
      <4>1. CASE platoon[l] = {}
        BY <2>6, <4>1
      <4>2. CASE platoon[l] # {}
        <5>1. PICK m \in platoon[l] : m > l
          BY <2>7, <4>2 DEF FollowersAreBehind
        <5>2. l \in Nat /\ m \in Nat /\ Rear(l) \in Nat /\ m <= Rear(l)
          BY <2>5, <2>6
        <5> QED
          BY <5>1, <5>2
      <4> QED
        BY <4>1, <4>2
    <3>3. owner[currentId[l]] <= v
      <4>1. owner[currentId[l]] \in Nat /\ l \in Nat /\ Rear(l) \in Nat /\ v \in Nat
        BY <2>4, <2>6
      <4> QED
        BY <2>2, <3>1, <3>2, <4>1
    <3> QED
      BY <2>1, <2>2, <2>3, <3>3, OwnedById
  <2>8. CASE platoon[l] # {} /\ isFollower[l]
    <3>1. PICK m \in platoon[l] : owner[currentId[l]] <= m
      BY <2>1, <2>8 DEF OwnedBy
    <3>2. owner[currentId[l]] <= v
      <4>1. owner[currentId[l]] \in Nat /\ m \in Nat /\ Rear(l) \in Nat /\ v \in Nat /\ m <= Rear(l)
        BY <2>4, <2>5, <2>6
      <4> QED
        BY <2>2, <3>1, <4>1
    <3> QED
      BY <2>1, <2>2, <2>3, <3>2, OwnedById
  <2> QED
    BY <2>7, <2>8
<1>12. ASSUME NEW s \in Vehicle, NEW v \in Vehicle, onStatus(s, v)
     PROVE  OwnerInv'
  <2>1. PICK owner \in [1 .. ids -> Vehicle] : OwnedBy(owner)
    BY DEF OwnerInv
  <2>2. /\ platoon' = [platoon EXCEPT ![v] = @ \cup {s}]
        /\ currentId' = [currentId EXCEPT ![v] = currentId[s]]
        /\ UNCHANGED <<isFollower, ids, platoonId>> /\ s # v
    BY <1>12 DEF onStatus, memberUpdates
  <2>3. owner[currentId[s]] <= s /\ owner[currentId[s]] \in Nat
    <3>1. currentId[s] \in 1 .. ids
      BY DEF IdsInUse, IdType
    <3>2. owner[currentId[s]] \in Vehicle
      BY <2>1, <3>1
    <3> QED
      BY <2>1, <3>2 DEF OwnedBy
  <2>4. currentId[s] = currentId[v] \/ (isFollower[v] /\ leaderID[v] = s)
    BY <1>12 DEF onStatus, memberUpdates
  <2>5. owner[currentId[s]] <= v
    <3>1. CASE currentId[s] = currentId[v]
      BY <2>1, <3>1 DEF OwnedBy
    <3>2. CASE leaderID[v] = s
      <4>1. s <= v /\ s \in Nat /\ v \in Nat
        BY <3>2 DEF LeaderInv
      <4> QED
        BY <2>3, <4>1
    <3> QED
      BY <2>4, <3>1, <3>2
  <2>6. isFollower[v] => \A m \in platoon[v] \cup {s} : owner[currentId[s]] <= m
    <3>1. CASE currentId[s] = currentId[v]
      BY <2>1, <2>3, <3>1 DEF OwnedBy
    <3>2. CASE isFollower[v] /\ leaderID[v] = s
      <4>1. ASSUME NEW m \in platoon[v]
            PROVE  owner[currentId[s]] <= m
        <5>1. s <= m
          BY <3>2 DEF LeaderInv
        <5>2. s \in Nat /\ m \in Nat
          BY DEF ManagerType
        <5> QED
          BY <2>3, <5>1, <5>2
      <4> QED
        BY <2>3, <4>1
    <3> QED
      BY <2>4, <3>1, <3>2
  <2>7. ~isFollower[v] => owner[currentId[s]] = v
    BY <2>1, <2>4 DEF OwnedBy
  <2>8. OwnedBy(owner)'
    BY <2>1, <2>2, <2>5, <2>6, <2>7 DEF OwnedBy, ManagerType, IdType
  <2> QED
    BY <2>1, <2>2, <2>8 DEF OwnerInv
<1>13. ASSUME NEW n \in DOMAIN requests, onJoin(n)
     PROVE  OwnerInv'
  <2>1. requests[n].from \in Vehicle /\ requests[n].to \in Vehicle
    BY RequestType DEF NetType
  <2>2. UNCHANGED managerVars
    BY <1>13 DEF onJoin
  <2>3. CASE setState(requests[n].to, "waiting", requests[n].from, 0)
    BY <2>1, <2>2, <2>3, SameOwner DEF setState, IdType
  <2>4. CASE Reject(n)
    BY <2>1, <2>2, <2>4, SameOwner DEF Reject, ForgetPlan, IdType
  <2> QED
    BY <2>3, <2>4, <1>13 DEF onJoin
<1>14. ASSUME NEW n \in DOMAIN requests, onFollowerJoin(n)
     PROVE  OwnerInv'
  <2>1. requests[n].from \in Vehicle /\ requests[n].to \in Vehicle
    BY RequestType DEF NetType
  <2> QED
    BY <2>1, <1>14, SameOwner DEF onFollowerJoin, Enter, setState, IdType
<1>15. ASSUME NEW r \in responses, onJoinResponse(r)
     PROVE  OwnerInv'
  <2>1. r.plan \in DOMAIN requests /\ requests[r.plan].from \in Vehicle
    BY RequestType DEF NetType
  <2> QED
    BY <2>1, <1>15, SameOwner DEF onJoinResponse, setState, IdType
<1>16. ASSUME NEW r \in responses, onFollowResponse(r)
     PROVE  OwnerInv'
  <2>1. r.plan \in DOMAIN requests /\ requests[r.plan].from \in Vehicle
    BY RequestType DEF NetType
  <2> DEFINE v == requests[r.plan].from
  <2>2. PICK owner \in [1 .. ids -> Vehicle] : OwnedBy(owner)
    BY DEF OwnerInv
  <2>3. /\ isFollower' = [isFollower EXCEPT ![v] = TRUE] /\ ids' = ids
        /\ currentId' = [currentId EXCEPT ![v] = platoonId[v]]
        /\ platoonId' = platoonId /\ platoon' = [platoon EXCEPT ![v] = {}]
    BY <1>16 DEF onFollowResponse, changeFromLeaderToFollower
  <2>4. owner[platoonId[v]] <= v
    BY <2>1, <2>2, <1>16 DEF onFollowResponse, NegotiationInv, OwnedBy
  <2>5. OwnedBy(owner)'
    BY <2>1, <2>2, <2>3, <2>4 DEF OwnedBy, ManagerType, IdType
  <2> QED
    BY <2>2, <2>3, <2>5 DEF OwnerInv
<1>17. CASE UNCHANGED vars
  BY <1>17, SameOwner DEF vars, IdType
<1> QED
  BY <1>1, <1>2, <1>3, <1>4, <1>5, <1>6, <1>7, <1>8, <1>9, <1>10, <1>11, <1>12, <1>13, <1>14,
     <1>15, <1>16, <1>17
  DEF Next, Step

-----------------------------------------------------------------------------
(* The theorems *)

(* In every reachable state all parts of the invariant hold together. *)
THEOREM Invariant == Spec => []IInv
<1>1. Init => IInv
  <2> SUFFICES ASSUME Init
               PROVE  IInv
    OBVIOUS
  <2> USE Constants DEF Init
  <2>1. StateType /\ ManagerType /\ IdType
    BY DEF StateType, ManagerType, IdType, Vehicle
  <2>2. NetType
    BY DEF NetType
  <2>3. NegotiationInv /\ IdsInUse /\ LeaderInv /\ FollowersAreBehind
    BY DEF NegotiationInv, IdsInUse, LeaderInv, FollowersAreBehind, Vehicle
  <2>4. OwnerInv
    <3>1. [v \in 1 .. ids |-> v] \in [1 .. ids -> Vehicle]
      BY DEF Vehicle
    <3>2. OwnedBy([v \in 1 .. ids |-> v])
      BY DEF OwnedBy, Vehicle
    <3> QED
      BY <3>1, <3>2 DEF OwnerInv
  <2> QED
    BY <2>1, <2>2, <2>3, <2>4 DEF IInv
<1>2. IInv /\ [Next]_vars => IInv'
  BY StateTypeStep, ManagerTypeStep, IdTypeStep, NetTypeStep, NegotiationStep, IdsStep,
     LeaderStep, BehindStep, OwnerStep DEF IInv
<1> QED
  BY <1>1, <1>2, PTL DEF Spec

(* States, managers and messages have their types, and no vehicle uses id 0, "no platoon", as
   the id of its platoon. *)
THEOREM PlatooningTypeCorrect == Spec => []TypeOK
<1>1. IInv => TypeOK
  BY DEF IInv, TypeOK, StateType, ManagerType, IdType, NetType, Request
<1> QED
  BY <1>1, Invariant, PTL

(* Among any number of vehicles, whoever joins, leaves, expires, is suspended or resumed, a
   follower's leader drives in front of it (PlatoonManager.memberUpdates). *)
THEOREM FollowersLookAhead == Spec => []LeaderIsAhead
<1>1. IInv => LeaderIsAhead
  BY DEF IInv, LeaderInv, LeaderIsAhead
<1> QED
  BY <1>1, Invariant, PTL

(* The members that a leading manager counts drive behind it, although platoon ids are handed
   on from vehicle to vehicle. *)
THEOREM LeadersLookBack == Spec => []FollowersAreBehind
BY Invariant, PTL DEF IInv

(* Only the answer to its own request to follow makes a vehicle's manager a follower, and only
   the handler of that answer its state, with any number of requests on the air and any delay. *)
THEOREM FollowingNeedsConsent == Spec => FollowsByConsent
<1> DEFINE Consent(v) ==
       /\ (~isFollower[v] /\ isFollower'[v]) \/ (~following[v] /\ following'[v]) =>
             \E r \in responses : /\ r.plan = plan[v] /\ r.from = peer[v]
                                  /\ requests[r.plan].type = "FOLLOW"
       /\ state[v] # "follower" /\ state'[v] = "follower" => following[v]
<1>1. IInv /\ [Next]_vars => [\A w \in Vehicle : Consent(w)]_vars
  <2> SUFFICES ASSUME IInv, [Next]_vars
               PROVE  \A w \in Vehicle : Consent(w)
    OBVIOUS
  <2> USE Constants DEF IInv, stateVars, threadVars, managerVars, netVars, StateType, ManagerType
  <2>1. ASSUME NEW v \in Vehicle, planTrajectory(v)
        PROVE  \A w \in Vehicle : Consent(w)
    <3>1. PICK s \in {"leader", "standby"} : state' = [state EXCEPT ![v] = s]
      BY <2>1 DEF planTrajectory, Enter, setState
    <3>2. UNCHANGED <<following, isFollower>>
      BY <2>1 DEF planTrajectory
    <3> QED
      BY <3>1, <3>2
  <2>2. ASSUME NEW v \in Vehicle, onSuspend(v)
        PROVE  \A w \in Vehicle : Consent(w)
    BY <2>2 DEF onSuspend
  <2>3. ASSUME NEW v \in Vehicle, onResume(v)
        PROVE  \A w \in Vehicle : Consent(w)
    BY <2>3 DEF onResume, Enter, setState, changeFromFollowerToLeader
  <2>4. ASSUME NEW v \in Vehicle, PlanTimeout(v)
        PROVE  \A w \in Vehicle : Consent(w)
    BY <2>4 DEF PlanTimeout, ForgetPlan
  <2>5. ASSUME NEW v \in Vehicle, RequestFollow(v)
        PROVE  \A w \in Vehicle : Consent(w)
    BY <2>5 DEF RequestFollow, Send
  <2>6. ASSUME NEW v \in Vehicle, StateTimeout(v)
        PROVE  \A w \in Vehicle : Consent(w)
    BY <2>6 DEF StateTimeout
  <2>7. ASSUME NEW v \in Vehicle, GiveUp(v)
        PROVE  \A w \in Vehicle : Consent(w)
    BY <2>7 DEF GiveUp, Enter, setState
  <2>8. ASSUME NEW v \in Vehicle, Follow(v)
        PROVE  \A w \in Vehicle : Consent(w)
    BY <2>8 DEF Follow, Enter, setState
  <2>9. ASSUME NEW v \in Vehicle, LookForLeader(v)
        PROVE  \A w \in Vehicle : Consent(w)
    BY <2>9 DEF LookForLeader, changeFromFollowerToLeader
  <2>10. ASSUME NEW v \in Vehicle, removeExpiredMember(v)
        PROVE  \A w \in Vehicle : Consent(w)
    BY <2>10 DEF removeExpiredMember
  <2>11. ASSUME NEW l \in Vehicle, NEW v \in Vehicle, onInfo(l, v)
        PROVE  \A w \in Vehicle : Consent(w)
    BY <2>11 DEF onInfo, Send
  <2>12. ASSUME NEW s \in Vehicle, NEW v \in Vehicle, onStatus(s, v)
        PROVE  \A w \in Vehicle : Consent(w)
    BY <2>12 DEF onStatus, memberUpdates
  <2>13. ASSUME NEW n \in DOMAIN requests, onJoin(n)
        PROVE  \A w \in Vehicle : Consent(w)
    <3>1. state' = state \/ state' = [state EXCEPT ![requests[n].to] = "waiting"]
      BY <2>13 DEF onJoin, Reject, ForgetPlan, setState
    <3>2. UNCHANGED <<following, isFollower>>
      BY <2>13 DEF onJoin
    <3> QED
      BY <3>1, <3>2, RequestType
  <2>14. ASSUME NEW n \in DOMAIN requests, onFollowerJoin(n)
        PROVE  \A w \in Vehicle : Consent(w)
    <3>1. state' = [state EXCEPT ![requests[n].to] = "leader"]
      BY <2>14 DEF onFollowerJoin, Enter, setState
    <3>2. UNCHANGED <<following, isFollower>>
      BY <2>14 DEF onFollowerJoin
    <3> QED
      BY <3>1, <3>2, RequestType
  <2>15. ASSUME NEW r \in responses, onJoinResponse(r)
        PROVE  \A w \in Vehicle : Consent(w)
    <3>1. state' = [state EXCEPT ![requests[r.plan].from] = "candidate"]
      BY <2>15 DEF onJoinResponse, setState
    <3>2. UNCHANGED <<following, isFollower>>
      BY <2>15 DEF onJoinResponse
    <3> QED
      BY <3>1, <3>2, RequestType
  <2>16. ASSUME NEW r \in responses, onFollowResponse(r)
        PROVE  \A w \in Vehicle : Consent(w)
    <3> DEFINE v == requests[r.plan].from
    <3>1. state' = state /\ state[v] = "candidate"
          /\ plan[v] = r.plan /\ peer[v] = r.from /\ v \in Vehicle /\ r.plan \in Nat \ {0}
      BY <2>16, RequestType DEF onFollowResponse, IsForCurrentPlan
    <3>2. requests[r.plan].type = "FOLLOW"
      BY <3>1 DEF NegotiationInv
    <3>3. /\ following' = [following EXCEPT ![v] = TRUE]
          /\ isFollower' = [isFollower EXCEPT ![v] = TRUE]
      BY <2>16 DEF onFollowResponse, changeFromLeaderToFollower
    <3> QED
      BY <3>1, <3>2, <3>3
  <2>17. CASE UNCHANGED vars
    BY <2>17 DEF vars
  <2> QED
    BY <2>1, <2>2, <2>3, <2>4, <2>5, <2>6, <2>7, <2>8, <2>9, <2>10, <2>11, <2>12, <2>13, <2>14,
       <2>15, <2>16, <2>17 DEF Next, Step
<1>2. IInv /\ [Next]_vars =>
        [\A v \in Vehicle :
           /\ (~isFollower[v] /\ isFollower'[v]) \/ (~following[v] /\ following'[v]) =>
                 \E r \in responses : /\ r.plan = plan[v] /\ r.from = peer[v]
                                      /\ requests[r.plan].type = "FOLLOW"
           /\ state[v] # "follower" /\ state'[v] = "follower" => following[v]]_vars
  BY <1>1
<1> QED
  BY <1>2, Invariant, PTL DEF Spec, FollowsByConsent
=============================================================================
