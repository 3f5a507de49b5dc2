---------------------------- MODULE Platooning ----------------------------
(***************************************************************************)
(* The platooning plugins of several vehicles that drive one behind the    *)
(* other: the state of each (PlatooningPlugin.state), its PlatoonManager,  *)
(* and the mobility messages between them.                                 *)
(*                                                                         *)
(* Requests and responses are never removed from the model's sets: they    *)
(* may arrive late, in any order, several times, or never.  INFO and       *)
(* STATUS, which are repeated all the time, arrive at once or not at all;  *)
(* so do rejections, since a late one does no more than the time-out.      *)
(* Distances are abstracted to the order of the vehicles; whether a gap is *)
(* small enough is chosen freely, and so is platoonSize, the size a        *)
(* follower was last told.                                                 *)
(***************************************************************************)
EXTENDS Naturals, Sequences, FiniteSetsExt

CONSTANTS Vehicles,     \* number of vehicles; vehicle 1 drives in front
          MaxSize,      \* maxPlatoonSize
          CounterLimit, \* LEADER_TIMEOUT_COUNTER_LIMIT
          MaxPlans,     \* bound: requests sent
          MaxMoves,     \* bound: trajectories and resumes that change the state
          MaxIds        \* bound: platoon ids

ASSUME PlatooningAssumption ==
    /\ {Vehicles, MaxSize, CounterLimit, MaxPlans, MaxMoves, MaxIds} \subseteq Nat
    /\ CounterLimit > 0 /\ MaxIds >= Vehicles

Vehicle == 1 .. Vehicles

VARIABLES
    state,       \* the vehicle's IPlatooningState
    plan,        \* its currentPlan: the number of the request, 0 when there is none
    peer,        \* the vehicle it negotiates with: peerId, targetLeaderId, applicantId
    platoonId,   \* the id of the platoon it wants to join
    counter,     \* noLeaderUpdatesCounter
    late,        \* a state thread has found a time out and is about to call setState: 0 when
                 \* there is none, else the vehicle it may still send a request to
    following,   \* the handler of an accepting answer is about to call setState
    alive,       \* the plugin is not suspended, or a state thread was started since
    isFollower, currentId, leaderID, platoon,  \* PlatoonManager
    requests,    \* sequence of all requests
    responses,   \* set of all responses that accept
    moves, ids   \* what has happened, for the bounds

stateVars   == <<state, plan, peer, platoonId, counter, alive>>
managerVars == <<isFollower, currentId, leaderID, platoon, ids>>
netVars     == <<requests, responses>>
threadVars  == <<late, following>>
vars == <<stateVars, threadVars, managerVars, netVars, moves>>

Leading == {"leader", "waiting", "candidate"}

-----------------------------------------------------------------------------
(* PlatooningPlugin.setState: a new state object, with its own thread. *)
setState(v, s, p, id) ==
    /\ state' = [state EXCEPT ![v] = s]
    /\ plan' = [plan EXCEPT ![v] = 0]
    /\ peer' = [peer EXCEPT ![v] = p]
    /\ platoonId' = [platoonId EXCEPT ![v] = id]
    /\ counter' = [counter EXCEPT ![v] = 0]
    /\ alive' = [alive EXCEPT ![v] = TRUE]

Enter(v, s) == setState(v, s, v, 0)

(* getTotalPlatooningSize; platoonSize may be anything. *)
TotalPlatooningSize(v) ==
    IF isFollower[v] THEN 1 .. MaxSize ELSE {Cardinality(platoon[v]) + 1}

(* getPlatoonRearDowntrackDistance *)
Rear(v) == IF platoon[v] = {} THEN v ELSE Max(platoon[v])

(* platoon.get(0), or the host itself *)
First(v, members) == IF members = {} THEN v ELSE Min(members)

Send(type, v, to, size) ==
    requests' = Append(requests, [type |-> type, from |-> v, to |-> to, size |-> size])

Accept(n) ==
    responses' = responses \cup {[plan |-> n, from |-> requests[n].to]}

changeFromLeaderToFollower(v, id) ==
    /\ isFollower' = [isFollower EXCEPT ![v] = TRUE]
    /\ currentId' = [currentId EXCEPT ![v] = id]
    /\ platoon' = [platoon EXCEPT ![v] = {}]
    /\ UNCHANGED <<leaderID, ids>>

(* Mutant: the new leader keeps the id of the platoon it has lost. *)
changeFromFollowerToLeader_sameId(v) ==
    /\ ids < MaxIds
    /\ ids' = ids + 1
    /\ isFollower' = [isFollower EXCEPT ![v] = FALSE]
    /\ leaderID' = [leaderID EXCEPT ![v] = v]
    /\ platoon' = [platoon EXCEPT ![v] = {}]
    /\ UNCHANGED currentId

(* A new platoon with a new id. *)
changeFromFollowerToLeader(v) ==
    /\ ids < MaxIds
    /\ ids' = ids + 1
    /\ isFollower' = [isFollower EXCEPT ![v] = FALSE]
    /\ currentId' = [currentId EXCEPT ![v] = ids']
    /\ leaderID' = [leaderID EXCEPT ![v] = v]
    /\ platoon' = [platoon EXCEPT ![v] = {}]

-----------------------------------------------------------------------------
(* planTrajectory of the states: the next trajectory has a platooning window or not. *)
planTrajectory(v) ==
    /\ moves < MaxMoves /\ moves' = moves + 1
    /\ \/ state[v] = "standby" /\ Enter(v, "leader")
       \/ state[v] # "standby" /\ Enter(v, "standby")
    /\ UNCHANGED <<threadVars, managerVars, netVars>>

onSuspend(v) ==
    /\ alive[v] /\ moves < MaxMoves
    /\ alive' = [alive EXCEPT ![v] = FALSE]
    /\ UNCHANGED <<state, plan, peer, platoonId, counter, threadVars, managerVars, netVars, moves>>

(* After a suspend the plugin gets a new PlatoonManager. *)
onResume(v) ==
    /\ ~alive[v] /\ moves < MaxMoves /\ moves' = moves + 1
    /\ Enter(v, "standby")
    /\ changeFromFollowerToLeader(v)
    /\ UNCHANGED <<threadVars, netVars>>

-----------------------------------------------------------------------------
(* LeaderState *)

(* The INFO heart beat of l reaches v, which asks to join at the rear of a platoon in front
   of it. *)
onInfo(l, v) ==
    /\ l # v /\ state[l] = "leader" /\ alive[l] /\ ~following[v]
    /\ state[v] = "leader" /\ plan[v] = 0 /\ Rear(l) < v
    /\ Len(requests) < MaxPlans
    /\ \E size \in TotalPlatooningSize(v) : Send("JOIN", v, l, size)
    /\ plan' = [plan EXCEPT ![v] = Len(requests')]
    /\ peer' = [peer EXCEPT ![v] = l]
    /\ platoonId' = [platoonId EXCEPT ![v] = currentId[l]]
    /\ UNCHANGED <<state, counter, alive, threadVars, managerVars, responses, moves>>

(* Mutant: any answer of the peer is taken for the answer to the current plan. *)
IsForCurrentPlan_peer(v, r) == plan[v] # 0 /\ requests[r.plan].from = v /\ peer[v] = r.from

(* The response is for the plan the vehicle waits for, and from its peer. *)
IsForCurrentPlan(v, r) == plan[v] = r.plan /\ peer[v] = r.from

(* currentPlan = null; the peer goes with the plan. *)
ForgetPlan(v) ==
    /\ plan' = [plan EXCEPT ![v] = 0]
    /\ peer' = [peer EXCEPT ![v] = v]
    /\ platoonId' = [platoonId EXCEPT ![v] = 0]
    /\ UNCHANGED <<state, counter, alive>>

(* A rejection of request n reaches the vehicle that sent it. *)
Reject(n) ==
    LET v == requests[n].from IN
    /\ state[v] = "leader" /\ IsForCurrentPlan(v, [plan |-> n, from |-> requests[n].to])
    /\ ForgetPlan(v)

(* A request to join reaches a leader.  The gap must not be negative. *)
onJoin(n) ==
    LET m == requests[n] v == m.to IN
    /\ m.type = "JOIN" /\ state[v] = "leader" /\ ~following[v]
    /\ \/ /\ \E size \in TotalPlatooningSize(v) : m.size + size <= MaxSize
          /\ Rear(v) < m.from
          /\ setState(v, "waiting", m.from, 0) /\ Accept(n)
       \/ Reject(n) /\ UNCHANGED responses
    /\ UNCHANGED <<threadVars, managerVars, requests, moves>>

onJoinResponse(r) ==
    LET v == requests[r.plan].from IN
    /\ state[v] = "leader" /\ IsForCurrentPlan(v, r) /\ ~following[v]
    /\ setState(v, "candidate", peer[v], platoonId[v])
    /\ UNCHANGED <<threadVars, managerVars, netVars, moves>>

PlanTimeout(v) ==
    /\ state[v] = "leader" /\ alive[v] /\ plan[v] # 0
    /\ ForgetPlan(v)
    /\ UNCHANGED <<threadVars, managerVars, netVars, moves>>

-----------------------------------------------------------------------------
(* LeaderWaitingState and CandidateFollowerState *)

(* The request of the applicant to follow reaches the waiting leader. *)
onFollowerJoin(n) ==
    LET m == requests[n] v == m.to IN
    /\ m.type = "FOLLOW" /\ state[v] = "waiting" /\ peer[v] = m.from /\ ~following[v]
    /\ Enter(v, "leader") /\ Accept(n)
    /\ UNCHANGED <<threadVars, managerVars, requests, moves>>

(* The candidate has come close enough. *)
RequestFollow(v) ==
    /\ state[v] = "candidate" /\ alive[v] /\ plan[v] = 0 /\ Len(requests) < MaxPlans
    /\ Send("FOLLOW", v, peer[v], 1)
    /\ plan' = [plan EXCEPT ![v] = Len(requests')]
    /\ UNCHANGED <<state, peer, platoonId, counter, alive, threadVars, managerVars, responses, moves>>

(* A leader in this state answers a request to follow only by accepting it, so that the
   branch for a rejection is never taken.  The PlatoonManager follows first. *)
onFollowResponse(r) ==
    LET v == requests[r.plan].from IN
    /\ state[v] = "candidate" /\ IsForCurrentPlan(v, r) /\ ~following[v]
    /\ changeFromLeaderToFollower(v, platoonId[v])
    /\ following' = [following EXCEPT ![v] = TRUE]
    /\ UNCHANGED <<stateVars, late, netVars, moves>>

(* Then the state does, whatever it has become: the handlers share a lock, which neither the
   state threads nor planTrajectory take. *)
Follow(v) ==
    /\ following[v]
    /\ following' = [following EXCEPT ![v] = FALSE]
    /\ Enter(v, "follower")
    /\ UNCHANGED <<late, managerVars, netVars, moves>>

(* The thread of a waiting or candidate state reads the clock; the change of state is a
   later step, which the interrupt of another setState does not stop. *)
StateTimeout(v) ==
    /\ state[v] \in {"waiting", "candidate"} /\ alive[v] /\ late[v] = 0
    /\ late' = [late EXCEPT ![v] = IF state[v] = "candidate" THEN peer[v] ELSE v]
    /\ UNCHANGED <<stateVars, following, managerVars, netVars, moves>>

(* Mutant: the thread of a candidate never gives up. *)
GiveUp_waitingOnly(v) ==
    /\ late[v] = v
    /\ late' = [late EXCEPT ![v] = 0]
    /\ Enter(v, "leader")
    /\ UNCHANGED <<following, managerVars, netVars, moves>>

(* The thread of a candidate finishes its round, and may thus still ask to follow. *)
GiveUp(v) ==
    /\ late[v] # 0
    /\ late' = [late EXCEPT ![v] = 0]
    /\ Enter(v, "leader")
    /\ \/ UNCHANGED requests
       \/ late[v] # v /\ Len(requests) < MaxPlans /\ Send("FOLLOW", v, late[v], 1)
    /\ UNCHANGED <<following, managerVars, responses, moves>>

-----------------------------------------------------------------------------
(* FollowerState and PlatoonManager *)

(* Mutant: the rounds without a leader are not counted. *)
LookForLeader_uncounted(v) ==
    LET alone == ~isFollower[v] \/ platoon[v] = {} IN
    /\ state[v] = "follower" /\ alive[v] /\ late[v] = 0
    /\ IF alone /\ counter[v] + 1 >= CounterLimit
       THEN /\ changeFromFollowerToLeader(v)
            /\ late' = [late EXCEPT ![v] = v]
            /\ UNCHANGED counter
       ELSE /\ counter' = [counter EXCEPT ![v] = 0]
            /\ UNCHANGED <<threadVars, managerVars>>
    /\ UNCHANGED <<state, plan, peer, platoonId, alive, following, netVars, moves>>

(* One round of the follower's thread. *)
LookForLeader(v) ==
    LET alone == ~isFollower[v] \/ platoon[v] = {} IN
    /\ state[v] = "follower" /\ alive[v] /\ late[v] = 0
    /\ IF alone /\ counter[v] + 1 >= CounterLimit
       THEN /\ changeFromFollowerToLeader(v)
            /\ late' = [late EXCEPT ![v] = v]
            /\ UNCHANGED counter
       ELSE /\ counter' = [counter EXCEPT ![v] = IF alone THEN @ + 1 ELSE 0]
            /\ UNCHANGED <<threadVars, managerVars>>
    /\ UNCHANGED <<state, plan, peer, platoonId, alive, following, netVars, moves>>

PublishesStatus(v) ==
    \/ state[v] \in {"waiting", "follower"}
    \/ state[v] \in {"leader", "candidate"} /\ \E n \in TotalPlatooningSize(v) : n > 1

(* Mutant: the vehicles behind are members of a follower's list, too. *)
memberUpdates_all(s, v) ==
    LET newId == isFollower[v] /\ leaderID[v] = s /\ currentId[v] # currentId[s]
        ours  == currentId[v] = currentId[s]
    IN  /\ newId \/ ours
        /\ currentId' = [currentId EXCEPT ![v] = currentId[s]]
        /\ platoon' = [platoon EXCEPT ![v] = @ \cup {s}]
        /\ leaderID' = [leaderID EXCEPT ![v] = IF isFollower[v] /\ ours
                                               THEN First(v, platoon'[v]) ELSE @]

memberUpdates(s, v) ==
    LET newId == isFollower[v] /\ leaderID[v] = s /\ currentId[v] # currentId[s]
        ours  == currentId[v] = currentId[s] /\ (isFollower[v] => s < v)
    IN  /\ newId \/ ours
        /\ currentId' = [currentId EXCEPT ![v] = currentId[s]]
        /\ platoon' = [platoon EXCEPT ![v] = @ \cup {s}]
        /\ leaderID' = [leaderID EXCEPT ![v] = IF isFollower[v] /\ ours
                                               THEN First(v, platoon'[v]) ELSE @]

(* A STATUS message of s reaches v. *)
onStatus(s, v) ==
    /\ s # v /\ alive[s] /\ PublishesStatus(s) /\ state[v] # "standby" /\ ~following[v]
    /\ memberUpdates(s, v)
    /\ UNCHANGED <<stateVars, threadVars, isFollower, ids, netVars, moves>>

(* The leader is determined anew even if nobody has expired. *)
removeExpiredMember(v) ==
    \E gone \in SUBSET platoon[v] :
        /\ platoon' = [platoon EXCEPT ![v] = @ \ gone]
        /\ leaderID' = [leaderID EXCEPT ![v] = IF isFollower[v] THEN First(v, platoon'[v])
                                                                ELSE @]
        /\ UNCHANGED <<stateVars, threadVars, isFollower, currentId, ids, netVars, moves>>

-----------------------------------------------------------------------------
Init ==
    /\ state = [v \in Vehicle |-> "leader"]
    /\ plan = [v \in Vehicle |-> 0] /\ peer = [v \in Vehicle |-> v]
    /\ platoonId = [v \in Vehicle |-> 0] /\ counter = [v \in Vehicle |-> 0]
    /\ late = [v \in Vehicle |-> 0] /\ following = [v \in Vehicle |-> FALSE]
    /\ alive = [v \in Vehicle |-> TRUE]
    /\ isFollower = [v \in Vehicle |-> FALSE]
    /\ currentId = [v \in Vehicle |-> v] /\ leaderID = [v \in Vehicle |-> v]
    /\ platoon = [v \in Vehicle |-> {}]
    /\ requests = <<>> /\ responses = {} /\ moves = 0 /\ ids = Vehicles

Step(v) == \/ planTrajectory(v) \/ onSuspend(v) \/ onResume(v)
           \/ PlanTimeout(v) \/ RequestFollow(v) \/ StateTimeout(v) \/ GiveUp(v)
           \/ Follow(v) \/ LookForLeader(v) \/ removeExpiredMember(v)

Next == \/ \E v \in Vehicle : Step(v)
        \/ \E s, v \in Vehicle : onInfo(s, v) \/ onStatus(s, v)
        \/ \E n \in DOMAIN requests : onJoin(n) \/ onFollowerJoin(n)
        \/ \E r \in responses : onJoinResponse(r) \/ onFollowResponse(r)

Spec == Init /\ [][Next]_vars

(* The state threads go round, and a handler that has begun ends; messages need not arrive. *)
FairSpec == Spec /\ \A v \in Vehicle : /\ WF_vars(PlanTimeout(v)) /\ WF_vars(StateTimeout(v))
                                       /\ WF_vars(GiveUp(v)) /\ WF_vars(LookForLeader(v))
                                       /\ WF_vars(Follow(v))

-----------------------------------------------------------------------------
(* Properties *)

(* Every vehicle has a state and a manager; plans and ids stay within the bounds. *)
TypeOK ==
    /\ state \in [Vehicle -> {"standby", "leader", "waiting", "candidate", "follower"}]
    /\ plan \in [Vehicle -> 0 .. MaxPlans] /\ peer \in [Vehicle -> Vehicle]
    /\ platoonId \in [Vehicle -> 0 .. MaxIds] /\ counter \in [Vehicle -> 0 .. CounterLimit - 1]
    /\ late \in [Vehicle -> 0 .. Vehicles] /\ following \in [Vehicle -> BOOLEAN]
    /\ alive \in [Vehicle -> BOOLEAN]
    /\ isFollower \in [Vehicle -> BOOLEAN] /\ currentId \in [Vehicle -> 1 .. MaxIds]
    /\ leaderID \in [Vehicle -> Vehicle] /\ platoon \in [Vehicle -> SUBSET Vehicle]
    /\ moves \in 0 .. MaxMoves /\ ids \in Vehicles .. MaxIds
    /\ requests \in Seq([type : {"JOIN", "FOLLOW"}, from : Vehicle, to : Vehicle, size : Nat])
    /\ Len(requests) <= MaxPlans
    /\ responses \subseteq [plan : DOMAIN requests, from : Vehicle]

(* A vehicle starts to follow only when the leader it has chosen has accepted its very
   request to follow: an answer to another plan, an old one, or one that was delayed or
   doubled by the radio, turns neither its manager nor its state into a follower.  The state
   follows in the same handler as the manager, though not in the same step. *)
FollowsByConsent ==
    [][\A v \in Vehicle :
         /\ (~isFollower[v] /\ isFollower'[v]) \/ (~following[v] /\ following'[v]) =>
               \E r \in responses : /\ r.plan = plan[v] /\ r.from = peer[v]
                                    /\ requests[r.plan].type = "FOLLOW"
         /\ state[v] # "follower" /\ state'[v] = "follower" => following[v]]_vars

(* The vehicle a follower takes for its leader drives in front of it.  Therefore no group
   of vehicles follows itself in a circle, whoever joins, leaves or expires. *)
LeaderIsAhead ==
    \A v \in Vehicle : isFollower[v] => leaderID[v] <= v /\ \A m \in platoon[v] : m < v

(* The members a leader counts drive behind it: the id of its platoon is never used by a
   vehicle in front, although followers take over a new id when their leader joins another
   platoon. *)
FollowersAreBehind ==
    \A v \in Vehicle : ~isFollower[v] => \A m \in platoon[v] : m > v

(* No vehicle stays in a negotiation: a plan, the wait for an applicant, and the approach to
   a platoon end even if no message ever arrives. *)
NegotiationEnds ==
    \A v \in Vehicle : /\ plan[v] # 0 ~> plan[v] = 0 \/ ~alive[v]
                       /\ state[v] \in {"waiting", "candidate"}
                            ~> state[v] \notin {"waiting", "candidate"} \/ ~alive[v]

(* A follower that hears nobody in front of it becomes a leader again, and one that does not
   has somebody to follow. *)
FollowerHasLeader ==
    \A v \in Vehicle : (state[v] = "follower" /\ ids < MaxIds)
        ~> (state[v] # "follower" \/ platoon[v] # {} \/ ids = MaxIds \/ ~alive[v])

(* While the plugin is in a leader state, its manager keeps the list of its followers, but for
   the moment in which a handler has changed the manager and not yet the state. *)
LeaderManages ==
    \A v \in Vehicle : state[v] \in Leading /\ ~following[v] => ~isFollower[v]
=============================================================================
