# The CARMA platform in TLA+

This directory holds TLA+ specifications of the core of the CARMA platform, the
runs that model-check them with TLC, and theorems about them proved with TLAPS.
The specifications are read off the Java code under `src/carmajava` and the C++ drivers
next to it; below, `G/` stands for
`src/carmajava/guidance/src/main/java/gov/dot/fhwa/saxton/carma/guidance/`, `P/` for the
package of `src/carmajava/platooning`, `IM/` for that of `src/carmajava/interfacemgr`.
`PROJECT.json` maps every definition to the lines it models and lists the runs, the
theorems, the hazards of the code and the disagreements between the code and its own
comments and tests.

## 1. The system

CARMA drives a vehicle along a route.  It is a set of ROS nodes; the one that decides
is Guidance, a Java program of about a dozen *components*, each with a thread and a
job queue, that share one state machine, a set of plugins and the command of the
vehicle.  Around it, the interface manager finds the drivers and tells Guidance that they
are ready, or that an essential one is gone; the drivers, C++ programs on a common
framework, talk to the radio and to the vehicle's controllers; and the platooning plugins
of several vehicles talk to each other over the radio.

### Inventory

| Component | State | Operations | Talks to | What is hard |
|---|---|---|---|---|
| Guidance state machine (`G/GuidanceStateMachine.java`) | the guidance state | `processEvent` | called by every thread that has news; calls every listener | listeners follow later, each on its own thread |
| Guidance components (`G/GuidanceComponent.java`, `G/GuidanceExceptionHandler.java`) | job queue, own copy of the state, job thread | one job per action; exceptions | listen to the machine; report exceptions to it | a job may throw, report, or be late; panics race shutdowns |
| Guidance state handler (`G/GuidanceStateHandler.java`) | subscribers, robot status | jobs, alerts, route events, robot edges, `set_guidance_active` | ROS topics and services; kills the node | check-then-act over two copies of the state |
| Guidance commands (`G/GuidanceCommands.java`) | latched speed, acceleration, steering | two setters, timing loop, jobs | called by maneuvers; sends to the controllers | three threads, partly without a lock |
| Plugin life cycle (`G/plugins/PluginLifecycleHandler.java`, tasks, `PluginExecutor`) | plugin state, task queue, worker threads | initialize, resume, suspend, terminate | called by the plugin manager | interrupts; two workers on one queue |
| Plugin manager (`G/plugins/PluginManager.java`) | plugin lists | jobs, activation services | drives the plugin life cycles | which plugin is driven when |
| Trajectory executor (`G/trajectory/TrajectoryExecutor*.java`) | current and buffered trajectory, callbacks | run, abort, swap, progress, timing loop | called by the arbitrator and the route thread | three threads without a common lock |
| Arbitrator (`G/arbitrator/*.java`) | planning state, jobs | planning jobs, alerts, failures | plugins, trajectory executor | a state changed under a lock and told without it |
| Tracking, vehicle awareness | last trajectory, errors | comparison, broadcast | arbitrator, DSRC | reports failures at any time |
| Mobility router, conflict manager | known paths | requests, conflicts | DSRC, plugins, arbitrator | expiry during look-ups |
| Light bar manager | who has which indicator | request, release | plugins, driver | priorities, stolen control |
| Platooning (`P/PlatooningPlugin.java`, its states, `P/PlatoonManager.java`) | state, current plan, peer; manager's role, platoon id, leader, members | requests, responses, INFO and STATUS, time-outs, expiry | other vehicles over DSRC; a thread per state | lost, late and duplicated messages; time-outs that race answers; ids handed on |
| Cooperative merge, RSU metering | role, plan | request, hold, command | vehicle and road side unit | the same |
| Speed harmonization, traffic signals | server session; speed profile | polling; A* search | HTTP; arbitrator | mostly numeric |
| Route (`src/carmajava/route`) | route state, position on it | select, start, progress, abort | publishes the route events | leaving, rejoining and completing |
| Interface manager (`IM/InterfaceMgr.java`, `IM/InterfaceWorker.java`) | drivers with status and capabilities, two ready flags, wait timer | discovery, start-up decision, `get_drivers_with_capabilities`, alerts | all drivers; Guidance | three threads without a lock; services that block the listener; drivers that change or die meanwhile |
| Driver framework (`src/cav_driver_utils/.../driver_application.cpp`) | status, bonds | spin loop, binding, system alerts | every C++ driver | ends in the middle of anything |
| DSRC driver (`src/dsrc_driver/src`) | connection, error, queue, posted sends | connect, reconnect, send, receive, reconfigure | radio (UDP), message consumer | three threads share the client without a lock |
| CAN client (`src/cav_driver_utils`: socket, process queue) | descriptor, last frame, bounded queue | read, push, process, destroy | CAN devices' drivers | a queue at its limit, a condition variable, destruction |
| Truck controller (`src/truck_controller/src`) | last command, enabled, mode, status | commands, enabling, control frames, status | drive-by-wire module; Guidance | three clocks: command, time-out, sending |
| Other C++ drivers, roadway, geometry, transforms, message consumer, ROS wrappers, web UI, vendored code | | | | the same pattern, numeric work or device I/O |

What makes the modelled parts correct, and which property says so:

* State machine and components: no component loses, repeats or reorders a change of
  state (`QueuesLeadToMachine`, `QueuesAreLegal`, `ComponentsFollowLifecycle`), each
  state gets to each component (`StateReachesComponents`), Guidance is engaged only
  with the robot on (`EngagedHasRobot`), SHUTDOWN takes the node down
  (`ShutdownCompletes`).
* Commands: a maneuver's command is not overwritten by the start-up values
  (`LatchHolds`), steering commands are not mixed (`LateralIsWhole`), nothing unset is
  sent (`ReadyIsSet`, `EngagedIsSet`), leaving ENGAGED stops the commands
  (`AtMostOneLateCommand`), a command is sent (`CommandIsSent`).
* Plugins: their methods are called in order (`CallsInOrder`) by one worker
  (`OneWorkerGoesOn`) that stops when told to (`AtMostOneLateLoop`, `WorkersEnd`), and
  what was asked for happens (`ResumeIsRun`, `TerminateIsRun`).
* Trajectories: the arbitrator never waits for a plan nobody makes (`PlannerAtWork`),
  trajectories run in the order they were planned (`BufferIsNewer` for the first engagement,
  `InOrder`) and once (`FreshStart`), a planned one is run (`PlannedIsRun`), the vehicle
  does not stay at the end of one (`EndIsSucceeded`), a callback for one call is called once
  (`CalledOnce`).
* Platoons: a vehicle follows only the vehicle that accepted its own request
  (`FollowsByConsent`), whatever it takes for its leader drives in front and whatever it
  counts as its members drives behind (`LeaderIsAhead`, `FollowersAreBehind`), no
  negotiation lasts for ever (`NegotiationEnds`), and no vehicle follows nobody
  (`FollowerHasLeader`).
* Interface manager: the system is operational only with working essential drivers
  (`EssentialDriversWork`), start-up is decided (`StartupDecides`), and the loss of an
  essential driver stops the system (`LossIsAnnounced`).
* DSRC driver: it implements the framework's promise (`IsDriverApplication`), a new
  connection never meets the old one's thread (`ConnectFindsNoThread`), an error closes
  the connection it came from (`ErrorIsCurrent`), messages are sent in order and once
  (`SentInOrder`) and published as they were framed (`PublishedIsFramed`), and a lost
  radio is connected again (`Reconnects`).
* CAN client and truck: frames never reach a destroyed queue (`QueueOutlivesDevice`), the
  latest one is handled (`LatestIsHandled`), the truck obeys no command that is too old
  (`CommandIsFresh`) and none after it was disabled (`DisableIsObeyed`), and the status
  Guidance sees follows what is sent (`StatusFollows`).

## 2. The modules

| Module | Models | Uses |
|---|---|---|
| `GuidanceLifecycle` | the abstract specification: one state and the order of its values | |
| `GuidanceStateMachine` | state machine, components' queues and threads, state handler | refines `GuidanceLifecycle` (machine and every component) |
| `GuidanceStateMachineProofs` | five theorems | `GuidanceStateMachine`, TLAPS |
| `GuidanceCommands` | both setters, timing loop, jobs | its state follows `GuidanceLifecycle` |
| `MCGuidanceCommands` | the commands for TLC | `GuidanceCommands` |
| `GuidanceCommandsProofs` | five theorems | `GuidanceCommands`, TLAPS |
| `PluginLifecycle` | one plugin: caller, tasks, workers | |
| `PluginLifecycleProofs` | four theorems | `PluginLifecycle`, TLAPS |
| `TrajectoryExecutor` | the executor's buffers and callbacks, its job thread and the route thread | |
| `Arbitrator` | the arbitrator's state machine and jobs, composed with the executor | `TrajectoryExecutor`, `GuidanceLifecycle` |
| `ArbitratorProofs` | four theorems about both | `Arbitrator`, TLAPS |
| `Platooning` | platooning plugins and managers of several vehicles, and the radio between them | |
| `PlatooningProofs` | four theorems | `Platooning`, TLAPS |
| `InterfaceMgr` | discovery listener, main loop and service of the interface manager, and the drivers | |
| `InterfaceMgrProofs` | three theorems | `InterfaceMgr`, TLAPS |
| `DriverApplication` | the abstract specification: what every C++ driver promises | |
| `DsrcDriver` | main, connect and io thread of the DSRC driver | refines `DriverApplication` |
| `MCDsrcDriver` | the packets for TLC | `DsrcDriver` |
| `DsrcDriverProofs` | seven theorems, the refinement of `DriverApplication` among them | `DsrcDriver`, TLAPS |
| `CanClient` | io thread, process queue and destruction of a CAN device's client | |
| `TruckController` | commands, control frames and status of the truck's driver, composed with its client | `CanClient` |
| `TruckControllerProofs` | four theorems about both | `TruckController`, TLAPS |

**GuidanceStateMachine.** `processEvent` is synchronized, so it is one step that
changes the state followed by one `Notify(c)` per listener; `toNotify` is what remains
of the loop and the monitor is free when it is empty.  `Target` gives the state a job
stands for, both in the switch of `processEvent` and in the components' handlers.  A
job either finishes (`RunJob`, and one action per job of the state handler), reports an
exception and goes on (`JobRaises`), or throws (`JobThrows`); the latter two are
followed by `handleException`, which waits for the monitor and posts PANIC.
`set_guidance_active` is three steps because the code looks at the state, posts the
event and looks again.  The robot status callback posts the edge and stores it
afterwards, which are two steps.  The texts of alerts are left out; that SHUTDOWN or
FATAL was published is kept.

**GuidanceCommands.** Every access to `speedCommand`, `maxAccel` and the steering
fields is a step, unless the monitor makes several of them one.  The timing loop reads
the state up to three times (`start`, `if_active`, `if_inactive`), as the chain of
conditions does.  Speeds and accelerations are integers: the code only clamps and
compares them.  `latched` and `late` are history variables.

**PluginLifecycle.** The caller's operations are broken up at each step another thread
can see (interrupt, clear, set the state, put the task, start the worker).  A worker is
a small program (`phase`): test, take, call, callback, and for looping tasks test and
enter.  `BlockingQueue.take` and interruption are modelled from the contract of
`java.util.concurrent`: a thread already waiting may see either of the two first.

**TrajectoryExecutor, Arbitrator.** Threads are `route`, `executor`, `arbitrator` and
`other`; `pc` says where each is.  A trajectory is a number in the order of planning, with a
shape (plain, with a complex maneuver, up to the end of the route, steadying) and the
percentage covered, reduced to the thresholds the code compares it with.
`ArbitratorStateMachine.processEvent` is `Event` (under the lock), and after it `Look`,
which compares the state, `Read`, which reads it again for the listener, and `Notify`.
`swapTrajectories` is broken up between the read of the buffered trajectory, the write of
the current one and the clearing.  Which trajectory the plugins come up with, and whether
any is valid, is a choice.

**Platooning.** Vehicles drive one behind the other and are numbered from the front; what
the code compares of distances is that order, or a choice.  Each has the plugin's state
object (`state`, `plan`, `peer`, `platoonId`, `counter`), whose construction is
`setState`, and the manager (`isFollower`, `currentId`, `leaderID`, `platoon`).  Requests
and responses stay in the model for ever, so that each may arrive late, again, or never;
INFO and STATUS are repeated all the time and so arrive at once or not at all, and so do
rejections, because a late one does no more than the time-out of the plan.  A time-out
that a state's thread has found and not yet acted on is `late`: the answer may be handled
in between, and `GiveUp` then changes the state all the same; a candidate's thread also
finishes its round, in which it may send one more request to follow.  The handlers of
messages share a lock, which neither the state threads nor `planTrajectory` take.  The one
that makes a follower changes the manager (`onFollowResponse`) and then the state
(`Follow`), and any of those may act in between (`following`).  The other handlers, which
change the state only, are one step: whatever changes it between their test and their
`setState` is overwritten as if it had not happened.

**InterfaceMgr.** A driver's messages wait in an inbox per driver.  The listener handles one
at a time and stops at each service: it looks for one for five seconds (`FindService`, or
the driver is taken to have none) and then waits for the answer without a time-out
(`Calls`), for ever if the driver has gone (`Blocked`).  The main loop (`Loop`,
`AnnounceReady`) meanwhile looks at its flags and the clock.  `GetDrivers` is the
service's only effect on the state: it fails when it meets a driver without capabilities.
Drivers are external; they change their status, publish, answer or die.

**DsrcDriver.** The three threads are broken up at every access to what another one writes:
`connecting`, `running`, the listener, the error, the configuration.  A connection is
numbered (`epoch`) so that the error says which one it came from.  Replacing a thread that
has not been joined ends the process (`crashed`), as C++ says.  Received packets are
sequences of bytes, of any length, and `process` searches and cuts them as the code does.
With fewer than three bytes its bound wraps around and it reads behind the packet
(`ReceiveShort`): the process is killed, or a packet of two bytes is published.

**CanClient, TruckController.** The queue's mutex is free except between finding that there
is nothing to do and waiting (`park`), which is where a notification can be lost.  A failed
read delivers the previous frame once more, as the code's condition has it.  Time is a
tick; the age of the command, the age of the last frame sent and the age of the disabling
are counters that saturate one above the bound the code compares them with.

Definitions whose names end in a suffix after an underscore (`Notify_lifo`,
`LoopSeedSpeed_always`, ...) are plausible mistakes in the code they sit next to.  They
are not part of any specification: each shows, put in the place of the definition
named before the underscore, that a property notices it (`mutants` in `PROJECT.json`).

## 3. The runs

| Run | Module, configuration | Result | States |
|---|---|---|---|
| `guidance` | `GuidanceStateMachine`, `Guidance.cfg` | holds | 102 000 |
| `guidance_lost_panic` | `GuidanceStateMachine`, `GuidanceLostPanic.cfg` | `ShutdownCompletes` violated | |
| `plugin` | `PluginLifecycle`, `Plugin.cfg` | holds | 339 000 |
| `commands` | `MCGuidanceCommands`, `Commands.cfg` | holds | 440 000 |
| `trajectory_planning` | `Arbitrator`, `TrajectoryPlanning.cfg` | holds | 5 100 000 |
| `trajectory_restart` | `Arbitrator`, `TrajectoryRestart.cfg` | holds | 3 400 000 |
| `trajectory_failure` | `Arbitrator`, `TrajectoryFailure.cfg` | holds | 668 000 |
| `dsrc` | `MCDsrcDriver`, `Dsrc.cfg` | holds | 819 000 |
| `truck` | `TruckController`, `Truck.cfg` | holds | 458 000 |
| `startup` | `InterfaceMgr`, `Startup.cfg` | holds | 241 000 |
| `platooning` | `Platooning`, `Platooning.cfg` | holds | 191 000 |
| `platoon_merge` | `Platooning`, `PlatoonMerge.cfg` | holds | 403 000 |

Every module has a type invariant `TypeOK`; all of them hold under the configurations
above.  It is repeated in the run only for the commands, where it says that every speed
and acceleration is within its limits; it is proved for every component.

`guidance` takes every order of alerts, route events, robot edges, service calls, reported
and uncaught exceptions.  `guidance_lost_panic` lets `onSystemReady` of the state handler
throw, as it does when the interface manager is not there: the component that would kill the
node has no thread any more.  `plugin` takes any sequence of calls with two suspends and
methods that may throw.  `commands` interleaves the three threads access by access, with
commands that have to be clamped and with the wrench effort override.  `trajectory_planning`
covers complex maneuvers, the end of the route, plans that fail and planning too slow for
the vehicle, in the first engagement, which is the scope of `BufferIsNewer` (section 5 says
what becomes of it afterwards); `trajectory_restart` engages, deactivates, engages again and
restarts in the middle of anything; `trajectory_failure` adds a failure reported by another
thread at any moment, in the middle of `processEvent` too.  `dsrc` lets sockets fail, the
configuration change and the platform shut down while the driver connects, sends or
receives, packets too short for a message among them, and shows that it refines
`DriverApplication`.  `truck` interleaves commands, time-outs, failing reads and writes and
the destruction of the client.  `startup` runs the interface manager against a position
driver and a controller.  `platooning` has two vehicles negotiate over a radio that loses,
doubles, delays and reorders; `platoon_merge` adds a third vehicle, so that a leader that
has a follower joins another platoon.

The violated property states what a comment of the code says; the finding in
`PROJECT.json` quotes it.  Twelve more configurations show further disagreements in the same
way and are not part of the list of runs; section 5 has them.

### Bounds

* `Component = {sh, pm}`: the state handler and the plugin manager are the two
  components with behaviour of their own; any other differs from `pm` only in not
  publishing.  The theorems hold for any set.  `MaxQueue = 2`: a component may be two
  changes behind, and three with SHUTDOWN, which is exempt; longer queues are covered by
  the theorems.
* `MaxWorkers = 3`, `MaxTasks = 2`: two suspends, so that an old, a current and a new
  worker exist at once, and tasks of two resumes in the queue.
* Two commands and two steering commands that differ in every part, one of each
  outside the limits; `MaxCalls = 2` lets one replace the other at every point of the
  loop.  `CommandIsSent` needs no more: a third call would only replace the second.
* `MaxPlans = 3` is a current, a buffered and a third trajectory planned while they
  exist; where liveness or three changes of the guidance state are checked, two are
  enough for a swap.  `MaxChanges = 3` is engage, deactivate, engage again (or restart).
  `MaxFailures = 1` is one failure from elsewhere, next to those that
  `swapTrajectories` reports itself.
* DSRC: `MaxFaults = 2` with `MaxChanges = 1` is a connection lost, a second one lost while
  it is made, and a configuration changed meanwhile; `MaxMsgs = 2` are two messages whose
  order can be wrong; the packets have noise in front of a message, a length field of two
  bytes, a length of zero, one too long to be encoded in one piece, and three, two or no
  bytes at all.
* Truck: a command is too old after more than one tick, and a frame is due in every one, so
  that the time-out and the sending fall together and apart; `MaxQueue = 1` is a queue that
  is empty or full, and `MaxFrames = 2` with a repeated one overruns it.  (With a queue of
  two, 543 000 states, the properties hold as well.)
* Start-up: one driver of each essential kind, each of which may report for the first time
  as late as it likes; two changes of status or deaths, before or after that, so that one
  driver can leave the listener waiting while another is lost; `WaitTime = 0` so that the
  wait is over as soon as the clock moves.  (With a third driver and one change, 197 000
  states, and with drivers that may be off when the manager comes up and one change, 34 000
  states, the properties hold as well.)
* Platooning: `MaxPlans = 4` is two rounds of a request to join and the request to follow
  that comes after it, so that answers of the first can be taken for answers of the second;
  `CounterLimit = 2` lets a follower count and start again, `MaxMoves = 2` lets it leave and
  come back.  With three vehicles `MaxPlans = 4` is two complete joins, the second by a
  vehicle that already leads, and `MaxIds = 5` two followers that become leaders again;
  suspending and resuming is left to the smaller run.

No symmetry is used.  Deadlock is not checked, because every one of these systems may
stop: the node goes down, a plugin is terminated, the route ends.

### Fairness

Weak fairness is given to threads that have something to do, because the JVM schedules
them and none of these steps waits for anything but the monitor: the loop over the
listeners, the job threads, exception reports, the second half of a call that has
begun, the workers, the timing loops.  Methods of plugins are taken to return or throw.
For the trajectories, RouteState messages keep coming: the route node publishes them at
a fixed rate.  Nothing else is owed: no alert, request, change of state, exception,
failure or call ever has to happen.

The same holds for the other modules.  In `DsrcDriver` and `CanClient` each C++ thread is
weakly fair while the process lives; in `TruckController` the spin loop, the status timer
and the clock are.  In `Platooning` only the threads of the states, and a handler that has
begun, are fair: no message ever has to arrive.  In `InterfaceMgr` the clock and the main
loop are weakly fair, and the listener is as long as the driver it has called lives: the
look-up of a service has a time-out and a driver that lives answers, but nobody owes the
listener the answer of one that is gone.  A driver that lives publishes, as
all of them do once a second; and `Receive` is strongly fair for each driver, because ROS
hands the messages of a topic to the listener in the order of their arrival, so that no
driver is overtaken for ever.

## 4. The proofs

TLAPS checks the theorems below, for every value of the constants that satisfies the
named assumptions.  These say only that bounds are natural numbers, that sets of drivers,
shapes and the like are what they are called, and the little that is added here.
In each of the newer modules one theorem, `Invariant`, is `Spec => []IInv`; a lemma for
each part of `IInv` shows that `[Next]_vars` keeps it, with one step per action, and the
other theorems follow from it.

**`GuidanceStateMachineProofs`** (assumes `ComponentAssumption`: the state handler and
the plugin manager are two different components; any set of components, any of them
failing, any queue bound).

* `TypeCorrect`: `Spec => []TypeOK`.
* `HandOver`: `Spec => [](QueuesLeadToMachine /\ QueuesAreLegal)`.
* `EngagedOnlyWithRobot`: `Spec => []EngagedHasRobot`.
* `MachineImplementsLifecycle`: `Spec => MachineFollowsLifecycle`, a refinement.
* `ComponentsImplementLifecycle`: `Spec => ComponentsFollowLifecycle`, a refinement by
  each component's delayed copy.

The inductive invariant `IInv` has three parts.  While listeners remain, the action
announced is the one that led to the machine's state (`Announcing`); without it nothing is
known about the job that `Notify` appends.  For each component (`QueueOK`), its queue is a
legal run of the life cycle that leads on from the component's own copy of the state and, if
its thread works, ends where the machine stands or, while it is still to be notified, one
legal step before.  `QueuesLeadToMachine` alone is not inductive, because running a job says
something about the *second* element of the queue; `QueuesAreLegal` alone is not, because
appending needs the last element to lead to the machine.  For the robot (`RobotOK`), ENGAGED
goes with a remembered or a pending rising edge and never with a pending falling one.
Lemmas treat the switch (`ActionIsLegal`: whatever the event, a change of state is one the
life cycle allows), appending to and taking from a legal queue, and the kinds of step there
are (`StepKinds`).

**`GuidanceCommandsProofs`** (assumes `CommandsAssumption`: commands and velocities are
integers, limits are positive; any set of commands, any number of calls).

* `CommandsTypeCorrect`: `TypeOK`; needs what a setter under way holds (`ArgType`).
* `LatchIsKept`: `LatchHolds`; needs that in the middle of a call the second write is
  of the call whose first write was latched (`LatchInv`), and that no command within
  the limits equals the unset value, since the seeding overwrites only that.
* `SteeringIsWhole`: `LateralIsWhole`; needs that the three fields belong together
  whenever nobody has the monitor (`SteeringInv`).
* `ReadyIsAlwaysSet`: `ReadyIsSet`; needs what is set at each place of the loop's
  branch (`SeedInv`), and that nobody ever writes the unset value again.
* `OneLateCommand`: `AtMostOneLateCommand`; needs that an iteration on its way to send
  after ENGAGED was left is the first one since (`LateInv`).

**`PluginLifecycleProofs`** (assumes `PluginAssumption`; any number of workers and tasks).

* `PluginTypeCorrect`: `TypeOK`.
* `OneWorker`: `OneWorkerGoesOn`; needs that workers are started one after the other, that
  the newest is the current one and that a call in the middle of suspend or terminate has
  interrupted all that there are (`Threads`).
* `MethodsInOrder`: `CallsInOrder`.  That a method has not been called yet says something
  about everybody: as long as `onInitialize` has not returned there is one worker, which is
  in it or has its task before it, and nobody can have asked for a suspend
  (`InitializeInv`); the same for `onResume`, which has returned before `loop()` is entered,
  with RESUME before every LOOP in the queue (`ResumeInv`); and a TERMINATE is in the queue
  or in hand only once the caller is done (`QueueInv`).
* `OneLateLoop`: `AtMostOneLateLoop`; needs that a worker with a late loop is past the test
  that let it begin (`LateInv`).

**`ArbitratorProofs`** (assumes `PlansAssumption`, `ArbitratorAssumption`; any number of
trajectories, changes of the guidance state and failures).

* `ArbitratorTypeCorrect`: `TypeOK`; needs which places belong to which thread's code
  (`ThreadType`) and that whatever is in a field or a hand has been planned (`PlanType`).
* `SomebodyPlans`: `PlannerAtWork`, for all interleavings of three threads in
  `processEvent`.  `PlannerInv` says more precisely who will plan: a planning job is queued
  (`Queued`), a thread that has seen a planning state is on its way to queue one
  (`WillQueue`), or the arbitrator's thread plans or is about to report that it has
  (`AtWork`).  A thread "in look or notify" is not enough, since it may have seen a state
  that is not a planning one; one in `Read` is, since it will see the state as it is then.
* `SwapLeadsOn`: `BufferIsNewer`.  What the arbitrator is about to hand over is newer than
  all that the executor has (`NewestInv`, in every engagement).  In the first one the
  initial planning is done once and nothing happens before it (`StartInv`), the executor
  has finished its one job before the arbitrator runs a trajectory (`ExecutorInv`), and
  when the arbitrator finds that nothing runs, the buffer is empty but for what a swap is
  about to clear (`BufferInv`).
* `NothingRunsTwice`: `FreshStart`, an action property, in all engagements.  It says where a
  trajectory comes from that becomes the current one, so the invariant is about every hand
  it can be in: nothing is covered of what is handed over, buffered, or read for a swap, and
  the current trajectory is in the buffer too only in the middle of a swap, when the route
  thread covers nothing (`FreshInv`); the kept trajectory has not been begun, or
  `bufferedTrajectoryRunning` keeps the executor from running it again (`KeptInv`).
  `NewestInv` tells the arbitrator's trajectory from all of these.

**`PlatooningProofs`** (assumes `PlatooningAssumption`: a follower counts up to one or more,
and every vehicle has an id to begin with; any number of vehicles, messages and moves).

* `PlatooningTypeCorrect`: `TypeOK`.
* `FollowersLookAhead`: `LeaderIsAhead`, and `LeadersLookBack`: `FollowersAreBehind`.  The
  code tells members by the platoon's id alone, and ids are handed on from vehicle to
  vehicle.  So the invariant gives every id an owner, the vehicle it was made for
  (`OwnerInv`): whoever uses an id, or is about to, drives behind its owner, and a manager
  that leads uses its own.  `LeaderInv` says that a follower's leader is the first of its
  list, `IdsInUse` that a new id is nobody's.
* `FollowingNeedsConsent`: `FollowsByConsent`, an action property; needs that a plan is a
  request that was sent and, for a candidate, one to follow (`NegotiationInv`).  The manager
  changes on the answer, the state later and only in the handler of that answer.

**`InterfaceMgrProofs`** (assumes `InterfaceMgrAssumption`; any drivers of any categories).

* `ManagerTypeCorrect`: `TypeOK`.
* `OperationalHasDrivers`: `EssentialDriversWork`; needs that an essential driver of the
  list is usable unless its loss is being announced (`LostIsHandled`), that the driver the
  listener is at work on is in the list (`HandlesKnown`), and that a ready flag once had a
  reason, which is still in the list (`ReadyInv`).
* `RobotTopicNeverFound`: the robot's topic is never found, the general form of the
  violation `StartupRobot.cfg` shows; needs that the loop looks for it only before the
  system is operational (`RobotInv`).

**`DsrcDriverProofs`** (assumes `DsrcAssumption`: packets are sequences of bytes; any
packets, empty ones too, any clients, and numbers of messages, faults and changes).

* `DsrcTypeCorrect`: `TypeOK`, with `ConnectionsHaveCauses`: `epoch` is at most one more
  than the number of faults and changes of the configuration.  The driver connects by itself
  only, and never without a cause (`EpochInv`).
* `NoThreadIsReplaced`: `ConnectFindsNoThread`; needs that the connect thread is alone with
  the client while it builds the connection (`ConnInv`).
* `ErrorsAreCurrent`: `ErrorIsCurrent`; needs that an error is cleared before the next
  connection is made (`ErrorInv`).
* `PublishedLength`: `PublishedIsFramed`, from lemmas on `process`'s search and cut, for
  packets of any length; of two bytes it says only that they are the packet.
* `RadioKeepsOrder`: `SentInOrder`: the messages sent, over all connections, are strictly
  increasing, so none is sent twice or after a later one; needs that the messages in the
  queue, the posted sends and the io thread's hand are strictly increasing (`OrderInv`) and
  later than all that have been sent (`SentInv`).
* `ImplementsDriverApplication`: the safety part of the refinement `IsDriverApplication`;
  every step is one of the framework's or a stutter.  It needs that the connect thread has
  been joined before the driver closes its client, so that no status changes after the end
  (`ExitInv`).

**`TruckControllerProofs`** (assumes `TruckAssumption`, `CanAssumption`: the queue has room
for one and the loop may be late; any time-out, send period, delay and length of queue).

* `TruckTypeCorrect`: `TypeOK` of the driver and of its CAN client.
* `DeviceGoesFirst`: `QueueOutlivesDevice`; needs that the destructor has joined the io
  thread before it stops the queue (`JoinInv`).
* `CommandsExpire`: `CommandIsFresh`, and `DisableEnds`: `DisableIsObeyed`.  The invariants
  compare the clock of the property with the time since the driver last had an occasion to
  send (`SinceSent`): the command was fresh (`FreshInv`), and control enabled (`ObeyInv`),
  at that time; the loop goes round at least every `MaxLag` ticks (`PassInv`).  The
  properties bound the sum and are not inductive.

**Only model-checked.**  Liveness (`StateReachesComponents`, `ShutdownCompletes`,
`CommandIsSent`, `ResumeIsRun`, `WorkersEnd`, `EndIsSucceeded`, `LatestIsHandled`,
`StatusFollows`, `Reconnects`, `StartupDecides`, `LossIsAnnounced`, `NegotiationEnds`,
`FollowerHasLeader`) is beyond this prover, and so is the fairness in the refinement
`IsDriverApplication`.  Every safety property of the runs is proved.

## 5. Further disagreements

Each of these configurations states what a comment, a test or a document says, and TLC
finds it violated:

| Configuration, property | What the code does | What is said |
|---|---|---|
| `CommandsUnset.cfg`, `EngagedIsSet` | Only an iteration of the timing loop that finds ACTIVE or INACTIVE seeds the commands; a state that gets from DRIVERS_READY to ENGAGED between two looks sends speed -1 (`G/GuidanceCommands.java:358`). | "Set the speed/accel commands to ensure valid values are passed to the controller before we engage" (`:380`) |
| `PluginTerminate.cfg`, `TerminateIsRun` | `terminate` interrupts the only worker, then queues the task: nobody may take it (`G/plugins/PluginLifecycleHandler.java:219`). | "causes it to call the plugins terminate behavior" (`G/plugins/PluginExecutor.java:102`); the test expects `verify(p).onTerminate()` |
| `TrajectoryStranded.cfg`, `PlannedIsRun` | A trajectory handed over between the two looks of `onEngaged` is kept and never run (`G/trajectory/TrajectoryExecutor.java:134`). | "If no trajectories are running it will be run right away" (`:233`) |
| `TrajectoryAborted.cfg`, `InOrder` | The swap is a read and a write; an aborted trajectory replaces the one planned after the abort (`G/trajectory/TrajectoryExecutorWorker.java:231`). | "Abort the current and queued trajectories" (`:127`) |
| `TrajectoryCallback.cfg`, `CalledOnce` | `callbacks.remove` looks for an object of another type and removes nothing (`:343`). | "Ensure we're only called once" (`G/arbitrator/Arbitrator.java:467`) |
| `DsrcStatus.cfg`, `OperationalIsConnected` | `connect` signals after it has set `running_`; a `close` in between is reported first, and the driver then announces OPERATIONAL without a connection (`src/dsrc_driver/src/dsrc_client.cpp:114`). | "status indicates the operational state of the underlying hardware device" (`src/cav_msgs/msg/DriverStatus.msg:11`) |
| `DsrcShort.cfg`, `PublishedIsValid` | `entry.size() - 3` is unsigned and wraps around for a packet of fewer than three bytes, whose size nobody checks: `process` reads behind it, and publishes a packet of two bytes, which has no length, if what it finds there suits it, or is killed (`src/dsrc_driver/src/dsrc_client.cpp:135`). | "Valid message should begin with 2 bytes message ID and 1 byte length." (`:134`) |
| `TruckStops.cfg`, `Stops` | The queue's destructor clears `running_` and notifies without the lock; the notification is lost when the thread is about to wait, and the join blocks for ever (`src/cav_driver_utils/include/cav_driver_utils/synchronized_async_process_queue.h:41`). | "Properly shutdown client interface" (`src/truck_controller/src/truck_application.h:113`) |
| `StartupRobot.cfg`, `RobotIsWatched` | `checkRobotTopic` asks for drivers only before the system is operational, when the answer is always empty (`IM/InterfaceMgr.java:184`). | "attempt to check that we can listen to the controller driver to allow warning others if it dies" (`:182`) |
| `StartupFatal.cfg`, `FatalIsLast` | The main loop may announce DRIVERS_READY, on a latched topic, after the listener has published FATAL (`IM/InterfaceMgr.java:191`). | "DRIVERS_READY is a one-time indicator that the startup sequence is complete" (`src/cav_msgs/msg/SystemAlert.msg:11`) |
| `StartupBlocked.cfg`, `ListenerGoesOn` | `getDriverApi` waits for the answer without a time-out (`IM/InterfaceMgr.java:284`); a driver that dies meanwhile keeps the listener for ever, and the status of no driver is handled any more. | "this is expected to be called frequently throughout the life of the node" (`IM/InterfaceWorker.java:62-63`, of `handleNewDriverStatus`) |
| `PlatoonManages.cfg`, `LeaderManages` | A candidate's thread that has found its time out makes the vehicle a leader although it has become a follower meanwhile (`P/CandidateFollowerState.java:221`), and a follower that goes to Standby does not tell the manager (`P/FollowerState.java:93`): the leader has a manager that follows. | "In leader state, the manager will maintain a full list of followers' information." (`P/PlatoonManager.java:31`) |

Met while modelling, and without a configuration of their own:

* `set_guidance_active` may answer false although the activation succeeded, when the
  robot engages before the second look (`G/GuidanceStateHandler.java:125`); the web
  interface takes the answer for the outcome (`src/website/scripts/rosbridge.js:789`).
* The plugin manager publishes FATAL in an ordinary shutdown
  (`G/plugins/PluginManager.java:346-347`).
* The callback of a task taken before `suspend` overwrites SUSPENDING with LOOPING
  (`G/plugins/PluginLifecycleHandler.java:160`), and `onSuspend` may run while the old
  worker is still in `loop()` (`:170`), against the class comment (`:26-27`).  A plugin
  resumed after a suspend may never loop, when the old worker is handed its task.
* The speed of one command can be sent with the acceleration of the next
  (`G/GuidanceCommands.java:358`, comment at `:289-290`), and a restart resets to 0 and
  not to the unset value (`:249`, comment at `:59-60`), so that the seeding happens only
  in the first engagement.
* Two threads in `ArbitratorStateMachine.processEvent` can queue one planning job twice
  (`G/arbitrator/ArbitratorStateMachine.java:94`): with a failure reported while INITIALIZE
  is processed, two initial trajectories are planned one after the other.
* The steadying trajectory after a complex maneuver is overwritten in the buffer by the
  plan that follows it (`G/arbitrator/Arbitrator.java:546`, comment at `:520`).
* `getTrajectoryCompletionPct` dereferences a trajectory that was aborted since it was
  tested (`G/trajectory/TrajectoryExecutorWorker.java:193`, comment at `:183`), and
  `normalReplan` one that was never tested (`G/arbitrator/Arbitrator.java:499`).
* A planning job under way in a restart leaves its trajectory with the executor that
  has just been cleared (`G/trajectory/TrajectoryExecutor.java:140`), and a `runTrajectory`
  under way leaves it in the buffer, where it waits behind the trajectories planned after
  the restart (three plans, four changes).  Likewise, a trajectory kept while Guidance was
  not engaged is run behind a newer one that the arbitrator is handing over when Guidance
  engages again (three plans, three changes and one failure).  `BufferIsNewer` holds up to
  the first of these, in the first engagement.
* A plugin's request for replanning counts as two failed attempts
  (`G/arbitrator/Arbitrator.java:411`).
* The executor's timing loop reads the current trajectory four times in one iteration
  (`G/trajectory/TrajectoryExecutorWorker.java:271`); not modelled yet.
* The node is killed a fixed delay after SHUTDOWN, whether or not the components have
  finished their shutdown jobs (`G/GuidanceStateHandler.java:244`).
* The platoon's size is compared when a join is requested, and a member that was admitted
  is counted only when its STATUS arrives: the limit can be exceeded
  (`P/LeaderState.java:97`).
* `PlatooningPlugin.setState` is not synchronized (`P/PlatooningPlugin.java:420`): two
  threads that change the state at once leave a state thread nobody will interrupt.  It is
  one step of the model, and so are the two calls in a row of a candidate's thread that finds
  both of its times out (`P/CandidateFollowerState.java:221-229`).
* The request to follow is published before `currentPlan` is set
  (`P/CandidateFollowerState.java:262`): an answer in between is ignored, which in the
  model is the same as one that is lost.
* A known driver whose service does not answer when its status changes gets null
  capabilities, and the next `get_drivers_with_capabilities` of any node takes the interface
  manager down (`IM/InterfaceWorker.java:80`).
* An exception before the system is ready is answered like one long after it: only WARNING
  is published and Guidance waits for DRIVERS_READY for ever (`IM/InterfaceMgr.java:393`).
* A driver process that dies is not noticed, because the bonds that would tell are not
  implemented (`IM/InterfaceMgr.java:167`); `LossIsAnnounced` exempts it.
* The search for messages stops after the first one of a packet, while
  `src/dsrc_driver/src/dsrc_client.h:130` speaks of "all possible messages from a packet".
* A configuration changed while the connect thread works with a copy of the old one closes
  nothing: the connection to the old address stays
  (`src/dsrc_driver/src/dsrc_application.cpp:323`).
* The send service answers success when the message is posted; a close before the io
  thread takes it loses it (`:243`).  `send_msg_queue_` has no limit (`:206`).
* A failed write to the CAN bus is passed on to a signal nobody has connected: the status
  stays active (`src/cav_driver_utils/src/socketcan_interface/socketcan_interface.cpp:259`);
  a failed read delivers the previous frame once more (`:76`).
* While the truck's robotic control is disabled, commands are stored, and obeyed if they are
  still recent when it is enabled again; `src/truck_controller/readme.md:41` says that they
  are "ignored".  `DisableIsObeyed` and `CommandIsFresh` hold all the same.

## 6. What is not modelled

* Inside modelled components: the timing loop of the trajectory executor that runs the
  maneuvers; the negotiation of plugins inside `planTrajectory`; discovery and
  activation in the plugin manager; the speeds a platoon's follower computes from gaps;
  which names `getDrivers` answers with; the text format of outgoing DSRC messages; the
  truck's frames for lights, engine brake and PID, and the decoding of its feedback;
  logging, parameters and message texts.
* Planned components: see below.
* Not planned, because they are computations over real numbers (maneuver ramps,
  geometry, transforms, sensor fusion, fuel models, A*), encodings done by vendored
  libraries (message consumer, J2735 converter), drivers that only decode a device's
  frames (radar, positioning), presentation (web interface), or third-party.

Of the repository's C and C++ about three quarters are vendored (`src/openjaus`, rapidjson,
`src/socketcan_interface`, `src/lib_asn1c`), and of the rest most are tables of CAN signals
and their decoding (`truck_types.h` and its like).  Modelling these would say nothing about
CARMA, so the share of C and C++ lines that the map covers stays small; the platform's own
logic is in Java.

`PROJECT.json` lists each part with its reason.

## 7. Plan

Modelling, in order of importance:

1. `PluginManager` composing several `PluginLifecycle`s with the jobs of Guidance and
   the activation services.
2. `TrajectoryPlanner`: `planTrajectory`'s attempts and the plugins' requests; the
   executor's timing loop joins `TrajectoryExecutor`.
3. `CooperativeMerge`: vehicle and road side unit, request, hold and command.
4. `RouteWorker`, the source of the route events that `GuidanceStateMachine` takes from its
   environment, and the composition of `InterfaceMgr` with `GuidanceStateMachine` over the
   system alerts; `LightBarManager`; `MobilityRouter` with `ConflictManager`.
5. The SRX controller as a second client of `CanClient`.
6. Pure algorithms against reference definitions: trajectory validation, the gap search
   of the cruising plugin, the interval tree.

Proving: that the commands' and the trajectory components' own copies of the state follow
`GuidanceLifecycle`, as those of `GuidanceStateMachine` do, and the properties of the modules
planned above.
