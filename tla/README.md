# FastSwarmSim in TLA+

FastSwarmSim simulates swarms of drones faster or slower than real time. Its
centre is `fss_time` (`src/src/fss_time`): a *time coordinator* grants the
simulation clock `/clock` only when every participating thread has announced
until when the clock may safely go. The vehicles of `fss_px4_sim` (the PX4 core
and MAVROS Lite) are clients of that clock. This directory specifies `fss_time` as
a concurrent, distributed system and, of `fss_px4_sim`, what has a protocol or a
state machine: the simulation loop, the commander, take-off and landing, and
the services that command them. It holds TLA+ modules, TLC configurations, and
theorems checked by TLAPS.

`PROJECT.json` is the index: components, runs, mutants, the map from definitions
to source lines, findings, hazards and theorems.

    cd tla
    tlc -workers 2 -config Swarm.cfg MCLockStepSwarm     # one run
    for m in *Proofs.tla; do tlapm $m; done               # the proofs

## 1. Inventory

### The parts and their state

| Component (source) | State | Operations |
|---|---|---|
| **Time coordinator** (`fss_time/src/time_coordinator.cpp`) | `participants_` (request, new-request flag, follows-real-time flag, last request), `sim_time_ns_`, `regulator_request_ns_`, `real_time_request_ns_`, `running_`, `max_real_time_factor_`, two task queues; all but the queues under `mutex_` | messages REGISTER, ANNOUNCE, SET_FOLLOWS_REAL_TIME, UNREGISTER; regulator, real-time and status timers; services clock_control, clear_zombie_participants; grants of a parent coordinator |
| **Coordinator workers** (same file, 785–910) | `publish_tasks_`, `announce_tasks_`, each with a mutex and a condition variable, one stop flag | publish `/clock` and grants; announce to the parent; stop |
| **Cascade** (same file) | a child's `sim_time_ns_` follows its parent's grants; announcements on a DEALER/ROUTER channel, grants on PUB/SUB | the child aggregates its local participants and announces for them |
| **Participant backend** (`zeromq_time_participant_backend.cpp`, `thread_time_participant.cpp`) | `registered_`, a DEALER socket; one backend per thread (thread-local) | announce_next_safe_time, register, set_follows_real_time, unregister |
| **Sleep, Rate** (`sleep.cpp`, `rate.cpp`) | the thread's next wake-up time; `period_`, `last_interval_` | announce the wake-up time, then sleep on the node's ROS clock; keep a grid of intervals |
| **SingleThreadedExecutor** (`single_threaded_executor.cpp`) | which announcement is in force | announce infinity, wait for work, announce *now*, run callbacks until none is ready |
| **MultiThreadedExecutor** (`multi_threaded_executor.cpp`) | `wait_mutex_` over the wait set, one participant per worker, rclcpp's callback groups | the same with several workers |
| **Simulation loop** (`fss_px4_sim/src/px4_rotor_sim_node.cpp`, `mavlink_streamer.hpp`) | the time of the last step of the dynamics, each stream's last time of sending | one iteration per period of `Rate` |
| **Commander** (`px4_modules/commander`) | main state, navigation state, armed, `_offboard_available` (a hysteresis), `_status_changed`; the last published status and control mode | one pass: offboard signal, commands, arming, mode fallback, publication |
| **Land detector, take-off** (`px4_core/px4_sitl.cpp`, `mc_pos_control`) | landed and contact hysteresis, take-off state and ramp, `_setpoint`, `want_takeoff` | one pass each |
| **MAVLink receiver, uORB** (`mavlink_receiver.cpp`, `uORB_sim.hpp`) | topics, of which a subscriber sees the latest message only | publish commands, modes and setpoints |
| **MAVROS Lite** (`fss_px4_sim/src/mavros_lite`) | pending acknowledgements, connection state, UDP socket | arming and mode services, setpoints, state topics |
| **Controllers, dynamics, sensing** | floating-point numerics | |
| **Perfect drone, visualiser, keyboard, bring-up** | three flags of the perfect drone; otherwise none | I/O |

### How they interact

    thread ── announce(t) ──▶ backend ── ANNOUNCE t (DEALER, no reply) ──▶ coordinator
      ▲                                                                      │ try_update_clock
      │ node's ROS clock                                                     ▼
      └───────── /clock (best effort, history 1) ◀── publish worker ◀── publish_tasks_
    coordinator(child) ── announce worker ── ANNOUNCE ──▶ coordinator(root)
    coordinator(child) ◀── grants (PUB/SUB, dontwait) ── publish worker of the root

    ground ──▶ service / setpoint callback of MAVROS Lite ──▶ receiver ──▶ uORB topics
      ▲                                                            │ latest message only
      └── acknowledgement ◀── MAVLink streams ◀── PX4SITL::Run ◀────┘
                                                one pass per iteration of the loop

The coordinator advances when all participants have a new request (*lock step*):
to the least of the requests and of the speed regulator's request. With
`follows_real_time` a wall-clock floor can move the clock without waiting for
participants that follow it, too.

### Behaviours that are hard, and what correctness means

* *Interleaving of handlers.* Timers, services, the ROUTER thread and the parent
  SUB thread serialise on `mutex_` in any order. Correct: no participant passed, no
  possible advance missed, no request lost, speed limit kept.
* *Announcements are asynchronous.* A thread goes on while its message travels;
  `/clock` may be lost. Correct: clocks stand while threads compute; sleepers wake.
* *Crashes.* A dead participant holds the clock until it is cleared.
* *Two clocks.* A child announces from a state that may be stale when the
  grant arrives, and grants may be lost. Correct: the child stays within one step.
* *Uncorrelated replies.* A DEALER takes whatever reply comes next.
* *Condition variables.* Two queues with two mutexes and one stop flag.
* *Saturation at `kInfiniteTimeNs`*, pauses and factor changes.
* *A wait set shared by workers* who `try_lock` it. Correct: no ready callback is
  left lying, bursts of callbacks hold the clock, idle workers let it go,
  `cancel()` reaches everybody.
* *Interval arithmetic* after late wake-ups, missed periods, resets and clocks that
  jump back. Correct: no drift, no burst, nothing integrated twice.
* *A signal that is gained at once and lost after a while* (OFFBOARD), looked at
  once per pass. Correct: the vehicle flies by setpoints exactly as long as it
  gets them.
* *State published now and then and read every pass* (control mode, landed flag).
  Correct: what is read is current, or known to be how old.
* *Commands without correlation*, a time-out of wall time against passes of
  simulated time, topics that keep one message, a service that blocks the callback
  group its own setpoints come through. Correct: success means done, calls return,
  OFFBOARD recovers.
* *Conditions that wait for each other* (spool-up, landed, fresh setpoint, ramp).
  Correct: who is asked to climb takes off.

The hazards of `PROJECT.json` name these at their lines with the properties that
watch them; those without a property carry the reason.

## 2. Modules

| Module | Models | Extends / instantiates |
|---|---|---|
| `TimeCoordinator` | every handler, timer and service of one coordinator (root or child) | |
| `TimeCoordinatorProofs` | theorems about it | `TimeCoordinator`, `TLAPS` |
| `LockStepClock` | *abstract*: what the system promises to a sleeping thread | |
| `LockStepSwarm` | a lock-step root with its threads, channels and `/clock`; implements `LockStepClock` | `TimeCoordinator`, instance of `LockStepClock` |
| `Cascade` | a root and a child coordinator with the child's local participants | two instances of `TimeCoordinator` |
| `ParticipantBackend` | the request/reply protocol of one backend with the coordinator | `TimeCoordinator` |
| `AsyncWorkers` | the worker threads at the grain of mutex and condition-variable steps | |
| `MultiThreadedExecutor` | workers of that executor, rclcpp's wait set and callback groups, their announcements | |
| `SimLoop` | the simulation thread: `Rate`, one MAVLink stream, integration of the dynamics | |
| `Hysteresis` | `systemlib::Hysteresis`, a flag as a value | |
| `Commander` | the commander with the receiver before it and the streamer behind it | extends `Hysteresis` |
| `Flight` | one vehicle: commander, land detector, take-off, ground or air | extends `Commander` and implements it |
| `Commanding` | the services of MAVROS Lite in front of the commander | extends `Commander` and implements it |
| `AsyncWorkersProofs`, `MultiThreadedExecutorProofs`, `SimLoopProofs` | theorems about them | the module of that name, `TLAPS` |
| `LockStepSwarmProofs`, `ParticipantBackendProofs` | theorems about them | the module of that name, `TimeCoordinatorProofs` |
| `CascadeProofs` | theorems about it | `Cascade`, two instances of `TimeCoordinatorProofs`, `LockStepClock` and `TLAPS` |
| `VehicleProofs` | theorems about `Commander`, `Flight` and `Commanding` | `Flight`, `Commanding`, `TLAPS` |
| `MC*` | symmetry sets and sets of commands for TLC | the module of that name |

Definitions whose comment starts with "Mutant" are faulty variants of the
definition they precede. Nothing uses them; they exist so that each checked
property can be seen to fail when the code is wrong in that way.

### TimeCoordinator

One action per handler. Each handler of the code locks `mutex_` at its start and
releases it at its end, so it is atomic. Its guard is the code's early returns, and
every handler that ends in `try_update_clock_locked()` ends in `TryUpdateClock`,
which takes the participants and pacing requests as the handler has just left
them. `ShouldAdvance(ps, reg, rt, t)` is `should_advance()` with its output `t`.
`AdvanceTime` publishes and serves requests on a root; on a child it only queues
an announcement, and `ReceiveParentGrant` later does the rest.

| State | Code |
|---|---|
| `participants` | `participants_`, a function on the registered identities |
| `sim_time_ns`, `regulator_request_ns`, `real_time_request_ns`, `running`, `max_real_time_factor` | the members of those names; the factor in percent |
| `publish_tasks`, `announce_tasks` | the queues, holding the time that each closure captured |
| `published_ns` | what the publish worker sent last |

Abstractions. Time is a number of steps and `kInfiniteTimeNs` the small constant
`Infinite`, so that the code's own saturation (`>= kInfinite - step`) bounds the
state space. Wall time is the increment since the last real-time tick (any of
`WallSteps`) and, per participant, whether the zombie timeout has passed
(`silent`). Observed real-time factor, debug state and status topics are left out:
nothing reads them back. ANNOUNCE with text that is not a number is left out. Ties
of the wall-clock floor with the regulator are as in the code. `Room` and
`PublishRoom` are the model's bound `MaxTasks` on the two queues.

### LockStepSwarm and LockStepClock

*Loopers* sleep and compute by turns (`sleep_for`, `Rate::sleep`); *spinners* are
SingleThreadedExecutors whose callbacks arrive at any moment. Each has a FIFO
channel to the coordinator, an inbox of one for `/clock` (a value is missed, or
replaces the one not taken yet) and a ROS clock. `Join` is synchronous because
REGISTER awaits its reply; ANNOUNCE and UNREGISTER are sent and not awaited.
A thread can leave or, once per behaviour, a process can die and take the tail of
its channel with it. The coordinator's actions are those of `TimeCoordinator`.

`LockStepClock` is the abstract specification: a shared clock and, per thread, the
time at which it works; the clock jumps past nobody and stands while somebody
works. `ImplementsLockStepClock` shows the refinement with `time <- sim_time_ns`
and `wakes <- wake`, restricted to the loopers that take part. Messages, lost
`/clock` values, late node clocks, pauses, registration and crashes all map to
stuttering steps.

Executors do not implement it: `Before executing a ready callback, the executor
announces the current simulation time` (`fss_time/README.md:95`), but that
announcement is sent and not awaited, so the clock may still move until the
coordinator has handled it. `PinHoldsClock` is what does hold from then on.

### Cascade

Two instances of `TimeCoordinator` in lock step. The child's announce queue and
its DEALER channel are one FIFO (`child_announce_tasks`); the root's publish queue
and PUB/SUB channel are the other, from which a grant is delivered (`DeliverGrant`,
dropped by the child if it is not later than its time) or lost (`LoseGrant`). The
child is registered at the root before `Init` ends, as `start()` awaits it. Local
participants in `Repinning` are executors: they may announce the current time over a
pending request and a later time afterwards. Those in `LateJoiners` may register
at any moment; the others before the first announcement.

### ParticipantBackend

A call is the list of messages that it still has to send (`call`): REGISTER first
when the backend is not registered. `pending` is the request whose reply is
awaited, and *any* next reply is taken for it, because the code cannot tell
replies apart. `registered` is set by the REGISTER reply; an error reply makes the
call throw. UNREGISTER is sent without reading the OK that the coordinator returns.
`Reused` says whether the backend is called again afterwards; the thread-local
participant does not do so, and the run excludes it. Set to TRUE, the unread OK
answers the next REGISTER and `ReplyAnswersRequest` fails: the code relies on a
backend serving one registration.

### AsyncWorkers

The workers' loop is split at every operation that another thread can come between:
lock, test of the predicate, block (`condition_variable::wait` releases and blocks
in one step), wake (also spuriously), take or exit, run. `Enqueue` pushes under
the mutex and `NotifyTask` comes after its release, as in the code. The destructor
sets `stop_async_worker_` under `publish_mutex_`, notifies both and joins both.

`FairSpec` does not ask the announce worker to stop; see the known limits below.

### MultiThreadedExecutor

`spin()` and `run()` with simulated time. A worker's `pc` names where it is: before
`announce_next_safe_time(infinity)` ("release"), at the lock, waiting in
`wait_for_work`, with an executable ("taken"), running, at the `try_lock` after a
callback ("poll"), and so on to its end. `any_exec` is the callback group of its
executable, `wait_mutex` the holder of `wait_mutex_`, `busy` the exclusive groups that
cannot be taken from. rclcpp is external and modelled from its use: a wait collects
the groups that are free when it begins (`watched`) and returns on ready work of one
of them, on the guard condition or on a time-out; executing a callback frees its
group and triggers the guard, and so does the destructor of an `AnyExecutable` that
still has a group. Each worker's announcements travel on a channel of its own;
`entry` is what the coordinator last handled. The loop for
`use_fss_sim_time == false` is rclcpp's own and left out.

### SimLoop

One iteration integrates the dynamics from `last_time` to the clock and lets a stream
send; then `Rate::sleep` either finds its interval missed (`SleepMissed`) or
sleeps. The clock may move at any point by any amount (the loop need not be
in lock step), wake the thread late, jump back, and `Rate::reset` may be called. The
variables of the code are `last_interval`, `until` (`next_interval`), `last_time`
and `time_last_send`; the other ones marked *auxiliary* record what the properties
speak of. `MavlinkStream::Stream` starts with `time_last_send_` at 0 although the
clock may start later, as `Starts` has it.

### Hysteresis, Commander, Flight

Time is counted in passes of `PX4SITL::Run`; a pass has three phases, between which
the ground's messages arrive on another thread and overwrite what was not read:

| Phase | Action | Code |
|---|---|---|
| "run" | `OffboardControlUpdate`; in `Flight` also `DetectLand` | the commander's look at `offboard_control_mode`; the detector's at `vehicle_control_mode` |
| "commands" | `RunCommander` | `vehicle_command`, `arm`/`disarm`, `set_nav_state`, publication |
| "control" | `StreamMavlink`; in `Flight` also the position controller and the dynamics | acknowledgement to the streams; `MulticopterPositionControl::Run` |

`vehicle_command`, `offboard_control_mode` and `trajectory` hold the unread message of
a topic, or none. The commander's abstractions: RC is always lost and the estimate
valid after the first pass, as the simulator configures it; "MANUAL" stands for
MANUAL, STAB and ACRO, "AUTO_FOLLOW_TARGET" for the modes that `set_nav_state` has no
case for; ALTCTL (treated as MANUAL) and LOITER, RTL, TAKEOFF (as AUTO_LAND) are
left out.

`Flight` adds the two steps of the receiver's setpoint handler (kind first, setpoint
only if the status then published says OFFBOARD), the detector's two hysteresis
flags, the take-off state machine with its falling cases, the ramp, and the rule that
replaces setpoints before take-off. The dynamics are: on the ground (up to the
detector's 2 cm) or in the air. A setpoint published while the position controller is
off is read later with its age (`trajectory_age`); before the first setpoint the failsafe
branch flies the vehicle. Position and velocity setpoints are modelled; one that
gives an acceleration only is not: the controller erases its vertical part until the
ramp is over, so that it ends in the failsafe, too. Without thrust the vehicle may come down, with the
ramp past `LiftOff` and an upward setpoint it rises, otherwise either may happen.

### Commanding

MAVROS Lite and the PX4 core in one process: messages are handed over by function
calls. The node's callbacks share one mutually exclusive callback group, so `service`
is one call at a time, and nothing else the node is asked happens during it. It
holds up no *simulated* time: the node's executor is a vanilla one, and the simulation thread
goes on, and acknowledges, while the service waits. `Timeout` may happen at any moment of
the wait, for `ack_timeout` is wall time and passes are simulated.

`Flight` and `Commanding` both implement `Commander` (`FlightImplementsCommander`,
`CommandingImplementsCommander`): what is proved of the commander with arbitrary
messages holds of the vehicle and of the services.

## 3. Runs

| Run | Question | Result |
|---|---|---|
| `CoordinatorLockStep` | Does any order of messages, ticks and services take a participant past its safe time, miss an advance, owe a grant, publish out of order (with two values under way), or stall when all wait? | no |
| `CoordinatorRealTime` | With the wall-clock floor: is the factor respected, saturation kept, are non-following participants waited for, and do following ones never hold the clock? | yes |
| `CoordinatorChild` | With a parent that grants anything at any time: does a child announce only what is safe for all its participants (`AnnouncesSafeTimes`)? That it owes no grant and publishes in order is proved (section 4) | yes |
| `Swarm` | End to end with asynchronous messages, losses, a crash: is the sleeper in lock step (`ImplementsLockStepClock`), does it compute at exactly its time (`WakesOnTime`), does a handled pin hold the clock, does every sleeper wake, and is a dead one cleared? | yes |
| `Cascade` | Do two clocks stay within one step and are sleepers never overtaken by a stale announcement? | yes |
| `Backend` | Are replies matched, always on the way, the setting lasting, the clock held while a non-follower computes? | yes |
| `AsyncWorkers` | Are tasks taken, queues drained, and does the publish worker stop? | yes |
| `Executor` | Do bursts hold the clock, is work done without a time-out's help, does an idle executor let the clock go, and does `cancel()` stop it? | yes |
| `ExecutorExclusion` | Do callbacks of a mutually exclusive group exclude each other? | **no** |
| `SimLoop` | Does the loop keep its pace and its grid, do its streams keep up, are the dynamics integrated over the time that passed? | yes |
| `Flight` | Is OFFBOARD flown exactly while setpoints are heard, is the control mode current, is thrust taken away only on (or shortly after) the ground, does a vehicle asked to climb take off? | yes |
| `Commanding` | Does success mean done, does every call return, does OFFBOARD resume after calls that held its setpoints up? | yes |

The largest are `Flight` (772,732 distinct states, two minutes), `SimLoop` (739,872),
`CoordinatorLockStep` (220,246, over two minutes for its liveness), `Commanding`
(202,650), `Cascade` (56,862, a minute and a half for its
liveness) and `Executor` (53,608).

### What the violation shows

`ExecutorExclusion`. After a callback a worker drains more work: `while
(get_next_executable(any_exec, 0ns))` executes a *copy* of `any_exec` made in the
loop (`multi_threaded_executor.cpp:237`), and assigning or destroying an
`AnyExecutable` that still names a group makes that group available. So the
group of the second callback is free before that callback has run, and another
worker takes the group's next one. The comment at `multi_threaded_executor.cpp:202`
says that the loop is meant to be `original rclcpp::executors::MultiThreadedExecutor
behavior`, for which a mutually exclusive group excludes. The run needs two
ready callbacks in a group, hence `MaxReady` 2.

### Known limits, met while modelling

These are consequences of the code that the properties leave out. Each property says
what it excludes; where a document says otherwise, it is quoted.

* *Pinned non-follower* (`time_coordinator.cpp:719`). `should_advance()` asks whether a
  non-following participant *has* a new request, not for *which time*. With the
  wall-clock floor an executor that pins the current time is passed during its callback,
  although `fss_time/README.md:208` wants of a non-following participant that "the next
  time step must not be granted until that specific participant has completed its current
  computation". Line 215 there, "has not issued its next request", is what the code does, and
  `NonFollowerHoldsClock` states that; `ComputingHoldsClock` states line 208 for a thread
  whose announcements are all reached.
* *Dead participant in a callback* (`:424`). `clear_zombie_participants()` skips everyone
  with a new request, and a request for the current time is never passed since it holds
  the clock itself. Such a dead participant cannot be cleared.
* *Cascade* (`:523`). A child cannot withdraw an announcement. A local participant that
  pins or registers after it is passed when the grant comes; threads that only sleep
  are not (`SleepersNotOvertaken`), and only they are promised their time
  (`LocalSleeperWakes`).
* *Announce worker's stop* (`:842`). The flag is set under `publish_mutex_` only, so
  the announce worker may miss its notification and its join wait on, unless a
  spurious wake-up or a task comes. `PublishWorkerStops` speaks of the other one.
* *Rate's first interval after a long delay* (`rate.cpp:69`). `last_interval_` becomes
  `now + period`, and intervals that are each late stay off the grid; `NoDrift` speaks
  of loops that skipped nothing, `TickBudget` of all.
* *Streams after a jump back* are silent until the clock has caught up.
* *Crossed acknowledgements*. A call that begins while the answer to an earlier one of
  the same id is under way may take it for its own (`crossed`).
* *A `set_mode` followed by an arming call within one pass* is lost: the topic keeps
  one message, and `set_mode` waits for no acknowledgement. A *broadcast* command reports success when
  it is sent; the receiver takes only commands addressed to it.
* *Landed up to half a second late* (`px4_sitl.cpp:235`). The detector looks only when a
  control mode was published, which without a change is at 2 Hz. A vehicle that has
  just lifted off and is switched from attitude to position setpoints counts as
  landed, and its thrust is taken away. `FlightEndsOnGround` gives the bound.
* *`want_takeoff` in POSCTL* keeps the value it had in OFFBOARD.
* *No setpoint yet* (`MulticopterPositionControl.cpp:523`). The receiver publishes a setpoint only
  once the status says OFFBOARD, so the mode begins without one unless an earlier one was
  read, and the failsafe flies by zeros, which the code's own comment calls unsafe. It
  knows no take-off ramp: such a vehicle may rise before its take-off (`Powerless`).
* *Live but slow threads in the swarm*. `clear_zombie_participants()` (`time_coordinator.cpp:424`)
  goes by silence alone and clears a live thread that computes for longer than the zombie
  timeout. `LockStepSwarm` assumes that only a crashed thread falls silent
  (`TimeOutCrashed`): `WakesOnTime`, `ImplementsLockStepClock` and `SleeperWakes` are about
  threads that announce within that time. `TimeCoordinator` and `ParticipantBackend` let
  anybody fall silent.

`SettingLasts` holds *until the operator clears the participant*. A slow thread can
be taken for a zombie; its next ANNOUNCE re-creates the entry with
`follows_real_time` at its default and nobody sends the setting again.

### Bounds and why they are enough

* *Two participants.* The decision depends on "all have a new request" and
  on the least request, so that one that is ready and one that is not, or one earlier
  and one later, are the cases. The proofs have no bound.
* `Infinite` 3 to 6 with `Step` 1 or 2. With `Step` 2 there are requests between
  two regulator targets; `Infinite` leaves room for two advances and the saturation
  at the end. `CoordinatorRealTime` reaches saturation of the floor with `Infinite` 3.
* `RealTimeFactors` 0 (stopped), 50 (below real time, where the floor is capped by the
  regulator), 100 (uncapped). `WallSteps` {1}: longer ticks are repetitions.
* `MaxTasks` 2 in `CoordinatorLockStep`, whose `ClockStreamInOrder` is about the order of
  values under way together (the worker that takes the newest first breaks it, which
  needs two), and in `AsyncWorkers`; 1 where a run's properties are about the decision
  to advance and not about the queue.
  The handlers wait for room in the model; in the code they do not, hence the
  strong fairness below.
* `MaxMessages` 2: a thread's later message is behind an earlier one (an executor's
  pin behind its release). `MaxRequests` 1 in `Backend`: an ANNOUNCE in flight while the next
  call begins.
* At most one crash per behaviour. In `Swarm` it is the sleeper's: a dead executor may
  hold the clock for ever, which `SleeperWakes` excuses as `HeldByDead`.
* `Swarm` starts paused or running and is not paused again, which would excuse the
  liveness properties; the `Coordinator` runs pause at any time.
* `Cascade` has `Infinite` 6 and `Step` 2: three regulator targets, a stale
  announcement with a later grant. `RunningValues` both: the child may start paused.
* `Executor`: two workers are enough to contend for the wait set, an exclusive and a
  reentrant group to compete for. One ready callback each is enough for the wait-set
  races because others arrive at any time; `MaxMessages` 2 puts a pin behind a release.
* `SimLoop`: a period of 2 and a stream of 3 drift against each other; `Horizon` 9 leaves
  room for delays of four periods and one jump back. The proofs have no horizon.
* `Flight` and `Commanding`: each hold is as short as its order relative to the others
  allows: the landing time (2) as long as a status period (2), the ramp (4) longer than
  lift-off (1). `LossTime` 1 means one pass of silence is tolerated and two
  are not; the theorems about the commander are for every `LossTime` and `StatusPeriod`.
  `MCFlight` has arming, disarming and OFFBOARD, from which the vehicle falls back to
  POSCTL; `MCCommanding` adds POSCTL and an arming parameter that the commander does not
  answer. A climb and an attitude are the setpoints that the take-off treats differently.

Deadlock is checked except in four runs. `AsyncWorkers`, `Executor` and
`ExecutorExclusion`: the destructor or `cancel()` ends all threads. `SimLoop`: the clock
stops at the horizon.

### Fairness

* Worker threads and wall timers run: weak fairness of the publish worker, strong
  fairness of the ticks. Strong only because `MaxTasks` disables a tick while a queue
  is full; the code's timers fire regardless.
* Sockets deliver (ZeroMQ over a connection that stays up): strong fairness of handling a
  message, for the same reason.
* `/clock` may lose any value and the grant channel any grant, but not all of an
  infinite number: strong fairness of a publication that reaches a given node; for
  grants, infinitely many losses imply infinitely many deliveries. The
  repetitions that this relies on are those of the 200 ms status timer.
* A thread that computes finishes (`Duty`), as `fss_time` requires of its clients.
* The operator keeps calling clear_zombie_participants in `Swarm`. Joining, leaving,
  crashing, pausing, arriving callbacks: no fairness.
* In `Executor` a worker that can run does (strong where they compete for
  `wait_mutex_`), callbacks end and messages arrive. No time-out of the wait is
  assumed, so that `WorkIsDone` shows that none is needed.
* In `Flight` the simulation thread runs, a handler that has begun ends, and what has no
  thrust comes down (strong: the mode may change under way). Commands and setpoints
  come or not.
* In `Commanding` the simulation thread runs and a call goes on; a publisher's
  setpoints get their turn between calls (strong: the callback group is busy meanwhile),
  which is the executor's own scheduling.
* `SimLoop` and `CoordinatorChild` check safety only.
* In `AsyncWorkers` a runnable thread runs, and a destructor that has begun goes on. No
  spurious wake-up is assumed.

## 4. Proofs

Eight modules hold theorems; each is for every value of the constants that satisfies
the module's named assumptions. Every safety property that a passing run checks is
stated by one of them; liveness stays with TLC.

### TimeCoordinatorProofs

It proves, for every set of participants, every `Infinite`,
`Step`, set of factors and of wall steps, root or child, lock step or real time, and
task queues of any length:

| Theorem | States |
|---|---|
| `TypeCorrect` | `Spec => []TypeOK`: the requests stay within 0 .. Infinite, i.e. the saturation in the regulator and in the floor is enough |
| `NothingOwed` | `Spec => []NoGrantOwed` |
| `SpeedLimited` | `Spec => []SpeedLimit` |
| `NeverOvertakes` | `Spec => NoOvertake`, the conservative lock step itself |
| `NeverMissesAdvance` | `Spec => []NoMissedAdvance`: no handler of a lock-step root returns while the clock could go on |
| `StreamInOrder` | `Spec => []ClockStreamInOrder`, for roots and for children |
| `AnnouncesOnlySafeTimes` | `Spec => AnnouncesSafeTimes`, the child's side of the lock step |
| `NonFollowersHoldTheClock` | `Spec => NonFollowerHoldsClock`, in lock step and in real time |

Assumptions: those that `TimeCoordinator` states about its constants (a positive step
less than infinity; booleans; factors and wall steps are naturals).

The argument. All handlers but five end in `TryUpdateClock`, so each theorem
has one lemma about `TryUpdateClock` for arbitrary well-typed participants
(`TryUpdateClockType`, `-Serves`, `-Pace`, `-Conservative`, `-Exhausts`, `-Announces`,
`-Held`) and one lemma over the
disjuncts of `Next`. `TypeOK` is inductive by itself; its interesting half is that
`RegulatorTarget` and `RealTimeRequest` saturate and that `t` is a time
(`ShouldAdvanceTarget`). `NoGrantOwed` is inductive relative to `TypeOK`:
announcing sets the flag with the request, `Served` clears it only when the
request is reached, a new entry asks for time 0, and time only grows. `SpeedLimit` is
inductive with `TypeOK`; its two conjuncts need each other: the regulator releases
a new step only when the clock has used up the last, and the clock goes no further
than the regulator unless the floor may move it. `NoOvertake` is an action
property that follows from `TypeOK`: in lock step `t` is the least of the requests
and `Served` leaves requests as they are. `NoMissedAdvance` is inductive with
`TypeOK`: a handler that ends in a clock update either found no target, or moved the
clock to the least request, which then is no longer later than the clock
(`TryUpdateClockExhausts`); a handler that does not end in one leaves no more of the
conditions true than it found (`SameRequests`: a new entry has no new request; the
pacing reset puts the regulator's request on the clock itself).
`ClockStreamInOrder` is inductive with `TypeOK`: what is queued is at least the
clock and becomes the clock (`AppendInOrder`), and sending moves the head of the
queue to the front of the stream (`SendInOrder`). `AnnouncesSafeTimes` and
`NonFollowerHoldsClock` are action properties that follow from `TypeOK`, the second
because each handler other than `Announce` leaves the flags of the participants it
keeps as they were, and `Announce` only sets its own sender's.

### AsyncWorkersProofs

`TypeCorrect`; `StoppingDrains` (`Spec => []ExitedIsDrained`): a worker decides to
exit on an empty queue under its mutex, and once the flag is set nobody queues a task any
more (`Drained`);
`PublishWorkerNoticesStop`: once the notification was sent, the publish worker does not
block again without having seen the flag. This is the safety part of
`PublishWorkerStops`, and it fails for the announce worker. `NoTaskIsForgotten`
(`Spec => []NotificationComes`) is the safety part of `TasksTaken`, for both: a worker
decides to wait on an empty queue and holds the mutex until it waits, so a task that it
does not see comes afterwards and its notification after that.

### MultiThreadedExecutorProofs

`TypeCorrect` and `BurstsHoldTheClock` (`Spec => []CallbackHoldsClock`), for any
number of workers and groups. The invariant `BurstIsPinned` is about a worker's *last
word*, the last message in its channel or else the coordinator's entry: in a burst
it is "pinned". Handling a message does not change it.

### SimLoopProofs

`TypeCorrect`, `RateKeepsItsPace` (`TickBudget`), `RateDoesNotDrift`
(`NoDrift`), `DynamicsFollow` and `StreamsAreKeptUp`, for every period. In `Paced` the
iterations let through, plus the time since the last interval (which may let
through more), are paid for by the way the clock has gone, an iteration that is
slept for when the clock arrives; and `burst` is counted with the iterations that
can still be let through at this instant (`Credit`). `Gridded` ties `last_interval` to
`grid`, `Followed` what is integrated and sent to the clock.

### LockStepSwarmProofs

For any number of loopers and spinners, channels of any length, and any loss, leaving
or crash. `SwarmImplementsCoordinator` (`SwarmSpec => Spec`): every step is a step of the
coordinator or leaves it alone, so that all theorems of `TimeCoordinatorProofs` hold in
the swarm. `SleepersWakeOnTime` (`WakesOnTime`), `PinHoldsTheClock` (`PinHoldsClock`) and
`SwarmImplementsClock` (`ImplementsLockStepClock`) rest on one inductive invariant,
`SwarmInv` (`ThreadsAreAlwaysHeard`). `ClocksAreBehind` puts each node clock and
inbox at or behind the coordinator's time. `ThreadsAreHeard` relates what a
thread does to the last thing it has said, the last message in its channel or else its
entry: a sleeper's is its `wake`, and while it works all that it has said is reached by the
clock already, so that the coordinator, which never overtakes a request, stays;
an executor in a callback has last said a time that is reached, so that with its channel
empty its entry holds the clock. None of the three is inductive without it: the
coordinator acts on its entries, the properties speak of the threads, and the
channels lie between.

### ParticipantBackendProofs

For any number of other participants. `BackendImplementsCoordinator` (`BackendSpec => Spec`);
`AnswersAreComing` (`AnswerIsComing`): a request leaves the queue only as its reply is
put on the way back, and replies leave only to the call that waits. That one holds
however the backend is used. `RepliesAnswerRequests` (`ReplyAnswersRequest`), `SettingsLast` (`SettingLasts`)
and `ComputingHoldsTheClock` (`ComputingHoldsClock`) are under the hypothesis `~ Reused`:
the backend is not called again after `unregister_participant()`. The code's only user,
the thread-local participant, unregisters in its destructor; and with `Reused` the
unread OK of UNREGISTER makes the first of them false, as TLC shows. Their invariant
`Phases` says that the backend is always in one of seven: `Unregistered`,
`Registering` (REGISTER on its way), `Confirmed` (its reply on the way back), `Free`
(nothing awaited; only announcements on their way), `Asking` and `Answered` (the same for
SET_FOLLOWS_REAL_TIME), and `Closed`. Each says what may be in the two queues, which is
at most one reply. `ComputingHoldsTheClock` adds that in such a state no handler finds a
target, since an entry without a new request that does not follow real time stops
`ShouldAdvance`.

### CascadeProofs

For any number of local participants, executors and late joiners among them. Root and
child are instances of `TimeCoordinator`, and `RootFacts` and `MachineFacts` are the same
instances of `TimeCoordinatorProofs`, so that its lemmas about `TryUpdateClock` apply to both.
`CascadeAssumption` repeats for the cascade what `TimeCoordinator` assumes of its
constants, as an instance needs it.

`ChildFollowsRoot` and `SleepersNotOvertaken` are not inductive: the announcement that a
grant answers was made from an earlier state of the child. `Outstanding` is the set of all
values on their way between the two (the announcement queue, the child's entry at the root, the
root's time and its publish queue), and `CascadeInv` (`OnlySafeTimesTravel`)
says that each is `Safe`: at most a step beyond the child's clock, and beyond the clock
only if every participant that only sleeps has announced no less. A sleeper cannot
announce again before its request is reached, so what was safe stays safe until
the child gets there; and the root adds no value that is later than one on its way, for
its target is at most the child's request (`ShouldAdvance`), whatever its regulator says.
`ChildStaysWithRoot` and `GrantsOvertakeNobody` follow.

`ChildImplementsCoordinator` shows that the child refines `TimeCoordinator` with a parent that
grants anything, so that `CoordinatorChild`'s theorems (`ChildOwesNothing` for one)
hold in the cascade. `CascadeImplementsClock` shows that the two coordinators with all
that is between them implement `LockStepClock` for the child's sleepers: the
abstract specification that `LockStepSwarm` implements with one coordinator. No run
checks this one.

### VehicleProofs

`FollowsSetpoints` (`OffboardFollowsSetpoints`) rests on `SignalIsHeld`, which ties the
hysteresis to the auxiliary `silence`: after a pass with a setpoint no loss is pending,
after `silence` passes without one it is pending since the first of them, and after more
than `LossTime` the signal is lost. The lemmas `SilenceEnds` and `SilenceGoesOn` are
the two ways a pass can go. `ModeIsCurrent` rests on `ChangesAreNoticed`: a control
mode that is out of date is seen between the first two phases only, and then
`status_changed` is set.

`FlightStep` and `CommandingStep` show that each step of the composed modules is a
step of the commander or leaves it alone; the refinements `FlightImplementsCommander` and
`CommandingImplementsCommander` and the commander's properties follow.
`CommanderTypeCorrect`, `FlightTypeCorrect` and `CommandingTypeCorrect` are the types; the
counters of the hystereses stay within their limits.

`FlightEndsDown` (`FlightEndsOnGround`) is about a flag that is read long after it was
computed. Its invariant `LandedInv` (`DetectorKeepsUp`) bounds the passes that an armed vehicle
has been in the air while the detector still says it has landed (`aloft`) by the
age of the published status, phase by phase (`LandedIsRecent`): a vehicle that is aloft
makes the detector say so at the first control mode that it reads, and one is
published at the latest when `status_age` reaches `StatusPeriod`. `UnreadIsNew` (an unread
control mode is of this pass) and `DownAtFirst` (the count runs in the air only) make it
inductive. The bound is tight: with `StatusPeriod - 1` the proof has no way through and
TLC finds the behaviour.

`SuccessIsDone` (`SuccessMeansDone`) rests on `OnlyCall`: between sending
and returning, an uncrossed call's command is the only one of its id under way, in the
topic, in the acknowledgement's topic or in the table, and once accepted its effect
stays, since the callback group lets nothing else through (`DoneStays`).

### Only model-checked

Liveness under fairness, which is out of the prover's reach: `WaitingClockMoves`,
`FollowersDoNotHoldClock`, `SleeperWakes`, `DeadSleeperCleared`, `LocalSleeperWakes`,
`TasksTaken`, `PublishWorkerStops`, `WorkIsDone`, `IdleReleasesClock`, `CancelStops`,
`TakesOff`, `CallsReturn`, `OffboardResumes`. Of some the safety part is proved:
of `WaitingClockMoves` that no possible advance is missed (`NeverMissesAdvance`), of
`TasksTaken` and `PublishWorkerStops` that no notification is lost. That two
callbacks of an exclusive group exclude each other is false (`ExecutorExclusion`).

## 5. Not modelled

* `observed_rtf`, status and debug topics, parameters, logging, the terminal UI.
* A coordinator that restarts (its participants would have to register again, and
  nothing tells them to), and ZeroMQ high-water marks.
* *Executor* with `use_fss_sim_time` off: rclcpp's own loops.
* *MAVROS Lite over UDP* between two processes: the transport, the connection state and
  its time-out. The modelled configuration is the one in a single process.
* *Commander*: home position, flight timers, pre-arm checks that the simulator
  disables, and the modes named above.
* *MAVLink*: messages whose handlers convert and publish without keeping state. The
  headers under `include/mavlink`, PX4's matrix library and the parameter tables are
  vendored or generated; they are most of the repository's lines.
* *Controllers, estimation, rigid-body dynamics, sensor conversions, point-cloud
  rendering*: floating-point numerics without protocol state.
* *Perfect drone*: three flags that service callbacks set; the visualiser and the
  keyboard script are I/O; bring-up is launch files.

## 6. Plan

What is left, in this order.

1. *Proofs* of the safety behind the liveness properties that have none yet: that
   work which arrives triggers the guard condition or finds a worker that looks
   (`WorkIsDone`), that a cancelled executor's worker does not wait again
   (`CancelStops`), that a lost grant is repeated (`LocalSleeperWakes`), that a
   call's acknowledgement or time-out is always possible (`CallsReturn`).
2. *Cascade*: real-time mode, several children, a child with factor 0, a coordinator
   that restarts.
3. *MAVROS Lite over UDP*: lost and reordered datagrams, the connection state, the
   services' time-outs with a vehicle in another process.
4. *Composition* of `MultiThreadedExecutor` with `TimeCoordinator` in place of `entry`.
