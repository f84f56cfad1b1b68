---------------------------- MODULE LockStepSwarm ----------------------------
(***************************************************************************)
(* A root coordinator in lock-step mode together with the threads it       *)
(* serves, each with its own ZeroMQ channel to the coordinator and its own *)
(* ROS clock fed by the best-effort /clock topic:                          *)
(*   - loopers: a thread that computes and then calls fss_time::sleep_for, *)
(*     sleep_until or Rate::sleep (sleep.cpp, rate.cpp);                   *)
(*   - spinners: a fss_time SingleThreadedExecutor (its callbacks arrive   *)
(*     at any moment).                                                     *)
(* An announcement is sent and not answered: the thread goes on while the  *)
(* message travels.  Threads can leave or crash at any point.              *)
(***************************************************************************)
EXTENDS TimeCoordinator

CONSTANTS
  Loopers, Spinners,    \* the participants by kind
  Periods,              \* how far ahead of its clock a looper sleeps
  MayCrash,             \* the participants whose process may die
  ControlValues,        \* values of running the operator sends to fss/clock_control
  MaxMessages           \* bound of the model on each channel

ASSUME SwarmAssumption ==
  /\ Loopers \cup Spinners = Participant
  /\ Loopers \cap Spinners = {}
  /\ Periods \subseteq Nat \ {0}
  /\ MayCrash \subseteq Participant
  /\ ControlValues \subseteq BOOLEAN
  /\ MaxMessages \in Nat \ {0}
  /\ ~ HasParent /\ ~ FollowsRealTime

VARIABLES
  pc,           \* what each thread is doing
  channel,      \* its messages on the way to the coordinator, in order
  inbox,        \* the latest /clock value its node has received but not taken
  node_clock,   \* its node's ROS time
  wake,         \* until when a looper sleeps
  ahead         \* auxiliary: wake was later than sim_time_ns when it was chosen

threads == <<pc, channel, inbox, node_clock, wake, ahead>>
allvars == <<vars, threads>>

Message_Announce(t) == [kind |-> "ANNOUNCE", time |-> t]
Message_Unregister == [kind |-> "UNREGISTER", time |-> 0]

Send(p, message) ==
  /\ Len(channel[p]) < MaxMessages
  /\ channel' = [channel EXCEPT ![p] = Append(@, message)]

Goto(p, from, to) ==
  /\ pc[p] \in from
  /\ pc' = [pc EXCEPT ![p] = to]

-----------------------------------------------------------------------------
(* Threads.                                                                *)

\* thread_time_participant::for_current_thread: REGISTER is a request that
\* waits for its reply, so the coordinator has handled it when the call returns.
Join(p) ==
  /\ Goto(p, {"off"}, IF p \in Loopers THEN "working" ELSE "spinning")
  /\ Register(p)
  /\ UNCHANGED <<channel, inbox, node_clock, wake, ahead>>

\* sleep_for / Rate::sleep: announce the wake-up time, then sleep on the ROS clock.
LooperSleep(p, period) ==
  LET until == node_clock[p] + period
  IN  /\ p \in Loopers
      /\ until <= Infinite
      /\ Goto(p, {"working"}, "sleeping")
      /\ Send(p, Message_Announce(until))
      /\ wake' = [wake EXCEPT ![p] = until]
      /\ ahead' = [ahead EXCEPT ![p] = until > sim_time_ns]
      /\ UNCHANGED <<vars, inbox, node_clock>>

LooperWake(p) ==
  /\ node_clock[p] >= wake[p]
  /\ Goto(p, {"sleeping"}, "working")
  /\ UNCHANGED <<vars, channel, inbox, node_clock, wake, ahead>>

\* The executor announces infinity and waits for work ...
SpinnerRelease(p) ==
  /\ p \in Spinners
  /\ Goto(p, {"spinning", "callback"}, "waiting")
  /\ Send(p, Message_Announce(Infinite))
  /\ UNCHANGED <<vars, inbox, node_clock, wake, ahead>>

\* ... and announces its node's current time before it runs what it got.
SpinnerTakeWork(p) ==
  /\ Goto(p, {"waiting"}, "callback")
  /\ Send(p, Message_Announce(node_clock[p]))
  /\ UNCHANGED <<vars, inbox, node_clock, wake, ahead>>

\* The thread ends, a shutdown waking it if it sleeps or waits, and its
\* thread-local participant sends UNREGISTER and awaits no reply.
Leave(p) ==
  /\ Goto(p, {"working", "sleeping", "spinning", "waiting", "callback"}, "left")
  /\ Send(p, Message_Unregister)
  /\ UNCHANGED <<vars, inbox, node_clock, wake, ahead>>

\* The process dies; of its messages on the way the last ones may be lost.
Crash(p) ==
  /\ p \in MayCrash
  /\ \A q \in Participant : pc[q] # "crashed"
  /\ Goto(p, {"working", "sleeping", "spinning", "waiting", "callback"}, "crashed")
  /\ \E n \in 0 .. Len(channel[p]) :
       channel' = [channel EXCEPT ![p] = SubSeq(@, 1, n)]
  /\ UNCHANGED <<vars, inbox, node_clock, wake, ahead>>

ReceiveClock(p) ==
  /\ inbox[p] > node_clock[p]
  /\ node_clock' = [node_clock EXCEPT ![p] = inbox[p]]
  /\ UNCHANGED <<vars, pc, channel, inbox, wake, ahead>>

-----------------------------------------------------------------------------
(* The coordinator.                                                        *)

HandleMessage(p) ==
  /\ channel[p] # <<>>
  /\ channel' = [channel EXCEPT ![p] = Tail(@)]
  /\ LET message == Head(channel[p])
     IN  IF message.kind = "ANNOUNCE" THEN Announce(p, message.time) ELSE Unregister(p)
  /\ UNCHANGED <<pc, inbox, node_clock, wake, ahead>>

\* /clock is best effort with a history of one: a node misses the value or
\* has it replace an older one it has not taken yet.
PublishTo(nodes) ==
  /\ PublishWorker
  /\ inbox' = [p \in Participant |-> IF p \in nodes THEN published_ns' ELSE inbox[p]]
  /\ UNCHANGED <<pc, channel, node_clock, wake, ahead>>

\* Only a crashed thread stays silent for long: a live one announces within
\* the zombie timeout.
TimeOutCrashed(p) ==
  /\ pc[p] = "crashed" /\ channel[p] = <<>>
  /\ FallSilent(p)
  /\ UNCHANGED threads

Tick == RegulatorTick /\ UNCHANGED threads
StatusTick == ClockStatusTick /\ UNCHANGED threads
Clear == ClearZombieParticipants /\ UNCHANGED threads
Pause(value) == SetRunning(value) /\ UNCHANGED threads

-----------------------------------------------------------------------------
SwarmInit ==
  /\ Init
  /\ pc = [p \in Participant |-> "off"]
  /\ channel = [p \in Participant |-> <<>>]
  /\ inbox = [p \in Participant |-> 0]
  /\ node_clock = [p \in Participant |-> 0]
  /\ wake = [p \in Participant |-> 0]
  /\ ahead = [p \in Participant |-> FALSE]

Thread(p) ==
  \/ Join(p)
  \/ \E period \in Periods : LooperSleep(p, period)
  \/ LooperWake(p)
  \/ SpinnerRelease(p)
  \/ SpinnerTakeWork(p)
  \/ Leave(p)
  \/ Crash(p)
  \/ ReceiveClock(p)

SwarmNext ==
  \/ \E p \in Participant : Thread(p) \/ HandleMessage(p)
  \/ \E nodes \in SUBSET Participant : PublishTo(nodes)
  \/ Tick \/ StatusTick \/ Clear
  \/ \E p \in Participant : TimeOutCrashed(p)
  \/ \E value \in ControlValues : Pause(value)

SwarmSpec == SwarmInit /\ [][SwarmNext]_allvars

\* What a thread, or the wall clock for a dead one, does next without choice.
Duty(p) ==
  \/ SpinnerRelease(p) \/ \E period \in Periods : LooperSleep(p, period)
  \/ LooperWake(p)
  \/ TimeOutCrashed(p)

\* Threads finish their computations, the sockets deliver, the timers fire,
\* and /clock, though it may lose any single value, does not lose them all.
\* Strong fairness where the bounds MaxTasks and MaxMessages switch a step off
\* for a while.  The operator keeps clearing zombies; joining, leaving,
\* crashing and pausing are nobody's duty.
SwarmFairness ==
  /\ \A p \in Participant :
       /\ WF_allvars(Duty(p))
       /\ WF_allvars(ReceiveClock(p))
       /\ SF_allvars(HandleMessage(p))
       /\ SF_allvars(\E nodes \in SUBSET Participant : p \in nodes /\ PublishTo(nodes))
  /\ SF_allvars(Tick) /\ SF_allvars(StatusTick) /\ SF_allvars(Clear)

SwarmFairSpec == SwarmSpec /\ SwarmFairness

-----------------------------------------------------------------------------
(* Properties.                                                             *)

SwarmTypeOK ==
  /\ TypeOK
  /\ pc \in [Participant -> {"off", "working", "sleeping", "spinning", "waiting",
                             "callback", "left", "crashed"}]
  /\ channel \in [Participant -> Seq([kind : {"ANNOUNCE", "UNREGISTER"}, time : Time])]
  /\ inbox \in [Participant -> Time]
  /\ node_clock \in [Participant -> Time]
  /\ wake \in [Participant -> Time]
  /\ ahead \in [Participant -> BOOLEAN]

\* "grants the shared simulation clock only after every participating thread
\* has announced the next time at which it is safe for the clock to advance"
\* (fss_time README.md:3): to its sleeping threads the whole system is a LockStepClock.
\* Simulation time stands still while any of them computes and jumps past none
\* of them, however late its clock, its messages and its registration are.
TakesPart(p) == pc[p] \in {"working", "sleeping"}

Clock == INSTANCE LockStepClock WITH
  Threads <- Loopers,
  time <- sim_time_ns,
  wakes <- [p \in {q \in Loopers : TakesPart(q)} |-> wake[p]]

ImplementsLockStepClock == Clock!Spec

\* Determinism with respect to simulation time (fss_time README.md:3): a thread that
\* went to sleep until a future time computes at exactly that time, and the
\* coordinator's clock stands there while it does.
WakesOnTime ==
  \A p \in Participant :
    pc[p] = "working" /\ ahead[p] =>
      node_clock[p] = wake[p] /\ (p \in DOMAIN participants => sim_time_ns = wake[p])

\* Once the coordinator has seen the announcement that an executor makes
\* before a callback, the clock stands still until the callback is done.
PinHoldsClock ==
  [][sim_time_ns' > sim_time_ns =>
       \A p \in Participant :
         pc[p] = "callback" /\ channel[p] = <<>> => p \notin DOMAIN participants']_allvars

\* The coordinator waits for the next request of a thread that is dead: its
\* last one is reached but is still marked new.
HeldByDead ==
  \E p \in DOMAIN participants :
    /\ pc[p] = "crashed"
    /\ participants[p].has_new_request /\ participants[p].request_time_ns <= sim_time_ns

\* Every sleeper wakes: a thread that sleeps until a finite time wakes up, with
\* /clock values, threads and whole processes being lost on the way, unless
\* the clock is paused or a dead thread pins it for ever (HeldByDead).
SleeperWakes ==
  \A p \in Loopers :
    pc[p] = "sleeping" /\ wake[p] < Infinite - Step
      ~> pc[p] # "sleeping" \/ ~ running \/ HeldByDead

\* A looper that dies asleep does not hold the clock for ever: the clock goes
\* on to the time it had asked for, and from then on clearing zombies removes
\* its registration (clear_zombie_participants skips it until then).
DeadSleeperCleared ==
  \A p \in Loopers \cap MayCrash :
    /\ pc[p] = "crashed" /\ channel[p] = <<>> /\ p \in DOMAIN participants
    /\ sim_time_ns < participants[p].request_time_ns
    /\ participants[p].request_time_ns < Infinite - Step
    ~> p \notin DOMAIN participants \/ ~ running

=============================================================================
