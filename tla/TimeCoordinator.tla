--------------------------- MODULE TimeCoordinator ---------------------------
(***************************************************************************)
(* The time coordinator of fss_time (src/time_coordinator.cpp): one object *)
(* whose handlers run on a ROS executor thread (timers, services), on the  *)
(* ROUTER thread (participant messages) and, in a cascade, on the parent   *)
(* SUB thread.  Every handler holds mutex_ from its first read to its last *)
(* write, so each is one action.  What a handler leaves to the two worker  *)
(* threads goes through FIFO task queues.                                  *)
(*                                                                         *)
(* Time is counted in steps of the simulation; kInfiniteTimeNs is the      *)
(* small number Infinite, so that the code's own saturation bounds the     *)
(* model.  Wall-clock time is abstracted to what the handlers make of it:  *)
(* the wall time between two real-time ticks (WallSteps) and the fact that *)
(* a participant has been silent for longer than the zombie timeout.       *)
(***************************************************************************)
EXTENDS Naturals, Sequences, Functions

CONSTANTS
  Participant,          \* identities that may register
  Infinite,             \* kInfiniteTimeNs
  Step,                 \* speed_regulator_step_ns_
  FollowsRealTime,      \* follows_real_time_, the coordinator's launch argument
  HasParent,            \* has_parent_coordinator_
  RealTimeFactors,      \* max_real_time_factor_ values in use, in percent
  WallSteps,            \* wall time that may pass between two real-time ticks
  MaxTasks              \* bound of the model on each task queue

ASSUME StepAssumption == Step \in Nat \ {0} /\ Infinite \in Nat /\ Step < Infinite
ASSUME ModeAssumption == FollowsRealTime \in BOOLEAN /\ HasParent \in BOOLEAN
ASSUME FactorAssumption == RealTimeFactors \subseteq Nat
ASSUME WallAssumption == WallSteps \subseteq Nat
ASSUME TasksAssumption == MaxTasks \in Nat

Time == 0 .. Infinite

\* A factor of 1.0: the simulation may run as fast as the wall clock.
RealTime == 100

VARIABLES
  participants,           \* identity |-> ParticipantState, for the registered ones
  sim_time_ns,            \* the simulation clock
  regulator_request_ns,   \* how far the speed regulator lets the clock go
  real_time_request_ns,   \* the wall-clock catch-up floor
  running,
  max_real_time_factor,
  publish_tasks,          \* clock values queued for the publish worker
  announce_tasks,         \* safe times queued for the announce worker (child only)
  published_ns            \* the last clock value the publish worker has sent

pacing == <<regulator_request_ns, real_time_request_ns>>
control == <<running, max_real_time_factor>>
vars == <<participants, sim_time_ns, regulator_request_ns, real_time_request_ns,
          running, max_real_time_factor, publish_tasks, announce_tasks, published_ns>>

-----------------------------------------------------------------------------
(* Participants.                                                           *)

\* "silent": last_request_walltime is older than zombie_participant_timeout_.
ParticipantState ==
  [request_time_ns : Time, has_new_request : BOOLEAN,
   follows_real_time : BOOLEAN, silent : BOOLEAN]

NewParticipant ==
  [request_time_ns |-> 0, has_new_request |-> FALSE,
   follows_real_time |-> TRUE, silent |-> FALSE]

IsParticipantMap(ps) ==
  DOMAIN ps \subseteq Participant /\ ps \in [DOMAIN ps -> ParticipantState]

\* participants_[p]: the entry of p, created with its defaults if there is none.
Entry(p) ==
  IF p \in DOMAIN participants THEN participants[p] ELSE NewParticipant

WithEntry(p, state) ==
  [q \in DOMAIN participants \cup {p} |-> IF q = p THEN state ELSE participants[q]]

WithoutEntries(gone) == Restrict(participants, DOMAIN participants \ gone)

\* Mutant: a grant wakes everybody, whatever they asked for.
Served_Everybody(ps, t) == [p \in DOMAIN ps |-> [ps[p] EXCEPT !.has_new_request = FALSE]]

\* Mutant: a grant leaves the requests that it reaches marked as new.
Served_Nobody(ps, t) == ps

\* ps once the clock stands at t: a request that was reached is no longer new.
Served(ps, t) ==
  [p \in DOMAIN ps |->
     [ps[p] EXCEPT !.has_new_request = @ /\ ps[p].request_time_ns > t]]

-----------------------------------------------------------------------------
(* The decision to advance.  ps, reg and rt are the participants and the   *)
(* two pacing requests as the calling handler has just left them.          *)

\* Mutant: the wall-clock floor ignores a factor below 1.0.
RealTimeTarget_NoFactor(reg, rt) == rt

RealTimeTarget(reg, rt) ==
  IF max_real_time_factor < RealTime /\ reg < rt THEN reg ELSE rt

RealTimeAhead(reg, rt) ==
  FollowsRealTime /\ RealTimeTarget(reg, rt) > sim_time_ns

Requests(ps, reg) == {reg} \cup {ps[p].request_time_ns : p \in DOMAIN ps}

\* Mutant: once all have announced, the clock goes where the regulator says.
ShouldAdvance_RegulatorOnly(ps, reg, rt, t) ==
  /\ running /\ DOMAIN ps # {}
  /\ \A p \in DOMAIN ps : ps[p].has_new_request
  /\ t = reg /\ t > sim_time_ns

\* Mutant: participants without a new request are skipped, not waited for.
ShouldAdvance_SkipsSilent(ps, reg, rt, t) ==
  LET new == {p \in DOMAIN ps : ps[p].has_new_request}
      requests == {reg} \cup {ps[p].request_time_ns : p \in new}
  IN  /\ running /\ new # {}
      /\ t \in requests /\ \A r \in requests : t <= r
      /\ t < Infinite - Step /\ t > sim_time_ns

\* Mutant: the wall-clock floor waits for nobody.
ShouldAdvance_WaitsForNobody(ps, reg, rt, t) ==
  /\ running /\ DOMAIN ps # {}
  /\ RealTimeAhead(reg, rt) /\ t = RealTimeTarget(reg, rt)

\* Mutant: the wall-clock floor waits for the participants that follow it, too.
ShouldAdvance_WaitsForAll(ps, reg, rt, t) ==
  /\ running /\ DOMAIN ps # {}
  /\ \A p \in DOMAIN ps : ps[p].has_new_request
  /\ RealTimeAhead(reg, rt) /\ t = RealTimeTarget(reg, rt)

ShouldAdvance(ps, reg, rt, t) ==
  /\ running
  /\ DOMAIN ps # {}
  /\ IF RealTimeAhead(reg, rt)
     THEN /\ \A p \in DOMAIN ps : ps[p].follows_real_time \/ ps[p].has_new_request
          /\ t = RealTimeTarget(reg, rt)
     ELSE /\ \A p \in DOMAIN ps : ps[p].has_new_request
          /\ t \in Requests(ps, reg) /\ \A r \in Requests(ps, reg) : t <= r
          /\ t < Infinite - Step
          /\ t > sim_time_ns

PublishClock(t) == publish_tasks' = Append(publish_tasks, t)

\* Mutant: a child advances at once instead of waiting for its parent's grant.
AdvanceTime_WithoutGrant(ps, t) ==
  /\ sim_time_ns' = t
  /\ participants' = Served(ps, t)
  /\ IF HasParent
     THEN announce_tasks' = Append(announce_tasks, t) /\ UNCHANGED publish_tasks
     ELSE PublishClock(t) /\ UNCHANGED announce_tasks

AdvanceTime(ps, t) ==
  IF HasParent
  THEN /\ announce_tasks' = Append(announce_tasks, t)
       /\ participants' = ps
       /\ UNCHANGED <<sim_time_ns, publish_tasks>>
  ELSE /\ sim_time_ns' = t
       /\ PublishClock(t)
       /\ participants' = Served(ps, t)
       /\ UNCHANGED announce_tasks

TryUpdateClock(ps, reg, rt) ==
  /\ regulator_request_ns' = reg
  /\ real_time_request_ns' = rt
  /\ \/ \E t \in Time : ShouldAdvance(ps, reg, rt, t) /\ AdvanceTime(ps, t)
     \/ /\ ~ \E t \in Time : ShouldAdvance(ps, reg, rt, t)
        /\ participants' = ps
        /\ UNCHANGED <<sim_time_ns, publish_tasks, announce_tasks>>

\* Bound of the model: a handler that may queue a task runs only while the
\* queue has room.  The code's queues are unbounded.
PublishRoom == Len(publish_tasks) < MaxTasks

Room == IF HasParent THEN Len(announce_tasks) < MaxTasks ELSE PublishRoom

-----------------------------------------------------------------------------
(* Participant messages (handle_message, ROUTER thread).                   *)

Register(p) ==
  /\ participants' = WithEntry(p, [Entry(p) EXCEPT !.silent = FALSE])
  /\ UNCHANGED <<sim_time_ns, pacing, control, publish_tasks, announce_tasks, published_ns>>

\* Mutant: an announcement may only raise the participant's request.
Announce_OnlyLater(p, request_ns) ==
  LET later == IF Entry(p).request_time_ns > request_ns THEN Entry(p).request_time_ns ELSE request_ns
  IN  /\ Room
      /\ TryUpdateClock(
           WithEntry(p, [Entry(p) EXCEPT !.request_time_ns = later,
                                         !.has_new_request = TRUE, !.silent = FALSE]),
           regulator_request_ns, real_time_request_ns)
      /\ UNCHANGED <<control, published_ns>>

\* Mutant: an announcement builds a new entry for the participant.
Announce_NewEntry(p, request_ns) ==
  /\ Room
  /\ TryUpdateClock(
       WithEntry(p, [NewParticipant EXCEPT !.request_time_ns = request_ns,
                                           !.has_new_request = TRUE]),
       regulator_request_ns, real_time_request_ns)
  /\ UNCHANGED <<control, published_ns>>

Announce(p, request_ns) ==
  /\ Room
  /\ TryUpdateClock(
       WithEntry(p, [Entry(p) EXCEPT !.request_time_ns = request_ns,
                                     !.has_new_request = TRUE,
                                     !.silent = FALSE]),
       regulator_request_ns, real_time_request_ns)
  /\ UNCHANGED <<control, published_ns>>

\* From an identity that is not registered the message gets an error reply.
SetFollowsRealTime(p, follows) ==
  /\ Room
  /\ p \in DOMAIN participants
  /\ TryUpdateClock(WithEntry(p, [Entry(p) EXCEPT !.follows_real_time = follows]),
                    regulator_request_ns, real_time_request_ns)
  /\ UNCHANGED <<control, published_ns>>

\* Mutant: the others do not get the grant that only p held up.
Unregister_NoUpdate(p) ==
  /\ participants' = WithoutEntries({p})
  /\ UNCHANGED <<sim_time_ns, pacing, control, publish_tasks, announce_tasks, published_ns>>

Unregister(p) ==
  /\ Room
  /\ TryUpdateClock(WithoutEntries({p}), regulator_request_ns, real_time_request_ns)
  /\ UNCHANGED <<control, published_ns>>

-----------------------------------------------------------------------------
(* Timers and services (ROS executor thread).                              *)

\* Mutant: the regulator keeps a target that the clock has already reached.
RegulatorTarget_KeepsReached ==
  IF ~running \/ max_real_time_factor = 0 THEN sim_time_ns
  ELSE IF sim_time_ns <= regulator_request_ns THEN regulator_request_ns
  ELSE regulator_request_ns + Step

RegulatorTarget ==
  IF ~running \/ max_real_time_factor = 0 THEN sim_time_ns
  ELSE IF sim_time_ns < regulator_request_ns THEN regulator_request_ns
  ELSE IF regulator_request_ns >= Infinite - Step THEN Infinite
  ELSE regulator_request_ns + Step

\* The regulator's wall timer exists only for a positive factor.
RegulatorTick ==
  /\ Room
  /\ max_real_time_factor > 0
  /\ TryUpdateClock(participants, RegulatorTarget, real_time_request_ns)
  /\ UNCHANGED <<control, published_ns>>

\* Mutant: the floor is not saturated at infinity.
RealTimeRequest_Unbounded(wall_dt) ==
  IF ~running \/ max_real_time_factor = 0 THEN sim_time_ns ELSE real_time_request_ns + wall_dt

RealTimeRequest(wall_dt) ==
  IF ~running \/ max_real_time_factor = 0 THEN sim_time_ns
  ELSE IF real_time_request_ns + wall_dt >= Infinite THEN Infinite
  ELSE real_time_request_ns + wall_dt

RealTimeTick(wall_dt) ==
  /\ Room
  /\ FollowsRealTime
  /\ TryUpdateClock(participants, regulator_request_ns, RealTimeRequest(wall_dt))
  /\ UNCHANGED <<control, published_ns>>

\* Mutant: the tick does not publish the clock again.
ClockStatusTick_Silent == UNCHANGED vars

\* The clock is published again for participants that joined late.
ClockStatusTick ==
  /\ PublishRoom
  /\ PublishClock(sim_time_ns)
  /\ UNCHANGED <<participants, sim_time_ns, pacing, control, announce_tasks, published_ns>>

ResetPacing ==
  /\ regulator_request_ns' = sim_time_ns
  /\ real_time_request_ns' = sim_time_ns

SetRunning(value) ==
  /\ running # value
  /\ running' = value
  /\ ResetPacing
  /\ UNCHANGED <<participants, sim_time_ns, max_real_time_factor,
                 publish_tasks, announce_tasks, published_ns>>

SetMaxRealTimeFactor(factor) ==
  /\ max_real_time_factor' = factor
  /\ ResetPacing
  /\ UNCHANGED <<participants, sim_time_ns, running,
                 publish_tasks, announce_tasks, published_ns>>

Zombies ==
  {p \in DOMAIN participants : ~ participants[p].has_new_request /\ participants[p].silent}

ClearZombieParticipants ==
  /\ Room
  /\ Zombies # {}
  /\ TryUpdateClock(WithoutEntries(Zombies), regulator_request_ns, real_time_request_ns)
  /\ UNCHANGED <<control, published_ns>>

\* Wall time passes: p has been silent for the zombie timeout.
FallSilent(p) ==
  /\ p \in DOMAIN participants
  /\ ~ participants[p].silent
  /\ participants' = WithEntry(p, [Entry(p) EXCEPT !.silent = TRUE])
  /\ UNCHANGED <<sim_time_ns, pacing, control, publish_tasks, announce_tasks, published_ns>>

-----------------------------------------------------------------------------
(* A grant of the parent (parent SUB thread), and the two worker threads.  *)

ReceiveParentGrant(granted_ns) ==
  /\ PublishRoom
  /\ HasParent
  /\ granted_ns > sim_time_ns
  /\ sim_time_ns' = granted_ns
  /\ PublishClock(granted_ns)
  /\ participants' = Served(participants, granted_ns)
  /\ UNCHANGED <<pacing, control, announce_tasks, published_ns>>

\* Mutant: the worker takes the task that was queued last.
PublishWorker_Newest ==
  LET last == Len(publish_tasks)
  IN  /\ publish_tasks # <<>>
      /\ published_ns' = publish_tasks[last]
      /\ publish_tasks' = SubSeq(publish_tasks, 1, last - 1)
      /\ UNCHANGED <<participants, sim_time_ns, pacing, control, announce_tasks>>

PublishWorker ==
  /\ publish_tasks # <<>>
  /\ published_ns' = Head(publish_tasks)
  /\ publish_tasks' = Tail(publish_tasks)
  /\ UNCHANGED <<participants, sim_time_ns, pacing, control, announce_tasks>>

AnnounceWorker ==
  /\ announce_tasks # <<>>
  /\ announce_tasks' = Tail(announce_tasks)
  /\ UNCHANGED <<participants, sim_time_ns, pacing, control, publish_tasks, published_ns>>

-----------------------------------------------------------------------------
\* start(): the coordinator has queued its first clock value (or announcement).
Started ==
  /\ sim_time_ns = 0
  /\ regulator_request_ns = 0
  /\ real_time_request_ns = 0
  /\ running \in BOOLEAN
  /\ max_real_time_factor \in RealTimeFactors
  /\ publish_tasks = IF HasParent THEN <<>> ELSE <<0>>
  /\ announce_tasks = IF HasParent THEN <<0>> ELSE <<>>
  /\ published_ns = 0

Init == Started /\ participants = [p \in {} |-> NewParticipant]

Message ==
  \E p \in Participant :
    \/ Register(p)
    \/ \E request_ns \in Time : Announce(p, request_ns)
    \/ \E follows \in BOOLEAN : SetFollowsRealTime(p, follows)
    \/ Unregister(p)

Timer ==
  \/ RegulatorTick
  \/ \E wall_dt \in WallSteps : RealTimeTick(wall_dt)
  \/ ClockStatusTick
  \/ \E p \in Participant : FallSilent(p)

Service ==
  \/ \E value \in BOOLEAN : SetRunning(value)
  \/ \E factor \in RealTimeFactors : SetMaxRealTimeFactor(factor)
  \/ ClearZombieParticipants

Worker == PublishWorker \/ AnnounceWorker

Next ==
  \/ Message
  \/ Timer
  \/ Service
  \/ \E granted_ns \in Time : ReceiveParentGrant(granted_ns)
  \/ Worker

Spec == Init /\ [][Next]_vars

\* What the scheduling of the code gives: the workers and the wall timers keep
\* running.  The ticks need strong fairness only because the bound MaxTasks
\* switches them off while a queue is full; the code's timers always fire.
Fairness ==
  /\ WF_vars(PublishWorker)
  /\ SF_vars(RegulatorTick)
  /\ SF_vars(\E wall_dt \in WallSteps \ {0} : RealTimeTick(wall_dt))

FairSpec == Spec /\ Fairness

-----------------------------------------------------------------------------
(* Properties.                                                             *)

\* Every variable keeps its type; the participants map only ever holds known
\* identities with complete entries.
TypeOK ==
  /\ IsParticipantMap(participants)
  /\ sim_time_ns \in Time
  /\ regulator_request_ns \in Time
  /\ real_time_request_ns \in Time
  /\ running \in BOOLEAN
  /\ max_real_time_factor \in RealTimeFactors
  /\ publish_tasks \in Seq(Time)
  /\ announce_tasks \in Seq(Time)
  /\ published_ns \in Time

\* No grant is owed: once a participant's request is no longer new, the clock
\* has really reached the time it asked for, so it is awake and will announce
\* again.  Otherwise it would sleep for a grant that nobody will issue while
\* the coordinator waits for its announcement (try_update_clock_locked and
\* receive_parent_grant clear the flags; handlers in between replace requests).
NoGrantOwed ==
  \A p \in DOMAIN participants :
    ~ participants[p].has_new_request => participants[p].request_time_ns <= sim_time_ns

\* In lock-step mode the root coordinator is never left in a state in which
\* the clock could advance: every handler that can make the last condition
\* true re-evaluates the clock before it returns, and the handlers that do not
\* (registration, clock control) cannot make it true.
NoMissedAdvance ==
  ~ HasParent /\ ~ FollowsRealTime =>
    ~ \E t \in Time :
        ShouldAdvance(participants, regulator_request_ns, real_time_request_ns, t)

\* The clock never runs ahead of its pace: not beyond what the regulator has
\* released and, when the factor allows real-time progress, not beyond the
\* wall-clock floor either; and the regulator never holds more than one step
\* of credit, whatever pauses, factor changes and catch-ups came before.
Pace(reg, rt) ==
  IF FollowsRealTime /\ max_real_time_factor >= RealTime /\ rt > reg THEN rt ELSE reg

SpeedLimit ==
  ~ HasParent => /\ sim_time_ns <= Pace(regulator_request_ns, real_time_request_ns)
                 /\ regulator_request_ns <= sim_time_ns + Step

\* What the publish worker sends is the history of the simulation clock: the
\* values sent and still queued never decrease and end with the current time,
\* so that a subscriber of /clock never sees time run backwards and is never
\* left behind (publish tasks carry the time captured when they were queued).
ClockStream == <<published_ns>> \o publish_tasks

ClockStreamInOrder ==
  /\ \A i \in 1 .. Len(publish_tasks) : ClockStream[i] <= ClockStream[i + 1]
  /\ ClockStream[Len(ClockStream)] = sim_time_ns

\* Conservative lock step: whichever handler advances the clock of a root
\* coordinator that does not follow real time, no registered participant is
\* taken past the time it has announced as safe.
NoOvertake ==
  [][~ HasParent /\ ~ FollowsRealTime /\ sim_time_ns' > sim_time_ns =>
       \A p \in DOMAIN participants' :
         sim_time_ns' <= participants'[p].request_time_ns]_vars

\* The child's side of the lock step: what it announces to its parent is later
\* than its clock and, when it is queued, safe for every local participant,
\* all of which have announced; so the machine as a whole keeps to the protocol
\* that its threads keep to.
AnnouncesSafeTimes ==
  [][HasParent /\ ~ FollowsRealTime /\ Len(announce_tasks') > Len(announce_tasks) =>
       LET announced_ns == announce_tasks'[Len(announce_tasks')]
       IN  /\ announced_ns > sim_time_ns
           /\ \A p \in DOMAIN participants' :
                /\ participants'[p].has_new_request
                /\ announced_ns <= participants'[p].request_time_ns]_vars

\* "When any non-following participant has not issued its next request, the
\* coordinator waits for it" (fss_time README.md:215): a root clock moves only if every
\* participant that does not follow real time had a new request or announces
\* in this very step, whatever other participants and timers do.
NonFollowerHoldsClock ==
  [][~ HasParent /\ sim_time_ns' > sim_time_ns =>
       \A p \in DOMAIN participants' :
         \/ participants'[p].follows_real_time
         \/ p \in DOMAIN participants /\ participants[p].has_new_request
         \/ \E request_ns \in Time : Announce(p, request_ns)]_vars

\* A clock that goes on time: sim_time_ns stays at v only while something
\* that is allowed to hold it does.
AllWaiting(v) ==
  /\ running /\ max_real_time_factor > 0
  /\ sim_time_ns = v
  /\ DOMAIN participants # {}
  /\ \A p \in DOMAIN participants :
       participants[p].has_new_request /\ participants[p].request_time_ns > v

\* When every participant waits for a later time the regulator brings the
\* clock forward, through every pause, factor change and re-announcement in
\* between, until infinity is near.
WaitingClockMoves ==
  ~ HasParent /\ ~ FollowsRealTime =>
    \A v \in {t \in Time : t + 2 * Step < Infinite} : AllWaiting(v) ~> ~ AllWaiting(v)

OnlyFollowers(v) ==
  /\ running /\ max_real_time_factor >= RealTime
  /\ sim_time_ns = v
  /\ DOMAIN participants # {}
  /\ \A p \in DOMAIN participants : participants[p].follows_real_time

\* "a slow task should not cause the global clock to fall behind wall time
\* indefinitely" (fss_time README.md:206): while all participants follow real time the
\* clock moves on even if none of them ever announces again.
FollowersDoNotHoldClock ==
  ~ HasParent /\ FollowsRealTime =>
    \A v \in Time \ {Infinite} : OnlyFollowers(v) ~> ~ OnlyFollowers(v)

=============================================================================
