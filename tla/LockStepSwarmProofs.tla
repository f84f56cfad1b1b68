------------------------- MODULE LockStepSwarmProofs -------------------------
(***************************************************************************)
(* Theorems about LockStepSwarm: for every number of sleeping threads and  *)
(* of executors, every length of their channels, every loss of /clock      *)
(* values and any thread or process that leaves or dies.                   *)
(***************************************************************************)
EXTENDS LockStepSwarm, TimeCoordinatorProofs, SequenceTheorems

-----------------------------------------------------------------------------
(* Types, and the coordinator in the swarm.                                *)

\* What a channel carries.
Messages == [kind : {"ANNOUNCE", "UNREGISTER"}, time : Time]

\* A channel's head is a message, and its tail a channel.
LEMMA ChannelHead ==
  ASSUME NEW c \in Seq(Messages), c # <<>>
  PROVE  /\ Head(c) \in Messages /\ Head(c) = c[1]
         /\ Tail(c) \in Seq(Messages)
         /\ Len(c) \in Nat \ {0} /\ Len(Tail(c)) = Len(c) - 1
         /\ \A i \in 1 .. Len(Tail(c)) : Tail(c)[i] = c[i + 1]
OBVIOUS

\* Every step of the swarm is a step of the coordinator or leaves it alone.
LEMMA CoordinatorStep ==
  ASSUME SwarmTypeOK, [SwarmNext]_allvars
  PROVE  [Next]_vars
<1>1. ASSUME NEW p \in Participant, Thread(p)
      PROVE  [Next]_vars
  BY <1>1 DEF Thread, Join, LooperSleep, LooperWake, SpinnerRelease, SpinnerTakeWork,
              Leave, Crash, ReceiveClock, Next, Message
<1>2. ASSUME NEW p \in Participant, HandleMessage(p)
      PROVE  [Next]_vars
  <2>1. Head(channel[p]) \in Messages
    BY <1>2, ChannelHead DEF SwarmTypeOK, HandleMessage, Messages
  <2>2. Head(channel[p]).time \in Time
    BY <2>1 DEF Messages
  <2>3. Announce(p, Head(channel[p]).time) \/ Unregister(p)
    BY <1>2 DEF HandleMessage
  <2> QED BY <2>2, <2>3 DEF Next, Message
<1>3. ASSUME NEW nodes, PublishTo(nodes)
      PROVE  [Next]_vars
  BY <1>3 DEF PublishTo, Next, Worker
<1>4. CASE Tick \/ StatusTick \/ Clear
  BY <1>4 DEF Tick, StatusTick, Clear, Next, Timer, Service
<1>5. ASSUME NEW p \in Participant, TimeOutCrashed(p)
      PROVE  [Next]_vars
  BY <1>5 DEF TimeOutCrashed, Next, Timer
<1>6. ASSUME NEW value \in ControlValues, Pause(value)
      PROVE  [Next]_vars
  BY <1>6, SwarmAssumption DEF Pause, Next, Service
<1>7. CASE UNCHANGED allvars
  BY <1>7 DEF allvars
<1> QED BY <1>1, <1>2, <1>3, <1>4, <1>5, <1>6, <1>7 DEF SwarmNext

\* The types are kept.
LEMMA SwarmTypeStep ==
  ASSUME SwarmTypeOK, [SwarmNext]_allvars
  PROVE  SwarmTypeOK'
<1>0. TypeOK'
  BY CoordinatorStep, StepType DEF SwarmTypeOK
<1>t. channel \in [Participant -> Seq(Messages)]
  BY DEF SwarmTypeOK, Messages
<1>1. ASSUME NEW p \in Participant, NEW message \in Messages, Send(p, message)
      PROVE  channel' \in [Participant -> Seq(Messages)]
  <2>1. Append(channel[p], message) \in Seq(Messages)
    BY <1>t
  <2> QED BY <1>1, <1>t, <2>1 DEF Send
<1>2. ASSUME NEW t \in Time
      PROVE  Message_Announce(t) \in Messages
  BY DEF Message_Announce, Messages
<1>3. Message_Unregister \in Messages
  BY StepAssumption DEF Message_Unregister, Messages, Time
<1>4. ASSUME NEW p \in Participant, NEW period \in Periods, LooperSleep(p, period)
      PROVE  SwarmTypeOK'
  <2>1. node_clock[p] + period \in Time
    BY <1>4, SwarmAssumption, StepAssumption DEF SwarmTypeOK, LooperSleep, Time
  <2>2. channel' \in [Participant -> Seq(Messages)]
    BY <1>1, <1>2, <1>4, <2>1 DEF LooperSleep
  <2>3. (node_clock[p] + period > sim_time_ns) \in BOOLEAN
    OBVIOUS
  <2> QED BY <1>0, <1>4, <2>1, <2>2, <2>3 DEF LooperSleep, Goto, Messages, SwarmTypeOK
<1>5. ASSUME NEW p \in Participant, SpinnerRelease(p) \/ SpinnerTakeWork(p) \/ Leave(p)
      PROVE  SwarmTypeOK'
  <2>1. Infinite \in Time /\ node_clock[p] \in Time
    BY StepAssumption DEF SwarmTypeOK, Time
  <2>2. channel' \in [Participant -> Seq(Messages)]
    BY <1>1, <1>2, <1>3, <1>5, <2>1 DEF SpinnerRelease, SpinnerTakeWork, Leave
  <2> QED BY <1>0, <1>5, <2>2
            DEF SpinnerRelease, SpinnerTakeWork, Leave, Goto, Messages, SwarmTypeOK
<1>6. ASSUME NEW p \in Participant, Crash(p)
      PROVE  SwarmTypeOK'
  <2>1. PICK n \in 0 .. Len(channel[p]) :
          channel' = [channel EXCEPT ![p] = SubSeq(channel[p], 1, n)]
    BY <1>6 DEF Crash
  <2>2. SubSeq(channel[p], 1, n) \in Seq(Messages)
    <3>1. channel[p] \in Seq(Messages) /\ n \in Int
      BY <1>t
    <3>2. \A i \in 1 .. n : channel[p][i] \in Messages
      BY <3>1
    <3> QED BY <3>1, <3>2, SubSeqProperties
  <2>3. channel' \in [Participant -> Seq(Messages)]
    BY <2>1, <2>2, <1>t
  <2> QED BY <1>0, <1>6, <2>3 DEF Crash, Goto, Messages, SwarmTypeOK
<1>7. ASSUME NEW p \in Participant, Join(p) \/ LooperWake(p) \/ ReceiveClock(p)
      PROVE  SwarmTypeOK'
  BY <1>0, <1>7 DEF Join, LooperWake, ReceiveClock, Goto, SwarmTypeOK
<1>8. ASSUME NEW p \in Participant, HandleMessage(p)
      PROVE  SwarmTypeOK'
  <2>1. Tail(channel[p]) \in Seq(Messages)
    BY <1>8, <1>t, ChannelHead DEF HandleMessage
  <2> QED BY <1>0, <1>8, <2>1 DEF HandleMessage, Messages, SwarmTypeOK
<1>9. ASSUME NEW nodes, PublishTo(nodes)
      PROVE  SwarmTypeOK'
  <2>1. published_ns' \in Time
    BY <1>0 DEF TypeOK
  <2> QED BY <1>0, <1>9, <2>1 DEF PublishTo, SwarmTypeOK
<1>10. CASE \/ Tick \/ StatusTick \/ Clear
            \/ \E p \in Participant : TimeOutCrashed(p)
            \/ \E value \in ControlValues : Pause(value)
            \/ UNCHANGED allvars
  BY <1>0, <1>10
     DEF Tick, StatusTick, Clear, TimeOutCrashed, Pause, threads, allvars, SwarmTypeOK
<1> QED BY <1>4, <1>5, <1>6, <1>7, <1>8, <1>9, <1>10 DEF SwarmNext, Thread

\* The swarm's state is well typed, whatever is lost and whoever dies.
THEOREM SwarmTypeCorrect == SwarmSpec => []SwarmTypeOK
<1>1. SwarmInit => SwarmTypeOK
  <2> SUFFICES ASSUME SwarmInit PROVE SwarmTypeOK
    OBVIOUS
  <2>1. TypeOK
    BY InitType DEF SwarmInit
  <2>2. 0 \in Time
    BY StepAssumption DEF Time
  <2> QED BY <2>1, <2>2 DEF SwarmInit, SwarmTypeOK
<1> QED BY <1>1, SwarmTypeStep, PTL DEF SwarmSpec

\* The coordinator in the swarm behaves as TimeCoordinator says, whose theorems
\* therefore hold of it.
THEOREM SwarmImplementsCoordinator == SwarmSpec => Spec
<1>1. SwarmInit => Init
  BY DEF SwarmInit
<1> QED BY <1>1, SwarmTypeCorrect, CoordinatorStep, PTL DEF SwarmSpec, Spec

-----------------------------------------------------------------------------
(* What the threads have announced.                                        *)

\* Threads that have not left and whose process lives.
Live == {"working", "sleeping", "spinning", "waiting", "callback"}

Request(p) == participants[p].request_time_ns

\* Only times that the clock has reached are published, received and read.
ClocksAreBehind ==
  /\ published_ns <= sim_time_ns
  /\ \A i \in 1 .. Len(publish_tasks) : publish_tasks[i] <= sim_time_ns
  /\ \A p \in Participant : inbox[p] <= sim_time_ns /\ node_clock[p] <= sim_time_ns

\* A live thread is registered, is not taken for a zombie, and has not sent its
\* UNREGISTER; one that has not joined is unknown.
LiveIsRegistered(p) ==
  /\ pc[p] = "off" =>
       /\ p \notin DOMAIN participants /\ channel[p] = <<>>
       /\ wake[p] = 0 /\ ~ ahead[p]
  /\ pc[p] \in Live =>
       /\ p \in DOMAIN participants /\ ~ participants[p].silent
       /\ \A i \in 1 .. Len(channel[p]) : channel[p][i].kind = "ANNOUNCE"

\* All that the coordinator knows of p, or will know from the first n messages
\* on their way, is that the clock may go to times it has already reached.
Reached(p, n) ==
  Request(p) <= sim_time_ns /\ \A i \in 1 .. n : channel[p][i].time <= sim_time_ns

\* p has announced t last, and the coordinator knows of it or is held until it does.
Announced(p, t) ==
  IF channel[p] = <<>> THEN Request(p) = t
  ELSE /\ Reached(p, Len(channel[p]) - 1)
       /\ channel[p][Len(channel[p])].time = t

\* A looper that works holds the clock, with everything it has sent; one that
\* sleeps lets it go to its wake-up time and no further.  If that time was ahead
\* when it was chosen, the clock has not passed it, and stands there and at the
\* node when the looper works.
LooperIsHeard(p) ==
  /\ pc[p] = "working" =>
       /\ Reached(p, Len(channel[p]))
       /\ wake[p] <= sim_time_ns
       /\ ahead[p] => sim_time_ns = wake[p] /\ node_clock[p] = wake[p]
  /\ pc[p] = "sleeping" =>
       /\ Announced(p, wake[p])
       /\ ahead[p] => sim_time_ns <= wake[p]

\* An executor in a callback has last announced a time that is reached.
CallbackIsHeard(p) ==
  pc[p] = "callback" =>
    IF channel[p] = <<>> THEN Request(p) <= sim_time_ns
    ELSE channel[p][Len(channel[p])].time <= sim_time_ns

ThreadsAreHeard ==
  \A p \in Participant :
    /\ p \in Loopers => pc[p] \notin {"spinning", "waiting", "callback"}
    /\ p \in Spinners => pc[p] \notin {"working", "sleeping"}
    /\ LiveIsRegistered(p) /\ LooperIsHeard(p) /\ CallbackIsHeard(p)

SwarmInv == ClocksAreBehind /\ ThreadsAreHeard

-----------------------------------------------------------------------------
(* What the coordinator does to a participant.                             *)

\* The registration of p and its request are left as they are, and nobody is
\* taken past a request.
Steady(p) ==
  /\ p \notin DOMAIN participants => p \notin DOMAIN participants'
  /\ p \in DOMAIN participants /\ ~ participants[p].silent =>
       /\ p \in DOMAIN participants' /\ ~ participants'[p].silent
       /\ Request(p)' = Request(p)

ClockStep == sim_time_ns <= sim_time_ns' /\ NoOvertakeStep

\* A clock update after which p is what it was leaves it alone.
LEMMA UpdateIsSteady ==
  ASSUME SwarmTypeOK, NEW p \in Participant, NEW ps, IsParticipantMap(ps),
         NEW reg \in Time, NEW rt \in Time, TryUpdateClock(ps, reg, rt),
         p \notin DOMAIN participants => p \notin DOMAIN ps,
         p \in DOMAIN participants /\ ~ participants[p].silent =>
           p \in DOMAIN ps /\ ps[p] = participants[p]
  PROVE  Steady(p) /\ ClockStep
<1>1. TypeOK
  BY DEF SwarmTypeOK
<1> QED BY <1>1, TryUpdateClockKeeps, TryUpdateClockConservative
          DEF Steady, ClockStep, Request

\* The announcement of p is in force when it has been handled.
LEMMA AnnounceIsHeard ==
  ASSUME SwarmTypeOK, NEW p \in Participant, NEW t \in Time, Announce(p, t)
  PROVE  /\ ClockStep
         /\ p \in DOMAIN participants' /\ ~ participants'[p].silent
         /\ Request(p)' = t
         /\ \A q \in Participant \ {p} : Steady(q)
<1> DEFINE e == [Entry(p) EXCEPT !.request_time_ns = t, !.has_new_request = TRUE,
                                 !.silent = FALSE]
           ps == WithEntry(p, e)
<1>1. TypeOK /\ regulator_request_ns \in Time /\ real_time_request_ns \in Time
  BY DEF SwarmTypeOK, TypeOK
<1>2. e \in ParticipantState /\ e.request_time_ns = t /\ e.silent = FALSE
  BY <1>1, EntryType DEF ParticipantState
<1>3. TryUpdateClock(ps, regulator_request_ns, real_time_request_ns)
  BY DEF Announce
<1> HIDE DEF e
<1>4. IsParticipantMap(ps) /\ p \in DOMAIN ps /\ ps[p] = e
  BY <1>1, <1>2, WithEntryType DEF WithEntry
<1>5. \A q \in Participant \ {p} :
        /\ q \in DOMAIN ps <=> q \in DOMAIN participants
        /\ q \in DOMAIN participants => ps[q] = participants[q]
  BY DEF WithEntry
<1> HIDE DEF ps
<1>6. \A q \in Participant \ {p} : Steady(q)
  BY <1>1, <1>3, <1>4, <1>5, UpdateIsSteady
<1>7. /\ ClockStep
      /\ p \in DOMAIN participants' /\ ~ participants'[p].silent
      /\ Request(p)' = t
  BY <1>1, <1>2, <1>3, <1>4, TryUpdateClockKeeps, TryUpdateClockConservative
     DEF ClockStep, Request
<1> QED BY <1>6, <1>7

\* Removing others leaves p alone.
LEMMA RemovalIsSteady ==
  ASSUME SwarmTypeOK, NEW gone, NEW p \in Participant,
         p \in gone /\ p \in DOMAIN participants => participants[p].silent,
         TryUpdateClock(WithoutEntries(gone), regulator_request_ns, real_time_request_ns)
  PROVE  Steady(p) /\ ClockStep
<1>1. TypeOK /\ regulator_request_ns \in Time /\ real_time_request_ns \in Time
  BY DEF SwarmTypeOK, TypeOK
<1>2. IsParticipantMap(WithoutEntries(gone))
  BY <1>1, WithoutEntriesType
<1>3. /\ p \in DOMAIN WithoutEntries(gone) <=> p \in DOMAIN participants /\ p \notin gone
      /\ p \in DOMAIN WithoutEntries(gone) => WithoutEntries(gone)[p] = participants[p]
  BY DEF WithoutEntries, Restrict
<1> QED BY <1>1, <1>2, <1>3, UpdateIsSteady

\* So does every step of the coordinator in which no message of p is handled.
LEMMA OthersAreSteady ==
  ASSUME SwarmTypeOK, NEW p \in Participant, pc[p] # "crashed",
         \/ \E q \in Participant \ {p} : HandleMessage(q)
         \/ Tick \/ StatusTick \/ Clear
         \/ \E nodes \in SUBSET Participant : PublishTo(nodes)
         \/ \E q \in Participant : TimeOutCrashed(q)
         \/ \E value \in ControlValues : Pause(value)
  PROVE  Steady(p) /\ ClockStep
<1>1. /\ TypeOK /\ regulator_request_ns \in Time /\ real_time_request_ns \in Time
      /\ sim_time_ns \in Nat /\ IsParticipantMap(participants)
  BY DEF SwarmTypeOK, TypeOK, Time
<1>2. ASSUME UNCHANGED <<participants, sim_time_ns>>
      PROVE  Steady(p) /\ ClockStep
  BY <1>1, <1>2 DEF Steady, ClockStep, NoOvertakeStep, Request
<1>3. ASSUME NEW q \in Participant \ {p}, HandleMessage(q)
      PROVE  Steady(p) /\ ClockStep
  <2>1. Head(channel[q]) \in Messages
    BY <1>3, ChannelHead DEF HandleMessage, SwarmTypeOK, Messages
  <2>2. CASE Announce(q, Head(channel[q]).time)
    BY <2>1, <2>2, AnnounceIsHeard DEF Messages
  <2>3. CASE Unregister(q)
    BY <2>3, RemovalIsSteady DEF Unregister
  <2> QED BY <1>3, <2>2, <2>3 DEF HandleMessage
<1>4. CASE Tick
  BY <1>1, <1>4, RegulatorTargetType, UpdateIsSteady DEF Tick, RegulatorTick
<1>5. CASE Clear
  BY <1>5, RemovalIsSteady DEF Clear, ClearZombieParticipants, Zombies
<1>6. ASSUME NEW q \in Participant, TimeOutCrashed(q)
      PROVE  Steady(p) /\ ClockStep
  <2>1. q # p /\ FallSilent(q)
    BY <1>6 DEF TimeOutCrashed
  <2>2. UNCHANGED sim_time_ns
    BY <2>1 DEF FallSilent
  <2>3. /\ p \in DOMAIN participants' <=> p \in DOMAIN participants
        /\ p \in DOMAIN participants => participants'[p] = participants[p]
    BY <2>1 DEF FallSilent, WithEntry
  <2> QED BY <1>1, <2>2, <2>3 DEF Steady, ClockStep, NoOvertakeStep, Request
<1>7. CASE \/ StatusTick
           \/ \E nodes \in SUBSET Participant : PublishTo(nodes)
           \/ \E value \in ControlValues : Pause(value)
  BY <1>2, <1>7 DEF StatusTick, ClockStatusTick, PublishTo, PublishWorker, Pause, SetRunning
<1> QED BY <1>3, <1>4, <1>5, <1>6, <1>7

-----------------------------------------------------------------------------
(* The clock, and the clocks of the nodes.                                 *)

\* A clock update queues no value but the clock's new one.
LEMMA UpdateQueuesClock ==
  ASSUME TypeOK, NEW ps, IsParticipantMap(ps), NEW reg \in Time, NEW rt \in Time,
         TryUpdateClock(ps, reg, rt)
  PROVE  /\ sim_time_ns <= sim_time_ns'
         /\ publish_tasks' \in {publish_tasks, Append(publish_tasks, sim_time_ns')}
<1>1. sim_time_ns <= sim_time_ns'
  BY TryUpdateClockKeeps
<1>2. publish_tasks' \in {publish_tasks, Append(publish_tasks, sim_time_ns')}
  BY DEF TryUpdateClock, AdvanceTime, PublishClock
<1> QED BY <1>1, <1>2

\* Neither does any other step of the coordinator, which never sets the clock back.
LEMMA StepQueuesClock ==
  ASSUME TypeOK, [Next]_vars
  PROVE  /\ sim_time_ns <= sim_time_ns'
         /\ \/ /\ publish_tasks' \in {publish_tasks, Append(publish_tasks, sim_time_ns')}
               /\ UNCHANGED published_ns
            \/ PublishWorker
<1> DEFINE Goal == /\ sim_time_ns <= sim_time_ns'
                   /\ publish_tasks' \in {publish_tasks, Append(publish_tasks, sim_time_ns')}
                   /\ UNCHANGED published_ns
<1>0. /\ sim_time_ns \in Nat /\ IsParticipantMap(participants)
      /\ regulator_request_ns \in Time /\ real_time_request_ns \in Time
  BY DEF TypeOK, Time
<1>1. ASSUME NEW p \in Participant, NEW e \in ParticipantState,
             TryUpdateClock(WithEntry(p, e), regulator_request_ns, real_time_request_ns),
             UNCHANGED published_ns
      PROVE  Goal
  BY <1>0, <1>1, WithEntryType, UpdateQueuesClock
<1>2. ASSUME NEW gone,
             TryUpdateClock(WithoutEntries(gone), regulator_request_ns, real_time_request_ns),
             UNCHANGED published_ns
      PROVE  Goal
  BY <1>0, <1>2, WithoutEntriesType, UpdateQueuesClock
<1>3. ASSUME NEW p \in Participant, NEW r \in Time, Announce(p, r)
      PROVE  Goal
  <2>1. [Entry(p) EXCEPT !.request_time_ns = r, !.has_new_request = TRUE,
                         !.silent = FALSE] \in ParticipantState
    BY EntryType DEF ParticipantState
  <2> QED BY <1>1, <1>3, <2>1 DEF Announce
<1>4. ASSUME NEW p \in Participant, NEW follows \in BOOLEAN, SetFollowsRealTime(p, follows)
      PROVE  Goal
  <2>1. [Entry(p) EXCEPT !.follows_real_time = follows] \in ParticipantState
    BY EntryType DEF ParticipantState
  <2> QED BY <1>1, <1>4, <2>1 DEF SetFollowsRealTime
<1>5. ASSUME NEW p \in Participant, Unregister(p)
      PROVE  Goal
  BY <1>2, <1>5 DEF Unregister
<1>6. CASE ClearZombieParticipants
  BY <1>2, <1>6 DEF ClearZombieParticipants
<1>7. CASE RegulatorTick
  BY <1>0, <1>7, RegulatorTargetType, UpdateQueuesClock DEF RegulatorTick
<1>8. ASSUME NEW wall_dt \in WallSteps, RealTimeTick(wall_dt)
      PROVE  Goal
  BY <1>0, <1>8, RealTimeRequestType, UpdateQueuesClock DEF RealTimeTick
<1>9. CASE ClockStatusTick
  BY <1>0, <1>9 DEF ClockStatusTick, PublishClock
<1>10. ASSUME NEW granted_ns \in Time, ReceiveParentGrant(granted_ns)
       PROVE  Goal
  BY <1>0, <1>10 DEF ReceiveParentGrant, PublishClock, Time
<1>11. CASE \/ \E p \in Participant : Register(p) \/ FallSilent(p)
            \/ \E value \in BOOLEAN : SetRunning(value)
            \/ \E factor \in RealTimeFactors : SetMaxRealTimeFactor(factor)
            \/ AnnounceWorker \/ UNCHANGED vars
  <2>1. UNCHANGED <<sim_time_ns, publish_tasks, published_ns>>
    BY <1>11 DEF Register, FallSilent, SetRunning, SetMaxRealTimeFactor, AnnounceWorker, vars
  <2> QED BY <1>0, <2>1
<1>12. CASE PublishWorker
  BY <1>0, <1>12 DEF PublishWorker
<1> QED BY <1>3, <1>4, <1>5, <1>6, <1>7, <1>8, <1>9, <1>10, <1>11, <1>12
        DEF Next, Message, Timer, Service, Worker

\* The values on their way to the nodes stay behind the clock.
LEMMA ClocksStep ==
  ASSUME SwarmTypeOK, SwarmTypeOK', ClocksAreBehind, [SwarmNext]_allvars
  PROVE  ClocksAreBehind'
<1>0. TypeOK /\ TypeOK' /\ [Next]_vars
  BY CoordinatorStep DEF SwarmTypeOK
<1>t. inbox \in [Participant -> Nat] /\ node_clock \in [Participant -> Nat]
  BY DEF SwarmTypeOK, Time
<1>1. /\ sim_time_ns \in Nat /\ sim_time_ns' \in Nat /\ sim_time_ns <= sim_time_ns'
      /\ published_ns \in Nat /\ publish_tasks \in Seq(Time)
  <2>1. sim_time_ns <= sim_time_ns'
    BY <1>0, StepQueuesClock
  <2>2. sim_time_ns' \in Nat
    BY <1>0 DEF TypeOK, Time
  <2>3. sim_time_ns \in Nat /\ published_ns \in Nat /\ publish_tasks \in Seq(Time)
    BY <1>0 DEF TypeOK, Time
  <2> QED BY <2>1, <2>2, <2>3
<1>2. \A i \in 1 .. Len(publish_tasks) : publish_tasks[i] \in Nat
  <2>1. \A i \in 1 .. Len(publish_tasks) : publish_tasks[i] \in Time
    BY <1>1
  <2> QED BY <2>1 DEF Time
<1>3. /\ published_ns' <= sim_time_ns'
      /\ \A i \in 1 .. Len(publish_tasks') : publish_tasks'[i] <= sim_time_ns'
  <2>1. CASE /\ publish_tasks' = publish_tasks
             /\ UNCHANGED published_ns
    BY <1>1, <1>2, <2>1 DEF ClocksAreBehind
  <2>2. CASE publish_tasks' = Append(publish_tasks, sim_time_ns') /\ UNCHANGED published_ns
    <3>1. /\ Len(publish_tasks') = Len(publish_tasks) + 1
          /\ \A i \in 1 .. Len(publish_tasks) : publish_tasks'[i] = publish_tasks[i]
          /\ publish_tasks'[Len(publish_tasks) + 1] = sim_time_ns'
      BY <1>1, <2>2
    <3>2. \A i \in 1 .. Len(publish_tasks) + 1 :
            i \in 1 .. Len(publish_tasks) \/ i = Len(publish_tasks) + 1
      BY <1>1
    <3>3. published_ns' <= sim_time_ns'
      BY <1>1, <2>2 DEF ClocksAreBehind
    <3> QED BY <1>1, <1>2, <3>1, <3>2, <3>3 DEF ClocksAreBehind
  <2>3. CASE PublishWorker
    <3>1. /\ publish_tasks # <<>> /\ published_ns' = publish_tasks[1]
          /\ publish_tasks' = Tail(publish_tasks)
      BY <1>1, <2>3 DEF PublishWorker
    <3>2. /\ Len(publish_tasks) \in Nat \ {0} /\ Len(publish_tasks') = Len(publish_tasks) - 1
          /\ \A i \in 1 .. Len(publish_tasks') : publish_tasks'[i] = publish_tasks[i + 1]
      BY <1>1, <3>1
    <3> QED BY <1>1, <1>2, <3>1, <3>2 DEF ClocksAreBehind
  <2> QED BY <1>0, <2>1, <2>2, <2>3, StepQueuesClock
<1>4. ASSUME UNCHANGED <<inbox, node_clock>>
      PROVE  ClocksAreBehind'
  BY <1>t, <1>1, <1>3, <1>4 DEF ClocksAreBehind
<1>5. ASSUME NEW p \in Participant, ReceiveClock(p)
      PROVE  ClocksAreBehind'
  BY <1>t, <1>1, <1>3, <1>5 DEF ClocksAreBehind, ReceiveClock
<1>6. ASSUME NEW nodes, PublishTo(nodes)
      PROVE  ClocksAreBehind'
  BY <1>t, <1>1, <1>3, <1>6 DEF ClocksAreBehind, PublishTo
<1> QED
  BY <1>4, <1>5, <1>6
     DEF SwarmNext, Thread, Join, LooperSleep, LooperWake, SpinnerRelease, SpinnerTakeWork,
         Leave, Crash, HandleMessage, Tick, StatusTick, Clear, TimeOutCrashed, Pause,
         threads, allvars

-----------------------------------------------------------------------------
(* Every thread is heard.                                                  *)

Heard(p) == LiveIsRegistered(p) /\ LooperIsHeard(p) /\ CallbackIsHeard(p)

\* A step that moves the clock finds p not at work, and passes no wake-up time.
NotPassed(p) ==
  sim_time_ns' > sim_time_ns =>
    /\ pc[p] # "working"
    /\ pc[p] = "sleeping" => sim_time_ns' <= wake[p]
    /\ ~ (pc[p] = "callback" /\ channel[p] = <<>>)

\* A request that is reached holds the clock.
LEMMA ReachedHolds ==
  ASSUME SwarmTypeOK, SwarmTypeOK', NEW p \in Participant, Steady(p), ClockStep,
         p \in DOMAIN participants, ~ participants[p].silent
  PROVE  /\ Request(p)' = Request(p)
         /\ sim_time_ns' = sim_time_ns \/ sim_time_ns' <= Request(p)
<1>1. sim_time_ns \in Nat /\ sim_time_ns' \in Nat
  BY DEF SwarmTypeOK, TypeOK, Time
<1>2. /\ p \in DOMAIN participants' /\ Request(p)' = Request(p)
      /\ participants'[p].request_time_ns = Request(p)
  BY DEF Steady, Request
<1>3. sim_time_ns' > sim_time_ns => sim_time_ns' <= Request(p)
  BY <1>2, SwarmAssumption DEF ClockStep, NoOvertakeStep
<1> QED BY <1>1, <1>2, <1>3 DEF ClockStep

\* A thread to which a step does nothing stays heard.
LEMMA BystanderIsHeard ==
  ASSUME SwarmTypeOK, SwarmTypeOK', NEW p \in Participant, Heard(p), Steady(p), ClockStep,
         pc'[p] = pc[p], channel'[p] = channel[p], wake'[p] = wake[p],
         ahead'[p] = ahead[p],
         node_clock'[p] = node_clock[p] \/ pc[p] # "working" \/ ~ ahead[p]
  PROVE  Heard(p)' /\ NotPassed(p)
<1>0. /\ sim_time_ns \in Nat /\ sim_time_ns' \in Nat /\ sim_time_ns <= sim_time_ns'
      /\ wake[p] \in Nat
  BY DEF SwarmTypeOK, TypeOK, Time, ClockStep
<1>1. LiveIsRegistered(p)'
  BY DEF Heard, LiveIsRegistered, Steady
<1>2. ASSUME pc[p] \in Live
      PROVE  /\ Request(p)' = Request(p)
             /\ sim_time_ns' = sim_time_ns \/ sim_time_ns' <= Request(p)
  BY <1>2, ReachedHolds DEF Heard, LiveIsRegistered
<1>3. ASSUME pc[p] \in Live
      PROVE  Request(p) \in Nat
  <2>1. p \in DOMAIN participants
    BY <1>3 DEF Heard, LiveIsRegistered
  <2>2. participants[p] \in ParticipantState
    BY <2>1 DEF SwarmTypeOK, TypeOK, IsParticipantMap
  <2> QED BY <2>2 DEF Request, ParticipantState, Time
<1>4. ASSUME pc[p] \in Live, NEW n, Reached(p, n)
      PROVE  sim_time_ns' = sim_time_ns /\ Reached(p, n)'
  BY <1>0, <1>2, <1>3, <1>4 DEF Reached
<1>5. LooperIsHeard(p)' /\ (pc[p] # "callback" => NotPassed(p))
  <2>1. CASE pc[p] = "working"
    <3>1. Reached(p, Len(channel[p]))
      BY <2>1 DEF Heard, LooperIsHeard
    <3>2. sim_time_ns' = sim_time_ns /\ Reached(p, Len(channel[p]))'
      BY <1>4, <2>1, <3>1 DEF Live
    <3> QED BY <1>0, <2>1, <3>2 DEF Heard, LooperIsHeard, Reached, NotPassed
  <2>2. CASE pc[p] = "sleeping"
    <3>0. pc[p] \in Live
      BY <2>2 DEF Live
    <3>1. CASE channel[p] = <<>>
      <4>1. Request(p) = wake[p]
        BY <2>2, <3>1 DEF Heard, LooperIsHeard, Announced
      <4>2. Announced(p, wake[p])'
        BY <1>2, <3>0, <3>1, <4>1 DEF Announced
      <4> QED BY <1>0, <1>2, <2>2, <3>0, <4>1, <4>2 DEF Heard, LooperIsHeard, NotPassed
    <3>2. CASE channel[p] # <<>>
      <4>1. Reached(p, Len(channel[p]) - 1)
        BY <2>2, <3>2 DEF Heard, LooperIsHeard, Announced
      <4>2. sim_time_ns' = sim_time_ns /\ Reached(p, Len(channel[p]) - 1)'
        BY <1>4, <3>0, <4>1
      <4> QED BY <1>0, <2>2, <3>2, <4>2
              DEF Heard, LooperIsHeard, Announced, Reached, NotPassed
    <3> QED BY <3>1, <3>2
  <2> QED BY <2>1, <2>2 DEF LooperIsHeard, NotPassed
<1>6. CallbackIsHeard(p)' /\ (pc[p] = "callback" => NotPassed(p))
  <2> SUFFICES ASSUME pc[p] = "callback" PROVE CallbackIsHeard(p)' /\ NotPassed(p)
    BY DEF CallbackIsHeard
  <2>1. pc[p] \in Live
    BY DEF Live
  <2>2. CASE channel[p] = <<>>
    BY <1>0, <1>2, <1>3, <2>1, <2>2 DEF Heard, CallbackIsHeard, NotPassed
  <2>3. CASE channel[p] # <<>>
    <3>0. channel[p] \in Seq(Messages)
      BY DEF SwarmTypeOK, Messages
    <3>1. channel[p][Len(channel[p])] \in Messages
      BY <2>3, <3>0
    <3>2. channel[p][Len(channel[p])].time \in Nat
      BY <3>1 DEF Messages, Time
    <3> QED BY <1>0, <2>3, <3>2 DEF Heard, CallbackIsHeard, NotPassed
  <2> QED BY <2>2, <2>3
<1> QED BY <1>1, <1>5, <1>6 DEF Heard

\* A message of p travels behind those it has sent before.
LEMMA SentMessage ==
  ASSUME SwarmTypeOK, NEW p \in Participant, NEW message \in Messages, Send(p, message)
  PROVE  /\ channel'[p] # <<>> /\ Len(channel'[p]) = Len(channel[p]) + 1
         /\ Len(channel[p]) \in Nat
         /\ \A i \in 1 .. Len(channel[p]) : channel'[p][i] = channel[p][i]
         /\ channel'[p][Len(channel[p]) + 1] = message
         /\ \A q \in Participant \ {p} : channel'[q] = channel[q]
<1>1. channel \in [Participant -> Seq(Messages)]
  BY DEF SwarmTypeOK, Messages
<1>2. /\ channel'[p] = Append(channel[p], message)
      /\ \A q \in Participant \ {p} : channel'[q] = channel[q]
  BY <1>1 DEF Send
<1>3. channel[p] \in Seq(Messages)
  BY <1>1
<1> QED BY <1>2, <1>3

\* A thread joins: its request is 0, the time at which every clock starts.
LEMMA JoinIsHeard ==
  ASSUME SwarmTypeOK, NEW p \in Participant, Heard(p), Join(p)
  PROVE  /\ Heard(p)'
         /\ ClockStep /\ \A q \in Participant \ {p} : Steady(q)
<1>1. /\ pc[p] = "off" /\ p \notin DOMAIN participants /\ channel[p] = <<>>
      /\ wake[p] = 0 /\ ~ ahead[p]
  BY DEF Join, Goto, Heard, LiveIsRegistered
<1>2. participants' = WithEntry(p, [NewParticipant EXCEPT !.silent = FALSE])
  BY <1>1 DEF Join, Register, Entry
<1>3. /\ p \in DOMAIN participants' /\ participants'[p].silent = FALSE
      /\ participants'[p].request_time_ns = 0
      /\ \A q \in Participant \ {p} :
           /\ q \in DOMAIN participants' <=> q \in DOMAIN participants
           /\ q \in DOMAIN participants => participants'[q] = participants[q]
  BY <1>2 DEF WithEntry, NewParticipant
<1>4. /\ sim_time_ns' = sim_time_ns /\ sim_time_ns \in Nat
      /\ channel'[p] = <<>> /\ wake'[p] = 0 /\ ~ ahead'[p]
  BY <1>1 DEF Join, Register, SwarmTypeOK, TypeOK, Time
<1>5. pc'[p] \in {"working", "spinning"}
  BY DEF Join, Goto, SwarmTypeOK
<1>6. LiveIsRegistered(p)'
  BY <1>3, <1>4, <1>5 DEF LiveIsRegistered
<1>7. LooperIsHeard(p)'
  BY <1>3, <1>4, <1>5 DEF LooperIsHeard, Reached, Request
<1>8. CallbackIsHeard(p)'
  BY <1>5 DEF CallbackIsHeard
<1>9. ClockStep /\ \A q \in Participant \ {p} : Steady(q)
  BY <1>3, <1>4 DEF ClockStep, NoOvertakeStep, Steady, Request
<1> QED BY <1>6, <1>7, <1>8, <1>9 DEF Heard

\* A looper goes to sleep behind announcements that all hold the clock.
LEMMA SleepIsHeard ==
  ASSUME SwarmTypeOK, SwarmTypeOK', NEW p \in Participant, NEW period \in Periods,
         Heard(p), LooperSleep(p, period)
  PROVE  Heard(p)'
<1> DEFINE until == node_clock[p] + period
           message == Message_Announce(until)
<1>1. until \in Time
  BY SwarmAssumption, StepAssumption DEF SwarmTypeOK, LooperSleep, Time
<1>2. message \in Messages /\ message.kind = "ANNOUNCE" /\ message.time = until
  BY <1>1 DEF Message_Announce, Messages
<1>3. /\ pc[p] = "working" /\ pc'[p] = "sleeping" /\ Send(p, message)
      /\ wake'[p] = until /\ ahead'[p] = (until > sim_time_ns)
      /\ participants' = participants /\ sim_time_ns' = sim_time_ns
  BY DEF LooperSleep, Goto, SwarmTypeOK, vars
<1> HIDE DEF until, message
<1>4. /\ channel'[p] # <<>> /\ Len(channel'[p]) = Len(channel[p]) + 1
      /\ Len(channel[p]) \in Nat
      /\ \A i \in 1 .. Len(channel[p]) : channel'[p][i] = channel[p][i]
      /\ channel'[p][Len(channel[p]) + 1] = message
  BY <1>2, <1>3, SentMessage
<1>5. Reached(p, Len(channel[p]))
  BY <1>3 DEF Heard, LooperIsHeard
<1>6. Announced(p, wake[p])'
  BY <1>2, <1>3, <1>4, <1>5 DEF Announced, Reached, Request
<1>7. LooperIsHeard(p)'
  BY <1>1, <1>3, <1>6 DEF LooperIsHeard, Time, SwarmTypeOK, TypeOK
<1>8. LiveIsRegistered(p)'
  <2>1. /\ p \in DOMAIN participants /\ ~ participants[p].silent
        /\ \A i \in 1 .. Len(channel[p]) : channel[p][i].kind = "ANNOUNCE"
    BY <1>3 DEF Heard, LiveIsRegistered, Live
  <2>2. \A i \in 1 .. Len(channel'[p]) : i \in 1 .. Len(channel[p]) \/ i = Len(channel[p]) + 1
    BY <1>4
  <2>3. \A i \in 1 .. Len(channel'[p]) : channel'[p][i].kind = "ANNOUNCE"
    BY <1>2, <1>4, <2>1, <2>2, Zenon
  <2> QED BY <1>3, <2>1, <2>3 DEF LiveIsRegistered
<1>9. CallbackIsHeard(p)'
  BY <1>3 DEF CallbackIsHeard
<1> QED BY <1>7, <1>8, <1>9 DEF Heard

\* A looper wakes when its node, and so the coordinator, has the time it waits for.
LEMMA WakeIsHeard ==
  ASSUME SwarmTypeOK, NEW p \in Participant, Heard(p), ClocksAreBehind, LooperWake(p)
  PROVE  Heard(p)'
<1>1. /\ pc[p] = "sleeping" /\ pc'[p] = "working" /\ node_clock[p] >= wake[p]
      /\ UNCHANGED <<participants, sim_time_ns, channel, wake, ahead, node_clock>>
  BY DEF LooperWake, Goto, SwarmTypeOK, vars
<1>2. node_clock[p] \in Nat /\ wake[p] \in Nat /\ sim_time_ns \in Nat
      /\ node_clock[p] <= sim_time_ns
  BY DEF SwarmTypeOK, TypeOK, Time, ClocksAreBehind
<1>3. Announced(p, wake[p]) /\ (ahead[p] => sim_time_ns <= wake[p])
  BY <1>1 DEF Heard, LooperIsHeard
<1>4. wake[p] <= sim_time_ns /\ (ahead[p] => sim_time_ns = wake[p] /\ node_clock[p] = wake[p])
  BY <1>1, <1>2, <1>3
<1>5. Reached(p, Len(channel[p]))
  <2>1. channel[p] \in Seq(Messages)
    BY DEF SwarmTypeOK, Messages
  <2>2. CASE channel[p] = <<>>
    BY <1>3, <1>4, <2>2 DEF Announced, Reached
  <2>3. CASE channel[p] # <<>>
    <3>1. Len(channel[p]) \in Nat \ {0}
      BY <2>1, <2>3
    <3>2. \A i \in 1 .. Len(channel[p]) : i \in 1 .. Len(channel[p]) - 1 \/ i = Len(channel[p])
      BY <3>1
    <3> QED BY <1>3, <1>4, <2>3, <3>2 DEF Announced, Reached
  <2> QED BY <2>2, <2>3
<1>6. LooperIsHeard(p)'
  BY <1>1, <1>4, <1>5 DEF LooperIsHeard, Reached, Request
<1>7. LiveIsRegistered(p)' /\ CallbackIsHeard(p)'
  BY <1>1 DEF Heard, LiveIsRegistered, CallbackIsHeard, Live
<1> QED BY <1>6, <1>7 DEF Heard

\* An executor announces infinity, or before a callback a time that is reached.
LEMMA SpinnerIsHeard ==
  ASSUME SwarmTypeOK, NEW p \in Participant, Heard(p), ClocksAreBehind,
         SpinnerRelease(p) \/ SpinnerTakeWork(p)
  PROVE  Heard(p)'
<1>1. /\ pc[p] \in Live /\ UNCHANGED <<participants, sim_time_ns>>
      /\ pc'[p] \in {"waiting", "callback"}
  BY DEF SpinnerRelease, SpinnerTakeWork, Goto, SwarmTypeOK, vars, Live
<1>2. /\ Infinite \in Time /\ node_clock[p] \in Time
      /\ node_clock[p] <= sim_time_ns
  BY StepAssumption DEF SwarmTypeOK, ClocksAreBehind, Time
<1>3. PICK t \in Time : /\ Send(p, Message_Announce(t))
                        /\ pc'[p] = "callback" => t <= sim_time_ns
  <2>1. CASE SpinnerRelease(p)
    BY <1>2, <2>1 DEF SpinnerRelease, Goto, SwarmTypeOK
  <2>2. CASE SpinnerTakeWork(p)
    BY <1>2, <2>2 DEF SpinnerTakeWork
  <2> QED BY <2>1, <2>2
<1>4. /\ Message_Announce(t) \in Messages /\ Message_Announce(t).kind = "ANNOUNCE"
      /\ Message_Announce(t).time = t
  BY DEF Message_Announce, Messages
<1> DEFINE message == Message_Announce(t)
<1> HIDE DEF message
<1>5. /\ channel'[p] # <<>> /\ Len(channel'[p]) = Len(channel[p]) + 1
      /\ Len(channel[p]) \in Nat
      /\ \A i \in 1 .. Len(channel[p]) : channel'[p][i] = channel[p][i]
      /\ channel'[p][Len(channel[p]) + 1] = message
  BY <1>3, <1>4, SentMessage DEF message
<1>6. LiveIsRegistered(p)'
  BY <1>1, <1>4, <1>5 DEF Heard, LiveIsRegistered, message
<1>7. LooperIsHeard(p)' /\ CallbackIsHeard(p)'
  BY <1>1, <1>3, <1>4, <1>5 DEF LooperIsHeard, CallbackIsHeard, message
<1> QED BY <1>6, <1>7 DEF Heard

\* A message of p is handled: the clock moves only to a wake-up time that is
\* the last thing p has announced.
LEMMA MessageIsHeard ==
  ASSUME SwarmTypeOK, SwarmTypeOK', NEW p \in Participant, Heard(p), HandleMessage(p)
  PROVE  Heard(p)' /\ NotPassed(p)
<1> DEFINE c == channel[p]
           t == Head(c).time
<1>0. c \in Seq(Messages) /\ c # <<>> /\ channel'[p] = Tail(c)
  BY DEF SwarmTypeOK, Messages, HandleMessage
<1>1. UNCHANGED <<pc, node_clock, wake, ahead>>
  BY DEF HandleMessage
<1>2. /\ Head(c) \in Messages /\ Head(c) = c[1]
      /\ Len(c) \in Nat \ {0} /\ Len(Tail(c)) = Len(c) - 1
      /\ \A i \in 1 .. Len(Tail(c)) : Tail(c)[i] = c[i + 1]
  BY <1>0, ChannelHead
<1>3. t \in Nat /\ t \in Time
  BY <1>2 DEF Messages, Time
<1>4. /\ sim_time_ns \in Nat /\ sim_time_ns' \in Nat /\ wake[p] \in Nat
  BY DEF SwarmTypeOK, TypeOK, Time
<1>5. CASE pc[p] \notin Live
  BY <1>0, <1>1, <1>5 DEF Heard, LiveIsRegistered, LooperIsHeard, CallbackIsHeard, NotPassed, Live
<1>6. CASE pc[p] \in Live
  <2>1. \A i \in 1 .. Len(c) : c[i].kind = "ANNOUNCE"
    BY <1>6 DEF Heard, LiveIsRegistered
  <2>2. Announce(p, t)
    <3>1. Head(c).kind = "ANNOUNCE"
      BY <1>2, <2>1
    <3> QED BY <3>1 DEF HandleMessage
  <2>3. /\ ClockStep /\ p \in DOMAIN participants' /\ ~ participants'[p].silent
        /\ Request(p)' = t
    BY <1>3, <2>2, AnnounceIsHeard
  <2>4. sim_time_ns <= sim_time_ns' /\ (sim_time_ns' = sim_time_ns \/ sim_time_ns' <= t)
    BY <1>3, <1>4, <2>3, SwarmAssumption DEF ClockStep, NoOvertakeStep, Request
  <2>5. LiveIsRegistered(p)'
    BY <1>0, <1>1, <1>2, <1>6, <2>1, <2>3 DEF LiveIsRegistered, Live
  <2> HIDE DEF c, t
  <2>6. ASSUME NEW n \in Nat, n < Len(c), Reached(p, n + 1)
        PROVE  /\ sim_time_ns' = sim_time_ns /\ Request(p)' <= sim_time_ns'
               /\ \A i \in 1 .. n : channel'[p][i].time <= sim_time_ns'
    <3>1. \A i \in 1 .. n + 1 : c[i].time <= sim_time_ns
      BY <2>6 DEF Reached, c
    <3>2. t <= sim_time_ns
      BY <1>2, <3>1 DEF t
    <3>3. sim_time_ns' = sim_time_ns
      BY <1>3, <1>4, <2>4, <3>2
    <3>4. \A i \in 1 .. n : channel'[p][i].time <= sim_time_ns'
      <4> SUFFICES ASSUME NEW i \in 1 .. n PROVE channel'[p][i].time <= sim_time_ns'
        OBVIOUS
      <4>1. i \in 1 .. Len(Tail(c)) /\ i + 1 \in 1 .. n + 1
        BY <1>2, <2>6
      <4> QED BY <1>0, <1>2, <3>1, <3>3, <4>1
    <3> QED BY <2>3, <3>2, <3>3, <3>4
  <2>7. LooperIsHeard(p)' /\ NotPassed(p)
    <3>0. Len(channel'[p]) = Len(c) - 1
      BY <1>0, <1>2
    <3>1. CASE pc[p] = "working"
      <4>1. Reached(p, Len(c)) /\ wake[p] <= sim_time_ns
            /\ (ahead[p] => sim_time_ns = wake[p] /\ node_clock[p] = wake[p])
        BY <3>1 DEF Heard, LooperIsHeard, c
      <4>2. PICK n \in Nat : n = Len(c) - 1
        <5>1. Len(c) - 1 \in Nat
          BY <1>2
        <5> QED BY <5>1
      <4>5. n + 1 = Len(c) /\ n < Len(c)
        BY <1>2, <4>2
      <4>3. /\ sim_time_ns' = sim_time_ns /\ Request(p)' <= sim_time_ns'
            /\ \A i \in 1 .. n : channel'[p][i].time <= sim_time_ns'
        BY <2>6, <4>1, <4>5
      <4>4. Reached(p, Len(channel[p]))'
        BY <3>0, <4>2, <4>3 DEF Reached
      <4> QED BY <1>1, <1>4, <3>1, <4>1, <4>3, <4>4 DEF LooperIsHeard, NotPassed
    <3>2. CASE pc[p] = "sleeping"
      <4>0. Announced(p, wake[p]) /\ (ahead[p] => sim_time_ns <= wake[p])
        BY <3>2 DEF Heard, LooperIsHeard
      <4>1. Reached(p, Len(c) - 1) /\ c[Len(c)].time = wake[p]
        BY <1>0, <4>0 DEF Announced, c
      <4>2. CASE Len(c) = 1
        <5>1. channel'[p] = <<>> /\ t = wake[p]
          BY <1>0, <1>2, <4>1, <4>2 DEF t
        <5>2. Announced(p, wake[p])'
          BY <1>1, <2>3, <5>1 DEF Announced
        <5> QED BY <1>1, <1>4, <2>4, <3>2, <4>0, <5>1, <5>2 DEF LooperIsHeard, NotPassed
      <4>3. CASE Len(c) > 1
        <5>1. PICK n \in Nat : n = Len(c) - 2
          <6>1. Len(c) - 2 \in Nat
            BY <1>2, <4>3
          <6> QED BY <6>1
        <5>2. n < Len(c) /\ Len(c) - 1 = n + 1
          BY <1>2, <5>1
        <5>3. /\ sim_time_ns' = sim_time_ns /\ Request(p)' <= sim_time_ns'
              /\ \A i \in 1 .. n : channel'[p][i].time <= sim_time_ns'
          BY <2>6, <4>1, <5>2
        <5>4. Len(channel'[p]) = n + 1 /\ channel'[p] # <<>>
          <6>1. Len(Tail(c)) = n + 1
            BY <3>0, <5>2, <1>0
          <6>2. Tail(c) # <<>>
            BY <5>1, <6>1
          <6> QED BY <1>0, <6>1, <6>2
        <5>5. channel'[p][n + 1].time = wake[p]
          BY <1>0, <1>2, <4>1, <5>1
        <5>6. Announced(p, wake[p])'
          BY <1>1, <5>3, <5>4, <5>5 DEF Announced, Reached
        <5> QED BY <1>1, <1>4, <3>2, <4>0, <5>3, <5>6 DEF LooperIsHeard, NotPassed
      <4> QED BY <1>2, <4>2, <4>3
    <3> QED BY <1>0, <1>1, <3>1, <3>2 DEF LooperIsHeard, NotPassed, c
  <2>8. CallbackIsHeard(p)'
    <3> SUFFICES ASSUME pc[p] = "callback" PROVE CallbackIsHeard(p)'
      BY <1>1 DEF CallbackIsHeard
    <3>1. c[Len(c)].time <= sim_time_ns
      BY <1>0 DEF Heard, CallbackIsHeard, c
    <3>2. c[Len(c)].time \in Nat
      <4>1. c[Len(c)] \in Messages
        BY <1>0, <1>2
      <4> QED BY <4>1 DEF Messages, Time
    <3>3. CASE Len(c) = 1
      <4>1. channel'[p] = <<>> /\ t <= sim_time_ns
        BY <1>0, <1>2, <3>1, <3>3 DEF t
      <4> QED BY <1>3, <1>4, <2>3, <2>4, <4>1 DEF CallbackIsHeard
    <3>4. CASE Len(c) > 1
      <4>1. /\ channel'[p] # <<>>
            /\ channel'[p][Len(channel'[p])].time = c[Len(c)].time
        <5>1. Len(Tail(c)) \in 1 .. Len(Tail(c)) /\ Len(Tail(c)) + 1 = Len(c)
          BY <1>2, <3>4
        <5>2. Tail(c)[Len(Tail(c))] = c[Len(c)]
          BY <1>2, <5>1
        <5>3. Tail(c) # <<>>
          BY <5>1
        <5> QED BY <1>0, <5>2, <5>3
      <4> QED BY <1>4, <2>4, <3>1, <3>2, <4>1 DEF CallbackIsHeard
    <3> QED BY <1>2, <3>3, <3>4
  <2> QED BY <2>5, <2>7, <2>8 DEF Heard
<1> QED BY <1>5, <1>6

\* The thread q that a step leaves alone: its own state is the same.
Aside(q) ==
  /\ pc'[q] = pc[q] /\ channel'[q] = channel[q]
  /\ wake'[q] = wake[q] /\ ahead'[q] = ahead[q]

\* When the coordinator stands still nothing is done to anybody.
LEMMA StillIsSteady ==
  ASSUME SwarmTypeOK, UNCHANGED vars
  PROVE  ClockStep /\ \A q \in Participant : Steady(q)
<1>1. participants' = participants /\ sim_time_ns' = sim_time_ns /\ sim_time_ns \in Nat
  BY DEF vars, SwarmTypeOK, TypeOK, Time
<1> QED BY <1>1 DEF ClockStep, NoOvertakeStep, Steady, Request

\* A thread acts: it stays heard, and the others are left alone.
LEMMA ThreadIsHeard ==
  ASSUME SwarmTypeOK, SwarmTypeOK', ClocksAreBehind, ThreadsAreHeard,
         NEW p \in Participant, Thread(p)
  PROVE  \A q \in Participant : Heard(q)'
<1>0. \A q \in Participant : Heard(q)
  BY DEF ThreadsAreHeard, Heard
<1>1. ASSUME UNCHANGED vars, UNCHANGED node_clock, Heard(p)',
             \A q \in Participant \ {p} : Aside(q)
      PROVE  \A q \in Participant : Heard(q)'
  BY <1>0, <1>1, StillIsSteady, BystanderIsHeard DEF Aside
<1>2. ASSUME NEW message \in Messages, Send(p, message)
      PROVE  \A q \in Participant \ {p} : channel'[q] = channel[q]
  BY <1>2, SentMessage
<1>3. CASE Join(p)
  <2>1. /\ Heard(p)' /\ ClockStep /\ \A q \in Participant \ {p} : Steady(q)
    BY <1>0, <1>3, JoinIsHeard
  <2>2. UNCHANGED node_clock /\ \A q \in Participant \ {p} : Aside(q)
    BY <1>3 DEF Join, Goto, Aside, SwarmTypeOK
  <2> QED BY <1>0, <2>1, <2>2, BystanderIsHeard DEF Aside
<1>4. ASSUME NEW period \in Periods, LooperSleep(p, period)
      PROVE  \A q \in Participant : Heard(q)'
  <2>1. Heard(p)'
    BY <1>0, <1>4, SleepIsHeard
  <2>2. node_clock[p] + period \in Time
    BY <1>4, SwarmAssumption, StepAssumption DEF SwarmTypeOK, LooperSleep, Time
  <2>3. Message_Announce(node_clock[p] + period) \in Messages
    BY <2>2 DEF Message_Announce, Messages
  <2>4. \A q \in Participant \ {p} : channel'[q] = channel[q]
    BY <1>2, <1>4, <2>3 DEF LooperSleep
  <2>5. \A q \in Participant \ {p} : Aside(q)
    BY <1>4, <2>4 DEF LooperSleep, Goto, Aside, SwarmTypeOK
  <2> QED BY <1>1, <1>4, <2>1, <2>5 DEF LooperSleep
<1>5. CASE LooperWake(p)
  <2>1. Heard(p)'
    BY <1>0, <1>5, WakeIsHeard
  <2>2. \A q \in Participant \ {p} : Aside(q)
    BY <1>5 DEF LooperWake, Goto, Aside, SwarmTypeOK
  <2> QED BY <1>1, <1>5, <2>1, <2>2 DEF LooperWake
<1>6. CASE SpinnerRelease(p) \/ SpinnerTakeWork(p)
  <2>1. Heard(p)'
    BY <1>0, <1>6, SpinnerIsHeard
  <2>2. /\ Message_Announce(Infinite) \in Messages
        /\ Message_Announce(node_clock[p]) \in Messages
    BY StepAssumption DEF Message_Announce, Messages, SwarmTypeOK, Time
  <2>3. \A q \in Participant \ {p} : channel'[q] = channel[q]
    BY <1>2, <1>6, <2>2 DEF SpinnerRelease, SpinnerTakeWork
  <2>4. \A q \in Participant \ {p} : Aside(q)
    BY <1>6, <2>3 DEF SpinnerRelease, SpinnerTakeWork, Goto, Aside, SwarmTypeOK
  <2> QED BY <1>1, <1>6, <2>1, <2>4 DEF SpinnerRelease, SpinnerTakeWork
<1>7. ASSUME pc'[p] \in {"left", "crashed"}
      PROVE  Heard(p)'
  BY <1>7 DEF Heard, LiveIsRegistered, LooperIsHeard, CallbackIsHeard, Live
<1>8. CASE Leave(p) \/ Crash(p)
  <2>1. Heard(p)'
    BY <1>7, <1>8 DEF Leave, Crash, Goto, SwarmTypeOK
  <2>2. Message_Unregister \in Messages
    BY StepAssumption DEF Message_Unregister, Messages, Time
  <2>3. \A q \in Participant \ {p} : channel'[q] = channel[q]
    <3>1. CASE Leave(p)
      BY <1>2, <2>2, <3>1 DEF Leave
    <3>2. CASE Crash(p)
      BY <3>2 DEF Crash, SwarmTypeOK
    <3> QED BY <1>8, <3>1, <3>2
  <2>4. \A q \in Participant \ {p} : Aside(q)
    BY <1>8, <2>3 DEF Leave, Crash, Goto, Aside, SwarmTypeOK
  <2> QED BY <1>1, <1>8, <2>1, <2>4 DEF Leave, Crash
<1>9. CASE ReceiveClock(p)
  <2>1. \A q \in Participant : Aside(q)
    BY <1>9 DEF ReceiveClock, Aside
  <2>2. \A q \in Participant \ {p} : node_clock'[q] = node_clock[q]
    BY <1>9 DEF ReceiveClock, SwarmTypeOK
  <2>3. pc[p] # "working" \/ ~ ahead[p]
    <3> SUFFICES ASSUME pc[p] = "working", ahead[p] PROVE FALSE
      OBVIOUS
    <3>1. node_clock[p] = sim_time_ns
      BY <1>0 DEF Heard, LooperIsHeard
    <3>2. inbox[p] <= sim_time_ns /\ inbox[p] > node_clock[p]
      BY <1>9 DEF ClocksAreBehind, ReceiveClock
    <3>3. inbox[p] \in Nat /\ sim_time_ns \in Nat
      BY DEF SwarmTypeOK, TypeOK, Time
    <3> QED BY <3>1, <3>2, <3>3
  <2>4. ClockStep /\ \A q \in Participant : Steady(q)
    BY <1>9, StillIsSteady DEF ReceiveClock
  <2> QED BY <1>0, <2>1, <2>2, <2>3, <2>4, BystanderIsHeard DEF Aside
<1> QED BY <1>3, <1>4, <1>5, <1>6, <1>8, <1>9 DEF Thread

\* The coordinator, or the wall clock, acts.
LEMMA CoordinatorIsHeard ==
  ASSUME SwarmTypeOK, SwarmTypeOK', ThreadsAreHeard,
         \/ \E p \in Participant : HandleMessage(p)
         \/ Tick \/ StatusTick \/ Clear
         \/ \E nodes \in SUBSET Participant : PublishTo(nodes)
         \/ \E p \in Participant : TimeOutCrashed(p)
         \/ \E value \in ControlValues : Pause(value)
  PROVE  \A q \in Participant : Heard(q)' /\ NotPassed(q)
<1> SUFFICES ASSUME NEW q \in Participant PROVE Heard(q)' /\ NotPassed(q)
  OBVIOUS
<1>1. Heard(q)
  BY DEF ThreadsAreHeard, Heard
<1>2. UNCHANGED <<pc, node_clock, wake, ahead>>
  BY DEF HandleMessage, Tick, StatusTick, Clear, PublishTo, TimeOutCrashed, Pause, threads
<1>3. CASE pc[q] = "crashed"
  BY <1>2, <1>3 DEF Heard, LiveIsRegistered, LooperIsHeard, CallbackIsHeard, NotPassed, Live
<1>4. CASE HandleMessage(q)
  BY <1>1, <1>4, MessageIsHeard
<1>5. CASE pc[q] # "crashed" /\ ~ HandleMessage(q)
  <2>1. Steady(q) /\ ClockStep
    BY <1>5, OthersAreSteady
  <2>2. channel'[q] = channel[q]
    BY <1>5 DEF HandleMessage, Tick, StatusTick, Clear, PublishTo, TimeOutCrashed, Pause,
                threads, SwarmTypeOK
  <2> QED BY <1>1, <1>2, <2>1, <2>2, BystanderIsHeard
<1> QED BY <1>3, <1>4, <1>5

\* Threads keep to what they are: a looper never spins and a spinner never sleeps.
LEMMA KindsStep ==
  ASSUME SwarmTypeOK, ThreadsAreHeard, [SwarmNext]_allvars, NEW p \in Participant
  PROVE  /\ p \in Loopers => pc'[p] \notin {"spinning", "waiting", "callback"}
         /\ p \in Spinners => pc'[p] \notin {"working", "sleeping"}
<1>1. CASE pc' = pc
  BY <1>1 DEF ThreadsAreHeard
<1>2. ASSUME NEW q \in Participant, Thread(q)
      PROVE  /\ p \in Loopers => pc'[p] \notin {"spinning", "waiting", "callback"}
             /\ p \in Spinners => pc'[p] \notin {"working", "sleeping"}
  BY <1>2, SwarmAssumption
     DEF Thread, Join, LooperSleep, LooperWake, SpinnerRelease, SpinnerTakeWork,
         Leave, Crash, ReceiveClock, Goto, ThreadsAreHeard, SwarmTypeOK
<1> QED BY <1>1, <1>2
        DEF SwarmNext, HandleMessage, PublishTo, Tick, StatusTick, Clear, TimeOutCrashed,
            Pause, threads, allvars

\* The invariant is kept.
LEMMA SwarmInvStep ==
  ASSUME SwarmTypeOK, SwarmTypeOK', SwarmInv, [SwarmNext]_allvars
  PROVE  SwarmInv'
<1>0. ClocksAreBehind /\ ThreadsAreHeard
  BY DEF SwarmInv
<1>1. ClocksAreBehind'
  BY <1>0, ClocksStep
<1>2. \A q \in Participant : Heard(q)'
  <2>1. CASE UNCHANGED allvars
    <3>1. \A q \in Participant : Heard(q)
      BY <1>0 DEF ThreadsAreHeard, Heard
    <3>2. \A q \in Participant : Aside(q) /\ node_clock'[q] = node_clock[q]
      BY <2>1 DEF allvars, threads, Aside
    <3>3. UNCHANGED vars
      BY <2>1 DEF allvars
    <3> QED BY <3>1, <3>2, <3>3, StillIsSteady, BystanderIsHeard DEF Aside
  <2>2. CASE SwarmNext
    BY <1>0, <2>2, ThreadIsHeard, CoordinatorIsHeard DEF SwarmNext
  <2> QED BY <2>1, <2>2
<1>3. ThreadsAreHeard'
  BY <1>0, <1>2, KindsStep DEF ThreadsAreHeard, Heard
<1> QED BY <1>1, <1>3 DEF SwarmInv

\* What every thread has announced holds the clock as it should, whatever is
\* on its way: every announcement and every removal goes through one
\* try_update_clock_locked, and a thread's own messages arrive in order.
THEOREM ThreadsAreAlwaysHeard == SwarmSpec => []SwarmInv
<1>1. SwarmInit => SwarmInv
  <2> SUFFICES ASSUME SwarmInit PROVE SwarmInv
    OBVIOUS
  <2>1. ClocksAreBehind
    BY DEF SwarmInit, Init, Started, ClocksAreBehind
  <2>2. ThreadsAreHeard
    BY DEF SwarmInit, Init, ThreadsAreHeard, LiveIsRegistered, LooperIsHeard,
           CallbackIsHeard, Live
  <2> QED BY <2>1, <2>2 DEF SwarmInv
<1> QED BY <1>1, SwarmTypeCorrect, SwarmInvStep, PTL DEF SwarmSpec

-----------------------------------------------------------------------------
(* What the threads are promised.                                          *)

\* A thread that went to sleep until a future time works at exactly that time,
\* and the clock stands there while it does (Rate::sleep, sleep_for).
THEOREM SleepersWakeOnTime == SwarmSpec => []WakesOnTime
<1>1. SwarmInv => WakesOnTime
  BY DEF SwarmInv, ThreadsAreHeard, LooperIsHeard, WakesOnTime
<1> QED BY <1>1, ThreadsAreAlwaysHeard, PTL

\* The clock moves only in a step of the coordinator that passes nobody.
LEMMA NobodyIsPassed ==
  ASSUME SwarmTypeOK, SwarmTypeOK', SwarmInv, [SwarmNext]_allvars,
         sim_time_ns' # sim_time_ns
  PROVE  /\ UNCHANGED <<pc, wake>> /\ sim_time_ns' > sim_time_ns
         /\ \A p \in Participant : NotPassed(p)
<1>1. ASSUME NEW p \in Participant, Thread(p)
      PROVE  FALSE
  BY <1>1 DEF Thread, Join, Register, LooperSleep, LooperWake, SpinnerRelease,
              SpinnerTakeWork, Leave, Crash, ReceiveClock, vars
<1>2. \/ \E p \in Participant : HandleMessage(p)
      \/ Tick \/ StatusTick \/ Clear
      \/ \E nodes \in SUBSET Participant : PublishTo(nodes)
      \/ \E p \in Participant : TimeOutCrashed(p)
      \/ \E value \in ControlValues : Pause(value)
  BY <1>1 DEF SwarmNext, allvars, vars
<1>3. \A p \in Participant : NotPassed(p)
  BY <1>2, CoordinatorIsHeard DEF SwarmInv
<1>4. UNCHANGED <<pc, wake>>
  BY <1>2 DEF HandleMessage, Tick, StatusTick, Clear, PublishTo, TimeOutCrashed, Pause, threads
<1>5. sim_time_ns <= sim_time_ns'
  BY CoordinatorStep, StepQueuesClock DEF SwarmTypeOK
<1>6. sim_time_ns \in Nat /\ sim_time_ns' \in Nat
  BY DEF SwarmTypeOK, TypeOK, Time
<1> QED BY <1>3, <1>4, <1>5, <1>6

PinHoldsStep ==
  sim_time_ns' > sim_time_ns =>
    \A p \in Participant :
      pc[p] = "callback" /\ channel[p] = <<>> => p \notin DOMAIN participants'

\* Once the coordinator has the announcement that an executor makes before a
\* callback, the clock stands still until the callback is done.
THEOREM PinHoldsTheClock == SwarmSpec => PinHoldsClock
<1>1. SwarmTypeOK /\ SwarmTypeOK' /\ SwarmInv /\ [SwarmNext]_allvars => PinHoldsStep
  <2> SUFFICES ASSUME SwarmTypeOK, SwarmTypeOK', SwarmInv, [SwarmNext]_allvars,
                      sim_time_ns' > sim_time_ns
               PROVE  PinHoldsStep
    BY DEF PinHoldsStep
  <2>1. sim_time_ns' # sim_time_ns
    BY DEF SwarmTypeOK, TypeOK, Time
  <2> QED BY <2>1, NobodyIsPassed DEF NotPassed, PinHoldsStep
<1>2. SwarmSpec => [][PinHoldsStep]_allvars
  BY <1>1, SwarmTypeCorrect, ThreadsAreAlwaysHeard, PTL DEF SwarmSpec
<1> QED BY <1>2 DEF PinHoldsClock, PinHoldsStep

-----------------------------------------------------------------------------
(* Refinement: to its sleeping threads the whole system is one clock.      *)

Sleepers == {q \in Loopers : TakesPart(q)}
Wakes == [p \in Sleepers |-> wake[p]]

\* A step in which no looper comes, goes or chooses a time is a stutter or the
\* advance of the clock.
LEMMA AdvanceRefines ==
  ASSUME SwarmTypeOK, SwarmTypeOK', SwarmInv, [SwarmNext]_allvars,
         UNCHANGED <<Sleepers, wake>>
  PROVE  [Clock!Next]_(Clock!vars)
<1>0. Wakes' = Wakes
  BY DEF Wakes
<1>1. CASE UNCHANGED sim_time_ns
  BY <1>0, <1>1 DEF Clock!vars, Wakes, Sleepers
<1>2. CASE sim_time_ns' # sim_time_ns
  <2>1. sim_time_ns' > sim_time_ns /\ \A p \in Participant : NotPassed(p)
    BY <1>2, NobodyIsPassed
  <2>2. \A p \in Sleepers : sim_time_ns' <= Wakes[p]
    BY <2>1, SwarmAssumption DEF NotPassed, Sleepers, Wakes, TakesPart
  <2>3. sim_time_ns' \in Clock!Time
    BY DEF SwarmTypeOK, TypeOK, Time, Clock!Time
  <2>4. Clock!Advance(sim_time_ns')
    BY <1>0, <2>1, <2>2 DEF Clock!Advance, Wakes, Sleepers
  <2> QED BY <2>3, <2>4 DEF Clock!Next
<1> QED BY <1>1, <1>2

\* A looper that joins is at work from time 0.
LEMMA JoinRefines ==
  ASSUME SwarmTypeOK, SwarmInv, NEW p \in Loopers, Join(p)
  PROVE  Clock!Join(p)
<1>1. /\ pc[p] = "off" /\ pc' = [pc EXCEPT ![p] = "working"] /\ wake' = wake
      /\ sim_time_ns' = sim_time_ns
  BY DEF Join, Goto, Register
<1>2. wake[p] = 0 /\ p \in Participant
  BY <1>1, SwarmAssumption DEF SwarmInv, ThreadsAreHeard, LiveIsRegistered
<1>3. p \notin Sleepers /\ Sleepers' = Sleepers \cup {p}
  BY <1>1, <1>2, SwarmAssumption DEF Sleepers, TakesPart, SwarmTypeOK
<1>4. Wakes' = [q \in Sleepers \cup {p} |-> IF q = p THEN 0 ELSE Wakes[q]]
  BY <1>1, <1>2, <1>3 DEF Wakes
<1>5. 0 \in 0 .. sim_time_ns
  BY DEF SwarmTypeOK, TypeOK, Time
<1> QED BY <1>1, <1>3, <1>4, <1>5 DEF Clock!Join, Wakes, Sleepers

\* A looper that goes to sleep was at work: the clock stood at its time or later.
LEMMA SleepRefines ==
  ASSUME SwarmTypeOK, SwarmTypeOK', SwarmInv, NEW p \in Participant, NEW period \in Periods,
         LooperSleep(p, period)
  PROVE  p \in Loopers /\ Clock!Sleep(p)
<1>1. /\ pc[p] = "working" /\ pc' = [pc EXCEPT ![p] = "sleeping"]
      /\ p \in Loopers /\ sim_time_ns' = sim_time_ns
      /\ wake' = [wake EXCEPT ![p] = wake'[p]]
  BY DEF LooperSleep, Goto, SwarmTypeOK, vars
<1>2. wake'[p] \in Clock!Time
  BY DEF SwarmTypeOK, Time, Clock!Time
<1>3. wake[p] <= sim_time_ns
  BY <1>1 DEF SwarmInv, ThreadsAreHeard, LooperIsHeard
<1>4. p \in Sleepers /\ Sleepers' = Sleepers
  BY <1>1, SwarmAssumption DEF Sleepers, TakesPart, SwarmTypeOK
<1>5. Wakes' = [Wakes EXCEPT ![p] = wake'[p]]
  BY <1>1, <1>4, SwarmAssumption DEF Wakes, Sleepers, SwarmTypeOK
<1>6. Wakes[p] <= sim_time_ns /\ p \in DOMAIN Wakes
  BY <1>3, <1>4 DEF Wakes
<1> QED BY <1>1, <1>2, <1>5, <1>6 DEF Clock!Sleep, Wakes, Sleepers

\* A looper that leaves or dies no longer takes part.
LEMMA LeaveRefines ==
  ASSUME SwarmTypeOK, SwarmInv, NEW p \in Loopers, Leave(p) \/ Crash(p)
  PROVE  Clock!Leave(p)
<1>1. /\ pc[p] \in Live /\ wake' = wake /\ sim_time_ns' = sim_time_ns
      /\ pc' = [pc EXCEPT ![p] = "left"] \/ pc' = [pc EXCEPT ![p] = "crashed"]
  BY DEF Leave, Crash, Goto, Live, vars
<1>2. pc[p] \in {"working", "sleeping"}
  BY <1>1, SwarmAssumption DEF SwarmInv, ThreadsAreHeard, Live
<1>3. p \in Sleepers /\ Sleepers' = Sleepers \ {p}
  BY <1>1, <1>2, SwarmAssumption DEF Sleepers, TakesPart, SwarmTypeOK
<1>4. Wakes' = Restrict(Wakes, DOMAIN Wakes \ {p})
  BY <1>1, <1>3 DEF Wakes, Restrict
<1> QED BY <1>1, <1>3, <1>4 DEF Clock!Leave, Clock!Restrict, Restrict, Wakes, Sleepers

\* Every step of the swarm is a step of its clock.
LEMMA StepRefines ==
  ASSUME SwarmTypeOK, SwarmTypeOK', SwarmInv, [SwarmNext]_allvars
  PROVE  [Clock!Next]_(Clock!vars)
<1>1. ASSUME NEW p \in Participant, Thread(p)
      PROVE  [Clock!Next]_(Clock!vars)
  <2>1. CASE p \in Loopers /\ Join(p)
    BY <2>1, JoinRefines DEF Clock!Next
  <2>2. CASE \E period \in Periods : LooperSleep(p, period)
    BY <2>2, SleepRefines DEF Clock!Next
  <2>3. CASE p \in Loopers /\ (Leave(p) \/ Crash(p))
    BY <2>3, LeaveRefines DEF Clock!Next
  <2>4. ASSUME p \in Spinners, \A q \in Participant \ {p} : pc'[q] = pc[q], wake' = wake
        PROVE  [Clock!Next]_(Clock!vars)
    <3>1. Sleepers' = Sleepers
      BY <2>4, SwarmAssumption DEF Sleepers, TakesPart
    <3> QED BY <2>4, <3>1, AdvanceRefines
  <2>5. CASE p \in Spinners /\ (Join(p) \/ Leave(p) \/ Crash(p))
    BY <2>4, <2>5 DEF Join, Leave, Crash, Goto, SwarmTypeOK
  <2>6. CASE SpinnerRelease(p) \/ SpinnerTakeWork(p)
    <3>1. p \in Spinners
      BY <2>6, SwarmAssumption
         DEF SpinnerRelease, SpinnerTakeWork, Goto, SwarmInv, ThreadsAreHeard
    <3> QED BY <2>4, <2>6, <3>1 DEF SpinnerRelease, SpinnerTakeWork, Goto, SwarmTypeOK
  <2>7. CASE LooperWake(p)
    <3>1. pc[p] = "sleeping" /\ pc' = [pc EXCEPT ![p] = "working"] /\ wake' = wake
      BY <2>7 DEF LooperWake, Goto
    <3>2. Sleepers' = Sleepers
      BY <3>1, SwarmAssumption DEF Sleepers, TakesPart, SwarmTypeOK
    <3> QED BY <3>1, <3>2, AdvanceRefines
  <2>8. CASE ReceiveClock(p)
    BY <2>8, AdvanceRefines DEF ReceiveClock, Sleepers, TakesPart
  <2> QED BY <1>1, <2>1, <2>2, <2>3, <2>5, <2>6, <2>7, <2>8, SwarmAssumption DEF Thread
<1>2. CASE UNCHANGED <<pc, wake>>
  BY <1>2, AdvanceRefines DEF Sleepers, TakesPart
<1> QED BY <1>1, <1>2
        DEF SwarmNext, HandleMessage, PublishTo, Tick, StatusTick, Clear, TimeOutCrashed,
            Pause, threads, allvars

\* Coordinator, channels, best-effort /clock, sleeping threads and dying
\* processes together are the clock that LockStepClock promises to the threads.
THEOREM SwarmImplementsClock == SwarmSpec => ImplementsLockStepClock
<1>1. SwarmInit => Clock!Init
  <2> SUFFICES ASSUME SwarmInit PROVE Clock!Init
    OBVIOUS
  <2>1. Sleepers = {}
    BY SwarmAssumption DEF SwarmInit, Sleepers, TakesPart
  <2>2. Wakes = [p \in {} |-> 0]
    BY <2>1 DEF Wakes
  <2> QED BY <2>2 DEF SwarmInit, Init, Started, Clock!Init, Wakes, Sleepers
<1> QED BY <1>1, SwarmTypeCorrect, ThreadsAreAlwaysHeard, StepRefines, PTL
        DEF SwarmSpec, ImplementsLockStepClock, Clock!Spec

=============================================================================
