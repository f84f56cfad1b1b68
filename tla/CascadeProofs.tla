---------------------------- MODULE CascadeProofs ----------------------------
(***************************************************************************)
(* Theorems about Cascade: for every number of local participants, of      *)
(* executors and late joiners among them, every regulator step and every   *)
(* loss of grants between the two coordinators.                            *)
(***************************************************************************)
EXTENDS Cascade, SequenceTheorems, TLAPS

-----------------------------------------------------------------------------
(* The theorems of TimeCoordinator for the root and for the child.         *)

RootFacts == INSTANCE TimeCoordinatorProofs WITH
  Participant <- {Child}, HasParent <- FALSE, FollowsRealTime <- FALSE, WallSteps <- {},
  participants <- root_participants, sim_time_ns <- root_time,
  regulator_request_ns <- root_regulator, real_time_request_ns <- root_real_time,
  running <- root_running, max_real_time_factor <- root_factor,
  publish_tasks <- root_publish_tasks, announce_tasks <- root_announce_tasks,
  published_ns <- root_published

MachineFacts == INSTANCE TimeCoordinatorProofs WITH
  Participant <- Local, HasParent <- TRUE, FollowsRealTime <- FALSE, WallSteps <- {},
  participants <- child_participants, sim_time_ns <- child_time,
  regulator_request_ns <- child_regulator, real_time_request_ns <- child_real_time,
  running <- child_running, max_real_time_factor <- child_factor,
  publish_tasks <- child_publish_tasks, announce_tasks <- child_announce_tasks,
  published_ns <- child_published

\* The assumptions of TimeCoordinator hold of the root.
LEMMA RootAssumptions ==
  /\ RootFacts!StepAssumption
  /\ RootFacts!ModeAssumption
  /\ RootFacts!FactorAssumption
  /\ RootFacts!WallAssumption
  /\ RootFacts!TasksAssumption
BY CascadeAssumption
   DEF RootFacts!StepAssumption, RootFacts!ModeAssumption, RootFacts!FactorAssumption,
       RootFacts!WallAssumption, RootFacts!TasksAssumption

\* The assumptions of TimeCoordinator hold of the child.
LEMMA MachineAssumptions ==
  /\ MachineFacts!StepAssumption
  /\ MachineFacts!ModeAssumption
  /\ MachineFacts!FactorAssumption
  /\ MachineFacts!WallAssumption
  /\ MachineFacts!TasksAssumption
BY CascadeAssumption
   DEF MachineFacts!StepAssumption, MachineFacts!ModeAssumption,
       MachineFacts!FactorAssumption, MachineFacts!WallAssumption,
       MachineFacts!TasksAssumption

\* The two instances for the root say the same.
LEMMA RootTypes == Root!TypeOK <=> RootFacts!TypeOK
BY DEF Root!TypeOK, RootFacts!TypeOK, Root!IsParticipantMap, RootFacts!IsParticipantMap,
       Root!ParticipantState, RootFacts!ParticipantState, Root!Time,
       RootFacts!Time, Root!NewParticipant, RootFacts!NewParticipant

LEMMA RootSteps == [Root!Next]_(Root!vars) => [RootFacts!Next]_(RootFacts!vars)
BY Zenon
   DEF Root!Next, RootFacts!Next, Root!Message, RootFacts!Message, Root!Timer,
       RootFacts!Timer, Root!Service, RootFacts!Service, Root!Worker,
       RootFacts!Worker, Root!Register, RootFacts!Register, Root!Announce,
       RootFacts!Announce, Root!SetFollowsRealTime, RootFacts!SetFollowsRealTime,
       Root!Unregister, RootFacts!Unregister, Root!RegulatorTick,
       RootFacts!RegulatorTick, Root!RealTimeTick, RootFacts!RealTimeTick,
       Root!ClockStatusTick, RootFacts!ClockStatusTick, Root!FallSilent,
       RootFacts!FallSilent, Root!SetRunning, RootFacts!SetRunning,
       Root!SetMaxRealTimeFactor, RootFacts!SetMaxRealTimeFactor,
       Root!ClearZombieParticipants, RootFacts!ClearZombieParticipants,
       Root!ReceiveParentGrant, RootFacts!ReceiveParentGrant, Root!PublishWorker,
       RootFacts!PublishWorker, Root!AnnounceWorker, RootFacts!AnnounceWorker,
       Root!TryUpdateClock, RootFacts!TryUpdateClock, Root!ShouldAdvance,
       RootFacts!ShouldAdvance, Root!AdvanceTime, RootFacts!AdvanceTime,
       Root!PublishClock, RootFacts!PublishClock, Root!Served, RootFacts!Served,
       Root!Room, RootFacts!Room, Root!PublishRoom, RootFacts!PublishRoom,
       Root!Requests, RootFacts!Requests, Root!RealTimeAhead,
       RootFacts!RealTimeAhead, Root!RealTimeTarget, RootFacts!RealTimeTarget,
       Root!RealTime, RootFacts!RealTime, Root!WithEntry, RootFacts!WithEntry,
       Root!Entry, RootFacts!Entry, Root!WithoutEntries,
       RootFacts!WithoutEntries, Root!Restrict, RootFacts!Restrict, Root!Zombies,
       RootFacts!Zombies, Root!RegulatorTarget, RootFacts!RegulatorTarget,
       Root!RealTimeRequest, RootFacts!RealTimeRequest, Root!ResetPacing,
       RootFacts!ResetPacing, Root!vars, RootFacts!vars, Root!pacing,
       RootFacts!pacing, Root!control, RootFacts!control, Root!NewParticipant,
       RootFacts!NewParticipant, Root!ParticipantState,
       RootFacts!ParticipantState, Root!Time, RootFacts!Time

\* The two instances for the child say the same.
LEMMA MachineTypes == Machine!TypeOK <=> MachineFacts!TypeOK
BY DEF Machine!TypeOK, MachineFacts!TypeOK, Machine!IsParticipantMap,
       MachineFacts!IsParticipantMap, Machine!ParticipantState,
       MachineFacts!ParticipantState, Machine!Time, MachineFacts!Time,
       Machine!NewParticipant, MachineFacts!NewParticipant

LEMMA MachineSteps == [Machine!Next]_(Machine!vars) => [MachineFacts!Next]_(MachineFacts!vars)
BY Zenon
   DEF Machine!Next, MachineFacts!Next, Machine!Message, MachineFacts!Message,
       Machine!Timer, MachineFacts!Timer, Machine!Service, MachineFacts!Service,
       Machine!Worker, MachineFacts!Worker, Machine!Register,
       MachineFacts!Register, Machine!Announce, MachineFacts!Announce,
       Machine!SetFollowsRealTime, MachineFacts!SetFollowsRealTime,
       Machine!Unregister, MachineFacts!Unregister, Machine!RegulatorTick,
       MachineFacts!RegulatorTick, Machine!RealTimeTick,
       MachineFacts!RealTimeTick, Machine!ClockStatusTick,
       MachineFacts!ClockStatusTick, Machine!FallSilent, MachineFacts!FallSilent,
       Machine!SetRunning, MachineFacts!SetRunning, Machine!SetMaxRealTimeFactor,
       MachineFacts!SetMaxRealTimeFactor, Machine!ClearZombieParticipants,
       MachineFacts!ClearZombieParticipants, Machine!ReceiveParentGrant,
       MachineFacts!ReceiveParentGrant, Machine!PublishWorker,
       MachineFacts!PublishWorker, Machine!AnnounceWorker,
       MachineFacts!AnnounceWorker, Machine!TryUpdateClock,
       MachineFacts!TryUpdateClock, Machine!ShouldAdvance,
       MachineFacts!ShouldAdvance, Machine!AdvanceTime, MachineFacts!AdvanceTime,
       Machine!PublishClock, MachineFacts!PublishClock, Machine!Served,
       MachineFacts!Served, Machine!Room, MachineFacts!Room, Machine!PublishRoom,
       MachineFacts!PublishRoom, Machine!Requests, MachineFacts!Requests,
       Machine!RealTimeAhead, MachineFacts!RealTimeAhead, Machine!RealTimeTarget,
       MachineFacts!RealTimeTarget, Machine!RealTime, MachineFacts!RealTime,
       Machine!WithEntry, MachineFacts!WithEntry, Machine!Entry,
       MachineFacts!Entry, Machine!WithoutEntries, MachineFacts!WithoutEntries,
       Machine!Restrict, MachineFacts!Restrict, Machine!Zombies,
       MachineFacts!Zombies, Machine!RegulatorTarget,
       MachineFacts!RegulatorTarget, Machine!RealTimeRequest,
       MachineFacts!RealTimeRequest, Machine!ResetPacing,
       MachineFacts!ResetPacing, Machine!vars, MachineFacts!vars, Machine!pacing,
       MachineFacts!pacing, Machine!control, MachineFacts!control,
       Machine!NewParticipant, MachineFacts!NewParticipant,
       Machine!ParticipantState, MachineFacts!ParticipantState, Machine!Time,
       MachineFacts!Time

-----------------------------------------------------------------------------
(* Types.                                                                  *)

CascadeTypeOK ==
  /\ Root!TypeOK /\ Machine!TypeOK
  /\ DOMAIN root_participants = {Child}

\* What is on its way between the two is a time.
LEMMA AnnouncedTime ==
  ASSUME CascadeTypeOK, AnnounceToRoot
  PROVE  Head(child_announce_tasks) \in Root!Time
<1>1. child_announce_tasks \in Seq(Time) /\ child_announce_tasks # <<>>
  BY DEF AnnounceToRoot, Machine!AnnounceWorker, CascadeTypeOK, Machine!TypeOK,
         Machine!Time, Time
<1>2. Head(child_announce_tasks) \in Time
  BY <1>1
<1> QED BY <1>2 DEF Time, Root!Time

\* Every step of the cascade is one of the root or leaves it alone.
LEMMA RootStep ==
  ASSUME CascadeTypeOK, [CascadeNext]_allvars
  PROVE  [Root!Next]_(Root!vars)
<1>1. CASE AnnounceToRoot
  BY <1>1, AnnouncedTime DEF AnnounceToRoot, Root!Next, Root!Message
<1>2. CASE DeliverGrant \/ LoseGrant \/ RootTick \/ RootStatusTick
  BY <1>2 DEF DeliverGrant, LoseGrant, RootTick, RootStatusTick, Root!Next, Root!Worker,
              Root!Timer
<1>3. ASSUME NEW value \in RunningValues, RootPause(value)
      PROVE  [Root!Next]_(Root!vars)
  BY <1>3, CascadeAssumption DEF RootPause, Root!Next, Root!Service
<1>4. CASE UNCHANGED root
  BY <1>4 DEF root, Root!vars
<1> QED BY <1>1, <1>2, <1>3, <1>4
        DEF CascadeNext, Join, Sleep, Pin, Leave, ChildTick, ChildStatusTick, ChildPublish,
            allvars

\* Every step of the cascade is one of the child or leaves it alone.
LEMMA MachineStep ==
  ASSUME CascadeTypeOK, [CascadeNext]_allvars
  PROVE  [Machine!Next]_(Machine!vars)
<1>1. child_time \in Machine!Time
  BY DEF CascadeTypeOK, Machine!TypeOK
<1>2. ASSUME NEW p \in Local, Join(p) \/ (\E until \in Time : Sleep(p, until))
                              \/ Pin(p) \/ Leave(p)
      PROVE  [Machine!Next]_(Machine!vars)
  BY <1>1, <1>2 DEF Join, Sleep, Pin, Leave, Machine!Next, Machine!Message, Machine!Time, Time
<1>3. CASE DeliverGrant
  <2>1. root_publish_tasks \in Seq(Time) /\ root_publish_tasks # <<>>
    BY <1>3 DEF DeliverGrant, Root!PublishWorker, CascadeTypeOK, Root!TypeOK, Root!Time, Time
  <2>2. Head(root_publish_tasks) \in Time
    BY <2>1
  <2>3. Head(root_publish_tasks) \in Machine!Time
    BY <2>2 DEF Time, Machine!Time
  <2> QED BY <1>3, <2>3 DEF DeliverGrant, Machine!Next, child, Machine!vars
<1>4. CASE AnnounceToRoot \/ ChildTick \/ ChildStatusTick \/ ChildPublish
  BY <1>4 DEF AnnounceToRoot, ChildTick, ChildStatusTick, ChildPublish, Machine!Next,
              Machine!Worker, Machine!Timer
<1>5. CASE UNCHANGED child
  BY <1>5 DEF child, Machine!vars
<1> QED BY <1>2, <1>3, <1>4, <1>5
        DEF CascadeNext, LoseGrant, RootTick, RootStatusTick, RootPause, allvars

\* What a clock update does at the root: it waits for the child, which it takes
\* no further than it has announced.
LEMMA RootUpdate ==
  ASSUME NEW ps, NEW reg, NEW rt, Root!TryUpdateClock(ps, reg, rt),
         DOMAIN ps = {Child}, ps[Child] \in Root!ParticipantState, root_time \in Nat
  PROVE  /\ DOMAIN root_participants' = {Child}
         /\ root_participants'[Child].request_time_ns = ps[Child].request_time_ns
         /\ \/ UNCHANGED <<root_time, root_publish_tasks>>
            \/ /\ root_time' > root_time
               /\ root_time' <= ps[Child].request_time_ns
               /\ root_publish_tasks' = Append(root_publish_tasks, root_time')
<1>1. CASE root_participants' = ps /\ UNCHANGED <<root_time, root_publish_tasks>>
  BY <1>1
<1>2. ASSUME NEW t \in Root!Time, Root!ShouldAdvance(ps, reg, rt, t), Root!AdvanceTime(ps, t)
      PROVE  /\ DOMAIN root_participants' = {Child}
             /\ root_participants'[Child].request_time_ns = ps[Child].request_time_ns
             /\ root_time' > root_time
             /\ root_time' <= ps[Child].request_time_ns
             /\ root_publish_tasks' = Append(root_publish_tasks, root_time')
  <2>1. /\ root_time' = t /\ root_publish_tasks' = Append(root_publish_tasks, t)
        /\ root_participants' = Root!Served(ps, t)
    BY <1>2 DEF Root!AdvanceTime, Root!PublishClock
  <2>2. t > root_time /\ t <= ps[Child].request_time_ns
    BY <1>2 DEF Root!ShouldAdvance, Root!RealTimeAhead, Root!Requests
  <2>3. /\ DOMAIN root_participants' = {Child}
        /\ root_participants'[Child].request_time_ns = ps[Child].request_time_ns
    BY <2>1 DEF Root!Served, Root!ParticipantState
  <2> QED BY <2>1, <2>2, <2>3
<1> QED BY <1>1, <1>2 DEF Root!TryUpdateClock

\* The announcement of the child at the root.
LEMMA RootAnnounce ==
  ASSUME CascadeTypeOK, NEW t \in Root!Time, Root!Announce(Child, t)
  PROVE  /\ DOMAIN root_participants' = {Child}
         /\ root_participants'[Child].request_time_ns = t
         /\ \/ UNCHANGED <<root_time, root_publish_tasks>>
            \/ /\ root_time' > root_time /\ root_time' <= t
               /\ root_publish_tasks' = Append(root_publish_tasks, root_time')
<1> DEFINE e == [Root!Entry(Child) EXCEPT !.request_time_ns = t, !.has_new_request = TRUE,
                                          !.silent = FALSE]
           ps == Root!WithEntry(Child, e)
<1>1. Root!TryUpdateClock(ps, root_regulator, root_real_time)
  BY DEF Root!Announce
<1>2. Root!Entry(Child) \in Root!ParticipantState
  BY DEF Root!Entry, CascadeTypeOK, Root!TypeOK, Root!IsParticipantMap
<1>3. e \in Root!ParticipantState /\ e.request_time_ns = t
  BY <1>2 DEF Root!ParticipantState
<1> HIDE DEF e
<1>4. DOMAIN ps = {Child} /\ ps[Child] = e
  BY DEF Root!WithEntry, CascadeTypeOK
<1> HIDE DEF ps
<1>5. root_time \in Nat
  BY DEF CascadeTypeOK, Root!TypeOK, Root!Time
<1> QED BY <1>1, <1>3, <1>4, <1>5, RootUpdate

\* A tick of the root's regulator.
LEMMA RootTicks ==
  ASSUME CascadeTypeOK, Root!RegulatorTick
  PROVE  /\ DOMAIN root_participants' = {Child}
         /\ root_participants'[Child].request_time_ns
              = root_participants[Child].request_time_ns
         /\ \/ UNCHANGED <<root_time, root_publish_tasks>>
            \/ /\ root_time' > root_time
               /\ root_time' <= root_participants[Child].request_time_ns
               /\ root_publish_tasks' = Append(root_publish_tasks, root_time')
<1>1. root_time \in Nat
  BY DEF CascadeTypeOK, Root!TypeOK, Root!Time
<1>2. DOMAIN root_participants = {Child} /\ root_participants[Child] \in Root!ParticipantState
  BY DEF CascadeTypeOK, Root!TypeOK, Root!IsParticipantMap
<1> QED BY <1>1, <1>2, RootUpdate DEF Root!RegulatorTick

LEMMA CascadeTypeStep ==
  ASSUME CascadeTypeOK, [CascadeNext]_allvars
  PROVE  CascadeTypeOK'
<1>1. Root!TypeOK'
  <2>1. RootFacts!TypeOK /\ [RootFacts!Next]_(RootFacts!vars)
    BY RootStep, RootSteps, RootTypes DEF CascadeTypeOK
  <2>2. RootFacts!TypeOK'
    BY <2>1, RootFacts!StepType, RootAssumptions
  <2>3. Root!TypeOK' <=> RootFacts!TypeOK'
    BY RootTypes, PTL
  <2> QED BY <2>2, <2>3
<1>2. Machine!TypeOK'
  <2>1. MachineFacts!TypeOK /\ [MachineFacts!Next]_(MachineFacts!vars)
    BY MachineStep, MachineSteps, MachineTypes DEF CascadeTypeOK
  <2>2. MachineFacts!TypeOK'
    BY <2>1, MachineFacts!StepType, MachineAssumptions
  <2>3. Machine!TypeOK' <=> MachineFacts!TypeOK'
    BY MachineTypes, PTL
  <2> QED BY <2>2, <2>3
<1>3. DOMAIN root_participants' = {Child}
  <2>1. CASE AnnounceToRoot
    BY <2>1, AnnouncedTime, RootAnnounce DEF AnnounceToRoot
  <2>2. CASE RootTick
    BY <2>2, RootTicks DEF RootTick
  <2>3. CASE UNCHANGED root_participants
    BY <2>3 DEF CascadeTypeOK
  <2> QED BY <2>1, <2>2, <2>3
          DEF CascadeNext, Join, Sleep, Pin, Leave, DeliverGrant, LoseGrant, Root!PublishWorker,
              RootStatusTick, Root!ClockStatusTick, RootPause, Root!SetRunning, ChildTick,
              ChildStatusTick, ChildPublish, root, allvars
<1> QED BY <1>1, <1>2, <1>3 DEF CascadeTypeOK

\* Both coordinators are well typed, and the child stays the root's participant.
THEOREM CascadeTypeCorrect == CascadeSpec => []CascadeTypeOK
<1>1. CascadeInit => CascadeTypeOK
  <2> SUFFICES ASSUME CascadeInit PROVE CascadeTypeOK
    OBVIOUS
  <2>1. 0 \in Time
    BY CascadeAssumption DEF Time
  <2>2. Machine!TypeOK
    BY <2>1 DEF CascadeInit, Machine!Init, Machine!Started, Machine!TypeOK,
                Machine!IsParticipantMap, Machine!Time, Time
  <2>3. [Root!NewParticipant EXCEPT !.follows_real_time = FALSE] \in Root!ParticipantState
    BY <2>1 DEF Root!NewParticipant, Root!ParticipantState, Root!Time, Time
  <2>4. DOMAIN root_participants = {Child} /\ Root!IsParticipantMap(root_participants)
    BY <2>3 DEF CascadeInit, Root!IsParticipantMap
  <2>5. Root!TypeOK
    BY <2>1, <2>4 DEF CascadeInit, Root!Started, Root!TypeOK, Root!Time, Time
  <2> QED BY <2>2, <2>4, <2>5 DEF CascadeTypeOK
<1> QED BY <1>1, CascadeTypeStep, PTL DEF CascadeSpec

-----------------------------------------------------------------------------
(* What is on its way between the coordinators.                            *)

\* Every value from which the root may still make a grant, or has made one that
\* the child may still receive.
Outstanding ==
  {root_time, root_participants[Child].request_time_ns}
    \cup Range(child_announce_tasks) \cup Range(root_publish_tasks)

\* The child may be taken to x: it is at most a step away, no sleeper has
\* announced less, and none can join any more that has announced nothing.
Safe(x) ==
  /\ x <= child_time + Step
  /\ x > child_time =>
       /\ \A p \in DOMAIN child_participants \ (Repinning \cup LateJoiners) : NotPast(p, x)
       /\ child_time = 0 => \E q \in Local : Waiting(q)

CascadeInv ==
  /\ child_time <= root_time
  /\ \A x \in Range(root_publish_tasks) : x <= root_time
  /\ child_regulator <= child_time + Step
  /\ \A x \in Outstanding : Safe(x)

-----------------------------------------------------------------------------
(* Ranges of queues.                                                       *)

LEMMA RangeAppend ==
  ASSUME NEW S, NEW s \in Seq(S), NEW e \in S
  PROVE  Range(Append(s, e)) = Range(s) \cup {e}
<1>1. /\ Len(Append(s, e)) = Len(s) + 1 /\ Len(s) \in Nat
      /\ \A i \in 1 .. Len(s) : Append(s, e)[i] = s[i]
      /\ Append(s, e)[Len(s) + 1] = e
      /\ DOMAIN Append(s, e) = 1 .. Len(s) + 1 /\ DOMAIN s = 1 .. Len(s)
  OBVIOUS
<1>2. \A i \in 1 .. Len(s) + 1 : i \in 1 .. Len(s) \/ i = Len(s) + 1
  BY <1>1
<1>3. \A i \in 1 .. Len(s) : i \in 1 .. Len(s) + 1
  BY <1>1
<1>4. Len(s) + 1 \in 1 .. Len(s) + 1
  BY <1>1
<1> QED BY <1>1, <1>2, <1>3, <1>4, Zenon DEF Range

LEMMA RangeTail ==
  ASSUME NEW S, NEW s \in Seq(S), s # <<>>
  PROVE  Range(Tail(s)) \subseteq Range(s) /\ Head(s) \in Range(s)
<1>1. /\ DOMAIN Tail(s) = 1 .. Len(s) - 1 /\ DOMAIN s = 1 .. Len(s) /\ Len(s) \in Nat \ {0}
      /\ \A i \in 1 .. Len(s) - 1 : Tail(s)[i] = s[i + 1]
      /\ Head(s) = s[1]
  OBVIOUS
<1>2. \A i \in 1 .. Len(s) - 1 : i + 1 \in 1 .. Len(s)
  BY <1>1
<1>3. 1 \in 1 .. Len(s)
  BY <1>1
<1> QED BY <1>1, <1>2, <1>3, Zenon DEF Range

\* The types in arithmetic form.
LEMMA Naturals ==
  ASSUME CascadeTypeOK
  PROVE  /\ child_time \in Nat /\ root_time \in Nat /\ child_regulator \in Nat
         /\ Step \in Nat \ {0}
         /\ root_participants[Child].request_time_ns \in Nat
         /\ child_announce_tasks \in Seq(Nat) /\ root_publish_tasks \in Seq(Nat)
         /\ DOMAIN child_participants \subseteq Local
         /\ \A p \in DOMAIN child_participants :
              /\ child_participants[p] \in Machine!ParticipantState
              /\ child_participants[p].request_time_ns \in Nat
         /\ \A x \in Outstanding : x \in Nat
<1>1. /\ child_time \in Nat /\ root_time \in Nat /\ child_regulator \in Nat
      /\ Step \in Nat \ {0}
  BY CascadeAssumption DEF CascadeTypeOK, Root!TypeOK, Machine!TypeOK, Root!Time, Machine!Time
<1>2. root_participants[Child].request_time_ns \in Nat
  <2>1. root_participants[Child] \in Root!ParticipantState
    BY DEF CascadeTypeOK, Root!TypeOK, Root!IsParticipantMap
  <2> QED BY <2>1 DEF Root!ParticipantState, Root!Time
<1>3. child_announce_tasks \in Seq(Nat) /\ root_publish_tasks \in Seq(Nat)
  <2>1. child_announce_tasks \in Seq(Time) /\ root_publish_tasks \in Seq(Time)
    BY DEF CascadeTypeOK, Root!TypeOK, Machine!TypeOK, Root!Time, Machine!Time, Time
  <2>2. Time \subseteq Nat
    BY DEF Time
  <2>3. \A s \in Seq(Time) : s \in Seq(Nat)
    BY <2>2, SeqMonotonic
  <2> QED BY <2>1, <2>3
<1>4. /\ DOMAIN child_participants \subseteq Local
      /\ \A p \in DOMAIN child_participants : child_participants[p] \in Machine!ParticipantState
  BY DEF CascadeTypeOK, Machine!TypeOK, Machine!IsParticipantMap
<1>5. \A p \in DOMAIN child_participants : child_participants[p].request_time_ns \in Nat
  BY <1>4 DEF Machine!ParticipantState, Machine!Time
<1>6. \A x \in Range(child_announce_tasks) \cup Range(root_publish_tasks) : x \in Nat
  BY <1>3 DEF Range
<1> QED BY <1>1, <1>2, <1>3, <1>4, <1>5, <1>6 DEF Outstanding

-----------------------------------------------------------------------------
(* What is safe stays safe.                                                *)

\* What is earlier is safe, too.
LEMMA SafeEarlier ==
  ASSUME CascadeTypeOK, NEW x \in Nat, NEW y \in Nat, Safe(y), x <= y
  PROVE  Safe(x)
BY Naturals DEF Safe, NotPast

\* A local step that touches no sleeper for whom x is later, and withdraws no
\* request, leaves x safe.
LEMMA SafeBeside ==
  ASSUME NEW x \in Nat, Safe(x), child_time' = child_time,
         x > child_time =>
           \A p \in DOMAIN child_participants' \ (Repinning \cup LateJoiners) :
             p \in DOMAIN child_participants /\ child_participants'[p] = child_participants[p],
         \A q \in Local : Waiting(q) => Waiting(q)'
  PROVE  Safe(x)'
<1>1. x <= child_time' + Step
  BY DEF Safe
<1>2. ASSUME x > child_time', NEW p \in DOMAIN child_participants' \ (Repinning \cup LateJoiners)
      PROVE  NotPast(p, x)'
  BY <1>2 DEF Safe, NotPast, Waiting, Registered
<1>3. ASSUME x > child_time', child_time' = 0
      PROVE  \E q \in Local : Waiting(q)'
  BY <1>3 DEF Safe
<1> QED BY <1>1, <1>2, <1>3 DEF Safe

\* A grant of g leaves safe what is later than g.
LEMMA SafeAfterGrant ==
  ASSUME CascadeTypeOK, NEW x \in Nat, Safe(x), NEW g \in Nat, g > child_time,
         child_time' = g, child_participants' = Machine!Served(child_participants, g)
  PROVE  Safe(x)'
<1>1. x <= g + Step /\ child_time' # 0
  BY Naturals DEF Safe
<1>2. ASSUME x > g, NEW p \in DOMAIN child_participants' \ (Repinning \cup LateJoiners)
      PROVE  NotPast(p, x)'
  <2>1. p \in DOMAIN child_participants
    BY <1>2 DEF Machine!Served
  <2>2. child_participants[p].has_new_request /\ x <= child_participants[p].request_time_ns
    BY <1>2, <2>1, Naturals DEF Safe, NotPast, Waiting
  <2>3. /\ p \in DOMAIN child_participants'
        /\ child_participants'[p].request_time_ns = child_participants[p].request_time_ns
        /\ child_participants'[p].has_new_request
             = (child_participants[p].has_new_request
                  /\ child_participants[p].request_time_ns > g)
    BY <2>1, Naturals DEF Machine!Served, Machine!ParticipantState
  <2>4. child_participants[p].request_time_ns > g
    BY <1>2, <2>1, <2>2, Naturals
  <2> QED BY <2>2, <2>3, <2>4 DEF NotPast, Waiting, Registered
<1> QED BY <1>1, <1>2 DEF Safe

\* What the child's update announces is safe.
LEMMA MachineUpdate ==
  ASSUME CascadeTypeOK, NEW ps, DOMAIN ps \subseteq Local, NEW reg \in Nat, NEW rt,
         reg <= child_time + Step, Machine!TryUpdateClock(ps, reg, rt)
  PROVE  /\ child_participants' = ps /\ child_time' = child_time /\ child_regulator' = reg
         /\ UNCHANGED child_publish_tasks
         /\ \/ UNCHANGED child_announce_tasks
            \/ \E t \in Nat : /\ child_announce_tasks' = Append(child_announce_tasks, t)
                              /\ Safe(t)'
<1>1. child_regulator' = reg
  BY DEF Machine!TryUpdateClock
<1>2. ASSUME NEW t \in Machine!Time, Machine!ShouldAdvance(ps, reg, rt, t),
             Machine!AdvanceTime(ps, t)
      PROVE  /\ child_participants' = ps
             /\ UNCHANGED <<child_time, child_publish_tasks>>
             /\ child_announce_tasks' = Append(child_announce_tasks, t)
             /\ t \in Nat /\ Safe(t)'
  <2>1. /\ child_participants' = ps
        /\ UNCHANGED <<child_time, child_publish_tasks>>
        /\ child_announce_tasks' = Append(child_announce_tasks, t)
    BY <1>2 DEF Machine!AdvanceTime
  <2>2. /\ DOMAIN ps # {} /\ t <= reg
        /\ \A p \in DOMAIN ps : ps[p].has_new_request /\ t <= ps[p].request_time_ns
    BY <1>2 DEF Machine!ShouldAdvance, Machine!RealTimeAhead, Machine!Requests
  <2>3. t \in Nat /\ t <= child_time + Step
    BY <2>2, Naturals DEF Machine!Time
  <2>4. Safe(t)'
    BY <2>1, <2>2, <2>3 DEF Safe, NotPast, Waiting, Registered
  <2> QED BY <2>1, <2>3, <2>4
<1>3. CASE /\ child_participants' = ps
           /\ UNCHANGED <<child_time, child_publish_tasks, child_announce_tasks>>
  BY <1>1, <1>3
<1> QED BY <1>1, <1>2, <1>3 DEF Machine!TryUpdateClock
-----------------------------------------------------------------------------
(* The steps of the machine.                                               *)

\* A message or a tick at the child that touches no sleeper for whom something
\* later is on its way, and withdraws no request.
LEMMA LocalStep ==
  ASSUME CascadeTypeOK, CascadeInv, UNCHANGED root,
         NEW ps, DOMAIN ps \subseteq Local, NEW reg \in Nat, NEW rt,
         reg <= child_time + Step, Machine!TryUpdateClock(ps, reg, rt),
         \A x \in Outstanding : x > child_time =>
           \A p \in DOMAIN ps \ (Repinning \cup LateJoiners) :
             p \in DOMAIN child_participants /\ ps[p] = child_participants[p],
         \A q \in Local : Waiting(q) => q \in DOMAIN ps /\ ps[q].has_new_request
  PROVE  CascadeInv'
<1>1. /\ child_participants' = ps /\ child_time' = child_time /\ child_regulator' = reg
      /\ \/ UNCHANGED child_announce_tasks
         \/ \E t \in Nat : /\ child_announce_tasks' = Append(child_announce_tasks, t)
                           /\ Safe(t)'
  BY MachineUpdate
<1>2. UNCHANGED <<root_time, root_participants, root_publish_tasks>>
  BY DEF root
<1>3. ASSUME NEW x \in Outstanding
      PROVE  Safe(x)'
  <2>1. Safe(x) /\ x \in Nat
    BY Naturals DEF CascadeInv
  <2>2. x > child_time =>
          \A p \in DOMAIN child_participants' \ (Repinning \cup LateJoiners) :
            p \in DOMAIN child_participants /\ child_participants'[p] = child_participants[p]
    BY <1>1
  <2>3. \A q \in Local : Waiting(q) => Waiting(q)'
    BY <1>1 DEF Waiting, Registered
  <2> QED BY <1>1, <2>1, <2>2, <2>3, SafeBeside
<1>4. \A x \in Outstanding' : Safe(x)'
  <2>1. CASE UNCHANGED child_announce_tasks
    BY <1>2, <1>3, <2>1 DEF Outstanding
  <2>2. ASSUME NEW t \in Nat, child_announce_tasks' = Append(child_announce_tasks, t), Safe(t)'
        PROVE  \A x \in Outstanding' : Safe(x)'
    <3>1. child_announce_tasks \in Seq(Nat)
      BY Naturals
    <3>2. Range(Append(child_announce_tasks, t)) = Range(child_announce_tasks) \cup {t}
      BY <2>2, <3>1, RangeAppend
    <3>3. Range(child_announce_tasks)' = Range(child_announce_tasks) \cup {t}
      BY <2>2, <3>2
    <3> QED BY <1>2, <1>3, <2>2, <3>3 DEF Outstanding
  <2> QED BY <1>1, <2>1, <2>2
<1>5. /\ child_time' <= root_time'
      /\ \A x \in Range(root_publish_tasks') : x <= root_time'
      /\ child_regulator' <= child_time' + Step
  BY <1>1, <1>2 DEF CascadeInv
<1> QED BY <1>4, <1>5 DEF CascadeInv

\* A thread announces a time.  It may withdraw nothing by it: an executor pins
\* or unpins, and a sleeper has no request pending.
LEMMA LocalAnnounce ==
  ASSUME CascadeTypeOK, CascadeInv, UNCHANGED root, NEW p \in Local, NEW t \in Nat,
         Registered(p), Machine!Announce(p, t), p \in Repinning \/ ~ Waiting(p)
  PROVE  CascadeInv'
<1> DEFINE e == [Machine!Entry(p) EXCEPT !.request_time_ns = t, !.has_new_request = TRUE,
                                         !.silent = FALSE]
           ps == Machine!WithEntry(p, e)
<1>1. Machine!TryUpdateClock(ps, child_regulator, child_real_time)
  BY DEF Machine!Announce
<1>2. e.has_new_request
  <2>1. Machine!Entry(p) \in Machine!ParticipantState
    BY Naturals DEF Machine!Entry, Registered
  <2> QED BY <2>1 DEF Machine!ParticipantState
<1> HIDE DEF e
<1>3. /\ DOMAIN ps = DOMAIN child_participants
      /\ \A q \in DOMAIN child_participants :
           ps[q] = IF q = p THEN e ELSE child_participants[q]
  BY DEF Machine!WithEntry, Registered
<1>4. child_regulator \in Nat /\ child_regulator <= child_time + Step
      /\ DOMAIN child_participants \subseteq Local
  BY Naturals DEF CascadeInv
<1> HIDE DEF ps
<1>5. \A q \in Local : Waiting(q) => q \in DOMAIN ps /\ ps[q].has_new_request
  BY <1>2, <1>3 DEF Waiting, Registered
<1>6. ASSUME NEW x \in Outstanding, x > child_time,
             NEW q \in DOMAIN ps \ (Repinning \cup LateJoiners)
      PROVE  q \in DOMAIN child_participants /\ ps[q] = child_participants[q]
  <2>1. q \in DOMAIN child_participants
    BY <1>3
  <2>2. Waiting(q)
    BY <1>6, <2>1 DEF CascadeInv, Safe, NotPast
  <2> QED BY <1>3, <1>6, <2>1, <2>2
<1> QED BY <1>1, <1>3, <1>4, <1>5, <1>6, LocalStep

LEMMA JoinKeeps ==
  ASSUME CascadeTypeOK, CascadeInv, NEW p \in Local, Join(p)
  PROVE  CascadeInv'
<1>1. /\ UNCHANGED <<child_time, child_regulator, child_announce_tasks,
                     root_time, root_participants, root_publish_tasks>>
      /\ ~ Registered(p) /\ (p \in LateJoiners \/ Start)
  BY DEF Join, Machine!Register, Machine!pacing, root
<1>2. /\ DOMAIN child_participants' = DOMAIN child_participants \cup {p}
      /\ \A q \in DOMAIN child_participants : child_participants'[q] = child_participants[q]
  BY <1>1 DEF Join, Machine!Register, Machine!WithEntry, Registered
<1>3. ASSUME NEW x \in Outstanding
      PROVE  Safe(x)'
  <2>1. Safe(x) /\ x \in Nat
    BY Naturals DEF CascadeInv
  <2>2. \A q \in Local : Waiting(q) => Waiting(q)'
    BY <1>2 DEF Waiting, Registered
  <2>3. ASSUME x > child_time,
               NEW q \in DOMAIN child_participants' \ (Repinning \cup LateJoiners)
        PROVE  q \in DOMAIN child_participants
               /\ child_participants'[q] = child_participants[q]
    <3>1. CASE Start
      <4>1. PICK r \in Local : Waiting(r)
        BY <2>1, <2>3, <3>1 DEF Safe, Start
      <4> QED BY <3>1, <4>1 DEF Start, Waiting, Registered, Machine!NewParticipant
    <3>2. CASE p \in LateJoiners
      BY <1>2, <2>3, <3>2
    <3> QED BY <1>1, <3>1, <3>2
  <2> QED BY <1>1, <2>1, <2>2, <2>3, SafeBeside
<1> QED BY <1>1, <1>3 DEF CascadeInv, Outstanding

LEMMA LeaveKeeps ==
  ASSUME CascadeTypeOK, CascadeInv, NEW p \in Local, Leave(p)
  PROVE  CascadeInv'
<1> DEFINE ps == Machine!WithoutEntries({p})
<1>1. /\ Machine!TryUpdateClock(ps, child_regulator, child_real_time)
      /\ UNCHANGED root /\ ~ Waiting(p)
  BY DEF Leave, Machine!Unregister
<1>2. /\ DOMAIN ps = DOMAIN child_participants \ {p}
      /\ \A q \in DOMAIN ps : ps[q] = child_participants[q]
  BY DEF Machine!WithoutEntries, Machine!Restrict, Restrict
<1>3. child_regulator \in Nat /\ child_regulator <= child_time + Step
      /\ DOMAIN child_participants \subseteq Local
  BY Naturals DEF CascadeInv
<1> HIDE DEF ps
<1>4. \A q \in Local : Waiting(q) => q \in DOMAIN ps /\ ps[q].has_new_request
  BY <1>1, <1>2 DEF Waiting, Registered
<1> QED BY <1>1, <1>2, <1>3, <1>4, LocalStep

LEMMA ChildTickKeeps ==
  ASSUME CascadeTypeOK, CascadeInv, ChildTick
  PROVE  CascadeInv'
<1>1. /\ Machine!TryUpdateClock(child_participants, Machine!RegulatorTarget, child_real_time)
      /\ UNCHANGED root
  BY DEF ChildTick, Machine!RegulatorTick
<1>2. Machine!RegulatorTarget \in Nat /\ Machine!RegulatorTarget <= child_time + Step
  BY Naturals, CascadeAssumption DEF Machine!RegulatorTarget, CascadeInv
<1>3. \A q \in Local : Waiting(q) => q \in DOMAIN child_participants
                                     /\ child_participants[q].has_new_request
  BY DEF Waiting, Registered
<1> QED BY <1>1, <1>2, <1>3, Naturals, LocalStep
-----------------------------------------------------------------------------
(* The steps between the coordinators and of the root.                     *)

\* What is still outstanding is safe while nothing changes at the child's
\* participants and clock.
LEMMA ChildUnchanged ==
  ASSUME UNCHANGED <<child_time, child_participants>>, NEW x, Safe(x)
  PROVE  Safe(x)'
BY DEF Safe, NotPast, Waiting, Registered

\* A step that takes no value that was not outstanding, and advances the root
\* no further than to one that was.
LEMMA RootMoves ==
  ASSUME CascadeTypeOK, CascadeInv,
         UNCHANGED <<child_time, child_participants, child_regulator>>,
         root_time' \in Nat, root_time' >= root_time,
         root_time' = root_time \/ \E y \in Outstanding : root_time' <= y,
         \A x \in Range(root_publish_tasks') : x \in Range(root_publish_tasks) \/ x = root_time',
         root_participants'[Child].request_time_ns \in Outstanding,
         Range(child_announce_tasks') \subseteq Outstanding
  PROVE  CascadeInv'
<1>1. Safe(root_time')
  <2>1. CASE root_time' = root_time
    BY <2>1 DEF CascadeInv, Outstanding
  <2>2. ASSUME NEW y \in Outstanding, root_time' <= y
        PROVE  Safe(root_time')
    BY <2>2, Naturals, SafeEarlier DEF CascadeInv
  <2> QED BY <2>1, <2>2
<1>2. \A x \in Outstanding' : x \in Outstanding \/ x = root_time'
  BY DEF Outstanding
<1>3. \A x \in Outstanding' : Safe(x)
  BY <1>1, <1>2 DEF CascadeInv
<1>4. ASSUME NEW x \in Outstanding'
      PROVE  Safe(x)'
  BY <1>3, ChildUnchanged
<1>5. \A x \in Range(root_publish_tasks') : x <= root_time'
  <2>1. \A x \in Range(root_publish_tasks) : x \in Nat /\ x <= root_time
    BY Naturals DEF CascadeInv, Outstanding
  <2> QED BY <2>1, Naturals
<1>6. child_time' <= root_time' /\ child_regulator' <= child_time' + Step
  BY Naturals DEF CascadeInv
<1> QED BY <1>4, <1>5, <1>6 DEF CascadeInv

\* What is appended to the root's publish queue is its time.
LEMMA PublishedTimes ==
  ASSUME CascadeTypeOK, NEW t \in Nat,
         \/ UNCHANGED root_publish_tasks
         \/ root_publish_tasks' = Append(root_publish_tasks, t)
  PROVE  \A x \in Range(root_publish_tasks') : x \in Range(root_publish_tasks) \/ x = t
<1>1. root_publish_tasks \in Seq(Nat)
  BY Naturals
<1>2. Range(Append(root_publish_tasks, t)) = Range(root_publish_tasks) \cup {t}
  BY <1>1, RangeAppend
<1> QED BY <1>2

\* The child's next safe time reaches the root, and may take it there.
LEMMA AnnounceToRootKeeps ==
  ASSUME CascadeTypeOK, CascadeInv, AnnounceToRoot
  PROVE  CascadeInv'
<1> DEFINE t == Head(child_announce_tasks)
<1>1. /\ child_announce_tasks # <<>> /\ child_announce_tasks' = Tail(child_announce_tasks)
      /\ UNCHANGED <<child_time, child_participants, child_regulator>>
      /\ Root!Announce(Child, t)
  BY DEF AnnounceToRoot, Machine!AnnounceWorker, Machine!pacing
<1>2. child_announce_tasks \in Seq(Nat)
  BY Naturals
<1>3. t \in Outstanding /\ Range(child_announce_tasks') \subseteq Outstanding
  BY <1>1, <1>2, RangeTail DEF Outstanding
<1>4. t \in Root!Time
  BY AnnouncedTime
<1> HIDE DEF t
<1>5. /\ root_participants'[Child].request_time_ns = t
      /\ \/ UNCHANGED <<root_time, root_publish_tasks>>
         \/ /\ root_time' > root_time /\ root_time' <= t
            /\ root_publish_tasks' = Append(root_publish_tasks, root_time')
  BY <1>1, <1>4, RootAnnounce
<1>6. root_time' \in Nat
  BY CascadeTypeStep DEF CascadeNext, CascadeTypeOK, Root!TypeOK, Root!Time
<1>7. \A x \in Range(root_publish_tasks') : x \in Range(root_publish_tasks) \/ x = root_time'
  BY <1>5, <1>6, PublishedTimes
<1> QED BY <1>1, <1>3, <1>5, <1>6, <1>7, Naturals, RootMoves

LEMMA RootTickKeeps ==
  ASSUME CascadeTypeOK, CascadeInv, RootTick
  PROVE  CascadeInv'
<1>1. /\ UNCHANGED <<child_time, child_participants, child_regulator, child_announce_tasks>>
      /\ Root!RegulatorTick
  BY DEF RootTick, child
<1>2. /\ root_participants'[Child].request_time_ns = root_participants[Child].request_time_ns
      /\ \/ UNCHANGED <<root_time, root_publish_tasks>>
         \/ /\ root_time' > root_time
            /\ root_time' <= root_participants[Child].request_time_ns
            /\ root_publish_tasks' = Append(root_publish_tasks, root_time')
  BY <1>1, RootTicks
<1>3. root_time' \in Nat
  BY CascadeTypeStep DEF CascadeNext, CascadeTypeOK, Root!TypeOK, Root!Time
<1>4. \A x \in Range(root_publish_tasks') : x \in Range(root_publish_tasks) \/ x = root_time'
  BY <1>2, <1>3, PublishedTimes
<1>5. root_participants[Child].request_time_ns \in Outstanding
      /\ Range(child_announce_tasks) \subseteq Outstanding
  BY DEF Outstanding
<1> QED BY <1>1, <1>2, <1>3, <1>4, <1>5, Naturals, RootMoves

LEMMA RootStatusTickKeeps ==
  ASSUME CascadeTypeOK, CascadeInv, RootStatusTick
  PROVE  CascadeInv'
<1>1. /\ UNCHANGED <<child_time, child_participants, child_regulator, child_announce_tasks,
                     root_time, root_participants>>
      /\ root_publish_tasks' = Append(root_publish_tasks, root_time)
  BY DEF RootStatusTick, Root!ClockStatusTick, Root!PublishClock, child
<1>2. \A x \in Range(root_publish_tasks') : x \in Range(root_publish_tasks) \/ x = root_time'
  BY <1>1, Naturals, PublishedTimes
<1>3. root_participants[Child].request_time_ns \in Outstanding
      /\ Range(child_announce_tasks) \subseteq Outstanding
  BY DEF Outstanding
<1> QED BY <1>1, <1>2, <1>3, Naturals, RootMoves

\* A grant leaves the root's queue: lost, or dropped by the child as outdated.
LEMMA DropKeeps ==
  ASSUME CascadeTypeOK, CascadeInv, Root!PublishWorker, UNCHANGED child
  PROVE  CascadeInv'
<1>1. /\ UNCHANGED <<child_time, child_participants, child_regulator, child_announce_tasks,
                     root_time, root_participants>>
      /\ root_publish_tasks # <<>> /\ root_publish_tasks' = Tail(root_publish_tasks)
  BY DEF Root!PublishWorker, child
<1>2. root_publish_tasks \in Seq(Nat)
  BY Naturals
<1>3. Range(root_publish_tasks') \subseteq Range(root_publish_tasks)
  BY <1>1, <1>2, RangeTail
<1>4. root_participants[Child].request_time_ns \in Outstanding
      /\ Range(child_announce_tasks) \subseteq Outstanding
  BY DEF Outstanding
<1> QED BY <1>1, <1>3, <1>4, Naturals, RootMoves

\* What a delivered grant does at the child.
LEMMA Granted ==
  ASSUME CascadeTypeOK, CascadeInv, Root!PublishWorker,
         Machine!ReceiveParentGrant(Head(root_publish_tasks))
  PROVE  /\ child_time' = Head(root_publish_tasks) /\ child_time' > child_time
         /\ child_time' \in Outstanding /\ child_time' <= root_time
         /\ child_participants' = Machine!Served(child_participants, child_time')
         /\ UNCHANGED <<child_regulator, child_announce_tasks, root_time, root_participants>>
         /\ Range(root_publish_tasks') \subseteq Range(root_publish_tasks)
<1>1. /\ root_publish_tasks # <<>> /\ root_publish_tasks' = Tail(root_publish_tasks)
      /\ UNCHANGED <<root_time, root_participants>>
  BY DEF Root!PublishWorker
<1>2. root_publish_tasks \in Seq(Nat)
  BY Naturals
<1>3. /\ Head(root_publish_tasks) \in Range(root_publish_tasks)
      /\ Range(root_publish_tasks') \subseteq Range(root_publish_tasks)
  BY <1>1, <1>2, RangeTail
<1>4. /\ child_time' = Head(root_publish_tasks) /\ Head(root_publish_tasks) > child_time
      /\ child_participants' = Machine!Served(child_participants, Head(root_publish_tasks))
      /\ UNCHANGED <<child_regulator, child_announce_tasks>>
  BY DEF Machine!ReceiveParentGrant, Machine!pacing
<1> QED BY <1>1, <1>3, <1>4 DEF CascadeInv, Outstanding

LEMMA GrantKeeps ==
  ASSUME CascadeTypeOK, CascadeInv, Root!PublishWorker,
         Machine!ReceiveParentGrant(Head(root_publish_tasks))
  PROVE  CascadeInv'
<1>1. /\ child_time' > child_time
      /\ child_time' \in Outstanding /\ child_time' <= root_time
      /\ child_participants' = Machine!Served(child_participants, child_time')
      /\ UNCHANGED <<child_regulator, child_announce_tasks, root_time, root_participants>>
      /\ Range(root_publish_tasks') \subseteq Range(root_publish_tasks)
  BY Granted
<1>2. child_time' \in Nat
  BY <1>1, Naturals
<1>3. ASSUME NEW x \in Outstanding
      PROVE  Safe(x)'
  <2>1. Safe(x) /\ x \in Nat
    BY Naturals DEF CascadeInv
  <2> DEFINE g == child_time'
  <2>2. g \in Nat /\ g > child_time /\ child_time' = g
        /\ child_participants' = Machine!Served(child_participants, g)
    BY <1>1, <1>2
  <2> HIDE DEF g
  <2> QED BY <2>1, <2>2, SafeAfterGrant
<1>4. \A x \in Outstanding' : x \in Outstanding
  BY <1>1 DEF Outstanding
<1>5. \A x \in Range(root_publish_tasks') : x <= root_time'
  BY <1>1 DEF CascadeInv
<1>6. child_regulator' <= child_time' + Step
  BY <1>1, <1>2, Naturals DEF CascadeInv
<1> QED BY <1>1, <1>3, <1>4, <1>5, <1>6 DEF CascadeInv

-----------------------------------------------------------------------------
(* The theorems.                                                           *)

LEMMA CascadeStepInv ==
  ASSUME CascadeTypeOK, CascadeInv, [CascadeNext]_allvars
  PROVE  CascadeInv'
<1>1. ASSUME NEW p \in Local, Join(p)
      PROVE  CascadeInv'
  BY <1>1, JoinKeeps
<1>2. ASSUME NEW p \in Local, NEW until \in Time, Sleep(p, until)
      PROVE  CascadeInv'
  BY <1>2, LocalAnnounce DEF Sleep, Pinned, Time
<1>3. ASSUME NEW p \in Local, Pin(p)
      PROVE  CascadeInv'
  BY <1>3, LocalAnnounce, Naturals DEF Pin, Waiting
<1>4. ASSUME NEW p \in Local, Leave(p)
      PROVE  CascadeInv'
  BY <1>4, LeaveKeeps
<1>5. CASE AnnounceToRoot \/ RootTick \/ RootStatusTick \/ ChildTick
  BY <1>5, AnnounceToRootKeeps, RootTickKeeps, RootStatusTickKeeps, ChildTickKeeps
<1>6. CASE DeliverGrant \/ LoseGrant
  BY <1>6, GrantKeeps, DropKeeps DEF DeliverGrant, LoseGrant
<1>7. CASE UNCHANGED <<root_time, root_participants, root_publish_tasks, child_time,
                       child_participants, child_regulator, child_announce_tasks>>
  BY <1>7 DEF CascadeInv, Outstanding, Safe, NotPast, Waiting, Registered
<1>8. ASSUME NEW value \in RunningValues, RootPause(value)
      PROVE  CascadeInv'
  BY <1>7, <1>8 DEF RootPause, Root!SetRunning, child
<1>9. CASE ChildStatusTick \/ ChildPublish \/ UNCHANGED allvars
  BY <1>7, <1>9 DEF ChildStatusTick, ChildPublish, Machine!ClockStatusTick,
                    Machine!PublishWorker, Machine!pacing, root, child, allvars
<1> QED BY <1>1, <1>2, <1>3, <1>4, <1>5, <1>6, <1>8, <1>9 DEF CascadeNext

LEMMA CascadeInitInv == CascadeInit => CascadeInv
<1> SUFFICES ASSUME CascadeInit PROVE CascadeInv
  OBVIOUS
<1>1. /\ root_time = 0 /\ child_time = 0 /\ child_regulator = 0
      /\ root_publish_tasks = <<0>> /\ child_announce_tasks = <<0>>
  BY DEF CascadeInit, Root!Started, Machine!Init, Machine!Started
<1>2. root_participants[Child].request_time_ns = 0
  BY DEF CascadeInit, Root!NewParticipant
<1>3. Range(root_publish_tasks) = {0} /\ Range(child_announce_tasks) = {0}
  BY <1>1 DEF Range
<1>4. Outstanding = {0}
  BY <1>1, <1>2, <1>3 DEF Outstanding
<1>5. Safe(0)
  BY <1>1, CascadeAssumption DEF Safe
<1> QED BY <1>1, <1>3, <1>4, <1>5, CascadeAssumption DEF CascadeInv

\* Whatever is on its way between the coordinators is safe for the child.
THEOREM OnlySafeTimesTravel == CascadeSpec => []CascadeInv
<1>1. CascadeTypeOK /\ CascadeTypeOK' /\ CascadeInv /\ [CascadeNext]_allvars => CascadeInv'
  BY CascadeStepInv
<1> QED BY <1>1, CascadeInitInv, CascadeTypeCorrect, PTL DEF CascadeSpec

\* The child's clock is never ahead of the root's and never more than one
\* regulator step behind it.
THEOREM ChildStaysWithRoot == CascadeSpec => []ChildFollowsRoot
<1>1. CascadeInv => ChildFollowsRoot
  BY DEF CascadeInv, Outstanding, Safe, ChildFollowsRoot
<1> QED BY <1>1, OnlySafeTimesTravel, PTL

\* No grant takes a local sleeper past the time it has announced.
THEOREM GrantsOvertakeNobody == CascadeSpec => SleepersNotOvertaken
<1> DEFINE Kept == child_time' > child_time =>
                     \A p \in DOMAIN child_participants \ (Repinning \cup LateJoiners) :
                       NotPast(p, child_time')
<1>1. ASSUME CascadeTypeOK, CascadeInv, [CascadeNext]_allvars
      PROVE  [Kept]_allvars
  <2>1. CASE DeliverGrant \/ LoseGrant
    <3>1. CASE Root!PublishWorker /\ Machine!ReceiveParentGrant(Head(root_publish_tasks))
      BY <1>1, <3>1, Granted DEF CascadeInv, Safe
    <3>2. CASE UNCHANGED child
      BY <1>1, <3>2, Naturals DEF child
    <3> QED BY <2>1, <3>1, <3>2 DEF DeliverGrant, LoseGrant
  <2>2. CASE child_time' = child_time
    BY <1>1, <2>2, Naturals
  <2>3. ASSUME NEW p \in Local, Join(p) \/ (\E until \in Time : Sleep(p, until))
                                \/ Pin(p) \/ Leave(p)
        PROVE  child_time' = child_time
    BY <2>3 DEF Join, Sleep, Pin, Leave, Machine!Register, Machine!Announce, Machine!Unregister,
                Machine!TryUpdateClock, Machine!AdvanceTime
  <2>4. CASE AnnounceToRoot \/ ChildTick \/ ChildStatusTick \/ ChildPublish
    BY <2>2, <2>4 DEF AnnounceToRoot, ChildTick, ChildStatusTick, ChildPublish,
                 Machine!AnnounceWorker, Machine!RegulatorTick, Machine!TryUpdateClock,
                 Machine!AdvanceTime, Machine!ClockStatusTick, Machine!PublishWorker
  <2>5. CASE UNCHANGED child
    BY <2>2, <2>5 DEF child
  <2> QED BY <1>1, <2>1, <2>2, <2>3, <2>4, <2>5
          DEF CascadeNext, RootTick, RootStatusTick, RootPause, allvars
<1> QED BY <1>1, OnlySafeTimesTravel, CascadeTypeCorrect, PTL
        DEF CascadeSpec, SleepersNotOvertaken

-----------------------------------------------------------------------------
(* The child as a coordinator: what TimeCoordinator shows of a coordinator *)
(* under a parent that grants anything holds of it in the cascade.         *)

\* In the cascade, too, the child is a coordinator.
THEOREM ChildImplementsCoordinator == CascadeSpec => Machine!Spec
<1>1. CascadeInit => Machine!Init
  BY DEF CascadeInit
<1>2. CascadeTypeOK /\ [CascadeNext]_allvars => [Machine!Next]_(Machine!vars)
  BY MachineStep
<1> QED BY <1>1, <1>2, CascadeTypeCorrect, PTL DEF CascadeSpec, Machine!Spec

\* The two instances for the child say the same.
LEMMA MachineOwed == Machine!NoGrantOwed <=> MachineFacts!NoGrantOwed
BY DEF Machine!NoGrantOwed, MachineFacts!NoGrantOwed

\* A local thread whose request is no longer new has got the time it asked for,
\* although the grant came from the root (receive_parent_grant).
THEOREM ChildOwesNothing == CascadeSpec => []Machine!NoGrantOwed
<1>1. CascadeInit => Machine!NoGrantOwed
  BY DEF CascadeInit, Machine!Init, Machine!NoGrantOwed
<1>2. ASSUME CascadeTypeOK, Machine!NoGrantOwed, [CascadeNext]_allvars
      PROVE  Machine!NoGrantOwed'
  <2>1. MachineFacts!TypeOK /\ MachineFacts!NoGrantOwed /\ [MachineFacts!Next]_(MachineFacts!vars)
    BY <1>2, MachineStep, MachineSteps, MachineTypes, MachineOwed DEF CascadeTypeOK
  <2>2. MachineFacts!NoGrantOwed'
    BY <2>1, MachineFacts!StepServes, MachineAssumptions
  <2>3. Machine!NoGrantOwed' <=> MachineFacts!NoGrantOwed'
    BY MachineOwed, PTL
  <2> QED BY <2>2, <2>3
<1> QED BY <1>1, <1>2, CascadeTypeCorrect, PTL DEF CascadeSpec

-----------------------------------------------------------------------------
(* Refinement: to its sleeping threads the machine, too, has the clock of  *)
(* LockStepClock, although two coordinators and a lossy channel make it.   *)

Sleepers == Local \ (Repinning \cup LateJoiners)
Wakes == [p \in DOMAIN child_participants \cap Sleepers |-> child_participants[p].request_time_ns]

Clock == INSTANCE LockStepClock WITH
  Threads <- Sleepers, time <- child_time, wakes <- Wakes

\* A step at which no sleeper comes, goes or chooses a time is a stutter or the
\* advance of the clock.
LEMMA ClockAdvances ==
  ASSUME CascadeTypeOK, CascadeTypeOK', Wakes' = Wakes,
         child_time' # child_time => child_time' > child_time,
         child_time' > child_time =>
           \A p \in DOMAIN child_participants \ (Repinning \cup LateJoiners) :
             NotPast(p, child_time')
  PROVE  [Clock!Next]_(Clock!vars)
<1>1. CASE child_time' = child_time
  BY <1>1 DEF Clock!vars
<1>2. CASE child_time' # child_time
  <2>1. child_time' \in Clock!Time
    BY DEF CascadeTypeOK, Machine!TypeOK, Machine!Time, Clock!Time
  <2>2. \A p \in DOMAIN Wakes : child_time' <= Wakes[p]
    BY <1>2 DEF Wakes, Sleepers, NotPast
  <2>3. Clock!Advance(child_time')
    BY <1>2, <2>2 DEF Clock!Advance
  <2> QED BY <2>1, <2>3 DEF Clock!Next
<1> QED BY <1>1, <1>2

\* What a clock update at the child leaves of a participant map.
LEMMA MachineKeeps ==
  ASSUME CascadeTypeOK, CascadeInv, NEW ps, DOMAIN ps \subseteq Local,
         Machine!TryUpdateClock(ps, child_regulator, child_real_time)
  PROVE  child_participants' = ps /\ child_time' = child_time
BY Naturals, MachineUpdate DEF CascadeInv

LEMMA JoinRefines ==
  ASSUME CascadeTypeOK, CascadeTypeOK', NEW p \in Local, Join(p)
  PROVE  [Clock!Next]_(Clock!vars)
<1> DEFINE e == [Machine!Entry(p) EXCEPT !.silent = FALSE]
<1>1. /\ child_time' = child_time /\ p \notin DOMAIN child_participants
      /\ child_participants' = Machine!WithEntry(p, e)
  BY DEF Join, Machine!Register, Registered
<1>2. e.request_time_ns = 0
  BY <1>1 DEF Machine!Entry, Machine!NewParticipant
<1> HIDE DEF e
<1>3. /\ DOMAIN child_participants' = DOMAIN child_participants \cup {p}
      /\ child_participants'[p].request_time_ns = 0
      /\ \A q \in DOMAIN child_participants : child_participants'[q] = child_participants[q]
  BY <1>1, <1>2 DEF Machine!WithEntry
<1>4. CASE p \in Sleepers
  <2>1. Wakes' = [q \in DOMAIN Wakes \cup {p} |-> IF q = p THEN 0 ELSE Wakes[q]]
    BY <1>1, <1>3, <1>4 DEF Wakes
  <2>2. 0 \in 0 .. child_time /\ p \notin DOMAIN Wakes
    BY <1>1, Naturals DEF Wakes
  <2> QED BY <1>1, <1>4, <2>1, <2>2 DEF Clock!Join, Clock!Next
<1>5. CASE p \notin Sleepers
  <2>1. Wakes' = Wakes
    BY <1>3, <1>5 DEF Wakes
  <2> QED BY <1>1, <2>1, Naturals, ClockAdvances
<1> QED BY <1>4, <1>5

\* A sleeper that announces was awake: its last request was reached.
LEMMA AnnounceRefines ==
  ASSUME CascadeTypeOK, CascadeTypeOK', CascadeInv, Machine!NoGrantOwed,
         NEW p \in Local, NEW t \in Time, Registered(p), Machine!Announce(p, t),
         p \in Repinning \/ ~ Waiting(p)
  PROVE  [Clock!Next]_(Clock!vars)
<1> DEFINE e == [Machine!Entry(p) EXCEPT !.request_time_ns = t, !.has_new_request = TRUE,
                                         !.silent = FALSE]
           ps == Machine!WithEntry(p, e)
<1>1. Machine!TryUpdateClock(ps, child_regulator, child_real_time)
  BY DEF Machine!Announce
<1>2. e.request_time_ns = t
  <2>1. Machine!Entry(p) \in Machine!ParticipantState
    BY Naturals DEF Machine!Entry, Registered
  <2> QED BY <2>1 DEF Machine!ParticipantState
<1> HIDE DEF e
<1>3. /\ DOMAIN ps = DOMAIN child_participants
      /\ \A q \in DOMAIN child_participants :
           ps[q] = IF q = p THEN e ELSE child_participants[q]
  BY DEF Machine!WithEntry, Registered
<1> HIDE DEF ps
<1>4. child_participants' = ps /\ child_time' = child_time
  BY <1>1, <1>3, Naturals, MachineKeeps
<1>5. CASE p \in Sleepers
  <2>1. p \in DOMAIN Wakes /\ Wakes[p] <= child_time
    BY <1>5 DEF Wakes, Sleepers, Waiting, Registered, Machine!NoGrantOwed
  <2>2. Wakes' = [Wakes EXCEPT ![p] = t]
    BY <1>2, <1>3, <1>4, <1>5 DEF Wakes
  <2>3. t \in Clock!Time
    BY DEF Time, Clock!Time
  <2> QED BY <1>4, <1>5, <2>1, <2>2, <2>3 DEF Clock!Sleep, Clock!Next
<1>6. CASE p \notin Sleepers
  <2>1. Wakes' = Wakes
    BY <1>3, <1>4, <1>6 DEF Wakes
  <2> QED BY <1>4, <2>1, Naturals, ClockAdvances
<1> QED BY <1>5, <1>6

LEMMA LeaveRefines ==
  ASSUME CascadeTypeOK, CascadeTypeOK', CascadeInv, NEW p \in Local, Leave(p)
  PROVE  [Clock!Next]_(Clock!vars)
<1> DEFINE ps == Machine!WithoutEntries({p})
<1>1. Machine!TryUpdateClock(ps, child_regulator, child_real_time) /\ Registered(p)
  BY DEF Leave, Machine!Unregister
<1>2. /\ DOMAIN ps = DOMAIN child_participants \ {p}
      /\ \A q \in DOMAIN ps : ps[q] = child_participants[q]
  BY DEF Machine!WithoutEntries, Machine!Restrict, Restrict
<1> HIDE DEF ps
<1>3. child_participants' = ps /\ child_time' = child_time
  BY <1>1, <1>2, Naturals, MachineKeeps
<1>4. CASE p \in Sleepers
  <2>1. p \in DOMAIN Wakes
    BY <1>1, <1>4 DEF Wakes, Registered
  <2>2. Wakes' = [q \in DOMAIN Wakes \ {p} |-> Wakes[q]]
    BY <1>2, <1>3 DEF Wakes
  <2> QED BY <1>3, <1>4, <2>1, <2>2 DEF Clock!Leave, Clock!Restrict, Clock!Next
<1>5. CASE p \notin Sleepers
  <2>1. Wakes' = Wakes
    BY <1>2, <1>3, <1>5 DEF Wakes
  <2> QED BY <1>3, <2>1, Naturals, ClockAdvances
<1> QED BY <1>4, <1>5

\* Every step of the cascade is a step of the machine's clock.
LEMMA CascadeRefines ==
  ASSUME CascadeTypeOK, CascadeTypeOK', CascadeInv, Machine!NoGrantOwed, [CascadeNext]_allvars
  PROVE  [Clock!Next]_(Clock!vars)
<1>1. ASSUME NEW p \in Local, Join(p)
      PROVE  [Clock!Next]_(Clock!vars)
  BY <1>1, JoinRefines
<1>2. ASSUME NEW p \in Local, NEW until \in Time, Sleep(p, until)
      PROVE  [Clock!Next]_(Clock!vars)
  BY <1>2, AnnounceRefines DEF Sleep, Pinned
<1>3. ASSUME NEW p \in Local, Pin(p)
      PROVE  [Clock!Next]_(Clock!vars)
  <2>1. child_time \in Time
    BY DEF CascadeTypeOK, Machine!TypeOK, Machine!Time, Time
  <2> QED BY <1>3, <2>1, AnnounceRefines DEF Pin, Waiting
<1>4. ASSUME NEW p \in Local, Leave(p)
      PROVE  [Clock!Next]_(Clock!vars)
  BY <1>4, LeaveRefines
<1>5. CASE UNCHANGED <<child_time, child_participants>>
  BY <1>5, Naturals, ClockAdvances DEF Wakes
<1>6. CASE ChildTick
  <2>1. Machine!TryUpdateClock(child_participants, Machine!RegulatorTarget, child_real_time)
    BY <1>6 DEF ChildTick, Machine!RegulatorTick
  <2>2. UNCHANGED <<child_time, child_participants>>
    BY <2>1 DEF Machine!TryUpdateClock, Machine!AdvanceTime
  <2> QED BY <1>5, <2>2
<1>7. CASE AnnounceToRoot \/ ChildStatusTick \/ ChildPublish \/ RootTick \/ RootStatusTick
           \/ (\E value \in RunningValues : RootPause(value)) \/ UNCHANGED allvars
  BY <1>5, <1>7 DEF AnnounceToRoot, Machine!AnnounceWorker, ChildStatusTick, ChildPublish,
                    Machine!ClockStatusTick, Machine!PublishWorker, RootTick, RootStatusTick,
                    RootPause, child, allvars
<1>8. CASE DeliverGrant \/ LoseGrant
  <2>1. CASE Root!PublishWorker /\ Machine!ReceiveParentGrant(Head(root_publish_tasks))
    <3>1. /\ child_time' > child_time /\ child_time' \in Outstanding
          /\ child_participants' = Machine!Served(child_participants, child_time')
      BY <2>1, Granted
    <3>2. \A p \in DOMAIN child_participants \ (Repinning \cup LateJoiners) :
            NotPast(p, child_time')
      BY <3>1 DEF CascadeInv, Safe
    <3>3. Wakes' = Wakes
      <4>1. /\ DOMAIN child_participants' = DOMAIN child_participants
            /\ \A p \in DOMAIN child_participants :
                 child_participants'[p].request_time_ns = child_participants[p].request_time_ns
        BY <3>1, Naturals DEF Machine!Served, Machine!ParticipantState
      <4> QED BY <4>1 DEF Wakes
    <3> QED BY <3>1, <3>2, <3>3, ClockAdvances
  <2>2. CASE UNCHANGED child
    BY <1>5, <2>2 DEF child
  <2> QED BY <1>8, <2>1, <2>2 DEF DeliverGrant, LoseGrant
<1> QED BY <1>1, <1>2, <1>3, <1>4, <1>6, <1>7, <1>8 DEF CascadeNext

\* A machine under a root, too, gives its sleeping threads the clock that
\* LockStepClock promises: grants that are lost, repeated or answer an old
\* announcement, executors and late joiners beside them make no difference.
THEOREM CascadeImplementsClock == CascadeSpec => Clock!Spec
<1>1. CascadeInit => Clock!Init
  <2> SUFFICES ASSUME CascadeInit PROVE Clock!Init
    OBVIOUS
  <2>1. child_time = 0 /\ DOMAIN child_participants = {}
    BY DEF CascadeInit, Machine!Init, Machine!Started
  <2> QED BY <2>1 DEF Clock!Init, Wakes
<1>2. CascadeTypeOK /\ CascadeTypeOK' /\ CascadeInv /\ Machine!NoGrantOwed
        /\ [CascadeNext]_allvars => [Clock!Next]_(Clock!vars)
  BY CascadeRefines
<1> QED BY <1>1, <1>2, CascadeTypeCorrect, OnlySafeTimesTravel, ChildOwesNothing, PTL
        DEF CascadeSpec, Clock!Spec

=============================================================================
