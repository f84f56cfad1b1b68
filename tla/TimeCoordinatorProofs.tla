------------------------ MODULE TimeCoordinatorProofs ------------------------
(***************************************************************************)
(* Theorems about TimeCoordinator, for every set of participants, every    *)
(* value of kInfiniteTimeNs and of the regulator step, every factor and    *)
(* both modes, and for unbounded task queues as well as bounded ones (no   *)
(* proof uses MaxTasks).                                                   *)
(***************************************************************************)
EXTENDS TimeCoordinator, TLAPS

-----------------------------------------------------------------------------
(* The participants map.                                                   *)

\* participants_[identity] is a complete entry, found or freshly created.
LEMMA EntryType ==
  ASSUME TypeOK, NEW p \in Participant
  PROVE  Entry(p) \in ParticipantState
<1>1. NewParticipant \in ParticipantState
  BY StepAssumption DEF NewParticipant, ParticipantState, Time
<1>2. QED
  BY <1>1 DEF TypeOK, IsParticipantMap, Entry

\* Writing one complete entry keeps the map well formed.
LEMMA WithEntryType ==
  ASSUME TypeOK, NEW p \in Participant, NEW state \in ParticipantState
  PROVE  IsParticipantMap(WithEntry(p, state))
BY DEF TypeOK, IsParticipantMap, WithEntry

\* Erasing entries keeps the map well formed.
LEMMA WithoutEntriesType ==
  ASSUME TypeOK, NEW gone
  PROVE  IsParticipantMap(WithoutEntries(gone))
BY DEF TypeOK, IsParticipantMap, WithoutEntries, Restrict

\* Clearing the flags of served requests keeps the map well formed and leaves
\* its identities and its requests as they are.
LEMMA ServedType ==
  ASSUME NEW ps, IsParticipantMap(ps), NEW t \in Time
  PROVE  /\ IsParticipantMap(Served(ps, t))
         /\ DOMAIN Served(ps, t) = DOMAIN ps
         /\ \A p \in DOMAIN ps :
              /\ Served(ps, t)[p].request_time_ns = ps[p].request_time_ns
              /\ Served(ps, t)[p].has_new_request =
                   (ps[p].has_new_request /\ ps[p].request_time_ns > t)
<1> DEFINE S == Served(ps, t)
<1>1. DOMAIN S = DOMAIN ps
  BY DEF Served
<1>2. ASSUME NEW p \in DOMAIN ps
      PROVE  /\ S[p] \in ParticipantState
             /\ S[p].request_time_ns = ps[p].request_time_ns
             /\ S[p].has_new_request =
                  (ps[p].has_new_request /\ ps[p].request_time_ns > t)
  <2>1. ps[p] \in ParticipantState
    BY DEF IsParticipantMap
  <2>2. S[p] = [ps[p] EXCEPT !.has_new_request =
                  ps[p].has_new_request /\ ps[p].request_time_ns > t]
    BY DEF Served
  <2>3. (ps[p].has_new_request /\ ps[p].request_time_ns > t) \in BOOLEAN
    OBVIOUS
  <2>4. QED
    BY <2>1, <2>2, <2>3 DEF ParticipantState
<1>3. S \in [DOMAIN ps -> ParticipantState]
  BY <1>1, <1>2 DEF Served
<1>4. QED
  BY <1>1, <1>2, <1>3 DEF IsParticipantMap

-----------------------------------------------------------------------------
(* The clock update.                                                       *)

\* A target that should_advance returns is a point of simulation time beyond
\* the current one, and the pace allows it.
LEMMA ShouldAdvanceTarget ==
  ASSUME TypeOK, NEW ps, NEW reg \in Time, NEW rt \in Time, NEW t \in Time,
         ShouldAdvance(ps, reg, rt, t)
  PROVE  /\ t > sim_time_ns
         /\ ~ FollowsRealTime => t <= reg
BY DEF ShouldAdvance, RealTimeAhead, Requests, TypeOK, Time

\* A handler that ends in try_update_clock_locked leaves a well-typed state.
LEMMA TryUpdateClockType ==
  ASSUME TypeOK, NEW ps, IsParticipantMap(ps), NEW reg \in Time, NEW rt \in Time,
         TryUpdateClock(ps, reg, rt), UNCHANGED <<control, published_ns>>
  PROVE  TypeOK'
<1>1. CASE /\ participants' = ps
           /\ UNCHANGED <<sim_time_ns, publish_tasks, announce_tasks>>
  BY <1>1 DEF TypeOK, TryUpdateClock, IsParticipantMap, control
<1>2. ASSUME NEW t \in Time, AdvanceTime(ps, t)
      PROVE  TypeOK'
  <2>1. CASE HasParent
    BY <1>2, <2>1 DEF TypeOK, TryUpdateClock, AdvanceTime, IsParticipantMap, control
  <2>2. CASE ~ HasParent
    <3>1. IsParticipantMap(participants)'
      BY <1>2, <2>2, ServedType DEF AdvanceTime, IsParticipantMap
    <3>2. sim_time_ns' \in Time /\ publish_tasks' \in Seq(Time)
      BY <1>2, <2>2 DEF TypeOK, AdvanceTime, PublishClock
    <3>3. UNCHANGED announce_tasks
      BY <1>2, <2>2 DEF AdvanceTime
    <3>4. QED
      BY <3>1, <3>2, <3>3 DEF TypeOK, TryUpdateClock, control
  <2>3. QED
    BY <2>1, <2>2
<1>3. QED
  BY <1>1, <1>2 DEF TryUpdateClock

\* A clock update neither removes participants nor changes what they have asked
\* for, and it never takes the clock back.
LEMMA TryUpdateClockKeeps ==
  ASSUME TypeOK, NEW ps, IsParticipantMap(ps), NEW reg, NEW rt,
         TryUpdateClock(ps, reg, rt)
  PROVE  /\ sim_time_ns <= sim_time_ns'
         /\ DOMAIN participants' = DOMAIN ps
         /\ \A p \in DOMAIN ps :
              /\ participants'[p].request_time_ns = ps[p].request_time_ns
              /\ participants'[p].silent = ps[p].silent
              /\ participants'[p].follows_real_time = ps[p].follows_real_time
<1>1. CASE participants' = ps /\ UNCHANGED sim_time_ns
  BY <1>1 DEF TypeOK, Time
<1>2. ASSUME NEW t \in Time, ShouldAdvance(ps, reg, rt, t),
             sim_time_ns' = t, participants' = Served(ps, t)
      PROVE  /\ sim_time_ns <= sim_time_ns'
             /\ DOMAIN participants' = DOMAIN ps
             /\ \A p \in DOMAIN ps :
                  /\ participants'[p].request_time_ns = ps[p].request_time_ns
                  /\ participants'[p].silent = ps[p].silent
                  /\ participants'[p].follows_real_time = ps[p].follows_real_time
  <2>1. t > sim_time_ns
    BY <1>2 DEF ShouldAdvance, RealTimeAhead
  <2>2. ASSUME NEW p \in DOMAIN ps
        PROVE  /\ participants'[p].request_time_ns = ps[p].request_time_ns
               /\ participants'[p].silent = ps[p].silent
               /\ participants'[p].follows_real_time = ps[p].follows_real_time
    <3>1. ps[p] \in ParticipantState
      BY DEF IsParticipantMap
    <3>2. participants'[p] =
            [ps[p] EXCEPT !.has_new_request =
               ps[p].has_new_request /\ ps[p].request_time_ns > t]
      BY <1>2 DEF Served
    <3>3. QED
      BY <3>1, <3>2 DEF ParticipantState
  <2>3. DOMAIN participants' = DOMAIN ps
    BY <1>2 DEF Served
  <2>4. QED
    BY <1>2, <2>1, <2>2, <2>3 DEF TypeOK, Time
<1>3. QED
  BY <1>1, <1>2 DEF TryUpdateClock, AdvanceTime

\* The regulator's target is a point of simulation time: the saturation at
\* kInfiniteTimeNs keeps the sum in range.
LEMMA RegulatorTargetType ==
  ASSUME TypeOK
  PROVE  RegulatorTarget \in Time
BY StepAssumption DEF TypeOK, RegulatorTarget, Time

\* So does the saturation of the wall-clock floor.
LEMMA RealTimeRequestType ==
  ASSUME TypeOK, NEW wall_dt \in WallSteps
  PROVE  RealTimeRequest(wall_dt) \in Time
BY StepAssumption, WallAssumption DEF TypeOK, RealTimeRequest, Time

-----------------------------------------------------------------------------
(* Type correctness.                                                       *)

\* Every step of the coordinator preserves the types.
LEMMA StepType ==
  ASSUME TypeOK, [Next]_vars
  PROVE  TypeOK'
<1>1. ASSUME NEW p \in Participant, Register(p)
      PROVE  TypeOK'
  <2>1. [Entry(p) EXCEPT !.silent = FALSE] \in ParticipantState
    BY EntryType DEF ParticipantState
  <2>2. IsParticipantMap(participants)'
    BY <1>1, <2>1, WithEntryType DEF Register, IsParticipantMap
  <2>3. QED
    BY <1>1, <2>2 DEF Register, TypeOK, pacing, control
<1>2. ASSUME NEW p \in Participant, NEW r \in Time, Announce(p, r)
      PROVE  TypeOK'
  <2> DEFINE e == [Entry(p) EXCEPT !.request_time_ns = r, !.has_new_request = TRUE,
                                   !.silent = FALSE]
  <2>1. e \in ParticipantState
    BY EntryType DEF ParticipantState
  <2>2. IsParticipantMap(WithEntry(p, e))
    BY <2>1, WithEntryType
  <2>3. TryUpdateClock(WithEntry(p, e), regulator_request_ns, real_time_request_ns)
        /\ UNCHANGED <<control, published_ns>>
    BY <1>2 DEF Announce
  <2>4. regulator_request_ns \in Time /\ real_time_request_ns \in Time
    BY DEF TypeOK
  <2> HIDE DEF e
  <2>5. QED
    BY <2>2, <2>3, <2>4, TryUpdateClockType
<1>3. ASSUME NEW p \in Participant, NEW f \in BOOLEAN, SetFollowsRealTime(p, f)
      PROVE  TypeOK'
  <2> DEFINE e == [Entry(p) EXCEPT !.follows_real_time = f]
  <2>1. e \in ParticipantState
    BY EntryType DEF ParticipantState
  <2>2. IsParticipantMap(WithEntry(p, e))
    BY <2>1, WithEntryType
  <2>3. TryUpdateClock(WithEntry(p, e), regulator_request_ns, real_time_request_ns)
        /\ UNCHANGED <<control, published_ns>>
    BY <1>3 DEF SetFollowsRealTime
  <2>4. regulator_request_ns \in Time /\ real_time_request_ns \in Time
    BY DEF TypeOK
  <2> HIDE DEF e
  <2>5. QED
    BY <2>2, <2>3, <2>4, TryUpdateClockType
<1>4. ASSUME NEW p \in Participant, Unregister(p)
      PROVE  TypeOK'
  BY <1>4, WithoutEntriesType, TryUpdateClockType DEF Unregister, TypeOK
<1>5. CASE RegulatorTick
  BY <1>5, RegulatorTargetType, TryUpdateClockType DEF RegulatorTick, TypeOK
<1>6. ASSUME NEW wall_dt \in WallSteps, RealTimeTick(wall_dt)
      PROVE  TypeOK'
  BY <1>6, RealTimeRequestType, TryUpdateClockType DEF RealTimeTick, TypeOK
<1>7. CASE ClockStatusTick
  BY <1>7 DEF ClockStatusTick, PublishClock, TypeOK, pacing, control
<1>8. ASSUME NEW p \in Participant, FallSilent(p)
      PROVE  TypeOK'
  <2>1. [Entry(p) EXCEPT !.silent = TRUE] \in ParticipantState
    BY EntryType DEF ParticipantState
  <2>2. IsParticipantMap(participants)'
    BY <1>8, <2>1, WithEntryType DEF FallSilent, IsParticipantMap
  <2>3. QED
    BY <1>8, <2>2 DEF FallSilent, TypeOK, pacing, control
<1>9. ASSUME NEW value \in BOOLEAN, SetRunning(value)
      PROVE  TypeOK'
  BY <1>9 DEF SetRunning, ResetPacing, TypeOK
<1>10. ASSUME NEW factor \in RealTimeFactors, SetMaxRealTimeFactor(factor)
       PROVE  TypeOK'
  BY <1>10 DEF SetMaxRealTimeFactor, ResetPacing, TypeOK
<1>11. CASE ClearZombieParticipants
  BY <1>11, WithoutEntriesType, TryUpdateClockType DEF ClearZombieParticipants, TypeOK
<1>12. ASSUME NEW g \in Time, ReceiveParentGrant(g)
       PROVE  TypeOK'
  <2>1. IsParticipantMap(participants)'
    BY <1>12, ServedType DEF ReceiveParentGrant, TypeOK, IsParticipantMap
  <2>2. QED
    BY <1>12, <2>1 DEF ReceiveParentGrant, PublishClock, TypeOK, pacing, control
<1>13. CASE PublishWorker
  BY <1>13 DEF PublishWorker, TypeOK, pacing, control
<1>14. CASE AnnounceWorker
  BY <1>14 DEF AnnounceWorker, TypeOK, pacing, control
<1>15. CASE UNCHANGED vars
  BY <1>15 DEF vars, TypeOK, IsParticipantMap
<1>16. QED
  BY <1>1, <1>2, <1>3, <1>4, <1>5, <1>6, <1>7, <1>8, <1>9, <1>10, <1>11, <1>12,
     <1>13, <1>14, <1>15 DEF Next, Message, Timer, Service, Worker

\* The initial state of start() is well typed.
LEMMA InitType == Init => TypeOK
<1> SUFFICES ASSUME Init PROVE TypeOK
  OBVIOUS
<1>1. IsParticipantMap(participants)
  BY DEF Init, Started, IsParticipantMap
<1>2. 0 \in Time
  BY StepAssumption DEF Time
<1>3. publish_tasks \in Seq(Time) /\ announce_tasks \in Seq(Time)
  BY <1>2 DEF Init, Started
<1>4. QED
  BY <1>1, <1>2, <1>3 DEF Init, Started, TypeOK

\* Every reachable state of the coordinator is well typed.
THEOREM TypeCorrect == Spec => []TypeOK
<1>1. TypeOK /\ [Next]_vars => TypeOK'
  BY StepType
<1>2. QED
  BY InitType, <1>1, PTL DEF Spec

-----------------------------------------------------------------------------
(* No grant is owed.                                                       *)

\* In ps every flag that is down belongs to a request the clock has reached.
ServedUpTo(ps, t) ==
  \A p \in DOMAIN ps : ~ ps[p].has_new_request => ps[p].request_time_ns <= t

\* A handler that ends in try_update_clock_locked owes nothing if it has not
\* itself taken down a flag too early.
LEMMA TryUpdateClockServes ==
  ASSUME TypeOK, NEW ps, IsParticipantMap(ps), ServedUpTo(ps, sim_time_ns),
         NEW reg \in Time, NEW rt \in Time, TryUpdateClock(ps, reg, rt)
  PROVE  NoGrantOwed'
<1>1. CASE participants' = ps /\ UNCHANGED sim_time_ns
  BY <1>1 DEF NoGrantOwed, ServedUpTo
<1>2. ASSUME NEW t \in Time, ShouldAdvance(ps, reg, rt, t), AdvanceTime(ps, t), ~ HasParent
      PROVE  NoGrantOwed'
  <2>1. participants' = Served(ps, t) /\ sim_time_ns' = t
    BY <1>2 DEF AdvanceTime
  <2>2. t > sim_time_ns
    BY <1>2, ShouldAdvanceTarget
  <2>3. \A p \in DOMAIN ps : ps[p].request_time_ns \in Time
    BY DEF IsParticipantMap, ParticipantState
  <2>4. ASSUME NEW p \in DOMAIN ps, ~ Served(ps, t)[p].has_new_request
        PROVE  ps[p].request_time_ns <= t
    <3>1. ~ (ps[p].has_new_request /\ ps[p].request_time_ns > t)
      BY <2>4, ServedType
    <3>2. CASE ~ ps[p].has_new_request
      BY <2>2, <2>3, <3>2 DEF ServedUpTo, TypeOK, Time
    <3>3. QED
      BY <2>3, <3>1, <3>2 DEF Time
  <2>5. DOMAIN Served(ps, t) = DOMAIN ps
        /\ \A p \in DOMAIN ps : Served(ps, t)[p].request_time_ns = ps[p].request_time_ns
    BY ServedType
  <2>6. QED
    BY <2>1, <2>4, <2>5 DEF NoGrantOwed
<1>3. QED
  BY <1>1, <1>2 DEF TryUpdateClock, AdvanceTime

\* Every step keeps the flags honest.
LEMMA StepServes ==
  ASSUME TypeOK, NoGrantOwed, [Next]_vars
  PROVE  NoGrantOwed'
<1> USE DEF NoGrantOwed
<1>0. \A p : Entry(p).has_new_request \/ Entry(p).request_time_ns <= sim_time_ns
  BY DEF Entry, NewParticipant, TypeOK, Time
<1>1. ASSUME NEW p \in Participant, Register(p)
      PROVE  NoGrantOwed'
  <2> DEFINE e == [Entry(p) EXCEPT !.silent = FALSE]
  <2>1. e.has_new_request \/ e.request_time_ns <= sim_time_ns
    BY <1>0, EntryType DEF ParticipantState
  <2>2. participants' = WithEntry(p, e) /\ sim_time_ns' = sim_time_ns
    BY <1>1 DEF Register
  <2> HIDE DEF e
  <2>3. \A q \in DOMAIN WithEntry(p, e) : q = p \/ q \in DOMAIN participants
    BY DEF WithEntry
  <2>4. \A q \in DOMAIN WithEntry(p, e) :
          WithEntry(p, e)[q] = IF q = p THEN e ELSE participants[q]
    BY DEF WithEntry
  <2>5. QED
    BY <2>1, <2>2, <2>3, <2>4
<1>2. ASSUME NEW p \in Participant, NEW r \in Time, Announce(p, r)
      PROVE  NoGrantOwed'
  <2> DEFINE e == [Entry(p) EXCEPT !.request_time_ns = r, !.has_new_request = TRUE,
                                   !.silent = FALSE]
  <2>1. e \in ParticipantState /\ e.has_new_request
    BY EntryType DEF ParticipantState
  <2>2. TryUpdateClock(WithEntry(p, e), regulator_request_ns, real_time_request_ns)
    BY <1>2 DEF Announce
  <2> HIDE DEF e
  <2>3. IsParticipantMap(WithEntry(p, e))
    BY <2>1, WithEntryType
  <2>4. ServedUpTo(WithEntry(p, e), sim_time_ns)
    BY <2>1 DEF ServedUpTo, WithEntry
  <2>5. QED
    BY <2>2, <2>3, <2>4, TryUpdateClockServes DEF TypeOK
<1>3. ASSUME NEW p \in Participant, NEW f \in BOOLEAN, SetFollowsRealTime(p, f)
      PROVE  NoGrantOwed'
  <2> DEFINE e == [Entry(p) EXCEPT !.follows_real_time = f]
  <2>1. e \in ParticipantState /\ (e.has_new_request \/ e.request_time_ns <= sim_time_ns)
    BY <1>0, EntryType DEF ParticipantState
  <2>2. TryUpdateClock(WithEntry(p, e), regulator_request_ns, real_time_request_ns)
    BY <1>3 DEF SetFollowsRealTime
  <2> HIDE DEF e
  <2>3. IsParticipantMap(WithEntry(p, e))
    BY <2>1, WithEntryType
  <2>4. ServedUpTo(WithEntry(p, e), sim_time_ns)
    BY <2>1 DEF ServedUpTo, WithEntry
  <2>5. QED
    BY <2>2, <2>3, <2>4, TryUpdateClockServes DEF TypeOK
<1>4. ASSUME NEW gone, NEW reg \in Time, NEW rt \in Time,
             TryUpdateClock(WithoutEntries(gone), reg, rt)
      PROVE  NoGrantOwed'
  <2>1. ServedUpTo(WithoutEntries(gone), sim_time_ns)
    BY DEF ServedUpTo, WithoutEntries, Restrict
  <2>2. QED
    BY <1>4, <2>1, WithoutEntriesType, TryUpdateClockServes
<1>5. ASSUME NEW p \in Participant, Unregister(p)
      PROVE  NoGrantOwed'
  BY <1>4, <1>5 DEF Unregister, TypeOK
<1>6. CASE ClearZombieParticipants
  BY <1>4, <1>6 DEF ClearZombieParticipants, TypeOK
<1>7. ServedUpTo(participants, sim_time_ns)
  BY DEF ServedUpTo
<1>8. CASE RegulatorTick
  BY <1>7, <1>8, RegulatorTargetType, TryUpdateClockServes DEF RegulatorTick, TypeOK
<1>9. ASSUME NEW wall_dt \in WallSteps, RealTimeTick(wall_dt)
      PROVE  NoGrantOwed'
  BY <1>7, <1>9, RealTimeRequestType, TryUpdateClockServes DEF RealTimeTick, TypeOK
<1>10. ASSUME NEW p \in Participant, FallSilent(p)
       PROVE  NoGrantOwed'
  <2> DEFINE e == [Entry(p) EXCEPT !.silent = TRUE]
  <2>1. e.has_new_request \/ e.request_time_ns <= sim_time_ns
    BY <1>0, EntryType DEF ParticipantState
  <2>2. participants' = WithEntry(p, e) /\ sim_time_ns' = sim_time_ns
    BY <1>10 DEF FallSilent
  <2> HIDE DEF e
  <2>3. \A q \in DOMAIN WithEntry(p, e) : q = p \/ q \in DOMAIN participants
    BY DEF WithEntry
  <2>4. \A q \in DOMAIN WithEntry(p, e) :
          WithEntry(p, e)[q] = IF q = p THEN e ELSE participants[q]
    BY DEF WithEntry
  <2>5. QED
    BY <2>1, <2>2, <2>3, <2>4
<1>11. ASSUME NEW g \in Time, ReceiveParentGrant(g)
       PROVE  NoGrantOwed'
  <2>1. participants' = Served(participants, g) /\ sim_time_ns' = g
    BY <1>11 DEF ReceiveParentGrant
  <2>2. \A p \in DOMAIN participants : participants[p].request_time_ns \in Time
    BY DEF TypeOK, IsParticipantMap, ParticipantState
  <2>3. g > sim_time_ns
    BY <1>11 DEF ReceiveParentGrant
  <2>4. ASSUME NEW p \in DOMAIN participants, ~ Served(participants, g)[p].has_new_request
        PROVE  participants[p].request_time_ns <= g
    <3>1. ~ (participants[p].has_new_request /\ participants[p].request_time_ns > g)
      BY <2>4, ServedType DEF TypeOK
    <3>2. CASE ~ participants[p].has_new_request
      BY <2>2, <2>3, <3>2 DEF TypeOK, Time
    <3>3. QED
      BY <2>2, <3>1, <3>2 DEF Time
  <2>5. DOMAIN Served(participants, g) = DOMAIN participants
        /\ \A p \in DOMAIN participants :
             Served(participants, g)[p].request_time_ns = participants[p].request_time_ns
    BY ServedType DEF TypeOK
  <2>6. QED
    BY <2>1, <2>4, <2>5
<1>12. CASE UNCHANGED <<participants, sim_time_ns>>
  BY <1>12
<1>13. QED
  BY <1>1, <1>2, <1>3, <1>5, <1>6, <1>8, <1>9, <1>10, <1>11, <1>12
     DEF Next, Message, Timer, Service, Worker, ClockStatusTick, SetRunning,
         SetMaxRealTimeFactor, PublishWorker, AnnounceWorker, vars

\* A participant whose flag is down is never left waiting for a grant.
THEOREM NothingOwed == Spec => []NoGrantOwed
<1>1. Init => NoGrantOwed
  BY DEF Init, Started, NoGrantOwed
<1>2. TypeOK /\ NoGrantOwed /\ [Next]_vars => NoGrantOwed'
  BY StepServes
<1>3. QED
  BY TypeCorrect, <1>1, <1>2, PTL DEF Spec

-----------------------------------------------------------------------------
(* Speed.                                                                  *)

\* A clock update stays within the pace the handler leaves behind.
LEMMA TryUpdateClockPace ==
  ASSUME TypeOK, ~ HasParent, NEW ps, NEW reg \in Time, NEW rt \in Time,
         TryUpdateClock(ps, reg, rt), UNCHANGED control,
         sim_time_ns <= Pace(reg, rt), reg <= sim_time_ns + Step
  PROVE  SpeedLimit'
<1>1. max_real_time_factor \in Nat /\ max_real_time_factor' = max_real_time_factor
  BY FactorAssumption DEF TypeOK, control
<1>2. regulator_request_ns' = reg /\ real_time_request_ns' = rt
  BY DEF TryUpdateClock
<1>3. Pace(reg, rt) \in Time /\ Pace(regulator_request_ns, real_time_request_ns)' = Pace(reg, rt)
  BY <1>1, <1>2 DEF Pace
<1>4. CASE UNCHANGED sim_time_ns
  BY <1>2, <1>3, <1>4 DEF SpeedLimit
<1>5. ASSUME NEW t \in Time, ShouldAdvance(ps, reg, rt, t), sim_time_ns' = t
      PROVE  SpeedLimit'
  <2>1. t > sim_time_ns
    BY <1>5, ShouldAdvanceTarget
  <2>2. CASE RealTimeAhead(reg, rt)
    <3>1. t = RealTimeTarget(reg, rt) /\ FollowsRealTime
      BY <1>5, <2>2 DEF ShouldAdvance, RealTimeAhead
    <3>2. t <= Pace(reg, rt)
      BY <1>1, <3>1 DEF RealTimeTarget, Pace, RealTime, Time
    <3>3. QED
      BY <1>2, <1>3, <1>5, <2>1, <3>2, StepAssumption DEF SpeedLimit, TypeOK, Time
  <2>3. CASE ~ RealTimeAhead(reg, rt)
    <3>1. t <= reg
      BY <1>5, <2>3 DEF ShouldAdvance, Requests
    <3>2. reg <= Pace(reg, rt)
      BY DEF Pace, Time
    <3>3. QED
      BY <1>2, <1>3, <1>5, <2>1, <3>1, <3>2, StepAssumption DEF SpeedLimit, TypeOK, Time
  <2>4. QED
    BY <2>2, <2>3
<1>6. QED
  BY <1>4, <1>5 DEF TryUpdateClock, AdvanceTime

\* Every step of a root coordinator keeps the clock within its pace.
LEMMA StepSpeed ==
  ASSUME TypeOK, SpeedLimit, [Next]_vars
  PROVE  SpeedLimit'
<1> SUFFICES ASSUME ~ HasParent PROVE SpeedLimit'
  BY DEF SpeedLimit
<1>0. /\ sim_time_ns <= Pace(regulator_request_ns, real_time_request_ns)
      /\ regulator_request_ns <= sim_time_ns + Step
  BY DEF SpeedLimit
<1>1. ASSUME NEW ps,
             TryUpdateClock(ps, regulator_request_ns, real_time_request_ns),
             UNCHANGED control
      PROVE  SpeedLimit'
  BY <1>0, <1>1, TryUpdateClockPace DEF TypeOK
<1>2. CASE Message
  BY <1>1, <1>2 DEF Message, Register, Announce, SetFollowsRealTime, Unregister,
                    SpeedLimit, Pace, pacing, control
<1>3. CASE RegulatorTick
  <2>1. max_real_time_factor \in Nat
    BY FactorAssumption DEF TypeOK
  <2>2. /\ sim_time_ns <= Pace(RegulatorTarget, real_time_request_ns)
        /\ RegulatorTarget <= sim_time_ns + Step
    BY <1>0, <2>1, StepAssumption DEF RegulatorTarget, Pace, TypeOK, Time
  <2>3. QED
    BY <1>3, <2>2, RegulatorTargetType, TryUpdateClockPace DEF RegulatorTick, TypeOK
<1>4. ASSUME NEW wall_dt \in WallSteps, RealTimeTick(wall_dt)
      PROVE  SpeedLimit'
  <2>1. max_real_time_factor \in Nat /\ wall_dt \in Nat
    BY FactorAssumption, WallAssumption DEF TypeOK
  <2>2. sim_time_ns <= Pace(regulator_request_ns, RealTimeRequest(wall_dt))
    BY <1>0, <2>1, StepAssumption DEF RealTimeRequest, Pace, TypeOK, Time
  <2>3. QED
    BY <1>0, <1>4, <2>2, RealTimeRequestType, TryUpdateClockPace DEF RealTimeTick, TypeOK
<1>5. CASE ClearZombieParticipants
  BY <1>1, <1>5 DEF ClearZombieParticipants
<1>6. ASSUME ResetPacing, UNCHANGED sim_time_ns
      PROVE  SpeedLimit'
  BY <1>6, StepAssumption DEF ResetPacing, SpeedLimit, Pace, TypeOK, Time
<1>7. ASSUME UNCHANGED <<sim_time_ns, regulator_request_ns, real_time_request_ns,
                         max_real_time_factor>>
      PROVE  SpeedLimit'
  BY <1>0, <1>7 DEF SpeedLimit, Pace
<1>8. QED
  BY <1>2, <1>3, <1>4, <1>5, <1>6, <1>7
     DEF Next, Timer, Service, Worker, ClockStatusTick, FallSilent, SetRunning,
         SetMaxRealTimeFactor, ReceiveParentGrant, PublishWorker, AnnounceWorker,
         vars, pacing, control

\* The clock of a root coordinator never outruns the regulator and the wall
\* clock, and the regulator never holds more than one step of credit.
THEOREM SpeedLimited == Spec => []SpeedLimit
<1>1. Init => SpeedLimit
  BY StepAssumption DEF Init, Started, SpeedLimit, Pace
<1>2. TypeOK /\ SpeedLimit /\ [Next]_vars => SpeedLimit'
  BY StepSpeed
<1>3. QED
  BY TypeCorrect, <1>1, <1>2, PTL DEF Spec

-----------------------------------------------------------------------------
(* Conservative lock step.                                                 *)

NoOvertakeStep ==
  ~ HasParent /\ ~ FollowsRealTime /\ sim_time_ns' > sim_time_ns =>
    \A p \in DOMAIN participants' :
      sim_time_ns' <= participants'[p].request_time_ns

\* should_advance never returns more than the earliest request.
LEMMA TryUpdateClockConservative ==
  ASSUME TypeOK, NEW ps, IsParticipantMap(ps), NEW reg \in Time, NEW rt \in Time,
         TryUpdateClock(ps, reg, rt)
  PROVE  NoOvertakeStep
<1>1. CASE UNCHANGED sim_time_ns
  BY <1>1 DEF NoOvertakeStep, TypeOK, Time
<1>2. ASSUME NEW t \in Time, ShouldAdvance(ps, reg, rt, t), AdvanceTime(ps, t),
             ~ HasParent, ~ FollowsRealTime
      PROVE  NoOvertakeStep
  <2>1. sim_time_ns' = t /\ participants' = Served(ps, t)
    BY <1>2 DEF AdvanceTime
  <2>2. \A p \in DOMAIN ps : t <= ps[p].request_time_ns
    BY <1>2 DEF ShouldAdvance, RealTimeAhead, Requests
  <2>3. DOMAIN Served(ps, t) = DOMAIN ps
        /\ \A p \in DOMAIN ps : Served(ps, t)[p].request_time_ns = ps[p].request_time_ns
    BY ServedType
  <2>4. QED
    BY <2>1, <2>2, <2>3 DEF NoOvertakeStep
<1>3. QED
  BY <1>1, <1>2 DEF TryUpdateClock, AdvanceTime, NoOvertakeStep

\* No handler takes a participant past its announced safe time.
LEMMA StepConservative ==
  ASSUME TypeOK, [Next]_vars
  PROVE  NoOvertakeStep
<1>1. ASSUME NEW p \in Participant, NEW r \in Time, Announce(p, r)
      PROVE  NoOvertakeStep
  <2> DEFINE e == [Entry(p) EXCEPT !.request_time_ns = r, !.has_new_request = TRUE,
                                   !.silent = FALSE]
  <2>1. e \in ParticipantState
    BY EntryType DEF ParticipantState
  <2>2. TryUpdateClock(WithEntry(p, e), regulator_request_ns, real_time_request_ns)
    BY <1>1 DEF Announce
  <2> HIDE DEF e
  <2>3. QED
    BY <2>1, <2>2, WithEntryType, TryUpdateClockConservative DEF TypeOK
<1>2. ASSUME NEW p \in Participant, NEW f \in BOOLEAN, SetFollowsRealTime(p, f)
      PROVE  NoOvertakeStep
  <2> DEFINE e == [Entry(p) EXCEPT !.follows_real_time = f]
  <2>1. e \in ParticipantState
    BY EntryType DEF ParticipantState
  <2>2. TryUpdateClock(WithEntry(p, e), regulator_request_ns, real_time_request_ns)
    BY <1>2 DEF SetFollowsRealTime
  <2> HIDE DEF e
  <2>3. QED
    BY <2>1, <2>2, WithEntryType, TryUpdateClockConservative DEF TypeOK
<1>3. ASSUME NEW p \in Participant, Unregister(p)
      PROVE  NoOvertakeStep
  BY <1>3, WithoutEntriesType, TryUpdateClockConservative DEF Unregister, TypeOK
<1>4. CASE ClearZombieParticipants
  BY <1>4, WithoutEntriesType, TryUpdateClockConservative
     DEF ClearZombieParticipants, TypeOK
<1>5. CASE RegulatorTick
  BY <1>5, RegulatorTargetType, TryUpdateClockConservative DEF RegulatorTick, TypeOK
<1>6. ASSUME NEW wall_dt \in WallSteps, RealTimeTick(wall_dt)
      PROVE  NoOvertakeStep
  BY <1>6, RealTimeRequestType, TryUpdateClockConservative DEF RealTimeTick, TypeOK
<1>7. CASE UNCHANGED sim_time_ns
  BY <1>7 DEF NoOvertakeStep, TypeOK, Time
<1>8. ASSUME NEW g \in Time, ReceiveParentGrant(g)
      PROVE  NoOvertakeStep
  BY <1>8 DEF ReceiveParentGrant, NoOvertakeStep
<1>9. QED
  BY <1>1, <1>2, <1>3, <1>4, <1>5, <1>6, <1>7, <1>8
     DEF Next, Message, Timer, Service, Worker, Register, ClockStatusTick, FallSilent,
         SetRunning, SetMaxRealTimeFactor, PublishWorker, AnnounceWorker, vars

\* In lock-step mode a root coordinator never takes any participant past the
\* time it has announced as safe, whichever handler moves the clock.
THEOREM NeverOvertakes == Spec => NoOvertake
<1>1. TypeOK /\ [Next]_vars => [NoOvertakeStep]_vars
  BY StepConservative
<1>2. Spec => [][NoOvertakeStep]_vars
  BY TypeCorrect, <1>1, PTL DEF Spec
<1>3. QED
  BY <1>2 DEF NoOvertake, NoOvertakeStep

-----------------------------------------------------------------------------
(* What a child announces.                                                 *)

AnnounceSafeStep ==
  HasParent /\ ~ FollowsRealTime /\ Len(announce_tasks') > Len(announce_tasks) =>
    LET announced_ns == announce_tasks'[Len(announce_tasks')]
    IN  /\ announced_ns > sim_time_ns
        /\ \A p \in DOMAIN participants' :
             /\ participants'[p].has_new_request
             /\ announced_ns <= participants'[p].request_time_ns

\* What try_update_clock_locked queues for the parent is should_advance's
\* result for the very participants that the handler leaves behind.
LEMMA TryUpdateClockAnnounces ==
  ASSUME TypeOK, NEW ps, NEW reg, NEW rt, TryUpdateClock(ps, reg, rt)
  PROVE  AnnounceSafeStep
<1>1. CASE UNCHANGED announce_tasks
  BY <1>1 DEF AnnounceSafeStep, TypeOK
<1>2. ASSUME NEW t \in Time, ShouldAdvance(ps, reg, rt, t), AdvanceTime(ps, t),
             HasParent, ~ FollowsRealTime
      PROVE  AnnounceSafeStep
  <2>1. announce_tasks' = Append(announce_tasks, t) /\ participants' = ps
    BY <1>2 DEF AdvanceTime
  <2>2. announce_tasks'[Len(announce_tasks')] = t
    BY <2>1 DEF TypeOK
  <2>3. /\ t > sim_time_ns
        /\ \A p \in DOMAIN ps : ps[p].has_new_request /\ t <= ps[p].request_time_ns
    BY <1>2 DEF ShouldAdvance, RealTimeAhead, Requests
  <2>4. QED
    BY <2>1, <2>2, <2>3 DEF AnnounceSafeStep
<1>3. QED
  BY <1>1, <1>2 DEF TryUpdateClock, AdvanceTime, AnnounceSafeStep

\* No handler queues anything else for the parent.
LEMMA StepAnnounces ==
  ASSUME TypeOK, [Next]_vars
  PROVE  AnnounceSafeStep
<1>1. ASSUME NEW ps, NEW reg, NEW rt, TryUpdateClock(ps, reg, rt)
      PROVE  AnnounceSafeStep
  BY <1>1, TryUpdateClockAnnounces
<1>2. CASE UNCHANGED announce_tasks
  BY <1>2 DEF AnnounceSafeStep, TypeOK
<1>3. CASE AnnounceWorker
  <2>1. Len(announce_tasks') = Len(announce_tasks) - 1
    BY <1>3 DEF AnnounceWorker, TypeOK
  <2>2. QED
    BY <2>1 DEF AnnounceSafeStep, TypeOK
<1>4. CASE Message
  BY <1>1, <1>2, <1>4 DEF Message, Register, Announce, SetFollowsRealTime, Unregister
<1>5. CASE RegulatorTick \/ ClearZombieParticipants
  BY <1>1, <1>5 DEF RegulatorTick, ClearZombieParticipants
<1>6. ASSUME NEW wall_dt \in WallSteps, RealTimeTick(wall_dt)
      PROVE  AnnounceSafeStep
  BY <1>1, <1>6 DEF RealTimeTick
<1>7. QED
  BY <1>2, <1>3, <1>4, <1>5, <1>6
     DEF Next, Timer, Service, Worker, ReceiveParentGrant, ClockStatusTick, FallSilent,
         SetRunning, SetMaxRealTimeFactor, PublishWorker, vars

\* In lock step a child queues for its parent only a time that is later than
\* its clock and safe for every local participant, all of which have announced.
THEOREM AnnouncesOnlySafeTimes == Spec => AnnouncesSafeTimes
<1>1. TypeOK /\ [Next]_vars => [AnnounceSafeStep]_vars
  BY StepAnnounces
<1>2. Spec => [][AnnounceSafeStep]_vars
  BY TypeCorrect, <1>1, PTL DEF Spec
<1>3. QED
  BY <1>2 DEF AnnouncesSafeTimes, AnnounceSafeStep

-----------------------------------------------------------------------------
(* Who holds the clock of a root.                                          *)

\* p does not hold the clock in this step.
Released(p) ==
  \/ participants'[p].follows_real_time
  \/ p \in DOMAIN participants /\ participants[p].has_new_request
  \/ \E request_ns \in Time : Announce(p, request_ns)

HoldStep ==
  ~ HasParent /\ sim_time_ns' > sim_time_ns => \A p \in DOMAIN participants' : Released(p)

\* A clock update moves a root only if each of ps follows real time or has a
\* new request; the grant then changes neither who is there nor who follows.
LEMMA TryUpdateClockHeld ==
  ASSUME TypeOK, NEW ps, IsParticipantMap(ps), NEW reg, NEW rt,
         TryUpdateClock(ps, reg, rt), ~ HasParent, sim_time_ns' > sim_time_ns
  PROVE  /\ DOMAIN participants' = DOMAIN ps
         /\ \A p \in DOMAIN ps :
              /\ participants'[p].follows_real_time = ps[p].follows_real_time
              /\ ps[p].follows_real_time \/ ps[p].has_new_request
<1>1. ~ UNCHANGED sim_time_ns
  BY DEF TypeOK, Time
<1>2. PICK t \in Time : ShouldAdvance(ps, reg, rt, t) /\ AdvanceTime(ps, t)
  BY <1>1 DEF TryUpdateClock
<1>3. participants' = Served(ps, t)
  BY <1>2 DEF AdvanceTime
<1>4. \A p \in DOMAIN ps : ps[p].follows_real_time \/ ps[p].has_new_request
  BY <1>2 DEF ShouldAdvance
<1>5. DOMAIN Served(ps, t) = DOMAIN ps
  BY DEF Served
<1>6. ASSUME NEW p \in DOMAIN ps
      PROVE  Served(ps, t)[p].follows_real_time = ps[p].follows_real_time
  <2>1. ps[p] \in ParticipantState
    BY DEF IsParticipantMap
  <2>2. Served(ps, t)[p] =
          [ps[p] EXCEPT !.has_new_request =
             ps[p].has_new_request /\ ps[p].request_time_ns > t]
    BY DEF Served
  <2>3. QED
    BY <2>1, <2>2 DEF ParticipantState
<1>7. QED
  BY <1>3, <1>4, <1>5, <1>6

\* No handler moves the clock of a root while a participant holds it.
LEMMA StepHeld ==
  ASSUME TypeOK, [Next]_vars
  PROVE  HoldStep
<1> SUFFICES ASSUME ~ HasParent, sim_time_ns' > sim_time_ns
             PROVE  \A p \in DOMAIN participants' : Released(p)
  BY DEF HoldStep
<1>1. ASSUME NEW p \in Participant, NEW r \in Time, Announce(p, r)
      PROVE  \A q \in DOMAIN participants' : Released(q)
  <2> DEFINE e == [Entry(p) EXCEPT !.request_time_ns = r, !.has_new_request = TRUE,
                                   !.silent = FALSE]
  <2>1. e \in ParticipantState
    BY EntryType DEF ParticipantState
  <2>2. TryUpdateClock(WithEntry(p, e), regulator_request_ns, real_time_request_ns)
    BY <1>1 DEF Announce
  <2>3. Released(p)
    BY <1>1 DEF Released
  <2> HIDE DEF e
  <2>4. \A q \in DOMAIN WithEntry(p, e) \ {p} :
          q \in DOMAIN participants /\ WithEntry(p, e)[q] = participants[q]
    BY DEF WithEntry
  <2>5. ASSUME NEW q \in DOMAIN WithEntry(p, e) \ {p}
        PROVE  Released(q)
    BY <2>1, <2>2, <2>4, WithEntryType, TryUpdateClockHeld DEF Released
  <2>6. DOMAIN participants' = DOMAIN WithEntry(p, e)
    BY <2>1, <2>2, WithEntryType, TryUpdateClockHeld
  <2>7. QED
    BY <2>3, <2>5, <2>6
<1>2. ASSUME NEW p \in Participant, NEW f \in BOOLEAN, SetFollowsRealTime(p, f)
      PROVE  \A q \in DOMAIN participants' : Released(q)
  <2> DEFINE e == [Entry(p) EXCEPT !.follows_real_time = f]
  <2>1. e \in ParticipantState
    BY EntryType DEF ParticipantState
  <2>2. TryUpdateClock(WithEntry(p, e), regulator_request_ns, real_time_request_ns)
    BY <1>2 DEF SetFollowsRealTime
  <2>3. p \in DOMAIN participants /\ e.has_new_request = participants[p].has_new_request
    BY <1>2, EntryType DEF SetFollowsRealTime, Entry, ParticipantState
  <2> HIDE DEF e
  <2>4. DOMAIN WithEntry(p, e) = DOMAIN participants
        /\ \A q \in DOMAIN participants :
             WithEntry(p, e)[q].has_new_request = participants[q].has_new_request
    BY <2>3 DEF WithEntry
  <2>5. QED
    BY <2>1, <2>2, <2>4, WithEntryType, TryUpdateClockHeld DEF Released
<1>3. ASSUME NEW gone, NEW reg, NEW rt, TryUpdateClock(WithoutEntries(gone), reg, rt)
      PROVE  \A q \in DOMAIN participants' : Released(q)
  <2>1. \A q \in DOMAIN WithoutEntries(gone) :
          q \in DOMAIN participants /\ WithoutEntries(gone)[q] = participants[q]
    BY DEF WithoutEntries, Restrict
  <2>2. QED
    BY <1>3, <2>1, WithoutEntriesType, TryUpdateClockHeld DEF Released
<1>4. ASSUME NEW reg, NEW rt, TryUpdateClock(participants, reg, rt)
      PROVE  \A q \in DOMAIN participants' : Released(q)
  BY <1>4, TryUpdateClockHeld DEF TypeOK, Released
<1>5. ~ UNCHANGED sim_time_ns
  BY DEF TypeOK, Time
<1>6. CASE RegulatorTick \/ \E wall_dt \in WallSteps : RealTimeTick(wall_dt)
  BY <1>4, <1>6 DEF RegulatorTick, RealTimeTick
<1>7. CASE ClearZombieParticipants \/ \E p \in Participant : Unregister(p)
  BY <1>3, <1>7 DEF ClearZombieParticipants, Unregister
<1>8. QED
  BY <1>1, <1>2, <1>5, <1>6, <1>7
     DEF Next, Message, Timer, Service, Worker, Register, ReceiveParentGrant,
         ClockStatusTick, FallSilent, SetRunning, SetMaxRealTimeFactor, PublishWorker,
         AnnounceWorker, vars

\* The clock of a root moves, in lock step and in real time, only if every
\* participant that does not follow real time had a new request or announces
\* in this very step.
THEOREM NonFollowersHoldTheClock == Spec => NonFollowerHoldsClock
<1>1. TypeOK /\ [Next]_vars => [HoldStep]_vars
  BY StepHeld
<1>2. Spec => [][HoldStep]_vars
  BY TypeCorrect, <1>1, PTL DEF Spec
<1>3. QED
  BY <1>2 DEF NonFollowerHoldsClock, HoldStep, Released

-----------------------------------------------------------------------------
(* No missed advance.                                                      *)

\* In lock step a handler that ends in a clock update leaves nothing to do: it
\* found no time to advance to, or went to the least request, which is then
\* not later than the clock.
LEMMA TryUpdateClockExhausts ==
  ASSUME TypeOK, NEW ps, IsParticipantMap(ps), NEW reg \in Time, NEW rt \in Time,
         TryUpdateClock(ps, reg, rt), UNCHANGED control
  PROVE  NoMissedAdvance'
<1> SUFFICES ASSUME ~ HasParent, ~ FollowsRealTime, NEW u \in Time,
                    ShouldAdvance(participants, regulator_request_ns, real_time_request_ns, u)'
             PROVE  FALSE
  BY DEF NoMissedAdvance
<1>1. /\ running' /\ DOMAIN participants' # {}
      /\ \A p \in DOMAIN participants' : participants'[p].has_new_request
      /\ u \in Requests(participants', reg) /\ \A r \in Requests(participants', reg) : u <= r
      /\ u < Infinite - Step /\ u > sim_time_ns'
  BY DEF ShouldAdvance, RealTimeAhead, TryUpdateClock, Requests
<1>2. CASE participants' = ps /\ UNCHANGED sim_time_ns
  <2>1. ShouldAdvance(ps, reg, rt, u)
    BY <1>1, <1>2 DEF ShouldAdvance, RealTimeAhead, control
  <2>2. ~ ShouldAdvance(ps, reg, rt, u)
    <3>1. ASSUME NEW t \in Time, ShouldAdvance(ps, reg, rt, t), AdvanceTime(ps, t)
          PROVE  FALSE
      BY <1>2, <3>1, ShouldAdvanceTarget DEF AdvanceTime, TypeOK, Time
    <3>2. QED
      BY <3>1 DEF TryUpdateClock
  <2>3. QED
    BY <2>1, <2>2
<1>3. ASSUME NEW t \in Time, ShouldAdvance(ps, reg, rt, t), AdvanceTime(ps, t)
      PROVE  FALSE
  <2>1. sim_time_ns' = t /\ participants' = Served(ps, t)
    BY <1>3 DEF AdvanceTime
  <2>2. DOMAIN participants' = DOMAIN ps
        /\ \A p \in DOMAIN ps : participants'[p].request_time_ns = ps[p].request_time_ns
    BY <2>1, ServedType
  <2>3. Requests(participants', reg) = Requests(ps, reg)
    BY <2>2 DEF Requests
  <2>4. t \in Requests(ps, reg)
    BY <1>3 DEF ShouldAdvance, RealTimeAhead
  <2>5. QED
    BY <1>1, <2>1, <2>3, <2>4 DEF Time
<1>4. QED
  BY <1>2, <1>3 DEF TryUpdateClock

\* Only the flags and requests of the participants count for an advance.
LEMMA SameRequests ==
  ASSUME TypeOK, TypeOK', NoMissedAdvance, UNCHANGED <<sim_time_ns, pacing, control>>,
         DOMAIN participants' = DOMAIN participants,
         \A p \in DOMAIN participants :
           /\ participants'[p].has_new_request = participants[p].has_new_request
           /\ participants'[p].request_time_ns = participants[p].request_time_ns
  PROVE  NoMissedAdvance'
<1> SUFFICES ASSUME ~ HasParent, ~ FollowsRealTime, NEW u \in Time,
                    ShouldAdvance(participants, regulator_request_ns, real_time_request_ns, u)'
             PROVE  FALSE
  BY DEF NoMissedAdvance
<1>1. Requests(participants', regulator_request_ns) = Requests(participants, regulator_request_ns)
  BY DEF Requests
<1>2. ShouldAdvance(participants, regulator_request_ns, real_time_request_ns, u)
  BY <1>1 DEF ShouldAdvance, RealTimeAhead, Requests, pacing, control
<1>3. QED
  BY <1>2 DEF NoMissedAdvance

LEMMA StepExhausts ==
  ASSUME TypeOK, TypeOK', NoMissedAdvance, [Next]_vars
  PROVE  NoMissedAdvance'
<1>1. ASSUME NEW p \in Participant, Register(p)
      PROVE  NoMissedAdvance'
  <2>1. CASE p \in DOMAIN participants
    <3>1. participants[p] \in ParticipantState
      BY <2>1 DEF TypeOK, IsParticipantMap
    <3>2. QED
      BY <1>1, <2>1, <3>1, SameRequests
         DEF Register, WithEntry, Entry, ParticipantState, pacing, control
  <2>2. CASE p \notin DOMAIN participants
    <3>1. p \in DOMAIN participants' /\ ~ participants'[p].has_new_request
      BY <1>1, <2>2 DEF Register, WithEntry, Entry, NewParticipant
    <3>2. QED
      BY <3>1 DEF NoMissedAdvance, ShouldAdvance, RealTimeAhead
  <2>3. QED
    BY <2>1, <2>2
<1>2. ASSUME NEW p \in Participant, NEW r \in Time, Announce(p, r)
      PROVE  NoMissedAdvance'
  <2> DEFINE e == [Entry(p) EXCEPT !.request_time_ns = r, !.has_new_request = TRUE,
                                   !.silent = FALSE]
  <2>1. e \in ParticipantState
    BY EntryType DEF ParticipantState
  <2>2. TryUpdateClock(WithEntry(p, e), regulator_request_ns, real_time_request_ns)
        /\ UNCHANGED control
    BY <1>2 DEF Announce
  <2> HIDE DEF e
  <2>3. QED
    BY <2>1, <2>2, WithEntryType, TryUpdateClockExhausts DEF TypeOK
<1>3. ASSUME NEW p \in Participant, NEW f \in BOOLEAN, SetFollowsRealTime(p, f)
      PROVE  NoMissedAdvance'
  <2> DEFINE e == [Entry(p) EXCEPT !.follows_real_time = f]
  <2>1. e \in ParticipantState
    BY EntryType DEF ParticipantState
  <2>2. TryUpdateClock(WithEntry(p, e), regulator_request_ns, real_time_request_ns)
        /\ UNCHANGED control
    BY <1>3 DEF SetFollowsRealTime
  <2> HIDE DEF e
  <2>3. QED
    BY <2>1, <2>2, WithEntryType, TryUpdateClockExhausts DEF TypeOK
<1>4. ASSUME NEW p \in Participant, Unregister(p)
      PROVE  NoMissedAdvance'
  BY <1>4, WithoutEntriesType, TryUpdateClockExhausts DEF Unregister, TypeOK
<1>5. CASE ClearZombieParticipants
  BY <1>5, WithoutEntriesType, TryUpdateClockExhausts DEF ClearZombieParticipants, TypeOK
<1>6. CASE RegulatorTick
  BY <1>6, RegulatorTargetType, TryUpdateClockExhausts DEF RegulatorTick, TypeOK
<1>7. ASSUME NEW wall_dt \in WallSteps, RealTimeTick(wall_dt)
      PROVE  NoMissedAdvance'
  BY <1>7, RealTimeRequestType, TryUpdateClockExhausts DEF RealTimeTick, TypeOK
<1>8. ASSUME NEW p \in Participant, FallSilent(p)
      PROVE  NoMissedAdvance'
  <2>1. participants[p] \in ParticipantState
    BY <1>8 DEF FallSilent, TypeOK, IsParticipantMap
  <2>2. QED
    BY <1>8, <2>1, SameRequests
       DEF FallSilent, WithEntry, Entry, ParticipantState, pacing, control
<1>9. ASSUME ResetPacing, UNCHANGED sim_time_ns
      PROVE  NoMissedAdvance'
  BY <1>9 DEF ResetPacing, NoMissedAdvance, ShouldAdvance, RealTimeAhead, Requests,
              TypeOK, Time
<1>10. CASE UNCHANGED <<participants, sim_time_ns, pacing, control>>
  BY <1>10, SameRequests
<1>11. ASSUME NEW g \in Time, ReceiveParentGrant(g)
       PROVE  NoMissedAdvance'
  BY <1>11 DEF ReceiveParentGrant, NoMissedAdvance
<1>12. QED
  BY <1>1, <1>2, <1>3, <1>4, <1>5, <1>6, <1>7, <1>8, <1>9, <1>10, <1>11
     DEF Next, Message, Timer, Service, Worker, ClockStatusTick, SetRunning,
         SetMaxRealTimeFactor, PublishWorker, AnnounceWorker, vars, pacing, control

\* In lock-step mode no handler of a root coordinator returns while the clock
\* could advance: progress never waits for an unrelated event.
THEOREM NeverMissesAdvance == Spec => []NoMissedAdvance
<1>1. Init => NoMissedAdvance
  BY DEF Init, Started, NoMissedAdvance, ShouldAdvance
<1>2. TypeOK /\ TypeOK' /\ NoMissedAdvance /\ [Next]_vars => NoMissedAdvance'
  BY StepExhausts
<1>3. QED
  BY TypeCorrect, <1>1, <1>2, PTL DEF Spec

-----------------------------------------------------------------------------
(* The stream of clock values.                                             *)

\* The stream is the value sent last, followed by the queue.
LEMMA StreamElements ==
  ASSUME NEW pub \in Time, NEW q \in Seq(Time)
  PROVE  /\ Len(<<pub>> \o q) = Len(q) + 1
         /\ (<<pub>> \o q)[1] = pub
         /\ \A i \in 1 .. Len(q) : (<<pub>> \o q)[i + 1] = q[i]
BY DEF Time

\* Queueing a value that is not earlier than the clock keeps the order.
LEMMA AppendInOrder ==
  ASSUME TypeOK, ClockStreamInOrder, NEW t \in Time, sim_time_ns <= t,
         sim_time_ns' = t, PublishClock(t), published_ns' = published_ns
  PROVE  ClockStreamInOrder'
<1> DEFINE q == publish_tasks
           S == <<published_ns>> \o q
           T == <<published_ns>> \o Append(q, t)
<1>1. q \in Seq(Time) /\ published_ns \in Time /\ Append(q, t) \in Seq(Time) /\ Len(q) \in Nat
  BY DEF TypeOK
<1>2. /\ Len(S) = Len(q) + 1 /\ S[1] = published_ns
      /\ \A i \in 1 .. Len(q) : S[i + 1] = q[i]
  BY <1>1, StreamElements
<1>3. /\ Len(Append(q, t)) = Len(q) + 1
      /\ \A i \in 1 .. Len(q) : Append(q, t)[i] = q[i]
      /\ Append(q, t)[Len(q) + 1] = t
  BY <1>1
<1>4. /\ Len(T) = Len(q) + 2 /\ T[1] = published_ns
      /\ \A i \in 1 .. Len(q) + 1 : T[i + 1] = Append(q, t)[i]
  BY <1>1, <1>3, StreamElements
<1>5. /\ \A i \in 1 .. Len(q) : S[i] <= S[i + 1]
      /\ S[Len(q) + 1] = sim_time_ns
  BY <1>2 DEF ClockStreamInOrder, ClockStream
<1>6. /\ \A i \in 1 .. Len(q) + 1 : T[i] = S[i]
      /\ T[Len(q) + 2] = t
  <2>1. T[Len(q) + 2] = t
    BY <1>1, <1>3, <1>4
  <2>2. ASSUME NEW i \in 1 .. Len(q) + 1
        PROVE  T[i] = S[i]
    <3>1. CASE i = 1
      BY <1>2, <1>4, <3>1
    <3>2. CASE i # 1
      <4>1. i - 1 \in 1 .. Len(q) /\ (i - 1) + 1 = i
        BY <1>1, <3>2
      <4>2. S[i] = q[i - 1] /\ T[i] = Append(q, t)[i - 1]
        BY <1>1, <1>2, <1>4, <4>1
      <4>3. QED
        BY <1>3, <4>1, <4>2
    <3>3. QED
      BY <3>1, <3>2
  <2>3. QED
    BY <2>1, <2>2
<1>7. ClockStream' = T /\ Len(publish_tasks') = Len(q) + 1 /\ sim_time_ns' = t
  BY <1>3 DEF ClockStream, PublishClock
<1> HIDE DEF q, S, T
<1>8. \A i \in 1 .. Len(q) + 1 : T[i] <= T[i + 1]
  <2>1. ASSUME NEW i \in 1 .. Len(q) + 1
        PROVE  T[i] <= T[i + 1]
    <3>1. CASE i \in 1 .. Len(q)
      BY <1>1, <1>5, <1>6, <3>1
    <3>2. CASE i = Len(q) + 1
      BY <1>1, <1>5, <1>6, <3>2
    <3>3. QED
      BY <1>1, <3>1, <3>2
  <2>2. QED
    BY <2>1
<1>9. QED
  BY <1>1, <1>4, <1>6, <1>7, <1>8 DEF ClockStreamInOrder

\* Sending the head of the queue keeps the order.
LEMMA SendInOrder ==
  ASSUME TypeOK, ClockStreamInOrder, PublishWorker
  PROVE  ClockStreamInOrder'
<1> DEFINE q == publish_tasks
           S == <<published_ns>> \o q
           T == <<Head(q)>> \o Tail(q)
<1>1. /\ q \in Seq(Time) /\ published_ns \in Time /\ q # <<>>
      /\ Head(q) \in Time /\ Tail(q) \in Seq(Time) /\ Len(q) \in Nat /\ Len(q) > 0
      /\ Len(Tail(q)) = Len(q) - 1 /\ Head(q) = q[1]
      /\ \A i \in 1 .. Len(q) - 1 : Tail(q)[i] = q[i + 1]
  BY DEF TypeOK, PublishWorker
<1>2. /\ Len(S) = Len(q) + 1
      /\ \A i \in 1 .. Len(q) : S[i + 1] = q[i]
  BY <1>1, StreamElements
<1>3. /\ Len(T) = Len(q) /\ T[1] = q[1]
      /\ \A i \in 1 .. Len(q) - 1 : T[i + 1] = Tail(q)[i]
  BY <1>1, StreamElements
<1>4. ASSUME NEW i \in 1 .. Len(q)
      PROVE  T[i] = S[i + 1]
  <2>1. CASE i = 1
    BY <1>1, <1>2, <1>3, <2>1
  <2>2. CASE i # 1
    <3>1. i - 1 \in 1 .. Len(q) - 1 /\ (i - 1) + 1 = i
      BY <1>1, <2>2
    <3>2. QED
      BY <1>1, <1>2, <1>3, <3>1
  <2>3. QED
    BY <2>1, <2>2
<1>5. /\ \A i \in 1 .. Len(q) : S[i] <= S[i + 1]
      /\ S[Len(q) + 1] = sim_time_ns
  BY <1>2 DEF ClockStreamInOrder, ClockStream
<1>6. ClockStream' = T /\ Len(publish_tasks') = Len(q) - 1 /\ sim_time_ns' = sim_time_ns
  BY <1>1 DEF ClockStream, PublishWorker
<1> HIDE DEF q, S, T
<1>7. ASSUME NEW i \in 1 .. Len(q) - 1
      PROVE  T[i] <= T[i + 1]
  <2>1. i \in 1 .. Len(q) /\ i + 1 \in 1 .. Len(q)
    BY <1>1
  <2>2. QED
    BY <1>4, <1>5, <2>1
<1>8. T[Len(q)] = sim_time_ns
  BY <1>1, <1>4, <1>5
<1>9. QED
  BY <1>3, <1>6, <1>7, <1>8 DEF ClockStreamInOrder

LEMMA StepInOrder ==
  ASSUME TypeOK, TypeOK', ClockStreamInOrder, [Next]_vars
  PROVE  ClockStreamInOrder'
<1>1. ASSUME UNCHANGED <<sim_time_ns, publish_tasks, published_ns>>
      PROVE  ClockStreamInOrder'
  BY <1>1 DEF ClockStreamInOrder, ClockStream
<1>2. ASSUME NEW ps, NEW reg, NEW rt, TryUpdateClock(ps, reg, rt), UNCHANGED published_ns
      PROVE  ClockStreamInOrder'
  <2>1. ASSUME NEW t \in Time, ShouldAdvance(ps, reg, rt, t),
               sim_time_ns' = t, PublishClock(t)
        PROVE  ClockStreamInOrder'
    <3>1. t > sim_time_ns
      BY <2>1 DEF ShouldAdvance, RealTimeAhead
    <3>2. t >= sim_time_ns
      BY <2>1, <3>1 DEF TypeOK, Time
    <3>3. QED
      BY <1>2, <2>1, <3>2, AppendInOrder
  <2>2. QED
    BY <1>1, <1>2, <2>1 DEF TryUpdateClock, AdvanceTime
<1>3. CASE ClockStatusTick
  BY <1>3, AppendInOrder DEF ClockStatusTick, TypeOK, Time
<1>4. ASSUME NEW g \in Time, ReceiveParentGrant(g)
      PROVE  ClockStreamInOrder'
  BY <1>4, AppendInOrder DEF ReceiveParentGrant, TypeOK, Time
<1>5. CASE PublishWorker
  BY <1>5, SendInOrder
<1>6. CASE Message
  BY <1>1, <1>2, <1>6 DEF Message, Register, Announce, SetFollowsRealTime, Unregister
<1>7. ASSUME \/ RegulatorTick \/ ClearZombieParticipants
             \/ \E wall_dt \in WallSteps : RealTimeTick(wall_dt)
      PROVE  ClockStreamInOrder'
  BY <1>2, <1>7 DEF RegulatorTick, ClearZombieParticipants, RealTimeTick
<1>8. QED
  BY <1>1, <1>3, <1>4, <1>5, <1>6, <1>7
     DEF Next, Timer, Service, Worker, FallSilent, SetRunning, SetMaxRealTimeFactor,
         AnnounceWorker, vars

\* Every subscriber of /clock sees the simulation time grow, and the last value
\* on its way is always the current time; for a root and for a child whatever
\* its parent grants.
THEOREM StreamInOrder == Spec => []ClockStreamInOrder
<1>1. Init => ClockStreamInOrder
  <2> SUFFICES ASSUME Init PROVE ClockStreamInOrder
    OBVIOUS
  <2>1. 0 \in Time
    BY StepAssumption DEF Time
  <2>2. CASE publish_tasks = <<>>
    BY <2>2 DEF Init, Started, ClockStreamInOrder, ClockStream
  <2>3. CASE publish_tasks = <<0>>
    BY <2>1, <2>3 DEF Init, Started, ClockStreamInOrder, ClockStream
  <2>4. QED
    BY <2>2, <2>3 DEF Init, Started
<1>2. TypeOK /\ TypeOK' /\ ClockStreamInOrder /\ [Next]_vars => ClockStreamInOrder'
  BY StepInOrder
<1>3. QED
  BY TypeCorrect, <1>1, <1>2, PTL DEF Spec

=============================================================================
