----------------------------- MODULE SimLoopProofs -----------------------------
(***************************************************************************)
(* Theorems about the paced loop (SimLoop), for every period and every     *)
(* behaviour of the clock, however far it goes and often it jumps back.    *)
(***************************************************************************)
EXTENDS SimLoop, TLAPS

\* A case for each action, for the proofs below.
Clock == (\E d \in 1 .. Horizon : ClockAdvances(now + d))
         \/ (\E t \in 0 .. now : ClockJumpsBack(t))

-----------------------------------------------------------------------------
(* Type correctness.                                                       *)

\* Every step keeps the types.
LEMMA TypeStep == TypeOK /\ [Next]_vars => TypeOK'
<1> SUFFICES ASSUME TypeOK, [Next]_vars PROVE TypeOK'
  OBVIOUS
<1> USE LoopAssumption DEF TypeOK
<1>1. CASE Iterate
  BY <1>1 DEF Iterate, Stream, Step, rate
<1>2. CASE SleepMissed
  BY <1>2 DEF SleepMissed, NextInterval, Advance, body
<1>3. CASE Sleep
  BY <1>3 DEF Sleep, NextInterval, Advance, body
<1>6. CASE Wake
  BY <1>6 DEF Wake, body
<1>7. CASE Reset
  <2>1. on_grid' \in BOOLEAN
    BY <1>7 DEF Reset
  <2> QED BY <1>7, <2>1 DEF Reset, body
<1>4. CASE Clock
  <2>1. ASSUME NEW d \in 1 .. Horizon, ClockAdvances(now + d) PROVE TypeOK'
    BY <2>1 DEF ClockAdvances, body
  <2>2. ASSUME NEW t \in 0 .. now, ClockJumpsBack(t) PROVE TypeOK'
    <3>1. on_grid' \in BOOLEAN
      BY <2>2 DEF ClockJumpsBack
    <3>2. now' \in Nat /\ jumps' \in Nat /\ burst' \in Nat
      BY <2>2 DEF ClockJumpsBack
    <3> QED BY <2>2, <3>1, <3>2 DEF ClockJumpsBack, body
  <2> QED BY <1>4, <2>1, <2>2 DEF Clock
<1>5. CASE UNCHANGED vars
  BY <1>5 DEF vars, rate, body
<1> QED BY <1>1, <1>2, <1>3, <1>4, <1>5, <1>6, <1>7 DEF Next, Clock

\* The loop's variables keep their types (Rate, run(), MavlinkStream).
THEOREM TypeCorrect == Spec => []TypeOK
<1>1. Init => TypeOK
  BY LoopAssumption DEF Init, TypeOK
<1> QED BY <1>1, TypeStep, PTL DEF Spec

-----------------------------------------------------------------------------
(* Pacing.                                                                 *)

\* How far the clock is beyond t.
Beyond(t) == IF now > t THEN now - t ELSE 0

\* How long the clock has to go until t.
Before(t) == IF t > now THEN t - now ELSE 0

\* The iterations let through, plus the time since the last interval, which may
\* let through more, are paid for by the way the clock has gone.  An
\* iteration that is slept for is paid for when the clock arrives.
Paid(due) ==
  IF pc = "asleep"
  THEN /\ until <= last_interval
       /\ due <= travel + Period
       /\ due + Period + Beyond(last_interval) <= travel + Period + Before(until)
  ELSE due + Beyond(last_interval) <= travel + Period

\* Iterations that can still be let through at this instant.
Missed ==
  IF now < last_interval + Period THEN 0
  ELSE IF now = last_interval + Period + Period THEN 2 ELSE 1
Credit ==
  IF pc = "asleep" THEN (IF now >= until THEN 1 + Missed ELSE 0) ELSE Missed

Paced == Paid(ticks * Period) /\ burst + Credit <= 3

\* One more tick is one more period.
LEMMA NextTick ==
  ASSUME NEW n \in Nat
  PROVE  n * Period \in Nat /\ (n + 1) * Period = n * Period + Period
BY LoopAssumption

\* Paced is inductive.
LEMMA PacedStep == TypeOK /\ Paced /\ [Next]_vars => Paced'
<1> SUFFICES ASSUME TypeOK, Paced, [Next]_vars PROVE Paced'
  OBVIOUS
<1> DEFINE due == ticks * Period
<1>1. due \in Nat /\ (ticks + 1) * Period = due + Period
  BY NextTick DEF TypeOK
<1>2. Paid(due) /\ burst + Credit <= 3
  BY DEF Paced
<1>3. ASSUME ticks' = ticks, burst' + Credit' <= 3, Paid(due)'
      PROVE  Paced'
  BY <1>3 DEF Paced
<1> HIDE DEF due
<1>4. CASE Iterate
  <2>1. pc # "asleep" /\ pc' # "asleep" /\ UNCHANGED <<now, rate, travel>>
    BY <1>4 DEF Iterate
  <2> QED BY <2>1, <1>2 DEF Paced, Paid, Beyond, Credit, Missed, rate, due
<1>5. CASE SleepMissed
  <2>1. /\ pc = "sleep" /\ pc' = "iterate" /\ now >= last_interval + Period
        /\ UNCHANGED <<now, travel>>
        /\ burst' = burst + 1 /\ ticks' = ticks + 1
        /\ last_interval' = IF now > last_interval + Period + Period THEN now + Period
                            ELSE last_interval + Period
    BY <1>5, LoopAssumption DEF SleepMissed, NextInterval, Skips, Advance, TypeOK
  <2>2. burst' + Credit' <= 3
    BY <2>1, <1>2, LoopAssumption DEF TypeOK, Credit, Missed
  <2>3. (due + Period) + Beyond(last_interval)' <= travel' + Period
    BY <2>1, <1>1, <1>2, LoopAssumption DEF TypeOK, Paid, Beyond
  <2>4. (ticks * Period)' = due + Period
    BY <2>1, <1>1
  <2> QED BY <2>1, <2>2, <2>3, <2>4 DEF Paced, Paid
<1>6. CASE Sleep
  <2>1. /\ pc = "sleep" /\ pc' = "asleep" /\ UNCHANGED <<now, travel, ticks, burst>>
        /\ until' > now /\ last_interval' = last_interval + Period
        /\ until' = IF now < last_interval THEN now + Period ELSE last_interval + Period
    BY <1>6 DEF Sleep, NextInterval, Advance
  <2>2. burst' + Credit' <= 3
    BY <2>1, <1>2, LoopAssumption DEF TypeOK, Credit, Missed
  <2>3. until' <= last_interval' /\ due <= travel' + Period
    BY <2>1, <1>1, <1>2, LoopAssumption DEF TypeOK, Paid, Beyond
  <2>4. due + Period + Beyond(last_interval)' <= travel' + Period + Before(until)'
    BY <2>1, <1>1, <1>2, LoopAssumption DEF TypeOK, Paid, Beyond, Before
  <2> QED BY <2>1, <2>2, <2>3, <2>4 DEF Paced, Paid, due
<1>7. CASE Wake
  <2>1. /\ pc = "asleep" /\ pc' = "iterate" /\ now >= until
        /\ UNCHANGED <<now, travel, last_interval>>
        /\ burst' = burst + 1 /\ ticks' = ticks + 1
    BY <1>7 DEF Wake
  <2>2. burst' + Credit' <= 3
    BY <2>1, <1>2, LoopAssumption DEF TypeOK, Credit, Missed
  <2>3. (due + Period) + Beyond(last_interval)' <= travel' + Period
    BY <2>1, <1>1, <1>2, LoopAssumption DEF TypeOK, Paid, Beyond, Before
  <2>4. (ticks * Period)' = due + Period
    BY <2>1, <1>1
  <2> QED BY <2>1, <2>2, <2>3, <2>4 DEF Paced, Paid
<1>8. CASE Reset
  <2>1. /\ pc = "sleep" /\ pc' = "sleep" /\ last_interval' = now
        /\ UNCHANGED <<now, travel, ticks, burst>>
    BY <1>8 DEF Reset
  <2> QED BY <2>1, <1>1, <1>2, LoopAssumption
          DEF TypeOK, Paced, Paid, Beyond, Credit, Missed, due
<1>9. CASE Clock
  <2>1. /\ UNCHANGED <<pc, last_interval, until, ticks>> /\ burst' = 0 /\ now' \in Nat
        /\ \/ now' > now /\ travel' = travel + (now' - now)
           \/ now' < now /\ travel' = travel
    BY <1>9 DEF Clock, ClockAdvances, ClockJumpsBack, TypeOK
  <2>2. burst' + Credit' <= 3
    BY <2>1 DEF Credit, Missed
  <2>3. Paid(due)'
    BY <2>1, <1>1, <1>2, LoopAssumption DEF TypeOK, Paid, Beyond, Before, due
  <2> QED BY <2>1, <2>2, <2>3 DEF Paced, due
<1>10. CASE UNCHANGED vars
  BY <1>10, <1>2 DEF vars, rate, Paced, Paid, Beyond, Before, Credit, Missed, due
<1> QED BY <1>4, <1>5, <1>6, <1>7, <1>8, <1>9, <1>10 DEF Next, Clock

\* Rate::sleep never lets through more iterations than periods have passed, plus
\* one, and never more than three at one instant, whatever the clock does.
THEOREM RateKeepsItsPace == Spec => []TickBudget
<1>1. Init => Paced
  BY LoopAssumption DEF Init, Paced, Paid, Beyond, Credit, Missed
<1>2. TypeOK /\ Paced => TickBudget
  <2> SUFFICES ASSUME TypeOK, Paced PROVE TickBudget
    OBVIOUS
  <2>1. ticks * Period \in Nat
    BY NextTick DEF TypeOK
  <2>2. burst <= 3
    BY LoopAssumption DEF TypeOK, Paced, Credit, Missed
  <2>3. ticks * Period <= travel + Period
    <3> DEFINE due == ticks * Period
    <3>1. due \in Nat /\ Paid(due)
      BY <2>1 DEF Paced
    <3> HIDE DEF due
    <3>2. due <= travel + Period
      BY <3>1, LoopAssumption DEF TypeOK, Paid, Beyond
    <3> QED BY <3>2 DEF due
  <2> QED BY <2>2, <2>3 DEF TickBudget, PacedOverTime, NoBurst
<1> QED BY <1>1, <1>2, TypeCorrect, PacedStep, PTL DEF Spec

-----------------------------------------------------------------------------
(* The grid of the Rate.                                                   *)

\* As long as no interval was dropped, last_interval is on the grid, and not
\* ahead of the clock unless the loop sleeps for it.
Gridded ==
  on_grid => /\ last_interval = grid
             /\ IF pc = "asleep" THEN until = last_interval ELSE last_interval <= now

\* Gridded is inductive.
LEMMA GriddedStep == TypeOK /\ Gridded /\ [Next]_vars => Gridded'
<1> SUFFICES ASSUME TypeOK, Gridded, [Next]_vars PROVE Gridded'
  OBVIOUS
<1> USE LoopAssumption DEF TypeOK, Gridded
<1>1. CASE Iterate
  BY <1>1 DEF Iterate, rate
<1>2. CASE SleepMissed
  <2> SUFFICES ASSUME on_grid' PROVE last_interval' = grid' /\ last_interval' <= now'
    BY <1>2 DEF SleepMissed
  <2>1. on_grid /\ ~ Skips
    BY <1>2 DEF SleepMissed
  <2>2. last_interval = grid /\ last_interval <= now
    BY <1>2, <2>1 DEF SleepMissed
  <2>3. /\ last_interval' = last_interval + Period /\ grid' = grid + Period
        /\ NextInterval <= now /\ now' = now
    BY <1>2, <2>1 DEF SleepMissed, Advance
  <2> QED BY <2>2, <2>3 DEF NextInterval
<1>3. CASE Sleep
  BY <1>3 DEF Sleep, NextInterval, Advance
<1>4. CASE Wake
  BY <1>4 DEF Wake
<1>5. CASE Reset
  BY <1>5 DEF Reset
<1>6. CASE Clock
  <2>1. ASSUME NEW d \in 1 .. Horizon, ClockAdvances(now + d) PROVE Gridded'
    BY <2>1 DEF ClockAdvances
  <2>2. ASSUME NEW t \in 0 .. now, ClockJumpsBack(t) PROVE Gridded'
    BY <2>2 DEF ClockJumpsBack
  <2> QED BY <1>6, <2>1, <2>2 DEF Clock
<1>7. CASE UNCHANGED vars
  BY <1>7 DEF vars, rate
<1> QED BY <1>1, <1>2, <1>3, <1>4, <1>5, <1>6, <1>7 DEF Next, Clock

\* The Rate sleeps until exact multiples of its period and does not drift,
\* however late it was woken (Rate::sleep).
THEOREM RateDoesNotDrift == Spec => []NoDrift
<1>1. Init => Gridded
  <2> SUFFICES ASSUME Init PROVE Gridded
    OBVIOUS
  <2>1. /\ pc = "iterate" /\ now = last_interval /\ grid = now /\ now \in Nat
    BY LoopAssumption DEF Init
  <2> QED BY <2>1 DEF Gridded
<1>2. Gridded => NoDrift
  BY DEF Gridded, NoDrift
<1> QED BY <1>1, <1>2, TypeCorrect, GriddedStep, PTL DEF Spec

-----------------------------------------------------------------------------
(* The loop's body.                                                        *)

\* What is not integrated yet is paid for by the way the clock has gone, and a
\* stream has sent since the start of the period it counts.
Followed ==
  /\ integrated >= 0
  /\ integrated + Beyond(last_time) <= travel
  /\ jumps = 0 => last_time <= now /\ integrated = last_time - start
  /\ time_last_send = 0 \/ sent >= time_last_send
  /\ sent >= 0 \/ last_time < StreamPeriod \/ pc = "iterate"
  /\ pc # "iterate" /\ last_time >= StreamPeriod =>
       last_time - sent < StreamPeriod

\* Followed is inductive.
LEMMA FollowedStep == TypeOK /\ Followed /\ [Next]_vars => Followed'
<1> SUFFICES ASSUME TypeOK, Followed, [Next]_vars PROVE Followed'
  OBVIOUS
<1> USE LoopAssumption DEF TypeOK, Followed, Beyond
<1>1. CASE Iterate
  <2>1. /\ integrated' >= 0
        /\ integrated' + Beyond(last_time)' <= travel'
        /\ jumps' = 0 => last_time' <= now' /\ integrated' = last_time' - start'
    BY <1>1 DEF Iterate, Step
  <2>2. /\ pc = "iterate" /\ pc' = "sleep" /\ last_time' = now
        /\ IF now >= time_last_send + StreamPeriod
           THEN sent' = now /\ time_last_send' <= now
           ELSE UNCHANGED <<sent, time_last_send>>
    BY <1>1 DEF Iterate, Step, Stream
  <2>3. /\ time_last_send' = 0 \/ sent' >= time_last_send'
        /\ sent' >= 0 \/ last_time' < StreamPeriod \/ pc' = "iterate"
        /\ last_time' >= StreamPeriod => last_time' - sent' < StreamPeriod
    BY <2>2
  <2> QED BY <2>1, <2>3
<1>2. CASE SleepMissed \/ Sleep \/ Wake \/ Reset
  BY <1>2 DEF SleepMissed, Sleep, Wake, Reset, body
<1>3. CASE Clock
  BY <1>3 DEF Clock, ClockAdvances, ClockJumpsBack, body
<1>4. CASE UNCHANGED vars
  BY <1>4 DEF vars, rate, body
<1> QED BY <1>1, <1>2, <1>3, <1>4 DEF Next, Clock

\* The invariant holds at the start.
LEMMA FollowedInit == Init => Followed
BY LoopAssumption DEF Init, Followed, Beyond

\* The dynamics are integrated over exactly the time that the clock has moved
\* forward, no part twice and none backwards (px4_rotor_sim_node.cpp run()).
THEOREM DynamicsFollow == Spec => []DynamicsFollowClock
<1>1. TypeOK /\ Followed => DynamicsFollowClock
  BY DEF TypeOK, Followed, Beyond, DynamicsFollowClock
<1> QED BY <1>1, FollowedInit, FollowedStep, TypeCorrect, PTL DEF Spec

\* Each iteration leaves a stream less than a period old (MavlinkStream::Stream).
THEOREM StreamsAreKeptUp == Spec => []StreamsKeepUp
<1>1. Followed => StreamsKeepUp
  BY DEF Followed, StreamsKeepUp
<1> QED BY <1>1, FollowedInit, FollowedStep, TypeCorrect, PTL DEF Spec

=============================================================================
