-------------------------------- MODULE SimLoop --------------------------------
(***************************************************************************)
(* The simulation thread of a rotor node (px4_rotor_sim_node.cpp, run()):  *)
(* a loop paced by fss_time::Rate (fss_time/src/rate.cpp) that steps the   *)
(* dynamics and the MAVLink streams, each with a rate of its own           *)
(* (mavlink_streamer.hpp).  The node's clock is not assumed to stand while *)
(* the thread computes, nor to wake it on time: without lock step it does  *)
(* neither, and a restarted time source takes it back.                     *)
(***************************************************************************)
EXTENDS Integers

CONSTANTS
  Period,           \* period_ of the Rate
  StreamPeriod,     \* period_us_ of a MAVLink stream
  Starts,           \* when the loop may begin
  Horizon,          \* bounds of the model on how far the clock goes
  MaxJumps          \* and on how often it jumps back

ASSUME LoopAssumption ==
  /\ Period \in Nat \ {0} /\ StreamPeriod \in Nat \ {0}
  /\ Starts \subseteq Nat
  /\ Horizon \in Nat /\ MaxJumps \in Nat

VARIABLES
  now,              \* the node's clock
  pc,               \* the loop: about to iterate, to sleep, or asleep
  last_interval,    \* last_interval_
  until,            \* next_interval of the sleep in progress
  last_time,        \* the time up to which the dynamics are integrated
  time_last_send,   \* time_last_send_ of the stream
  travel,           \* auxiliary: how far the clock has moved forward since the start
  ticks,            \* auxiliary: iterations that Rate::sleep has let through
  burst,            \* auxiliary: iterations let through since the clock last moved
  grid,             \* auxiliary: when the Rate was made or reset, plus a period per interval begun
  on_grid,          \* auxiliary: no long delay and no jump back since then
  jumps,            \* auxiliary: how often the clock has jumped back
  start,            \* auxiliary: the time at which the loop began
  integrated,       \* auxiliary: the sum of all steps of the dynamics
  sent              \* auxiliary: when the stream last sent, or -StreamPeriod before it did

rate == <<last_interval, until, ticks, burst, grid, on_grid>>
body == <<last_time, time_last_send, integrated, sent>>
vars == <<now, pc, rate, body, travel, jumps, start>>

-----------------------------------------------------------------------------
(* The loop's body.                                                        *)

\* Mutant: the period is counted from the time of each call.
Stream_Restarts(time) ==
  IF time > time_last_send + StreamPeriod
    THEN /\ sent' = time
         /\ time_last_send' = time
    ELSE UNCHANGED <<sent, time_last_send>>

\* MavlinkStream::Stream: on its grid, unless it has missed more than a period.
Stream(time) ==
  IF time >= time_last_send + StreamPeriod
    THEN /\ sent' = time
         /\ time_last_send' = IF time < time_last_send + 2 * StreamPeriod
                              THEN time_last_send + StreamPeriod ELSE time
    ELSE UNCHANGED <<sent, time_last_send>>

\* Mutant: a clock that moved backwards is not noticed.
Step_Backwards(current_time) ==
  /\ integrated' = integrated + (current_time - last_time)
  /\ last_time' = current_time

\* The dynamics are stepped from last_time; a clock that moved backwards
\* makes it an empty step.
Step(current_time) ==
  /\ integrated' = integrated +
       (IF current_time < last_time THEN 0 ELSE current_time - last_time)
  /\ last_time' = current_time

Iterate ==
  /\ pc = "iterate" /\ pc' = "sleep"
  /\ Stream(now)
  /\ Step(now)
  /\ UNCHANGED <<now, rate, travel, jumps, start>>

-----------------------------------------------------------------------------
(* Rate.                                                                   *)

NextInterval == IF now < last_interval THEN now + Period ELSE last_interval + Period

\* Mutant: after a long delay the missed intervals are made up for.
Skips_Never == FALSE

\* More than a whole further interval was missed.
Skips == now > NextInterval + Period

\* Mutant: the next interval is counted from the present.
Advance_FromNow == now + Period

Advance == last_interval + Period

\* Rate::sleep, the interval having passed already: the loop goes on at once.
SleepMissed ==
  /\ pc = "sleep" /\ pc' = "iterate"
  /\ NextInterval <= now
  /\ last_interval' = IF Skips THEN now + Period ELSE Advance
  /\ ticks' = ticks + 1
  /\ burst' = burst + 1
  /\ grid' = grid + Period
  /\ on_grid' = (on_grid /\ ~ Skips)
  /\ UNCHANGED <<now, until, body, travel, jumps, start>>

\* Rate::sleep: announce the next interval and sleep.
Sleep ==
  /\ pc = "sleep" /\ pc' = "asleep"
  /\ NextInterval > now
  /\ until' = NextInterval
  /\ last_interval' = Advance
  /\ grid' = grid + Period
  /\ UNCHANGED <<now, ticks, burst, on_grid, body, travel, jumps, start>>

\* The clock has reached the interval.
Wake ==
  /\ pc = "asleep" /\ pc' = "iterate"
  /\ now >= until
  /\ ticks' = ticks + 1
  /\ burst' = burst + 1
  /\ UNCHANGED <<now, last_interval, until, grid, on_grid, body, travel, jumps, start>>

\* Rate::reset, between two iterations.
Reset ==
  /\ pc = "sleep"
  /\ last_interval' = now
  /\ grid' = now /\ on_grid' = TRUE
  /\ UNCHANGED <<now, pc, until, ticks, burst, body, travel, jumps, start>>

-----------------------------------------------------------------------------
(* The clock.                                                              *)

ClockAdvances(t) ==
  /\ t > now
  /\ travel + (t - now) <= Horizon
  /\ now' = t
  /\ travel' = travel + (t - now)
  /\ burst' = 0
  /\ UNCHANGED <<pc, last_interval, until, ticks, grid, on_grid, body, jumps, start>>

ClockJumpsBack(t) ==
  /\ t < now
  /\ now' = t
  /\ jumps < MaxJumps /\ jumps' = jumps + 1
  /\ burst' = 0
  /\ on_grid' = FALSE
  /\ UNCHANGED <<pc, last_interval, until, ticks, grid, body, travel, start>>

-----------------------------------------------------------------------------
Init ==
  /\ now \in Starts
  /\ pc = "iterate"
  /\ last_interval = now /\ until = now /\ ticks = 0 /\ burst = 0 /\ grid = now /\ on_grid = TRUE
  /\ last_time = now /\ time_last_send = 0 /\ integrated = 0
  /\ sent = now - StreamPeriod
  /\ travel = 0 /\ jumps = 0 /\ start = now

Next ==
  \/ Iterate \/ SleepMissed \/ Sleep \/ Wake \/ Reset
  \/ (\E d \in 1 .. Horizon : ClockAdvances(now + d))
  \/ \E t \in 0 .. now : ClockJumpsBack(t)

Spec == Init /\ [][Next]_vars

-----------------------------------------------------------------------------
(* Properties.                                                             *)

TypeOK ==
  /\ now \in Nat /\ last_interval \in Nat /\ until \in Nat /\ last_time \in Nat
  /\ time_last_send \in Nat /\ travel \in Nat /\ ticks \in Nat /\ burst \in Nat /\ start \in Nat
  /\ grid \in Nat /\ on_grid \in BOOLEAN
  /\ integrated \in Int /\ sent \in Int
  /\ pc \in {"iterate", "sleep", "asleep"} /\ jumps \in Nat

\* Over any run, wherever the clock jumps and however late iterations end,
\* Rate::sleep lets no more iterations through than periods have passed, plus one.
PacedOverTime == ticks * Period <= travel + Period

\* What is made up for after a delay: up to three iterations at one instant (a
\* late wake-up and two intervals), and no missed interval comes back later.
NoBurst == burst <= 3

\* The loop neither outruns its rate nor replays the intervals it missed.
TickBudget == PacedOverTime /\ NoBurst

\* The Rate does not drift: the loop sleeps until exact multiples of the period
\* from the time it began, however late it was woken before, until the clock
\* jumps back or two further intervals are missed at once.
NoDrift == pc = "asleep" /\ on_grid => until = grid

\* Each iteration leaves the stream less than a period old: a stream that
\* missed its time neither lags behind nor falls silent.
StreamsKeepUp == pc # "iterate" /\ jumps = 0 /\ last_time >= StreamPeriod => last_time - sent < StreamPeriod

\* The dynamics are integrated over the time that the clock has moved forward,
\* no part twice and none backwards.
DynamicsFollowClock ==
  /\ integrated \in 0 .. travel
  /\ jumps = 0 => integrated = last_time - start

=============================================================================
