---------------------------- MODULE LockStepClock ----------------------------
(***************************************************************************)
(* What fss_time promises to the threads that sleep on its clock, with no  *)
(* coordinator, no messages and no /clock topic: one shared clock and, for *)
(* each thread, the time at which it works.  A thread works from the       *)
(* moment the clock reaches that time until it chooses a new one, and the  *)
(* clock never jumps past a thread's time: it stands while anybody works.  *)
(***************************************************************************)
EXTENDS Naturals, Functions

CONSTANTS Threads, Infinite

Time == 0 .. Infinite

VARIABLES
  time,       \* the shared clock
  wakes       \* thread |-> the time at which it works, for those that take part

vars == <<time, wakes>>

Init == time = 0 /\ wakes = [p \in {} |-> 0]

\* A thread joins at work: its time has come.
Join(p) ==
  /\ p \notin DOMAIN wakes
  /\ \E t \in 0 .. time :
       wakes' = [q \in DOMAIN wakes \cup {p} |-> IF q = p THEN t ELSE wakes[q]]
  /\ UNCHANGED time

\* A thread that works decides when it works next.
Sleep(p) ==
  /\ p \in DOMAIN wakes /\ wakes[p] <= time
  /\ \E t \in Time : wakes' = [wakes EXCEPT ![p] = t]
  /\ UNCHANGED time

Leave(p) ==
  /\ p \in DOMAIN wakes
  /\ wakes' = Restrict(wakes, DOMAIN wakes \ {p})
  /\ UNCHANGED time

Advance(t) ==
  /\ t > time
  /\ \A p \in DOMAIN wakes : t <= wakes[p]
  /\ time' = t
  /\ UNCHANGED wakes

Next ==
  \/ \E p \in Threads : Join(p) \/ Sleep(p) \/ Leave(p)
  \/ \E t \in Time : Advance(t)

Spec == Init /\ [][Next]_vars

=============================================================================
