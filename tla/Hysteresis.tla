----------------------------- MODULE Hysteresis -----------------------------
(***************************************************************************)
(* systemlib::Hysteresis: a flag that follows the value it is given only    *)
(* after that value has been requested, without a break, for the time the   *)
(* flag's present state asks for.  Time is counted in PX4 runs.             *)
(***************************************************************************)
EXTENDS Naturals

\* requested is _requested_state; since is now - _last_time_to_change_state,
\* kept at 0 while no change is requested, when the code does not read it.
Flags(limit) == [state : BOOLEAN, requested : BOOLEAN, since : 0 .. limit]

Settled(value) == [state |-> value, requested |-> value, since |-> 0]

\* One more run has passed.  No hold is longer than limit runs.
Aged(flag, limit) ==
    [flag EXCEPT !.since = IF flag.requested # flag.state /\ @ < limit THEN @ + 1 ELSE @]

\* Mutant: every call restarts the clock of a pending change.
SetState_Restarts(flag, value, hold) ==
    IF value = flag.state \/ hold = 0
    THEN Settled(value)
    ELSE [flag EXCEPT !.requested = value, !.since = 0]

\* set_state_and_update(value, now), where hold is the hysteresis time from
\* the present state.
SetState(flag, value, hold) ==
    LET since == IF flag.requested = value THEN flag.since ELSE 0
    IN  IF value = flag.state \/ since >= hold
        THEN Settled(value)
        ELSE [flag EXCEPT !.requested = value, !.since = since]
=============================================================================
