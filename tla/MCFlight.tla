------------------------------- MODULE MCFlight -------------------------------
(* Model values for Flight. *)
EXTENDS Flight

MCCommands ==
  [id : {"SET_MODE"}, param : {"OFFBOARD"}]
    \cup [id : {"ARM_DISARM"}, param : {"arm", "disarm"}]
=============================================================================
