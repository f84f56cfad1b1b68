----------------------------- MODULE MCCommanding -----------------------------
(* Model values for Commanding. *)
EXTENDS Commanding

MCCommands ==
  [id : {"SET_MODE"}, param : {"OFFBOARD", "POSCTL"}]
    \cup [id : {"ARM_DISARM"}, param : {"arm", "disarm", "other"}]
=============================================================================
