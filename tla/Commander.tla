------------------------------- MODULE Commander -------------------------------
(***************************************************************************)
(* The commander of the simulated PX4 (commander/Commander.cpp and         *)
(* state_machine_helper.cpp) and the MAVLink receiver and streamer around  *)
(* it.  PX4SITL::Run is one pass of three phases, between which messages   *)
(* keep arriving on another thread: the uORB topics hold only the latest   *)
(* message.  Time is counted in passes.                                    *)
(*                                                                         *)
(* RC is always lost and the estimate valid from the first pass on, as the *)
(* simulator has it.  "MANUAL" stands for MANUAL, STAB and ACRO, and       *)
(* "AUTO_FOLLOW_TARGET" for the modes set_nav_state has no case for.       *)
(* ALTCTL, which set_nav_state treats like MANUAL, and LOITER, RTL and     *)
(* TAKEOFF, which it treats like AUTO_LAND, are left out.                 *)
(***************************************************************************)
EXTENDS Hysteresis

CONSTANTS
  Commands,         \* the vehicle commands that may be sent: [id, param]
  LossTime,         \* COM_OF_LOSS_T
  StatusPeriod      \* the status is published at least this often (2 Hz)

ASSUME CommanderAssumption ==
  /\ LossTime \in Nat \ {0} /\ StatusPeriod \in Nat \ {0}
  /\ \A c \in Commands : DOMAIN c = {"id", "param"} /\ c.id # "nothing"

\* A topic without a message its reader has not seen.
NoMessage == [id |-> "nothing"]
NoSetpoint == "nothing"

VARIABLES
  phase,            \* the next step of the pass: "run", "commands" or "control"
  vehicle_command,        \* the unread message of the topic, or NoMessage
  vehicle_command_ack,    \* the unread acknowledgement, or NoMessage
  offboard_control_mode,  \* the kind of setpoint of the unread message, or NoSetpoint
  ocm,              \* the kind the commander read last
  available,        \* _offboard_available
  position_valid,   \* local_position_valid and its fellows
  status_changed,   \* _status_changed
  main_state,       \* _internal_state.main_state
  nav_state,        \* _status.nav_state
  armed,            \* _armed.armed
  status_age,       \* passes since the status was published
  vehicle_status,   \* the nav_state last published
  control_mode,     \* the vehicle_control_mode last published
  silence           \* auxiliary: passes since a valid setpoint was read

topics == <<vehicle_command, vehicle_command_ack, offboard_control_mode>>
commander == <<phase, ocm, available, position_valid, status_changed, main_state,
               nav_state, armed, status_age, vehicle_status, control_mode, silence>>
vars == <<topics, commander>>

\* offboard_control_signal_lost
Lost(flag) == ~flag.state

\* Setpoints that the position controller handles; the others are attitude
\* and rate setpoints.  "none" stands for no flag at all.
PositionKinds == {"position"}    \* and velocity and acceleration
Kinds == PositionKinds \cup {"attitude"}

\* update_control_mode: what the controllers are told.
ControlMode(is_armed, nav, kind) ==
  [flag_armed |-> is_armed,
   offboard |-> nav = "OFFBOARD",
   position_control |->
     \/ nav \in {"POSCTL", "AUTO_LAND"}
     \/ nav = "OFFBOARD" /\ kind \in PositionKinds]

(***************************************************************************)
(* Messages from the ground: the receiver publishes to the topics.         *)
(***************************************************************************)

\* handle_message_command_long, handle_message_set_mode
ReceiveCommand(c) ==
  /\ vehicle_command' = c
  /\ UNCHANGED <<vehicle_command_ack, offboard_control_mode, commander>>

\* handle_message_set_position_target_local_ned and .._attitude_target, as far
\* as the commander is concerned
ReceiveSetpoint(kind) ==
  /\ offboard_control_mode' = kind
  /\ UNCHANGED <<vehicle_command, vehicle_command_ack, commander>>

(***************************************************************************)
(* First phase: is there an offboard signal?                               *)
(***************************************************************************)

\* Mutant: a new kind of setpoint is not seen as a change of status.
OffboardControlUpdate_KindMissed ==
  /\ phase = "run"
  /\ phase' = "commands"
  /\ offboard_control_mode' = NoSetpoint
  /\ LET new == offboard_control_mode # NoSetpoint
         kind == IF new THEN offboard_control_mode ELSE ocm
         valid == new /\ (kind \in PositionKinds => position_valid)
     IN  /\ ocm' = kind
         /\ available' = SetState(Aged(available, LossTime), valid,
                                  IF available.state THEN LossTime ELSE 0)
         /\ status_changed' = (Lost(available') # Lost(available))
         /\ silence' = IF valid THEN 0
                       ELSE IF silence > LossTime THEN silence ELSE silence + 1
  /\ position_valid' = TRUE
  /\ status_age' = IF status_age < StatusPeriod THEN status_age + 1 ELSE status_age
  /\ UNCHANGED <<vehicle_command, vehicle_command_ack, main_state, nav_state,
                 armed, vehicle_status, control_mode>>

OffboardControlUpdate ==
  /\ phase = "run"
  /\ phase' = "commands"
  /\ offboard_control_mode' = NoSetpoint
  /\ LET new == offboard_control_mode # NoSetpoint
         kind == IF new THEN offboard_control_mode ELSE ocm
         valid == new /\ (kind \in PositionKinds => position_valid)
     IN  /\ ocm' = kind
         /\ available' = SetState(Aged(available, LossTime), valid,
                                  IF available.state THEN LossTime ELSE 0)
         /\ status_changed' = (kind # ocm \/ Lost(available') # Lost(available))
         /\ silence' = IF valid THEN 0
                       ELSE IF silence > LossTime THEN silence ELSE silence + 1
  /\ position_valid' = TRUE
  /\ status_age' = IF status_age < StatusPeriod THEN status_age + 1 ELSE status_age
  /\ UNCHANGED <<vehicle_command, vehicle_command_ack, main_state, nav_state,
                 armed, vehicle_status, control_mode>>

(***************************************************************************)
(* Second phase: the latest command, the navigation state, the status.     *)
(***************************************************************************)

\* main_state_transition: is the main state granted?  There is never a mission.
Granted(state) ==
  CASE state \in {"MANUAL", "AUTO_FOLLOW_TARGET"} -> TRUE
    [] state \in {"POSCTL", "AUTO_LAND"}          -> position_valid
    [] state = "OFFBOARD"                         -> ~Lost(available)
    [] OTHER                                      -> FALSE

\* The result handle_command answers with; "UNKNOWN" is a main mode it has no
\* case for.  It does not answer an arming action that is neither arm nor
\* disarm, nor SET_GPS_GLOBAL_ORIGIN.
Result(c) ==
  CASE c.id = "SET_MODE" -> IF c.param = "UNKNOWN" \/ Granted(c.param)
                            THEN "ACCEPTED" ELSE "TEMPORARILY_REJECTED"
    [] c.id = "ARM_DISARM" -> IF c.param \in {"arm", "disarm"}
                              THEN "ACCEPTED" ELSE "none"
    [] c.id = "SET_GPS_GLOBAL_ORIGIN" -> "none"
    [] OTHER -> "UNSUPPORTED"

HandleCommand ==
  LET c == vehicle_command
  IN  IF c = NoMessage
      THEN UNCHANGED <<vehicle_command, vehicle_command_ack, main_state, armed>>
      ELSE /\ vehicle_command' = NoMessage
           /\ vehicle_command_ack' = IF Result(c) = "none" THEN vehicle_command_ack
                                     ELSE [id |-> c.id, result |-> Result(c)]
           /\ main_state' = IF c.id = "SET_MODE" /\ Granted(c.param)
                            THEN c.param ELSE main_state
           /\ armed' = IF c.id = "ARM_DISARM" /\ c.param \in {"arm", "disarm"}
                       THEN c.param = "arm" ELSE armed

\* Mutant: a lost signal turns the main state, too, and OFFBOARD never resumes.
SetNavState_Keeps ==
  nav_state' = CASE main_state' = "MANUAL" -> IF armed' THEN nav_state ELSE "MANUAL"
                 [] main_state' \in {"POSCTL", "AUTO_LAND"} -> main_state'
                 [] main_state' = "OFFBOARD" ->
                      IF Lost(available) \/ nav_state = "POSCTL" THEN "POSCTL" ELSE "OFFBOARD"
                 [] OTHER -> nav_state

\* set_nav_state
SetNavState ==
  nav_state' = CASE main_state' = "MANUAL" -> IF armed' THEN nav_state ELSE "MANUAL"
                 [] main_state' \in {"POSCTL", "AUTO_LAND"} -> main_state'
                 [] main_state' = "OFFBOARD" ->
                      IF Lost(available) THEN "POSCTL" ELSE "OFFBOARD"
                 [] OTHER -> nav_state

Publishes ==
  \/ status_age >= StatusPeriod
  \/ status_changed \/ vehicle_command # NoMessage \/ nav_state' # nav_state

\* run, from the vehicle command to the published status
RunCommander ==
  /\ phase = "commands"
  /\ phase' = "control"
  /\ HandleCommand
  /\ SetNavState
  /\ IF Publishes
     THEN /\ control_mode' = ControlMode(armed', nav_state', ocm)
          /\ vehicle_status' = nav_state'
          /\ status_age' = 0
     ELSE UNCHANGED <<control_mode, vehicle_status, status_age>>
  /\ status_changed' = FALSE
  /\ UNCHANGED <<offboard_control_mode, ocm, available, position_valid, silence>>

\* Third phase, the last step of a pass: MavlinkStreamer::Stream sends the
\* acknowledgement.
StreamMavlink ==
  /\ phase = "control"
  /\ phase' = "run"
  /\ vehicle_command_ack' = NoMessage
  /\ UNCHANGED <<vehicle_command, offboard_control_mode, ocm, available,
                 position_valid, status_changed, main_state, nav_state, armed,
                 status_age, vehicle_status, control_mode, silence>>

Init ==
  /\ phase = "run"
  /\ vehicle_command = NoMessage
  /\ vehicle_command_ack = NoMessage
  /\ offboard_control_mode = NoSetpoint
  /\ ocm = "none"
  /\ available = Settled(FALSE)
  /\ position_valid = FALSE
  /\ status_changed = FALSE
  /\ main_state = "MANUAL" /\ nav_state = "MANUAL"
  /\ armed = FALSE
  /\ status_age \in {0, StatusPeriod}
  /\ vehicle_status = "MANUAL"
  /\ control_mode = ControlMode(FALSE, "MANUAL", "none")
  /\ silence = LossTime + 1

Receive ==
  \/ \E c \in Commands : ReceiveCommand(c)
  \/ \E kind \in Kinds : ReceiveSetpoint(kind)

Next == Receive \/ OffboardControlUpdate \/ RunCommander \/ StreamMavlink

Spec == Init /\ [][Next]_vars

NavStates == {"MANUAL", "POSCTL", "AUTO_LAND", "OFFBOARD"}
MainStates == NavStates \cup {"AUTO_FOLLOW_TARGET"}
Results == {"ACCEPTED", "TEMPORARILY_REJECTED", "UNSUPPORTED"}

TypeOK ==
  /\ phase \in {"run", "commands", "control"}
  /\ vehicle_command \in Commands \cup {NoMessage}
  /\ vehicle_command_ack \in {NoMessage}
       \cup [id : {c.id : c \in Commands}, result : Results]
  /\ offboard_control_mode \in Kinds \cup {NoSetpoint}
  /\ ocm \in Kinds \cup {"none"}
  /\ available \in Flags(LossTime)
  /\ position_valid \in BOOLEAN /\ status_changed \in BOOLEAN /\ armed \in BOOLEAN
  /\ main_state \in MainStates /\ nav_state \in NavStates
  /\ vehicle_status \in NavStates
  /\ control_mode \in [flag_armed : BOOLEAN, offboard : BOOLEAN, position_control : BOOLEAN]
  /\ status_age \in 0 .. StatusPeriod /\ silence \in 0 .. LossTime + 1

(***************************************************************************)
(* Safety                                                                  *)
(***************************************************************************)

\* Once OFFBOARD was granted, the vehicle flies by the setpoints exactly as long
\* as a valid one was read in the last LossTime passes: it falls back to POSCTL
\* in time, and comes back by itself with the first new setpoint
\* (offboard_control_update, set_nav_state, Hysteresis).
OffboardFollowsSetpoints ==
  phase = "control" /\ main_state = "OFFBOARD"
    => (nav_state = "OFFBOARD" <=> silence <= LossTime)

\* The control mode and status are published only now and then, yet the
\* controllers never run by one that is out of date: every change of what it is
\* made of is noticed in the pass it happens in (Commander::run).
ControlModeIsCurrent ==
  phase # "commands" =>
    /\ control_mode = ControlMode(armed, nav_state, ocm)
    /\ vehicle_status = nav_state
=============================================================================
