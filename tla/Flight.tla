-------------------------------- MODULE Flight --------------------------------
(***************************************************************************)
(* One simulated PX4 in flight: the commander, the land detector of        *)
(* PX4SITL, the take-off state machine (Takeoff.cpp) that the position     *)
(* controller drives (MulticopterPositionControl.cpp), and the receiver's  *)
(* handling of setpoints, which runs on another thread than the passes of  *)
(* PX4SITL::Run.  The dynamics are reduced to: on the ground or in the air.*)
(***************************************************************************)
EXTENDS Commander

CONSTANTS
  Setpoints,        \* what may be asked for: "up", "level" or "attitude"
  LandTime,         \* LNDMC_TRIG_TIME
  SpoolupTime,      \* COM_SPOOLUP_TIME
  RampTime,         \* MPC_TKO_RAMP_T
  LiftOff,          \* the ramp has lifted the vehicle after so many passes
  FreshTime         \* a setpoint older than 1 s starts no take-off

ASSUME FlightAssumption ==
  /\ Setpoints \subseteq {"up", "level", "attitude"}
  /\ {LandTime, SpoolupTime, RampTime, LiftOff, FreshTime} \subseteq Nat \ {0}

VARIABLES
  receiving,        \* the setpoint whose handler has published its kind only
  trajectory,       \* the unread message of trajectory_setpoint
  trajectory_age,   \* passes since that message was published
  setpoint,         \* _setpoint of the position controller
  setpoint_age,     \* passes since that setpoint was published
  mode_unread,      \* the land detector has not read the last control mode
  landed_flag,      \* _landed_hysteresis
  contact_flag,     \* _ground_contact_hysteresis
  land_detected,    \* vehicle_land_detected, as last published
  spoolup,          \* _spoolup_time_hysteresis
  takeoff,          \* _takeoff_state
  ramp,             \* _takeoff_ramp_progress, in passes
  want_takeoff,     \* _vehicle_constraints.want_takeoff
  height,           \* "ground" (up to 2 cm) or "air"
  aloft             \* auxiliary: passes since on the ground or told to disarm

flight == <<trajectory, trajectory_age, setpoint, setpoint_age, mode_unread,
            landed_flag, contact_flag, land_detected, spoolup, takeoff, ramp,
            want_takeoff, height, aloft>>
fvars == <<vars, receiving, flight>>

\* Setpoints ask to climb, for anything else by position, or for an attitude.
KindOf(s) == IF s = "attitude" THEN "attitude" ELSE "position"

(***************************************************************************)
(* The receiver                                                            *)
(***************************************************************************)

\* The handler publishes offboard_control_mode first ...
TakeSetpoint(s) ==
  /\ receiving = NoSetpoint
  /\ ReceiveSetpoint(KindOf(s))
  /\ receiving' = s
  /\ UNCHANGED flight

\* ... and the setpoint only if the published status says OFFBOARD.  Attitude
\* setpoints go to the attitude controller.
PublishSetpoint ==
  /\ receiving # NoSetpoint
  /\ receiving' = NoSetpoint
  /\ IF vehicle_status = "OFFBOARD" /\ receiving # "attitude"
     THEN trajectory' = receiving /\ trajectory_age' = 0
     ELSE UNCHANGED <<trajectory, trajectory_age>>
  /\ UNCHANGED <<vars, setpoint, setpoint_age, mode_unread, landed_flag,
                 contact_flag, land_detected, spoolup, takeoff, ramp,
                 want_takeoff, height, aloft>>

TakeCommand(c) == ReceiveCommand(c) /\ UNCHANGED <<receiving, flight>>

(***************************************************************************)
(* PX4SITL::Run                                                            *)
(***************************************************************************)

\* Mutant: the hysteresis of the ground contact is applied on lifting off, too.
DetectLand_SlowLiftOff ==
  LET armed_mode == control_mode.flag_armed
      landed_now == Aged(landed_flag, LandTime)
      contact_now == Aged(contact_flag, LandTime)
  IN  IF mode_unread
      THEN /\ landed_flag' = SetState(landed_now, height = "ground" \/ ~armed_mode, LandTime)
           /\ contact_flag' = SetState(contact_now, height = "ground", LandTime)
           /\ land_detected' = [landed |-> landed_flag'.state,
                                ground_contact |-> contact_flag'.state]
           /\ mode_unread' = FALSE
      ELSE /\ landed_flag' = landed_now
           /\ contact_flag' = contact_now
           /\ UNCHANGED <<land_detected, mode_unread>>

\* DectectLand looks at the vehicle only if the commander has published a
\* control mode since it looked last.
DetectLand ==
  LET armed_mode == control_mode.flag_armed
      landed_now == Aged(landed_flag, LandTime)
      contact_now == Aged(contact_flag, LandTime)
      Hold(flag) == IF flag.state THEN 0 ELSE LandTime
  IN  IF mode_unread
      THEN /\ landed_flag' = SetState(landed_now, height = "ground" \/ ~armed_mode,
                                      Hold(landed_flag))
           /\ contact_flag' = SetState(contact_now, height = "ground", Hold(contact_flag))
           /\ land_detected' = [landed |-> landed_flag'.state,
                                ground_contact |-> contact_flag'.state]
           /\ mode_unread' = FALSE
      ELSE /\ landed_flag' = landed_now
           /\ contact_flag' = contact_now
           /\ UNCHANGED <<land_detected, mode_unread>>

\* The states of Takeoff, in their order, and updateTakeoffState, whose cases
\* fall through.
Grounded == {"disarmed", "spoolup", "ready_for_takeoff"}
TakeoffStates == Grounded \cup {"rampup", "flight"}

UpdateTakeoff(is_armed, spooled, landed, want, skip) ==
  LET spooling == IF takeoff = "disarmed" THEN "spoolup" ELSE takeoff
      ready    == IF spooling = "spoolup" /\ spooled THEN "ready_for_takeoff" ELSE spooling
      ramping  == IF ready = "ready_for_takeoff" /\ want THEN "rampup" ELSE ready
      flying   == IF ramping = "rampup" /\ takeoff = "rampup" /\ ramp >= RampTime
                  THEN "flight" ELSE ramping
  IN  CASE ~is_armed                    -> "disarmed"
        [] is_armed /\ skip             -> "flight"
        [] flying = "flight" /\ landed  -> "ready_for_takeoff"
        [] OTHER                        -> flying

\* Ages are counted as far as they matter to a take-off.
Older(age) == IF age < FreshTime THEN age + 1 ELSE age

\* MulticopterPositionControl::Run in a mode it controls.  A setpoint that
\* arrives before the take-off, or in flight with ground contact, is replaced by
\* one that asks for no thrust ("down").  A setpoint that was published in a mode
\* it does not control is read late, with its age.  As long as there was no
\* setpoint at all ("none") the input is not valid and the failsafe resets
\* want_takeoff, which has not been set yet.
PositionControl ==
  LET new == trajectory # NoSetpoint
      target == IF new THEN trajectory ELSE setpoint
      age == IF new THEN trajectory_age ELSE setpoint_age
  IN  /\ want_takeoff' =
           IF control_mode.offboard
           THEN /\ control_mode.flag_armed /\ land_detected.landed
                /\ age < FreshTime /\ target = "up"
           ELSE want_takeoff /\ target # "none"
      /\ takeoff' = UpdateTakeoff(control_mode.flag_armed, spoolup'.state,
                                  land_detected.landed, want_takeoff', FALSE)
      /\ setpoint' = IF new /\ \/ takeoff' \in Grounded
                               \/ takeoff' = "flight" /\ land_detected.ground_contact
                     THEN "down" ELSE target
      /\ setpoint_age' = Older(age)
      /\ ramp' = CASE takeoff' # "rampup"                       -> 0
                   [] takeoff' = "rampup" /\ takeoff # "rampup" -> 1
                   [] OTHER -> IF ramp < RampTime THEN ramp + 1 ELSE ramp
      /\ trajectory' = NoSetpoint /\ trajectory_age' = 0

\* The same in a mode it does not control: the take-off is skipped.
NoPositionControl ==
  /\ takeoff' = UpdateTakeoff(control_mode.flag_armed, spoolup'.state,
                              land_detected.landed, FALSE, TRUE)
  /\ setpoint_age' = Older(setpoint_age)
  /\ trajectory_age' = IF trajectory = NoSetpoint THEN 0 ELSE Older(trajectory_age)
  /\ ramp' = 0
  /\ UNCHANGED <<want_takeoff, setpoint, trajectory>>

\* The dynamics: no thrust before the ramp in a mode the position controller
\* controls, unless the failsafe, which knows no ramp, flies by a setpoint of its
\* own; and enough of it once the ramp has lifted the vehicle.
Powerless ==
  control_mode.position_control /\ takeoff' \in Grounded /\ setpoint' # "none"
Lifted == takeoff' = "rampup" /\ ramp' >= LiftOff /\ setpoint' = "up"

Dynamics ==
  /\ height' \in CASE Powerless -> {"ground", height}
                   [] Lifted    -> {"air"}
                   [] OTHER     -> {"ground", "air"}
  /\ aloft' = IF height' = "ground" \/ ~control_mode.flag_armed THEN 0
              ELSE IF aloft <= StatusPeriod + 1 THEN aloft + 1 ELSE aloft

BeginPass ==
  /\ OffboardControlUpdate
  /\ DetectLand
  /\ UNCHANGED <<receiving, trajectory, trajectory_age, setpoint, setpoint_age,
                 spoolup, takeoff, ramp, want_takeoff, height, aloft>>

CommanderPass ==
  /\ RunCommander
  /\ mode_unread' = (mode_unread \/ Publishes)
  /\ UNCHANGED <<receiving, trajectory, trajectory_age, setpoint, setpoint_age,
                 landed_flag, contact_flag, land_detected, spoolup, takeoff, ramp,
                 want_takeoff, height, aloft>>

EndPass ==
  /\ StreamMavlink
  /\ spoolup' = SetState(Aged(spoolup, SpoolupTime), control_mode.flag_armed,
                         IF spoolup.state THEN 0 ELSE SpoolupTime)
  /\ IF control_mode.position_control THEN PositionControl ELSE NoPositionControl
  /\ Dynamics
  /\ UNCHANGED <<receiving, mode_unread, landed_flag, contact_flag, land_detected>>

FlightInit ==
  /\ Init
  /\ receiving = NoSetpoint /\ trajectory = NoSetpoint /\ trajectory_age = 0
  /\ setpoint = "none" /\ setpoint_age = FreshTime
  /\ mode_unread = FALSE
  /\ landed_flag = Settled(TRUE) /\ contact_flag = Settled(TRUE)
  /\ land_detected = [landed |-> FALSE, ground_contact |-> FALSE]
  /\ spoolup = Settled(FALSE)
  /\ takeoff = "disarmed" /\ ramp = 0 /\ want_takeoff = FALSE
  /\ height = "ground" /\ aloft = 0

Pass == BeginPass \/ CommanderPass \/ EndPass

FlightNext ==
  \/ \E c \in Commands : TakeCommand(c)
  \/ \E s \in Setpoints : TakeSetpoint(s)
  \/ PublishSetpoint
  \/ Pass

FlightSpec == FlightInit /\ [][FlightNext]_fvars

\* The simulation thread keeps running, a handler comes to its end, and what has
\* no thrust comes down.
FlightFairSpec ==
  /\ FlightSpec
  /\ WF_fvars(Pass)
  /\ WF_fvars(PublishSetpoint)
  /\ SF_fvars(EndPass /\ Powerless /\ height' = "ground")

FlightTypeOK ==
  /\ TypeOK
  /\ receiving \in Setpoints \cup {NoSetpoint}
  /\ trajectory \in {"up", "level", NoSetpoint}
  /\ setpoint \in {"up", "level", "down", "none"}
  /\ trajectory_age \in 0 .. FreshTime /\ setpoint_age \in 0 .. FreshTime
  /\ mode_unread \in BOOLEAN /\ want_takeoff \in BOOLEAN
  /\ landed_flag \in Flags(LandTime) /\ contact_flag \in Flags(LandTime)
  /\ land_detected \in [landed : BOOLEAN, ground_contact : BOOLEAN]
  /\ spoolup \in Flags(SpoolupTime)
  /\ takeoff \in TakeoffStates
  /\ ramp \in 0 .. RampTime
  /\ height \in {"ground", "air"} /\ aloft \in 0 .. StatusPeriod + 2

(***************************************************************************)
(* Properties                                                              *)
(***************************************************************************)

\* The take-off state leaves flight, which takes the thrust away, only if the
\* vehicle was disarmed or has been on the ground less than StatusPeriod passes
\* ago: the land detector looks only when a control mode was published, and may
\* be that far behind (px4_sitl.cpp DectectLand, Takeoff.cpp).
FlightEndsOnGround ==
  [][takeoff = "flight" /\ takeoff' = "ready_for_takeoff"
       => aloft < StatusPeriod]_fvars

\* A vehicle that stays armed in OFFBOARD and is asked to climb again and again
\* flies again and again, also when it was re-armed in the air, where it has to
\* come down first: the spool-up, the landed flag and the ramp cannot hold each
\* other up for good.
AskedToClimb ==
  /\ <>[](armed /\ nav_state = "OFFBOARD" /\ ocm = "position"
            /\ trajectory # "level" /\ setpoint # "level" /\ vehicle_command = NoMessage)
  /\ []<>(trajectory = "up")
TakesOff == AskedToClimb => []<>(takeoff = "flight")
=============================================================================
