----------------------------- MODULE VehicleProofs -----------------------------
(***************************************************************************)
(* Theorems about the simulated vehicle: the commander (Commander), the    *)
(* commander with the land detector, the take-off and the receiver         *)
(* (Flight), and the commander behind the services of MAVROS Lite          *)
(* (Commanding).  They hold for every set of commands and setpoints and    *)
(* every delay: COM_OF_LOSS_T, the status period, the land detector's, the *)
(* spool-up and the ramp times.                                            *)
(***************************************************************************)
EXTENDS Flight, Commanding, TLAPS

-----------------------------------------------------------------------------
(* Hysteresis.                                                             *)

\* A settled flag.
LEMMA SettledFlag ==
  ASSUME NEW limit \in Nat, NEW value \in BOOLEAN
  PROVE  /\ Settled(value) \in Flags(limit)
         /\ Settled(value).state = value
         /\ Settled(value).requested = value
<1>1. Settled(value) \in Flags(limit)
  BY DEF Flags, Settled
<1> QED BY <1>1 DEF Settled

\* A flag that ages only counts the runs of a pending change.
LEMMA AgedFlag ==
  ASSUME NEW limit \in Nat, NEW flag \in Flags(limit)
  PROVE  /\ Aged(flag, limit) \in Flags(limit)
         /\ Aged(flag, limit).state = flag.state
         /\ Aged(flag, limit).requested = flag.requested
         /\ flag.requested # flag.state =>
              Aged(flag, limit).since
                = IF flag.since < limit THEN flag.since + 1 ELSE flag.since
<1>1. Aged(flag, limit) \in Flags(limit)
  BY DEF Flags, Aged
<1>2. Aged(flag, limit).state = flag.state
  BY DEF Flags, Aged
<1>3. Aged(flag, limit).requested = flag.requested
  BY DEF Flags, Aged
<1>4. flag.requested # flag.state =>
        Aged(flag, limit).since = IF flag.since < limit THEN flag.since + 1 ELSE flag.since
  BY DEF Flags, Aged
<1> QED BY <1>1, <1>2, <1>3, <1>4

\* set_state_and_update keeps the type of the flag.
LEMMA SetType ==
  ASSUME NEW limit \in Nat, NEW flag \in Flags(limit), NEW value \in BOOLEAN,
         NEW hold \in Nat
  PROVE  SetState(flag, value, hold) \in Flags(limit)
<1> DEFINE since == IF flag.requested = value THEN flag.since ELSE 0
<1>1. since \in 0 .. limit
  BY DEF Flags
<1>2. CASE value = flag.state \/ since >= hold
  BY <1>2, SettledFlag DEF SetState
<1>3. CASE ~ (value = flag.state \/ since >= hold)
  <2>1. SetState(flag, value, hold) = [flag EXCEPT !.requested = value, !.since = since]
    BY <1>3 DEF SetState
  <2> HIDE DEF since
  <2> QED BY <1>1, <2>1 DEF Flags
<1> QED BY <1>2, <1>3

\* A flag settles at its own state, and at any value that need not be held.
LEMMA SetSettles ==
  ASSUME NEW limit \in Nat, NEW flag \in Flags(limit), NEW value \in BOOLEAN,
         NEW hold \in Nat, value = flag.state \/ hold = 0
  PROVE  SetState(flag, value, hold) = Settled(value)
<1>1. (IF flag.requested = value THEN flag.since ELSE 0) >= 0
  BY DEF Flags
<1> QED BY <1>1 DEF SetState

-----------------------------------------------------------------------------
(* The offboard signal.                                                    *)

\* The facts about the constants that arithmetic needs.
LEMMA LossTimePositive ==
  LossTime \in Nat \ {0} /\ LossTime \in Nat /\ 0 <= LossTime /\ LossTime + 1 \in Nat
BY CommanderAssumption

\* flag is what n passes without a valid setpoint make of an available signal.
Silent(flag, n) ==
  /\ flag \in Flags(LossTime)
  /\ IF n <= LossTime THEN flag.state = TRUE ELSE flag.state = FALSE
  /\ n = 0 => flag.requested = TRUE
  /\ n \in 1 .. LossTime => flag.requested = FALSE /\ flag.since = n - 1

\* The availability of the signal is a function of how long it has been silent.
SignalIsHeld == silence \in 0 .. LossTime + 1 /\ Silent(available, silence)

\* How the first phase updates a signal that has been silent for n passes.
Updated(flag, valid) ==
  SetState(Aged(flag, LossTime), valid, IF flag.state THEN LossTime ELSE 0)

\* The three kinds of silence: a setpoint was read in this pass.
LEMMA Heard ==
  ASSUME NEW flag \in Flags(LossTime), flag.state = TRUE, flag.requested = TRUE
  PROVE  Silent(flag, 0)
<1>1. 0 <= LossTime /\ 0 \notin 1 .. LossTime
  BY LossTimePositive
<1> QED BY <1>1 DEF Silent

\* FALSE was requested with the first silent pass and does not hold yet.
LEMMA Pending ==
  ASSUME NEW n \in 1 .. LossTime, NEW flag \in Flags(LossTime),
         flag.state = TRUE, flag.requested = FALSE, flag.since = n - 1
  PROVE  Silent(flag, n)
<1>1. n <= LossTime /\ n # 0
  BY LossTimePositive
<1> QED BY <1>1 DEF Silent

\* The signal was silent for too long.
LEMMA Gone ==
  ASSUME NEW n \in Nat, n > LossTime, NEW flag \in Flags(LossTime), flag.state = FALSE
  PROVE  Silent(flag, n)
<1>1. ~ (n <= LossTime) /\ n # 0 /\ n \notin 1 .. LossTime
  BY LossTimePositive
<1> QED BY <1>1 DEF Silent

\* A silence that has just become longer.
LEMMA Longer ==
  ASSUME NEW n \in 0 .. LossTime, NEW flag \in Flags(LossTime),
         n >= LossTime => flag.state = FALSE,
         ~ (n >= LossTime) => flag.state = TRUE /\ flag.requested = FALSE /\ flag.since = n
  PROVE  Silent(flag, n + 1)
<1> USE LossTimePositive
<1>1. CASE n >= LossTime
  <2>1. n + 1 \in Nat /\ n + 1 > LossTime
    BY <1>1
  <2>2. flag.state = FALSE
    BY <1>1
  <2> QED BY <2>1, <2>2, Gone
<1>2. CASE ~ (n >= LossTime)
  <2>1. n + 1 \in 1 .. LossTime /\ n = n + 1 - 1
    BY <1>2
  <2>2. flag.state = TRUE /\ flag.requested = FALSE /\ flag.since = n + 1 - 1
    BY <1>2, <2>1
  <2> DEFINE longer == n + 1
  <2>3. longer \in 1 .. LossTime /\ flag.since = longer - 1
    BY <2>1, <2>2
  <2> HIDE DEF longer
  <2>4. Silent(flag, longer)
    BY <2>2, <2>3, Pending
  <2> QED BY <2>4 DEF longer
<1> QED BY <1>1, <1>2

\* A valid setpoint ends the silence.
LEMMA SilenceEnds ==
  ASSUME NEW n \in 0 .. LossTime + 1, NEW flag, Silent(flag, n),
         NEW new, new = Updated(flag, TRUE)
  PROVE  Silent(new, 0)
<1> USE LossTimePositive
<1> DEFINE aged == Aged(flag, LossTime)
<1>1. flag \in Flags(LossTime) /\ flag.state \in BOOLEAN
  BY DEF Silent, Flags
<1>2. aged \in Flags(LossTime) /\ aged.state = flag.state
  BY <1>1, AgedFlag
<1> HIDE DEF aged
<1>3. new = Settled(TRUE)
  <2>1. CASE flag.state = TRUE
    BY <1>2, <2>1, SetSettles DEF aged, Updated
  <2>2. CASE flag.state = FALSE
    BY <1>2, <2>2, SetSettles DEF aged, Updated
  <2> QED BY <1>1, <2>1, <2>2
<1>4. new \in Flags(LossTime) /\ new.state = TRUE /\ new.requested = TRUE
  BY <1>3, SettledFlag
<1> QED BY <1>4, Heard

\* A pass without one prolongs it.
LEMMA SilenceGoesOn ==
  ASSUME NEW n \in 0 .. LossTime + 1, NEW flag, Silent(flag, n),
         NEW new, new = Updated(flag, FALSE)
  PROVE  Silent(new, IF n > LossTime THEN n ELSE n + 1)
<1> USE LossTimePositive
<1> DEFINE aged == Aged(flag, LossTime)
<1>1. flag \in Flags(LossTime)
  BY DEF Silent
<1>2. aged \in Flags(LossTime) /\ aged.state = flag.state /\ aged.requested = flag.requested
  BY <1>1, AgedFlag
<1>3. CASE n = LossTime + 1
  <2>1. flag.state = FALSE
    BY <1>3 DEF Silent
  <2>2. new = Settled(FALSE)
    BY <1>2, <2>1, SetSettles DEF Updated
  <2>3. new \in Flags(LossTime) /\ new.state = FALSE
    BY <2>2, SettledFlag
  <2>4. n \in Nat /\ n > LossTime
    BY <1>3
  <2>5. Silent(new, n)
    BY <2>3, <2>4, Gone
  <2> QED BY <2>4, <2>5
<1>4. CASE n <= LossTime
  <2>1. flag.state = TRUE
    BY <1>4 DEF Silent
  <2>2. (IF aged.requested = FALSE THEN aged.since ELSE 0) = n
    <3>1. CASE n = 0
      BY <1>2, <3>1 DEF Silent
    <3>2. CASE n # 0
      <4>1. flag.requested = FALSE /\ flag.since = n - 1
        BY <1>4, <3>2 DEF Silent
      <4>2. aged.since = n
        BY <1>1, <1>4, <2>1, <4>1, AgedFlag
      <4> QED BY <1>2, <4>1, <4>2
    <3> QED BY <3>1, <3>2
  <2>3. new = SetState(aged, FALSE, LossTime)
    BY <2>1 DEF Updated
  <2> HIDE DEF aged
  <2>4. new \in Flags(LossTime)
    BY <1>2, <2>3, SetType
  <2>5. /\ n >= LossTime => new.state = FALSE
        /\ ~ (n >= LossTime) => new.state = TRUE /\ new.requested = FALSE /\ new.since = n
    <3>1. aged \in Flags(LossTime) /\ aged.state = TRUE /\ LossTime \in Nat
      BY <1>2, <2>1
    <3>2. CASE n >= LossTime
      <4>1. new = Settled(FALSE)
        BY <3>2, <2>2, <2>3 DEF SetState
      <4>2. new.state = FALSE
        BY <4>1, SettledFlag, LossTimePositive
      <4> QED BY <3>2, <4>2
    <3>3. CASE ~ (n >= LossTime)
      <4>1. new = [aged EXCEPT !.requested = FALSE, !.since = n]
        BY <3>1, <3>3, <2>2, <2>3 DEF SetState
      <4>2. new.state = TRUE
        BY <3>1, <4>1 DEF Flags
      <4>3. new.requested = FALSE
        BY <3>1, <4>1 DEF Flags
      <4>4. new.since = n
        BY <3>1, <4>1 DEF Flags
      <4> QED BY <3>3, <4>2, <4>3, <4>4
    <3> QED BY <3>2, <3>3
  <2>6. ~ (n > LossTime) /\ n \in 0 .. LossTime
    BY <1>4
  <2>7. Silent(new, n + 1)
    BY <2>4, <2>5, <2>6, Longer
  <2> QED BY <2>6, <2>7
<1>5. n = LossTime + 1 \/ n <= LossTime
  OBVIOUS
<1> QED BY <1>3, <1>4, <1>5

\* A pass' first phase keeps it so.
LEMMA SignalUpdate ==
  ASSUME SignalIsHeld, OffboardControlUpdate
  PROVE  SignalIsHeld'
<1> USE LossTimePositive
<1> DEFINE new == offboard_control_mode # NoSetpoint
           kind == IF new THEN offboard_control_mode ELSE ocm
           valid == new /\ (kind \in PositionKinds => position_valid)
<1>1. available' = Updated(available, valid)
      /\ silence' = IF valid THEN 0
                    ELSE IF silence > LossTime THEN silence ELSE silence + 1
  BY DEF OffboardControlUpdate, Updated
<1>2. valid \in BOOLEAN
  OBVIOUS
<1> HIDE DEF new, kind, valid
<1>3. CASE valid = TRUE
  <2>1. Silent(available', 0) /\ silence' = 0
    BY <1>1, <1>3, SilenceEnds DEF SignalIsHeld
  <2> QED BY <2>1 DEF SignalIsHeld, Silent
<1>4. CASE valid = FALSE
  <2>1. Silent(available', silence') /\ silence' = IF silence > LossTime THEN silence ELSE silence + 1
    BY <1>1, <1>4, SilenceGoesOn DEF SignalIsHeld
  <2> QED BY <2>1 DEF SignalIsHeld, Silent
<1> QED BY <1>2, <1>3, <1>4

\* The other steps leave the signal alone.
LEMMA SignalStep == SignalIsHeld /\ [Next]_vars => SignalIsHeld'
<1> SUFFICES ASSUME SignalIsHeld, [Next]_vars PROVE SignalIsHeld'
  OBVIOUS
<1>1. CASE Receive \/ RunCommander \/ StreamMavlink \/ UNCHANGED vars
  BY <1>1 DEF Receive, ReceiveCommand, ReceiveSetpoint, RunCommander, StreamMavlink,
              vars, commander, SignalIsHeld, Silent
<1> QED BY <1>1, SignalUpdate DEF Next

\* What OffboardFollowsSetpoints says, for the phase in which it is decided.
Followed ==
  phase = "control" /\ main_state = "OFFBOARD"
    => nav_state = IF silence <= LossTime THEN "OFFBOARD" ELSE "POSCTL"

\* Followed is kept.
LEMMA FollowedStep == SignalIsHeld /\ Followed /\ [Next]_vars => Followed'
<1> SUFFICES ASSUME SignalIsHeld, Followed, [Next]_vars PROVE Followed'
  OBVIOUS
<1>1. CASE RunCommander
  <2>1. silence' = silence /\ SetNavState
    BY <1>1 DEF RunCommander
  <2>2. Lost(available) <=> ~ (silence <= LossTime)
    BY DEF SignalIsHeld, Silent, Lost
  <2> QED BY <2>1, <2>2 DEF Followed, SetNavState
<1>2. CASE Receive \/ UNCHANGED vars
  BY <1>2 DEF Receive, ReceiveCommand, ReceiveSetpoint, vars, commander, Followed
<1>3. CASE OffboardControlUpdate \/ StreamMavlink
  BY <1>3 DEF OffboardControlUpdate, StreamMavlink, Followed
<1> QED BY <1>1, <1>2, <1>3 DEF Next

\* In OFFBOARD the vehicle flies by the setpoints exactly as long as one was read in the
\* last COM_OF_LOSS_T (offboard_control_update, set_nav_state).
THEOREM FollowsSetpoints == Spec => []OffboardFollowsSetpoints
<1>1. Init => SignalIsHeld /\ Followed
  <2> SUFFICES ASSUME Init PROVE SignalIsHeld /\ Followed
    OBVIOUS
  <2>1. available = Settled(FALSE) /\ silence = LossTime + 1 /\ phase = "run"
    BY DEF Init
  <2>2. available \in Flags(LossTime) /\ available.state = FALSE
    BY <2>1, SettledFlag, LossTimePositive
  <2>3. silence \in 0 .. LossTime + 1 /\ silence \in Nat /\ silence > LossTime
    BY <2>1, LossTimePositive
  <2>4. Silent(available, silence)
    BY <2>2, <2>3, Gone
  <2> QED BY <2>1, <2>3, <2>4 DEF SignalIsHeld, Followed
<1>2. Followed => OffboardFollowsSetpoints
  BY DEF Followed, OffboardFollowsSetpoints
<1> QED BY <1>1, <1>2, SignalStep, FollowedStep, PTL DEF Spec

-----------------------------------------------------------------------------
(* The published control mode.                                             *)

\* While the commands are still to be handled, a control mode that is out of
\* date is known to be.
ChangesAreNoticed ==
  /\ vehicle_status = nav_state
  /\ control_mode = ControlMode(armed, nav_state, ocm)
     \/ (phase = "commands" /\ status_changed)

\* ChangesAreNoticed is inductive.
LEMMA NoticedStep == ChangesAreNoticed /\ [Next]_vars => ChangesAreNoticed'
<1> SUFFICES ASSUME ChangesAreNoticed, [Next]_vars PROVE ChangesAreNoticed'
  OBVIOUS
<1>1. CASE OffboardControlUpdate
  <2>1. /\ armed' = armed /\ nav_state' = nav_state /\ vehicle_status' = vehicle_status
        /\ control_mode' = control_mode /\ phase = "run" /\ phase' = "commands"
    BY <1>1 DEF OffboardControlUpdate
  <2>2. ocm' = ocm \/ status_changed'
    BY <1>1 DEF OffboardControlUpdate
  <2> QED BY <2>1, <2>2 DEF ChangesAreNoticed, ControlMode
<1>2. CASE RunCommander
  <2>1. CASE Publishes
    <3>1. /\ control_mode' = ControlMode(armed', nav_state', ocm)
          /\ vehicle_status' = nav_state' /\ ocm' = ocm
      BY <1>2, <2>1 DEF RunCommander
    <3> QED BY <3>1 DEF ChangesAreNoticed, ControlMode
  <2>2. CASE ~ Publishes
    <3>1. armed' = armed /\ nav_state' = nav_state /\ ~ status_changed
      BY <1>2, <2>2 DEF RunCommander, Publishes, HandleCommand
    <3> QED BY <1>2, <2>2, <3>1 DEF RunCommander, ChangesAreNoticed
  <2> QED BY <2>1, <2>2
<1>3. CASE StreamMavlink
  BY <1>3 DEF StreamMavlink, ChangesAreNoticed
<1>4. CASE Receive \/ UNCHANGED vars
  BY <1>4 DEF Receive, ReceiveCommand, ReceiveSetpoint, vars, commander, ChangesAreNoticed
<1> QED BY <1>1, <1>2, <1>3, <1>4 DEF Next

\* The controllers never run by a control mode that is out of date, although it is
\* published only on changes and at 2 Hz (Commander::run).
THEOREM ModeIsCurrent == Spec => []ControlModeIsCurrent
<1>1. Init => ChangesAreNoticed
  <2> SUFFICES ASSUME Init PROVE ChangesAreNoticed
    OBVIOUS
  <2>1. /\ armed = FALSE /\ nav_state = "MANUAL" /\ ocm = "none"
        /\ control_mode = ControlMode(FALSE, "MANUAL", "none")
        /\ vehicle_status = "MANUAL"
    BY DEF Init
  <2> QED BY <2>1 DEF ChangesAreNoticed, ControlMode
<1>2. ChangesAreNoticed => ControlModeIsCurrent
  BY DEF ChangesAreNoticed, ControlModeIsCurrent
<1> QED BY <1>1, <1>2, NoticedStep, PTL DEF Spec

-----------------------------------------------------------------------------
(* Types of the commander.                                                 *)

\* The first phase of a pass keeps the types.
LEMMA UpdateType ==
  ASSUME TypeOK, OffboardControlUpdate
  PROVE  TypeOK'
<1> USE LossTimePositive
<1> DEFINE new == offboard_control_mode # NoSetpoint
           kind == IF new THEN offboard_control_mode ELSE ocm
           valid == new /\ (kind \in PositionKinds => position_valid)
           hold == IF available.state THEN LossTime ELSE 0
           aged == Aged(available, LossTime)
<1>1. /\ phase' = "commands" /\ offboard_control_mode' = NoSetpoint /\ ocm' = kind
      /\ available' = SetState(aged, valid, hold)
      /\ status_changed' \in BOOLEAN /\ position_valid' = TRUE
      /\ silence' = IF valid THEN 0 ELSE IF silence > LossTime THEN silence ELSE silence + 1
      /\ status_age' = IF status_age < StatusPeriod THEN status_age + 1 ELSE status_age
      /\ UNCHANGED <<vehicle_command, vehicle_command_ack, main_state, nav_state,
                     armed, vehicle_status, control_mode>>
  BY DEF OffboardControlUpdate
<1>2. kind \in Kinds \cup {"none"}
  BY DEF TypeOK
<1>3. aged \in Flags(LossTime)
  BY AgedFlag DEF TypeOK
<1>4. hold \in Nat /\ valid \in BOOLEAN
  OBVIOUS
<1> HIDE DEF aged, valid, hold, kind, new
<1>5. available' \in Flags(LossTime)
  BY <1>1, <1>3, <1>4, SetType
<1>6. status_age' \in 0 .. StatusPeriod
  BY <1>1, CommanderAssumption DEF TypeOK
<1>7. silence' \in 0 .. LossTime + 1
  BY <1>1 DEF TypeOK
<1> QED BY <1>1, <1>2, <1>5, <1>6, <1>7 DEF TypeOK

\* The second phase keeps them.
LEMMA RunType ==
  ASSUME TypeOK, RunCommander
  PROVE  TypeOK'
<1>1. /\ phase' = "control" /\ status_changed' = FALSE
      /\ UNCHANGED <<offboard_control_mode, ocm, available, position_valid, silence>>
  BY DEF RunCommander
<1>2. Result(vehicle_command) \in Results \cup {"none"}
  BY DEF Result, Results
<1>3. \A state : Granted(state) => state \in MainStates
  BY DEF Granted, MainStates, NavStates, TypeOK
<1>4. vehicle_command' = NoMessage /\ HandleCommand
  BY DEF RunCommander, HandleCommand
<1>5. main_state' \in MainStates /\ armed' \in BOOLEAN
  BY <1>3, <1>4 DEF HandleCommand, TypeOK
<1>6. vehicle_command_ack' \in {NoMessage} \cup [id : {c.id : c \in Commands}, result : Results]
  <2>1. CASE vehicle_command = NoMessage
    BY <1>4, <2>1 DEF HandleCommand, TypeOK
  <2>2. CASE vehicle_command # NoMessage
    <3>1. vehicle_command.id \in {c.id : c \in Commands}
      BY <2>2 DEF TypeOK
    <3> QED BY <1>2, <1>4, <2>2, <3>1 DEF HandleCommand, TypeOK
  <2> QED BY <2>1, <2>2
<1>7. nav_state' \in NavStates
  BY <1>5 DEF RunCommander, SetNavState, NavStates, TypeOK
<1>8. vehicle_status' \in NavStates
  BY <1>7 DEF RunCommander, TypeOK
<1>9. status_age' \in 0 .. StatusPeriod
  BY CommanderAssumption DEF RunCommander, TypeOK
<1>10. ASSUME NEW is_armed \in BOOLEAN, NEW nav, NEW kind
       PROVE  ControlMode(is_armed, nav, kind) \in
                [flag_armed : BOOLEAN, offboard : BOOLEAN, position_control : BOOLEAN]
  BY DEF ControlMode
<1>11. control_mode' \in [flag_armed : BOOLEAN, offboard : BOOLEAN, position_control : BOOLEAN]
  BY <1>5, <1>10 DEF RunCommander, TypeOK
<1> QED BY <1>1, <1>4, <1>5, <1>6, <1>7, <1>8, <1>9, <1>11 DEF TypeOK

LEMMA TypeStep == TypeOK /\ [Next]_vars => TypeOK'
<1> SUFFICES ASSUME TypeOK, [Next]_vars PROVE TypeOK'
  OBVIOUS
<1>1. CASE Receive \/ StreamMavlink \/ UNCHANGED vars
  BY <1>1 DEF Receive, ReceiveCommand, ReceiveSetpoint, StreamMavlink, vars, topics,
              commander, TypeOK
<1> QED BY <1>1, UpdateType, RunType DEF Next

LEMMA InitType == Init => TypeOK
<1> SUFFICES ASSUME Init PROVE TypeOK
  OBVIOUS
<1>1. available \in Flags(LossTime)
  BY SettledFlag, LossTimePositive DEF Init
<1>2. status_age \in 0 .. StatusPeriod /\ silence \in 0 .. LossTime + 1
  BY LossTimePositive, CommanderAssumption DEF Init
<1>3. control_mode \in [flag_armed : BOOLEAN, offboard : BOOLEAN, position_control : BOOLEAN]
  BY DEF Init, ControlMode
<1> QED BY <1>1, <1>2, <1>3 DEF Init, TypeOK, MainStates, NavStates

\* Every topic and every field of the commander keeps its type, whatever
\* commands are sent.
THEOREM CommanderTypeCorrect == Spec => []TypeOK
BY InitType, TypeStep, PTL DEF Spec

-----------------------------------------------------------------------------
(* In flight: every step of the vehicle is one of the commander.         *)

\* Every kind of setpoint is one that the commander knows.
LEMMA KindOfSetpoint == \A s \in Setpoints : KindOf(s) \in Kinds
BY DEF KindOf, Kinds, PositionKinds

\* A step in flight is a step of the commander or leaves it alone.
LEMMA FlightStep == [FlightNext]_fvars => [Next]_vars
<1> SUFFICES ASSUME [FlightNext]_fvars PROVE [Next]_vars
  OBVIOUS
<1>1. ASSUME NEW c \in Commands, TakeCommand(c) PROVE Next
  BY <1>1 DEF TakeCommand, Next, Receive
<1>2. ASSUME NEW s \in Setpoints, TakeSetpoint(s) PROVE Next
  <2>1. ReceiveSetpoint(KindOf(s)) /\ KindOf(s) \in Kinds
    BY <1>2, KindOfSetpoint DEF TakeSetpoint
  <2> QED BY <2>1 DEF Next, Receive
<1>3. CASE PublishSetpoint
  BY <1>3 DEF PublishSetpoint
<1>4. CASE Pass
  BY <1>4 DEF Pass, BeginPass, CommanderPass, EndPass, Next
<1>5. CASE UNCHANGED fvars
  BY <1>5 DEF fvars
<1> QED BY <1>1, <1>2, <1>3, <1>4, <1>5 DEF FlightNext

\* Flight implements Commander.
THEOREM FlightImplementsCommander == FlightSpec => Spec
<1>1. FlightInit => Init
  BY DEF FlightInit
<1> QED BY <1>1, FlightStep, PTL DEF FlightSpec, Spec

\* In flight, too, OFFBOARD is flown exactly as long as setpoints are heard.
THEOREM FlightFollowsSetpoints == FlightSpec => []OffboardFollowsSetpoints
BY FlightImplementsCommander, FollowsSetpoints, PTL

\* In flight, too, the controllers run by the present control mode.
THEOREM FlightModeIsCurrent == FlightSpec => []ControlModeIsCurrent
BY FlightImplementsCommander, ModeIsCurrent, PTL

-----------------------------------------------------------------------------
(* Types in flight.                                                        *)

\* The facts about the constants that arithmetic needs.
LEMMA FlightTimes ==
  /\ StatusPeriod \in Nat \ {0} /\ LandTime \in Nat \ {0} /\ SpoolupTime \in Nat \ {0}
  /\ RampTime \in Nat \ {0} /\ FreshTime \in Nat \ {0}
  /\ Setpoints \subseteq {"up", "level", "attitude"}
BY CommanderAssumption, FlightAssumption

\* The land detector keeps its types.
LEMMA DetectType ==
  ASSUME FlightTypeOK, DetectLand
  PROVE  /\ landed_flag' \in Flags(LandTime) /\ contact_flag' \in Flags(LandTime)
         /\ land_detected' \in [landed : BOOLEAN, ground_contact : BOOLEAN]
         /\ mode_unread' \in BOOLEAN
<1> USE FlightTimes
<1> DEFINE landed_now == Aged(landed_flag, LandTime)
           contact_now == Aged(contact_flag, LandTime)
           aground == height = "ground"
           down == height = "ground" \/ ~ control_mode.flag_armed
           landed_hold == IF landed_flag.state THEN 0 ELSE LandTime
           contact_hold == IF contact_flag.state THEN 0 ELSE LandTime
<1>1. \/ /\ landed_flag' = SetState(landed_now, down, landed_hold)
         /\ contact_flag' = SetState(contact_now, aground, contact_hold)
         /\ land_detected' = [landed |-> landed_flag'.state,
                              ground_contact |-> contact_flag'.state]
         /\ mode_unread' = FALSE
      \/ /\ landed_flag' = landed_now /\ contact_flag' = contact_now
         /\ UNCHANGED <<land_detected, mode_unread>>
  BY DEF DetectLand
<1>2. landed_now \in Flags(LandTime) /\ contact_now \in Flags(LandTime)
  BY AgedFlag DEF FlightTypeOK
<1>3. landed_hold \in Nat /\ contact_hold \in Nat /\ down \in BOOLEAN /\ aground \in BOOLEAN
  OBVIOUS
<1> HIDE DEF landed_now, contact_now, aground, down, landed_hold, contact_hold
<1>4. SetState(landed_now, down, landed_hold) \in Flags(LandTime)
  BY <1>2, <1>3, SetType
<1>5. SetState(contact_now, aground, contact_hold) \in Flags(LandTime)
  BY <1>2, <1>3, SetType
<1>6. landed_flag' \in Flags(LandTime) /\ contact_flag' \in Flags(LandTime)
  BY <1>1, <1>2, <1>4, <1>5
<1>7. landed_flag'.state \in BOOLEAN /\ contact_flag'.state \in BOOLEAN
  BY <1>6 DEF Flags
<1>8. mode_unread' \in BOOLEAN
  BY <1>1 DEF FlightTypeOK
<1>9. land_detected' \in [landed : BOOLEAN, ground_contact : BOOLEAN]
  BY <1>1, <1>7 DEF FlightTypeOK
<1> QED BY <1>6, <1>8, <1>9

\* The last phase of a pass keeps the types of the take-off.
LEMMA EndPassType ==
  ASSUME FlightTypeOK, EndPass
  PROVE  FlightTypeOK'
<1> USE FlightTimes
<1>1. TypeOK'
  BY TypeStep DEF EndPass, Next, FlightTypeOK
<1>2. spoolup' \in Flags(SpoolupTime)
  <2> DEFINE aged == Aged(spoolup, SpoolupTime)
             value == control_mode.flag_armed
             hold == IF spoolup.state THEN 0 ELSE SpoolupTime
  <2>1. spoolup' = SetState(aged, value, hold)
    BY DEF EndPass
  <2>2. aged \in Flags(SpoolupTime) /\ hold \in Nat
    BY AgedFlag DEF FlightTypeOK
  <2>3. value \in BOOLEAN
    BY DEF FlightTypeOK, TypeOK
  <2> HIDE DEF aged, value, hold
  <2> QED BY <2>1, <2>2, <2>3, SetType
<1>3. \A is_armed, spooled, landed, want, skip :
        UpdateTakeoff(is_armed, spooled, landed, want, skip) \in TakeoffStates
  BY DEF UpdateTakeoff, TakeoffStates, Grounded, FlightTypeOK
<1>4. /\ takeoff' \in TakeoffStates /\ want_takeoff' \in BOOLEAN
      /\ trajectory' \in {"up", "level", NoSetpoint}
      /\ setpoint' \in {"up", "level", "down", "none"}
      /\ trajectory_age' \in 0 .. FreshTime /\ setpoint_age' \in 0 .. FreshTime
      /\ ramp' \in 0 .. RampTime
  <2>1. CASE PositionControl
    <3>1. takeoff' \in TakeoffStates /\ trajectory' = NoSetpoint
      BY <1>3, <2>1 DEF PositionControl
    <3>2. want_takeoff' \in BOOLEAN
      BY <2>1 DEF PositionControl, FlightTypeOK
    <3>3. setpoint' \in {"up", "level", "down", "none"}
      BY <2>1 DEF PositionControl, FlightTypeOK
    <3>4. trajectory_age' \in 0 .. FreshTime /\ setpoint_age' \in 0 .. FreshTime
      BY <2>1 DEF PositionControl, Older, FlightTypeOK
    <3>5. ramp' \in 0 .. RampTime
      <4>1. ramp' = CASE takeoff' # "rampup"                       -> 0
                      [] takeoff' = "rampup" /\ takeoff # "rampup" -> 1
                      [] OTHER -> IF ramp < RampTime THEN ramp + 1 ELSE ramp
        BY <2>1 DEF PositionControl
      <4>2. ramp \in 0 .. RampTime
        BY DEF FlightTypeOK
      <4> QED BY <4>1, <4>2
    <3> QED BY <3>1, <3>2, <3>3, <3>4, <3>5
  <2>2. CASE NoPositionControl
    <3>1. takeoff' \in TakeoffStates
      BY <1>3, <2>2 DEF NoPositionControl
    <3>2. UNCHANGED <<want_takeoff, setpoint, trajectory>> /\ ramp' = 0
      BY <2>2 DEF NoPositionControl
    <3>3. trajectory_age' \in 0 .. FreshTime /\ setpoint_age' \in 0 .. FreshTime
      BY <2>2 DEF NoPositionControl, Older, FlightTypeOK
    <3> QED BY <3>1, <3>2, <3>3 DEF FlightTypeOK
  <2> QED BY <2>1, <2>2 DEF EndPass
<1>5. height' \in {"ground", "air"} /\ aloft' \in 0 .. StatusPeriod + 2
  BY DEF EndPass, Dynamics, FlightTypeOK
<1>6. UNCHANGED <<receiving, mode_unread, landed_flag, contact_flag, land_detected>>
  BY DEF EndPass
<1> QED BY <1>1, <1>2, <1>4, <1>5, <1>6 DEF FlightTypeOK

LEMMA FlightTypeStep == FlightTypeOK /\ [FlightNext]_fvars => FlightTypeOK'
<1> SUFFICES ASSUME FlightTypeOK, [FlightNext]_fvars PROVE FlightTypeOK'
  OBVIOUS
<1>1. TypeOK'
  BY FlightStep, TypeStep DEF FlightTypeOK
<1>2. ASSUME NEW c \in Commands, TakeCommand(c) PROVE FlightTypeOK'
  BY <1>1, <1>2 DEF TakeCommand, flight, FlightTypeOK
<1>3. ASSUME NEW s \in Setpoints, TakeSetpoint(s) PROVE FlightTypeOK'
  BY <1>1, <1>3 DEF TakeSetpoint, flight, FlightTypeOK
<1>4. CASE PublishSetpoint
  BY <1>1, <1>4, FlightTimes DEF PublishSetpoint, FlightTypeOK
<1>5. CASE BeginPass
  <2>1. UNCHANGED <<receiving, trajectory, trajectory_age, setpoint, setpoint_age,
                    spoolup, takeoff, ramp, want_takeoff, height, aloft>>
    BY <1>5 DEF BeginPass
  <2>2. /\ landed_flag' \in Flags(LandTime) /\ contact_flag' \in Flags(LandTime)
        /\ land_detected' \in [landed : BOOLEAN, ground_contact : BOOLEAN]
        /\ mode_unread' \in BOOLEAN
    BY <1>5, DetectType DEF BeginPass
  <2> QED BY <1>1, <2>1, <2>2 DEF FlightTypeOK
<1>6. CASE CommanderPass
  <2>1. mode_unread' \in BOOLEAN
    BY <1>6 DEF CommanderPass
  <2> QED BY <1>1, <1>6, <2>1 DEF CommanderPass, FlightTypeOK
<1>7. CASE UNCHANGED fvars
  BY <1>1, <1>7 DEF fvars, flight, FlightTypeOK
<1> QED BY <1>2, <1>3, <1>4, <1>5, <1>6, <1>7, EndPassType DEF FlightNext, Pass

\* Every variable of the land detector, the take-off and the receiver keeps its type.
THEOREM FlightTypeCorrect == FlightSpec => []FlightTypeOK
<1>1. FlightInit => FlightTypeOK
  <2> SUFFICES ASSUME FlightInit PROVE FlightTypeOK
    OBVIOUS
  <2> USE FlightTimes
  <2>1. TypeOK
    BY InitType DEF FlightInit
  <2>2. /\ landed_flag \in Flags(LandTime) /\ contact_flag \in Flags(LandTime)
        /\ spoolup \in Flags(SpoolupTime)
    BY SettledFlag DEF FlightInit
  <2>3. land_detected \in [landed : BOOLEAN, ground_contact : BOOLEAN]
    BY DEF FlightInit
  <2>4. /\ trajectory_age \in 0 .. FreshTime /\ setpoint_age \in 0 .. FreshTime
        /\ ramp \in 0 .. RampTime /\ aloft \in 0 .. StatusPeriod + 2
    BY DEF FlightInit
  <2>5. takeoff \in TakeoffStates
    BY DEF FlightInit, TakeoffStates, Grounded
  <2> QED BY <2>1, <2>2, <2>3, <2>4, <2>5 DEF FlightInit, FlightTypeOK
<1> QED BY <1>1, FlightTypeStep, PTL DEF FlightSpec

-----------------------------------------------------------------------------
(* How far the land detector is behind.                                    *)

\* In the air the count runs only while the vehicle is armed.
DownAtFirst ==
  phase = "run" /\ (height = "ground" \/ ~ control_mode.flag_armed) => aloft = 0

\* A control mode that the detector has not read was published in this pass.
UnreadIsNew == mode_unread => status_age = 0 /\ phase # "commands"

\* While the detector says that the vehicle has landed, a control mode was
\* published at most as many passes ago as the status is old, and the vehicle
\* has left the ground since then.
LandedIsRecent ==
  land_detected.landed =>
    /\ phase = "run" => IF mode_unread THEN aloft <= StatusPeriod
                        ELSE aloft <= status_age /\ status_age < StatusPeriod
    /\ phase = "commands" => aloft + 1 <= status_age
    /\ phase = "control" => IF mode_unread THEN aloft < StatusPeriod
                            ELSE aloft + 1 <= status_age /\ status_age < StatusPeriod

LandedInv == DownAtFirst /\ UnreadIsNew /\ LandedIsRecent

\* A detector that reads a control mode in the air of an armed vehicle says at once
\* that it has not landed.
LEMMA AirborneIsSeen ==
  ASSUME FlightTypeOK, DetectLand, mode_unread, height = "air", control_mode.flag_armed
  PROVE  ~ land_detected'.landed
<1> USE FlightTimes
<1> DEFINE aged == Aged(landed_flag, LandTime)
           hold == IF landed_flag.state THEN 0 ELSE LandTime
           down == height = "ground" \/ ~ control_mode.flag_armed
<1>0. /\ landed_flag' = SetState(aged, down, hold)
      /\ land_detected' = [landed |-> landed_flag'.state,
                           ground_contact |-> contact_flag'.state]
  BY DEF DetectLand
<1>1. /\ landed_flag' = SetState(aged, FALSE, hold)
      /\ land_detected'.landed = landed_flag'.state
  <2>1. down = FALSE
    OBVIOUS
  <2> HIDE DEF down, aged, hold
  <2> QED BY <1>0, <2>1
<1>2. landed_flag \in Flags(LandTime) /\ landed_flag.state \in BOOLEAN
  BY DEF FlightTypeOK, Flags
<1>3. aged \in Flags(LandTime) /\ aged.state = landed_flag.state
  BY <1>2, AgedFlag
<1>4. hold \in Nat /\ (FALSE = aged.state \/ hold = 0)
  BY <1>2, <1>3
<1> HIDE DEF aged, hold
<1>5. landed_flag' = Settled(FALSE)
  BY <1>1, <1>3, <1>4, SetSettles
<1> QED BY <1>1, <1>5, SettledFlag

\* The land detector's turn.
LEMMA DetectKeeps ==
  ASSUME FlightTypeOK, LandedInv, BeginPass
  PROVE  LandedInv'
<1> USE FlightTimes
<1>1. /\ phase = "run" /\ phase' = "commands" /\ aloft' = aloft
      /\ status_age' = IF status_age < StatusPeriod THEN status_age + 1 ELSE status_age
  BY DEF BeginPass, OffboardControlUpdate
<1>2. status_age \in 0 .. StatusPeriod /\ aloft \in Nat /\ height \in {"ground", "air"}
  BY DEF FlightTypeOK, TypeOK
<1>3. mode_unread' = FALSE
  BY DEF BeginPass, DetectLand, FlightTypeOK
<1>4. ASSUME land_detected'.landed
      PROVE  aloft + 1 <= status_age'
  <2>1. CASE mode_unread
    <3>1. height = "ground" \/ ~ control_mode.flag_armed
      BY <1>2, <1>4, <2>1, AirborneIsSeen DEF BeginPass
    <3>2. aloft = 0
      BY <1>1, <3>1 DEF LandedInv, DownAtFirst
    <3>3. status_age = 0
      BY <2>1 DEF LandedInv, UnreadIsNew
    <3> QED BY <1>1, <3>2, <3>3
  <2>2. CASE ~ mode_unread
    <3>1. land_detected.landed
      BY <1>4, <2>2 DEF BeginPass, DetectLand
    <3>2. aloft <= status_age /\ status_age < StatusPeriod
      BY <1>1, <2>2, <3>1 DEF LandedInv, LandedIsRecent
    <3> QED BY <1>1, <1>2, <3>2
  <2> QED BY <2>1, <2>2
<1> QED BY <1>1, <1>3, <1>4 DEF LandedInv, DownAtFirst, UnreadIsNew, LandedIsRecent

\* The commander publishes a control mode in time.
LEMMA PublishingKeeps ==
  ASSUME FlightTypeOK, LandedInv, CommanderPass
  PROVE  LandedInv'
<1> USE FlightTimes
<1>1. /\ phase = "commands" /\ phase' = "control" /\ aloft' = aloft
      /\ land_detected' = land_detected /\ mode_unread' = (mode_unread \/ Publishes)
      /\ status_age' = IF Publishes THEN 0 ELSE status_age
  BY DEF CommanderPass, RunCommander
<1>2. status_age \in 0 .. StatusPeriod /\ aloft \in Nat
  BY DEF FlightTypeOK, TypeOK
<1>3. ~ mode_unread
  BY <1>1 DEF LandedInv, UnreadIsNew
<1>4. ~ Publishes => status_age < StatusPeriod
  BY <1>2 DEF Publishes
<1>5. land_detected.landed => aloft + 1 <= status_age
  BY <1>1 DEF LandedInv, LandedIsRecent
<1>6. CASE Publishes
  <2>1. mode_unread' = TRUE /\ status_age' = 0
    BY <1>1, <1>6
  <2> QED BY <1>1, <1>2, <1>5, <2>1 DEF LandedInv, DownAtFirst, UnreadIsNew, LandedIsRecent
<1>7. CASE ~ Publishes
  <2>1. mode_unread' = FALSE /\ status_age' = status_age
    BY <1>1, <1>3, <1>7
  <2> QED BY <1>1, <1>2, <1>4, <1>5, <1>7, <2>1
          DEF LandedInv, DownAtFirst, UnreadIsNew, LandedIsRecent
<1> QED BY <1>6, <1>7

\* The vehicle moves.
LEMMA MovingKeeps ==
  ASSUME FlightTypeOK, LandedInv, EndPass
  PROVE  LandedInv'
<1> USE FlightTimes
<1>1. /\ phase = "control" /\ phase' = "run"
      /\ UNCHANGED <<status_age, control_mode, land_detected, mode_unread>>
      /\ aloft' = IF height' = "ground" \/ ~ control_mode.flag_armed THEN 0
                  ELSE IF aloft <= StatusPeriod + 1 THEN aloft + 1 ELSE aloft
  BY DEF EndPass, StreamMavlink, Dynamics
<1>2. status_age \in 0 .. StatusPeriod /\ aloft \in Nat
  BY DEF FlightTypeOK, TypeOK
<1>3. aloft' <= aloft + 1 /\ aloft' \in Nat
  BY <1>1, <1>2
<1>4. DownAtFirst'
  BY <1>1 DEF DownAtFirst
<1> QED BY <1>1, <1>2, <1>3, <1>4 DEF LandedInv, UnreadIsNew, LandedIsRecent

LEMMA LandedStep == FlightTypeOK /\ LandedInv /\ [FlightNext]_fvars => LandedInv'
<1> SUFFICES ASSUME FlightTypeOK, LandedInv, [FlightNext]_fvars PROVE LandedInv'
  OBVIOUS
<1>1. CASE UNCHANGED <<phase, height, control_mode, aloft, mode_unread, status_age, land_detected>>
  BY <1>1 DEF LandedInv, DownAtFirst, UnreadIsNew, LandedIsRecent
<1>2. ASSUME NEW c \in Commands, TakeCommand(c) PROVE LandedInv'
  BY <1>1, <1>2 DEF TakeCommand, ReceiveCommand, commander, flight
<1>3. ASSUME NEW s \in Setpoints, TakeSetpoint(s) PROVE LandedInv'
  BY <1>1, <1>3 DEF TakeSetpoint, ReceiveSetpoint, commander, flight
<1>4. CASE PublishSetpoint \/ UNCHANGED fvars
  BY <1>1, <1>4 DEF PublishSetpoint, fvars, vars, commander, flight
<1> QED BY <1>2, <1>3, <1>4, DetectKeeps, PublishingKeeps, MovingKeeps DEF FlightNext, Pass

\* The land detector is never more than StatusPeriod passes behind the vehicle.
THEOREM DetectorKeepsUp == FlightSpec => []LandedInv
<1>1. FlightInit => LandedInv
  <2> SUFFICES ASSUME FlightInit PROVE LandedInv
    OBVIOUS
  <2>1. aloft = 0 /\ mode_unread = FALSE /\ land_detected.landed = FALSE
    BY DEF FlightInit
  <2> QED BY <2>1 DEF LandedInv, DownAtFirst, UnreadIsNew, LandedIsRecent
<1> QED BY <1>1, LandedStep, FlightTypeCorrect, PTL DEF FlightSpec

\* The take-off leaves flight only for a vehicle that was disarmed, or on the
\* ground less than StatusPeriod passes ago (DectectLand, updateTakeoffState).
THEOREM FlightEndsDown == FlightSpec => FlightEndsOnGround
<1>1. FlightTypeOK /\ LandedInv /\ [FlightNext]_fvars =>
        [takeoff = "flight" /\ takeoff' = "ready_for_takeoff" => aloft < StatusPeriod]_fvars
  <2> SUFFICES ASSUME FlightTypeOK, LandedInv, FlightNext,
                      takeoff = "flight", takeoff' = "ready_for_takeoff"
               PROVE  aloft < StatusPeriod
    OBVIOUS
  <2>1. EndPass
    BY DEF FlightNext, TakeCommand, TakeSetpoint, PublishSetpoint, Pass, BeginPass,
           CommanderPass, flight
  <2>2. land_detected.landed
    <3>1. CASE PositionControl
      BY <3>1 DEF PositionControl, UpdateTakeoff
    <3>2. CASE NoPositionControl
      BY <3>2 DEF NoPositionControl, UpdateTakeoff
    <3> QED BY <2>1, <3>1, <3>2 DEF EndPass
  <2>3. phase = "control"
    BY <2>1 DEF EndPass, StreamMavlink
  <2>4. status_age \in Nat /\ aloft \in Nat /\ StatusPeriod \in Nat
    BY FlightTimes DEF FlightTypeOK, TypeOK
  <2> QED BY <2>2, <2>3, <2>4 DEF LandedInv, LandedIsRecent
<1> QED BY <1>1, FlightTypeCorrect, DetectorKeepsUp, PTL DEF FlightSpec, FlightEndsOnGround

-----------------------------------------------------------------------------
(* Behind the services of MAVROS Lite.                                   *)

\* A step of the services is a step of the commander or leaves it alone.
LEMMA CommandingStep ==
  (service # "idle" => call.command \in Commands) /\ [CommandingNext]_cvars => [Next]_vars
<1> SUFFICES ASSUME service # "idle" => call.command \in Commands, [CommandingNext]_cvars
             PROVE  [Next]_vars
  OBVIOUS
<1>1. ASSUME NEW c \in Commands, NEW b \in BOOLEAN, BeginCall(c, b) PROVE UNCHANGED vars
  BY <1>1 DEF BeginCall
<1>2. CASE SendCall
  <2>1. UNCHANGED vars \/ (ReceiveCommand(call.command) /\ call.command \in Commands)
    BY <1>2 DEF SendCall
  <2> QED BY <2>1 DEF Next, Receive
<1>3. CASE Acknowledged \/ Timeout
  BY <1>3 DEF Acknowledged, Timeout, EndCall
<1>4. ASSUME NEW c \in Commands, SetMode(c) PROVE Next
  BY <1>4 DEF SetMode, Next, Receive
<1>5. ASSUME NEW kind \in Kinds, Setpoint(kind) PROVE Next
  BY <1>5 DEF Setpoint, Next, Receive
<1>6. CASE Simulate
  BY <1>6 DEF Simulate, StreamAcknowledgement, Next
<1>7. CASE UNCHANGED cvars
  BY <1>7 DEF cvars
<1> QED BY <1>1, <1>2, <1>3, <1>4, <1>5, <1>6, <1>7 DEF CommandingNext

-----------------------------------------------------------------------------
(* What is on its way while a call waits.                                  *)

\* The types that the argument needs.
CallType ==
  /\ service \in {"idle", "sending", "waiting"}
  /\ service # "idle" => call.command \in Commands
  /\ vehicle_command_ack # NoMessage => vehicle_command_ack.result \in Results
  /\ acknowledgements \in [Ids -> Results \cup {"none"}]

\* An acknowledgement that reads like that of c is that of c.
Tells(ack, c) == ack # NoMessage /\ ack.id = c.id /\ ack.result = "ACCEPTED" => Done(c)

\* A call that did not cross with an earlier answer is the only command of its id
\* on its way: before it is sent nothing is, and from then on what was acknowledged
\* was done and stays done, because nothing else is sent while it waits.
Unsent == service = "sending" /\ ~ crossed =>
            /\ vehicle_command.id # call.command.id
            /\ vehicle_command_ack.id # call.command.id
            /\ acknowledgements[call.command.id] = "none"

Sent == service = "waiting" /\ ~ crossed =>
          /\ vehicle_command \in {NoMessage, call.command}
          /\ Tells(vehicle_command_ack, call.command)
          /\ acknowledgements[call.command.id] = "ACCEPTED" => Done(call.command)

OnlyCall == CallType /\ Unsent /\ Sent

\* A command that is accepted is done.
LEMMA AcceptedIsDone ==
  ASSUME NEW c, c # NoMessage, vehicle_command = c, HandleCommand, Result(c) = "ACCEPTED"
  PROVE  Done(c)'
<1>1. c.id = "ARM_DISARM" => armed' = (c.param = "arm")
  BY DEF HandleCommand, Result
<1>2. c.id = "SET_MODE" /\ c.param # "UNKNOWN" => main_state' = c.param
  BY DEF HandleCommand, Result
<1> QED BY <1>1, <1>2 DEF Done

\* What is done stays done when it is asked for again, or nothing is.
LEMMA DoneStays ==
  ASSUME NEW c, vehicle_command \in {NoMessage, c}, HandleCommand, Done(c)
  PROVE  Done(c)'
<1>1. CASE vehicle_command = NoMessage
  BY <1>1 DEF HandleCommand, Done
<1>2. CASE vehicle_command = c /\ c # NoMessage
  <2>1. c.id = "ARM_DISARM" => armed' = (c.param = "arm")
    BY <1>2 DEF HandleCommand, Done
  <2>2. c.id = "SET_MODE" /\ c.param # "UNKNOWN" => main_state' = c.param
    BY <1>2 DEF HandleCommand, Done
  <2> QED BY <2>1, <2>2 DEF Done
<1> QED BY <1>1, <1>2

\* Handling a command leaves the older acknowledgement or writes its own.
LEMMA Answers ==
  ASSUME HandleCommand
  PROVE  \/ vehicle_command_ack' = vehicle_command_ack
         \/ /\ vehicle_command # NoMessage
            /\ Result(vehicle_command) \in Results
            /\ vehicle_command_ack' = [id |-> vehicle_command.id,
                                       result |-> Result(vehicle_command)]
<1>1. Result(vehicle_command) \in Results \cup {"none"}
  BY DEF Result, Results
<1> QED BY <1>1 DEF HandleCommand

\* The commander's second phase keeps OnlyCall.
LEMMA RunKeepsCall ==
  ASSUME OnlyCall, RunCommander, UNCHANGED mvars
  PROVE  OnlyCall'
<1> DEFINE c == call.command
<1>1. /\ HandleCommand /\ service' = service /\ c' = c /\ crossed' = crossed
      /\ acknowledgements' = acknowledgements
  BY DEF RunCommander, mvars
<1>2. vehicle_command' = NoMessage
  BY <1>1 DEF HandleCommand
<1>3. CallType'
  BY <1>1, Answers DEF OnlyCall, CallType, mvars
<1>4. Unsent'
  <2> SUFFICES ASSUME service = "sending", ~ crossed
               PROVE  vehicle_command'.id # c.id /\ vehicle_command_ack'.id # c.id
    BY <1>1 DEF OnlyCall, Unsent
  <2>1. vehicle_command.id # c.id /\ vehicle_command_ack.id # c.id
    BY DEF OnlyCall, Unsent
  <2>2. vehicle_command_ack'.id # c.id
    BY <1>1, <2>1, Answers
  <2>3. vehicle_command'.id = "nothing" /\ c.id # "nothing"
    BY <1>2, CommanderAssumption DEF NoMessage, OnlyCall, CallType
  <2> QED BY <2>2, <2>3
<1>5. Sent'
  <2> SUFFICES ASSUME service = "waiting", ~ crossed
               PROVE  /\ Tells(vehicle_command_ack, c)'
                      /\ (acknowledgements[c.id] = "ACCEPTED" => Done(c))'
    BY <1>1, <1>2 DEF Sent
  <2>1. /\ vehicle_command \in {NoMessage, c} /\ Tells(vehicle_command_ack, c)
        /\ acknowledgements[c.id] = "ACCEPTED" => Done(c)
    BY DEF OnlyCall, Sent
  <2>2. Done(c) => Done(c)'
    BY <1>1, <2>1, DoneStays
  <2>3. Tells(vehicle_command_ack, c)'
    <3>1. CASE vehicle_command_ack' = vehicle_command_ack
      BY <1>1, <2>1, <2>2, <3>1 DEF Tells
    <3>2. CASE /\ vehicle_command # NoMessage
               /\ vehicle_command_ack' = [id |-> vehicle_command.id,
                                          result |-> Result(vehicle_command)]
      <4>1. vehicle_command = c /\ c # NoMessage
        BY <2>1, <3>2
      <4>2. vehicle_command_ack'.result = Result(c)
        BY <3>2, <4>1
      <4>3. Result(c) = "ACCEPTED" => Done(c)'
        BY <1>1, <4>1, AcceptedIsDone
      <4> QED BY <1>1, <4>2, <4>3 DEF Tells
    <3> QED BY <1>1, <3>1, <3>2, Answers
  <2> QED BY <1>1, <2>1, <2>2, <2>3
<1> QED BY <1>3, <1>4, <1>5 DEF OnlyCall

\* The acknowledgement that is streamed says of the call what it said on its topic.
LEMMA StreamKeepsCall ==
  ASSUME OnlyCall, StreamAcknowledgement
  PROVE  OnlyCall'
<1> DEFINE c == call.command
           ack == vehicle_command_ack
<1>1. /\ service' = service /\ c' = c /\ crossed' = crossed /\ ack' = NoMessage
      /\ vehicle_command' = vehicle_command /\ main_state' = main_state /\ armed' = armed
      /\ acknowledgements' = IF ack = NoMessage THEN acknowledgements
                             ELSE [acknowledgements EXCEPT ![ack.id] = ack.result]
      /\ call' = call
  BY DEF StreamAcknowledgement, StreamMavlink
<1>2. CallType'
  BY <1>1 DEF OnlyCall, CallType
<1>3. service # "idle" => /\ c.id \in Ids /\ c.id # "nothing"
                          /\ c.id # NoMessage.id
  BY CommanderAssumption DEF OnlyCall, CallType, Ids, NoMessage
<1>4. service # "idle" =>
        acknowledgements'[c.id] = IF ack # NoMessage /\ ack.id = c.id THEN ack.result
                                  ELSE acknowledgements[c.id]
  BY <1>1, <1>3 DEF OnlyCall, CallType
<1>5. Unsent'
  <2> SUFFICES ASSUME service = "sending", ~ crossed
               PROVE  /\ vehicle_command'.id # c.id /\ ack'.id # c.id
                      /\ acknowledgements'[c.id] = "none"
    BY <1>1 DEF Unsent
  <2> QED BY <1>1, <1>3, <1>4 DEF OnlyCall, Unsent
<1>6. Sent'
  <2> SUFFICES ASSUME service = "waiting", ~ crossed
               PROVE  /\ vehicle_command' \in {NoMessage, c}
                      /\ Tells(vehicle_command_ack, c)'
                      /\ acknowledgements'[c.id] = "ACCEPTED" => Done(c)'
    BY <1>1 DEF Sent
  <2>1. Done(c) <=> Done(c)'
    BY <1>1 DEF Done
  <2>2. /\ vehicle_command \in {NoMessage, c} /\ Tells(ack, c)
        /\ acknowledgements[c.id] = "ACCEPTED" => Done(c)
    BY DEF OnlyCall, Sent
  <2> QED BY <1>1, <1>4, <2>1, <2>2 DEF Tells
<1> QED BY <1>2, <1>5, <1>6 DEF OnlyCall

\* OnlyCall is inductive.
LEMMA CallStep == OnlyCall /\ [CommandingNext]_cvars => OnlyCall'
<1> SUFFICES ASSUME OnlyCall, [CommandingNext]_cvars PROVE OnlyCall'
  OBVIOUS
<1>1. ASSUME NEW d \in Commands, NEW b \in BOOLEAN, BeginCall(d, b) PROVE OnlyCall'
  <2>1. /\ service' = "sending" /\ call'.command = d /\ UNCHANGED vars
        /\ acknowledgements' = [acknowledgements EXCEPT ![d.id] = "none"]
        /\ crossed' = (d.id \in {vehicle_command.id, vehicle_command_ack.id})
    BY <1>1 DEF BeginCall
  <2>2. vehicle_command' = vehicle_command /\ vehicle_command_ack' = vehicle_command_ack
    BY <2>1 DEF vars, topics
  <2>3. CallType'
    BY <2>1, <2>2 DEF OnlyCall, CallType
  <2>4. acknowledgements'[d.id] = "none"
    BY <2>1 DEF OnlyCall, CallType, Ids
  <2>5. ~ crossed' => vehicle_command.id # d.id /\ vehicle_command_ack.id # d.id
    BY <2>1
  <2>6. Unsent'
    BY <2>1, <2>2, <2>4, <2>5 DEF Unsent
  <2>7. Sent'
    BY <2>1 DEF Sent
  <2> QED BY <2>3, <2>6, <2>7 DEF OnlyCall
<1>2. CASE SendCall
  <2>1. CASE call.broadcast
    <3>1. /\ service' = "idle" /\ UNCHANGED vars /\ acknowledgements' = acknowledgements
      BY <1>2, <2>1 DEF SendCall
    <3> QED BY <3>1 DEF vars, topics, OnlyCall, CallType, Unsent, Sent
  <2>2. CASE ~ call.broadcast
    <3>1. /\ service = "sending" /\ service' = "waiting" /\ call' = call /\ crossed' = crossed
          /\ vehicle_command' = call.command /\ vehicle_command_ack' = vehicle_command_ack
          /\ acknowledgements' = acknowledgements
      BY <1>2, <2>2 DEF SendCall, ReceiveCommand
    <3>2. CallType' /\ Unsent'
      BY <3>1 DEF OnlyCall, CallType, Unsent
    <3>3. Sent'
      BY <3>1 DEF OnlyCall, Unsent, Sent, Tells
    <3> QED BY <3>2, <3>3 DEF OnlyCall
  <2> QED BY <2>1, <2>2
<1>3. CASE Acknowledged \/ Timeout
  <2>1. /\ service = "waiting" /\ service' = "idle" /\ UNCHANGED vars
        /\ acknowledgements' = [acknowledgements EXCEPT ![call.command.id] = "none"]
    BY <1>3 DEF Acknowledged, Timeout, EndCall
  <2> QED BY <2>1 DEF vars, topics, OnlyCall, CallType, Unsent, Sent
<1>4. ASSUME NEW d \in Commands, SetMode(d) PROVE OnlyCall'
  <2>1. /\ service' = "idle" /\ vehicle_command_ack' = vehicle_command_ack
        /\ acknowledgements' = acknowledgements
    BY <1>4 DEF SetMode, ReceiveCommand, mvars
  <2> QED BY <2>1 DEF OnlyCall, CallType, Unsent, Sent
<1>5. ASSUME NEW kind \in Kinds, Setpoint(kind) PROVE OnlyCall'
  <2>1. /\ service' = "idle" /\ vehicle_command_ack' = vehicle_command_ack
        /\ acknowledgements' = acknowledgements
    BY <1>5 DEF Setpoint, ReceiveSetpoint, mvars
  <2> QED BY <2>1 DEF OnlyCall, CallType, Unsent, Sent
<1>6. CASE OffboardControlUpdate /\ UNCHANGED mvars
  <2>1. /\ vehicle_command' = vehicle_command /\ vehicle_command_ack' = vehicle_command_ack
        /\ main_state' = main_state /\ armed' = armed
    BY <1>6 DEF OffboardControlUpdate
  <2> QED BY <1>6, <2>1 DEF mvars, OnlyCall, CallType, Unsent, Sent, Tells, Done
<1>7. CASE UNCHANGED cvars
  BY <1>7 DEF cvars, vars, topics, commander, mvars, OnlyCall, CallType, Unsent, Sent,
              Tells, Done
<1> QED BY <1>1, <1>2, <1>3, <1>4, <1>5, <1>6, <1>7, RunKeepsCall, StreamKeepsCall
        DEF CommandingNext, Simulate

\* OnlyCall holds at first.
LEMMA CallInit == CommandingInit => OnlyCall
BY DEF CommandingInit, Init, OnlyCall, CallType, Unsent, Sent, NoMessage

\* A service that reports success has had its effect, unless it crossed with the
\* answer to an earlier command of the same kind (Command::send_long).
THEOREM SuccessIsDone == CommandingSpec => SuccessMeansDone
<1>1. OnlyCall /\ [CommandingNext]_cvars =>
        [service = "waiting" /\ service' = "idle" /\ success' /\ ~ crossed
           => Done(call.command)]_cvars
  <2> SUFFICES ASSUME OnlyCall, CommandingNext, service = "waiting", service' = "idle",
                      success', ~ crossed
               PROVE  Done(call.command)
    OBVIOUS
  <2>1. Acknowledged \/ Timeout
    BY DEF CommandingNext, BeginCall, SendCall, SetMode, Setpoint, Simulate,
           StreamAcknowledgement, mvars
  <2>2. acknowledgements[call.command.id] = "ACCEPTED"
    BY <2>1 DEF Acknowledged, Timeout, EndCall
  <2> QED BY <2>2 DEF OnlyCall, Sent
<1> QED BY <1>1, CallInit, CallStep, PTL DEF CommandingSpec, SuccessMeansDone

\* The services implement the commander, so that what is shown of it above holds behind
\* them, too.
THEOREM CommandingImplementsCommander == CommandingSpec => Spec
<1>1. CommandingInit => Init
  BY DEF CommandingInit
<1>2. OnlyCall => (service # "idle" => call.command \in Commands)
  BY DEF OnlyCall, CallType
<1> QED BY <1>1, <1>2, CallInit, CallStep, CommandingStep, PTL DEF CommandingSpec, Spec

-----------------------------------------------------------------------------
(* Types of the services.                                                  *)

\* A step of the services keeps their types.
LEMMA CommandingTypeStep == CommandingTypeOK /\ [CommandingNext]_cvars => CommandingTypeOK'
<1> SUFFICES ASSUME CommandingTypeOK, [CommandingNext]_cvars PROVE CommandingTypeOK'
  OBVIOUS
<1>1. service # "idle" => call \in Calls /\ call.command \in Commands /\ call.command.id \in Ids
  BY DEF CommandingTypeOK, Calls, Ids
<1>2. TypeOK'
  BY <1>1, CommandingStep, TypeStep DEF CommandingTypeOK
<1>3. \A b \in Calls : b # NoCall
  BY CommanderAssumption DEF Calls, NoCall, NoMessage
<1>4. ASSUME NEW d \in Commands, NEW b \in BOOLEAN, BeginCall(d, b) PROVE CommandingTypeOK'
  <2>1. /\ service' = "sending" /\ call' = [command |-> d, broadcast |-> b]
        /\ acknowledgements' = [acknowledgements EXCEPT ![d.id] = "none"]
        /\ success' = FALSE
        /\ crossed' = (d.id \in {vehicle_command.id, vehicle_command_ack.id})
    BY <1>4 DEF BeginCall
  <2>2. call' \in Calls
    BY <2>1 DEF Calls
  <2>3. acknowledgements' \in [Ids -> Results \cup {"none"}]
    BY <2>1 DEF CommandingTypeOK
  <2>4. crossed' \in BOOLEAN
    <3>1. CASE d.id \in {vehicle_command.id, vehicle_command_ack.id}
      BY <2>1, <3>1
    <3>2. CASE d.id \notin {vehicle_command.id, vehicle_command_ack.id}
      BY <2>1, <3>2
    <3> QED BY <3>1, <3>2
  <2> QED BY <1>2, <1>3, <2>1, <2>2, <2>3, <2>4 DEF CommandingTypeOK
<1>5. CASE SendCall
  BY <1>2, <1>5 DEF SendCall, CommandingTypeOK
<1>6. CASE Acknowledged \/ Timeout
  <2>1. /\ service' = "idle" /\ call' = NoCall /\ success' \in BOOLEAN /\ crossed' \in BOOLEAN
        /\ acknowledgements' = [acknowledgements EXCEPT ![call.command.id] = "none"]
    BY <1>6 DEF Acknowledged, Timeout, EndCall
  <2>2. acknowledgements' \in [Ids -> Results \cup {"none"}]
    BY <2>1 DEF CommandingTypeOK
  <2> QED BY <1>2, <2>1, <2>2 DEF CommandingTypeOK
<1>7. ASSUME UNCHANGED mvars PROVE CommandingTypeOK'
  BY <1>2, <1>7 DEF mvars, CommandingTypeOK
<1>8. CASE StreamAcknowledgement
  <2>1. /\ UNCHANGED <<service, call, success, crossed>>
        /\ acknowledgements' =
             IF vehicle_command_ack = NoMessage THEN acknowledgements
             ELSE [acknowledgements EXCEPT ![vehicle_command_ack.id] = vehicle_command_ack.result]
    BY <1>8 DEF StreamAcknowledgement
  <2>2. vehicle_command_ack # NoMessage => vehicle_command_ack.result \in Results
    BY DEF CommandingTypeOK, TypeOK
  <2>3. acknowledgements' \in [Ids -> Results \cup {"none"}]
    BY <2>1, <2>2 DEF CommandingTypeOK
  <2> QED BY <1>2, <2>1, <2>3 DEF CommandingTypeOK
<1>9. ASSUME NEW d \in Commands, SetMode(d) PROVE CommandingTypeOK'
  BY <1>7, <1>9 DEF SetMode
<1>10. ASSUME NEW kind \in Kinds, Setpoint(kind) PROVE CommandingTypeOK'
  BY <1>7, <1>10 DEF Setpoint
<1>11. CASE UNCHANGED cvars
  BY <1>7, <1>11 DEF cvars
<1> QED BY <1>4, <1>5, <1>6, <1>7, <1>8, <1>9, <1>10, <1>11 DEF CommandingNext, Simulate

\* The services keep their types, and a call is remembered exactly while one is in
\* progress.
THEOREM CommandingTypeCorrect == CommandingSpec => []CommandingTypeOK
<1>1. CommandingInit => CommandingTypeOK
  <2> SUFFICES ASSUME CommandingInit PROVE CommandingTypeOK
    OBVIOUS
  <2>1. TypeOK
    BY InitType DEF CommandingInit
  <2> QED BY <2>1 DEF CommandingInit, CommandingTypeOK
<1> QED BY <1>1, CommandingTypeStep, PTL DEF CommandingSpec

=============================================================================
