------------------------------- MODULE Commanding -------------------------------
(***************************************************************************)
(* The services of MAVROS Lite (mavros_lite/command.cpp, sys_status.cpp,   *)
(* setpoint_raw.cpp) in front of the commander, in one process: messages   *)
(* are handed over by calls (px4_rotor_sim_node.cpp).  The node's          *)
(* callbacks form one mutually exclusive group, so that a service waiting  *)
(* for its acknowledgement holds up everything else the node is asked.     *)
(* The wait is measured in wall time: it may end after any number of       *)
(* passes.                                                                 *)
(***************************************************************************)
EXTENDS Commander

VARIABLES
  service,          \* "idle", or the call in progress is about to be "sent" or waited for
  call,             \* its request: the command and whether to broadcast it
  acknowledgements, \* id |-> the result last acknowledged, or "none"
  success,          \* response.success of the last call
  crossed           \* auxiliary: when the call began, the answer to an earlier
                    \* command of the same id was still to come

mvars == <<service, call, acknowledgements, success, crossed>>
cvars == <<vars, mvars>>

Ids == {c.id : c \in Commands}
NoCall == [command |-> NoMessage, broadcast |-> FALSE]
Calls == [command : Commands, broadcast : BOOLEAN]

\* Mutant: a timed-out call's acknowledgement is left for the next one.
BeginCall_Keeps(c, broadcast) ==
  /\ service = "idle"
  /\ service' = "sending"
  /\ call' = [command |-> c, broadcast |-> broadcast]
  /\ acknowledgements' = acknowledgements
  /\ crossed' = (c.id \in {vehicle_command.id, vehicle_command_ack.id})
  /\ success' = FALSE
  /\ UNCHANGED vars

\* send_long begins: older acknowledgements of the command are dropped.
BeginCall(c, broadcast) ==
  /\ service = "idle"
  /\ service' = "sending"
  /\ call' = [command |-> c, broadcast |-> broadcast]
  /\ acknowledgements' = [acknowledgements EXCEPT ![c.id] = "none"]
  /\ crossed' = (c.id \in {vehicle_command.id, vehicle_command_ack.id})
  /\ success' = FALSE
  /\ UNCHANGED vars

\* A broadcast succeeds when it is sent; the receiver, however, takes no
\* command that is not addressed to it (evaluate_target_ok).
SendCall ==
  /\ service = "sending"
  /\ IF call.broadcast
     THEN /\ service' = "idle"
          /\ call' = NoCall
          /\ success' = TRUE
          /\ crossed' = FALSE
          /\ UNCHANGED vars
     ELSE /\ service' = "waiting"
          /\ ReceiveCommand(call.command)
          /\ UNCHANGED <<call, success, crossed>>
  /\ UNCHANGED acknowledgements

\* wait_for returns: on an acknowledgement or on ack_timeout.
EndCall(received) ==
  /\ service' = "idle"
  /\ call' = NoCall
  /\ success' = (received /\ acknowledgements[call.command.id] = "ACCEPTED")
  /\ acknowledgements' = [acknowledgements EXCEPT ![call.command.id] = "none"]
  /\ crossed' = FALSE
  /\ UNCHANGED vars

Acknowledged ==
  /\ service = "waiting"
  /\ acknowledgements[call.command.id] # "none"
  /\ EndCall(TRUE)

\* Mutant: an unanswered call waits on.
Timeout_Never == FALSE /\ EndCall(FALSE)

Timeout ==
  /\ service = "waiting"
  /\ acknowledgements[call.command.id] = "none"
  /\ EndCall(FALSE)

\* send_mode and send_int do not wait.
SetMode(c) ==
  /\ service = "idle"
  /\ ReceiveCommand(c)
  /\ UNCHANGED mvars

\* send_local and send_attitude, a callback for each setpoint that was published
Setpoint(kind) ==
  /\ service = "idle"
  /\ ReceiveSetpoint(kind)
  /\ UNCHANGED mvars

\* The simulation thread: the acknowledgement that is streamed is stored at once
\* (Command::handle_message).
StreamAcknowledgement ==
  /\ StreamMavlink
  /\ acknowledgements' =
       IF vehicle_command_ack = NoMessage THEN acknowledgements
       ELSE [acknowledgements EXCEPT ![vehicle_command_ack.id] = vehicle_command_ack.result]
  /\ UNCHANGED <<service, call, success, crossed>>

Simulate ==
  \/ OffboardControlUpdate /\ UNCHANGED mvars
  \/ RunCommander /\ UNCHANGED mvars
  \/ StreamAcknowledgement

CommandingInit ==
  /\ Init
  /\ service = "idle" /\ call = NoCall
  /\ acknowledgements = [id \in Ids |-> "none"]
  /\ success = FALSE /\ crossed = FALSE

CommandingNext ==
  \/ \E c \in Commands, broadcast \in BOOLEAN : BeginCall(c, broadcast)
  \/ SendCall
  \/ Acknowledged
  \/ Timeout
  \/ \E c \in Commands : SetMode(c)
  \/ \E kind \in Kinds : Setpoint(kind)
  \/ Simulate

CommandingSpec == CommandingInit /\ [][CommandingNext]_cvars

\* The simulation thread keeps running, a call that can go on goes on, and a
\* publisher of setpoints that keeps publishing is heard between the calls.
CommandingFairSpec ==
  /\ CommandingSpec
  /\ WF_cvars(Simulate)
  /\ WF_cvars(SendCall) /\ WF_cvars(Acknowledged \/ Timeout)
  /\ SF_cvars(Setpoint("position"))

CommandingTypeOK ==
  /\ TypeOK
  /\ service \in {"idle", "sending", "waiting"}
  /\ call \in Calls \cup {NoCall}
  /\ (service = "idle") <=> (call = NoCall)
  /\ acknowledgements \in [Ids -> Results \cup {"none"}]
  /\ success \in BOOLEAN /\ crossed \in BOOLEAN

(***************************************************************************)
(* Properties                                                              *)
(***************************************************************************)

\* The state that a command asks for.
Done(c) ==
  /\ c.id = "ARM_DISARM" => armed = (c.param = "arm")
  /\ c.id = "SET_MODE" /\ c.param # "UNKNOWN" => main_state = c.param

\* A call that waited and reports success has had its effect: an acknowledgement
\* carries no more than the id of the command, yet it is never that of an earlier
\* one, nor of one the topic has lost, unless the call crossed with an answer
\* that an earlier one did not wait for (Command::send_long).
SuccessMeansDone ==
  [][service = "waiting" /\ service' = "idle" /\ success' /\ ~crossed
       => Done(call.command)]_cvars

\* Every call returns, although the commander leaves some commands unanswered.
CallsReturn == service # "idle" ~> service = "idle"

\* A vehicle that was granted OFFBOARD and has setpoints published to it is in
\* OFFBOARD again and again, whatever calls hold its setpoints up: the loss of
\* the signal is not for good.
OffboardResumes == <>[](main_state = "OFFBOARD") => []<>(nav_state = "OFFBOARD")
=============================================================================
