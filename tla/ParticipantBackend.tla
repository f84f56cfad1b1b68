--------------------------- MODULE ParticipantBackend ---------------------------
(***************************************************************************)
(* The participant side of the protocol                                    *)
(* (src/zeromq_time_participant_backend.cpp): one thread calls the backend *)
(* of the participant Self, whose DEALER socket exchanges messages with    *)
(* the coordinator's ROUTER socket.  REGISTER and SET_FOLLOWS_REAL_TIME    *)
(* are sent and then wait for whatever reply is received next; ANNOUNCE    *)
(* gets no reply; UNREGISTER gets one that nobody waits for.  The other    *)
(* participants announce as they like.                                     *)
(***************************************************************************)
EXTENDS TimeCoordinator

CONSTANTS
  Self,               \* participant_id of the backend
  Reused,             \* the backend is called again after unregister_participant
  MaxRequests         \* bound of the model on the two socket queues

ASSUME BackendAssumption ==
  /\ Self \in Participant
  /\ Reused \in BOOLEAN
  /\ MaxRequests \in Nat \ {0}

VARIABLES
  registered,     \* registered_
  call,           \* what the running call still has to send, in order
  pending,        \* the request whose reply it waits for, or Nothing
  requests,       \* messages on the way to the coordinator
  replies,        \* replies on the way back, each with the message it answers
  follows,        \* auxiliary: the last setting that set_follows_real_time returned for
  closed,         \* unregister_participant was called
  cleared         \* auxiliary: the operator has cleared the registration meanwhile

backend == <<registered, call, pending, requests, replies, follows, closed, cleared>>
allvars == <<vars, backend>>

REGISTER == [kind |-> "REGISTER", value |-> 0]
ANNOUNCE(t) == [kind |-> "ANNOUNCE", value |-> t]
FOLLOWS(setting) == [kind |-> "SET_FOLLOWS_REAL_TIME", value |-> IF setting THEN 1 ELSE 0]
UNREGISTER == [kind |-> "UNREGISTER", value |-> 0]
Nothing == [kind |-> "NOTHING", value |-> 0]

Idle == call = <<>> /\ pending = Nothing

Others == Participant \ {Self}

-----------------------------------------------------------------------------
(* Calls.                                                                  *)

\* A call on an unregistered backend registers first.
Begin(messages) ==
  /\ Idle /\ (closed => Reused)
  /\ call' = (IF registered THEN <<>> ELSE <<REGISTER>>) \o messages
  /\ UNCHANGED <<vars, registered, pending, requests, replies, follows, closed, cleared>>

register_participant == ~ registered /\ Begin(<<>>)
announce_next_safe_time(t) == Begin(<<ANNOUNCE(t)>>)
set_follows_real_time(setting) == Begin(<<FOLLOWS(setting)>>)

\* Sent best effort: without a connection the call gives up after a while.
unregister_participant ==
  /\ Idle /\ registered
  /\ \/ Len(requests) < MaxRequests /\ requests' = Append(requests, UNREGISTER)
     \/ UNCHANGED requests
  /\ registered' = FALSE
  /\ closed' = TRUE
  /\ follows' = TRUE
  /\ UNCHANGED <<vars, call, pending, replies, cleared>>

SendRequest ==
  /\ pending = Nothing /\ call # <<>>
  /\ Len(requests) < MaxRequests
  /\ requests' = Append(requests, Head(call))
  /\ call' = Tail(call)
  /\ pending' = IF Head(call).kind = "ANNOUNCE" THEN Nothing ELSE Head(call)
  /\ UNCHANGED <<vars, registered, replies, follows, closed, cleared>>

\* Any reply but OK makes the call throw: what it still had to send is dropped.
ReceiveReply ==
  /\ pending # Nothing /\ replies # <<>>
  /\ LET ok == Head(replies).ok
     IN  /\ registered' = (registered \/ (ok /\ pending = REGISTER))
         /\ call' = IF ok THEN call ELSE <<>>
         /\ follows' = IF ok /\ pending.kind = "SET_FOLLOWS_REAL_TIME"
                       THEN pending.value = 1 ELSE follows
  /\ replies' = Tail(replies)
  /\ pending' = Nothing
  /\ UNCHANGED <<vars, requests, closed, cleared>>

-----------------------------------------------------------------------------
(* The coordinator.                                                        *)

Reply(message, ok) == replies' = Append(replies, [to |-> message, ok |-> ok])

\* Mutant: ANNOUNCE is acknowledged like the other messages.
Handle_RepliesToAll(message) ==
  \/ message.kind = "REGISTER" /\ Register(Self) /\ Reply(message, TRUE)
  \/ message.kind = "ANNOUNCE" /\ Announce(Self, message.value) /\ Reply(message, TRUE)

\* Mutant: the setting of an unknown participant is ignored without a reply.
Handle_IgnoresUnknown(message) ==
  \/ message.kind = "REGISTER" /\ Register(Self) /\ Reply(message, TRUE)
  \/ message.kind = "ANNOUNCE" /\ Announce(Self, message.value) /\ UNCHANGED replies
  \/ /\ message.kind = "SET_FOLLOWS_REAL_TIME"
     /\ \/ SetFollowsRealTime(Self, message.value = 1) /\ Reply(message, TRUE)
        \/ Self \notin DOMAIN participants /\ UNCHANGED <<vars, replies>>

Handle(message) ==
  \/ message.kind = "REGISTER" /\ Register(Self) /\ Reply(message, TRUE)
  \/ message.kind = "ANNOUNCE" /\ Announce(Self, message.value) /\ UNCHANGED replies
  \/ message.kind = "SET_FOLLOWS_REAL_TIME" /\ Reply(message, Self \in DOMAIN participants)
     /\ \/ SetFollowsRealTime(Self, message.value = 1)
        \/ Self \notin DOMAIN participants /\ UNCHANGED vars
  \/ message.kind = "UNREGISTER" /\ Unregister(Self) /\ Reply(message, TRUE)

HandleRequest ==
  /\ requests # <<>> /\ Len(replies) < MaxRequests
  /\ Handle(Head(requests))
  /\ requests' = Tail(requests)
  /\ UNCHANGED <<registered, call, pending, follows, closed, cleared>>

OtherAnnounces(p, t) == Announce(p, t) /\ UNCHANGED backend

Pass ==
  /\ RegulatorTick \/ (\E wall_dt \in WallSteps : RealTimeTick(wall_dt)) \/ PublishWorker
  /\ UNCHANGED backend

\* Wall time passes while the thread computes; an operator clears zombies.
ComputeForLong == FallSilent(Self) /\ UNCHANGED backend

Clear ==
  /\ ClearZombieParticipants
  /\ cleared' = (cleared \/ Self \in Zombies)
  /\ UNCHANGED <<registered, call, pending, requests, replies, follows, closed>>

-----------------------------------------------------------------------------
BackendInit ==
  /\ Init /\ running = TRUE
  /\ registered = FALSE
  /\ call = <<>>
  /\ pending = Nothing
  /\ requests = <<>>
  /\ replies = <<>>
  /\ follows = TRUE
  /\ closed = FALSE
  /\ cleared = FALSE

BackendNext ==
  \/ register_participant
  \/ \E t \in Time : announce_next_safe_time(t)
  \/ \E setting \in BOOLEAN : set_follows_real_time(setting)
  \/ unregister_participant
  \/ SendRequest \/ ReceiveReply \/ HandleRequest
  \/ \E p \in Others, t \in Time : OtherAnnounces(p, t)
  \/ Pass \/ ComputeForLong \/ Clear

BackendSpec == BackendInit /\ [][BackendNext]_allvars

-----------------------------------------------------------------------------
(* Properties.                                                             *)

Messages ==
  [kind : {"REGISTER", "ANNOUNCE", "SET_FOLLOWS_REAL_TIME", "UNREGISTER"}, value : Time]

BackendTypeOK ==
  /\ TypeOK
  /\ {registered, closed, follows, cleared} \subseteq BOOLEAN
  /\ call \in Seq(Messages) /\ requests \in Seq(Messages)
  /\ pending \in Messages \cup {Nothing}
  /\ replies \in Seq([to : Messages, ok : BOOLEAN])

\* "DEALER replies are not correlated with requests; resending here can leave
\* a stale reply that the next request would consume"
\* (zeromq_time_participant_backend.cpp:190): the reply that a call takes is
\* the one to its own request.
ReplyAnswersRequest ==
  pending # Nothing /\ replies # <<>> => Head(replies).to = pending

\* fss_time README.md:208-215: once set_follows_real_time(false) has returned, the
\* coordinator treats the participant as non-following for as long as it stays
\* registered and the operator does not clear it.
SettingLasts ==
  registered /\ Idle /\ ~ cleared =>
    Self \in DOMAIN participants /\ participants[Self].follows_real_time = follows

\* fss_time README.md:208, "the next time step must not be granted until that
\* specific participant has completed its current computation": once the call
\* that opted out has returned, and all it has announced is handled and was
\* reached, the thread computes and no step, of whatever handler, moves the
\* clock.
ComputingHoldsClock ==
  [][registered /\ Idle /\ ~ cleared' /\ ~ follows /\ requests = <<>>
       /\ ~ participants[Self].has_new_request
     => sim_time_ns' = sim_time_ns]_allvars

\* No call waits for nothing: a request is sent once and its reply awaited for
\* ever (wait_forever), so as long as a call waits, its request is on the
\* way to the coordinator or its reply on the way back.
AnswerIsComing ==
  pending # Nothing =>
    \/ \E i \in DOMAIN requests : requests[i] = pending
    \/ \E i \in DOMAIN replies : replies[i].to = pending

=============================================================================
