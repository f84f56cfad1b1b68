----------------------- MODULE ParticipantBackendProofs -----------------------
(***************************************************************************)
(* Theorems about ParticipantBackend: for every number of other            *)
(* participants, every length of the socket queues and every mix of calls. *)
(***************************************************************************)
EXTENDS ParticipantBackend, TimeCoordinatorProofs, SequenceTheorems

-----------------------------------------------------------------------------
(* Types, and the coordinator behind the socket.                           *)

ReplyRecords == [to : Messages, ok : BOOLEAN]

LEMMA MessageTypes ==
  /\ REGISTER \in Messages /\ UNREGISTER \in Messages
  /\ \A t \in Time : ANNOUNCE(t) \in Messages
  /\ \A setting \in BOOLEAN : FOLLOWS(setting) \in Messages
<1>1. 0 \in Time /\ 1 \in Time
  BY StepAssumption DEF Time
<1> QED BY <1>1 DEF REGISTER, UNREGISTER, ANNOUNCE, FOLLOWS, Messages

\* A non-empty queue has a head, and its tail is a queue.
LEMMA QueueHead ==
  ASSUME NEW S, NEW c \in Seq(S), c # <<>>
  PROVE  /\ Head(c) \in S /\ Head(c) = c[1]
         /\ Tail(c) \in Seq(S)
         /\ Len(c) \in Nat \ {0} /\ Len(Tail(c)) = Len(c) - 1
         /\ \A i \in 1 .. Len(Tail(c)) : Tail(c)[i] = c[i + 1]
OBVIOUS

\* What the coordinator does with a message of the backend is a step of it.
LEMMA HandleIsMessage ==
  ASSUME BackendTypeOK, NEW message \in Messages, Handle(message)
  PROVE  /\ [Next]_vars
         /\ replies' \in Seq(ReplyRecords)
<1>1. message.value \in Time
  BY DEF Messages
<1>2. [Next]_vars
  BY <1>1, BackendAssumption DEF Handle, Next, Message
<1>3. replies \in Seq(ReplyRecords)
  BY DEF BackendTypeOK, ReplyRecords
<1>4. \A ok \in BOOLEAN : [to |-> message, ok |-> ok] \in ReplyRecords
  BY DEF ReplyRecords
<1>5. \A ok \in BOOLEAN : Append(replies, [to |-> message, ok |-> ok]) \in Seq(ReplyRecords)
  BY <1>3, <1>4
<1>6. (Self \in DOMAIN participants) \in BOOLEAN
  OBVIOUS
<1> QED BY <1>2, <1>3, <1>5, <1>6 DEF Handle, Reply

\* Every step of the module is a step of the coordinator or leaves it alone.
LEMMA BackendCoordinatorStep ==
  ASSUME BackendTypeOK, [BackendNext]_allvars
  PROVE  [Next]_vars
<1>1. CASE HandleRequest
  <2>1. Head(requests) \in Messages
    BY <1>1, QueueHead DEF BackendTypeOK, HandleRequest
  <2> QED BY <1>1, <2>1, HandleIsMessage DEF HandleRequest
<1>2. ASSUME NEW p \in Others, NEW t \in Time, OtherAnnounces(p, t)
      PROVE  [Next]_vars
  BY <1>2 DEF OtherAnnounces, Others, Next, Message
<1>3. CASE Pass \/ ComputeForLong \/ Clear
  BY <1>3, BackendAssumption
     DEF Pass, ComputeForLong, Clear, Next, Timer, Service, Worker
<1>4. CASE \/ register_participant \/ unregister_participant \/ SendRequest \/ ReceiveReply
           \/ \E t \in Time : announce_next_safe_time(t)
           \/ \E setting \in BOOLEAN : set_follows_real_time(setting)
           \/ UNCHANGED allvars
  BY <1>4 DEF register_participant, unregister_participant, SendRequest, ReceiveReply,
              announce_next_safe_time, set_follows_real_time, Begin, allvars
<1> QED BY <1>1, <1>2, <1>3, <1>4 DEF BackendNext

\* What a call has to send.
LEMMA BeginCalls ==
  ASSUME NEW messages \in Seq(Messages), Begin(messages)
  PROVE  /\ call' \in Seq(Messages)
         /\ registered => call' = messages
         /\ ~ registered => /\ call' # <<>> /\ Head(call') = REGISTER
                            /\ Tail(call') = messages
<1>1. <<REGISTER>> \in Seq(Messages)
  BY MessageTypes
<1>2. CASE registered
  <2>1. <<>> \o messages = messages
    OBVIOUS
  <2> QED BY <1>2, <2>1 DEF Begin
<1>3. CASE ~ registered
  <2>1. call' = <<REGISTER>> \o messages
    BY <1>3 DEF Begin
  <2>2. call' \in Seq(Messages) /\ Len(call') = 1 + Len(messages) /\ call'[1] = REGISTER
    BY <1>1, <2>1
  <2>3. \A i \in 1 .. Len(messages) : call'[i + 1] = messages[i]
    BY <1>1, <2>1
  <2>4. call' # <<>> /\ Head(call') = REGISTER
    BY <2>2
  <2>5. Tail(call') = messages
    <3>1. Tail(call') \in Seq(Messages) /\ Len(Tail(call')) = Len(messages)
          /\ \A i \in 1 .. Len(Tail(call')) : Tail(call')[i] = call'[i + 1]
      BY <2>2, <2>4, QueueHead
    <3>2. \A i \in 1 .. Len(messages) : Tail(call')[i] = messages[i]
      BY <2>3, <3>1
    <3> QED BY <3>1, <3>2, SeqEqual
  <2> QED BY <1>3, <2>2, <2>4, <2>5
<1> QED BY <1>2, <1>3

\* The types of the backend's own state.
Flags ==
  /\ registered \in BOOLEAN /\ closed \in BOOLEAN
  /\ follows \in BOOLEAN /\ cleared \in BOOLEAN

Queues ==
  /\ call \in Seq(Messages) /\ requests \in Seq(Messages)
  /\ pending \in Messages \cup {Nothing}
  /\ replies \in Seq(ReplyRecords)

\* The types are kept.
LEMMA BackendTypeStep ==
  ASSUME BackendTypeOK, [BackendNext]_allvars
  PROVE  BackendTypeOK'
<1>0. TypeOK'
  BY BackendCoordinatorStep, StepType DEF BackendTypeOK
<1>t. Queues
  BY DEF BackendTypeOK, Queues, ReplyRecords
<1>f. Flags'
  <2>1. Flags
    BY DEF BackendTypeOK, Flags
  <2>2. CASE SendRequest \/ ReceiveReply \/ HandleRequest \/ Clear \/ unregister_participant
    BY <2>1, <2>2 DEF Flags, SendRequest, ReceiveReply, HandleRequest, Clear,
                      unregister_participant
  <2>3. CASE UNCHANGED backend
    BY <2>1, <2>3 DEF Flags, backend
  <2>4. ASSUME NEW messages, Begin(messages)
        PROVE  Flags'
    BY <2>1, <2>4 DEF Flags, Begin
  <2> QED BY <2>2, <2>3, <2>4
          DEF BackendNext, register_participant, announce_next_safe_time,
              set_follows_real_time, OtherAnnounces, Pass, ComputeForLong, allvars
<1> SUFFICES Queues'
  BY <1>0, <1>f DEF Flags, Queues, BackendTypeOK, ReplyRecords, Messages, Nothing
<1> USE DEF Queues
<1>1. ASSUME NEW messages \in Seq(Messages), Begin(messages)
      PROVE  Queues'
  BY <1>t, <1>1, BeginCalls DEF Begin
<1>2. CASE \/ register_participant
           \/ \E t \in Time : announce_next_safe_time(t)
           \/ \E setting \in BOOLEAN : set_follows_real_time(setting)
  <2>1. /\ <<>> \in Seq(Messages)
        /\ \A t \in Time : <<ANNOUNCE(t)>> \in Seq(Messages)
        /\ \A setting \in BOOLEAN : <<FOLLOWS(setting)>> \in Seq(Messages)
    BY MessageTypes
  <2> QED BY <1>1, <1>2, <2>1
          DEF register_participant, announce_next_safe_time, set_follows_real_time
<1>3. CASE unregister_participant
  <2>1. Append(requests, UNREGISTER) \in Seq(Messages)
    BY <1>t, MessageTypes
  <2> QED BY <1>t, <1>3, <2>1 DEF unregister_participant
<1>4. CASE SendRequest
  <2>1. Head(call) \in Messages /\ Tail(call) \in Seq(Messages)
    BY <1>t, <1>4, QueueHead DEF SendRequest
  <2>2. Append(requests, Head(call)) \in Seq(Messages)
    BY <1>t, <2>1
  <2> QED BY <1>t, <1>4, <2>1, <2>2 DEF SendRequest
<1>5. CASE ReceiveReply
  <2>1. Tail(replies) \in Seq(ReplyRecords) /\ Head(replies) \in ReplyRecords
    BY <1>t, <1>5, QueueHead DEF ReceiveReply
  <2>2. Head(replies).ok \in BOOLEAN
    BY <2>1 DEF ReplyRecords
  <2> QED BY <1>t, <1>5, <2>1, <2>2 DEF ReceiveReply
<1>6. CASE HandleRequest
  <2>1. Head(requests) \in Messages /\ Tail(requests) \in Seq(Messages)
    BY <1>t, <1>6, QueueHead DEF HandleRequest
  <2>2. replies' \in Seq(ReplyRecords)
    BY <1>6, <2>1, HandleIsMessage DEF HandleRequest
  <2> QED BY <1>t, <1>6, <2>1, <2>2 DEF HandleRequest
<1>7. CASE \/ \E p \in Others, t \in Time : OtherAnnounces(p, t)
           \/ Pass \/ ComputeForLong \/ UNCHANGED allvars
  BY <1>t, <1>7 DEF OtherAnnounces, Pass, ComputeForLong, backend, allvars
<1>8. CASE Clear
  BY <1>t, <1>8 DEF Clear
<1> QED BY <1>2, <1>3, <1>4, <1>5, <1>6, <1>7, <1>8 DEF BackendNext

\* The backend, its socket and the coordinator are well typed whatever the calls.
THEOREM BackendTypeCorrect == BackendSpec => []BackendTypeOK
<1>1. BackendInit => BackendTypeOK
  <2> SUFFICES ASSUME BackendInit PROVE BackendTypeOK
    OBVIOUS
  <2>1. TypeOK
    BY InitType DEF BackendInit
  <2>2. Flags
    BY DEF BackendInit, Flags
  <2>3. Queues
    BY DEF BackendInit, Queues
  <2> QED BY <2>1, <2>2, <2>3 DEF Flags, Queues, BackendTypeOK, ReplyRecords
<1> QED BY <1>1, BackendTypeStep, PTL DEF BackendSpec

\* The coordinator behind the socket behaves as TimeCoordinator says.
THEOREM BackendImplementsCoordinator == BackendSpec => Spec
<1>1. BackendInit => Init
  BY DEF BackendInit
<1> QED BY <1>1, BackendTypeCorrect, BackendCoordinatorStep, PTL DEF BackendSpec, Spec

-----------------------------------------------------------------------------
(* No call waits for nothing.                                              *)

\* A call waits only for what the coordinator answers.
AnswerInv == AnswerIsComing /\ (pending # Nothing => pending.kind # "ANNOUNCE")

LEMMA AnswerStep ==
  ASSUME BackendTypeOK, AnswerInv, [BackendNext]_allvars
  PROVE  AnswerInv'
<1>t. call \in Seq(Messages) /\ requests \in Seq(Messages) /\ replies \in Seq(ReplyRecords)
  BY DEF BackendTypeOK, ReplyRecords
<1>1. CASE UNCHANGED <<pending, requests, replies>>
  BY <1>1 DEF AnswerInv, AnswerIsComing
<1>2. CASE unregister_participant \/ ReceiveReply
  BY <1>2 DEF AnswerInv, AnswerIsComing, unregister_participant, ReceiveReply, Idle
<1>3. CASE SendRequest
  <2>1. requests' = Append(requests, Head(call)) /\ Head(call) \in Messages
    BY <1>3, <1>t, QueueHead DEF SendRequest
  <2>2. Len(requests) + 1 \in DOMAIN requests' /\ requests'[Len(requests) + 1] = Head(call)
    BY <2>1, <1>t
  <2> QED BY <1>3, <2>2 DEF SendRequest, AnswerInv, AnswerIsComing
<1>4. CASE HandleRequest
  <2>0. requests # <<>> /\ requests' = Tail(requests) /\ pending' = pending
        /\ Handle(Head(requests))
    BY <1>4 DEF HandleRequest
  <2>1. /\ Head(requests) = requests[1] /\ Len(requests) \in Nat \ {0}
        /\ Len(requests') = Len(requests) - 1
        /\ \A i \in 1 .. Len(requests') : requests'[i] = requests[i + 1]
        /\ DOMAIN requests = 1 .. Len(requests) /\ DOMAIN requests' = 1 .. Len(requests')
    BY <2>0, <1>t, QueueHead
  <2> SUFFICES ASSUME pending # Nothing PROVE AnswerIsComing'
    BY <2>0 DEF AnswerInv, AnswerIsComing
  <2>2. CASE \E i \in DOMAIN requests : i # 1 /\ requests[i] = pending
    <3>1. PICK i \in DOMAIN requests : i # 1 /\ requests[i] = pending
      BY <2>2
    <3>2. i - 1 \in DOMAIN requests' /\ requests'[i - 1] = pending
      BY <2>1, <3>1
    <3> QED BY <2>0, <3>2 DEF AnswerIsComing
  <2>3. CASE requests[1] = pending
    <3>1. Head(requests).kind # "ANNOUNCE" /\ Head(requests) = pending
      BY <2>1, <2>3 DEF AnswerInv
    <3>2. PICK ok \in BOOLEAN : replies' = Append(replies, [to |-> pending, ok |-> ok])
      <4>1. (Self \in DOMAIN participants) \in BOOLEAN
        OBVIOUS
      <4> QED BY <2>0, <3>1, <4>1 DEF Handle, Reply
    <3>3. Len(replies) + 1 \in DOMAIN replies' /\ replies'[Len(replies) + 1].to = pending
      BY <1>t, <3>2
    <3> QED BY <2>0, <3>3 DEF AnswerIsComing
  <2>4. CASE \E i \in DOMAIN replies : replies[i].to = pending
    <3>1. PICK i \in DOMAIN replies : replies[i].to = pending
      BY <2>4
    <3>2. replies' = replies \/ \E r : replies' = Append(replies, r)
      BY <2>0 DEF Handle, Reply
    <3>3. i \in DOMAIN replies' /\ replies'[i] = replies[i]
      BY <1>t, <3>1, <3>2
    <3> QED BY <2>0, <3>1, <3>3 DEF AnswerIsComing
  <2> QED BY <2>1, <2>2, <2>3, <2>4 DEF AnswerInv, AnswerIsComing
<1> QED
  BY <1>1, <1>2, <1>3, <1>4
     DEF BackendNext, register_participant, announce_next_safe_time, set_follows_real_time,
         Begin, OtherAnnounces, Pass, ComputeForLong, Clear, backend, allvars

\* Whatever calls are made, also after unregister_participant, and whatever the
\* operator clears: a call that waits for ever has its request or its reply
\* on the way.
THEOREM AnswersAreComing == BackendSpec => []AnswerIsComing
<1>1. BackendInit => AnswerInv
  BY DEF BackendInit, AnswerInv, AnswerIsComing
<1>2. AnswerInv => AnswerIsComing
  BY DEF AnswerInv
<1> QED BY <1>1, <1>2, BackendTypeCorrect, AnswerStep, PTL DEF BackendSpec

-----------------------------------------------------------------------------
(* The life of a backend that is not used again after unregister.          *)

\* What a call has to send after it has registered.
Orders == {m \in Messages : m.kind \in {"ANNOUNCE", "SET_FOLLOWS_REAL_TIME"}}
Calls == {<<>>} \cup {<<m>> : m \in Orders}

AllAnnounce(n) == \A i \in 1 .. n : requests[i].kind = "ANNOUNCE"

\* The coordinator has the setting of Self, unless the operator has cleared it.
KnownAs(setting) ==
  ~ cleared =>
    Self \in DOMAIN participants /\ participants[Self].follows_real_time = setting

Unregistered ==
  /\ ~ registered /\ ~ closed /\ pending = Nothing /\ requests = <<>> /\ replies = <<>>
  /\ Self \notin DOMAIN participants /\ follows = TRUE
  /\ call # <<>> => Head(call) = REGISTER /\ Tail(call) \in Calls

Registering ==
  /\ ~ registered /\ ~ closed /\ pending = REGISTER
  /\ requests = <<REGISTER>> /\ replies = <<>>
  /\ Self \notin DOMAIN participants /\ follows = TRUE
  /\ call \in Calls

Confirmed ==
  /\ ~ registered /\ ~ closed /\ pending = REGISTER
  /\ requests = <<>> /\ replies = <<[to |-> REGISTER, ok |-> TRUE]>>
  /\ follows = TRUE /\ KnownAs(TRUE)
  /\ call \in Calls

Free ==
  /\ registered /\ ~ closed /\ pending = Nothing
  /\ AllAnnounce(Len(requests)) /\ replies = <<>>
  /\ KnownAs(follows)
  /\ call \in Calls

Asking ==
  /\ registered /\ ~ closed /\ pending # Nothing
  /\ pending.kind = "SET_FOLLOWS_REAL_TIME"
  /\ requests # <<>> /\ requests[Len(requests)] = pending
  /\ AllAnnounce(Len(requests) - 1) /\ replies = <<>>
  /\ KnownAs(follows)
  /\ call = <<>>

Answered ==
  /\ registered /\ ~ closed /\ pending # Nothing
  /\ pending.kind = "SET_FOLLOWS_REAL_TIME"
  /\ requests = <<>> /\ Len(replies) = 1 /\ replies[1].to = pending
  /\ ~ cleared => replies[1].ok
  /\ KnownAs(pending.value = 1)
  /\ call = <<>>

Closed == closed /\ ~ registered /\ call = <<>> /\ pending = Nothing

Phases ==
  Unregistered \/ Registering \/ Confirmed \/ Free \/ Asking \/ Answered \/ Closed

-----------------------------------------------------------------------------
(* What the coordinator keeps of Self.                                     *)

SelfIsKept ==
  /\ Self \in DOMAIN participants' <=> Self \in DOMAIN participants
  /\ Self \in DOMAIN participants =>
       participants'[Self].follows_real_time = participants[Self].follows_real_time

\* The announcement of p changes no setting, and nobody else's registration.
LEMMA AnnounceKeeps ==
  ASSUME TypeOK, NEW p \in Participant, NEW t \in Time, Announce(p, t)
  PROVE  /\ p # Self => SelfIsKept
         /\ p \in DOMAIN participants =>
              /\ p \in DOMAIN participants'
              /\ participants'[p].follows_real_time = participants[p].follows_real_time
<1> DEFINE e == [Entry(p) EXCEPT !.request_time_ns = t, !.has_new_request = TRUE,
                                 !.silent = FALSE]
           ps == WithEntry(p, e)
<1>1. e \in ParticipantState /\ e.follows_real_time = Entry(p).follows_real_time
  BY EntryType DEF ParticipantState
<1>2. TryUpdateClock(ps, regulator_request_ns, real_time_request_ns)
  BY DEF Announce
<1> HIDE DEF e
<1>3. IsParticipantMap(ps)
  BY <1>1, WithEntryType
<1>4. /\ p \in DOMAIN ps /\ ps[p] = e
      /\ \A q \in Participant \ {p} :
           /\ q \in DOMAIN ps <=> q \in DOMAIN participants
           /\ q \in DOMAIN participants => ps[q] = participants[q]
  BY DEF WithEntry
<1> HIDE DEF ps
<1>5. /\ DOMAIN participants' = DOMAIN ps
      /\ \A q \in DOMAIN ps : participants'[q].follows_real_time = ps[q].follows_real_time
  BY <1>2, <1>3, TryUpdateClockKeeps
<1> QED BY <1>1, <1>4, <1>5, BackendAssumption DEF SelfIsKept, Entry

\* So do the steps that do not come from the backend.
LEMMA OthersKeep ==
  ASSUME TypeOK,
         \/ \E p \in Others, t \in Time : OtherAnnounces(p, t)
         \/ Pass \/ ComputeForLong
         \/ Clear /\ Self \notin Zombies
  PROVE  SelfIsKept
<1>0. /\ IsParticipantMap(participants)
      /\ regulator_request_ns \in Time /\ real_time_request_ns \in Time
  BY DEF TypeOK
<1>1. ASSUME NEW p \in Others, NEW t \in Time, OtherAnnounces(p, t)
      PROVE  SelfIsKept
  BY <1>1, AnnounceKeeps DEF OtherAnnounces, Others
<1>2. CASE RegulatorTick
  BY <1>0, <1>2, RegulatorTargetType, TryUpdateClockKeeps DEF RegulatorTick, SelfIsKept
<1>3. ASSUME NEW wall_dt \in WallSteps, RealTimeTick(wall_dt)
      PROVE  SelfIsKept
  BY <1>0, <1>3, RealTimeRequestType, TryUpdateClockKeeps DEF RealTimeTick, SelfIsKept
<1>4. CASE PublishWorker
  BY <1>4 DEF PublishWorker, SelfIsKept
<1>5. CASE ComputeForLong
  <2>1. /\ Self \in DOMAIN participants
        /\ participants' = WithEntry(Self, [Entry(Self) EXCEPT !.silent = TRUE])
    BY <1>5 DEF ComputeForLong, FallSilent
  <2>2. participants[Self] \in ParticipantState
    BY <1>0, <2>1 DEF IsParticipantMap
  <2> QED BY <2>1, <2>2 DEF WithEntry, Entry, ParticipantState, SelfIsKept
<1>6. CASE Clear /\ Self \notin Zombies
  <2>1. TryUpdateClock(WithoutEntries(Zombies), regulator_request_ns, real_time_request_ns)
    BY <1>6 DEF Clear, ClearZombieParticipants
  <2>2. /\ Self \in DOMAIN WithoutEntries(Zombies) <=> Self \in DOMAIN participants
        /\ Self \in DOMAIN participants => WithoutEntries(Zombies)[Self] = participants[Self]
    BY <1>6 DEF WithoutEntries, Restrict
  <2>3. IsParticipantMap(WithoutEntries(Zombies))
    BY WithoutEntriesType
  <2> QED BY <2>1, <2>2, <2>3, TryUpdateClockKeeps DEF SelfIsKept
<1> QED BY <1>1, <1>2, <1>3, <1>4, <1>5, <1>6 DEF Pass

\* A registration creates the entry with its defaults.
LEMMA RegisterKnows ==
  ASSUME Register(Self), Self \notin DOMAIN participants
  PROVE  Self \in DOMAIN participants' /\ participants'[Self].follows_real_time = TRUE
BY DEF Register, WithEntry, Entry, NewParticipant

\* The coordinator has the setting when it has answered.
LEMMA SettingKnows ==
  ASSUME TypeOK, NEW setting \in BOOLEAN, SetFollowsRealTime(Self, setting)
  PROVE  Self \in DOMAIN participants' /\ participants'[Self].follows_real_time = setting
<1> DEFINE e == [Entry(Self) EXCEPT !.follows_real_time = setting]
           ps == WithEntry(Self, e)
<1>1. e \in ParticipantState /\ e.follows_real_time = setting
  BY EntryType, BackendAssumption DEF ParticipantState
<1>2. TryUpdateClock(ps, regulator_request_ns, real_time_request_ns)
  BY DEF SetFollowsRealTime
<1> HIDE DEF e
<1>3. IsParticipantMap(ps)
  BY <1>1, WithEntryType, BackendAssumption
<1>4. Self \in DOMAIN ps /\ ps[Self] = e
  BY DEF WithEntry
<1> HIDE DEF ps
<1> QED BY <1>1, <1>2, <1>3, <1>4, TryUpdateClockKeeps

-----------------------------------------------------------------------------
(* From phase to phase.                                                    *)

LEMMA OrderTypes ==
  /\ <<>> \in Calls
  /\ \A t \in Time : <<ANNOUNCE(t)>> \in Calls
  /\ \A setting \in BOOLEAN : <<FOLLOWS(setting)>> \in Calls
  /\ \A c \in Calls : /\ c \in Seq(Messages)
                      /\ c # <<>> => Head(c) \in Orders /\ Tail(c) = <<>>
<1>1. \A t \in Time : ANNOUNCE(t) \in Orders
  BY MessageTypes DEF Orders, ANNOUNCE
<1>2. \A setting \in BOOLEAN : FOLLOWS(setting) \in Orders
  BY MessageTypes DEF Orders, FOLLOWS
<1>3. \A m \in Orders : /\ <<m>> \in Seq(Messages)
                        /\ Head(<<m>>) = m /\ Tail(<<m>>) = <<>>
  BY DEF Orders
<1>4. <<>> \in Seq(Messages)
  OBVIOUS
<1> QED BY <1>1, <1>2, <1>3, <1>4 DEF Calls

LEMMA OrdersAreNothingElse ==
  /\ REGISTER.kind = "REGISTER" /\ REGISTER # Nothing
  /\ UNREGISTER.kind = "UNREGISTER" /\ Nothing.kind = "NOTHING"
  /\ \A m \in Orders : m # REGISTER /\ m # Nothing /\ m \in Messages
BY DEF REGISTER, UNREGISTER, Nothing, Orders

\* A call begins.
LEMMA BeginPhase ==
  ASSUME BackendTypeOK, ~ Reused, Phases, NEW messages \in Calls, Begin(messages)
  PROVE  Phases'
<1>1. messages \in Seq(Messages)
  BY OrderTypes
<1>2. Idle /\ ~ closed /\ UNCHANGED <<vars, registered, pending, requests, replies, follows,
                                     closed, cleared>>
  BY DEF Begin
<1>3. Unregistered \/ Free
  BY <1>2, OrdersAreNothingElse
     DEF Phases, Registering, Confirmed, Asking, Answered, Closed, Idle
<1>4. UNCHANGED participants
  BY <1>2 DEF vars
<1>5. CASE Unregistered
  <2>1. call' # <<>> /\ Head(call') = REGISTER /\ Tail(call') \in Calls
    BY <1>1, <1>5, BeginCalls DEF Unregistered
  <2>2. Unregistered'
    BY <1>2, <1>4, <1>5, <2>1 DEF Unregistered
  <2> QED BY <2>2 DEF Phases
<1>6. CASE Free
  <2>1. call' \in Calls
    BY <1>1, <1>6, BeginCalls DEF Free
  <2>2. Free'
    BY <1>2, <1>4, <1>6, <2>1 DEF Free, AllAnnounce, KnownAs
  <2> QED BY <2>2 DEF Phases
<1> QED BY <1>3, <1>5, <1>6

\* A message is sent.
LEMMA SendPhase ==
  ASSUME BackendTypeOK, Phases, SendRequest
  PROVE  Phases'
<1>1. /\ pending = Nothing /\ call # <<>>
      /\ requests' = Append(requests, Head(call)) /\ call' = Tail(call)
      /\ pending' = (IF Head(call).kind = "ANNOUNCE" THEN Nothing ELSE Head(call))
      /\ UNCHANGED <<participants, registered, replies, follows, closed, cleared>>
  BY DEF SendRequest, vars
<1>2. Unregistered \/ Free
  BY <1>1, OrdersAreNothingElse DEF Phases, Registering, Confirmed, Asking, Answered, Closed
<1>3. CASE Unregistered
  <2>1. Head(call) = REGISTER /\ Tail(call) \in Calls /\ requests = <<>>
    BY <1>1, <1>3 DEF Unregistered
  <2>2. requests' = <<REGISTER>> /\ pending' = REGISTER
    BY <1>1, <2>1, OrdersAreNothingElse
  <2>3. Registering'
    BY <1>1, <1>3, <2>1, <2>2 DEF Unregistered, Registering
  <2> QED BY <2>3 DEF Phases
<1>4. CASE Free
  <2>1. Head(call) \in Orders /\ Tail(call) = <<>>
    BY <1>1, <1>4, OrderTypes DEF Free
  <2>2. requests \in Seq(Messages) /\ Head(call) \in Messages
    BY <2>1, OrdersAreNothingElse DEF BackendTypeOK
  <2>3. /\ Len(requests') = Len(requests) + 1 /\ Len(requests) \in Nat
        /\ \A i \in 1 .. Len(requests) : requests'[i] = requests[i]
        /\ requests'[Len(requests) + 1] = Head(call)
        /\ requests' # <<>>
    BY <1>1, <2>2
  <2>4. CASE Head(call).kind = "ANNOUNCE"
    <3>1. AllAnnounce(Len(requests))'
      BY <1>4, <2>3, <2>4 DEF Free, AllAnnounce
    <3>2. Free'
      BY <1>1, <1>4, <2>1, <2>4, <3>1, OrderTypes DEF Free, KnownAs
    <3> QED BY <3>2 DEF Phases
  <2>5. CASE Head(call).kind = "SET_FOLLOWS_REAL_TIME"
    <3>1. AllAnnounce(Len(requests) - 1)'
      BY <1>4, <2>3 DEF Free, AllAnnounce
    <3>2. pending' = Head(call) /\ pending' # Nothing
      BY <1>1, <2>1, <2>5, OrdersAreNothingElse
    <3>3. requests'[Len(requests')] = pending'
      BY <2>3, <3>2
    <3>4. Asking'
      BY <1>1, <1>4, <2>1, <2>3, <2>5, <3>1, <3>2, <3>3 DEF Free, Asking, KnownAs
    <3> QED BY <3>4 DEF Phases
  <2> QED BY <2>1, <2>4, <2>5 DEF Orders
<1> QED BY <1>2, <1>3, <1>4

\* A reply is received.
LEMMA ReceivePhase ==
  ASSUME BackendTypeOK, Phases, ReceiveReply
  PROVE  Phases'
<1>1. /\ pending # Nothing /\ replies # <<>>
      /\ registered' = (registered \/ (Head(replies).ok /\ pending = REGISTER))
      /\ call' = IF Head(replies).ok THEN call ELSE <<>>
      /\ follows' = IF Head(replies).ok /\ pending.kind = "SET_FOLLOWS_REAL_TIME"
                    THEN pending.value = 1 ELSE follows
      /\ replies' = Tail(replies) /\ pending' = Nothing
      /\ UNCHANGED <<participants, requests, closed, cleared>>
  BY DEF ReceiveReply, vars
<1>2. Confirmed \/ Answered
  BY <1>1, OrdersAreNothingElse
     DEF Phases, Unregistered, Registering, Free, Asking, Closed
<1>3. CASE Confirmed
  <2>1. Head(replies).ok /\ Tail(replies) = <<>>
    BY <1>3 DEF Confirmed
  <2>2. pending.kind # "SET_FOLLOWS_REAL_TIME" /\ pending = REGISTER
    BY <1>3, OrdersAreNothingElse DEF Confirmed
  <2>3. registered' /\ call' = call /\ replies' = <<>> /\ follows' = follows
    BY <1>1, <2>1, <2>2
  <2>4. Len(requests') = 0
    BY <1>1, <1>3 DEF Confirmed
  <2>5. Free'
    <3>1. KnownAs(follows)'
      BY <1>1, <1>3, <2>3 DEF Confirmed, KnownAs
    <3>2. AllAnnounce(Len(requests))'
      BY <2>4 DEF AllAnnounce
    <3> QED BY <1>1, <1>3, <2>3, <3>1, <3>2 DEF Confirmed, Free
  <2> QED BY <2>5 DEF Phases
<1>4. CASE Answered
  <2>1. replies \in Seq(ReplyRecords)
    BY DEF BackendTypeOK, ReplyRecords
  <2>2. Head(replies) = replies[1] /\ Tail(replies) = <<>>
    <3>1. /\ Head(replies) = replies[1] /\ Tail(replies) \in Seq(ReplyRecords)
          /\ Len(Tail(replies)) = Len(replies) - 1
      BY <1>1, <2>1, QueueHead
    <3>2. Len(Tail(replies)) = 0
      BY <1>4, <3>1 DEF Answered
    <3> QED BY <3>1, <3>2, EmptySeq
  <2>3. ~ cleared => Head(replies).ok /\ follows' = (pending.value = 1)
    BY <1>1, <1>4, <2>2 DEF Answered
  <2>4. KnownAs(follows)'
    BY <1>1, <1>4, <2>3 DEF Answered, KnownAs
  <2>5. Len(requests') = 0 /\ call' = <<>> /\ replies' = <<>> /\ registered'
    BY <1>1, <1>4, <2>2 DEF Answered
  <2>6. Free'
    BY <1>1, <1>4, <2>4, <2>5, OrderTypes DEF Answered, Free, AllAnnounce
  <2> QED BY <2>6 DEF Phases
<1> QED BY <1>2, <1>3, <1>4

\* The coordinator handles a message of Self.
LEMMA HandlePhase ==
  ASSUME BackendTypeOK, Phases, HandleRequest
  PROVE  Phases'
<1> DEFINE m == Head(requests)
<1>1. /\ requests # <<>> /\ Handle(m) /\ requests' = Tail(requests)
      /\ UNCHANGED <<registered, call, pending, follows, closed, cleared>>
  BY DEF HandleRequest
<1>2. /\ m \in Messages /\ m = requests[1] /\ Len(requests) \in Nat \ {0}
      /\ requests' \in Seq(Messages) /\ Len(requests') = Len(requests) - 1
      /\ \A i \in 1 .. Len(requests') : requests'[i] = requests[i + 1]
  BY <1>1, QueueHead DEF BackendTypeOK
<1>3. TypeOK /\ m.value \in Time
  BY <1>2 DEF BackendTypeOK, Messages
<1> HIDE DEF m
<1>4. Registering \/ Free \/ Asking \/ Closed
  BY <1>1 DEF Phases, Unregistered, Confirmed, Answered
<1>5. CASE Registering
  <2>1. m = REGISTER /\ requests' = <<>>
    BY <1>1, <1>2, <1>5 DEF Registering
  <2>2. Register(Self) /\ replies' = Append(replies, [to |-> REGISTER, ok |-> TRUE])
    BY <1>1, <2>1, OrdersAreNothingElse DEF Handle, Reply
  <2>3. Self \in DOMAIN participants' /\ participants'[Self].follows_real_time = TRUE
    BY <1>5, <2>2, RegisterKnows DEF Registering
  <2>4. replies' = <<[to |-> REGISTER, ok |-> TRUE]>>
    BY <1>5, <2>2 DEF Registering
  <2>5. Confirmed'
    BY <1>1, <1>5, <2>1, <2>3, <2>4 DEF Registering, Confirmed, KnownAs
  <2> QED BY <2>5 DEF Phases
<1>6. ASSUME m.kind = "ANNOUNCE"
      PROVE  /\ replies' = replies
             /\ Self \in DOMAIN participants =>
                  /\ Self \in DOMAIN participants'
                  /\ participants'[Self].follows_real_time = participants[Self].follows_real_time
  <2>1. Announce(Self, m.value) /\ replies' = replies
    BY <1>1, <1>6 DEF Handle
  <2> QED BY <1>3, <2>1, AnnounceKeeps, BackendAssumption
<1>7. CASE Free
  <2>1. m.kind = "ANNOUNCE"
    BY <1>2, <1>7 DEF Free, AllAnnounce
  <2>2. AllAnnounce(Len(requests))'
    BY <1>2, <1>7 DEF Free, AllAnnounce
  <2>3. Free'
    BY <1>1, <1>6, <1>7, <2>1, <2>2 DEF Free, KnownAs
  <2> QED BY <2>3 DEF Phases
<1>8. CASE Asking /\ Len(requests) > 1
  <2>1. m.kind = "ANNOUNCE"
    BY <1>2, <1>8 DEF Asking, AllAnnounce
  <2>2. AllAnnounce(Len(requests) - 1)'
    BY <1>2, <1>8 DEF Asking, AllAnnounce
  <2>3. requests'[Len(requests')] = pending' /\ requests' # <<>>
    BY <1>1, <1>2, <1>8 DEF Asking
  <2>4. Asking'
    BY <1>1, <1>6, <1>8, <2>1, <2>2, <2>3 DEF Asking, KnownAs
  <2> QED BY <2>4 DEF Phases
<1>9. CASE Asking /\ Len(requests) = 1
  <2>1. m = pending /\ m.kind = "SET_FOLLOWS_REAL_TIME" /\ requests' = <<>>
    BY <1>2, <1>9 DEF Asking
  <2>2. /\ replies' = Append(replies, [to |-> m, ok |-> Self \in DOMAIN participants])
        /\ \/ SetFollowsRealTime(Self, m.value = 1)
           \/ Self \notin DOMAIN participants /\ UNCHANGED vars
    BY <1>1, <2>1 DEF Handle, Reply
  <2>3. /\ Len(replies') = 1 /\ replies'[1].to = pending
        /\ replies'[1].ok = (Self \in DOMAIN participants)
    BY <1>9, <2>1, <2>2 DEF Asking
  <2>4. ~ cleared => Self \in DOMAIN participants
    BY <1>9 DEF Asking, KnownAs
  <2>5. (m.value = 1) \in BOOLEAN
    OBVIOUS
  <2>6. KnownAs(pending.value = 1)'
    BY <1>1, <1>3, <2>1, <2>2, <2>4, <2>5, SettingKnows DEF KnownAs
  <2>7. Answered'
    BY <1>1, <1>9, <2>1, <2>3, <2>4, <2>6 DEF Asking, Answered
  <2> QED BY <2>7 DEF Phases
<1>10. CASE Closed
  BY <1>1, <1>10 DEF Closed, Phases
<1> QED BY <1>2, <1>4, <1>5, <1>7, <1>8, <1>9, <1>10

\* The others, the timers, the wall clock and the operator act.
LEMMA OthersPhase ==
  ASSUME BackendTypeOK, Phases,
         \/ \E p \in Others, t \in Time : OtherAnnounces(p, t)
         \/ Pass \/ ComputeForLong \/ Clear
  PROVE  Phases'
<1>1. UNCHANGED <<registered, call, pending, requests, replies, follows, closed>>
  BY DEF OtherAnnounces, Pass, ComputeForLong, Clear, backend
<1>2. CASE SelfIsKept /\ (cleared => cleared')
  BY <1>1, <1>2 DEF Phases, Unregistered, Registering, Confirmed, Free, Asking, Answered,
                    Closed, AllAnnounce, KnownAs, SelfIsKept
<1>3. CASE Clear /\ Self \in Zombies
  <2>1. cleared' /\ Self \in DOMAIN participants
    BY <1>3 DEF Clear, Zombies
  <2> QED BY <1>1, <2>1
          DEF Phases, Unregistered, Registering, Confirmed, Free, Asking, Answered, Closed,
              AllAnnounce, KnownAs
<1>4. CASE Clear /\ Self \notin Zombies
  BY <1>2, <1>4, OthersKeep DEF Clear, BackendTypeOK
<1>5. CASE (\E p \in Others, t \in Time : OtherAnnounces(p, t)) \/ Pass \/ ComputeForLong
  BY <1>2, <1>5, OthersKeep DEF OtherAnnounces, Pass, ComputeForLong, backend, BackendTypeOK
<1> QED BY <1>3, <1>4, <1>5

LEMMA PhaseStep ==
  ASSUME BackendTypeOK, ~ Reused, Phases, [BackendNext]_allvars
  PROVE  Phases'
<1>1. CASE \/ register_participant
           \/ \E t \in Time : announce_next_safe_time(t)
           \/ \E setting \in BOOLEAN : set_follows_real_time(setting)
  BY <1>1, OrderTypes, BeginPhase
     DEF register_participant, announce_next_safe_time, set_follows_real_time
<1>2. CASE unregister_participant
  BY <1>2 DEF unregister_participant, Idle, Closed, Phases
<1>3. CASE UNCHANGED allvars
  <2>1. UNCHANGED participants /\ UNCHANGED backend
    BY <1>3 DEF allvars, vars
  <2> QED BY <2>1
          DEF backend, Phases, Unregistered, Registering, Confirmed, Free, Asking, Answered,
              Closed, AllAnnounce, KnownAs
<1> QED BY <1>1, <1>2, <1>3, SendPhase, ReceivePhase, HandlePhase, OthersPhase DEF BackendNext

\* A backend that is not used again after it has unregistered is always in
\* one of its phases, with at most one request or reply on its way.
LEMMA AlwaysInPhase ==
  ASSUME ~ Reused
  PROVE  BackendSpec => []Phases
<1>1. BackendInit => Phases
  BY DEF BackendInit, Init, Phases, Unregistered
<1> QED BY <1>1, BackendTypeCorrect, PhaseStep, PTL DEF BackendSpec

\* The reply that a call takes is the one to its own request, although DEALER
\* replies are not correlated: nothing else is on its way (register_participant
\* and set_follows_real_time send once and wait for ever).
THEOREM RepliesAnswerRequests ==
  ASSUME ~ Reused
  PROVE  BackendSpec => []ReplyAnswersRequest
<1>1. BackendTypeOK /\ Phases => ReplyAnswersRequest
  <2> SUFFICES ASSUME BackendTypeOK, Phases, pending # Nothing, replies # <<>>
               PROVE  Head(replies).to = pending
    BY DEF ReplyAnswersRequest
  <2>1. replies \in Seq(ReplyRecords)
    BY DEF BackendTypeOK, ReplyRecords
  <2>2. Head(replies) = replies[1]
    BY <2>1
  <2>3. Confirmed \/ Answered
    BY DEF Phases, Unregistered, Registering, Free, Asking, Closed
  <2>4. CASE Confirmed
    BY <2>4 DEF Confirmed
  <2>5. CASE Answered
    BY <2>2, <2>5 DEF Answered
  <2> QED BY <2>3, <2>4, <2>5
<1> QED BY <1>1, BackendTypeCorrect, AlwaysInPhase, PTL

\* What set_follows_real_time has returned for is in force at the coordinator,
\* until the operator clears the registration.
THEOREM SettingsLast ==
  ASSUME ~ Reused
  PROVE  BackendSpec => []SettingLasts
<1>1. Phases => SettingLasts
  BY OrdersAreNothingElse
     DEF Phases, Unregistered, Registering, Confirmed, Free, Asking, Answered, Closed,
         KnownAs, Idle, SettingLasts
<1> QED BY <1>1, AlwaysInPhase, PTL

-----------------------------------------------------------------------------
(* A computation that opted out of real time holds the clock.              *)

ComputingHoldsStep ==
  registered /\ Idle /\ ~ cleared' /\ ~ follows /\ requests = <<>>
    /\ ~ participants[Self].has_new_request
  => sim_time_ns' = sim_time_ns

\* A clock update does not move the clock past a participant that computes.
LEMMA UpdateIsHeld ==
  ASSUME TypeOK, NEW ps, NEW reg \in Time, NEW rt \in Time, TryUpdateClock(ps, reg, rt),
         Self \in DOMAIN ps, ~ ps[Self].follows_real_time, ~ ps[Self].has_new_request
  PROVE  sim_time_ns' = sim_time_ns
<1>1. ASSUME NEW t \in Time, ShouldAdvance(ps, reg, rt, t)
      PROVE  FALSE
  BY <1>1 DEF ShouldAdvance
<1> QED BY <1>1 DEF TryUpdateClock

LEMMA ComputingStep ==
  ASSUME BackendTypeOK, SettingLasts, [BackendNext]_allvars
  PROVE  ComputingHoldsStep
<1> SUFFICES ASSUME registered, Idle, ~ cleared', ~ follows, requests = <<>>,
                    ~ participants[Self].has_new_request
             PROVE  sim_time_ns' = sim_time_ns
  BY DEF ComputingHoldsStep
<1>0. /\ TypeOK /\ IsParticipantMap(participants)
      /\ regulator_request_ns \in Time /\ real_time_request_ns \in Time
  BY DEF BackendTypeOK, TypeOK
<1>1. cleared => cleared'
  BY DEF BackendNext, register_participant, announce_next_safe_time, set_follows_real_time,
         Begin, unregister_participant, SendRequest, ReceiveReply, HandleRequest,
         OtherAnnounces, Pass, ComputeForLong, Clear, backend, allvars
<1>2. /\ Self \in DOMAIN participants /\ participants[Self].follows_real_time = follows
      /\ ~ participants[Self].has_new_request
  BY <1>1 DEF SettingLasts
<1>3. ASSUME NEW p \in Others, NEW t \in Time, OtherAnnounces(p, t)
      PROVE  sim_time_ns' = sim_time_ns
  <2> DEFINE ps == WithEntry(p, [Entry(p) EXCEPT !.request_time_ns = t,
                                                 !.has_new_request = TRUE, !.silent = FALSE])
  <2>1. Self \in DOMAIN ps /\ ps[Self] = participants[Self]
    BY <1>2, <1>3 DEF WithEntry, Others
  <2>2. TryUpdateClock(ps, regulator_request_ns, real_time_request_ns)
    BY <1>3 DEF OtherAnnounces, Announce
  <2> HIDE DEF ps
  <2> QED BY <1>0, <1>2, <2>1, <2>2, UpdateIsHeld
<1>4. CASE RegulatorTick
  BY <1>0, <1>2, <1>4, RegulatorTargetType, UpdateIsHeld DEF RegulatorTick
<1>5. ASSUME NEW wall_dt \in WallSteps, RealTimeTick(wall_dt)
      PROVE  sim_time_ns' = sim_time_ns
  BY <1>0, <1>2, <1>5, RealTimeRequestType, UpdateIsHeld DEF RealTimeTick
<1>6. CASE Clear
  <2>1. Self \notin Zombies
    BY <1>6 DEF Clear
  <2>2. TryUpdateClock(WithoutEntries(Zombies), regulator_request_ns, real_time_request_ns)
    BY <1>6 DEF Clear, ClearZombieParticipants
  <2>3. /\ Self \in DOMAIN WithoutEntries(Zombies)
        /\ WithoutEntries(Zombies)[Self] = participants[Self]
    BY <1>2, <2>1 DEF WithoutEntries, Restrict
  <2> QED BY <1>0, <1>2, <2>2, <2>3, UpdateIsHeld
<1>7. CASE \/ PublishWorker \/ ComputeForLong \/ register_participant
           \/ unregister_participant \/ SendRequest \/ ReceiveReply
           \/ \E t \in Time : announce_next_safe_time(t)
           \/ \E setting \in BOOLEAN : set_follows_real_time(setting)
           \/ UNCHANGED allvars
  BY <1>7 DEF PublishWorker, ComputeForLong, FallSilent, register_participant,
              unregister_participant, SendRequest, ReceiveReply, announce_next_safe_time,
              set_follows_real_time, Begin, allvars, vars
<1>8. CASE HandleRequest
  BY <1>8 DEF HandleRequest
<1> QED BY <1>3, <1>4, <1>5, <1>6, <1>7, <1>8 DEF BackendNext, Pass

\* Once the call that opted out of real time has returned and the thread
\* computes, no step of any handler moves the clock.
THEOREM ComputingHoldsTheClock ==
  ASSUME ~ Reused
  PROVE  BackendSpec => ComputingHoldsClock
<1>1. BackendSpec => [][ComputingHoldsStep]_allvars
  BY BackendTypeCorrect, SettingsLast, ComputingStep, PTL DEF BackendSpec
<1> QED BY <1>1 DEF ComputingHoldsClock, ComputingHoldsStep

=============================================================================
