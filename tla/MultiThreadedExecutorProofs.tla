---------------------- MODULE MultiThreadedExecutorProofs ----------------------
(***************************************************************************)
(* Theorems about the workers of the MultiThreadedExecutor, for any number *)
(* of workers and callback groups and channels of any length.              *)
(***************************************************************************)
EXTENDS MultiThreadedExecutor, TLAPS

\* Announcements.
Word == {"pinned", "infinite", "leave"}

\* A worker's steps that look at the wait set, and those that do not.
Waits(w) ==
  \/ LockAndWait(w) \/ WaitReturnsEmpty(w) \/ TryLock(w) \/ PollFindsNothing(w)
  \/ \E g \in Groups : WaitTakes(w, g) \/ PollTakes(w, g)
Works(w) ==
  \/ Register(w) \/ Release(w) \/ Stop(w) \/ WantLock(w) \/ Pin(w) \/ StartCallback(w)
  \/ FinishCallback(w) \/ WakePeers(w) \/ DropNextExec(w) \/ EndThread(w)
Around ==
  \/ \E w \in Workers : HandleAnnouncement(w)
  \/ \E g \in Groups : BecomeReady(g)
  \/ Cancel

\* Next, grouped for the proofs.
LEMMA NextCases == Next => (\E w \in Workers : Waits(w) \/ Works(w)) \/ Around
BY DEF Next, WorkerStep, Waits, Works, Around

-----------------------------------------------------------------------------
(* Type correctness.                                                       *)

\* Taking a callback keeps the types, with a worker that moves to a place.
LEMMA TakeType ==
  ASSUME TypeOK, NEW w \in Workers, NEW g \in Groups, Take(w, g)
  PROVE  /\ ready' \in [Groups -> 0 .. MaxReady]
         /\ busy' \subseteq Groups \ Reentrant
         /\ any_exec' \in [Workers -> Groups \cup {None}]
         /\ guard' \in BOOLEAN
<1>1. ready' \in [Groups -> 0 .. MaxReady]
  BY ExecutorAssumption DEF TypeOK, Take
<1>2. busy' \subseteq Groups \ Reentrant
  BY DEF TypeOK, Take, Exclusive
<1>3. any_exec' \in [Workers -> Groups \cup {None}]
  BY DEF TypeOK, Take
<1>4. guard' \in BOOLEAN
  BY DEF TypeOK, Take
<1> QED BY <1>1, <1>2, <1>3, <1>4

\* An announcement keeps the type of the channels.
LEMMA AnnounceType ==
  ASSUME TypeOK, NEW w \in Workers, NEW word \in Word, Announce(w, word)
  PROVE  channel' \in [Workers -> Seq(Word)]
BY DEF TypeOK, Announce, Word

\* Steps at the wait set keep the types.
LEMMA WaitsType == ASSUME TypeOK, NEW w \in Workers, Waits(w) PROVE TypeOK'
<1>1. CASE LockAndWait(w)
  BY <1>1 DEF LockAndWait, Return, Goto, Available, TypeOK
<1>2. CASE WaitReturnsEmpty(w)
  BY <1>2 DEF WaitReturnsEmpty, Goto, TypeOK
<1>3. CASE TryLock(w)
  BY <1>3 DEF TryLock, Goto, TypeOK
<1>4. CASE PollFindsNothing(w)
  <2>1. guard' \in BOOLEAN
    BY <1>4 DEF PollFindsNothing, TypeOK
  <2> QED BY <1>4, <2>1 DEF PollFindsNothing, TypeOK
<1>5. ASSUME NEW g \in Groups, WaitTakes(w, g) PROVE TypeOK'
  BY <1>5, TakeType DEF WaitTakes, Goto, TypeOK
<1>6. ASSUME NEW g \in Groups, PollTakes(w, g) PROVE TypeOK'
  BY <1>6, TakeType DEF PollTakes, Goto, TypeOK
<1> QED BY <1>1, <1>2, <1>3, <1>4, <1>5, <1>6 DEF Waits

\* Steps of a worker on its own keep the types.
LEMMA WorksType == ASSUME TypeOK, NEW w \in Workers, Works(w) PROVE TypeOK'
<1>1. CASE Register(w)
  BY <1>1 DEF Register, Goto, TypeOK
<1>2. CASE Release(w)
  BY <1>2, AnnounceType DEF Release, Goto, TypeOK, Word
<1>3. CASE Stop(w)
  BY <1>3 DEF Stop, Return, TypeOK
<1>4. CASE WantLock(w) \/ StartCallback(w)
  BY <1>4 DEF WantLock, StartCallback, Goto, TypeOK
<1>5. CASE Pin(w)
  BY <1>5, AnnounceType DEF Pin, Goto, TypeOK, Word
<1>6. CASE FinishCallback(w) \/ DropNextExec(w)
  BY <1>6 DEF FinishCallback, DropNextExec, Goto, TypeOK
<1>7. CASE WakePeers(w)
  <2>1. guard' \in BOOLEAN
    BY <1>7 DEF WakePeers, TypeOK
  <2> QED BY <1>7, <2>1 DEF WakePeers, Goto, TypeOK
<1>8. CASE EndThread(w)
  BY <1>8, AnnounceType DEF EndThread, Goto, TypeOK, Word
<1> QED BY <1>1, <1>2, <1>3, <1>4, <1>5, <1>6, <1>7, <1>8 DEF Works

\* Every step keeps the types.
LEMMA TypeStep == TypeOK /\ [Next]_vars => TypeOK'
<1> SUFFICES ASSUME TypeOK, [Next]_vars PROVE TypeOK'
  OBVIOUS
<1>1. ASSUME NEW w \in Workers, HandleAnnouncement(w) PROVE TypeOK'
  <2>1. channel[w] \in Seq(Word) /\ channel[w] # <<>>
    BY <1>1 DEF HandleAnnouncement, TypeOK, Word
  <2>2. Head(channel[w]) \in Word /\ Tail(channel[w]) \in Seq(Word)
    BY <2>1
  <2> QED BY <1>1, <2>2 DEF HandleAnnouncement, TypeOK, Word
<1>2. ASSUME NEW g \in Groups, BecomeReady(g) PROVE TypeOK'
  BY <1>2, ExecutorAssumption DEF BecomeReady, TypeOK
<1>3. CASE Cancel
  BY <1>3 DEF Cancel, TypeOK
<1>4. CASE UNCHANGED vars
  BY <1>4 DEF vars, TypeOK
<1> QED BY <1>1, <1>2, <1>3, <1>4, NextCases, WaitsType, WorksType DEF Around

\* The executor's state keeps its types (run()).
THEOREM TypeCorrect == Spec => []TypeOK
<1>1. Init => TypeOK
  <2> SUFFICES ASSUME Init PROVE TypeOK
    OBVIOUS
  <2>1. spinning \in BOOLEAN /\ guard \in BOOLEAN
    BY DEF Init
  <2>2. channel \in [Workers -> Seq({"pinned", "infinite", "leave"})]
    BY DEF Init
  <2> QED BY <2>1, <2>2 DEF Init, TypeOK
<1> QED BY <1>1, TypeStep, PTL DEF Spec

-----------------------------------------------------------------------------
(* The clock.                                                              *)

\* The last announcement of a worker, on its way or handled.
LastWord(w) == IF channel[w] = <<>> THEN entry[w] ELSE channel[w][Len(channel[w])]

\* The last thing a worker in a burst has announced is the current time.
BurstIsPinned == \A w \in Workers : InBurst(w) => LastWord(w) = "pinned"

\* A step that announces nothing and begins no burst keeps BurstIsPinned.
LEMMA QuietStep ==
  ASSUME BurstIsPinned, UNCHANGED <<channel, entry>>,
         \A v \in Workers : InBurst(v)' => InBurst(v)
  PROVE  BurstIsPinned'
BY DEF BurstIsPinned, LastWord

\* What is announced is the last word.
LEMMA AnnouncedLast ==
  ASSUME TypeOK, NEW w \in Workers, NEW word \in Word, Announce(w, word),
         UNCHANGED entry, NEW v \in Workers
  PROVE  LastWord(v)' = IF v = w THEN word ELSE LastWord(v)
<1>1. CASE v = w
  <2>1. channel[w] \in Seq(Word) /\ channel'[w] = Append(channel[w], word)
    BY DEF Announce, TypeOK, Word
  <2>2. channel'[w] # <<>> /\ channel'[w][Len(channel'[w])] = word
    BY <2>1
  <2> QED BY <1>1, <2>2 DEF LastWord
<1>2. CASE v # w
  BY <1>2 DEF Announce, LastWord, TypeOK
<1> QED BY <1>1, <1>2

\* BurstIsPinned is inductive.
LEMMA PinnedStep == TypeOK /\ BurstIsPinned /\ [Next]_vars => BurstIsPinned'
<1> SUFFICES ASSUME TypeOK, BurstIsPinned, [Next]_vars PROVE BurstIsPinned'
  OBVIOUS
<1>1. ASSUME NEW w \in Workers, Waits(w) PROVE BurstIsPinned'
  <2>1. UNCHANGED <<channel, entry>>
    BY <1>1 DEF Waits, LockAndWait, WaitReturnsEmpty, TryLock, PollFindsNothing,
                WaitTakes, PollTakes
  <2>2. \A v \in Workers : InBurst(v)' => InBurst(v)
    BY <1>1 DEF Waits, LockAndWait, Return, WaitReturnsEmpty, TryLock, PollFindsNothing,
                WaitTakes, PollTakes, Goto, InBurst, TypeOK
  <2> QED BY <2>1, <2>2, QuietStep
<1>2. ASSUME NEW w \in Workers, Works(w) PROVE BurstIsPinned'
  <2>1. CASE Stop(w) \/ WantLock(w) \/ StartCallback(w) \/ FinishCallback(w)
             \/ WakePeers(w) \/ DropNextExec(w)
    <3>1. UNCHANGED <<channel, entry>>
      BY <2>1 DEF Stop, WantLock, StartCallback, FinishCallback, WakePeers, DropNextExec
    <3>2. \A v \in Workers : InBurst(v)' => InBurst(v)
      BY <2>1 DEF Stop, Return, WantLock, StartCallback, FinishCallback, WakePeers,
                  DropNextExec, Goto, InBurst, TypeOK
    <3> QED BY <3>1, <3>2, QuietStep
  <2>2. CASE Register(w)
    BY <2>2 DEF Register, Goto, BurstIsPinned, InBurst, LastWord, TypeOK
  <2>3. CASE Release(w) \/ EndThread(w)
    <3>1. PICK word \in Word : Announce(w, word) /\ UNCHANGED entry
      BY <2>3 DEF Release, EndThread, Word
    <3>2. ~ InBurst(w)' /\ \A v \in Workers \ {w} : InBurst(v)' => InBurst(v)
      BY <2>3 DEF Release, EndThread, Goto, InBurst, TypeOK
    <3> QED BY <3>1, <3>2, AnnouncedLast DEF BurstIsPinned
  <2>4. CASE Pin(w)
    <3>1. Announce(w, "pinned") /\ UNCHANGED entry
      BY <2>4 DEF Pin
    <3>2. \A v \in Workers \ {w} : InBurst(v)' => InBurst(v)
      BY <2>4 DEF Pin, Goto, InBurst, TypeOK
    <3> QED BY <3>1, <3>2, AnnouncedLast DEF BurstIsPinned, Word
  <2> QED BY <1>2, <2>1, <2>2, <2>3, <2>4 DEF Works
<1>3. ASSUME NEW w \in Workers, HandleAnnouncement(w) PROVE BurstIsPinned'
  <2> SUFFICES ASSUME NEW v \in Workers, InBurst(v) PROVE LastWord(v)' = "pinned"
    BY <1>3 DEF HandleAnnouncement, BurstIsPinned, InBurst
  <2>1. LastWord(v) = "pinned"
    BY DEF BurstIsPinned
  <2>2. CASE v # w
    BY <1>3, <2>1, <2>2 DEF HandleAnnouncement, LastWord, TypeOK
  <2>3. CASE v = w
    <3>1. channel[w] \in Seq(Word) /\ channel[w] # <<>> /\ channel'[w] = Tail(channel[w])
      BY <1>3 DEF HandleAnnouncement, TypeOK, Word
    <3>2. CASE Tail(channel[w]) = <<>>
      <4>1. Head(channel[w]) = channel[w][Len(channel[w])]
        BY <3>1, <3>2
      <4> QED BY <1>3, <2>1, <2>3, <3>1, <3>2, <4>1 DEF HandleAnnouncement, LastWord, TypeOK
    <3>3. CASE Tail(channel[w]) # <<>>
      <4>1. Tail(channel[w])[Len(Tail(channel[w]))] = channel[w][Len(channel[w])]
        BY <3>1, <3>3
      <4> QED BY <2>1, <2>3, <3>1, <3>3, <4>1 DEF LastWord
    <3> QED BY <3>2, <3>3
  <2> QED BY <2>2, <2>3
<1>4. ASSUME NEW g \in Groups, BecomeReady(g) PROVE BurstIsPinned'
  BY <1>4, QuietStep DEF BecomeReady, InBurst
<1>5. CASE Cancel
  BY <1>5, QuietStep DEF Cancel, InBurst
<1>6. CASE UNCHANGED vars
  BY <1>6, QuietStep DEF vars, InBurst
<1> QED BY <1>1, <1>2, <1>3, <1>4, <1>5, <1>6, NextCases DEF Around

\* Once the coordinator has handled what a worker has sent, the worker's burst of
\* callbacks holds the clock, however the workers race for the wait set.
THEOREM BurstsHoldTheClock == Spec => []CallbackHoldsClock
<1>1. Init => BurstIsPinned
  BY DEF Init, BurstIsPinned, InBurst
<1>2. BurstIsPinned => CallbackHoldsClock
  BY DEF BurstIsPinned, LastWord, CallbackHoldsClock
<1> QED BY <1>1, <1>2, TypeCorrect, PinnedStep, PTL DEF Spec

=============================================================================
