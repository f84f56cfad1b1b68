------------------------- MODULE MultiThreadedExecutor -------------------------
(***************************************************************************)
(* The workers of fss_time's MultiThreadedExecutor                         *)
(* (src/multi_threaded_executor.cpp) with simulated time.  They share one  *)
(* rclcpp wait set under wait_mutex_; each is a participant of its own     *)
(* that announces infinity while it waits and the current time before it   *)
(* runs callbacks.  Announcements are sent and not awaited: they travel on *)
(* one channel per worker.                                                 *)
(*                                                                         *)
(* External, as the code uses it: rclcpp's wait set and callback groups.   *)
(* A wait collects the groups that can be taken from when it begins and    *)
(* returns on work of one of them, on the interrupt guard condition or on  *)
(* a timeout.  Executing a callback makes its group available again, and   *)
(* so does the destructor of an AnyExecutable that still refers to one.    *)
(***************************************************************************)
EXTENDS Naturals, Sequences

CONSTANTS
  Workers,
  Main,             \* the worker that runs in the thread that called spin()
  Groups,           \* callback groups
  Reentrant,        \* those that are not mutually exclusive
  MaxReady,         \* bound of the model on the ready callbacks of a group
  MaxMessages       \* bound of the model on each channel

ASSUME ExecutorAssumption ==
  /\ Main \in Workers
  /\ Reentrant \subseteq Groups
  /\ MaxReady \in Nat \ {0} /\ MaxMessages \in Nat \ {0}

Nobody == "nobody"    \* a mutex that nobody holds
None == "none"        \* an AnyExecutable without a callback group

VARIABLES
  spinning,         \* Executor::spinning and rclcpp::ok()
  pc,               \* where each worker is
  any_exec,         \* the callback group of each worker's any_exec
  wait_mutex,       \* wait_mutex_
  watched,          \* the groups collected by the wait of its holder
  guard,            \* interrupt_guard_condition_ is triggered
  ready,            \* group |-> its callbacks that are ready
  busy,             \* the groups that cannot be taken from
  channel,          \* each worker's announcements on the way to the coordinator
  entry             \* what the coordinator last handled of each worker

vars == <<spinning, pc, any_exec, wait_mutex, watched, guard, ready, busy,
          channel, entry>>

Goto(w, from, to) ==
  /\ pc[w] = from
  /\ pc' = [pc EXCEPT ![w] = to]

\* thread_time_participant::announce_next_safe_time, the time being the
\* current one ("pinned") or infinity.
Announce(w, time) ==
  /\ Len(channel[w]) < MaxMessages
  /\ channel' = [channel EXCEPT ![w] = Append(@, time)]

Exclusive(g) == g \in Groups \ Reentrant

-----------------------------------------------------------------------------
(* rclcpp.                                                                 *)

Available == Groups \ busy

\* get_next_executable takes a callback: its group, if exclusive, cannot be
\* taken from.  A wait that returns has consumed the guard condition; work
\* left over from an earlier wait is taken without one.
Take(w, g) ==
  /\ ready[g] > 0 /\ g \notin busy
  /\ ready' = [ready EXCEPT ![g] = @ - 1]
  /\ busy' = IF Exclusive(g) THEN busy \cup {g} ELSE busy
  /\ any_exec' = [any_exec EXCEPT ![w] = g]
  /\ guard' \in {guard, FALSE}

\* A worker that returns destroys its any_exec, and with it frees the group.
Return(w) ==
  /\ pc' = [pc EXCEPT ![w] = "exited"]
  /\ busy' = busy \ {any_exec[w]}
  /\ any_exec' = [any_exec EXCEPT ![w] = None]

-----------------------------------------------------------------------------
(* run().                                                                  *)

\* REGISTER awaits its reply, and a participant that has announced nothing
\* yet holds the clock.
Register(w) ==
  /\ Goto(w, "start", "release")
  /\ entry' = [entry EXCEPT ![w] = "pinned"]
  /\ UNCHANGED <<spinning, any_exec, wait_mutex, watched, guard, ready, busy, channel>>

\* The head of the outer loop.
Release(w) ==
  /\ spinning
  /\ Goto(w, "release", "loop")
  /\ Announce(w, "infinite")
  /\ UNCHANGED <<spinning, any_exec, wait_mutex, watched, guard, ready, busy, entry>>

\* A worker that finds the executor cancelled at a test of its loops returns.
Stop(w) ==
  /\ ~ spinning
  /\ pc[w] \in {"release", "loop", "taken", "execute"}
  /\ Return(w)
  /\ UNCHANGED <<spinning, wait_mutex, watched, guard, ready, channel, entry>>

\* The head of the inner loop: work is wanted.
WantLock(w) ==
  /\ spinning
  /\ Goto(w, "loop", "lock")
  /\ UNCHANGED <<spinning, any_exec, wait_mutex, watched, guard, ready, busy, channel, entry>>

\* Mutant: the flag is not read again once the lock is held.
LockAndWait_Unchecked(w) ==
  /\ wait_mutex = Nobody
  /\ Goto(w, "lock", "waiting")
  /\ wait_mutex' = w
  /\ watched' = Available
  /\ UNCHANGED <<spinning, any_exec, guard, ready, busy, channel, entry>>

LockAndWait(w) ==
  /\ wait_mutex = Nobody
  /\ IF spinning
       THEN /\ Goto(w, "lock", "waiting")
            /\ wait_mutex' = w
            /\ watched' = Available
            /\ UNCHANGED <<any_exec, busy>>
       ELSE /\ pc[w] = "lock"
            /\ Return(w)
            /\ UNCHANGED <<wait_mutex, watched>>
  /\ UNCHANGED <<spinning, guard, ready, channel, entry>>

WaitTakes(w, g) ==
  /\ g \in watched
  /\ Goto(w, "waiting", "taken")
  /\ Take(w, g)
  /\ wait_mutex' = Nobody
  /\ watched' = {}
  /\ UNCHANGED <<spinning, channel, entry>>

\* Woken by the guard condition, or after a timeout, with nothing to take.
WaitReturnsEmpty(w) ==
  /\ \A g \in watched : ready[g] = 0
  /\ Goto(w, "waiting", "loop")
  /\ guard' = FALSE
  /\ wait_mutex' = Nobody
  /\ watched' = {}
  /\ UNCHANGED <<spinning, any_exec, ready, busy, channel, entry>>

Pin(w) ==
  /\ spinning
  /\ Goto(w, "taken", "execute")
  /\ Announce(w, "pinned")
  /\ UNCHANGED <<spinning, any_exec, wait_mutex, watched, guard, ready, busy, entry>>

StartCallback(w) ==
  /\ spinning
  /\ Goto(w, "execute", "running")
  /\ UNCHANGED <<spinning, any_exec, wait_mutex, watched, guard, ready, busy, channel, entry>>

\* Mutant: the clock is released before more work is looked for.
FinishCallback_Releases(w) ==
  /\ Goto(w, "running", "finished")
  /\ busy' = busy \ {any_exec[w]}
  /\ Announce(w, "infinite")
  /\ UNCHANGED <<spinning, any_exec, wait_mutex, watched, guard, ready, entry>>

\* execute_any_executable returns.
FinishCallback(w) ==
  /\ Goto(w, "running", "finished")
  /\ busy' = busy \ {any_exec[w]}
  /\ UNCHANGED <<spinning, any_exec, wait_mutex, watched, guard, ready, channel, entry>>

\* Mutant: peers are not told that the group is available.
WakePeers_Missing(w) ==
  /\ Goto(w, "finished", "poll")
  /\ any_exec' = [any_exec EXCEPT ![w] = None]
  /\ UNCHANGED <<spinning, wait_mutex, watched, guard, ready, busy, channel, entry>>

\* Peers are woken if the callback made an exclusive group available.
WakePeers(w) ==
  /\ Goto(w, "finished", "poll")
  /\ guard' = (guard \/ Exclusive(any_exec[w]))
  /\ any_exec' = [any_exec EXCEPT ![w] = None]
  /\ UNCHANGED <<spinning, wait_mutex, watched, ready, busy, channel, entry>>

\* Mutant: a worker that cannot lock goes back to waiting without a release.
TryLock_KeepsPin(w) ==
  /\ Goto(w, "poll", IF wait_mutex = Nobody THEN "polling" ELSE "loop")
  /\ wait_mutex' = IF wait_mutex = Nobody THEN w ELSE wait_mutex
  /\ UNCHANGED <<spinning, any_exec, watched, guard, ready, busy, channel, entry>>

\* try_to_lock: another worker has the wait set and will find what is ready.
TryLock(w) ==
  /\ Goto(w, "poll", IF wait_mutex = Nobody THEN "polling" ELSE "release")
  /\ wait_mutex' = IF wait_mutex = Nobody THEN w ELSE wait_mutex
  /\ UNCHANGED <<spinning, any_exec, watched, guard, ready, busy, channel, entry>>

\* A wait with a zero timeout: the next callback is run under the same pin.
PollTakes(w, g) ==
  /\ spinning
  /\ Goto(w, "polling", "again")
  /\ Take(w, g)
  /\ wait_mutex' = Nobody
  /\ UNCHANGED <<spinning, watched, channel, entry>>

\* Nothing is ready, or the executor was cancelled.
PollFindsNothing(w) ==
  /\ pc[w] = "polling"
  /\ spinning => \A g \in Available : ready[g] = 0
  /\ pc' = [pc EXCEPT ![w] = IF spinning THEN "release" ELSE "exited"]
  /\ guard' = (guard /\ ~ spinning)
  /\ wait_mutex' = Nobody
  /\ UNCHANGED <<spinning, any_exec, watched, ready, busy, channel, entry>>

\* any_exec is a copy of next_exec, whose destructor at the end of the loop's
\* body makes the group available before the callback is run.
DropNextExec(w) ==
  /\ Goto(w, "again", "execute")
  /\ busy' = busy \ {any_exec[w]}
  /\ UNCHANGED <<spinning, any_exec, wait_mutex, watched, guard, ready, channel, entry>>

\* The thread ends and its participant unregisters.  The thread that called
\* spin() goes on as long as its program likes.
EndThread(w) ==
  /\ Goto(w, "exited", "ended")
  /\ Announce(w, "leave")
  /\ UNCHANGED <<spinning, any_exec, wait_mutex, watched, guard, ready, busy, entry>>

-----------------------------------------------------------------------------
(* Around the workers.                                                     *)

BecomeReady(g) ==
  /\ ready[g] < MaxReady
  /\ ready' = [ready EXCEPT ![g] = @ + 1]
  /\ UNCHANGED <<spinning, pc, any_exec, wait_mutex, watched, guard, busy, channel, entry>>

\* Executor::cancel(), or a shutdown.
Cancel ==
  /\ spinning
  /\ spinning' = FALSE
  /\ guard' = TRUE
  /\ UNCHANGED <<pc, any_exec, wait_mutex, watched, ready, busy, channel, entry>>

HandleAnnouncement(w) ==
  /\ channel[w] # <<>>
  /\ entry' = [entry EXCEPT ![w] =
       IF Head(channel[w]) = "leave" THEN "absent" ELSE Head(channel[w])]
  /\ channel' = [channel EXCEPT ![w] = Tail(@)]
  /\ UNCHANGED <<spinning, pc, any_exec, wait_mutex, watched, guard, ready, busy>>

\* Nobody among the workers holds the coordinator's clock.
ClockMayMove == \A w \in Workers : entry[w] # "pinned"

-----------------------------------------------------------------------------
\* spin() has made the threads.
Init ==
  /\ spinning = TRUE
  /\ pc = [w \in Workers |-> "start"]
  /\ any_exec = [w \in Workers |-> None]
  /\ wait_mutex = Nobody
  /\ watched = {}
  /\ guard = FALSE
  /\ ready \in [Groups -> 0 .. MaxReady]
  /\ busy = {}
  /\ channel = [w \in Workers |-> <<>>]
  /\ entry = [w \in Workers |-> "absent"]

\* Steps that the worker takes of its own, whatever else happens.
WorkerStep(w) ==
  \/ Register(w) \/ Release(w) \/ Stop(w) \/ WantLock(w) \/ LockAndWait(w)
  \/ (\E g \in Groups : WaitTakes(w, g) \/ PollTakes(w, g))
  \/ WaitReturnsEmpty(w) /\ guard
  \/ Pin(w) \/ StartCallback(w) \/ FinishCallback(w) \/ WakePeers(w)
  \/ TryLock(w) \/ PollFindsNothing(w) \/ DropNextExec(w)

Next ==
  \/ \E w \in Workers :
       WorkerStep(w) \/ WaitReturnsEmpty(w) \/ EndThread(w) \/ HandleAnnouncement(w)
  \/ \E g \in Groups : BecomeReady(g)
  \/ Cancel

Spec == Init /\ [][Next]_vars

\* Threads that can run do run (strong fairness where they compete for the
\* mutex), callbacks end, messages arrive; no timeout comes to help.
Fairness ==
  \A w \in Workers :
    /\ SF_vars(WorkerStep(w))
    /\ WF_vars(HandleAnnouncement(w))
    /\ w # Main => WF_vars(EndThread(w))

FairSpec == Spec /\ Fairness

-----------------------------------------------------------------------------
(* Properties.                                                             *)

TypeOK ==
  /\ spinning \in BOOLEAN /\ guard \in BOOLEAN
  /\ pc \in [Workers -> {"start", "release", "loop", "lock", "waiting", "taken", "execute",
                         "running", "finished", "poll", "polling", "again", "exited", "ended"}]
  /\ any_exec \in [Workers -> Groups \cup {None}]
  /\ wait_mutex \in Workers \cup {Nobody}
  /\ watched \subseteq Groups
  /\ ready \in [Groups -> 0 .. MaxReady]
  /\ busy \subseteq Groups \ Reentrant
  /\ channel \in [Workers -> Seq({"pinned", "infinite", "leave"})]
  /\ entry \in [Workers -> {"absent", "pinned", "infinite"}]

\* From the announcement before a burst of callbacks to its end.
InBurst(w) ==
  pc[w] \in {"execute", "running", "finished", "poll", "polling", "again"}

\* A burst of callbacks holds the clock as soon as the coordinator has handled
\* what the worker has sent: no earlier release of its own is still to come
\* (README.md:95, "holds the clock during that callback").
CallbackHoldsClock ==
  \A w \in Workers : InBurst(w) /\ channel[w] = <<>> => entry[w] = "pinned"

\* Ready callbacks are never left lying: work that became available when its
\* group was freed is found, although the worker that freed it may fail to
\* lock the wait set and the one that holds it began its wait without the group.
WorkIsDone ==
  (\E g \in Groups : ready[g] > 0) ~> (\E w \in Workers : InBurst(w)) \/ ~ spinning

\* rclcpp's promise for a mutually exclusive group, which the executor means to
\* keep ("original rclcpp::executors::MultiThreadedExecutor behavior",
\* multi_threaded_executor.cpp:202): its callbacks do not overlap.
GroupsExclude ==
  \A w, v \in Workers :
    w # v /\ pc[w] = "running" /\ pc[v] = "running" /\ any_exec[w] = any_exec[v]
      => any_exec[w] \in Reentrant

\* With nothing to do the clock can move: every worker gives up its pin, also
\* the one that could not lock the wait set.
IdleReleasesClock ==
  (\A g \in Groups : ready[g] = 0) ~>
    ClockMayMove \/ (\E g \in Groups : ready[g] > 0) \/ ~ spinning

\* After cancel() every worker returns, wherever it was, and the threads that
\* spin() joins no longer hold the clock.
CancelStops ==
  ~ spinning ~> /\ \A w \in Workers : pc[w] \in {"exited", "ended"}
                /\ \A w \in Workers \ {Main} : entry[w] = "absent"

=============================================================================
