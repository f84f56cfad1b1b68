------------------------------- MODULE Cascade -------------------------------
(***************************************************************************)
(* Two coordinators in cascade: the root (parent) coordinator, and a child *)
(* coordinator of one machine that is a participant of the root.  Both are *)
(* the TimeCoordinator module in lock-step mode, with variables of their   *)
(* own.                                                                    *)
(*                                                                         *)
(* The child's safe times travel through its announce queue and a ZeroMQ   *)
(* DEALER/ROUTER channel, here one FIFO (child_announce_tasks).  The       *)
(* root's grants travel through its publish queue and a PUB/SUB channel    *)
(* (root_publish_tasks), which may lose any of them: the root sends with   *)
(* dontwait and a subscriber may still be connecting.                      *)
(***************************************************************************)
EXTENDS Naturals, Sequences, Functions

CONSTANTS
  Local,              \* the participants of the child coordinator
  Child,              \* the identity of the child at the root
  Repinning,          \* local participants that announce again while they wait
  LateJoiners,        \* local participants that may register at any time
  RunningValues,      \* values of running that the root's operator sends
  Infinite, Step, RealTimeFactors, MaxTasks

ASSUME CascadeAssumption ==
  /\ Child \notin Local
  /\ Repinning \subseteq Local /\ LateJoiners \subseteq Local
  /\ RunningValues \subseteq BOOLEAN
  /\ Step \in Nat \ {0} /\ Infinite \in Nat /\ Step < Infinite
  /\ RealTimeFactors \subseteq Nat /\ MaxTasks \in Nat

VARIABLES
  root_participants, root_time, root_regulator, root_real_time, root_running,
  root_factor, root_publish_tasks, root_announce_tasks, root_published,
  child_participants, child_time, child_regulator, child_real_time, child_running,
  child_factor, child_publish_tasks, child_announce_tasks, child_published

root ==
  <<root_participants, root_time, root_regulator, root_real_time, root_running,
    root_factor, root_publish_tasks, root_announce_tasks, root_published>>
child ==
  <<child_participants, child_time, child_regulator, child_real_time, child_running,
    child_factor, child_publish_tasks, child_announce_tasks, child_published>>

Root == INSTANCE TimeCoordinator WITH
  Participant <- {Child}, HasParent <- FALSE, FollowsRealTime <- FALSE, WallSteps <- {},
  participants <- root_participants, sim_time_ns <- root_time,
  regulator_request_ns <- root_regulator, real_time_request_ns <- root_real_time,
  running <- root_running, max_real_time_factor <- root_factor,
  publish_tasks <- root_publish_tasks, announce_tasks <- root_announce_tasks,
  published_ns <- root_published

Machine == INSTANCE TimeCoordinator WITH
  Participant <- Local, HasParent <- TRUE, FollowsRealTime <- FALSE, WallSteps <- {},
  participants <- child_participants, sim_time_ns <- child_time,
  regulator_request_ns <- child_regulator, real_time_request_ns <- child_real_time,
  running <- child_running, max_real_time_factor <- child_factor,
  publish_tasks <- child_publish_tasks, announce_tasks <- child_announce_tasks,
  published_ns <- child_published

Time == 0 .. Infinite

-----------------------------------------------------------------------------
(* The participants of the machine.                                        *)

Registered(p) == p \in DOMAIN child_participants
Waiting(p) == Registered(p) /\ child_participants[p].has_new_request

\* Before the first announcement of a local participant.
Start ==
  /\ child_time = 0
  /\ \A p \in DOMAIN child_participants : child_participants[p] = Machine!NewParticipant

Join(p) ==
  /\ ~ Registered(p)
  /\ p \in LateJoiners \/ Start
  /\ Machine!Register(p)
  /\ UNCHANGED root

\* A pinned executor is in a callback: it announced the time that it then was.
Pinned(p) == p \in Repinning /\ Waiting(p) /\ child_participants[p].request_time_ns <= child_time

\* A thread whose request was reached computes and then sleeps again; an
\* executor announces a later time when its callback is done.
Sleep(p, until) ==
  /\ Registered(p) /\ (Waiting(p) => Pinned(p))
  /\ until > child_time
  /\ Machine!Announce(p, until)
  /\ UNCHANGED root

\* An executor with a callback to run announces the current time while its
\* last request is still pending.
Pin(p) ==
  /\ p \in Repinning /\ Waiting(p) /\ ~ Pinned(p)
  /\ Machine!Announce(p, child_time)
  /\ UNCHANGED root

Leave(p) ==
  /\ Registered(p) /\ ~ Waiting(p)
  /\ Machine!Unregister(p)
  /\ UNCHANGED root

-----------------------------------------------------------------------------
(* Between the coordinators.                                               *)

\* The child's announce worker sends its next safe time and the root handles it.
AnnounceToRoot ==
  /\ Machine!AnnounceWorker
  /\ Root!Announce(Child, Head(child_announce_tasks))

\* The root's publish worker sends a grant.  A grant for a time the child has
\* already reached is dropped there.
DeliverGrant ==
  /\ Root!PublishWorker
  /\ \/ Machine!ReceiveParentGrant(Head(root_publish_tasks))
     \/ Head(root_publish_tasks) <= child_time /\ UNCHANGED child

LoseGrant == Root!PublishWorker /\ UNCHANGED child

-----------------------------------------------------------------------------
(* Timers and services of the two coordinators.                            *)

RootTick == Root!RegulatorTick /\ UNCHANGED child

RootStatusTick == Root!ClockStatusTick /\ UNCHANGED child

RootPause(value) == Root!SetRunning(value) /\ UNCHANGED child

ChildTick == Machine!RegulatorTick /\ UNCHANGED root

ChildStatusTick == Machine!ClockStatusTick /\ UNCHANGED root

ChildPublish == Machine!PublishWorker /\ UNCHANGED root

-----------------------------------------------------------------------------
\* The child registers at the root, passes on its own follows_real_time (false
\* in lock step) and then queues its first announcement (start()).
CascadeInit ==
  /\ Root!Started /\ Machine!Init
  /\ root_participants = [p \in {Child} |->
       [Root!NewParticipant EXCEPT !.follows_real_time = FALSE]]
  /\ child_running = TRUE

CascadeNext ==
  \/ \E p \in Local :
       \/ Join(p)
       \/ \E until \in Time : Sleep(p, until)
       \/ Pin(p)
       \/ Leave(p)
  \/ AnnounceToRoot \/ DeliverGrant \/ LoseGrant
  \/ RootTick \/ RootStatusTick \/ \E value \in RunningValues : RootPause(value)
  \/ ChildTick \/ ChildStatusTick \/ ChildPublish

allvars == <<root, child>>

CascadeSpec == CascadeInit /\ [][CascadeNext]_allvars

\* As for the single coordinator.  The PUB channel may lose any one grant, but
\* not all of those that the root sends again on every status tick.
CascadeFairness ==
  /\ WF_allvars(DeliverGrant \/ LoseGrant)
  /\ []<><<LoseGrant>>_allvars => []<><<DeliverGrant>>_allvars
  /\ SF_allvars(AnnounceToRoot)
  /\ SF_allvars(RootTick) /\ SF_allvars(RootStatusTick)
  /\ SF_allvars(ChildTick) /\ WF_allvars(ChildPublish)
  /\ \A p \in Local : SF_allvars(\E until \in Time : Sleep(p, until))

CascadeFairSpec == CascadeSpec /\ CascadeFairness

-----------------------------------------------------------------------------
(* Properties.                                                             *)

\* "Nodes on all machines observe the same granted simulation time"
\* (fss_time README.md:249): the child's clock is never ahead of the root's and
\* never more than one regulator step behind it, however many grants are lost
\* and however stale the announcements are that wait in its queue.
ChildFollowsRoot == child_time <= root_time /\ root_time <= child_time + Step

NotPast(p, t) == Waiting(p) /\ t <= child_participants[p].request_time_ns

\* No grant takes a local thread that sleeps and computes by turns past the
\* time it has announced, although the announcement that the grant answers
\* was made from an earlier state of the child, and whatever executors and
\* late joiners beside it do.
SleepersNotOvertaken ==
  [][child_time' > child_time =>
       \A p \in DOMAIN child_participants \ (Repinning \cup LateJoiners) :
         NotPast(p, child_time')]_allvars

\* Every local sleeper wakes: what it has announced to the child is reached
\* through the root, with any single grant lost on the way, while the root
\* runs.
LocalSleeperWakes ==
  \A p \in Local \ Repinning :
    Waiting(p) /\ child_participants[p].request_time_ns < Infinite - Step
      ~> ~ Waiting(p) \/ ~ root_running

=============================================================================
