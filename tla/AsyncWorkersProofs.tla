--------------------------- MODULE AsyncWorkersProofs ---------------------------
(***************************************************************************)
(* Theorems about the coordinator's worker threads (AsyncWorkers), for     *)
(* queues of any length.                                                   *)
(***************************************************************************)
EXTENDS AsyncWorkers, TLAPS

USE DEF Worker, Free

-----------------------------------------------------------------------------
(* Type correctness.                                                       *)

\* Every step keeps the types; a queue never becomes shorter than empty,
\* because a stopped worker looks at its queue before it takes from it.
LEMMA TypeStep == TypeOK /\ [Next]_vars => TypeOK'
<1> SUFFICES ASSUME TypeOK, [Next]_vars PROVE TypeOK'
  OBVIOUS
<1> USE MaxTasksAssumption DEF TypeOK
<1>1. ASSUME NEW w \in Worker, WorkerStep(w) PROVE TypeOK'
  <2>1. CASE LoopCondition(w) \/ LockQueue(w) \/ TestPredicate(w)
    BY <2>1 DEF LoopCondition, LockQueue, TestPredicate, Move, Acquire
  <2>2. CASE Block(w) \/ Exit(w) \/ RunTask(w)
    BY <2>2 DEF Block, Exit, RunTask, Move, Release
  <2>3. CASE TakeTask(w)
    BY <2>3 DEF TakeTask, Move, Release
  <2> QED BY <1>1, <2>1, <2>2, <2>3 DEF WorkerStep
<1>2. ASSUME NEW w \in Worker, SpuriousWakeup(w) \/ Enqueue(w) \/ NotifyTask(w)
      PROVE  TypeOK'
  BY <1>2 DEF SpuriousWakeup, Enqueue, NotifyTask, Notify, Move
<1>3. CASE Destruct
  <2>1. CASE SetStop
    BY <2>1 DEF SetStop
  <2>2. ASSUME NEW w \in Worker, NEW here, NEW next \in
                 {"notify_announce", "join_publish"},
               NotifyStop(w, here, next)
        PROVE  TypeOK'
    BY <2>2 DEF NotifyStop, Notify
  <2>3. ASSUME NEW w \in Worker, NEW here, NEW next \in {"join_announce", "done"},
               Join(w, here, next)
        PROVE  TypeOK'
    BY <2>3 DEF Join
  <2> QED BY <1>3, <2>1, <2>2, <2>3 DEF Destruct
<1>4. CASE Shutdown \/ UNCHANGED vars
  BY <1>4 DEF Shutdown, vars
<1> QED BY <1>1, <1>2, <1>3, <1>4 DEF Next

\* The workers, handlers and the destructor keep their state well typed.
THEOREM TypeCorrect == Spec => []TypeOK
<1>1. Init => TypeOK
  <2>1. Init => tasks \in [Worker -> 0 .. MaxTasks]
    BY MaxTasksAssumption DEF Init
  <2> QED BY <2>1 DEF Init, TypeOK
<1> QED BY <1>1, TypeStep, PTL DEF Spec

-----------------------------------------------------------------------------
(* Draining.                                                               *)

\* A worker gets to its queue only with a reason, and exits for good: once the
\* flag is set nobody queues a task any more.
Drained ==
  /\ stop_async_worker <=> destructor # "alive"
  /\ \A w \in Worker :
       /\ worker[w] = "take" => Predicate(w)
       /\ worker[w] = "exited" => ~ok \/ (stop_async_worker /\ tasks[w] = 0)

\* Drained is inductive.
LEMMA DrainedStep == TypeOK /\ Drained /\ [Next]_vars => Drained'
<1> SUFFICES ASSUME TypeOK, Drained, [Next]_vars PROVE Drained'
  OBVIOUS
<1> USE DEF TypeOK, Drained, Predicate
<1>1. ASSUME NEW w \in Worker, WorkerStep(w) PROVE Drained'
  <2>1. CASE LoopCondition(w) \/ LockQueue(w) \/ TestPredicate(w)
    BY <2>1 DEF LoopCondition, LockQueue, TestPredicate, Move, Acquire
  <2>2. CASE Block(w) \/ Exit(w) \/ RunTask(w)
    BY <2>2 DEF Block, Exit, RunTask, Move, Release
  <2>3. CASE TakeTask(w)
    BY <2>3, MaxTasksAssumption DEF TakeTask, Move, Release
  <2> QED BY <1>1, <2>1, <2>2, <2>3 DEF WorkerStep
<1>2. ASSUME NEW w \in Worker, SpuriousWakeup(w) \/ Enqueue(w) \/ NotifyTask(w)
      PROVE  Drained'
  BY <1>2, MaxTasksAssumption DEF SpuriousWakeup, Enqueue, NotifyTask, Notify, Move
<1>3. CASE Destruct
  BY <1>3 DEF Destruct, SetStop, NotifyStop, Join, Notify
<1>4. CASE Shutdown \/ UNCHANGED vars
  BY <1>4 DEF Shutdown, vars
<1> QED BY <1>1, <1>2, <1>3, <1>4 DEF Next

\* Stopping drains the queues: a worker that has exited while ROS runs has left
\* no task behind (publish_worker_loop, announce_worker_loop).
THEOREM StoppingDrains == Spec => []ExitedIsDrained
<1>1. Init => Drained
  BY DEF Init, Drained, Predicate
<1>2. Drained => ExitedIsDrained
  BY DEF Drained, ExitedIsDrained
<1> QED BY <1>1, <1>2, TypeCorrect, DrainedStep, PTL DEF Spec

-----------------------------------------------------------------------------
(* The stop notification.                                                  *)

\* A worker holds its queue's mutex from the test of its predicate on.
Locked ==
  \A w \in Worker : worker[w] \in {"test", "block", "take"} => mutex[w] = "worker"

\* Once the flag is set the publish worker is never about to block, and if it is
\* blocked its notification is still to come: the safety behind
\* PublishWorkerStops.  The announce worker, whose mutex the flag is not set
\* under, has no such guarantee.
StopIsNoticed ==
  stop_async_worker =>
    /\ worker["publish"] # "block"
    /\ worker["publish"] = "blocked" => destructor = "notify_publish"

\* Locked and StopIsNoticed are inductive together.
LEMMA NoticedStep ==
  TypeOK /\ Drained /\ Locked /\ StopIsNoticed /\ [Next]_vars => (Locked /\ StopIsNoticed)'
<1> SUFFICES ASSUME TypeOK, Drained, Locked, StopIsNoticed, [Next]_vars
             PROVE  (Locked /\ StopIsNoticed)'
  OBVIOUS
<1> USE DEF TypeOK, Locked, StopIsNoticed
<1>1. ASSUME NEW w \in Worker, WorkerStep(w) PROVE (Locked /\ StopIsNoticed)'
  <2>1. CASE LoopCondition(w) \/ LockQueue(w) \/ TestPredicate(w)
    BY <2>1 DEF LoopCondition, LockQueue, TestPredicate, Move, Acquire, Predicate
  <2>2. CASE Block(w) \/ Exit(w) \/ RunTask(w) \/ TakeTask(w)
    BY <2>2 DEF Block, Exit, RunTask, TakeTask, Move, Release
  <2> QED BY <1>1, <2>1, <2>2 DEF WorkerStep
<1>2. ASSUME NEW w \in Worker, SpuriousWakeup(w) \/ Enqueue(w) \/ NotifyTask(w)
      PROVE  (Locked /\ StopIsNoticed)'
  BY <1>2 DEF SpuriousWakeup, Enqueue, NotifyTask, Notify, Move
<1>3. CASE Destruct
  BY <1>3 DEF Destruct, SetStop, NotifyStop, Join, Notify, Drained
<1>4. CASE Shutdown \/ UNCHANGED vars
  BY <1>4 DEF Shutdown, vars
<1> QED BY <1>1, <1>2, <1>3, <1>4 DEF Next

\* The publish worker cannot miss the stop notification (stop_async_worker).
THEOREM PublishWorkerNoticesStop == Spec => []StopIsNoticed
<1>1. Init => Drained /\ Locked /\ StopIsNoticed
  BY DEF Init, Drained, Locked, StopIsNoticed, Predicate
<1> QED BY <1>1, TypeCorrect, DrainedStep, NoticedStep, PTL DEF Spec

-----------------------------------------------------------------------------
(* The notification of a task.                                             *)

\* A worker about to wait has found its queue empty, and no task can come before
\* it waits; one that waits on a queue that is not empty has its notification
\* still to come from the handler that filled it.
NotificationComes ==
  \A w \in Worker :
    tasks[w] > 0 =>
      /\ worker[w] # "block"
      /\ worker[w] = "blocked" => handler = w

\* NotificationComes is inductive with the ownership of the mutex.
LEMMA NotificationStep ==
  TypeOK /\ Locked /\ NotificationComes /\ [Next]_vars => (Locked /\ NotificationComes)'
<1> SUFFICES ASSUME TypeOK, Locked, NotificationComes, [Next]_vars
             PROVE  (Locked /\ NotificationComes)'
  OBVIOUS
<1> USE DEF TypeOK, Locked, NotificationComes
<1>1. ASSUME NEW w \in Worker, WorkerStep(w) PROVE (Locked /\ NotificationComes)'
  <2>1. CASE LoopCondition(w) \/ LockQueue(w) \/ TestPredicate(w)
    BY <2>1 DEF LoopCondition, LockQueue, TestPredicate, Move, Acquire, Predicate
  <2>2. CASE Block(w) \/ Exit(w) \/ RunTask(w) \/ TakeTask(w)
    BY <2>2 DEF Block, Exit, RunTask, TakeTask, Move, Release
  <2> QED BY <1>1, <2>1, <2>2 DEF WorkerStep
<1>2. ASSUME NEW w \in Worker, SpuriousWakeup(w) PROVE (Locked /\ NotificationComes)'
  BY <1>2 DEF SpuriousWakeup, Move
<1>3. ASSUME NEW w \in Worker, Enqueue(w) PROVE (Locked /\ NotificationComes)'
  BY <1>3 DEF Enqueue, Free
<1>4. ASSUME NEW w \in Worker, NotifyTask(w) PROVE (Locked /\ NotificationComes)'
  BY <1>4 DEF NotifyTask, Notify
<1>5. CASE Destruct
  BY <1>5 DEF Destruct, SetStop, NotifyStop, Join, Notify
<1>6. CASE Shutdown \/ UNCHANGED vars
  BY <1>6 DEF Shutdown, vars
<1> QED BY <1>1, <1>2, <1>3, <1>4, <1>5, <1>6 DEF Next

\* No worker sleeps on a task that nobody will wake it for, although handlers
\* notify after they have released the mutex (enqueue_publish_task,
\* enqueue_announce_task): the safety behind TasksTaken, for both workers.
THEOREM NoTaskIsForgotten == Spec => []NotificationComes
<1>1. Init => Locked /\ NotificationComes
  BY DEF Init, Locked, NotificationComes
<1> QED BY <1>1, TypeCorrect, NotificationStep, PTL DEF Spec

=============================================================================
