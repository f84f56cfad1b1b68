------------------------------ MODULE AsyncWorkers ------------------------------
(***************************************************************************)
(* The two worker threads of a coordinator (publish_worker_loop and        *)
(* announce_worker_loop), the handlers that queue tasks for them and the   *)
(* destructor that stops them (src/time_coordinator.cpp), one action per   *)
(* step between two operations on a mutex, a condition variable or the     *)
(* atomic stop_async_worker_.  Each worker has its own queue, mutex and    *)
(* condition variable; the stop flag is one for both.                      *)
(***************************************************************************)
EXTENDS Naturals

CONSTANT MaxTasks     \* bound of the model on each queue

ASSUME MaxTasksAssumption == MaxTasks \in Nat

Worker == {"publish", "announce"}

Free == "free"        \* a mutex that nobody holds

VARIABLES
  stop_async_worker,    \* stop_async_worker_
  tasks,                \* length of publish_tasks_, announce_tasks_
  mutex,                \* who holds publish_mutex_, announce_mutex_
  worker,               \* where each worker thread is
  handler,              \* where the handler threads are: between calls, or about to notify
  destructor,           \* where the destroying thread is
  ok                    \* rclcpp::ok()

vars == <<stop_async_worker, tasks, mutex, worker, handler, destructor, ok>>

Move(w, from, to) ==
  /\ worker[w] = from
  /\ worker' = [worker EXCEPT ![w] = to]

Acquire(w, owner) == mutex[w] = Free /\ mutex' = [mutex EXCEPT ![w] = owner]
Release(w) == mutex' = [mutex EXCEPT ![w] = Free]

\* A notification reaches the worker only if it is blocked in wait.
Notify(w) ==
  worker' = IF worker[w] = "blocked" THEN [worker EXCEPT ![w] = "woken"] ELSE worker

Predicate(w) == stop_async_worker \/ tasks[w] > 0

-----------------------------------------------------------------------------
(* Workers.                                                                *)

LoopCondition(w) ==
  /\ Move(w, "loop", IF ok THEN "lock" ELSE "exited")
  /\ UNCHANGED <<stop_async_worker, tasks, mutex, handler, destructor, ok>>

LockQueue(w) ==
  /\ worker[w] \in {"lock", "woken"}
  /\ Acquire(w, "worker")
  /\ worker' = [worker EXCEPT ![w] = "test"]
  /\ UNCHANGED <<stop_async_worker, tasks, handler, destructor, ok>>

TestPredicate(w) ==
  /\ Move(w, "test", IF Predicate(w) THEN "take" ELSE "block")
  /\ UNCHANGED <<stop_async_worker, tasks, mutex, handler, destructor, ok>>

\* condition_variable::wait releases the mutex and blocks in one step.
Block(w) ==
  /\ Move(w, "block", "blocked")
  /\ Release(w)
  /\ UNCHANGED <<stop_async_worker, tasks, handler, destructor, ok>>

SpuriousWakeup(w) ==
  /\ Move(w, "blocked", "woken")
  /\ UNCHANGED <<stop_async_worker, tasks, mutex, handler, destructor, ok>>

TakeTask(w) ==
  /\ tasks[w] > 0
  /\ Move(w, "take", "run")
  /\ tasks' = [tasks EXCEPT ![w] = @ - 1]
  /\ Release(w)
  /\ UNCHANGED <<stop_async_worker, handler, destructor, ok>>

\* Mutant: a stopped worker leaves its queue as it is.
Exit_Undrained(w) ==
  /\ stop_async_worker
  /\ Move(w, "take", "exited")
  /\ Release(w)
  /\ UNCHANGED <<stop_async_worker, tasks, handler, destructor, ok>>

Exit(w) ==
  /\ tasks[w] = 0
  /\ Move(w, "take", "exited")
  /\ Release(w)
  /\ UNCHANGED <<stop_async_worker, tasks, handler, destructor, ok>>

RunTask(w) ==
  /\ Move(w, "run", "loop")
  /\ UNCHANGED <<stop_async_worker, tasks, mutex, handler, destructor, ok>>

-----------------------------------------------------------------------------
(* Handlers (enqueue_publish_task, enqueue_announce_task): the task is     *)
(* pushed under the mutex, and the worker is notified after its release.   *)

Enqueue(w) ==
  /\ handler = "idle" /\ destructor = "alive"
  /\ mutex[w] = Free /\ tasks[w] < MaxTasks
  /\ tasks' = [tasks EXCEPT ![w] = @ + 1]
  /\ handler' = w
  /\ UNCHANGED <<stop_async_worker, mutex, worker, destructor, ok>>

\* Mutant: nobody is notified of a new task.
NotifyTask_Missing(w) ==
  /\ handler = w /\ handler' = "idle"
  /\ UNCHANGED <<stop_async_worker, tasks, mutex, worker, destructor, ok>>

NotifyTask(w) ==
  /\ handler = w /\ handler' = "idle"
  /\ Notify(w)
  /\ UNCHANGED <<stop_async_worker, tasks, mutex, destructor, ok>>

-----------------------------------------------------------------------------
(* The destructor: it joins the receive threads, so no handler is running, *)
(* sets the flag under publish_mutex_, notifies both and joins both.       *)

\* Mutant: the flag is set without the publish worker's mutex.
SetStop_Unlocked ==
  /\ destructor = "alive" /\ handler = "idle"
  /\ stop_async_worker' = TRUE
  /\ destructor' = "notify_publish"
  /\ UNCHANGED <<tasks, mutex, worker, handler, ok>>

SetStop ==
  /\ destructor = "alive" /\ handler = "idle"
  /\ mutex["publish"] = Free
  /\ stop_async_worker' = TRUE
  /\ destructor' = "notify_publish"
  /\ UNCHANGED <<tasks, mutex, worker, handler, ok>>

NotifyStop(w, here, next) ==
  /\ destructor = here /\ destructor' = next
  /\ Notify(w)
  /\ UNCHANGED <<stop_async_worker, tasks, mutex, handler, ok>>

Join(w, here, next) ==
  /\ destructor = here /\ destructor' = next
  /\ worker[w] = "exited"
  /\ UNCHANGED <<stop_async_worker, tasks, mutex, worker, handler, ok>>

Destruct ==
  \/ SetStop
  \/ NotifyStop("publish", "notify_publish", "notify_announce")
  \/ NotifyStop("announce", "notify_announce", "join_publish")
  \/ Join("publish", "join_publish", "join_announce")
  \/ Join("announce", "join_announce", "done")

Shutdown ==
  /\ ok /\ ok' = FALSE
  /\ UNCHANGED <<stop_async_worker, tasks, mutex, worker, handler, destructor>>

-----------------------------------------------------------------------------
Init ==
  /\ stop_async_worker = FALSE
  /\ tasks = [w \in Worker |-> 0]
  /\ mutex = [w \in Worker |-> Free]
  /\ worker = [w \in Worker |-> "loop"]
  /\ handler = "idle"
  /\ destructor = "alive"
  /\ ok = TRUE

WorkerStep(w) ==
  \/ LoopCondition(w) \/ LockQueue(w) \/ TestPredicate(w) \/ Block(w)
  \/ TakeTask(w) \/ Exit(w) \/ RunTask(w)

Next ==
  \/ \E w \in Worker : WorkerStep(w) \/ SpuriousWakeup(w) \/ Enqueue(w) \/ NotifyTask(w)
  \/ Destruct
  \/ Shutdown

Spec == Init /\ [][Next]_vars

\* Threads that can run do run; SetStop competes for publish_mutex_ (strong
\* fairness) and is the owner's choice to begin with.
Fairness ==
  /\ \A w \in Worker : SF_vars(WorkerStep(w)) /\ WF_vars(NotifyTask(w))
  /\ WF_vars(Destruct /\ destructor # "alive")

FairSpec == Spec /\ Fairness

-----------------------------------------------------------------------------
(* Properties.                                                             *)

TypeOK ==
  /\ stop_async_worker \in BOOLEAN /\ ok \in BOOLEAN
  /\ tasks \in [Worker -> 0 .. MaxTasks]
  /\ mutex \in [Worker -> {Free, "worker"}]
  /\ worker \in [Worker -> {"loop", "lock", "test", "block", "blocked", "woken",
                            "take", "run", "exited"}]
  /\ handler \in Worker \cup {"idle"}
  /\ destructor \in {"alive", "notify_publish", "notify_announce",
                     "join_publish", "join_announce", "done"}

\* Stopping drains the queues: unless ROS is shut down, a worker that has
\* exited has left no task behind (the last clock value is published, the last
\* safe time is announced).
ExitedIsDrained ==
  \A w \in Worker : worker[w] = "exited" /\ ok => tasks[w] = 0

\* No notification of a task is lost: a queued task is taken sooner or later,
\* although it is notified after the mutex is released.
TasksTaken ==
  \A w \in Worker : \A n \in 1 .. MaxTasks :
    tasks[w] = n ~> tasks[w] # n \/ ~ ok

\* The publish worker always stops: its flag is set under the mutex that its
\* wait holds, so the stop notification cannot fall between the test of the
\* predicate and the wait.
PublishWorkerStops == stop_async_worker ~> worker["publish"] = "exited"

=============================================================================
