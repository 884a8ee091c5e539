--------------------------- MODULE SerialTaskQueue ---------------------------
(***************************************************************************)
(* SerialTaskQueue (water/base/serial_task_queue.{h,cc}) and the           *)
(* synchronous call of its base class TaskQueue (water/base/task_queue.h): *)
(* one worker thread runs the submitted tasks one by one; a task may       *)
(* submit further tasks; the destructor stops the worker and joins it.     *)
(*                                                                         *)
(* task_mutex_ is held across steps only between the worker's test of the  *)
(* wait condition and its wait, that is while worker = "waiting": every    *)
(* other critical section is one step.  stop_ is written without it.       *)
(***************************************************************************)
EXTENDS Naturals, Sequences, FiniteSets, Functions

CONSTANTS Tasks,    \* each is submitted at most once
          Callers,  \* the threads that use the queue, besides its worker
          NoTask

Worker == "worker"

ASSUME SerialTaskQueueAssumption ==
    /\ NoTask \notin Tasks
    /\ Worker \notin Callers

VARIABLES
    task_queue_, stop_,
    worker,     \* where QueueFunc is
    sync,       \* sync[c]: the task whose promise c waits for, or NoTask
    dtor,       \* how far the destructor is
    started,    \* history: the tasks taken, in that order
    done,       \* history: the tasks that returned
    late        \* history: the tasks taken after stop_ was set

vars == <<task_queue_, stop_, worker, sync, dtor, started, done, late>>

Init ==
    /\ task_queue_ = <<>>
    /\ stop_ = FALSE
    /\ worker = "top"
    /\ sync = [c \in Callers |-> NoTask]
    /\ dtor = "alive"
    /\ started = <<>>
    /\ done = {}
    /\ late = {}

MutexFree == worker # "waiting"

Accepted == started \o task_queue_

\* A caller uses the queue while it exists; a task may do so as long as it runs.
MayCall(c) ==
    IF c = Worker THEN worker = "running"
                  ELSE dtor = "alive" /\ sync[c] = NoTask

-----------------------------------------------------------------------------
(* The operations.                                                         *)

NotNotified(w) == w
Notified(w) == IF w = "blocked" THEN "locking" ELSE w

\* Push and notify_one under the mutex; the worker is the only waiter.
Push(task) ==
    /\ MutexFree
    /\ task_queue_' = Append(task_queue_, task)
    /\ worker' = Notified(worker)

RunTaskInQueue(c, task) ==
    /\ MayCall(c)
    /\ task \notin Range(Accepted)
    /\ Push(task)
    /\ UNCHANGED <<stop_, sync, dtor, started, done, late>>

\* The task is wrapped in one that sets the caller's promise after it; the
\* wrapped task and its wrapper are one task here.  (A task that synchronises
\* with its own queue waits for itself; no task of this model does.)
SyncTaskInQueue(c, task) ==
    /\ MayCall(c)
    /\ task \notin Range(Accepted)
    /\ Push(task)
    /\ sync' = [sync EXCEPT ![c] = task]
    /\ UNCHANGED <<stop_, dtor, started, done, late>>

PromiseSetFirst(c) ==
    /\ sync[c] \in Range(started)
    /\ sync' = [sync EXCEPT ![c] = NoTask]
    /\ UNCHANGED <<task_queue_, stop_, worker, dtor, started, done, late>>

SyncReturns(c) ==
    /\ sync[c] \in done
    /\ sync' = [sync EXCEPT ![c] = NoTask]
    /\ UNCHANGED <<task_queue_, stop_, worker, dtor, started, done, late>>

-----------------------------------------------------------------------------
(* QueueFunc, the worker thread.                                           *)

TakeWithoutPop ==
    /\ started' = Append(started, Head(task_queue_))
    /\ late' = IF stop_ THEN late \cup {Head(task_queue_)} ELSE late
    /\ worker' = "running"
    /\ UNCHANGED task_queue_

Take ==
    /\ started' = Append(started, Head(task_queue_))
    /\ task_queue_' = Tail(task_queue_)
    /\ late' = IF stop_ THEN late \cup {Head(task_queue_)} ELSE late
    /\ worker' = "running"

CheckStopIgnored ==
    /\ worker = "top"
    /\ worker' = "locking"
    /\ UNCHANGED <<task_queue_, stop_, sync, dtor, started, done, late>>

CheckStop ==
    /\ worker = "top"
    /\ worker' = IF stop_ THEN "exited" ELSE "locking"
    /\ UNCHANGED <<task_queue_, stop_, sync, dtor, started, done, late>>

\* With the mutex, first or again after a wake-up: while (!stop_ && empty).
LockAndTest ==
    /\ worker = "locking"
    /\ \/ /\ task_queue_ # <<>>
          /\ Take
       \/ /\ task_queue_ = <<>>
          /\ worker' = IF stop_ THEN "top" ELSE "waiting"
          /\ UNCHANGED <<task_queue_, started, late>>
    /\ UNCHANGED <<stop_, sync, dtor, done>>

\* task_cond_.wait gives the mutex back and blocks in one step.
Wait ==
    /\ worker = "waiting"
    /\ worker' = "blocked"
    /\ UNCHANGED <<task_queue_, stop_, sync, dtor, started, done, late>>

SpuriousWakeUp ==
    /\ worker = "blocked"
    /\ worker' = "locking"
    /\ UNCHANGED <<task_queue_, stop_, sync, dtor, started, done, late>>

TaskReturns ==
    /\ worker = "running"
    /\ done' = Range(started)
    /\ worker' = "top"
    /\ UNCHANGED <<task_queue_, stop_, sync, dtor, started, late>>

-----------------------------------------------------------------------------
(* The destructor: no call of another thread is in progress (the lifetime  *)
(* rule of C++).                                                           *)

StopForgotten ==
    /\ dtor = "alive"
    /\ \A c \in Callers : sync[c] = NoTask
    /\ dtor' = "stopping"
    /\ UNCHANGED <<task_queue_, stop_, worker, sync, started, done, late>>

SetStop ==
    /\ dtor = "alive"
    /\ \A c \in Callers : sync[c] = NoTask
    /\ stop_' = TRUE
    /\ dtor' = "stopping"
    /\ UNCHANGED <<task_queue_, worker, sync, started, done, late>>

NoNotify ==
    /\ dtor = "stopping"
    /\ dtor' = "joining"
    /\ UNCHANGED <<task_queue_, stop_, worker, sync, started, done, late>>

\* Without the mutex: nothing orders it after the worker's wait.
NotifyAll ==
    /\ dtor = "stopping"
    /\ worker' = Notified(worker)
    /\ dtor' = "joining"
    /\ UNCHANGED <<task_queue_, stop_, sync, started, done, late>>

Join ==
    /\ dtor = "joining"
    /\ worker = "exited"
    /\ dtor' = "joined"
    /\ UNCHANGED <<task_queue_, stop_, worker, sync, started, done, late>>

QueueFunc == CheckStop \/ LockAndTest \/ Wait \/ TaskReturns

Next ==
    \/ \E task \in Tasks :
         \/ \E c \in Callers \cup {Worker} : RunTaskInQueue(c, task)
         \/ \E c \in Callers : SyncTaskInQueue(c, task)
    \/ \E c \in Callers : SyncReturns(c)
    \/ QueueFunc
    \/ SpuriousWakeUp
    \/ SetStop
    \/ NotifyAll
    \/ Join

(***************************************************************************)
(* The threads are scheduled and the tasks return.  Nothing submits tasks  *)
(* or destroys the queue for certain, and nothing wakes a waiter by itself. *)
(***************************************************************************)
Fairness ==
    /\ WF_vars(QueueFunc)
    /\ \A c \in Callers : WF_vars(SyncReturns(c))
    /\ WF_vars(NotifyAll)
    /\ WF_vars(Join)

Spec == Init /\ [][Next]_vars /\ Fairness

-----------------------------------------------------------------------------
(* Properties.                                                             *)

\* The type of every variable; stop_ is set exactly once the destructor runs,
\* and the worker leaves QueueFunc only then.
TypeOK ==
    /\ task_queue_ \in Seq(Tasks)
    /\ stop_ \in BOOLEAN
    /\ worker \in {"top", "locking", "waiting", "blocked", "running", "exited"}
    /\ sync \in [Callers -> Tasks \cup {NoTask}]
    /\ dtor \in {"alive", "stopping", "joining", "joined"}
    /\ started \in Seq(Tasks)
    /\ done \in SUBSET Tasks
    /\ late \in SUBSET Tasks
    /\ stop_ <=> dtor # "alive"
    /\ worker = "exited" => stop_

\* What RunTaskInQueue accepts is taken by the worker once and in that order.
Executor == INSTANCE TaskQueue WITH pending <- task_queue_
TasksRunInOrder == Executor!Spec

\* WaitAllTaskFinished keeps its name: when a synchronous call returns, its own
\* task and every task accepted before it, by whatever thread, have returned.
SyncCoversEarlier ==
    [][\A c \in Callers : sync[c] # NoTask /\ sync'[c] = NoTask =>
         \E n \in DOMAIN started :
            /\ started[n] = sync[c]
            /\ \A m \in 1 .. n : started[m] \in done]_vars

\* The destructor does not drain the queue: after stop_ is set the worker takes
\* at most one more task, the one it was already committed to.
AtMostOneAfterStop == \A a, b \in late : a = b

\* What is accepted is done, unless the queue is being destroyed; and whoever
\* waits for a task in a synchronous call goes on.
AcceptedTaskRuns ==
    /\ \A task \in Tasks :
         task \in Range(task_queue_) ~> task \in done \/ stop_
    /\ \A c \in Callers : sync[c] # NoTask ~> sync[c] = NoTask

\* The destructor joins the worker, provided that stop_ is not set in the very
\* window between the worker's test of the wait condition and its wait.
JoinsOutsideWindow ==
    dtor = "stopping" /\ worker # "waiting" ~> dtor = "joined"

\* The destructor always returns, as the test program that ends with two queues
\* going out of scope takes for granted.
DestructorReturns == dtor = "stopping" ~> dtor = "joined"

=============================================================================
