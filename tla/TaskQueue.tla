------------------------------ MODULE TaskQueue ------------------------------
(***************************************************************************)
(* The contract of a serial executor, as the interface class TaskQueue     *)
(* (water/base/task_queue.h) leaves it to its implementations: a task that *)
(* was accepted is started at most once, by one thread, in the order of    *)
(* acceptance.  Two components promise it: SerialTaskQueue, and the list   *)
(* of functors of EventLoop (QueueInLoop).                                 *)
(***************************************************************************)
EXTENDS Sequences

CONSTANT Tasks      \* everything that may be submitted

VARIABLES pending,  \* accepted and not yet started, oldest first
          started   \* started so far, in the order of their start

Init ==
    /\ pending = <<>>
    /\ started = <<>>

Accept(task) ==
    /\ pending' = Append(pending, task)
    /\ UNCHANGED started

StartOldest ==
    /\ pending # <<>>
    /\ started' = Append(started, Head(pending))
    /\ pending' = Tail(pending)

Next == StartOldest \/ \E task \in Tasks : Accept(task)

Spec == Init /\ [][Next]_<<pending, started>>

=============================================================================
