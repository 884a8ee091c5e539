--------------------------- MODULE EventLoopThread ---------------------------
(***************************************************************************)
(* EventLoopThread (water/net/event_loop_thread.{h,cc}) composes the two   *)
(* other components: the worker of its SerialTaskQueue runs LoopFuncs,     *)
(* which keeps an EventLoop on its stack and publishes its address; Run,   *)
(* Stop, Wait and the destructor are called by other threads.              *)
(*                                                                         *)
(* LoopFuncs ends with the life of its EventLoop; loop_ is never reset.    *)
(***************************************************************************)
EXTENDS Naturals, Sequences, FiniteSets, Functions

CONSTANTS Callers, WaitTasks, NoTask,  \* as in SerialTaskQueue
          Funcs, Chans, InitListSize   \* as in EventLoop

LoopTask == "LoopFuncs"

VARIABLES task_queue_, stop_, worker, sync, dtor, started, done, late
VARIABLES looping_, quit_, calling_funcs_, funcs_, tmp_funcs, wake_up_fd_,
          ready, active_channels_, list_size, io, waking, ran, inline
VARIABLES
    life,       \* of the EventLoop in LoopFuncs; loop_ is null before
                \* "published" and keeps pointing to it when it is "gone"
    run,        \* run[c]: where c is in Run()
    dying,      \* the destructor's own body was executed
    dangling    \* history: set_quit() was called on an EventLoop that is gone

Q == INSTANCE SerialTaskQueue WITH Tasks <- WaitTasks \cup {LoopTask}
L == INSTANCE EventLoop WITH Threads <- Callers

ASSUME EventLoopThreadAssumption ==
    /\ Q!SerialTaskQueueAssumption
    /\ L!EventLoopAssumption

queueVars == <<task_queue_, stop_, worker, sync, dtor, started, done, late>>
loopVars == <<looping_, quit_, calling_funcs_, funcs_, tmp_funcs, wake_up_fd_,
              ready, active_channels_, list_size, io, waking, ran, inline>>
threadVars == <<life, run, dying, dangling>>
vars == <<queueVars, loopVars, threadVars>>

Init ==
    /\ Q!Init
    /\ L!Init
    /\ life = "none"
    /\ run = [c \in Callers |-> "idle"]
    /\ dying = FALSE
    /\ dangling = FALSE

Running(task) == worker = "running" /\ started[Len(started)] = task

\* c is not inside a call and the object exists.
MayCall(c) == ~dying /\ run[c] = "idle" /\ sync[c] = NoTask

-----------------------------------------------------------------------------
(* The operations of the other threads.                                    *)

Run(c) ==
    /\ MayCall(c)
    /\ Q!RunTaskInQueue(c, LoopTask)
    /\ run' = [run EXCEPT ![c] = "testing"]
    /\ UNCHANGED <<loopVars, life, dying, dangling>>

\* while (loop_ == nullptr) cond_.wait(lk), with the mutex.
AwaitLoop(c) ==
    /\ run[c] = "testing"
    /\ run' = [run EXCEPT ![c] = IF life = "none" THEN "asleep" ELSE "idle"]
    /\ UNCHANGED <<queueVars, loopVars, life, dying, dangling>>

\* if (loop_) loop_->set_quit().  The write into a frame that is gone has no
\* effect of its own here; it is remembered.
QuitThrough(c) ==
    \/ /\ life = "none"
       /\ UNCHANGED <<loopVars, dangling>>
    \/ /\ life \in {"published", "looping"}
       /\ L!set_quit(c)
       /\ UNCHANGED dangling
    \/ /\ life = "gone"
       /\ dangling' = TRUE
       /\ UNCHANGED loopVars

Stop(c) ==
    /\ MayCall(c)
    /\ QuitThrough(c)
    /\ UNCHANGED <<queueVars, life, run, dying>>

Wait(c, task) ==
    /\ MayCall(c)
    /\ Q!SyncTaskInQueue(c, task)
    /\ UNCHANGED <<loopVars, threadVars>>

WaitReturnsAtOnce(c) ==
    /\ sync[c] # NoTask
    /\ sync' = [sync EXCEPT ![c] = NoTask]
    /\ UNCHANGED <<task_queue_, stop_, worker, dtor, started, done, late,
                   loopVars, threadVars>>

WaitReturns(c) ==
    /\ Q!SyncReturns(c)
    /\ UNCHANGED <<loopVars, threadVars>>

\* No call of any thread is in progress when the object is destroyed.
DestructorBody(c) ==
    /\ \A b \in Callers : MayCall(b)
    /\ QuitThrough(c)
    /\ dying' = TRUE
    /\ UNCHANGED <<queueVars, life, run>>

\* Then the members go: the condition variable, the mutex, the queue.
DestroyQueue ==
    /\ dying
    /\ Q!SetStop \/ Q!NotifyAll \/ Q!Join
    /\ UNCHANGED <<loopVars, threadVars>>

-----------------------------------------------------------------------------
(* The worker of the queue, which is the loop's I/O thread.                *)

\* Between two tasks.
QueueStep ==
    /\ Q!CheckStop \/ Q!LockAndTest \/ Q!Wait
    /\ UNCHANGED <<loopVars, threadVars>>

PublishSilently ==
    /\ Running(LoopTask)
    /\ life = "none"
    /\ life' = "published"
    /\ UNCHANGED <<queueVars, loopVars, run, dying, dangling>>

\* The constructor of the loop, then loop_ = &loop and notify_one with the
\* mutex; LoopFuncs is submitted once, so at most one thread waits for it.
Publish ==
    /\ Running(LoopTask)
    /\ life = "none"
    /\ life' = "published"
    /\ run' = [c \in Callers |->
                 IF run[c] = "asleep" THEN "testing" ELSE run[c]]
    /\ UNCHANGED <<queueVars, loopVars, dying, dangling>>

StartLoop ==
    /\ life = "published"
    /\ L!Loop
    /\ life' = "looping"
    /\ UNCHANGED <<queueVars, run, dying, dangling>>

LoopStep ==
    /\ life = "looping"
    /\ L!LoopStep \/ L!WakeUp(L!IO)
    /\ UNCHANGED <<queueVars, threadVars>>

\* kPollTimeMs goes by in epoll_wait.
PollTimeout ==
    /\ life = "looping"
    /\ L!PollNothing
    /\ UNCHANGED <<queueVars, threadVars>>

\* What callbacks and functors do with their own loop.
UserCode ==
    /\ life = "looping"
    /\ io # "out"
    /\ \/ L!set_quit(L!IO)
       \/ \E f \in Funcs : L!QueueInLoop(L!IO, f)
    /\ UNCHANGED <<queueVars, threadVars>>

LoopFuncsReturnsEarly ==
    /\ life = "looping"
    /\ Q!TaskReturns
    /\ life' = "gone"
    /\ UNCHANGED <<loopVars, run, dying, dangling>>

\* Loop() has returned: the EventLoop is destroyed, loop_ stays.
LoopFuncsReturns ==
    /\ life = "looping"
    /\ io = "out"
    /\ Q!TaskReturns
    /\ life' = "gone"
    /\ UNCHANGED <<loopVars, run, dying, dangling>>

WaitTaskReturns ==
    /\ ~Running(LoopTask)
    /\ Q!TaskReturns
    /\ UNCHANGED <<loopVars, threadVars>>

FdReady ==
    /\ \E c \in Chans : L!FdReady(c)
    /\ UNCHANGED <<queueVars, threadVars>>

WorkerStep ==
    \/ QueueStep
    \/ Publish
    \/ StartLoop
    \/ LoopStep
    \/ LoopFuncsReturns
    \/ WaitTaskReturns

Next ==
    \/ \E c \in Callers :
         \/ Run(c)
         \/ AwaitLoop(c)
         \/ Stop(c)
         \/ \E task \in WaitTasks : Wait(c, task)
         \/ WaitReturns(c)
         \/ DestructorBody(c)
    \/ DestroyQueue
    \/ WorkerStep
    \/ PollTimeout
    \/ UserCode
    \/ FdReady

(***************************************************************************)
(* All threads are scheduled, callbacks and functors return, epoll_wait    *)
(* times out, and a destructor that was entered goes on.                   *)
(***************************************************************************)
Spec ==
    /\ Init
    /\ [][Next]_vars
    /\ WF_vars(WorkerStep)
    /\ WF_vars(PollTimeout)
    /\ WF_vars(DestroyQueue)
    /\ \A c \in Callers : WF_vars(AwaitLoop(c)) /\ WF_vars(WaitReturns(c))

-----------------------------------------------------------------------------
(* Properties.                                                             *)

\* The two components keep their types under the composition, and they agree:
\* the loop is between its publication and its end exactly while the worker is
\* in LoopFuncs, and only then is anything of EventLoop::Loop() executed.
TypeOK ==
    /\ Q!TypeOK
    /\ L!TypeOK
    /\ life \in {"none", "published", "looping", "gone"}
    /\ run \in [Callers -> {"idle", "testing", "asleep"}]
    /\ dying \in BOOLEAN
    /\ dangling \in BOOLEAN
    /\ life \in {"published", "looping"} => Running(LoopTask)
    /\ io # "out" => life = "looping"
    /\ life = "gone" => LoopTask \in done

\* A Wait() that was called after Run() returns only when the loop has ended:
\* the empty task it waits for is behind LoopFuncs in the queue.
WaitOutlastsLoop ==
    [][\A c \in Callers :
         /\ sync[c] # NoTask
         /\ sync'[c] = NoTask
         /\ \E m, n \in DOMAIN Q!Accepted :
              /\ m < n
              /\ Q!Accepted[m] = LoopTask
              /\ Q!Accepted[n] = sync[c]
         => life = "gone"]_vars

\* Run() returns: the publication of the loop is not missed.
RunCallReturns == \A c \in Callers : run[c] # "idle" ~> run[c] = "idle"

\* A Stop() that finds the loop running ends LoopFuncs, and with it Wait().
StopEndsRunningLoop == quit_ /\ looping_ ~> life = "gone"

\* The destructor returns when its set_quit() found the loop running (or there
\* was none) and the worker is not between its test and its wait.
DestructorJoins ==
    /\ dtor = "stopping"
    /\ worker # "waiting"
    /\ life # "published"
    /\ life = "looping" => quit_
    ~> dtor = "joined"

\* set_quit() "exits the event loop", from any thread: once it was called on
\* the published loop, the loop comes to its end.
StopEndsLoop == quit_ /\ life \in {"published", "looping"} ~> life = "gone"

\* The EventLoop lives as long as its I/O thread: nothing is ever called on it
\* after its end.
LoopOutlivesItsUses == ~dangling

=============================================================================
