------------------------ MODULE EventLoopThread_proofs ------------------------
(***************************************************************************)
(* EventLoopThread composes a SerialTaskQueue and an EventLoop: each of its *)
(* steps is a step of one of them, or leaves it alone, so that it inherits  *)
(* the inductive invariants of both.  What is added here relates the two.   *)
(***************************************************************************)
EXTENDS EventLoopThread, SequenceTheorems, TLAPS

QP == INSTANCE SerialTaskQueue_proofs WITH Tasks <- WaitTasks \cup {LoopTask}
LP == INSTANCE EventLoop_proofs WITH Threads <- Callers

AllTasks == WaitTasks \cup {LoopTask}

\* The worker is in LoopFuncs exactly from the publication of the loop to its
\* end, Loop() runs only in between, and LoopFuncs returns with its loop gone.
LifeAgrees ==
    /\ life \in {"published", "looping"} => Running(LoopTask)
    /\ io # "out" => life = "looping"
    /\ life = "gone" <=> LoopTask \in done

ThreadTypes ==
    /\ life \in {"none", "published", "looping", "gone"}
    /\ run \in [Callers -> {"idle", "testing", "asleep"}]
    /\ dying \in BOOLEAN
    /\ dangling \in BOOLEAN

IInv == QP!IInv /\ LP!IInv /\ ThreadTypes /\ LifeAgrees

-----------------------------------------------------------------------------
(* The composition.                                                        *)

\* Every step of the composition is one of the queue, or leaves it alone.
LEMMA QueueSteps ==
    ASSUME [Next]_vars
    PROVE  [QP!Next]_(QP!vars)
<1> USE DEF QP!vars, QP!Next, QP!QueueFunc, queueVars, loopVars, threadVars
<1>1. ASSUME NEW c \in Callers, Run(c)
      PROVE  [QP!Next]_(QP!vars)
  <2>1. QP!RunTaskInQueue(c, LoopTask)
    BY <1>1 DEF Run, Q!RunTaskInQueue, QP!RunTaskInQueue, Q!MayCall, QP!MayCall,
                Q!Worker, QP!Worker, Q!Push, QP!Push, Q!MutexFree, QP!MutexFree,
                Q!Notified, QP!Notified, Q!Accepted, QP!Accepted, Q!Range, QP!Range
  <2> QED
    BY <2>1
<1>2. ASSUME NEW c \in Callers, NEW task \in WaitTasks, Wait(c, task)
      PROVE  [QP!Next]_(QP!vars)
  <2>1. QP!SyncTaskInQueue(c, task)
    BY <1>2 DEF Wait, Q!SyncTaskInQueue, QP!SyncTaskInQueue, Q!MayCall,
                QP!MayCall, Q!Worker, QP!Worker, Q!Push, QP!Push, Q!MutexFree,
                QP!MutexFree, Q!Notified, QP!Notified, Q!Accepted, QP!Accepted, Q!Range, QP!Range
  <2> QED
    BY <2>1
<1>3. ASSUME NEW c \in Callers, WaitReturns(c)
      PROVE  [QP!Next]_(QP!vars)
  BY <1>3 DEF WaitReturns, Q!SyncReturns, QP!SyncReturns
<1>4. CASE DestroyQueue
  BY <1>4 DEF DestroyQueue, Q!SetStop, QP!SetStop, Q!NotifyAll, QP!NotifyAll,
              Q!Notified, QP!Notified, Q!Join, QP!Join
<1>5. CASE QueueStep
  <2>1. QP!CheckStop \/ QP!LockAndTest \/ QP!Wait
    BY <1>5 DEF QueueStep, Q!CheckStop, QP!CheckStop, Q!LockAndTest,
                QP!LockAndTest, Q!Take, QP!Take, Q!Wait, QP!Wait
  <2> QED
    BY <2>1
<1>6. CASE LoopFuncsReturns \/ WaitTaskReturns
  <2>1. QP!TaskReturns
    BY <1>6 DEF LoopFuncsReturns, WaitTaskReturns, Q!TaskReturns, QP!TaskReturns,
                Q!Range, QP!Range
  <2> QED
    BY <2>1
<1>7. CASE UNCHANGED queueVars
  BY <1>7
<1> QED
  BY <1>1, <1>2, <1>3, <1>4, <1>5, <1>6, <1>7
     DEF Next, vars, WorkerStep, AwaitLoop, Stop, DestructorBody, Publish,
         StartLoop, LoopStep, PollTimeout, UserCode, FdReady

\* The steps of Loop() are those that EventLoop_proofs is about.
LEMMA LoopStepAgrees ==
    ASSUME L!LoopStep
    PROVE  LP!LoopStep
<1> USE DEF L!ioVars, LP!ioVars, L!WakeChan, LP!WakeChan, L!IO, LP!IO
<1>1. L!CheckQuit => LP!CheckQuit
  BY DEF L!CheckQuit, LP!CheckQuit
<1>2. L!PollReady => LP!PollReady
  BY DEF L!PollReady, LP!PollReady, L!Readable, LP!Readable,
         L!Cardinality, LP!Cardinality, L!IsFiniteSet, LP!IsFiniteSet
<1>3. L!HandleWakeUpRead => LP!HandleWakeUpRead
  BY DEF L!HandleWakeUpRead, LP!HandleWakeUpRead
<1>4. \A c \in Chans : L!HandleEvent(c) => LP!HandleEvent(c)
  BY DEF L!HandleEvent, LP!HandleEvent
<1>5. L!CallbackReturns => LP!CallbackReturns
  BY DEF L!CallbackReturns, LP!CallbackReturns
<1>6. L!SetCallingFuncs => LP!SetCallingFuncs
  BY DEF L!SetCallingFuncs, LP!SetCallingFuncs
<1>7. L!SwapFuncs => LP!SwapFuncs
  BY DEF L!SwapFuncs, LP!SwapFuncs
<1>8. L!RunFunc => LP!RunFunc
  BY DEF L!RunFunc, LP!RunFunc
<1>9. L!FuncReturns => LP!FuncReturns
  BY DEF L!FuncReturns, LP!FuncReturns
<1>10. L!ResetCallingFuncs => LP!ResetCallingFuncs
  BY DEF L!ResetCallingFuncs, LP!ResetCallingFuncs
<1> QED
  BY <1>1, <1>2, <1>3, <1>4, <1>5, <1>6, <1>7, <1>8, <1>9, <1>10
     DEF L!LoopStep, LP!LoopStep

\* Every step of the composition is one of the loop, or leaves it alone.
LEMMA LoopSteps ==
    ASSUME [Next]_vars
    PROVE  LP!Next \/ UNCHANGED loopVars
<1>1. ASSUME NEW t \in Callers \cup {LP!IO}, L!set_quit(t)
      PROVE  LP!Next
  <2>1. LP!set_quit(t)
    BY <1>1 DEF L!set_quit, LP!set_quit, L!InUserCode, LP!InUserCode, L!IO, LP!IO,
                L!IsInLoopThread, LP!IsInLoopThread, L!ioVars, LP!ioVars
  <2> QED
    BY <2>1 DEF LP!Next, LP!AllThreads
<1>2. ASSUME NEW f \in Funcs, L!QueueInLoop(LP!IO, f)
      PROVE  LP!Next
  <2>1. LP!QueueInLoop(LP!IO, f)
    BY <1>2 DEF L!QueueInLoop, LP!QueueInLoop, L!InUserCode, LP!InUserCode,
                L!IO, LP!IO, L!IsInLoopThread, LP!IsInLoopThread,
                L!Fresh, LP!Fresh, L!Range, LP!Range,
                L!NeedsWakeUp, LP!NeedsWakeUp, L!ioVars, LP!ioVars
  <2> QED
    BY <2>1 DEF LP!Next, LP!AllThreads
<1>3. L!Loop => LP!Next
  <2>1. L!Loop => LP!Loop
    BY DEF L!Loop, LP!Loop, L!IO, LP!IO
  <2> QED
    BY <2>1 DEF LP!Next
<1>4. L!LoopStep => LP!Next
  BY LoopStepAgrees DEF LP!Next
<1>5. L!WakeUp(L!IO) => LP!Next
  <2>1. L!WakeUp(L!IO) => LP!WakeUp(LP!IO)
    BY DEF L!WakeUp, LP!WakeUp, L!ioVars, LP!ioVars, L!IO, LP!IO
  <2> QED
    BY <2>1 DEF LP!Next, LP!AllThreads
<1>6. L!PollNothing => LP!Next
  <2>1. L!PollNothing => LP!PollNothing
    BY DEF L!PollNothing, LP!PollNothing, L!ioVars, LP!ioVars
  <2> QED
    BY <2>1 DEF LP!Next
<1>7. ASSUME NEW c \in Chans, L!FdReady(c)
      PROVE  LP!Next
  <2>1. LP!FdReady(c)
    BY <1>7 DEF L!FdReady, LP!FdReady, L!ioVars, LP!ioVars
  <2> QED
    BY <2>1 DEF LP!Next
<1>8. ASSUME NEW c \in Callers, QuitThrough(c)
      PROVE  LP!Next \/ UNCHANGED loopVars
  BY <1>1, <1>8 DEF QuitThrough
<1>9. UserCode => LP!Next
  BY <1>1, <1>2 DEF UserCode, L!IO, LP!IO
<1>10. CASE UNCHANGED vars
  BY <1>10 DEF vars
<1>11. CASE Next
  BY <1>3, <1>4, <1>5, <1>6, <1>7, <1>8, <1>9, <1>11
     DEF Next, WorkerStep, Run, AwaitLoop, Stop, Wait, WaitReturns,
         DestructorBody, DestroyQueue, QueueStep, Publish, StartLoop, LoopStep,
         LoopFuncsReturns, WaitTaskReturns, PollTimeout, FdReady
<1> QED
  BY <1>10, <1>11

-----------------------------------------------------------------------------
(* The inductive invariant.                                                *)

\* What the theorems about the two components assume.
LEMMA ComponentAssumptions ==
    /\ QP!SerialTaskQueueAssumption
    /\ LP!EventLoopAssumption
BY EventLoopThreadAssumption
   DEF Q!SerialTaskQueueAssumption, QP!SerialTaskQueueAssumption,
       L!EventLoopAssumption, LP!EventLoopAssumption, Q!Worker, QP!Worker,
       L!IO, LP!IO, L!WakeChan, LP!WakeChan

\* The initial states satisfy it.
LEMMA InitIInv == Init => IInv
<1> SUFFICES ASSUME Init PROVE IInv
  OBVIOUS
<1>1. QP!IInv
  <2>1. QP!Init
    BY DEF Init, Q!Init, QP!Init
  <2> QED
    BY <2>1, ComponentAssumptions, QP!InitIInv
<1>2. LP!IInv
  <2>1. LP!Init
    BY DEF Init, L!Init, LP!Init, L!AllThreads, LP!AllThreads, L!IO, LP!IO
  <2> QED
    BY <2>1, ComponentAssumptions, LP!InitIInv
<1>3. io = "out" /\ life = "none" /\ done = {}
  BY DEF Init, L!Init, Q!Init
<1> QED
  BY <1>1, <1>2, <1>3 DEF Init, IInv, ThreadTypes, LifeAgrees

\* Both components keep their invariants.
LEMMA ComponentsKept ==
    ASSUME IInv, [Next]_vars
    PROVE  QP!IInv' /\ LP!IInv'
<1>1. QP!IInv'
  BY QueueSteps, ComponentAssumptions, QP!NextIInv DEF IInv
<1>2. LP!IInv'
  <2>1. UNCHANGED loopVars => UNCHANGED LP!vars
    BY DEF loopVars, LP!vars, LP!ioVars
  <2> QED
    BY <2>1, LoopSteps, ComponentAssumptions, LP!NextIInv DEF IInv
<1> QED
  BY <1>1, <1>2

\* The variables of the thread itself keep their types.
LEMMA TypesKept ==
    ASSUME ThreadTypes, [Next]_vars
    PROVE  ThreadTypes'
BY DEF ThreadTypes, Next, vars, threadVars, Run, AwaitLoop, Stop, QuitThrough,
       Wait, WaitReturns, DestructorBody, DestroyQueue, WorkerStep, QueueStep,
       Publish, StartLoop, LoopStep, LoopFuncsReturns, WaitTaskReturns,
       PollTimeout, UserCode, FdReady

\* While a task runs the queue takes no other; only the end of a task adds to
\* what is done.
LEMMA QueueWaitsForTask ==
    ASSUME [Next]_vars, ~LoopFuncsReturns, ~WaitTaskReturns
    PROVE  /\ done' = done
           /\ worker = "running" => worker' = "running" /\ started' = started
<1>1. CASE \E c \in Callers : Run(c) \/ \E task \in WaitTasks : Wait(c, task)
  BY <1>1 DEF Run, Wait, Q!RunTaskInQueue, Q!SyncTaskInQueue, Q!Push, Q!Notified
<1>2. CASE \E c \in Callers : WaitReturns(c)
  BY <1>2 DEF WaitReturns, Q!SyncReturns
<1>3. CASE DestroyQueue
  BY <1>3 DEF DestroyQueue, Q!SetStop, Q!NotifyAll, Q!Notified, Q!Join
<1>4. CASE QueueStep
  BY <1>4 DEF QueueStep, Q!CheckStop, Q!LockAndTest, Q!Wait
<1>5. CASE UNCHANGED queueVars
  BY <1>5 DEF queueVars
<1> QED
  BY <1>1, <1>2, <1>3, <1>4, <1>5
     DEF Next, vars, WorkerStep, AwaitLoop, Stop, DestructorBody, Publish,
         StartLoop, LoopStep, PollTimeout, UserCode, FdReady

\* The I/O thread enters and leaves Loop() only inside LoopFuncs.
LEMMA OthersLeaveLoop ==
    ASSUME [Next]_vars
    PROVE  io' = io \/ StartLoop \/ LoopStep \/ PollTimeout
<1>1. ASSUME NEW c \in Callers, QuitThrough(c)
      PROVE  io' = io
  BY <1>1 DEF QuitThrough, L!set_quit, loopVars
<1>2. UserCode => io' = io
  BY DEF UserCode, L!set_quit, L!QueueInLoop
<1>3. FdReady => io' = io
  BY DEF FdReady, L!FdReady
<1>4. UNCHANGED loopVars => io' = io
  BY DEF loopVars
<1> QED
  BY <1>1, <1>2, <1>3, <1>4
     DEF Next, vars, Run, AwaitLoop, Stop, Wait, WaitReturns, DestructorBody,
         DestroyQueue, WorkerStep, QueueStep, Publish, LoopFuncsReturns,
         WaitTaskReturns

\* The tasks that returned are those that were taken, the running one apart.
LEMMA DoneBeforeRunning ==
    ASSUME QP!IInv, worker = "running"
    PROVE  /\ started # <<>>
           /\ Len(started) \in Nat \ {0}
           /\ done = {started[n] : n \in 1 .. Len(started) - 1}
           /\ Q!Range(started) = done \cup {started[Len(started)]}
<1>1. started \in Seq(WaitTasks \cup {LoopTask}) /\ started # <<>>
  BY DEF QP!IInv, QP!TypeOK, QP!RunningWasTaken
<1>2. Len(started) \in Nat \ {0} /\ DOMAIN started = 1 .. Len(started)
  BY <1>1, EmptySeq, LenProperties
<1>3. done = {started[n] : n \in 1 .. Len(started) - 1}
  BY DEF QP!IInv, QP!DoneIsPrefix, QP!Returned
<1>4. 1 .. Len(started) = (1 .. Len(started) - 1) \cup {Len(started)}
  BY <1>2
<1>5. Q!Range(started) = {started[n] : n \in 1 .. Len(started)}
  BY <1>2 DEF Q!Range
<1> QED
  BY <1>1, <1>2, <1>3, <1>4, <1>5

\* The queue and the loop stay in agreement.
LEMMA LifeAgreesKept ==
    ASSUME IInv, [Next]_vars
    PROVE  LifeAgrees'
<1> USE DEF IInv, LifeAgrees
<1>1. CASE LoopFuncsReturns
  <2>1. /\ life' = "gone" /\ io' = "out" /\ life = "looping"
        /\ worker = "running" /\ done' = Q!Range(started)
    BY <1>1 DEF LoopFuncsReturns, Q!TaskReturns, loopVars
  <2>2. LoopTask \in done'
    BY <2>1, DoneBeforeRunning DEF Running
  <2> QED
    BY <2>1, <2>2
<1>2. CASE WaitTaskReturns
  <2>1. /\ life' = life /\ io' = io
        /\ worker = "running" /\ done' = Q!Range(started)
        /\ ~Running(LoopTask)
    BY <1>2 DEF WaitTaskReturns, Q!TaskReturns, loopVars, threadVars
  <2>2. LoopTask \in done' <=> LoopTask \in done
    BY <2>1, DoneBeforeRunning DEF Running
  <2> QED
    BY <2>1, <2>2
<1>3. ASSUME ~LoopFuncsReturns, ~WaitTaskReturns
      PROVE  LifeAgrees'
  <2>1. done' = done /\ (Running(LoopTask) => Running(LoopTask)')
    BY <1>3, QueueWaitsForTask DEF Running
  <2>2. CASE Publish
    <3>1. life = "none" /\ life' = "published" /\ io' = io /\ Running(LoopTask)
      BY <2>2 DEF Publish, loopVars
    <3> QED
      BY <2>1, <3>1
  <2>3. CASE StartLoop
    <3>1. life = "published" /\ life' = "looping"
      BY <2>3 DEF StartLoop
    <3> QED
      BY <2>1, <3>1
  <2>4. CASE LoopStep \/ PollTimeout
    <3>1. life = "looping" /\ life' = "looping"
      BY <2>4 DEF LoopStep, PollTimeout, threadVars
    <3> QED
      BY <2>1, <3>1
  <2>5. CASE ~Publish /\ ~StartLoop /\ ~LoopStep /\ ~PollTimeout
    <3>1. life' = life
      BY <1>3, <2>5
         DEF Next, vars, threadVars, Run, AwaitLoop, Stop, Wait, WaitReturns,
             DestructorBody, DestroyQueue, WorkerStep, QueueStep, UserCode,
             FdReady
    <3>2. io' = io
      BY <2>5, OthersLeaveLoop
    <3> QED
      BY <2>1, <3>1, <3>2
  <2> QED
    BY <2>2, <2>3, <2>4, <2>5
<1> QED
  BY <1>1, <1>2, <1>3

\* Every step keeps the invariant.
LEMMA NextIInv == IInv /\ [Next]_vars => IInv'
BY ComponentsKept, TypesKept, LifeAgreesKept DEF IInv

-----------------------------------------------------------------------------
(* The results.                                                            *)

\* The invariant holds in every reachable state.
THEOREM Invariance == Spec => []IInv
<1> QED
  BY InitIInv, NextIInv, PTL DEF Spec

\* The thread is a run of its queue and a run of its loop: whatever the modules
\* SerialTaskQueue and EventLoop prove of the safety of theirs holds of it
\* (event_loop_thread.cc:10-42).
THEOREM RunsBothComponents ==
    Spec => /\ QP!Init /\ [][QP!Next]_(QP!vars)
            /\ LP!Init /\ [][LP!Next]_(LP!vars)
<1>1. Init => QP!Init /\ LP!Init
  BY DEF Init, Q!Init, QP!Init, L!Init, LP!Init, L!AllThreads, LP!AllThreads,
         L!IO, LP!IO
<1>2. [Next]_vars => [QP!Next]_(QP!vars)
  BY QueueSteps
<1>3. [Next]_vars => [LP!Next]_(LP!vars)
  <2>1. UNCHANGED loopVars => UNCHANGED LP!vars
    BY DEF loopVars, LP!vars, LP!ioVars
  <2> QED
    BY <2>1, LoopSteps
<1> QED
  BY <1>1, <1>2, <1>3, PTL DEF Spec

\* Every variable of the queue, the loop and the thread keeps its type, and the
\* worker is in LoopFuncs while the loop exists.
THEOREM TypeCorrect == Spec => []TypeOK
<1>1. QP!TypeOK => Q!TypeOK
  BY DEF QP!TypeOK, Q!TypeOK
<1>2. LP!TypeOK => L!TypeOK
  BY DEF LP!TypeOK, L!TypeOK, LP!AllThreads, L!AllThreads, LP!IO, L!IO,
         LP!WakeChan, L!WakeChan
<1>3. IInv => TypeOK
  BY <1>1, <1>2 DEF IInv, QP!IInv, LP!IInv, ThreadTypes, LifeAgrees, TypeOK
<1> QED
  BY <1>3, Invariance, PTL

\* What was accepted before a task that returned has returned.
LEMMA EarlierIsDone ==
    ASSUME QP!IInv,
           NEW m \in DOMAIN Q!Accepted, NEW n \in DOMAIN Q!Accepted, m < n,
           Q!Accepted[n] \in done
    PROVE  Q!Accepted[m] \in done
<1>1. /\ started \in Seq(AllTasks)
      /\ task_queue_ \in Seq(AllTasks)
  BY DEF QP!IInv, QP!TypeOK, AllTasks
<1>2. /\ Len(started) \in Nat
      /\ Len(task_queue_) \in Nat
      /\ Q!Accepted \in Seq(AllTasks)
      /\ Len(Q!Accepted) = Len(started) + Len(task_queue_)
      /\ \A i \in 1 .. Len(started) : Q!Accepted[i] = started[i]
  BY <1>1, LenProperties, ConcatProperties DEF Q!Accepted
<1>3. DOMAIN Q!Accepted = 1 .. Len(started) + Len(task_queue_)
  BY <1>2, LenProperties
<1>4. PICK k \in 1 .. QP!Returned : Q!Accepted[n] = started[k]
  BY DEF QP!IInv, QP!DoneIsPrefix
<1>5. QP!Returned \in Int /\ QP!Returned <= Len(started)
  BY <1>2 DEF QP!Returned
<1>6. k = n
  <2>1. k \in DOMAIN Q!Accepted /\ Q!Accepted[k] = Q!Accepted[n]
    BY <1>2, <1>3, <1>4, <1>5
  <2> QED
    BY <2>1 DEF QP!IInv, QP!AcceptedOnce, QP!IsInjective, QP!Accepted, Q!Accepted
<1>7. m \in 1 .. QP!Returned /\ Q!Accepted[m] = started[m]
  BY <1>2, <1>3, <1>4, <1>5, <1>6
<1> QED
  BY <1>7 DEF QP!IInv, QP!DoneIsPrefix

\* Only a task that returned ends a Wait().
LEMMA WaitEndsWithTask ==
    ASSUME IInv, Next, NEW c \in Callers, sync[c] # NoTask, sync'[c] = NoTask
    PROVE  sync[c] \in done
<1>1. sync \in [Callers -> AllTasks \cup {NoTask}]
  BY DEF IInv, QP!IInv, QP!TypeOK, AllTasks
<1>2. ASSUME NEW b \in Callers, NEW task \in WaitTasks, Wait(b, task)
      PROVE  sync'[c] # NoTask
  <2>1. task # NoTask
    BY ComponentAssumptions DEF QP!SerialTaskQueueAssumption
  <2> QED
    BY <1>1, <1>2, <2>1 DEF Wait, Q!SyncTaskInQueue
<1>3. ASSUME NEW b \in Callers, WaitReturns(b)
      PROVE  sync[c] \in done
  BY <1>1, <1>3 DEF WaitReturns, Q!SyncReturns
<1>4. sync' # sync
  OBVIOUS
<1> QED
  BY <1>2, <1>3, <1>4
     DEF Next, queueVars, Run, Q!RunTaskInQueue, AwaitLoop, Stop,
         DestructorBody, DestroyQueue, Q!SetStop, Q!NotifyAll, Q!Join,
         WorkerStep, QueueStep, Q!CheckStop, Q!LockAndTest, Q!Wait, Publish,
         StartLoop, LoopStep, LoopFuncsReturns, WaitTaskReturns, Q!TaskReturns,
         PollTimeout, UserCode, FdReady

\* A Wait() behind Run() in the queue returns only when the loop has ended and
\* its EventLoop is gone (event_loop_thread.cc:16-42).
THEOREM WaitReturnsAfterLoop == Spec => WaitOutlastsLoop
<1> DEFINE Behind(c) ==
      \E m, n \in DOMAIN Q!Accepted :
         /\ m < n
         /\ Q!Accepted[m] = LoopTask
         /\ Q!Accepted[n] = sync[c]
<1>1. ASSUME IInv, Next, NEW c \in Callers,
             sync[c] # NoTask, sync'[c] = NoTask, Behind(c)
      PROVE  life = "gone"
  <2>1. sync[c] \in done
    BY <1>1, WaitEndsWithTask
  <2>2. LoopTask \in done
    BY <1>1, <2>1, EarlierIsDone DEF IInv
  <2> QED
    BY <1>1, <2>2 DEF IInv, LifeAgrees
<1>2. IInv /\ [Next]_vars =>
        [\A c \in Callers :
           /\ sync[c] # NoTask
           /\ sync'[c] = NoTask
           /\ Behind(c)
           => life = "gone"]_vars
  BY <1>1
<1> QED
  BY <1>2, Invariance, PTL DEF Spec, WaitOutlastsLoop

=============================================================================
