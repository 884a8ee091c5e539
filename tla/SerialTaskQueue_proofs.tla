------------------------ MODULE SerialTaskQueue_proofs ------------------------
(***************************************************************************)
(* Theorems about SerialTaskQueue, for every set of tasks and callers.     *)
(***************************************************************************)
EXTENDS SerialTaskQueue, SequenceTheorems, TLAPS

\* How many of the tasks that were taken have returned.
Returned == IF worker = "running" THEN Len(started) - 1 ELSE Len(started)

\* Tasks return in the order in which they were taken, one at a time.
DoneIsPrefix == done = {started[n] : n \in 1 .. Returned}

RunningWasTaken == worker = "running" => started # <<>>

\* A worker that took a task after the stop never gets to the queue again.
LateIsLast ==
    late # {} => stop_ /\ worker \in {"running", "top", "exited"}

\* Nothing is accepted twice.
AcceptedOnce == IsInjective(Accepted)

IInv ==
    /\ TypeOK
    /\ AcceptedOnce
    /\ DoneIsPrefix
    /\ RunningWasTaken
    /\ LateIsLast
    /\ AtMostOneAfterStop

-----------------------------------------------------------------------------
(* What was accepted, in its order: a push appends to it, and the worker     *)
(* moves the oldest from one piece to the other.                             *)

LEMMA PushAccepts ==
    ASSUME TypeOK, NEW task \in Tasks, Push(task), started' = started
    PROVE  Accepted' = Append(Accepted, task)
<1>1. /\ started \in Seq(Tasks)
      /\ task_queue_ \in Seq(Tasks)
      /\ Accepted \in Seq(Tasks)
      /\ <<task>> \in Seq(Tasks)
    BY ConcatProperties DEF TypeOK, Accepted
<1>2. Accepted' = started \o (task_queue_ \o <<task>>)
    BY <1>1, AppendIsConcat DEF Push, Accepted
<1>3. @ = Accepted \o <<task>>
    BY <1>1, ConcatAssociative DEF Accepted
<1>4. QED
    BY <1>1, <1>2, <1>3, AppendIsConcat

LEMMA TakeKeepsAccepted ==
    ASSUME TypeOK, task_queue_ # <<>>, Take
    PROVE  Accepted' = Accepted
<1> DEFINE task == Head(task_queue_)
           rest == Tail(task_queue_)
<1>1. /\ started \in Seq(Tasks)
      /\ task_queue_ \in Seq(Tasks)
      /\ task \in Tasks
      /\ rest \in Seq(Tasks)
      /\ <<task>> \in Seq(Tasks)
    BY HeadTailProperties DEF TypeOK
<1>2. <<task>> \o rest = task_queue_
  <2>1. task_queue_ = SubSeq(task_queue_, 1, Len(task_queue_))
    BY <1>1, SubSeqFull
  <2>2. Len(task_queue_) \in Nat \ {0} /\ task_queue_[1] = task
    BY <1>1, EmptySeq
  <2>3. SubSeq(task_queue_, 1, Len(task_queue_))
          = <<task_queue_[1]>> \o SubSeq(task_queue_, 1 + 1, Len(task_queue_))
    BY <1>1, <2>2, SubSeqRecursiveFirst
  <2>4. rest = SubSeq(task_queue_, 2, Len(task_queue_))
    BY <1>1, TailIsSubSeq
  <2>5. QED
    BY <2>1, <2>2, <2>3, <2>4
<1>3. Accepted' = (started \o <<task>>) \o rest
    BY <1>1, AppendIsConcat DEF Take, Accepted
<1>4. @ = started \o (<<task>> \o rest)
    BY <1>1, ConcatAssociative
<1>5. QED
    BY <1>2, <1>3, <1>4 DEF Accepted

\* A sequence without repetition stays one when something new is appended.
LEMMA InjectiveAppend ==
    ASSUME NEW S, NEW s \in Seq(S), NEW e \in S \ Range(s), IsInjective(s)
    PROVE  IsInjective(Append(s, e))
<1>1. /\ DOMAIN s = 1 .. Len(s)
      /\ DOMAIN Append(s, e) = 1 .. Len(s) + 1
      /\ Len(s) \in Nat
    BY AppendProperties, LenProperties
<1>2. /\ \A i \in 1 .. Len(s) : Append(s, e)[i] = s[i]
      /\ Append(s, e)[Len(s) + 1] = e
    BY AppendProperties
<1>3. \A i \in 1 .. Len(s) : s[i] # e
    BY <1>1 DEF Range
<1>4. QED
    BY <1>1, <1>2, <1>3 DEF IsInjective

-----------------------------------------------------------------------------
LEMMA InitIInv == Init => IInv
<1> SUFFICES ASSUME Init PROVE IInv
    OBVIOUS
<1>1. <<>> \in Seq(Tasks) /\ Len(<<>>) = 0
    BY EmptySeq
<1>2. TypeOK
    BY <1>1 DEF Init, TypeOK
<1>3. DoneIsPrefix
    BY <1>1 DEF Init, DoneIsPrefix, Returned
<1>4. AcceptedOnce
  <2>1. <<>> \o <<>> = <<>>
    BY <1>1, ConcatEmptySeq
  <2>2. QED
    BY <2>1 DEF Init, AcceptedOnce, Accepted, IsInjective
<1>5. QED
    BY <1>2, <1>3, <1>4 DEF Init, IInv, RunningWasTaken, LateIsLast,
                            AtMostOneAfterStop

\* A push, of a synchronous call or not.
LEMMA PushIInv ==
    ASSUME IInv, NEW task \in Tasks, Push(task), task \notin Range(Accepted),
           UNCHANGED <<stop_, dtor, started, done, late>>,
           sync' \in [Callers -> Tasks \cup {NoTask}]
    PROVE  IInv'
<1> USE DEF IInv
<1>1. /\ task_queue_' = Append(task_queue_, task)
      /\ worker' = IF worker = "blocked" THEN "locking" ELSE worker
    BY DEF Push, Notified
<1>2. task_queue_' \in Seq(Tasks)
    BY <1>1, AppendProperties DEF TypeOK
<1>3. TypeOK'
    BY <1>1, <1>2 DEF TypeOK
<1>4. Returned' = Returned
    BY <1>1 DEF Returned, TypeOK
<1>5. DoneIsPrefix'
    BY <1>4 DEF DoneIsPrefix
<1>6. AcceptedOnce'
  <2>1. Accepted \in Seq(Tasks)
    BY ConcatProperties DEF TypeOK, Accepted
  <2>2. QED
    BY <2>1, PushAccepts, InjectiveAppend DEF AcceptedOnce
<1>7. QED
    BY <1>1, <1>3, <1>5, <1>6 DEF RunningWasTaken, LateIsLast,
                                  AtMostOneAfterStop

LEMMA TakeIInv ==
    ASSUME IInv, worker = "locking", task_queue_ # <<>>, Take,
           UNCHANGED <<stop_, sync, dtor, done>>
    PROVE  IInv'
<1> USE DEF IInv
<1> DEFINE task == Head(task_queue_)
<1>1. /\ started' = Append(started, task)
      /\ task_queue_' = Tail(task_queue_)
      /\ worker' = "running"
      /\ late' = IF stop_ THEN late \cup {task} ELSE late
    BY DEF Take
<1>2. /\ task \in Tasks
      /\ task_queue_' \in Seq(Tasks)
    BY <1>1, HeadTailProperties DEF TypeOK
<1>3. /\ started' \in Seq(Tasks)
      /\ Len(started') = Len(started) + 1
      /\ Len(started) \in Nat
      /\ started' # <<>>
      /\ \A n \in 1 .. Len(started) : started'[n] = started[n]
    BY <1>1, <1>2, AppendProperties, LenProperties DEF TypeOK
<1>4. late = {}
    BY DEF LateIsLast
<1>5. TypeOK'
    BY <1>1, <1>2, <1>3, <1>4 DEF TypeOK
<1>6. Returned = Len(started) /\ Returned' = Len(started)
    BY <1>1, <1>3 DEF Returned
<1>7. DoneIsPrefix'
    BY <1>3, <1>6 DEF DoneIsPrefix
<1>8. late' # {} => stop_'
    BY <1>1, <1>4
<1>9. AtMostOneAfterStop'
    BY <1>1, <1>4 DEF AtMostOneAfterStop
<1>10. AcceptedOnce'
    BY TakeKeepsAccepted DEF AcceptedOnce
<1>11. QED
    BY <1>1, <1>3, <1>5, <1>7, <1>8, <1>9, <1>10 DEF RunningWasTaken, LateIsLast

LEMMA QueueFuncIInv ==
    ASSUME IInv, QueueFunc
    PROVE  IInv'
<1> USE DEF IInv
<1>1. CASE CheckStop
  <2>1. TypeOK'
    BY <1>1 DEF CheckStop, TypeOK
  <2>2. Returned' = Returned
    BY <1>1 DEF CheckStop, Returned
  <2>3. QED
    BY <1>1, <2>1, <2>2 DEF CheckStop, AcceptedOnce, Accepted, DoneIsPrefix, RunningWasTaken,
                            LateIsLast, AtMostOneAfterStop
<1>2. CASE LockAndTest
  <2>1. CASE task_queue_ # <<>>
    BY <1>2, <2>1, TakeIInv DEF LockAndTest
  <2>2. CASE task_queue_ = <<>>
    <3>1. /\ worker = "locking"
          /\ worker' = IF stop_ THEN "top" ELSE "waiting"
          /\ UNCHANGED <<task_queue_, stop_, sync, dtor, started, done, late>>
      BY <1>2, <2>2 DEF LockAndTest
    <3>2. TypeOK'
      BY <3>1 DEF TypeOK
    <3>3. Returned' = Returned
      BY <3>1 DEF Returned
    <3>4. QED
      BY <3>1, <3>2, <3>3 DEF AcceptedOnce, Accepted, DoneIsPrefix,
                              RunningWasTaken, LateIsLast, AtMostOneAfterStop
  <2>3. QED
    BY <2>1, <2>2
<1>3. CASE Wait
  <2>1. TypeOK'
    BY <1>3 DEF Wait, TypeOK
  <2>2. Returned' = Returned
    BY <1>3 DEF Wait, Returned
  <2>3. QED
    BY <1>3, <2>1, <2>2 DEF Wait, AcceptedOnce, Accepted, DoneIsPrefix, RunningWasTaken, LateIsLast,
                            AtMostOneAfterStop
<1>4. CASE TaskReturns
  <2>1. /\ worker = "running"
        /\ worker' = "top"
        /\ done' = Range(started)
        /\ UNCHANGED <<task_queue_, stop_, sync, dtor, started, late>>
    BY <1>4 DEF TaskReturns
  <2>2. done' = {started[n] : n \in 1 .. Len(started)}
    BY <2>1, RangeEquality DEF TypeOK
  <2>3. TypeOK'
    <3>1. \A n \in 1 .. Len(started) : started[n] \in Tasks
      BY LenProperties DEF TypeOK
    <3>2. done' \in SUBSET Tasks
      BY <2>2, <3>1
    <3>3. QED
      BY <2>1, <3>2 DEF TypeOK
  <2>4. DoneIsPrefix'
    BY <2>1, <2>2 DEF DoneIsPrefix, Returned
  <2>5. QED
    BY <2>1, <2>3, <2>4 DEF AcceptedOnce, Accepted, RunningWasTaken, LateIsLast, AtMostOneAfterStop
<1>5. QED
    BY <1>1, <1>2, <1>3, <1>4 DEF QueueFunc

\* The steps of the callers' and the destructor's threads, and the spurious
\* wake-up of the worker.
LEMMA OtherIInv ==
    ASSUME IInv,
           \/ \E c \in Callers : SyncReturns(c)
           \/ SpuriousWakeUp
           \/ SetStop
           \/ NotifyAll
           \/ Join
    PROVE  IInv'
<1> USE DEF IInv
<1>1. CASE \E c \in Callers : SyncReturns(c)
  <2>1. TypeOK'
    BY <1>1 DEF SyncReturns, TypeOK
  <2>2. QED
    BY <1>1, <2>1 DEF SyncReturns, AcceptedOnce, Accepted, DoneIsPrefix,
                      Returned, RunningWasTaken, LateIsLast, AtMostOneAfterStop
<1>2. CASE SpuriousWakeUp
  <2>1. TypeOK'
    BY <1>2 DEF SpuriousWakeUp, TypeOK
  <2>2. QED
    BY <1>2, <2>1 DEF SpuriousWakeUp, AcceptedOnce, Accepted, DoneIsPrefix,
                      Returned, RunningWasTaken, LateIsLast, AtMostOneAfterStop
<1>3. CASE SetStop
  <2>1. TypeOK'
    BY <1>3 DEF SetStop, TypeOK
  <2>2. QED
    BY <1>3, <2>1 DEF SetStop, AcceptedOnce, Accepted, DoneIsPrefix,
                      Returned, RunningWasTaken, LateIsLast, AtMostOneAfterStop
<1>4. CASE NotifyAll
  <2>1. TypeOK'
    BY <1>4 DEF NotifyAll, Notified, TypeOK
  <2>2. QED
    BY <1>4, <2>1 DEF NotifyAll, Notified, AcceptedOnce, Accepted, DoneIsPrefix, Returned,
                      RunningWasTaken, LateIsLast, AtMostOneAfterStop
<1>5. CASE Join
  <2>1. TypeOK'
    BY <1>5 DEF Join, TypeOK
  <2>2. QED
    BY <1>5, <2>1 DEF Join, AcceptedOnce, Accepted, DoneIsPrefix,
                      Returned, RunningWasTaken, LateIsLast, AtMostOneAfterStop
<1>6. QED
    BY <1>1, <1>2, <1>3, <1>4, <1>5

LEMMA NextIInv ==
    ASSUME IInv, [Next]_vars
    PROVE  IInv'
<1>1. ASSUME NEW task \in Tasks, NEW c \in Callers \cup {Worker},
             RunTaskInQueue(c, task)
      PROVE  IInv'
    BY <1>1, PushIInv DEF RunTaskInQueue, IInv, TypeOK
<1>2. ASSUME NEW task \in Tasks, NEW c \in Callers, SyncTaskInQueue(c, task)
      PROVE  IInv'
    BY <1>2, PushIInv DEF SyncTaskInQueue, IInv, TypeOK
<1>3. CASE QueueFunc
    BY <1>3, QueueFuncIInv
<1>4. CASE \/ \E c \in Callers : SyncReturns(c)
           \/ SpuriousWakeUp
           \/ SetStop
           \/ NotifyAll
           \/ Join
    BY <1>4, OtherIInv
<1>5. CASE UNCHANGED vars
    BY <1>5 DEF vars, IInv, TypeOK, AcceptedOnce, Accepted, DoneIsPrefix,
                Returned, RunningWasTaken,
                LateIsLast, AtMostOneAfterStop
<1>6. QED
    BY <1>1, <1>2, <1>3, <1>4, <1>5 DEF Next

\* Every reachable state of the queue satisfies the inductive invariant.
THEOREM Invariance == Spec => []IInv
<1>1. Init => IInv
    BY InitIInv
<1>2. IInv /\ [Next]_vars => IInv'
    BY NextIInv
<1>3. QED
    BY <1>1, <1>2, PTL DEF Spec

-----------------------------------------------------------------------------
(* The results.                                                            *)

\* Every variable keeps its type and the worker leaves only after a stop.
THEOREM TypeCorrect == Spec => []TypeOK
<1>1. IInv => TypeOK
    BY DEF IInv
<1>2. QED
    BY <1>1, Invariance, PTL

\* After the destructor set stop_, the worker takes at most one task, however
\* many are left in the queue (serial_task_queue.cc:35-50).
THEOREM StopLetsOneTaskPass == Spec => []AtMostOneAfterStop
<1>1. IInv => AtMostOneAfterStop
    BY DEF IInv
<1>2. QED
    BY <1>1, Invariance, PTL

\* A synchronous call returns only when everything accepted before it has
\* returned (task_queue.h:16-24, serial_task_queue.cc:55-59).
THEOREM SyncWaitsForEarlier == Spec => SyncCoversEarlier
<1> DEFINE Covered(c) ==
        \E n \in DOMAIN started :
            /\ started[n] = sync[c]
            /\ \A m \in 1 .. n : started[m] \in done
<1>1. ASSUME IInv, NEW c \in Callers, sync[c] \in done
      PROVE  Covered(c)
  <2>1. PICK n \in 1 .. Returned : started[n] = sync[c]
    BY <1>1 DEF IInv, DoneIsPrefix
  <2>2. /\ DOMAIN started = 1 .. Len(started)
        /\ Len(started) \in Nat
    BY <1>1, LenProperties DEF IInv, TypeOK
  <2>3. n \in DOMAIN started
    BY <2>1, <2>2 DEF Returned
  <2>4. \A m \in 1 .. n : started[m] \in done
    BY <1>1, <2>1, <2>2 DEF IInv, DoneIsPrefix, Returned
  <2>5. QED
    BY <2>1, <2>3, <2>4
<1>2. ASSUME IInv, Next, NEW c \in Callers, sync[c] # NoTask, sync'[c] = NoTask
      PROVE  sync[c] \in done
  <2>1. ASSUME NEW task \in Tasks, NEW b \in Callers, SyncTaskInQueue(b, task)
        PROVE  sync'[c] # NoTask
    BY <1>2, <2>1, SerialTaskQueueAssumption
       DEF SyncTaskInQueue, IInv, TypeOK
  <2>2. ASSUME NEW b \in Callers, SyncReturns(b)
        PROVE  sync[c] \in done
    BY <1>2, <2>2 DEF SyncReturns, IInv, TypeOK
  <2>3. CASE sync' = sync
    BY <1>2, <2>3
  <2>4. QED
    BY <1>2, <2>1, <2>2, <2>3
       DEF Next, RunTaskInQueue, QueueFunc, CheckStop, LockAndTest, Wait,
           TaskReturns, SpuriousWakeUp, SetStop, NotifyAll, Join
<1>3. IInv /\ [Next]_vars =>
        [\A c \in Callers : sync[c] # NoTask /\ sync'[c] = NoTask =>
            Covered(c)]_vars
    BY <1>1, <1>2
<1>4. QED
    BY <1>3, Invariance, PTL DEF Spec, SyncCoversEarlier

\* The queue implements a serial executor: each accepted task is taken once, in
\* the order of acceptance (serial_task_queue.cc:27-31, 36-51).
THEOREM TasksAreExecutedInOrder == Spec => TasksRunInOrder
<1>1. Init => Executor!Init
    BY DEF Init, Executor!Init
<1>2. Next => [Executor!Next]_<<task_queue_, started>>
  <2> SUFFICES ASSUME Next PROVE [Executor!Next]_<<task_queue_, started>>
      OBVIOUS
  <2>1. ASSUME NEW task \in Tasks, Push(task), started' = started
        PROVE  Executor!Next
    BY <2>1 DEF Push, Executor!Next, Executor!Accept
  <2>2. CASE LockAndTest
    BY <2>2 DEF LockAndTest, Take, Executor!Next, Executor!StartOldest
  <2>3. CASE UNCHANGED <<task_queue_, started>>
    BY <2>3
  <2>4. QED
    BY <2>1, <2>2, <2>3
       DEF Next, RunTaskInQueue, SyncTaskInQueue, SyncReturns, QueueFunc,
           CheckStop, Wait, TaskReturns, SpuriousWakeUp, SetStop, NotifyAll,
           Join
<1>3. UNCHANGED vars => UNCHANGED <<task_queue_, started>>
    BY DEF vars
<1>4. QED
    BY <1>1, <1>2, <1>3, PTL DEF Spec, TasksRunInOrder, Executor!Spec

=============================================================================
