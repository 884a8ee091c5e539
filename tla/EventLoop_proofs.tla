--------------------------- MODULE EventLoop_proofs ---------------------------
(***************************************************************************)
(* Theorems about EventLoop, for every set of threads, functors and        *)
(* channels and every initial size of the event array.                     *)
(***************************************************************************)
EXTENDS EventLoop, SequenceTheorems, TLAPS

\* The local vector of DoRunInLoopFuncs holds nothing outside of its loop.
LocalVectorEmpty == io \notin {"run", "functor"} => tmp_funcs = <<>>

\* The I/O thread wakes itself up only where a functor it queues would have to
\* wait for another round: outside of Loop() and inside a functor.
SelfWakeUp == waking[IO] => io \in {"out", "functor"}

WakeUpDue == wake_up_fd_ > 0 \/ \E t \in AllThreads : waking[t]

\* From the swap on up to the next return of epoll_wait, what is in funcs_ was
\* announced.  During the dispatch it need not be: the swap comes after it.
AnnouncedBeforePoll ==
    io \in {"out", "check", "poll", "run", "functor"} /\ funcs_ # <<>> =>
        WakeUpDue

IInv ==
    /\ TypeOK
    /\ LocalVectorEmpty
    /\ SelfWakeUp
    /\ AnnouncedBeforePoll

-----------------------------------------------------------------------------
LEMMA InitIInv == Init => IInv
<1> SUFFICES ASSUME Init PROVE IInv
    OBVIOUS
<1>1. <<>> \in Seq(Funcs)
    BY EmptySeq
<1>2. TypeOK
    BY <1>1, EventLoopAssumption DEF Init, TypeOK, AllThreads
<1>3. QED
    BY <1>2 DEF Init, IInv, LocalVectorEmpty, SelfWakeUp, AnnouncedBeforePoll,
                AllThreads

\* What another thread's QueueInLoop, or the I/O thread's own, leaves behind.
LEMMA QueueInLoopIInv ==
    ASSUME IInv, NEW t \in AllThreads, NEW f \in Funcs, QueueInLoop(t, f)
    PROVE  IInv'
<1> USE DEF IInv
<1>1. /\ funcs_' = Append(funcs_, f)
      /\ waking' = [waking EXCEPT ![t] = NeedsWakeUp(t)]
      /\ UNCHANGED <<looping_, calling_funcs_, tmp_funcs, active_channels_,
                     list_size, ran, quit_, wake_up_fd_, ready, io, inline>>
    BY DEF QueueInLoop, ioVars
<1>2. Append(funcs_, f) \in Seq(Funcs)
    BY AppendProperties DEF TypeOK
<1>3. NeedsWakeUp(t) \in BOOLEAN
    BY DEF NeedsWakeUp
<1>4. TypeOK'
    BY <1>1, <1>2, <1>3 DEF TypeOK
<1>5. LocalVectorEmpty'
    BY <1>1 DEF LocalVectorEmpty
<1>6. SelfWakeUp'
  <2>1. CASE t = IO
    BY <1>1, <2>1 DEF SelfWakeUp, TypeOK, NeedsWakeUp, IsInLoopThread,
                      QueueInLoop, InUserCode
  <2>2. CASE t # IO
    BY <1>1, <2>2 DEF SelfWakeUp, TypeOK
  <2>3. QED
    BY <2>1, <2>2
<1>7. AnnouncedBeforePoll'
  <2> SUFFICES ASSUME io \in {"out", "check", "poll", "run", "functor"}
               PROVE  waking'[t]
      BY <1>1 DEF AnnouncedBeforePoll, WakeUpDue
  <2>1. CASE t = IO
    BY <1>1, <2>1 DEF TypeOK, NeedsWakeUp, IsInLoopThread, QueueInLoop,
                      InUserCode
  <2>2. CASE t # IO
    BY <1>1, <2>2 DEF TypeOK, NeedsWakeUp, IsInLoopThread
  <2>3. QED
    BY <2>1, <2>2
<1>8. QED
    BY <1>4, <1>5, <1>6, <1>7

\* The steps of the I/O thread through Loop() keep the invariant.
LEMMA LoopStepIInv ==
    ASSUME IInv, LoopStep
    PROVE  IInv'
<1> USE DEF IInv, ioVars
<1>1. CASE CheckQuit
  <2>1. TypeOK'
    BY <1>1 DEF CheckQuit, TypeOK
  <2>2. QED
    BY <1>1, <2>1 DEF CheckQuit, LocalVectorEmpty, SelfWakeUp,
                      AnnouncedBeforePoll, WakeUpDue
<1>2. CASE PollReady
  <2>1. PICK S \in (SUBSET Readable) \ {{}} :
            /\ active_channels_' = S
            /\ list_size' = IF Cardinality(S) = list_size THEN list_size * 2
                                                          ELSE list_size
    BY <1>2 DEF PollReady
  <2>2. active_channels_' \in SUBSET (Chans \cup {WakeChan})
    BY <2>1 DEF Readable, TypeOK
  <2>3. list_size' \in Nat \ {0}
    BY <2>1 DEF TypeOK
  <2>4. TypeOK'
    BY <1>2, <2>2, <2>3 DEF PollReady, TypeOK
  <2>5. QED
    BY <1>2, <2>4 DEF PollReady, LocalVectorEmpty, SelfWakeUp,
                      AnnouncedBeforePoll, WakeUpDue
<1>3. CASE HandleWakeUpRead
  <2>1. TypeOK'
    BY <1>3 DEF HandleWakeUpRead, TypeOK
  <2>2. QED
    BY <1>3, <2>1 DEF HandleWakeUpRead, LocalVectorEmpty, SelfWakeUp,
                      AnnouncedBeforePoll, WakeUpDue
<1>4. CASE \E c \in Chans : HandleEvent(c)
  <2>1. TypeOK'
    BY <1>4 DEF HandleEvent, TypeOK
  <2>2. QED
    BY <1>4, <2>1 DEF HandleEvent, LocalVectorEmpty, SelfWakeUp,
                      AnnouncedBeforePoll, WakeUpDue
<1>5. CASE CallbackReturns
  <2>1. TypeOK'
    BY <1>5 DEF CallbackReturns, TypeOK
  <2>2. QED
    BY <1>5, <2>1 DEF CallbackReturns, LocalVectorEmpty, SelfWakeUp,
                      AnnouncedBeforePoll, WakeUpDue
<1>6. CASE SetCallingFuncs
  <2>1. TypeOK'
    BY <1>6 DEF SetCallingFuncs, TypeOK
  <2>2. QED
    BY <1>6, <2>1 DEF SetCallingFuncs, LocalVectorEmpty, SelfWakeUp,
                      AnnouncedBeforePoll, WakeUpDue
<1>7. CASE SwapFuncs
  <2>1. funcs_' = <<>>
    BY <1>7 DEF SwapFuncs, LocalVectorEmpty
  <2>2. TypeOK'
    BY <1>7 DEF SwapFuncs, TypeOK
  <2>3. QED
    BY <1>7, <2>1, <2>2 DEF SwapFuncs, LocalVectorEmpty, SelfWakeUp,
                            AnnouncedBeforePoll, WakeUpDue
<1>8. CASE RunFunc
  <2>1. /\ Head(tmp_funcs) \in Funcs
        /\ Tail(tmp_funcs) \in Seq(Funcs)
    BY <1>8, HeadTailProperties DEF RunFunc, TypeOK
  <2>2. ran' \in Seq(Funcs)
    BY <1>8, <2>1, AppendProperties DEF RunFunc, TypeOK
  <2>3. TypeOK'
    BY <1>8, <2>1, <2>2 DEF RunFunc, TypeOK
  <2>4. QED
    BY <1>8, <2>3 DEF RunFunc, LocalVectorEmpty, SelfWakeUp,
                      AnnouncedBeforePoll, WakeUpDue
<1>9. CASE FuncReturns
  <2>1. TypeOK'
    BY <1>9 DEF FuncReturns, TypeOK
  <2>2. QED
    BY <1>9, <2>1 DEF FuncReturns, LocalVectorEmpty, SelfWakeUp,
                      AnnouncedBeforePoll, WakeUpDue
<1>10. CASE ResetCallingFuncs
  <2>1. TypeOK'
    BY <1>10 DEF ResetCallingFuncs, TypeOK
  <2>2. QED
    BY <1>10, <2>1 DEF ResetCallingFuncs, LocalVectorEmpty, SelfWakeUp,
                       AnnouncedBeforePoll, WakeUpDue
<1>11. QED
    BY <1>1, <1>2, <1>3, <1>4, <1>5, <1>6, <1>7, <1>8, <1>9, <1>10
       DEF LoopStep

\* The other operations, of any thread and of the environment.
LEMMA OperationIInv ==
    ASSUME IInv,
           \/ Loop
           \/ PollNothing
           \/ \E t \in AllThreads :
                \/ WakeUp(t)
                \/ set_quit(t)
                \/ \E f \in Funcs : RunInLoop(t, f)
           \/ \E c \in Chans : FdReady(c)
    PROVE  IInv'
<1> USE DEF IInv, ioVars
<1>1. CASE Loop
  <2>1. TypeOK'
    BY <1>1 DEF Loop, TypeOK
  <2>2. QED
    BY <1>1, <2>1 DEF Loop, LocalVectorEmpty, SelfWakeUp,
                      AnnouncedBeforePoll, WakeUpDue
<1>2. CASE PollNothing
  <2>1. TypeOK'
    BY <1>2 DEF PollNothing, TypeOK
  <2>2. QED
    BY <1>2, <2>1 DEF PollNothing, LocalVectorEmpty, SelfWakeUp,
                      AnnouncedBeforePoll, WakeUpDue
<1>3. ASSUME NEW t \in AllThreads, WakeUp(t)
      PROVE  IInv'
  <2>1. TypeOK'
    BY <1>3 DEF WakeUp, TypeOK
  <2>2. wake_up_fd_' > 0
    BY <1>3 DEF WakeUp, TypeOK
  <2>3. SelfWakeUp'
    BY <1>3 DEF WakeUp, SelfWakeUp, TypeOK, AllThreads
  <2>4. QED
    BY <1>3, <2>1, <2>2, <2>3 DEF WakeUp, LocalVectorEmpty,
                                  AnnouncedBeforePoll, WakeUpDue
<1>4. ASSUME NEW t \in AllThreads, set_quit(t)
      PROVE  IInv'
  <2>1. TypeOK'
    BY <1>4 DEF set_quit, TypeOK
  <2>2. QED
    BY <1>4, <2>1 DEF set_quit, LocalVectorEmpty, SelfWakeUp,
                      AnnouncedBeforePoll, WakeUpDue
<1>5. ASSUME NEW t \in AllThreads, NEW f \in Funcs, RunInLoop(t, f)
      PROVE  IInv'
  <2>1. CASE QueueInLoop(t, f)
    BY <1>5, <2>1, QueueInLoopIInv
  <2>2. CASE ~QueueInLoop(t, f)
    <3>1. /\ inline' = inline \cup {f}
          /\ UNCHANGED <<ioVars, quit_, funcs_, wake_up_fd_, ready, io, waking>>
      BY <1>5, <2>2 DEF RunInLoop
    <3>2. TypeOK'
      BY <3>1 DEF TypeOK
    <3>3. QED
      BY <3>1, <3>2 DEF LocalVectorEmpty, SelfWakeUp, AnnouncedBeforePoll,
                        WakeUpDue
  <2>3. QED
    BY <2>1, <2>2
<1>6. CASE \E c \in Chans : FdReady(c)
  <2>1. TypeOK'
    BY <1>6 DEF FdReady, TypeOK
  <2>2. QED
    BY <1>6, <2>1 DEF FdReady, LocalVectorEmpty, SelfWakeUp,
                      AnnouncedBeforePoll, WakeUpDue
<1>7. QED
    BY <1>1, <1>2, <1>3, <1>4, <1>5, <1>6

LEMMA NextIInv ==
    ASSUME IInv, [Next]_vars
    PROVE  IInv'
<1>1. CASE LoopStep
    BY <1>1, LoopStepIInv
<1>2. CASE \E t \in AllThreads : \E f \in Funcs : QueueInLoop(t, f)
    BY <1>2, QueueInLoopIInv
<1>3. CASE \/ Loop
           \/ PollNothing
           \/ \E t \in AllThreads :
                \/ WakeUp(t)
                \/ set_quit(t)
                \/ \E f \in Funcs : RunInLoop(t, f)
           \/ \E c \in Chans : FdReady(c)
    BY <1>3, OperationIInv
<1>4. CASE UNCHANGED vars
    BY <1>4 DEF vars, ioVars, IInv, TypeOK, LocalVectorEmpty, SelfWakeUp,
                AnnouncedBeforePoll, WakeUpDue
<1>5. QED
    BY <1>1, <1>2, <1>3, <1>4 DEF Next

\* Every reachable state of the loop satisfies the inductive invariant.
THEOREM Invariance == Spec => []IInv
<1>1. Init => IInv
    BY InitIInv
<1>2. IInv /\ [Next]_vars => IInv'
    BY NextIInv
<1>3. QED
    BY <1>1, <1>2, PTL DEF Spec

-----------------------------------------------------------------------------
(* The results.                                                            *)

\* Every variable keeps its type, and the flags looping_ and calling_funcs_,
\* which QueueInLoop reads to decide on a wake-up, say where the loop is.
THEOREM TypeCorrect == Spec => []TypeOK
<1>1. IInv => TypeOK
    BY DEF IInv
<1>2. QED
    BY <1>1, Invariance, PTL

\* The I/O thread never sleeps in epoll_wait on a queued functor that nobody
\* announced or is about to announce (event_loop.cc:118-139, 153-164).
THEOREM WakeUpNotLost == Spec => []NoLostWakeUp
<1>1. IInv => NoLostWakeUp
    BY DEF IInv, AnnouncedBeforePoll, WakeUpDue, NoLostWakeUp
<1>2. QED
    BY <1>1, Invariance, PTL

-----------------------------------------------------------------------------
(* A queue that is kept in two pieces, the older one (the local vector) in *)
(* front of the newer one.                                                 *)

\* Pushing onto the newer piece pushes onto the whole.
LEMMA AppendConcat ==
    ASSUME NEW S, NEW older \in Seq(S), NEW newer \in Seq(S), NEW e \in S
    PROVE  older \o Append(newer, e) = Append(older \o newer, e)
OBVIOUS

\* Taking from the older piece, while it has something, takes from the whole.
LEMMA HeadTailConcat ==
    ASSUME NEW S, NEW older \in Seq(S), NEW newer \in Seq(S), older # <<>>
    PROVE  /\ older \o newer # <<>>
           /\ Head(older \o newer) = Head(older)
           /\ Tail(older \o newer) = Tail(older) \o newer
OBVIOUS

-----------------------------------------------------------------------------
\* Where the list and the local vector stay put, so does the executor.
LEMMA ExecutorStutters ==
    ASSUME UNCHANGED <<funcs_, tmp_funcs, ran>>
    PROVE  [Executor!Next]_<<tmp_funcs \o funcs_, ran>>
OBVIOUS

LEMMA PushIsAccept ==
    ASSUME TypeOK, NEW t \in AllThreads, NEW f \in Funcs, QueueInLoop(t, f)
    PROVE  Executor!Accept(f)
<1>1. /\ funcs_' = Append(funcs_, f)
      /\ tmp_funcs' = tmp_funcs
      /\ ran' = ran
    BY DEF QueueInLoop, ioVars
<1>2. tmp_funcs \o Append(funcs_, f) = Append(tmp_funcs \o funcs_, f)
    BY AppendConcat DEF TypeOK
<1>3. QED
    BY <1>1, <1>2 DEF Executor!Accept

LEMMA SwapStutters ==
    ASSUME TypeOK, LocalVectorEmpty, SwapFuncs
    PROVE  UNCHANGED <<tmp_funcs \o funcs_, ran>>
<1>1. /\ tmp_funcs = <<>>
      /\ tmp_funcs' = funcs_
      /\ funcs_' = <<>>
      /\ ran' = ran
    BY DEF SwapFuncs, LocalVectorEmpty
<1>2. funcs_ \o <<>> = <<>> \o funcs_
    BY ConcatEmptySeq DEF TypeOK
<1>3. QED
    BY <1>1, <1>2

LEMMA RunIsStartOldest ==
    ASSUME TypeOK, RunFunc
    PROVE  Executor!StartOldest
<1>1. /\ tmp_funcs # <<>>
      /\ ran' = Append(ran, Head(tmp_funcs))
      /\ tmp_funcs' = Tail(tmp_funcs)
      /\ funcs_' = funcs_
    BY DEF RunFunc
<1>2. /\ funcs_ \in Seq(Funcs)
      /\ tmp_funcs \in Seq(Funcs)
    BY DEF TypeOK
<1>3. /\ tmp_funcs \o funcs_ # <<>>
      /\ Head(tmp_funcs \o funcs_) = Head(tmp_funcs)
      /\ Tail(tmp_funcs \o funcs_) = Tail(tmp_funcs) \o funcs_
    BY <1>1, <1>2, HeadTailConcat, ConcatEqualIffEmpty
<1>4. QED
    BY <1>1, <1>3 DEF Executor!StartOldest

\* The functor list and the local vector of DoRunInLoopFuncs implement a
\* serial executor: each accepted functor runs once, in the order of the
\* pushes of all threads (event_loop.cc:118-122, 153-164).
THEOREM FunctorsAreExecutedInOrder == Spec => FunctorsRunInOrder
<1>1. Init => Executor!Init
  <2>1. <<>> \o <<>> = <<>>
    BY EmptySeq, ConcatEmptySeq
  <2>2. QED
    BY <2>1 DEF Init, Executor!Init
<1>2. IInv /\ [Next]_vars => [Executor!Next]_<<tmp_funcs \o funcs_, ran>>
  <2> SUFFICES ASSUME IInv, [Next]_vars
               PROVE  [Executor!Next]_<<tmp_funcs \o funcs_, ran>>
      OBVIOUS
  <2> USE DEF IInv
  <2>1. CASE SwapFuncs
    BY <2>1, SwapStutters
  <2>2. CASE RunFunc
    BY <2>2, RunIsStartOldest DEF Executor!Next
  <2>3. ASSUME NEW t \in AllThreads, NEW f \in Funcs, QueueInLoop(t, f)
        PROVE  Executor!Next
    BY <2>3, PushIsAccept DEF Executor!Next
  <2>4. CASE \/ UNCHANGED vars
             \/ Loop
             \/ PollNothing
             \/ CheckQuit
             \/ PollReady
             \/ HandleWakeUpRead
             \/ \E c \in Chans : HandleEvent(c) \/ FdReady(c)
             \/ CallbackReturns
             \/ SetCallingFuncs
             \/ FuncReturns
             \/ ResetCallingFuncs
             \/ \E t \in AllThreads : WakeUp(t) \/ set_quit(t)
    <3>1. UNCHANGED <<funcs_, tmp_funcs, ran>>
      BY <2>4 DEF vars, ioVars, Loop, PollNothing, CheckQuit, PollReady,
                  HandleWakeUpRead, HandleEvent, FdReady, CallbackReturns,
                  SetCallingFuncs, FuncReturns, ResetCallingFuncs, WakeUp,
                  set_quit
    <3>2. QED
      BY <3>1, ExecutorStutters
  <2>5. ASSUME NEW t \in AllThreads, NEW f \in Funcs, RunInLoop(t, f)
        PROVE  [Executor!Next]_<<tmp_funcs \o funcs_, ran>>
    <3>1. CASE QueueInLoop(t, f)
      BY <2>3, <3>1
    <3>2. CASE ~QueueInLoop(t, f)
      <4>1. UNCHANGED <<funcs_, tmp_funcs, ran>>
        BY <2>5, <3>2 DEF RunInLoop, ioVars
      <4>2. QED
        BY <4>1, ExecutorStutters
    <3>3. QED
      BY <3>1, <3>2
  <2>6. QED
    BY <2>1, <2>2, <2>3, <2>4, <2>5 DEF Next, LoopStep
<1>3. QED
    BY <1>1, <1>2, Invariance, PTL DEF Spec, FunctorsRunInOrder, Executor!Spec
=============================================================================
