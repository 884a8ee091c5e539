-------------------------- MODULE TimerQueue_proofs --------------------------
(***************************************************************************)
(* Proofs about TimerQueue, for every set of timers, delays, intervals and *)
(* adjustments of the wall clock.                                          *)
(***************************************************************************)
EXTENDS TimerQueue, SequenceTheorems, WellFoundedInduction, TLAPS

-----------------------------------------------------------------------------
(* Sequences without repetition, and the least of a set of times.          *)

\* The elements of a queue after a functor was appended.
LEMMA RangeAppend ==
    ASSUME NEW S, NEW s \in Seq(S), NEW e \in S
    PROVE  Range(Append(s, e)) = Range(s) \cup {e}
<1>1. /\ DOMAIN s = 1 .. Len(s)
      /\ DOMAIN Append(s, e) = 1 .. Len(s) + 1
      /\ Len(s) \in Nat
  BY AppendProperties, LenProperties
<1>2. /\ \A i \in 1 .. Len(s) : Append(s, e)[i] = s[i]
      /\ Append(s, e)[Len(s) + 1] = e
  BY AppendProperties
<1> QED
  BY <1>1, <1>2 DEF Range

\* A queue without repetition stays one when something new is appended.
LEMMA InjectiveAppend ==
    ASSUME NEW S, NEW s \in Seq(S), NEW e \in S \ Range(s), IsInjective(s)
    PROVE  IsInjective(Append(s, e))
<1>1. /\ DOMAIN s = 1 .. Len(s)
      /\ DOMAIN Append(s, e) = 1 .. Len(s) + 1
      /\ Len(s) \in Nat
  BY AppendProperties, LenProperties
<1>2. /\ \A i \in 1 .. Len(s) : Append(s, e)[i] = s[i]
      /\ Append(s, e)[Len(s) + 1] = e
  BY AppendProperties
<1>3. \A i \in 1 .. Len(s) : s[i] # e
  BY <1>1 DEF Range
<1> QED
  BY <1>1, <1>2, <1>3 DEF IsInjective

\* The head of a queue without repetition is not in its tail.
LEMMA InjectiveTail ==
    ASSUME NEW S, NEW s \in Seq(S), s # <<>>, IsInjective(s)
    PROVE  /\ Head(s) \in S
           /\ Tail(s) \in Seq(S)
           /\ IsInjective(Tail(s))
           /\ Range(s) = Range(Tail(s)) \cup {Head(s)}
           /\ Head(s) \notin Range(Tail(s))
<1>1. /\ DOMAIN s = 1 .. Len(s)
      /\ Len(s) \in Nat \ {0}
  BY LenProperties, EmptySeq
<1>2. /\ Head(s) \in S
      /\ Tail(s) \in Seq(S)
      /\ Len(Tail(s)) = Len(s) - 1
      /\ \A i \in 1 .. Len(Tail(s)) : Tail(s)[i] = s[i + 1]
  BY HeadTailProperties
<1>3. Head(s) = s[1]
  BY <1>1
<1>4. DOMAIN Tail(s) = 1 .. Len(s) - 1
  BY <1>2, LenProperties
<1>5. IsInjective(Tail(s))
  BY <1>1, <1>2, <1>4 DEF IsInjective
<1>6. Head(s) \notin Range(Tail(s))
  BY <1>1, <1>2, <1>3, <1>4 DEF IsInjective, Range
<1>7. Range(s) \subseteq Range(Tail(s)) \cup {Head(s)}
  <2>1. SUFFICES ASSUME NEW i \in 1 .. Len(s), i # 1
                 PROVE  s[i] \in Range(Tail(s))
    BY <1>1, <1>3 DEF Range
  <2>2. i - 1 \in 1 .. Len(s) - 1 /\ s[i] = Tail(s)[i - 1]
    BY <1>1, <1>2, <2>1
  <2> QED
    BY <1>4, <2>2 DEF Range
<1>8. Range(Tail(s)) \cup {Head(s)} \subseteq Range(s)
  <2>1. \A i \in 1 .. Len(s) - 1 : i + 1 \in 1 .. Len(s) /\ Tail(s)[i] = s[i + 1]
    BY <1>1, <1>2
  <2> QED
    BY <1>1, <1>3, <1>4, <2>1 DEF Range
<1> QED
  BY <1>2, <1>5, <1>6, <1>7, <1>8

\* A nonempty set of times has a least element, and Min is one.
LEMMA MinIsLeast ==
    ASSUME NEW S \in SUBSET Nat, S # {}
    PROVE  /\ Min(S) \in S
           /\ \A x \in S : Min(S) <= x
<1> DEFINE less == OpToRel(<, Nat)
<1>1. \E x \in S : \A y \in S : ~ (<<y, x>> \in less)
  <2>1. IsWellFoundedOn(less, Nat)
    BY NatLessThanWellFounded
  <2> HIDE DEF less
  <2> QED
    BY <2>1, WFMin
<1>2. \A x, y \in Nat : ~ (<<y, x>> \in less) => x =< y
  BY DEF OpToRel
<1>3. \E x \in S : \A y \in S : x =< y
  BY <1>1, <1>2
<1> QED
  BY <1>3 DEF Min

-----------------------------------------------------------------------------
(* The inductive invariant.                                                *)

\* A timer's AddTimerInLoop is queued at most once.
PostedOnce == IsInjective(posted)

\* What HandleRead still has to run was due when it read the clock.
DueTimers == \A t \in torun : when_[t] < now

\* What HandleRead no longer has to run has run.  A timer that ran is not
\* queued again; it stays with the heap or the handler if it repeats, and
\* comes back to neither if it does not.
FiredTimers ==
    /\ expired \ torun \subseteq fired
    /\ \A t \in fired :
         /\ t \notin Range(posted)
         /\ IsRepeat(t) => t \in timers_ \cup expired
         /\ ~IsRepeat(t) => t \notin timers_ \cup torun

IInv == TypeOK /\ PostedOnce /\ DueTimers /\ FiredTimers /\ HeapIsServed

-----------------------------------------------------------------------------
(* The timerfd.                                                            *)

\* Setting the timerfd always arms it.
LEMMA ResetArms ==
    ASSUME TypeOK, NEW when \in Nat, ResetTimerFd(when)
    PROVE  /\ left' = HowMuchTimeFromNow(when)
           /\ left' \in Nat \ {0}
<1>1. HowMuchTimeFromNow(when) \in Nat \ {0}
  BY DEF TypeOK, HowMuchTimeFromNow
<1> QED
  BY <1>1 DEF ResetTimerFd

\* The timerfd is set by AddTimerInLoop exactly if the new timer is the
\* earliest, and that is enough.
LEMMA AddKeepsServed ==
    ASSUME TypeOK, HeapIsServed, io # "calling",
           NEW t \in Timers, NEW when \in Nat, AddTimerInLoop(t, when),
           when_' \in [Timers -> Nat], when_'[t] = when,
           \A u \in timers_ : when_'[u] = when_[u],
           UNCHANGED <<wall, adjusted>>
    PROVE  /\ left' \in Nat \cup {Disarmed}
           /\ HeapIsServed'
<1>1. CASE EarliestChanged(when)
  <2>1. left' = HowMuchTimeFromNow(when) /\ left' \in Nat \ {0}
    BY <1>1, ResetArms DEF AddTimerInLoop
  <2>2. \A u \in timers_ : when < when_[u] /\ when_[u] \in Nat
    BY <1>1 DEF EarliestChanged, TypeOK
  <2>3. \A u \in timers_' : when_'[u] \in Nat /\ when <= when_'[u]
    BY <2>2 DEF AddTimerInLoop, TypeOK
  <2>4. \A u \in timers_' : left' <= HowMuchTimeFromNow(when_[u])'
    BY <2>1, <2>3 DEF HowMuchTimeFromNow, TypeOK
  <2> QED
    BY <2>1, <2>4 DEF HeapIsServed, Disarmed
<1>2. CASE ~EarliestChanged(when)
  <2>1. PICK v \in timers_ : when_[v] <= when
    BY <1>2 DEF EarliestChanged, TypeOK
  <2>2. left' = left /\ left # Disarmed
    BY <1>2, <2>1 DEF AddTimerInLoop, HeapIsServed
  <2>3. ASSUME NEW u \in timers_', ~adjusted
        PROVE  left <= HowMuchTimeFromNow(when_[u])'
    <3>1. CASE u \in timers_
      BY <2>3, <3>1 DEF HeapIsServed, HowMuchTimeFromNow
    <3>2. CASE u = t
      <4>1. left <= HowMuchTimeFromNow(when_[v])
        BY <2>1, <2>3 DEF HeapIsServed
      <4>2. when_[v] \in Nat /\ wall \in Nat /\ left \in Int
        BY <2>1 DEF TypeOK, Disarmed
      <4> QED
        BY <2>1, <3>2, <4>1, <4>2 DEF HowMuchTimeFromNow
    <3> QED
      BY <3>1, <3>2 DEF AddTimerInLoop
  <2>4. left' \in Nat \cup {Disarmed}
    BY <2>2 DEF TypeOK
  <2> QED
    BY <2>2, <2>3, <2>4 DEF HeapIsServed
<1> QED
  BY <1>1, <1>2

-----------------------------------------------------------------------------
(* The steps.                                                              *)

\* The initial states satisfy the invariant.
LEMMA InitIInv == Init => IInv
<1>1. ASSUME Init
      PROVE  TypeOK
  <2>1. posted \in Seq(Timers) /\ Range(posted) = {}
    BY <1>1, EmptySeq, LenProperties DEF Init, Range
  <2>2. 0 \in 0 .. MaxTime
    BY TimerQueueAssumption
  <2> QED
    BY <1>1, <2>1, <2>2 DEF Init, TypeOK, Disarmed
<1>2. ASSUME Init
      PROVE  PostedOnce
  BY <1>2 DEF Init, PostedOnce, IsInjective
<1> QED
  BY <1>1, <1>2 DEF Init, IInv, DueTimers, FiredTimers, HeapIsServed

\* Adding a timer, in the loop or through the functor queue.
LEMMA AddTimerIInv ==
    ASSUME IInv, NEW t \in Timers, NEW when \in Nat, NEW interval \in Nat,
           AddTimer(t, when, interval)
    PROVE  IInv'
<1> USE DEF IInv
<1>1. /\ ~Added(t)
      /\ when_' \in [Timers -> Nat]
      /\ when_'[t] = when
      /\ \A u \in Timers \ {t} : when_'[u] = when_[u]
      /\ interval_' \in [Timers -> Nat]
      /\ \A u \in Timers \ {t} : interval_'[u] = interval_[u]
      /\ UNCHANGED <<wall, expired, torun, now, io, fired, adjusted>>
  BY DEF AddTimer, NewTimer, TypeOK, handler
<1>2. /\ t \notin timers_ /\ t \notin expired /\ t \notin torun
      /\ t \notin Range(posted) /\ t \notin fired
  BY <1>1 DEF Added, TypeOK
<1>3. CASE /\ InUserCode
           /\ AddTimerInLoop(t, when)
           /\ UNCHANGED posted
  <2>1. timers_' = timers_ \cup {t}
    BY <1>3 DEF AddTimerInLoop
  <2>2. left' \in Nat \cup {Disarmed}
    BY <1>3, ResetArms DEF AddTimerInLoop, TypeOK
  <2>3. TypeOK'
    BY <1>1, <1>2, <1>3, <2>1, <2>2 DEF TypeOK
  <2>4. PostedOnce' /\ DueTimers' /\ FiredTimers'
    BY <1>1, <1>2, <1>3, <2>1
       DEF TypeOK, PostedOnce, DueTimers, FiredTimers, IsRepeat
  <2>5. HeapIsServed'
    <3>1. CASE io = "calling"
      BY <1>1, <3>1 DEF HeapIsServed
    <3>2. CASE io # "calling"
      <4>1. \A u \in timers_ : when_'[u] = when_[u]
        BY <1>1, <1>2 DEF TypeOK
      <4> QED
        BY <1>1, <1>3, <3>2, <4>1, AddKeepsServed
    <3> QED
      BY <3>1, <3>2
  <2> QED
    BY <2>3, <2>4, <2>5
<1>4. CASE /\ posted' = Append(posted, t)
           /\ UNCHANGED <<timers_, left>>
  <2>1. /\ posted' \in Seq(Timers)
        /\ Range(posted') = Range(posted) \cup {t}
    BY <1>4, AppendProperties, RangeAppend DEF TypeOK
  <2>2. TypeOK'
    BY <1>1, <1>2, <1>4, <2>1 DEF TypeOK
  <2>3. PostedOnce'
    BY <1>2, <1>4, InjectiveAppend DEF TypeOK, PostedOnce
  <2>4. DueTimers' /\ FiredTimers'
    BY <1>1, <1>2, <1>4, <2>1 DEF TypeOK, DueTimers, FiredTimers, IsRepeat
  <2>5. HeapIsServed'
    BY <1>1, <1>2, <1>4 DEF TypeOK, HeapIsServed, HowMuchTimeFromNow
  <2> QED
    BY <2>2, <2>3, <2>4, <2>5
<1> QED
  BY <1>3, <1>4 DEF AddTimer

\* The loop runs the functor that adds a timer.
LEMMA RunPostedIInv ==
    ASSUME IInv, RunPosted
    PROVE  IInv'
<1> USE DEF IInv
<1> DEFINE t == Head(posted)
<1>1. /\ io # "calling"
      /\ AddTimerInLoop(t, when_[t])
      /\ UNCHANGED <<wall, when_, interval_, expired, torun, now, io, fired, adjusted>>
  BY DEF RunPosted, handler
<1>2. /\ t \in Timers
      /\ posted' \in Seq(Timers)
      /\ IsInjective(posted')
      /\ Range(posted) = Range(posted') \cup {t}
      /\ t \notin Range(posted')
  BY InjectiveTail DEF RunPosted, TypeOK, PostedOnce
<1> HIDE DEF t
<1>3. timers_' = timers_ \cup {t} /\ when_[t] \in Nat
  BY <1>1, <1>2 DEF AddTimerInLoop, TypeOK
<1>4. left' \in Nat \cup {Disarmed} /\ HeapIsServed'
  BY <1>1, <1>2, <1>3, AddKeepsServed DEF TypeOK
<1>5. TypeOK'
  BY <1>1, <1>2, <1>3, <1>4 DEF TypeOK
<1>6. PostedOnce' /\ DueTimers' /\ FiredTimers'
  BY <1>1, <1>2, <1>3 DEF TypeOK, PostedOnce, DueTimers, FiredTimers, IsRepeat
<1> QED
  BY <1>4, <1>5, <1>6

\* HandleRead reads the clock and takes what is due off the heap.
LEMMA HandleReadIInv ==
    ASSUME IInv, HandleRead
    PROVE  IInv'
<1> USE DEF IInv
<1>1. /\ now' = wall
      /\ expired' = GetExpired(wall)
      /\ torun' = GetExpired(wall)
      /\ timers_' = timers_ \ GetExpired(wall)
      /\ io' = "calling"
      /\ UNCHANGED <<wall, when_, interval_, posted, fired, adjusted>>
  BY DEF HandleRead
<1>2. /\ GetExpired(wall) \subseteq timers_
      /\ \A t \in GetExpired(wall) : when_[t] < wall
  BY DEF GetExpired
<1>3. expired = {}
  BY DEF HandleRead, TypeOK
<1>4. left' \in Nat \cup {Disarmed}
  BY DEF HandleRead, TypeOK
<1>5. TypeOK'
  BY <1>1, <1>2, <1>4 DEF TypeOK
<1>6. PostedOnce' /\ DueTimers' /\ HeapIsServed'
  BY <1>1, <1>2 DEF PostedOnce, DueTimers, HeapIsServed
<1>7. FiredTimers'
  BY <1>1, <1>2, <1>3 DEF FiredTimers, IsRepeat, TypeOK
<1> QED
  BY <1>5, <1>6, <1>7

\* A callback runs.
LEMMA RunTimerIInv ==
    ASSUME IInv, NEW t \in Timers, RunTimer(t)
    PROVE  IInv'
<1> USE DEF IInv
<1>1. /\ io = "calling"
      /\ t \in torun
      /\ torun' = torun \ {t}
      /\ fired' = fired \cup {t}
      /\ UNCHANGED <<wall, left, timers_, when_, interval_, expired, now, io, posted, adjusted>>
  BY DEF RunTimer, clock, heap
<1>2. TypeOK'
  BY <1>1 DEF TypeOK
<1>3. PostedOnce' /\ DueTimers' /\ HeapIsServed'
  BY <1>1 DEF PostedOnce, DueTimers, HeapIsServed
<1>4. FiredTimers'
  BY <1>1 DEF FiredTimers, IsRepeat, TypeOK
<1> QED
  BY <1>2, <1>3, <1>4

\* Reset restarts what repeats and sets the timerfd for the new top.
LEMMA ResetIInv ==
    ASSUME IInv, Reset
    PROVE  IInv'
<1> USE DEF IInv
<1>1. /\ torun = {}
      /\ when_' = [t \in Timers |->
                     IF t \in Restarting THEN Restart(t) ELSE when_[t]]
      /\ timers_' = timers_ \cup Restarting
      /\ expired' = {}
      /\ io' = "idle"
      /\ UNCHANGED <<wall, interval_, torun, now, posted, fired, adjusted>>
  BY DEF Reset
<1>2. /\ Restarting \subseteq expired
      /\ \A t \in expired : t \in Restarting <=> IsRepeat(t)
  BY DEF Restarting
<1>3. when_' \in [Timers -> Nat]
  <2>1. \A t \in Timers : Restart(t) \in Nat
    BY DEF Restart, TypeOK
  <2> QED
    BY <1>1, <2>1 DEF TypeOK
<1>4. ASSUME timers_' = {}
      PROVE  TypeOK' /\ HeapIsServed'
  <2>1. left' = left
    BY <1>4 DEF Reset
  <2>2. TypeOK'
    BY <1>1, <1>3, <1>4, <2>1 DEF TypeOK
  <2>3. HeapIsServed'
    BY <1>4 DEF HeapIsServed
  <2> QED
    BY <2>2, <2>3
<1>5. ASSUME timers_' # {}
      PROVE  TypeOK' /\ HeapIsServed'
  <2> DEFINE S == {when_'[t] : t \in timers_'}
  <2>1. S \in SUBSET Nat /\ S # {}
    <3>1. timers_' \subseteq Timers
      BY <1>1, <1>2 DEF TypeOK
    <3>2. \A t \in timers_' : when_'[t] \in Nat
      BY <1>3, <3>1
    <3> QED
      BY <1>5, <3>2
  <2>2. ResetTimerFd(Min(S))
    BY <1>5 DEF Reset
  <2>3. /\ Min(S) \in Nat
        /\ \A t \in timers_' : Min(S) <= when_'[t]
    <3>1. \A t \in timers_' : when_'[t] \in S
      OBVIOUS
    <3> QED
      BY <2>1, <3>1, MinIsLeast
  <2> HIDE DEF S
  <2>4. left' = HowMuchTimeFromNow(Min(S)) /\ left' \in Nat \ {0}
    BY <2>2, <2>3, ResetArms
  <2>5. TypeOK'
    BY <1>1, <1>2, <1>3, <2>4 DEF TypeOK
  <2>6. \A t \in timers_' : left' <= HowMuchTimeFromNow(when_[t])'
    <3>1. \A t \in timers_' : when_'[t] \in Nat
      BY <1>3, <2>5 DEF TypeOK
    <3>2. wall \in Nat /\ wall' = wall
      BY <1>1 DEF TypeOK
    <3> QED
      BY <2>3, <2>4, <3>1, <3>2 DEF HowMuchTimeFromNow
  <2>7. HeapIsServed'
    BY <2>4, <2>6 DEF HeapIsServed, Disarmed
  <2> QED
    BY <2>5, <2>7
<1>6. TypeOK' /\ HeapIsServed'
  BY <1>4, <1>5
<1>7. PostedOnce' /\ DueTimers'
  BY <1>1 DEF PostedOnce, DueTimers
<1>8. FiredTimers'
  BY <1>1, <1>2 DEF FiredTimers, IsRepeat, TypeOK
<1> QED
  BY <1>6, <1>7, <1>8

\* Both clocks go on.
LEMMA TickIInv ==
    ASSUME IInv, Tick
    PROVE  IInv'
<1> USE DEF IInv
<1>1. UNCHANGED <<timers_, when_, interval_, expired, torun, now, io, posted, fired, adjusted>>
  BY DEF Tick, heap, handler
<1>2. /\ wall \in 0 .. MaxTime
      /\ wall' \in 0 .. MaxTime
      /\ wall' \in wall .. wall + 1
  BY TimerQueueAssumption DEF Tick, TypeOK
<1>3. /\ left' \in Nat \cup {Disarmed}
      /\ left # Disarmed => left' # Disarmed
      /\ left' = left \/ left' = left - 1
      /\ left > 0 => left' = left - 1
  BY DEF Tick, TypeOK, Disarmed
<1>4. TypeOK'
  BY <1>1, <1>2, <1>3 DEF TypeOK
<1>5. PostedOnce' /\ DueTimers' /\ FiredTimers'
  BY <1>1 DEF PostedOnce, DueTimers, FiredTimers, IsRepeat
<1>6. HeapIsServed'
  <2>1. SUFFICES ASSUME NEW t \in timers_, io # "calling", ~adjusted,
                        left # Disarmed,
                        left <= HowMuchTimeFromNow(when_[t])
                 PROVE  left' <= HowMuchTimeFromNow(when_[t])'
    BY <1>1, <1>3 DEF HeapIsServed
  <2>2. when_[t] \in Nat /\ left \in Nat /\ wall \in Nat /\ wall' \in {wall, wall + 1}
    BY <1>2, <2>1 DEF TypeOK
  <2>3. when_'[t] = when_[t]
    BY <1>1
  <2>4. left' = IF left > 0 THEN left - 1 ELSE left
    BY DEF Tick
  <2> QED
    BY <2>1, <2>2, <2>3, <2>4 DEF HowMuchTimeFromNow
<1> QED
  BY <1>4, <1>5, <1>6

\* Every other step.
LEMMA QuietIInv ==
    ASSUME IInv, Poll \/ AdjustWallClock \/ UNCHANGED vars
    PROVE  IInv'
<1> USE DEF IInv
<1>1. UNCHANGED <<left, timers_, when_, interval_, expired, torun, now, posted, fired>>
  BY DEF Poll, AdjustWallClock, vars, clock, heap, handler
<1>2. \/ UNCHANGED <<wall, adjusted, io>>
      \/ UNCHANGED <<wall, adjusted>> /\ io = "idle" /\ io' = "reported"
      \/ wall' \in 0 .. MaxTime /\ adjusted' = TRUE /\ io' = io
  <2>1. CASE Poll
    BY <2>1 DEF Poll, clock
  <2>2. CASE AdjustWallClock
    BY <2>2 DEF AdjustWallClock, handler
  <2>3. CASE UNCHANGED vars
    BY <2>3 DEF vars, clock, handler
  <2> QED
    BY <2>1, <2>2, <2>3
<1>3. TypeOK'
  BY <1>1, <1>2 DEF TypeOK
<1>4. PostedOnce' /\ DueTimers' /\ FiredTimers'
  BY <1>1 DEF PostedOnce, DueTimers, FiredTimers, IsRepeat
<1>5. HeapIsServed'
  BY <1>1, <1>2 DEF HeapIsServed, HowMuchTimeFromNow, TypeOK
<1> QED
  BY <1>3, <1>4, <1>5

\* A new timer comes from RunAt or RunEvery.
LEMMA NewTimerStep ==
    ASSUME TypeOK, NEW t \in Timers, RunAt(t) \/ RunEvery(t)
    PROVE  \E when, interval \in Nat : AddTimer(t, when, interval)
<1>1. CASE RunAt(t)
  BY <1>1, TimerQueueAssumption DEF RunAt, TypeOK
<1>2. CASE RunEvery(t)
  BY <1>2, TimerQueueAssumption DEF RunEvery, TypeOK
<1> QED
  BY <1>1, <1>2

\* Every step keeps the invariant.
LEMMA NextIInv == IInv /\ [Next]_vars => IInv'
<1> SUFFICES ASSUME IInv, [Next]_vars
             PROVE  IInv'
  OBVIOUS
<1>1. ASSUME NEW t \in Timers, RunAt(t) \/ RunEvery(t)
      PROVE  IInv'
  BY <1>1, NewTimerStep, AddTimerIInv DEF IInv
<1>2. ASSUME NEW t \in Timers, RunTimer(t)
      PROVE  IInv'
  BY <1>2, RunTimerIInv
<1> QED
  BY <1>1, <1>2, RunPostedIInv, HandleReadIInv, ResetIInv, TickIInv, QuietIInv
     DEF Next, LoopStep

-----------------------------------------------------------------------------
(* The theorems.                                                           *)

\* The invariant holds in every reachable state.
THEOREM Invariant == Spec => []IInv
<1> QED
  BY InitIInv, NextIInv, PTL DEF Spec

\* Every variable has its type, and a timer is in at most one of the heap, the
\* handler's vector and the functor queue.
THEOREM TypeCorrect == Spec => []TypeOK
<1> QED
  BY Invariant, PTL DEF IInv

\* A heap that is not empty is served: the timerfd is armed or readable
\* whenever the loop is outside HandleRead, and not for later than its earliest
\* timer while nobody sets the wall clock.
THEOREM HeapServed == Spec => []HeapIsServed
<1> QED
  BY Invariant, PTL DEF IInv

\* No callback runs before its time, by the clock that HandleRead read.
THEOREM NotEarly == Spec => NeverEarly
<1>1. IInv => \A t \in Timers : t \in torun /\ t \notin torun' => when_[t] < now
  BY DEF IInv, DueTimers
<1> QED
  BY <1>1, Invariant, PTL DEF NeverEarly

\* No step loses a timer, forgets one that repeats, or brings back one that
\* does not.
THEOREM TimersKept == Spec => NoTimerLost
<1> DEFINE Kept(t) ==
      /\ Added(t) => \/ t \in timers_' \cup expired' \cup Range(posted')
                     \/ t \in fired' /\ ~IsRepeat(t)
      /\ t \in fired /\ ~IsRepeat(t) => t \notin timers_' \cup torun'
<1>1. ASSUME IInv, IInv', [Next]_vars, NEW t \in Timers
      PROVE  Kept(t)
  <2>1. /\ fired \subseteq fired'
        /\ Added(t) => interval_'[t] = interval_[t]
    <3>1. ASSUME NEW u \in Timers, RunAt(u) \/ RunEvery(u)
          PROVE  fired' = fired /\ (Added(t) => interval_'[t] = interval_[t])
      BY <1>1, <3>1 DEF RunAt, RunEvery, AddTimer, NewTimer, IInv, TypeOK
    <3> QED
      BY <1>1, <3>1 DEF Next, LoopStep, RunPosted, Poll, HandleRead, RunTimer, Reset,
                        Tick, AdjustWallClock, vars, heap
  <2>2. t \in fired => /\ IsRepeat(t) => t \in timers_' \cup expired'
                       /\ ~IsRepeat(t) => t \notin timers_' \cup torun'
    BY <1>1, <2>1 DEF IInv, FiredTimers, IsRepeat, Added
  <2>3. t \in timers_ \cup expired \cup Range(posted)
          => t \in timers_' \cup expired' \cup Range(posted') \cup fired'
    <3>1. ASSUME NEW u \in Timers, RunAt(u) \/ RunEvery(u)
          PROVE  /\ timers_ \subseteq timers_'
                 /\ expired' = expired
                 /\ Range(posted) \subseteq Range(posted')
      <4>1. PICK when, interval \in Nat : AddTimer(u, when, interval)
        BY <1>1, <3>1, NewTimerStep DEF IInv
      <4>2. Range(posted) \subseteq Range(posted')
        <5>1. Range(Append(posted, u)) = Range(posted) \cup {u}
          BY <1>1, RangeAppend DEF IInv, TypeOK
        <5>2. posted' = posted \/ posted' = Append(posted, u)
          BY <4>1 DEF AddTimer
        <5> QED
          BY <5>1, <5>2
      <4> QED
        BY <4>1, <4>2 DEF AddTimer, AddTimerInLoop, handler
    <3>2. CASE RunPosted
      BY <1>1, <3>2, InjectiveTail
         DEF RunPosted, AddTimerInLoop, handler, IInv, TypeOK, PostedOnce
    <3>3. CASE HandleRead
      BY <1>1, <3>3 DEF HandleRead, IInv, TypeOK
    <3>4. CASE Reset
      BY <1>1, <3>4 DEF Reset, IInv, FiredTimers
    <3>5. CASE \/ Poll \/ Tick \/ AdjustWallClock \/ UNCHANGED vars
               \/ \E u \in Timers : RunTimer(u)
      BY <3>5 DEF Poll, Tick, AdjustWallClock, RunTimer, vars, heap, handler
    <3> QED
      BY <1>1, <3>1, <3>2, <3>3, <3>4, <3>5 DEF Next, LoopStep
  <2>4. t \in fired' => \/ t \in timers_' \cup expired'
                        \/ (Added(t) => ~IsRepeat(t))
    BY <1>1, <2>1 DEF IInv, FiredTimers, IsRepeat
  <2> QED
    BY <2>1, <2>2, <2>3, <2>4 DEF Added
<1>2. IInv /\ IInv' /\ [Next]_vars => \A t \in Timers : Kept(t)
  BY <1>1
<1> QED
  BY <1>2, Invariant, PTL DEF NoTimerLost, Spec

=============================================================================
