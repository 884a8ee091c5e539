------------------------------ MODULE TimerQueue ------------------------------
(***************************************************************************)
(* TimerQueue and Timer (water/net/timer_queue.{h,cc}, timer.{h,cc}) and   *)
(* the timers of EventLoop (RunAt, RunAfter, RunEvery): a heap of timers   *)
(* ordered by their wall-clock time, served by one timerfd that counts     *)
(* down on the monotonic clock.                                            *)
(*                                                                         *)
(* The unit of time is the 100 microseconds under which the timerfd is     *)
(* never armed.  The functor queue of EventLoop, which carries AddTimer of *)
(* other threads into the I/O thread, is the sequence posted.              *)
(***************************************************************************)
EXTENDS Integers, Sequences, FiniteSets, Functions, FiniteSetsExt

CONSTANTS Timers,       \* each is added at most once
          Delays,       \* from now to the time of a new timer; may be negative
          Intervals,    \* of the timers of RunEvery
          Jumps,        \* by how much the wall clock may be set
          MaxTime       \* the wall clock stops counting here

ASSUME TimerQueueAssumption ==
    /\ Delays \subseteq Int
    /\ Intervals \subseteq Nat \ {0}
    /\ Jumps \subseteq Int
    /\ MaxTime \in Nat

VARIABLES
    wall,           \* what Date::Now() returns
    left,           \* of the timerfd: until it is readable; 0: readable
    timers_,        \* the heap
    when_, interval_, \* of every timer; interval 0: does not repeat
    expired,        \* HandleRead's local vector
    torun,          \* the part of it that has still to run
    now,            \* HandleRead's local constant
    io,             \* where the I/O thread is
    posted,         \* timers whose AddTimerInLoop is a queued functor
    fired,          \* history: timers that have run
    adjusted        \* history: the wall clock was set

clock == <<wall, left>>
heap == <<timers_, when_, interval_>>
handler == <<expired, torun, now, io>>
vars == <<clock, heap, handler, posted, fired, adjusted>>

Disarmed == -1

Init ==
    /\ wall = 0
    /\ left = Disarmed
    /\ timers_ = {}
    /\ when_ = [t \in Timers |-> 0]
    /\ interval_ = [t \in Timers |-> 0]
    /\ expired = {}
    /\ torun = {}
    /\ now = 0
    /\ io = "idle"
    /\ posted = <<>>
    /\ fired = {}
    /\ adjusted = FALSE

Added(t) == t \in timers_ \cup expired \cup Range(posted) \cup fired
IsRepeat(t) == interval_[t] > 0

-----------------------------------------------------------------------------
(* The timerfd.                                                            *)

NoMinimum(when) == when - wall
HowMuchTimeFromNow(when) == IF when - wall < 1 THEN 1 ELSE when - wall

\* timerfd_settime: a value of zero disarms.
ResetTimerFd(when) ==
    left' = IF HowMuchTimeFromNow(when) > 0 THEN HowMuchTimeFromNow(when)
                                            ELSE Disarmed

-----------------------------------------------------------------------------
(* Adding a timer.                                                         *)

ChangedOnlyIfEmpty(when) == timers_ = {}
EarliestChanged(when) == \A t \in timers_ : when < when_[t]

AddTimerInLoop(t, when) ==
    /\ timers_' = timers_ \cup {t}
    /\ IF EarliestChanged(when) THEN ResetTimerFd(when) ELSE UNCHANGED left

\* User code of the I/O thread runs between two rounds of HandleRead: in
\* another channel's callback (before or after the timer's), in a functor; and
\* in the callback of a timer.
InUserCode == io = "calling" => expired # torun

\* RunAt and RunAfter have no interval; RunEvery starts at the present time.
NewTimer(t, when, interval) ==
    /\ ~Added(t)
    /\ when_' = [when_ EXCEPT ![t] = when]
    /\ interval_' = [interval_ EXCEPT ![t] = interval]

AddTimer(t, when, interval) ==
    /\ NewTimer(t, when, interval)
    /\ \/ /\ InUserCode
          /\ AddTimerInLoop(t, when)
          /\ UNCHANGED posted
       \/ /\ posted' = Append(posted, t)
          /\ UNCHANGED <<timers_, left>>
    /\ UNCHANGED <<wall, handler, fired, adjusted>>

RunAt(t) == \E d \in Delays : wall + d >= 0 /\ AddTimer(t, wall + d, 0)
RunEvery(t) == \E i \in Intervals : AddTimer(t, wall, i)

RunPosted ==
    /\ io = "idle"
    /\ posted # <<>>
    /\ posted' = Tail(posted)
    /\ AddTimerInLoop(Head(posted), when_[Head(posted)])
    /\ UNCHANGED <<wall, when_, interval_, handler, fired, adjusted>>

-----------------------------------------------------------------------------
(* The timerfd's channel.                                                  *)

\* Poll reports the channel; other callbacks of the round may come first.
Poll ==
    /\ io = "idle"
    /\ left = 0
    /\ io' = "reported"
    /\ UNCHANGED <<clock, heap, expired, torun, now, posted, fired, adjusted>>

WholeHeap(date) == timers_
GetExpired(date) == {t \in timers_ : when_[t] < date}

CopyExpired ==
    /\ io = "reported"
    /\ now' = wall
    /\ left' = IF left = 0 THEN Disarmed ELSE left
    /\ expired' = GetExpired(wall)
    /\ torun' = GetExpired(wall)
    /\ io' = "calling"
    /\ UNCHANGED <<wall, heap, posted, fired, adjusted>>

\* Reads the clock once, then the descriptor (which fails if the timerfd was
\* armed anew since), then takes what is due off the heap.
HandleRead ==
    /\ io = "reported"
    /\ now' = wall
    /\ left' = IF left = 0 THEN Disarmed ELSE left
    /\ expired' = GetExpired(wall)
    /\ torun' = GetExpired(wall)
    /\ timers_' = timers_ \ GetExpired(wall)
    /\ io' = "calling"
    /\ UNCHANGED <<wall, when_, interval_, posted, fired, adjusted>>

\* In the order of the heap; equal times in any order.
RunTimer(t) ==
    /\ io = "calling"
    /\ t \in torun
    /\ \A u \in torun : when_[t] <= when_[u]
    /\ torun' = torun \ {t}
    /\ fired' = fired \cup {t}
    /\ UNCHANGED <<clock, heap, expired, now, io, posted, adjusted>>

RestartingAll == expired
Restarting == {t \in expired : IsRepeat(t)}

Restart(t) == now + interval_[t]

\* Insert of every repeating timer, then the timerfd is set for the new top.
Reset ==
    /\ io = "calling"
    /\ torun = {}
    /\ when_' = [t \in Timers |->
                   IF t \in Restarting THEN Restart(t) ELSE when_[t]]
    /\ timers_' = timers_ \cup Restarting
    /\ IF timers_' # {} THEN ResetTimerFd(Min({when_'[t] : t \in timers_'}))
                        ELSE UNCHANGED left
    /\ expired' = {}
    /\ io' = "idle"
    /\ UNCHANGED <<wall, interval_, torun, now, posted, fired, adjusted>>

-----------------------------------------------------------------------------
(* Time.                                                                   *)

Tick ==
    /\ wall' = IF wall < MaxTime THEN wall + 1 ELSE wall
    /\ left' = IF left > 0 THEN left - 1 ELSE left
    /\ UNCHANGED <<heap, handler, posted, fired, adjusted>>

\* Somebody sets the wall clock; the monotonic clock does not notice.
AdjustWallClock ==
    /\ \E d \in Jumps :
         /\ wall + d \in 0 .. MaxTime
         /\ wall' = wall + d
    /\ adjusted' = TRUE
    /\ UNCHANGED <<left, heap, handler, posted, fired>>

LoopStep ==
    \/ RunPosted
    \/ Poll
    \/ HandleRead
    \/ \E t \in Timers : RunTimer(t)
    \/ Reset

Next ==
    \/ \E t \in Timers : RunAt(t) \/ RunEvery(t)
    \/ LoopStep
    \/ Tick
    \/ AdjustWallClock

(***************************************************************************)
(* The loop runs, callbacks return, and time goes on.  A queued functor is  *)
(* run although rounds of the timerfd come in between: that is strong       *)
(* fairness here, and EventLoop's property QueuedFuncRuns.                  *)
(***************************************************************************)
Spec ==
    /\ Init
    /\ [][Next]_vars
    /\ WF_vars(LoopStep)
    /\ SF_vars(RunPosted)
    /\ WF_vars(Tick)

-----------------------------------------------------------------------------
(* Properties.                                                             *)

\* The type of every variable, and no timer is in two of the heap, the
\* handler's vector and the functor queue at once.
TypeOK ==
    /\ wall \in 0 .. MaxTime
    /\ left \in Nat \cup {Disarmed}
    /\ timers_ \in SUBSET Timers
    /\ when_ \in [Timers -> Nat]
    /\ interval_ \in [Timers -> Nat]
    /\ expired \in SUBSET Timers
    /\ torun \in SUBSET expired
    /\ now \in 0 .. MaxTime
    /\ io \in {"idle", "reported", "calling"}
    /\ posted \in Seq(Timers)
    /\ fired \in SUBSET Timers
    /\ adjusted \in BOOLEAN
    /\ timers_ \cap expired = {}
    /\ Range(posted) \cap (timers_ \cup expired) = {}
    /\ io # "calling" => expired = {}

\* While the heap is not empty the timerfd is armed or readable, except inside
\* HandleRead, whose Reset arms it: the loop cannot forget its timers.  As long
\* as nobody sets the wall clock it never goes off later than the time of the
\* earliest (or the minimal delay from now, if that is past).
HeapIsServed ==
    io # "calling" =>
        \A t \in timers_ :
            /\ left # Disarmed
            /\ ~adjusted => left <= HowMuchTimeFromNow(when_[t])

\* No callback runs before its time, by the clock that HandleRead has read.
NeverEarly ==
    [][\A t \in Timers : t \in torun /\ t \notin torun' => when_[t] < now]_vars

\* A timer that was added is on its way to the heap, in it or in the handler's
\* vector, until it has run; one that repeats stays there forever, and one that
\* does not never comes back.
NoTimerLost ==
    [][\A t \in Timers :
         /\ Added(t) => \/ t \in timers_' \cup expired' \cup Range(posted')
                        \/ t \in fired' /\ ~IsRepeat(t)
         /\ t \in fired /\ ~IsRepeat(t) => t \notin timers_' \cup torun']_vars

\* Every timer whose time comes runs, as long as nobody sets the wall clock.
TimerFires ==
    \A t \in Timers :
        t \in timers_ \cup Range(posted) /\ when_[t] < MaxTime
            ~> t \in fired \/ adjusted

=============================================================================
