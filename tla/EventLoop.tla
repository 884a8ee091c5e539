------------------------------ MODULE EventLoop ------------------------------
(***************************************************************************)
(* EventLoop (water/net/event_loop.{h,cc}): one I/O thread runs Loop(),    *)
(* any thread hands it functors with RunInLoop/QueueInLoop, wakes it up    *)
(* through an eventfd and ends it with set_quit().                         *)
(*                                                                         *)
(* The channels are here the set of those that are registered: readiness   *)
(* is level triggered, and a callback drains its descriptor.               *)
(***************************************************************************)
EXTENDS Naturals, Sequences, FiniteSets, Functions

CONSTANTS Threads,      \* the threads other than the I/O thread
          Funcs,        \* functors; each is submitted at most once
          Chans,        \* registered channels besides the wake-up channel
          InitListSize  \* kInitEventListSize

IO == "io"
WakeChan == "wakeup"

ASSUME EventLoopAssumption ==
    /\ IO \notin Threads
    /\ WakeChan \notin Chans
    /\ InitListSize \in Nat \ {0}

VARIABLES
    looping_, quit_, calling_funcs_,
    funcs_,             \* functors queued and not yet taken
    tmp_funcs,          \* the rest of DoRunInLoopFuncs' local vector
    wake_up_fd_,        \* the counter of the eventfd
    ready,              \* channels of Chans whose descriptor is ready
    active_channels_,   \* channels of this round not yet handled
    list_size,          \* events_.size() of the poller
    io,                 \* where the I/O thread is
    waking,             \* waking[t]: t has pushed and is about to WakeUp()
    ran,                \* history: queued functors, in the order they ran
    inline              \* history: functors RunInLoop ran at once

ioVars == <<looping_, calling_funcs_, tmp_funcs, active_channels_, list_size,
            ran>>
vars == <<ioVars, quit_, funcs_, wake_up_fd_, ready, io, waking, inline>>

AllThreads == Threads \cup {IO}

Init ==
    /\ looping_ = FALSE
    /\ quit_ = FALSE
    /\ calling_funcs_ = FALSE
    /\ funcs_ = <<>>
    /\ tmp_funcs = <<>>
    /\ wake_up_fd_ = 0
    /\ ready = {}
    /\ active_channels_ = {}
    /\ list_size = InitListSize
    /\ io = "out"
    /\ waking = [t \in AllThreads |-> FALSE]
    /\ ran = <<>>
    /\ inline = {}

-----------------------------------------------------------------------------
(* The public operations.                                                  *)

IsInLoopThread(t) == t = IO

\* t is executing code of its own: a thread other than the I/O thread always
\* is; the I/O thread is outside of Loop(), in a channel's callback or in a
\* functor.  Between the push and WakeUp() it is inside QueueInLoop.
InUserCode(t) ==
    /\ ~waking[t]
    /\ IsInLoopThread(t) => io \in {"out", "callback", "functor"}

Fresh(f) == f \notin Range(funcs_ \o tmp_funcs \o ran) \cup inline

NeedsWakeUpOffThread(t) == ~IsInLoopThread(t)
NeedsWakeUpInLoop(t) == calling_funcs_ \/ ~looping_
NeedsWakeUp(t) == ~IsInLoopThread(t) \/ calling_funcs_ \/ ~looping_

QueueInLoop(t, f) ==
    /\ InUserCode(t)
    /\ Fresh(f)
    /\ funcs_' = Append(funcs_, f)
    /\ waking' = [waking EXCEPT ![t] = NeedsWakeUp(t)]
    /\ UNCHANGED <<ioVars, quit_, wake_up_fd_, ready, io, inline>>

WakeUp(t) ==
    /\ waking[t]
    /\ wake_up_fd_' = wake_up_fd_ + 1
    /\ waking' = [waking EXCEPT ![t] = FALSE]
    /\ UNCHANGED <<ioVars, quit_, funcs_, ready, io, inline>>

\* In the I/O thread the functor runs at once: what it calls in turn are calls
\* of the same context.
RunInLoop(t, f) ==
    \/ /\ ~IsInLoopThread(t)
       /\ QueueInLoop(t, f)
    \/ /\ IsInLoopThread(t)
       /\ InUserCode(t)
       /\ Fresh(f)
       /\ inline' = inline \cup {f}
       /\ UNCHANGED <<ioVars, quit_, funcs_, wake_up_fd_, ready, io, waking>>

set_quit(t) ==
    /\ InUserCode(t)
    /\ quit_' = TRUE
    /\ UNCHANGED <<ioVars, funcs_, wake_up_fd_, ready, io, waking, inline>>

-----------------------------------------------------------------------------
(* Loop(), step by step.                                                   *)

Loop ==
    /\ io = "out"
    /\ ~waking[IO]
    /\ looping_' = TRUE
    /\ quit_' = FALSE
    /\ io' = "check"
    /\ UNCHANGED <<calling_funcs_, tmp_funcs, active_channels_, list_size, ran,
                   funcs_, wake_up_fd_, ready, waking, inline>>

QuitIgnoredCheck ==
    /\ io = "check"
    /\ io' = "poll"
    /\ active_channels_' = {}
    /\ UNCHANGED <<looping_, calling_funcs_, tmp_funcs, list_size, ran, quit_,
                   funcs_, wake_up_fd_, ready, waking, inline>>

\* while (!quit_) { active_channels_.clear(); ... } looping_ = false;
CheckQuit ==
    /\ io = "check"
    /\ io' = IF quit_ THEN "out" ELSE "poll"
    /\ looping_' = ~quit_
    /\ active_channels_' = IF quit_ THEN active_channels_ ELSE {}
    /\ UNCHANGED <<calling_funcs_, tmp_funcs, list_size, ran, quit_, funcs_,
                   wake_up_fd_, ready, waking, inline>>

Readable == ready \cup (IF wake_up_fd_ > 0 THEN {WakeChan} ELSE {})

\* epoll_wait fills the event array with what is ready, as much as fits; the
\* array doubles when it was filled.
PollReady ==
    /\ io = "poll"
    /\ \E S \in (SUBSET Readable) \ {{}} :
         /\ \/ S = Readable /\ Cardinality(S) <= list_size
            \/ Cardinality(S) = list_size
         /\ active_channels_' = S
         /\ list_size' = IF Cardinality(S) = list_size THEN list_size * 2
                                                       ELSE list_size
    /\ io' = "dispatch"
    /\ UNCHANGED <<looping_, calling_funcs_, tmp_funcs, ran, quit_, funcs_,
                   wake_up_fd_, ready, waking, inline>>

\* epoll_wait returns without an event: kPollTimeMs went by, or EINTR.
PollNothing ==
    /\ io = "poll"
    /\ io' = "dispatch"
    /\ UNCHANGED <<ioVars, quit_, funcs_, wake_up_fd_, ready, waking, inline>>

HandleWakeUpRead ==
    /\ io = "dispatch"
    /\ WakeChan \in active_channels_
    /\ active_channels_' = active_channels_ \ {WakeChan}
    /\ wake_up_fd_' = 0
    /\ UNCHANGED <<looping_, calling_funcs_, tmp_funcs, list_size, ran, quit_,
                   funcs_, ready, io, waking, inline>>

HandleEvent(c) ==
    /\ io = "dispatch"
    /\ c \in active_channels_ \ {WakeChan}
    /\ active_channels_' = active_channels_ \ {c}
    /\ ready' = ready \ {c}
    /\ io' = "callback"
    /\ UNCHANGED <<looping_, calling_funcs_, tmp_funcs, list_size, ran, quit_,
                   funcs_, wake_up_fd_, waking, inline>>

CallbackReturns ==
    /\ io = "callback"
    /\ ~waking[IO]
    /\ io' = "dispatch"
    /\ UNCHANGED <<ioVars, quit_, funcs_, wake_up_fd_, ready, waking, inline>>

\* The head of DoRunInLoopFuncs: the flag first, then the swap under the mutex.
SetCallingFuncs ==
    /\ io = "dispatch"
    /\ active_channels_ = {}
    /\ calling_funcs_' = TRUE
    /\ io' = "swap"
    /\ UNCHANGED <<looping_, tmp_funcs, active_channels_, list_size, ran, quit_,
                   funcs_, wake_up_fd_, ready, waking, inline>>

CopyFuncs ==
    /\ io = "swap"
    /\ tmp_funcs' = funcs_
    /\ io' = "run"
    /\ UNCHANGED <<looping_, calling_funcs_, active_channels_, list_size, ran,
                   quit_, funcs_, wake_up_fd_, ready, waking, inline>>

SwapFuncs ==
    /\ io = "swap"
    /\ tmp_funcs' = funcs_
    /\ funcs_' = tmp_funcs
    /\ io' = "run"
    /\ UNCHANGED <<looping_, calling_funcs_, active_channels_, list_size, ran,
                   quit_, wake_up_fd_, ready, waking, inline>>

RunFunc ==
    /\ io = "run"
    /\ tmp_funcs # <<>>
    /\ ran' = Append(ran, Head(tmp_funcs))
    /\ tmp_funcs' = Tail(tmp_funcs)
    /\ io' = "functor"
    /\ UNCHANGED <<looping_, calling_funcs_, active_channels_, list_size,
                   quit_, funcs_, wake_up_fd_, ready, waking, inline>>

FuncReturns ==
    /\ io = "functor"
    /\ ~waking[IO]
    /\ io' = "run"
    /\ UNCHANGED <<ioVars, quit_, funcs_, wake_up_fd_, ready, waking, inline>>

KeepCallingFuncs ==
    /\ io = "run"
    /\ tmp_funcs = <<>>
    /\ io' = "check"
    /\ UNCHANGED <<ioVars, quit_, funcs_, wake_up_fd_, ready, waking, inline>>

ResetCallingFuncs ==
    /\ io = "run"
    /\ tmp_funcs = <<>>
    /\ calling_funcs_' = FALSE
    /\ io' = "check"
    /\ UNCHANGED <<looping_, tmp_funcs, active_channels_, list_size, ran, quit_,
                   funcs_, wake_up_fd_, ready, waking, inline>>

-----------------------------------------------------------------------------
\* The environment: data arrives on a descriptor.
FdReady(c) ==
    /\ ready' = ready \cup {c}
    /\ UNCHANGED <<ioVars, quit_, funcs_, wake_up_fd_, io, waking, inline>>

LoopStep ==
    \/ CheckQuit
    \/ PollReady
    \/ HandleWakeUpRead
    \/ \E c \in Chans : HandleEvent(c)
    \/ CallbackReturns
    \/ SetCallingFuncs
    \/ SwapFuncs
    \/ RunFunc
    \/ FuncReturns
    \/ ResetCallingFuncs

Next ==
    \/ Loop
    \/ LoopStep
    \/ PollNothing
    \/ \E t \in AllThreads :
         \/ WakeUp(t)
         \/ set_quit(t)
         \/ \E f \in Funcs : QueueInLoop(t, f) \/ RunInLoop(t, f)
    \/ \E c \in Chans : FdReady(c)

(***************************************************************************)
(* The I/O thread is scheduled and its callbacks and functors return; a    *)
(* thread inside QueueInLoop goes on to WakeUp().  The poll timeout is     *)
(* deliberately not fair: what holds under Spec holds without ever waiting *)
(* kPollTimeMs.                                                            *)
(***************************************************************************)
Fairness ==
    /\ WF_vars(LoopStep)
    /\ \A t \in AllThreads : WF_vars(WakeUp(t))

Spec == Init /\ [][Next]_vars /\ Fairness

-----------------------------------------------------------------------------
(* Properties.                                                             *)

\* The type of every variable, and the two flags of the loop agree with where
\* the I/O thread is (looping_ inside Loop(), calling_funcs_ exactly while
\* DoRunInLoopFuncs runs), which NeedsWakeUp relies on.
TypeOK ==
    /\ looping_ \in BOOLEAN
    /\ quit_ \in BOOLEAN
    /\ calling_funcs_ \in BOOLEAN
    /\ funcs_ \in Seq(Funcs)
    /\ tmp_funcs \in Seq(Funcs)
    /\ wake_up_fd_ \in Nat
    /\ ready \in SUBSET Chans
    /\ active_channels_ \in SUBSET (Chans \cup {WakeChan})
    /\ list_size \in Nat \ {0}
    /\ io \in {"out", "check", "poll", "dispatch", "callback", "swap", "run",
               "functor"}
    /\ waking \in [AllThreads -> BOOLEAN]
    /\ ran \in Seq(Funcs)
    /\ inline \in SUBSET Funcs
    /\ looping_ <=> io # "out"
    /\ calling_funcs_ <=> io \in {"swap", "run", "functor"}

\* When the I/O thread blocks in epoll_wait while a functor is queued, the
\* eventfd is readable or some thread is on its way to write it: no functor
\* waits for the poll timeout because a wake-up was skipped or eaten.
NoLostWakeUp ==
    io = "poll" /\ funcs_ # <<>> =>
        wake_up_fd_ > 0 \/ \E t \in AllThreads : waking[t]

\* The functor list is a serial executor: what QueueInLoop accepts runs once
\* and in the order of the pushes, the local vector of DoRunInLoopFuncs
\* included.
Executor == INSTANCE TaskQueue WITH Tasks <- Funcs,
                                    pending <- tmp_funcs \o funcs_,
                                    started <- ran
FunctorsRunInOrder == Executor!Spec

\* Every queued functor runs, unless the loop is quit; under Spec it does so
\* without the help of the poll timeout.
QueuedFuncRuns ==
    \A f \in Funcs :
        f \in Range(funcs_) /\ looping_ ~> f \in Range(ran) \/ ~looping_

=============================================================================
