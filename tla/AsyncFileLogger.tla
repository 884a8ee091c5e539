--------------------------- MODULE AsyncFileLogger ---------------------------
(***************************************************************************)
(* AsyncFileLogger (water/base/async_file_logger.{h,cc}): any thread       *)
(* appends log lines to a buffer; full buffers wait in a queue for the log *)
(* thread, which writes them to a file and recycles one of them.           *)
(*                                                                         *)
(* Messages are numbered in the order in which Output takes them.  Lengths *)
(* are abstracted: a message may be longer than any buffer, it may or may  *)
(* not fit into a buffer that is not empty, a file may or may not have     *)
(* grown over its limit.                                                   *)
(*                                                                         *)
(* mut_ is held across steps only between the log thread's test of what it *)
(* waits for and its wait, that is while thread = "tested": every other    *)
(* critical section is one step.  The destructor sets stop_flag_ and       *)
(* notifies without mut_.                                                  *)
(*                                                                         *)
(* The log thread empties write_buffers_ without mut_ while others push.   *)
(* The steps here are those of a std::deque whose two ends are independent;*)
(* what the race may do to its map of blocks is not modelled.              *)
(***************************************************************************)
EXTENDS Naturals, Sequences, SequencesExt, FiniteSets, FiniteSetsExt

CONSTANTS MaxQueue,     \* 25 in the code
          StopFlagInit, \* what stop_flag_, never initialised, may hold
          FopenFails,   \* whether fopen may fail
          MaxMsgs       \* bound of the model

ASSUME AsyncFileLoggerAssumption ==
    /\ MaxQueue \in Nat
    /\ StopFlagInit \in SUBSET BOOLEAN
    /\ FopenFails \in BOOLEAN
    /\ MaxMsgs \in Nat

VARIABLES
    log_buffer_,    \* *log_buffer_ptr_
    next_buffer_,   \* next_buffer_ptr_ is not null; the buffer is empty
    write_buffers_, tmp_buffers_,
    stop_flag_, lost_counter_,
    logger_file_,   \* "none", "open" or "failed" (fp_ is null)
    thread,         \* where LogThreadFunc is
    in_hand,        \* its local tmp_ptr
    dtor,           \* how far the destructor is
    count,          \* messages Output was called with so far
    oversized,      \* history: those it ignored, being longer than a buffer
    lost,           \* history: those it dropped, the queue being too long
    reported,       \* history: how many drops it has put into a buffer's text
    file,           \* what the log files hold, oldest first
    unwritten       \* history: those in buffers written to a failed file

buffers == <<log_buffer_, next_buffer_, write_buffers_, tmp_buffers_>>
counters == <<count, oversized, lost_counter_, lost, reported>>
output == <<logger_file_, file, unwritten>>
vars == <<buffers, stop_flag_, counters, output, thread, in_hand, dtor>>

Init ==
    /\ log_buffer_ = <<>>
    /\ next_buffer_ = TRUE
    /\ write_buffers_ = <<>>
    /\ tmp_buffers_ = <<>>
    /\ stop_flag_ \in StopFlagInit
    /\ lost_counter_ = 0
    /\ logger_file_ = "none"
    /\ thread = "none"
    /\ in_hand = <<>>
    /\ dtor = "alive"
    /\ count = 0
    /\ oversized = {}
    /\ lost = {}
    /\ reported = 0
    /\ file = <<>>
    /\ unwritten = {}

MutexFree == thread # "tested"

Notified == IF thread = "waiting" THEN "locking" ELSE thread

-----------------------------------------------------------------------------
(* The operations of the logging threads.                                  *)

StartLogging ==
    /\ thread = "none"
    /\ dtor = "alive"
    /\ thread' = "top"
    /\ UNCHANGED <<buffers, stop_flag_, counters, output, in_hand, dtor>>

AppendOverLimit(buf) ==
    /\ count' = count + 1
    /\ reported' = reported + lost_counter_
    /\ lost_counter_' = 0
    /\ log_buffer_' = Append(buf, count')
    /\ UNCHANGED <<oversized, lost>>

\* The message goes into buf, unless the queue would be too long; what was
\* dropped before is reported in front of it.
AppendTo(buf) ==
    /\ count' = count + 1
    /\ UNCHANGED oversized
    /\ \/ /\ Len(write_buffers_') > MaxQueue
          /\ lost_counter_' = lost_counter_ + 1
          /\ lost' = lost \cup {count'}
          /\ log_buffer_' = buf
          /\ UNCHANGED reported
       \/ /\ Len(write_buffers_') <= MaxQueue
          /\ reported' = reported + lost_counter_
          /\ lost_counter_' = 0
          /\ log_buffer_' = Append(buf, count')
          /\ UNCHANGED lost

\* A message longer than a buffer: Output returns before it does anything, its
\* count of the lost included.
IgnoreOversized ==
    /\ count' = count + 1
    /\ oversized' = oversized \cup {count'}
    /\ UNCHANGED <<log_buffer_, next_buffer_, write_buffers_, lost_counter_, lost,
                   reported, thread>>

Output ==
    /\ dtor = "alive"
    /\ MutexFree
    /\ count < MaxMsgs
    /\ \/ IgnoreOversized
       \/ /\ UNCHANGED <<write_buffers_, next_buffer_, thread>>
          /\ AppendTo(log_buffer_)
       \/ /\ log_buffer_ # <<>>
          /\ write_buffers_' = Append(write_buffers_, log_buffer_)
          /\ next_buffer_' = FALSE
          /\ thread' = Notified
          /\ AppendTo(<<>>)
    /\ UNCHANGED <<tmp_buffers_, stop_flag_, output, in_hand, dtor>>

FlushAlways ==
    /\ dtor = "alive"
    /\ MutexFree
    /\ write_buffers_' = Append(write_buffers_, log_buffer_)
    /\ next_buffer_' = FALSE
    /\ log_buffer_' = <<>>
    /\ thread' = Notified
    /\ UNCHANGED <<tmp_buffers_, stop_flag_, counters, output, in_hand, dtor>>

\* The next buffer, or a new one, replaces the log buffer, which is queued.
SwapBuffer == next_buffer_' = FALSE /\ log_buffer_' = <<>>

Flush ==
    /\ dtor = "alive"
    /\ MutexFree
    /\ log_buffer_ # <<>>
    /\ SwapBuffer
    /\ write_buffers_' = Append(write_buffers_, log_buffer_)
    /\ thread' = Notified
    /\ UNCHANGED <<tmp_buffers_, stop_flag_, counters, output, in_hand, dtor>>

-----------------------------------------------------------------------------
(* LogThreadFunc.                                                          *)

CheckStop ==
    /\ thread = "top"
    /\ thread' = IF stop_flag_ THEN "exited" ELSE "locking"
    /\ UNCHANGED <<buffers, stop_flag_, counters, output, in_hand, dtor>>

\* tmp_buffers_.swap(write_buffers_), given what write_buffers_ holds by then.
TakeBuffersDropping(queue) ==
    /\ tmp_buffers_' = queue
    /\ write_buffers_' = <<>>
    /\ thread' = "draining"

TakeBuffers(queue) ==
    /\ tmp_buffers_' = queue
    /\ write_buffers_' = tmp_buffers_
    /\ thread' = "draining"

\* It keeps the mutex if it is going to wait.
LockAndTest ==
    /\ thread = "locking"
    /\ \/ /\ write_buffers_ = <<>> /\ ~stop_flag_
          /\ thread' = "tested"
          /\ UNCHANGED <<tmp_buffers_, write_buffers_>>
       \/ /\ write_buffers_ # <<>> \/ stop_flag_
          /\ TakeBuffers(write_buffers_)
    /\ UNCHANGED <<log_buffer_, next_buffer_, stop_flag_, counters, output,
                   in_hand, dtor>>

\* wait_for releases the mutex and blocks, whatever became of stop_flag_ since
\* the test; a notification before this step has found nobody waiting.
Wait ==
    /\ thread = "tested"
    /\ thread' = "waiting"
    /\ UNCHANGED <<buffers, stop_flag_, counters, output, in_hand, dtor>>

SpuriousWakeUp ==
    /\ thread = "waiting"
    /\ thread' = "locking"
    /\ UNCHANGED <<buffers, stop_flag_, counters, output, in_hand, dtor>>

WaitNeverTimesOut ==
    /\ thread = "waiting"
    /\ FALSE
    /\ UNCHANGED vars

\* wait_for runs out; the mutex may be with others then.
WaitTimesOut ==
    /\ thread = "waiting"
    /\ thread' = "timed_out"
    /\ UNCHANGED <<buffers, stop_flag_, counters, output, in_hand, dtor>>

TimeoutWithoutSwap ==
    /\ thread = "timed_out"
    /\ TakeBuffers(write_buffers_)
    /\ UNCHANGED <<log_buffer_, next_buffer_, stop_flag_, counters, output,
                   in_hand, dtor>>

\* With the mutex again: the buffers swap if there is anything, and out of the loop,
\* whatever was queued in the meantime.
AfterTimeout ==
    /\ thread = "timed_out"
    /\ \/ /\ log_buffer_ # <<>>
          /\ SwapBuffer
          /\ TakeBuffers(Append(write_buffers_, log_buffer_))
       \/ /\ log_buffer_ = <<>>
          /\ TakeBuffers(write_buffers_)
          /\ UNCHANGED <<log_buffer_, next_buffer_>>
    /\ UNCHANGED <<stop_flag_, counters, output, in_hand, dtor>>

PopBack ==
    /\ in_hand' = Last(write_buffers_)
    /\ write_buffers_' = Front(write_buffers_)

PopFront ==
    /\ in_hand' = Head(write_buffers_)
    /\ write_buffers_' = Tail(write_buffers_)

PopBuffer ==
    /\ thread = "draining"
    /\ \/ /\ write_buffers_ # <<>>
          /\ PopFront
          /\ thread' = "writing"
       \/ /\ write_buffers_ = <<>>
          /\ thread' = "top"
          /\ UNCHANGED <<in_hand, write_buffers_>>
    /\ UNCHANGED <<log_buffer_, next_buffer_, tmp_buffers_, stop_flag_,
                   counters, output, dtor>>

\* What becomes of a new LoggerFile.
LoggerFile == {"open"} \cup (IF FopenFails THEN {"failed"} ELSE {})

\* One that could not be opened writes nothing.
WriteLog(logger, buf) ==
    IF logger = "failed"
      THEN unwritten' = unwritten \cup ToSet(buf) /\ UNCHANGED file
      ELSE file' = file \o buf /\ UNCHANGED unwritten

\* One that could not be opened stays: its length is 0 forever.
TooLong(logger) == {FALSE, logger = "open"}

\* Opens a file if there is none.  One that is too long is closed and renamed.
WriteLogToFile(buf) ==
    \E logger \in IF logger_file_ = "none" THEN LoggerFile ELSE {logger_file_} :
        /\ WriteLog(logger, buf)
        /\ \E long \in TooLong(logger) :
             logger_file_' = IF long THEN "none" ELSE logger

\* tmp_ptr is written and cleared.
WriteInHand ==
    /\ thread = "writing"
    /\ WriteLogToFile(in_hand)
    /\ in_hand' = <<>>
    /\ thread' = "recycling"
    /\ UNCHANGED <<buffers, stop_flag_, counters, dtor>>

Recycle ==
    /\ thread = "recycling"
    /\ next_buffer_' = TRUE
    /\ thread' = "draining"
    /\ UNCHANGED <<log_buffer_, write_buffers_, tmp_buffers_, stop_flag_,
                   counters, output, in_hand, dtor>>

-----------------------------------------------------------------------------
(* The destructor.                                                         *)

SetStop ==
    /\ dtor = "alive"
    /\ stop_flag_' = TRUE
    /\ dtor' = IF thread = "none" THEN "joined" ELSE "stopping"
    /\ UNCHANGED <<buffers, counters, output, thread, in_hand>>

NotifyAll ==
    /\ dtor = "stopping"
    /\ thread' = Notified
    /\ dtor' = "joining"
    /\ UNCHANGED <<buffers, stop_flag_, counters, output, in_hand>>

Join ==
    /\ dtor = "joining"
    /\ thread = "exited"
    /\ dtor' = "joined"
    /\ UNCHANGED <<buffers, stop_flag_, counters, output, thread, in_hand>>

\* The log buffer is queued, and one buffer of the queue is written.
WriteRest ==
    /\ dtor = "joined"
    /\ dtor' = "destroyed"
    /\ LET queue == IF log_buffer_ = <<>> THEN write_buffers_
                    ELSE Append(write_buffers_, log_buffer_)
       IN  IF queue = <<>>
             THEN UNCHANGED <<write_buffers_, output>>
             ELSE /\ WriteLogToFile(Head(queue))
                  /\ write_buffers_' = Tail(queue)
    /\ log_buffer_' = <<>>
    /\ UNCHANGED <<next_buffer_, tmp_buffers_, stop_flag_, counters, thread,
                   in_hand>>

LogThreadStep ==
    \/ CheckStop
    \/ LockAndTest
    \/ Wait
    \/ AfterTimeout
    \/ PopBuffer
    \/ WriteInHand
    \/ Recycle

DestructorStep == NotifyAll \/ Join \/ WriteRest

Next ==
    \/ StartLogging
    \/ Output
    \/ Flush
    \/ LogThreadStep
    \/ SpuriousWakeUp
    \/ WaitTimesOut
    \/ SetStop
    \/ DestructorStep

\* The threads are scheduled, and the timed wait ends: it is not interrupted by
\* spurious wake-ups, after which it begins anew, forever.
Spec ==
    /\ Init
    /\ [][Next]_vars
    /\ WF_vars(LogThreadStep)
    /\ SF_vars(WaitTimesOut)
    /\ WF_vars(DestructorStep)

-----------------------------------------------------------------------------
(* Properties.                                                             *)

\* The type of every variable; only the log thread's own step has a buffer in
\* hand, and no buffer in a queue is empty.
TypeOK ==
    /\ log_buffer_ \in Seq(Nat)
    /\ next_buffer_ \in BOOLEAN
    /\ write_buffers_ \in Seq(Seq(Nat) \ {<<>>})
    /\ tmp_buffers_ \in Seq(Seq(Nat) \ {<<>>})
    /\ stop_flag_ \in BOOLEAN
    /\ lost_counter_ \in Nat
    /\ logger_file_ \in {"none", "open", "failed"}
    /\ thread \in {"none", "top", "locking", "tested", "waiting", "timed_out",
                   "draining", "writing", "recycling", "exited"}
    /\ in_hand \in Seq(Nat)
    /\ dtor \in {"alive", "stopping", "joining", "joined", "destroyed"}
    /\ count \in 0 .. MaxMsgs
    /\ oversized \in SUBSET (1 .. MaxMsgs)
    /\ lost \in SUBSET (1 .. MaxMsgs)
    /\ reported \in Nat
    /\ file \in Seq(Nat)
    /\ unwritten \in SUBSET (1 .. MaxMsgs)
    /\ in_hand # <<>> <=> thread = "writing"

\* Where lines are: in queues of buffers, those of one buffer included.
Held == [file |-> <<file>>, tmp |-> tmp_buffers_, hand |-> <<in_hand>>,
         queue |-> write_buffers_, log |-> <<log_buffer_>>]

\* A place is a line of a buffer of one of them.
Places ==
    UNION {UNION {{<<w, b, i>> : i \in DOMAIN Held[w][b]} : b \in DOMAIN Held[w]}
           : w \in DOMAIN Held}

Line(p) == Held[p[1]][p[2]][p[3]]
LinesIn(where) == {Line(p) : p \in {q \in Places : q[1] \in where}}
InBuffers == LinesIn({"tmp", "hand", "queue", "log"})

\* Messages that Output did not take.
Dropped == oversized \cup lost

\* While the logger exists, every message is in exactly one place, once: in a
\* buffer, in a file, in the text a failed file swallowed, or dropped by Output.
\* It is dropped for one reason: because it was longer than a buffer, of which
\* the logger keeps no account, or because the queue was too long; and of the
\* latter, those not yet put into the text are in lost_counter_.
NothingUnaccounted ==
    dtor # "destroyed" =>
        /\ \A p, q \in Places : Line(p) = Line(q) => p = q
        /\ LinesIn(DOMAIN Held) \cup unwritten \cup Dropped = 1 .. count
        /\ LinesIn(DOMAIN Held) \cap (unwritten \cup Dropped) = {}
        /\ unwritten \cap Dropped = {}
        /\ oversized \cap lost = {}
        /\ Cardinality(lost) = lost_counter_ + reported

\* How many full buffers can pile up: the limit is tested after the push, and
\* the swap brings a second queue into play.
QueueBound ==
    /\ Len(write_buffers_) <= MaxQueue + 2
    /\ Len(tmp_buffers_) <= MaxQueue + 1

\* How far the file may be out of order: the swap makes the buffers it takes
\* wait in tmp_buffers_ while others, queued after them, are written.  When a
\* line is written, every older one that is not is waiting there: none waits
\* twice.
OvertakenWaitInTmp ==
    [][\A n \in ToSet(file') \ ToSet(file), m \in InBuffers' :
         m < n => m \in LinesIn({"tmp"})]_vars

\* With the log thread running, what Output took gets into the file (or
\* into one that could not be opened), even if nothing is logged or flushed any
\* more: unless the logger is destroyed, or stop_flag_ happened to be true when
\* the thread started.
LogReachesFile ==
    \A m \in 1 .. MaxMsgs :
        thread # "none" /\ m \in InBuffers
            ~> m \in ToSet(file) \cup unwritten \/ stop_flag_

\* The destructor comes to its end: stop_flag_ and the notification, neither of
\* them under mut_, may come between the log thread's test and its wait, and the
\* notification is missed; then the timeout ends the wait.
DestructorReturns == dtor # "alive" ~> dtor = "destroyed"

\* When the logger is gone, everything that Output took is in the file.
NothingLeftBehind ==
    dtor = "destroyed" => \A m \in 1 .. count : m \in Dropped \cup ToSet(file)

=============================================================================
