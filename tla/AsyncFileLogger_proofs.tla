----------------------- MODULE AsyncFileLogger_proofs -----------------------
(***************************************************************************)
(* Theorems about AsyncFileLogger, for every limit of the queue and every  *)
(* number of messages.                                                     *)
(*                                                                         *)
(* QueueBound is not inductive: a push is not guarded by the length of the *)
(* queue.  What bounds it is that a push needs a log buffer with something *)
(* in it, and nothing is put into that buffer while the queue is too long. *)
(* So the queue can only outgrow its limit once in each of the two phases  *)
(* of the log thread: before the swap, and again after it, when the queue  *)
(* may be what the last swap parked in tmp_buffers_.                       *)
(*                                                                         *)
(* For the messages there are two facts about all the places that hold     *)
(* one: none is held twice (Once), and each sequence is in the order of    *)
(* logging (Sorted).  Every hand-over, a push, the swap, a pop, a write,   *)
(* is a lemma about the values before and after it.                        *)
(***************************************************************************)
EXTENDS AsyncFileLogger, FiniteSetTheorems, SequenceTheorems, TLAPS

Messages == 1 .. MaxMsgs
FullBuffers == Seq(Messages) \ {<<>>}

\* Where the log thread is before it swaps the queues.
BeforeSwap ==
    {"none", "top", "locking", "tested", "waiting", "timed_out", "exited"}
AfterSwap == {"draining", "writing", "recycling"}

BuffersTyped ==
    /\ log_buffer_ \in Seq(Messages)
    /\ next_buffer_ \in BOOLEAN
    /\ write_buffers_ \in Seq(FullBuffers)
    /\ tmp_buffers_ \in Seq(FullBuffers)

CountersTyped ==
    /\ count \in 0 .. MaxMsgs
    /\ lost_counter_ \in Nat
    /\ oversized \in SUBSET Messages
    /\ lost \in SUBSET Messages
    /\ reported \in Nat

OutputTyped ==
    /\ logger_file_ \in {"none", "open", "failed"}
    /\ file \in Seq(Messages)
    /\ unwritten \in SUBSET Messages

ControlTyped ==
    /\ stop_flag_ \in BOOLEAN
    /\ dtor \in {"alive", "stopping", "joining", "joined", "destroyed"}
    /\ thread \in BeforeSwap \cup AfterSwap
    /\ in_hand \in Seq(Messages)
    /\ in_hand # <<>> <=> thread = "writing"

\* How far the queue may be over its limit.
Excess == IF thread \in BeforeSwap THEN 1 ELSE 2

\* A queue with the whole excess comes with an empty log buffer: none is pushed.
QueueLimit ==
    /\ Len(write_buffers_) <= MaxQueue + Excess
    /\ log_buffer_ # <<>> => Len(write_buffers_) < MaxQueue + Excess
    /\ Len(tmp_buffers_) <= MaxQueue + 1

IInv ==
    /\ BuffersTyped
    /\ CountersTyped
    /\ OutputTyped
    /\ ControlTyped
    /\ QueueLimit

-----------------------------------------------------------------------------
(* The sequences.                                                          *)

\* Pushing a buffer with something in it.
LEMMA PushBuffer ==
    ASSUME NEW queue \in Seq(FullBuffers), NEW buf \in Seq(Messages), buf # <<>>
    PROVE  /\ Append(queue, buf) \in Seq(FullBuffers)
           /\ Len(Append(queue, buf)) = Len(queue) + 1
<1>1. buf \in FullBuffers
    BY DEF FullBuffers
<1> QED
    BY <1>1, AppendProperties

\* Taking the front one of a queue.
LEMMA PopBufferProperties ==
    ASSUME NEW queue \in Seq(FullBuffers), queue # <<>>
    PROVE  /\ Head(queue) \in Seq(Messages)
           /\ Head(queue) # <<>>
           /\ Tail(queue) \in Seq(FullBuffers)
           /\ Len(Tail(queue)) = Len(queue) - 1
<1>1. Head(queue) \in FullBuffers
    BY HeadTailProperties
<1> QED
    BY <1>1, HeadTailProperties DEF FullBuffers

LEMMA EmptySequences ==
    /\ <<>> \in Seq(Messages)
    /\ <<>> \in Seq(FullBuffers)
    /\ Len(<<>>) = 0
    BY EmptySeq

LEMMA QueueLengths ==
    ASSUME BuffersTyped
    PROVE  /\ Len(write_buffers_) \in Nat
           /\ Len(tmp_buffers_) \in Nat
    BY LenProperties DEF BuffersTyped

LEMMA MessagesOf ==
    ASSUME NEW buf \in Seq(Messages)
    PROVE  ToSet(buf) \in SUBSET Messages
<1>1. \A i \in DOMAIN buf : buf[i] \in Messages
    BY LenProperties, ElementOfSeq
<1> QED
    BY <1>1 DEF ToSet

-----------------------------------------------------------------------------
(* What the actions are built from.                                        *)

\* A new log buffer has something in it only under a queue that is not too long.
LEMMA AppendToProperties ==
    ASSUME CountersTyped, count < MaxMsgs,
           NEW buf \in Seq(Messages), AppendTo(buf)
    PROVE  /\ CountersTyped'
           /\ log_buffer_' \in Seq(Messages)
           /\ log_buffer_' # buf => Len(write_buffers_') <= MaxQueue
<1>1. /\ count' \in 0 .. MaxMsgs
      /\ count' \in Messages
    BY AsyncFileLoggerAssumption DEF AppendTo, CountersTyped, Messages
<1>2. Append(buf, count') \in Seq(Messages)
    BY <1>1, AppendProperties
<1>3. CASE /\ lost_counter_' = lost_counter_ + 1
           /\ lost' = lost \cup {count'}
           /\ log_buffer_' = buf
           /\ UNCHANGED reported
  <2>1. lost' \in SUBSET Messages
      BY <1>1, <1>3 DEF CountersTyped
  <2> QED
      BY <1>1, <1>3, <2>1 DEF CountersTyped, AppendTo
<1>4. CASE /\ Len(write_buffers_') <= MaxQueue
           /\ reported' = reported + lost_counter_
           /\ lost_counter_' = 0
           /\ log_buffer_' = Append(buf, count')
           /\ UNCHANGED lost
    BY <1>1, <1>2, <1>4 DEF CountersTyped, AppendTo
<1> QED
    BY <1>3, <1>4 DEF AppendTo

LEMMA WriteLogToFileTyped ==
    ASSUME OutputTyped, NEW buf \in Seq(Messages), WriteLogToFile(buf)
    PROVE  OutputTyped'
<1>1. PICK logger \in {"open", "failed"} :
        /\ WriteLog(logger, buf)
        /\ \E long \in TooLong(logger) :
             logger_file_' = IF long THEN "none" ELSE logger
    BY DEF WriteLogToFile, LoggerFile, OutputTyped
<1>2. logger_file_' \in {"none", "open", "failed"}
    BY <1>1
<1>3. file \o buf \in Seq(Messages)
    BY ConcatProperties DEF OutputTyped
<1>4. unwritten \cup ToSet(buf) \in SUBSET Messages
    BY MessagesOf DEF OutputTyped
<1> QED
    BY <1>1, <1>2, <1>3, <1>4 DEF WriteLog, OutputTyped

\* The swap, given a queue that has not outgrown its limit twice.
LEMMA TakeBuffersProperties ==
    ASSUME BuffersTyped, QueueLimit,
           NEW queue \in Seq(FullBuffers), Len(queue) <= MaxQueue + 1,
           TakeBuffers(queue)
    PROVE  /\ write_buffers_' \in Seq(FullBuffers)
           /\ tmp_buffers_' \in Seq(FullBuffers)
           /\ QueueLimit'
<1>1. thread' \notin BeforeSwap
    BY DEF TakeBuffers, BeforeSwap
<1>2. Excess' = 2
    BY <1>1 DEF Excess
<1> QED
    BY <1>2, QueueLengths, AsyncFileLoggerAssumption
    DEF TakeBuffers, BuffersTyped, QueueLimit

LEMMA ExcessIsSmall == Excess \in {1, 2} /\ (thread \in BeforeSwap => Excess = 1)
    BY DEF Excess

\* Steps of the log thread that stay in their phase leave the limit alone.
LEMMA QueueLimitKept ==
    ASSUME QueueLimit, UNCHANGED buffers, thread' = thread \/
           (thread \in BeforeSwap /\ thread' \in BeforeSwap) \/
           (thread \notin BeforeSwap /\ thread' \notin BeforeSwap)
    PROVE  QueueLimit'
<1>1. Excess' = Excess
    BY DEF Excess
<1> QED
    BY <1>1 DEF QueueLimit, buffers

\* Notifying wakes the log thread up; it swaps nothing by that.
LEMMA NotifiedProperties ==
    ASSUME ControlTyped, thread' = Notified, in_hand' = in_hand
    PROVE  /\ thread' \in BeforeSwap \cup AfterSwap
           /\ in_hand' # <<>> <=> thread' = "writing"
           /\ Excess' = Excess
<1>1. CASE thread = "waiting"
    BY <1>1 DEF ControlTyped, Notified, Excess, BeforeSwap
<1>2. CASE thread # "waiting"
    BY <1>2 DEF ControlTyped, Notified, Excess
<1> QED
    BY <1>1, <1>2

-----------------------------------------------------------------------------
LEMMA InitIInv == Init => IInv
<1> SUFFICES ASSUME Init PROVE IInv
    OBVIOUS
<1>1. BuffersTyped
    BY EmptySequences DEF Init, BuffersTyped
<1>2. CountersTyped
    BY AsyncFileLoggerAssumption DEF Init, CountersTyped
<1>3. OutputTyped
    BY EmptySequences DEF Init, OutputTyped
<1>4. ControlTyped
    BY EmptySequences, AsyncFileLoggerAssumption
    DEF Init, ControlTyped, BeforeSwap
<1>5. QueueLimit
    BY EmptySequences, ExcessIsSmall, AsyncFileLoggerAssumption
    DEF Init, QueueLimit
<1> QED
    BY <1>1, <1>2, <1>3, <1>4, <1>5 DEF IInv

\* The operations of the logging threads.
LEMMA OutputIInv == IInv /\ Output => IInv'
<1> SUFFICES ASSUME IInv, Output PROVE IInv'
    OBVIOUS
<1>1. /\ BuffersTyped /\ CountersTyped /\ OutputTyped /\ ControlTyped
      /\ QueueLimit /\ count < MaxMsgs
    BY DEF IInv, Output
<1>2. UNCHANGED <<tmp_buffers_, stop_flag_, output, in_hand, dtor>>
    BY DEF Output
<1>3. OutputTyped'
    BY <1>1, <1>2 DEF OutputTyped, output
<1>4. MaxQueue \in Nat /\ Excess \in {1, 2}
    BY AsyncFileLoggerAssumption, ExcessIsSmall
<1>5. CASE /\ UNCHANGED <<write_buffers_, next_buffer_, thread>>
           /\ AppendTo(log_buffer_)
  <2>1. /\ CountersTyped'
        /\ log_buffer_' \in Seq(Messages)
        /\ log_buffer_' # log_buffer_ => Len(write_buffers_') <= MaxQueue
      BY <1>1, <1>5, AppendToProperties DEF BuffersTyped
  <2>2. BuffersTyped'
      BY <1>1, <1>2, <1>5, <2>1 DEF BuffersTyped
  <2>3. ControlTyped'
      BY <1>1, <1>2, <1>5 DEF ControlTyped
  <2>4. Excess' = Excess
      BY <1>5 DEF Excess
  <2>5. QueueLimit'
    <3>1. CASE log_buffer_' = log_buffer_
        BY <1>1, <1>2, <1>5, <2>4, <3>1 DEF QueueLimit
    <3>2. CASE log_buffer_' # log_buffer_
        BY <1>1, <1>2, <1>4, <1>5, <2>1, <2>4, <3>2, QueueLengths DEF QueueLimit
    <3> QED
        BY <3>1, <3>2
  <2> QED
      BY <1>3, <2>1, <2>2, <2>3, <2>5 DEF IInv
<1>6. CASE /\ log_buffer_ # <<>>
           /\ write_buffers_' = Append(write_buffers_, log_buffer_)
           /\ next_buffer_' = FALSE
           /\ thread' = Notified
           /\ AppendTo(<<>>)
  <2>1. /\ CountersTyped'
        /\ log_buffer_' \in Seq(Messages)
        /\ log_buffer_' # <<>> => Len(write_buffers_') <= MaxQueue
      BY <1>1, <1>6, EmptySequences, AppendToProperties
  <2>2. /\ write_buffers_' \in Seq(FullBuffers)
        /\ Len(write_buffers_') = Len(write_buffers_) + 1
      BY <1>1, <1>6, PushBuffer DEF BuffersTyped
  <2>3. BuffersTyped'
      BY <1>1, <1>2, <1>6, <2>1, <2>2 DEF BuffersTyped
  <2>4. /\ thread' \in BeforeSwap \cup AfterSwap
        /\ in_hand' # <<>> <=> thread' = "writing"
        /\ Excess' = Excess
      BY <1>1, <1>2, <1>6, NotifiedProperties
  <2>5. ControlTyped'
      BY <1>1, <1>2, <2>4 DEF ControlTyped
  <2>6. QueueLimit'
      BY <1>1, <1>2, <1>4, <1>6, <2>1, <2>2, <2>4, QueueLengths DEF QueueLimit
  <2> QED
      BY <1>3, <2>1, <2>3, <2>5, <2>6 DEF IInv
<1>7. CASE IgnoreOversized
  <2>1. count' \in 0 .. MaxMsgs /\ count' \in Messages
      BY <1>1, <1>7, AsyncFileLoggerAssumption
      DEF IgnoreOversized, CountersTyped, Messages
  <2>2. oversized' \in SUBSET Messages
      BY <1>1, <1>7, <2>1 DEF IgnoreOversized, CountersTyped
  <2>3. CountersTyped'
      BY <1>1, <1>7, <2>1, <2>2 DEF IgnoreOversized, CountersTyped
  <2>4. UNCHANGED buffers /\ thread' = thread
      BY <1>2, <1>7 DEF IgnoreOversized, buffers
  <2>5. BuffersTyped' /\ ControlTyped' /\ QueueLimit'
      BY <1>1, <1>2, <2>4, QueueLimitKept DEF BuffersTyped, ControlTyped, buffers
  <2> QED
      BY <1>3, <2>3, <2>5 DEF IInv
<1> QED
    BY <1>5, <1>6, <1>7 DEF Output

LEMMA FlushIInv == IInv /\ Flush => IInv'
<1> SUFFICES ASSUME IInv, Flush PROVE IInv'
    OBVIOUS
<1>1. BuffersTyped /\ CountersTyped /\ OutputTyped /\ ControlTyped /\ QueueLimit
    BY DEF IInv
<1>2. /\ write_buffers_' = Append(write_buffers_, log_buffer_)
      /\ log_buffer_ # <<>> /\ log_buffer_' = <<>> /\ next_buffer_' = FALSE
      /\ thread' = Notified
      /\ UNCHANGED <<tmp_buffers_, stop_flag_, counters, output, in_hand, dtor>>
    BY DEF Flush, SwapBuffer
<1>3. /\ write_buffers_' \in Seq(FullBuffers)
      /\ Len(write_buffers_') = Len(write_buffers_) + 1
    BY <1>1, <1>2, PushBuffer DEF BuffersTyped
<1>4. BuffersTyped'
    BY <1>1, <1>2, <1>3, EmptySequences DEF BuffersTyped
<1>5. CountersTyped' /\ OutputTyped'
    BY <1>1, <1>2 DEF CountersTyped, OutputTyped, counters, output
<1>6. /\ thread' \in BeforeSwap \cup AfterSwap
      /\ in_hand' # <<>> <=> thread' = "writing"
      /\ Excess' = Excess
    BY <1>1, <1>2, NotifiedProperties
<1>7. ControlTyped'
    BY <1>1, <1>2, <1>6 DEF ControlTyped
<1>8. QueueLimit'
    BY <1>1, <1>2, <1>3, <1>6, QueueLengths, ExcessIsSmall,
       AsyncFileLoggerAssumption DEF QueueLimit
<1> QED
    BY <1>4, <1>5, <1>7, <1>8 DEF IInv

\* Steps that only move the log thread, or the destructor.
LEMMA ControlIInv ==
    ASSUME IInv, UNCHANGED <<buffers, counters, output, in_hand>>,
           stop_flag_' \in BOOLEAN,
           dtor' \in {"alive", "stopping", "joining", "joined", "destroyed"},
           \/ thread' = thread
           \/ thread \in BeforeSwap /\ thread' \in BeforeSwap
           \/ thread \in {"draining", "recycling"}
                /\ thread' \in {"draining", "recycling"}
    PROVE  IInv'
<1>1. BuffersTyped' /\ CountersTyped' /\ OutputTyped'
    BY DEF IInv, BuffersTyped, CountersTyped, OutputTyped, buffers, counters,
           output
<1>2. ControlTyped'
    BY DEF IInv, ControlTyped, BeforeSwap, AfterSwap
<1>3. QueueLimit'
    BY QueueLimitKept DEF IInv, BeforeSwap
<1> QED
    BY <1>1, <1>2, <1>3 DEF IInv

LEMMA LockAndTestIInv == IInv /\ LockAndTest => IInv'
<1> SUFFICES ASSUME IInv, LockAndTest PROVE IInv'
    OBVIOUS
<1>1. BuffersTyped /\ CountersTyped /\ OutputTyped /\ ControlTyped /\ QueueLimit
    BY DEF IInv
<1>2. /\ thread = "locking"
      /\ UNCHANGED <<log_buffer_, next_buffer_, stop_flag_, counters, output,
                     in_hand, dtor>>
    BY DEF LockAndTest
<1>3. CASE thread' = "tested" /\ UNCHANGED <<tmp_buffers_, write_buffers_>>
  <2>1. UNCHANGED buffers
      BY <1>2, <1>3 DEF buffers
  <2> QED
      BY <1>1, <1>2, <1>3, <2>1, ControlIInv DEF ControlTyped, BeforeSwap
<1>4. CASE TakeBuffers(write_buffers_)
  <2>1. Len(write_buffers_) <= MaxQueue + 1
      BY <1>1, <1>2, ExcessIsSmall DEF QueueLimit, BeforeSwap
  <2>2. /\ write_buffers_' \in Seq(FullBuffers)
        /\ tmp_buffers_' \in Seq(FullBuffers)
        /\ QueueLimit'
      BY <1>1, <1>4, <2>1, TakeBuffersProperties DEF BuffersTyped
  <2>3. BuffersTyped' /\ CountersTyped' /\ OutputTyped'
      BY <1>1, <1>2, <2>2 DEF BuffersTyped, CountersTyped, OutputTyped,
                              counters, output
  <2>4. ControlTyped'
      BY <1>1, <1>2, <1>4 DEF ControlTyped, TakeBuffers, AfterSwap
  <2> QED
      BY <2>2, <2>3, <2>4 DEF IInv
<1> QED
    BY <1>3, <1>4 DEF LockAndTest

LEMMA AfterTimeoutIInv == IInv /\ AfterTimeout => IInv'
<1> SUFFICES ASSUME IInv, AfterTimeout PROVE IInv'
    OBVIOUS
<1>1. BuffersTyped /\ CountersTyped /\ OutputTyped /\ ControlTyped /\ QueueLimit
    BY DEF IInv
<1>2. /\ thread = "timed_out"
      /\ UNCHANGED <<stop_flag_, counters, output, in_hand, dtor>>
    BY DEF AfterTimeout
<1>3. /\ Len(write_buffers_) <= MaxQueue + 1
      /\ log_buffer_ # <<>> => Len(write_buffers_) < MaxQueue + 1
    BY <1>1, <1>2, ExcessIsSmall DEF QueueLimit, BeforeSwap
<1>4. CountersTyped' /\ OutputTyped'
    BY <1>1, <1>2 DEF CountersTyped, OutputTyped, counters, output
<1>5. thread' = "draining"
    BY DEF AfterTimeout, TakeBuffers
<1>6. ControlTyped'
    BY <1>1, <1>2, <1>5 DEF ControlTyped, AfterSwap
<1>7. CASE /\ log_buffer_ # <<>>
           /\ SwapBuffer
           /\ TakeBuffers(Append(write_buffers_, log_buffer_))
  <2> DEFINE queue == Append(write_buffers_, log_buffer_)
  <2>1. queue \in Seq(FullBuffers) /\ Len(queue) = Len(write_buffers_) + 1
      BY <1>1, <1>7, PushBuffer DEF BuffersTyped
  <2>2. Len(queue) <= MaxQueue + 1
      BY <1>1, <1>3, <1>7, <2>1, QueueLengths, AsyncFileLoggerAssumption
  <2>3. /\ write_buffers_' \in Seq(FullBuffers)
        /\ tmp_buffers_' \in Seq(FullBuffers)
        /\ QueueLimit'
      BY <1>1, <1>7, <2>1, <2>2, TakeBuffersProperties
  <2>4. BuffersTyped'
      BY <1>7, <2>3, EmptySequences DEF BuffersTyped, SwapBuffer
  <2> QED
      BY <1>4, <1>6, <2>3, <2>4 DEF IInv
<1>8. CASE /\ TakeBuffers(write_buffers_)
           /\ UNCHANGED <<log_buffer_, next_buffer_>>
  <2>1. /\ write_buffers_' \in Seq(FullBuffers)
        /\ tmp_buffers_' \in Seq(FullBuffers)
        /\ QueueLimit'
      BY <1>1, <1>3, <1>8, TakeBuffersProperties DEF BuffersTyped
  <2>2. BuffersTyped'
      BY <1>1, <1>8, <2>1 DEF BuffersTyped
  <2> QED
      BY <1>4, <1>6, <2>1, <2>2 DEF IInv
<1> QED
    BY <1>7, <1>8 DEF AfterTimeout

LEMMA PopBufferIInv == IInv /\ PopBuffer => IInv'
<1> SUFFICES ASSUME IInv, PopBuffer PROVE IInv'
    OBVIOUS
<1>1. BuffersTyped /\ CountersTyped /\ OutputTyped /\ ControlTyped /\ QueueLimit
    BY DEF IInv
<1>2. /\ thread = "draining"
      /\ UNCHANGED <<log_buffer_, next_buffer_, tmp_buffers_, stop_flag_,
                     counters, output, dtor>>
    BY DEF PopBuffer
<1>3. CountersTyped' /\ OutputTyped'
    BY <1>1, <1>2 DEF CountersTyped, OutputTyped, counters, output
<1>4. CASE write_buffers_ # <<>> /\ PopFront /\ thread' = "writing"
  <2>1. /\ in_hand' \in Seq(Messages) /\ in_hand' # <<>>
        /\ write_buffers_' \in Seq(FullBuffers)
        /\ Len(write_buffers_') = Len(write_buffers_) - 1
      BY <1>1, <1>4, PopBufferProperties DEF BuffersTyped, PopFront
  <2>2. BuffersTyped'
      BY <1>1, <1>2, <2>1 DEF BuffersTyped
  <2>3. ControlTyped'
      BY <1>1, <1>2, <1>4, <2>1 DEF ControlTyped, AfterSwap
  <2>4. Excess' = Excess
      BY <1>2, <1>4 DEF Excess, BeforeSwap
  <2>5. QueueLimit'
      BY <1>1, <1>2, <2>1, <2>4, QueueLengths, ExcessIsSmall,
         AsyncFileLoggerAssumption DEF QueueLimit
  <2> QED
      BY <1>3, <2>2, <2>3, <2>5 DEF IInv
<1>5. CASE /\ write_buffers_ = <<>>
           /\ thread' = "top"
           /\ UNCHANGED <<in_hand, write_buffers_>>
  <2>1. BuffersTyped'
      BY <1>1, <1>2, <1>5 DEF BuffersTyped
  <2>2. ControlTyped'
      BY <1>1, <1>2, <1>5 DEF ControlTyped, BeforeSwap
  <2>3. Excess' = 1
      BY <1>5 DEF Excess, BeforeSwap
  <2>4. Len(write_buffers_') = 0
      BY <1>5, EmptySequences
  <2>5. Len(tmp_buffers_') <= MaxQueue + 1
      BY <1>1, <1>2 DEF QueueLimit
  <2>6. QueueLimit'
      BY <2>3, <2>4, <2>5, AsyncFileLoggerAssumption DEF QueueLimit
  <2> QED
      BY <1>3, <2>1, <2>2, <2>6 DEF IInv
<1> QED
    BY <1>4, <1>5 DEF PopBuffer

LEMMA WriteInHandIInv == IInv /\ WriteInHand => IInv'
<1> SUFFICES ASSUME IInv, WriteInHand PROVE IInv'
    OBVIOUS
<1>1. BuffersTyped /\ CountersTyped /\ OutputTyped /\ ControlTyped /\ QueueLimit
    BY DEF IInv
<1>2. /\ thread = "writing" /\ thread' = "recycling" /\ in_hand' = <<>>
      /\ UNCHANGED <<buffers, stop_flag_, counters, dtor>>
    BY DEF WriteInHand
<1>3. OutputTyped'
    BY <1>1, WriteLogToFileTyped DEF WriteInHand, ControlTyped
<1>4. BuffersTyped' /\ CountersTyped'
    BY <1>1, <1>2 DEF BuffersTyped, CountersTyped, buffers, counters
<1>5. ControlTyped'
    BY <1>1, <1>2, EmptySequences DEF ControlTyped, AfterSwap
<1>6. QueueLimit'
    BY <1>1, <1>2, QueueLimitKept DEF BeforeSwap
<1> QED
    BY <1>3, <1>4, <1>5, <1>6 DEF IInv

LEMMA RecycleIInv == IInv /\ Recycle => IInv'
<1> SUFFICES ASSUME IInv, Recycle PROVE IInv'
    OBVIOUS
<1>1. /\ thread = "recycling" /\ thread' = "draining" /\ next_buffer_' = TRUE
      /\ UNCHANGED <<log_buffer_, write_buffers_, tmp_buffers_, stop_flag_,
                     counters, output, in_hand, dtor>>
    BY DEF Recycle
<1>2. BuffersTyped' /\ CountersTyped' /\ OutputTyped'
    BY <1>1 DEF IInv, BuffersTyped, CountersTyped, OutputTyped, counters, output
<1>3. ControlTyped'
    BY <1>1 DEF IInv, ControlTyped, AfterSwap
<1>4. Excess' = Excess
    BY <1>1 DEF Excess, BeforeSwap
<1>5. QueueLimit'
    BY <1>1, <1>4 DEF IInv, QueueLimit
<1> QED
    BY <1>2, <1>3, <1>5 DEF IInv

LEMMA WriteRestIInv == IInv /\ WriteRest => IInv'
<1> SUFFICES ASSUME IInv, WriteRest PROVE IInv'
    OBVIOUS
<1>1. BuffersTyped /\ CountersTyped /\ OutputTyped /\ ControlTyped /\ QueueLimit
    BY DEF IInv
<1> DEFINE queue == IF log_buffer_ = <<>> THEN write_buffers_
                    ELSE Append(write_buffers_, log_buffer_)
<1>2. /\ dtor' = "destroyed" /\ log_buffer_' = <<>>
      /\ UNCHANGED <<next_buffer_, tmp_buffers_, stop_flag_, counters, thread,
                     in_hand>>
    BY DEF WriteRest
<1>3. /\ queue \in Seq(FullBuffers)
      /\ Len(queue) <= Len(write_buffers_) + 1
    BY <1>1, QueueLengths, PushBuffer DEF BuffersTyped
<1>4. /\ OutputTyped'
      /\ write_buffers_' \in Seq(FullBuffers)
      /\ Len(write_buffers_') <= Len(write_buffers_)
  <2>1. CASE queue = <<>> /\ UNCHANGED <<write_buffers_, output>>
      BY <1>1, <2>1, QueueLengths DEF OutputTyped, output, BuffersTyped
  <2>2. CASE /\ queue # <<>>
             /\ WriteLogToFile(Head(queue))
             /\ write_buffers_' = Tail(queue)
    <3>1. /\ Head(queue) \in Seq(Messages)
          /\ Tail(queue) \in Seq(FullBuffers)
          /\ Len(Tail(queue)) = Len(queue) - 1
        BY <1>3, <2>2, PopBufferProperties
    <3>2. Len(queue) \in Nat
        BY <1>3, LenProperties
    <3> QED
        BY <1>1, <1>3, <2>2, <3>1, <3>2, QueueLengths, WriteLogToFileTyped
  <2> QED
      BY <2>1, <2>2 DEF WriteRest
<1>5. BuffersTyped'
    BY <1>1, <1>2, <1>4, EmptySequences DEF BuffersTyped
<1>6. CountersTyped' /\ ControlTyped'
    BY <1>1, <1>2 DEF CountersTyped, ControlTyped, counters
<1>7. Excess' = Excess
    BY <1>2 DEF Excess
<1>8. QueueLimit'
    BY <1>1, <1>2, <1>4, <1>5, <1>7, QueueLengths, LenProperties, ExcessIsSmall,
       AsyncFileLoggerAssumption DEF QueueLimit, BuffersTyped
<1> QED
    BY <1>4, <1>5, <1>6, <1>8 DEF IInv

LEMMA NextIInv == IInv /\ [Next]_vars => IInv'
<1> SUFFICES ASSUME IInv, [Next]_vars PROVE IInv'
    OBVIOUS
<1> USE DEF BeforeSwap
<1>1. stop_flag_ \in BOOLEAN /\ dtor \in {"alive", "stopping", "joining",
                                          "joined", "destroyed"}
    BY DEF IInv, ControlTyped
<1>2. CASE StartLogging
    BY <1>1, <1>2, ControlIInv DEF StartLogging
<1>3. CASE Output
    BY <1>3, OutputIInv
<1>4. CASE Flush
    BY <1>4, FlushIInv
<1>5. CASE CheckStop
    BY <1>1, <1>5, ControlIInv DEF CheckStop
<1>6. CASE LockAndTest
    BY <1>6, LockAndTestIInv
<1>7. CASE AfterTimeout
    BY <1>7, AfterTimeoutIInv
<1>8. CASE PopBuffer
    BY <1>8, PopBufferIInv
<1>9. CASE WriteInHand
    BY <1>9, WriteInHandIInv
<1>10. CASE Recycle
    BY <1>10, RecycleIInv
<1>11. CASE SpuriousWakeUp
    BY <1>1, <1>11, ControlIInv DEF SpuriousWakeUp
<1>12. CASE WaitTimesOut
    BY <1>1, <1>12, ControlIInv DEF WaitTimesOut
<1>13. CASE SetStop
    BY <1>1, <1>13, ControlIInv DEF SetStop
<1>14. CASE NotifyAll
    BY <1>1, <1>14, ControlIInv DEF NotifyAll, Notified
<1>15. CASE Join
    BY <1>1, <1>15, ControlIInv DEF Join
<1>16. CASE WriteRest
    BY <1>16, WriteRestIInv
<1>17. CASE Wait
    BY <1>1, <1>17, ControlIInv DEF Wait
<1>18. CASE UNCHANGED vars
    BY <1>1, <1>18, ControlIInv DEF vars
<1> QED
    BY <1>2, <1>3, <1>4, <1>5, <1>6, <1>7, <1>8, <1>9, <1>10, <1>11, <1>12,
       <1>13, <1>14, <1>15, <1>16, <1>17, <1>18
    DEF Next, LogThreadStep, DestructorStep

LEMMA IInvTypeOK == IInv => TypeOK
<1> SUFFICES ASSUME IInv PROVE TypeOK
    OBVIOUS
<1>1. Messages \subseteq Nat
    BY AsyncFileLoggerAssumption DEF Messages
<1>2. \A buf \in Seq(Messages) : buf \in Seq(Nat)
    BY <1>1, SeqMonotonic
<1>3. FullBuffers \subseteq Seq(Nat) \ {<<>>}
    BY <1>2 DEF FullBuffers
<1>4. \A queue \in Seq(FullBuffers) : queue \in Seq(Seq(Nat) \ {<<>>})
    BY <1>3, SeqMonotonic
<1>5. /\ log_buffer_ \in Seq(Nat) /\ in_hand \in Seq(Nat) /\ file \in Seq(Nat)
      /\ write_buffers_ \in Seq(Seq(Nat) \ {<<>>})
      /\ tmp_buffers_ \in Seq(Seq(Nat) \ {<<>>})
    BY <1>2, <1>4 DEF IInv, BuffersTyped, ControlTyped, OutputTyped
<1> QED
    BY <1>5 DEF IInv, BuffersTyped, CountersTyped, OutputTyped, ControlTyped,
                BeforeSwap, AfterSwap, Messages, TypeOK

-----------------------------------------------------------------------------
(* Where the lines are.  H and G are values of Held, before and after a move *)
(* of lines; a place is written <<w, b, i>>.                                 *)

Where == {"file", "tmp", "hand", "queue", "log"}

Holdings ==
    {H \in [Where -> Seq(Seq(Nat))] :
        Len(H["file"]) = 1 /\ Len(H["hand"]) = 1 /\ Len(H["log"]) = 1}

At(H, w, b, i) == w \in Where /\ b \in DOMAIN H[w] /\ i \in DOMAIN H[w][b]

Once(H) ==
    \A w1, w2, b1, b2, i1, i2 :
        At(H, w1, b1, i1) /\ At(H, w2, b2, i2) /\ H[w1][b1][i1] = H[w2][b2][i2]
            => w1 = w2 /\ b1 = b2 /\ i1 = i2

\* The order in which the log thread will come to the lines, but for those that
\* wait in tmp_buffers_: they are older than the log buffer only.
Before(w1, b1, i1, w2, b2, i2) ==
    \/ w1 = "hand" /\ w2 \in {"queue", "log"}
    \/ w1 \in {"tmp", "queue"} /\ w2 = "log"
    \/ w1 = w2 /\ w1 # "file" /\ (b1 < b2 \/ (b1 = b2 /\ i1 < i2))

Sorted(H) ==
    \A w1, w2, b1, b2, i1, i2 :
        At(H, w1, b1, i1) /\ At(H, w2, b2, i2) /\ Before(w1, b1, i1, w2, b2, i2)
            => H[w1][b1][i1] < H[w2][b2][i2]

Has(H, m) == \E w, b, i : At(H, w, b, i) /\ H[w][b][i] = m

Same(H, G, ws) == \A w \in ws : G[w] = H[w]

\* A move that neither loses nor repeats a line.
Moved(H, G) == Once(G) /\ Sorted(G) /\ \A m : Has(G, m) <=> Has(H, m)

LEMMA PlaceTypes ==
    ASSUME NEW H \in Holdings
    PROVE  /\ \A w \in Where : H[w] \in Seq(Seq(Nat))
           /\ \A w, b, i : At(H, w, b, i) =>
                b \in Nat /\ i \in Nat /\ H[w][b][i] \in Nat
           /\ \A w \in {"file", "hand", "log"} :
                H[w][1] \in Seq(Nat) /\ DOMAIN H[w] = {1}
<1>1. \A w \in Where : H[w] \in Seq(Seq(Nat))
    BY DEF Holdings
<1>2. ASSUME NEW w, NEW b, NEW i, At(H, w, b, i)
      PROVE  b \in Nat /\ i \in Nat /\ H[w][b][i] \in Nat
  <2>1. H[w] \in Seq(Seq(Nat)) /\ b \in DOMAIN H[w]
      BY <1>1, <1>2 DEF At
  <2>2. H[w][b] \in Seq(Nat) /\ i \in DOMAIN H[w][b]
      BY <1>2, <2>1 DEF At
  <2> QED
      BY <2>1, <2>2
<1>3. ASSUME NEW w \in {"file", "hand", "log"}
      PROVE  H[w][1] \in Seq(Nat) /\ DOMAIN H[w] = {1}
  <2>1. H[w] \in Seq(Seq(Nat)) /\ Len(H[w]) = 1
      BY <1>1, <1>3 DEF Where, Holdings
  <2> QED
      BY <2>1
<1> QED
    BY <1>1, <1>2, <1>3

\* The log buffer is queued.
LEMMA PushMoves ==
    ASSUME NEW H \in Holdings, NEW G, Once(H), Sorted(H),
           G["queue"] = Append(H["queue"], H["log"][1]),
           G["log"] = << <<>> >>,
           Same(H, G, {"file", "tmp", "hand"})
    PROVE  Moved(H, G)
<1> PICK q, l, n : q = H["queue"] /\ l = H["log"][1] /\ n = Len(q) + 1
    OBVIOUS
<1>1. q \in Seq(Seq(Nat)) /\ l \in Seq(Nat) /\ n \in Nat
    BY PlaceTypes DEF Where
<1>2. /\ DOMAIN Append(q, l) = (DOMAIN q) \cup {n}
      /\ n \notin DOMAIN q
      /\ \A b \in DOMAIN q : b \in Nat /\ b < n /\ Append(q, l)[b] = q[b]
      /\ Append(q, l)[n] = l
    BY <1>1
<1>3. /\ G["queue"] = Append(q, l)
      /\ DOMAIN H["log"] = {1} /\ DOMAIN G["log"] = {1} /\ G["log"][1] = <<>>
    BY PlaceTypes
<1>4. ASSUME NEW w, NEW b, NEW i, At(G, w, b, i)
      PROVE  \/ /\ w # "log" /\ At(H, w, b, i) /\ G[w][b][i] = H[w][b][i]
                /\ w = "queue" => b \in Nat /\ b < n
             \/ /\ w = "queue" /\ b = n
                /\ At(H, "log", 1, i) /\ G[w][b][i] = H["log"][1][i]
  <2>1. CASE w = "queue"
      BY <1>2, <1>3, <1>4, <2>1 DEF At, Where
  <2>2. CASE w = "log"
      BY <1>3, <1>4, <2>2 DEF At
  <2>3. CASE w \in {"file", "tmp", "hand"}
      BY <1>4, <2>3 DEF At, Same
  <2> QED
      BY <1>4, <2>1, <2>2, <2>3 DEF At, Where
<1>5. ASSUME NEW w, NEW b, NEW i, At(H, w, b, i)
      PROVE  \/ At(G, w, b, i) /\ G[w][b][i] = H[w][b][i]
             \/ At(G, "queue", n, i) /\ G["queue"][n][i] = H[w][b][i]
  <2>1. CASE w = "queue"
      BY <1>2, <1>3, <1>5, <2>1 DEF At, Where
  <2>2. CASE w = "log"
      BY <1>2, <1>3, <1>5, <2>2 DEF At, Where
  <2>3. CASE w \in {"file", "tmp", "hand"}
      BY <1>5, <2>3 DEF At, Same
  <2> QED
      BY <1>5, <2>1, <2>2, <2>3 DEF At, Where
<1>6. Once(G)
  <2> SUFFICES ASSUME NEW w1, NEW w2, NEW b1, NEW b2, NEW i1, NEW i2,
                      At(G, w1, b1, i1), At(G, w2, b2, i2),
                      G[w1][b1][i1] = G[w2][b2][i2]
               PROVE  w1 = w2 /\ b1 = b2 /\ i1 = i2
      BY DEF Once
  <2>1. CASE w1 = "queue" /\ b1 = n /\ w2 = "queue" /\ b2 = n
    <3>1. /\ At(H, "log", 1, i1) /\ G[w1][b1][i1] = H["log"][1][i1]
          /\ At(H, "log", 1, i2) /\ G[w2][b2][i2] = H["log"][1][i2]
        BY <1>1, <1>4, <2>1
    <3> QED
        BY <2>1, <3>1 DEF Once
  <2>2. CASE w1 = "queue" /\ b1 = n /\ ~(w2 = "queue" /\ b2 = n)
    <3>1. /\ At(H, "log", 1, i1) /\ G[w1][b1][i1] = H["log"][1][i1]
          /\ w2 # "log" /\ At(H, w2, b2, i2) /\ G[w2][b2][i2] = H[w2][b2][i2]
        BY <1>1, <1>4, <2>2
    <3> QED
        BY <3>1 DEF Once
  <2>3. CASE ~(w1 = "queue" /\ b1 = n) /\ w2 = "queue" /\ b2 = n
    <3>1. /\ At(H, "log", 1, i2) /\ G[w2][b2][i2] = H["log"][1][i2]
          /\ w1 # "log" /\ At(H, w1, b1, i1) /\ G[w1][b1][i1] = H[w1][b1][i1]
        BY <1>1, <1>4, <2>3
    <3> QED
        BY <3>1 DEF Once
  <2>4. CASE ~(w1 = "queue" /\ b1 = n) /\ ~(w2 = "queue" /\ b2 = n)
    <3>1. /\ At(H, w1, b1, i1) /\ G[w1][b1][i1] = H[w1][b1][i1]
          /\ At(H, w2, b2, i2) /\ G[w2][b2][i2] = H[w2][b2][i2]
        BY <1>4, <2>4
    <3> QED
        BY <3>1 DEF Once
  <2> QED
      BY <2>1, <2>2, <2>3, <2>4
<1>7. Sorted(G)
  <2> SUFFICES ASSUME NEW w1, NEW w2, NEW b1, NEW b2, NEW i1, NEW i2,
                      At(G, w1, b1, i1), At(G, w2, b2, i2),
                      Before(w1, b1, i1, w2, b2, i2)
               PROVE  G[w1][b1][i1] < G[w2][b2][i2]
      BY DEF Sorted
  <2>1. CASE w1 = "queue" /\ b1 = n
    <3>1. At(H, "log", 1, i1) /\ G[w1][b1][i1] = H["log"][1][i1]
        BY <1>1, <1>4, <2>1
    <3>2. /\ w2 = "queue" /\ b2 = n /\ i1 < i2
          /\ At(H, "log", 1, i2) /\ G[w2][b2][i2] = H["log"][1][i2]
        BY <1>1, <1>4, <2>1 DEF Before
    <3> QED
        BY <3>1, <3>2 DEF Sorted, Before
  <2>2. CASE ~(w1 = "queue" /\ b1 = n) /\ w2 = "queue" /\ b2 = n
    <3>1. /\ At(H, "log", 1, i2) /\ G[w2][b2][i2] = H["log"][1][i2]
          /\ At(H, w1, b1, i1) /\ G[w1][b1][i1] = H[w1][b1][i1]
        BY <1>1, <1>4, <2>2
    <3>2. w1 \in {"hand", "tmp", "queue"}
        BY <2>2 DEF Before
    <3> QED
        BY <3>1, <3>2 DEF Sorted, Before
  <2>3. CASE ~(w1 = "queue" /\ b1 = n) /\ ~(w2 = "queue" /\ b2 = n)
    <3>1. /\ At(H, w1, b1, i1) /\ G[w1][b1][i1] = H[w1][b1][i1]
          /\ At(H, w2, b2, i2) /\ G[w2][b2][i2] = H[w2][b2][i2]
        BY <1>4, <2>3
    <3> QED
        BY <3>1 DEF Sorted
  <2> QED
      BY <2>1, <2>2, <2>3
<1>8. \A m : Has(G, m) <=> Has(H, m)
    BY <1>4, <1>5 DEF Has
<1> QED
    BY <1>6, <1>7, <1>8 DEF Moved

\* The queues are swapped, with no buffer in hand.
LEMMA SwapMoves ==
    ASSUME NEW H \in Holdings, NEW G, Once(H), Sorted(H),
           H["hand"] = << <<>> >>,
           G["queue"] = H["tmp"], G["tmp"] = H["queue"],
           Same(H, G, {"file", "hand", "log"})
    PROVE  Moved(H, G)
<1>1. \A b, i : ~At(G, "hand", b, i)
    BY PlaceTypes DEF At, Same
<1>2. ASSUME NEW w, NEW b, NEW i, At(G, w, b, i)
      PROVE  \/ /\ w \in {"file", "log"}
                /\ At(H, w, b, i) /\ G[w][b][i] = H[w][b][i]
             \/ /\ w = "queue"
                /\ At(H, "tmp", b, i) /\ G[w][b][i] = H["tmp"][b][i]
             \/ /\ w = "tmp"
                /\ At(H, "queue", b, i) /\ G[w][b][i] = H["queue"][b][i]
    BY <1>1, <1>2 DEF At, Where, Same
<1>3. ASSUME NEW w, NEW b, NEW i, At(H, w, b, i)
      PROVE  \E v : At(G, v, b, i) /\ G[v][b][i] = H[w][b][i]
    BY <1>3 DEF At, Where, Same
<1>4. Once(G)
  <2> SUFFICES ASSUME NEW w1, NEW w2, NEW b1, NEW b2, NEW i1, NEW i2,
                      At(G, w1, b1, i1), At(G, w2, b2, i2),
                      G[w1][b1][i1] = G[w2][b2][i2]
               PROVE  w1 = w2 /\ b1 = b2 /\ i1 = i2
      BY DEF Once
  <2> QED
      BY <1>2 DEF Once
<1>5. Sorted(G)
  <2> SUFFICES ASSUME NEW w1, NEW w2, NEW b1, NEW b2, NEW i1, NEW i2,
                      At(G, w1, b1, i1), At(G, w2, b2, i2),
                      Before(w1, b1, i1, w2, b2, i2)
               PROVE  G[w1][b1][i1] < G[w2][b2][i2]
      BY DEF Sorted
  <2> QED
      BY <1>2 DEF Sorted, Before
<1>6. \A m : Has(G, m) <=> Has(H, m)
    BY <1>2, <1>3 DEF Has
<1> QED
    BY <1>4, <1>5, <1>6 DEF Moved

\* The front buffer of the queue is taken in hand.
LEMMA PopMoves ==
    ASSUME NEW H \in Holdings, NEW G, Once(H), Sorted(H),
           H["hand"] = << <<>> >>, H["queue"] # <<>>,
           G["hand"] = <<Head(H["queue"])>>, G["queue"] = Tail(H["queue"]),
           Same(H, G, {"file", "tmp", "log"})
    PROVE  Moved(H, G)
<1> PICK q : q = H["queue"]
    OBVIOUS
<1>1. q \in Seq(Seq(Nat)) /\ q # <<>>
    BY PlaceTypes DEF Where
<1>2. /\ 1 \in DOMAIN q /\ Head(q) = q[1]
      /\ \A b : b \in DOMAIN Tail(q) <=> b \in Nat \ {0} /\ b + 1 \in DOMAIN q
      /\ \A b \in DOMAIN Tail(q) : Tail(q)[b] = q[b + 1]
      /\ \A b \in DOMAIN q : b \in Nat \ {0}
    BY <1>1
<1>3. /\ G["queue"] = Tail(q) /\ DOMAIN G["hand"] = {1} /\ G["hand"][1] = q[1]
      /\ \A b, i : ~At(H, "hand", b, i)
    BY <1>2, PlaceTypes DEF At
<1>4. ASSUME NEW w, NEW b, NEW i, At(G, w, b, i)
      PROVE  \/ /\ w \in {"file", "tmp", "log"}
                /\ At(H, w, b, i) /\ G[w][b][i] = H[w][b][i]
             \/ /\ w = "queue" /\ b \in Nat \ {0}
                /\ At(H, "queue", b + 1, i) /\ G[w][b][i] = H["queue"][b + 1][i]
             \/ /\ w = "hand" /\ b = 1
                /\ At(H, "queue", 1, i) /\ G[w][b][i] = H["queue"][1][i]
  <2>1. CASE w = "queue"
      BY <1>2, <1>3, <1>4, <2>1 DEF At, Where
  <2>2. CASE w = "hand"
      BY <1>2, <1>3, <1>4, <2>2 DEF At, Where
  <2>3. CASE w \in {"file", "tmp", "log"}
      BY <1>4, <2>3 DEF At, Same
  <2> QED
      BY <1>4, <2>1, <2>2, <2>3 DEF At, Where
<1>5. ASSUME NEW w, NEW b, NEW i, At(H, w, b, i)
      PROVE  \E v, c : At(G, v, c, i) /\ G[v][c][i] = H[w][b][i]
  <2>1. CASE w = "queue" /\ b = 1
    <3>1. At(G, "hand", 1, i) /\ G["hand"][1][i] = H[w][b][i]
        BY <1>3, <1>5, <2>1 DEF At, Where
    <3> QED
        BY <3>1
  <2>2. CASE w = "queue" /\ b # 1
    <3>1. b \in DOMAIN q /\ b - 1 \in Nat \ {0} /\ (b - 1) + 1 = b
        BY <1>2, <1>5, <2>2 DEF At
    <3>2. b - 1 \in DOMAIN Tail(q) /\ Tail(q)[b - 1] = q[b]
        BY <1>2, <3>1
    <3>3. At(G, "queue", b - 1, i) /\ G["queue"][b - 1][i] = H[w][b][i]
        BY <1>3, <1>5, <2>2, <3>2 DEF At, Where
    <3> QED
        BY <3>3
  <2>3. CASE w \in {"file", "tmp", "log"}
      BY <1>5, <2>3 DEF At, Same
  <2> QED
      BY <1>3, <1>5, <2>1, <2>2, <2>3 DEF At, Where
<1>6. Once(G)
  <2> SUFFICES ASSUME NEW w1, NEW w2, NEW b1, NEW b2, NEW i1, NEW i2,
                      At(G, w1, b1, i1), At(G, w2, b2, i2),
                      G[w1][b1][i1] = G[w2][b2][i2]
               PROVE  w1 = w2 /\ b1 = b2 /\ i1 = i2
      BY DEF Once
  <2> QED
      BY <1>4 DEF Once
<1>7. Sorted(G)
  <2> SUFFICES ASSUME NEW w1, NEW w2, NEW b1, NEW b2, NEW i1, NEW i2,
                      At(G, w1, b1, i1), At(G, w2, b2, i2),
                      Before(w1, b1, i1, w2, b2, i2)
               PROVE  G[w1][b1][i1] < G[w2][b2][i2]
      BY DEF Sorted
  <2> QED
      BY <1>4 DEF Sorted, Before
<1>8. \A m : Has(G, m) <=> Has(H, m)
    BY <1>4, <1>5 DEF Has
<1> QED
    BY <1>6, <1>7, <1>8 DEF Moved

\* Where the elements of a concatenation come from.
LEMMA ConcatPlaces ==
    ASSUME NEW f \in Seq(Nat), NEW h \in Seq(Nat), NEW n, n = Len(f)
    PROVE  /\ \A i \in DOMAIN f : i \in DOMAIN (f \o h) /\ (f \o h)[i] = f[i]
           /\ \A i \in DOMAIN h :
                /\ i \in Nat /\ i + n \in DOMAIN (f \o h)
                /\ (f \o h)[i + n] = h[i]
           /\ \A i \in DOMAIN (f \o h) \ DOMAIN f :
                i - n \in DOMAIN h /\ (f \o h)[i] = h[i - n] /\ i \in Nat
<1>1. n \in Nat /\ DOMAIN f = 1 .. n
    OBVIOUS
<1>2. Len(h) \in Nat /\ DOMAIN h = 1 .. Len(h)
    OBVIOUS
<1>3. DOMAIN (f \o h) = 1 .. n + Len(h)
    OBVIOUS
<1>4. ASSUME NEW i \in DOMAIN f
      PROVE  i \in DOMAIN (f \o h) /\ (f \o h)[i] = f[i]
    BY <1>2
<1>5. ASSUME NEW i \in DOMAIN h
      PROVE  /\ i \in Nat /\ i + n \in DOMAIN (f \o h)
             /\ (f \o h)[i + n] = h[i]
    BY <1>1, <1>2
<1>6. ASSUME NEW i \in DOMAIN (f \o h) \ DOMAIN f
      PROVE  i - n \in DOMAIN h /\ (f \o h)[i] = h[i - n] /\ i \in Nat
    BY <1>1, <1>2, <1>3
<1> QED
    BY <1>4, <1>5, <1>6

LEMMA OneBuffer ==
    ASSUME NEW buf
    PROVE  DOMAIN <<buf>> = {1} /\ <<buf>>[1] = buf
    OBVIOUS

\* The buffer in hand goes to the end of the file.
LEMMA WriteMoves ==
    ASSUME NEW H \in Holdings, NEW G, Once(H), Sorted(H),
           G["file"] = <<H["file"][1] \o H["hand"][1]>>, G["hand"] = << <<>> >>,
           Same(H, G, {"tmp", "queue", "log"})
    PROVE  Moved(H, G)
<1>0. PICK f, h, n : f = H["file"][1] /\ h = H["hand"][1] /\ n = Len(f)
    OBVIOUS
<1>1. f \in Seq(Nat) /\ h \in Seq(Nat) /\ n \in Nat /\ n = Len(f)
    BY <1>0, PlaceTypes
<1>2. /\ \A i \in DOMAIN f : i \in DOMAIN (f \o h) /\ (f \o h)[i] = f[i]
      /\ \A i \in DOMAIN h :
            i \in Nat /\ i + n \in DOMAIN (f \o h) /\ (f \o h)[i + n] = h[i]
      /\ \A i \in DOMAIN (f \o h) \ DOMAIN f :
            i - n \in DOMAIN h /\ (f \o h)[i] = h[i - n] /\ i \in Nat
    BY <1>1, ConcatPlaces
<1>3. /\ DOMAIN H["file"] = {1} /\ DOMAIN H["hand"] = {1}
      /\ DOMAIN G["file"] = {1} /\ G["file"][1] = f \o h
      /\ \A b, i : ~At(G, "hand", b, i)
  <2>1. DOMAIN H["file"] = {1} /\ DOMAIN H["hand"] = {1}
      BY PlaceTypes
  <2>2. \A b, i : ~At(G, "hand", b, i)
      BY DEF At
  <2>3. G["file"] = <<f \o h>>
      BY <1>0
  <2> QED
      BY <2>1, <2>2, <2>3, OneBuffer
<1>4. ASSUME NEW w, NEW b, NEW i, At(G, w, b, i)
      PROVE  \/ /\ w # "hand" /\ At(H, w, b, i) /\ G[w][b][i] = H[w][b][i]
                /\ w = "file" => b = 1 /\ i \in DOMAIN f
             \/ /\ w = "file" /\ b = 1 /\ i \notin DOMAIN f /\ i \in Nat
                /\ At(H, "hand", 1, i - n) /\ G[w][b][i] = H["hand"][1][i - n]
  <2>1. CASE w = "file"
    <3>1. b = 1 /\ i \in DOMAIN (f \o h) /\ G[w][b][i] = (f \o h)[i]
        BY <1>3, <1>4, <2>1 DEF At
    <3> QED
        BY <1>0, <1>2, <1>3, <2>1, <3>1 DEF At, Where
  <2>2. CASE w \in {"tmp", "queue", "log"}
      BY <1>4, <2>2 DEF At, Same
  <2> QED
      BY <1>3, <1>4, <2>1, <2>2 DEF At, Where
<1>5. ASSUME NEW w, NEW b, NEW i, At(H, w, b, i)
      PROVE  \E v, c, j : At(G, v, c, j) /\ G[v][c][j] = H[w][b][i]
  <2>1. CASE w = "hand"
    <3>1. b = 1 /\ i \in DOMAIN h /\ H[w][b][i] = h[i]
        BY <1>0, <1>3, <1>5, <2>1 DEF At
    <3>2. At(G, "file", 1, i + n) /\ G["file"][1][i + n] = H[w][b][i]
        BY <1>2, <1>3, <3>1 DEF At, Where
    <3> QED
        BY <3>2
  <2>2. CASE w = "file"
    <3>1. b = 1 /\ i \in DOMAIN f /\ H[w][b][i] = f[i]
        BY <1>0, <1>3, <1>5, <2>2 DEF At
    <3>2. At(G, "file", 1, i) /\ G["file"][1][i] = H[w][b][i]
        BY <1>2, <1>3, <3>1 DEF At, Where
    <3> QED
        BY <3>2
  <2>3. CASE w \in {"tmp", "queue", "log"}
      BY <1>5, <2>3 DEF At, Same
  <2> QED
      BY <1>5, <2>1, <2>2, <2>3 DEF At, Where
<1>6. Once(G)
  <2> SUFFICES ASSUME NEW w1, NEW w2, NEW b1, NEW b2, NEW i1, NEW i2,
                      At(G, w1, b1, i1), At(G, w2, b2, i2),
                      G[w1][b1][i1] = G[w2][b2][i2]
               PROVE  w1 = w2 /\ b1 = b2 /\ i1 = i2
      BY DEF Once
  <2>1. CASE w1 = "file" /\ i1 \notin DOMAIN f /\ w2 = "file" /\ i2 \notin DOMAIN f
    <3>1. /\ At(H, "hand", 1, i1 - n) /\ G[w1][b1][i1] = H["hand"][1][i1 - n]
          /\ At(H, "hand", 1, i2 - n) /\ G[w2][b2][i2] = H["hand"][1][i2 - n]
          /\ b1 = 1 /\ b2 = 1 /\ i1 \in Nat /\ i2 \in Nat
        BY <1>1, <1>4, <2>1
    <3>2. ASSUME NEW i, NEW j, At(H, "hand", 1, i), At(H, "hand", 1, j),
                 H["hand"][1][i] = H["hand"][1][j]
          PROVE  i = j
        BY <3>2 DEF Once
    <3>3. i1 - n = i2 - n
        BY <3>1, <3>2
    <3> QED
        BY <1>1, <2>1, <3>1, <3>3
  <2>2. CASE w1 = "file" /\ i1 \notin DOMAIN f /\ ~(w2 = "file" /\ i2 \notin DOMAIN f)
    <3>1. At(H, "hand", 1, i1 - n) /\ G[w1][b1][i1] = H["hand"][1][i1 - n]
        BY <1>4, <2>2
    <3>2. w2 # "hand" /\ At(H, w2, b2, i2) /\ G[w2][b2][i2] = H[w2][b2][i2]
        BY <1>4, <2>2
    <3>3. H["hand"][1][i1 - n] = H[w2][b2][i2]
        BY <3>1, <3>2
    <3> QED
        BY <3>1, <3>2, <3>3 DEF Once
  <2>3. CASE ~(w1 = "file" /\ i1 \notin DOMAIN f) /\ w2 = "file" /\ i2 \notin DOMAIN f
    <3>1. At(H, "hand", 1, i2 - n) /\ G[w2][b2][i2] = H["hand"][1][i2 - n]
        BY <1>4, <2>3
    <3>2. w1 # "hand" /\ At(H, w1, b1, i1) /\ G[w1][b1][i1] = H[w1][b1][i1]
        BY <1>4, <2>3
    <3> QED
        BY <3>1, <3>2 DEF Once
  <2>4. CASE ~(w1 = "file" /\ i1 \notin DOMAIN f) /\ ~(w2 = "file" /\ i2 \notin DOMAIN f)
    <3>1. /\ At(H, w1, b1, i1) /\ G[w1][b1][i1] = H[w1][b1][i1]
          /\ At(H, w2, b2, i2) /\ G[w2][b2][i2] = H[w2][b2][i2]
        BY <1>4, <2>4
    <3> QED
        BY <3>1 DEF Once
  <2> QED
      BY <2>1, <2>2, <2>3, <2>4
<1>7. Sorted(G)
  <2> SUFFICES ASSUME NEW w1, NEW w2, NEW b1, NEW b2, NEW i1, NEW i2,
                      At(G, w1, b1, i1), At(G, w2, b2, i2),
                      Before(w1, b1, i1, w2, b2, i2)
               PROVE  G[w1][b1][i1] < G[w2][b2][i2]
      BY DEF Sorted
  <2>1. w1 # "file" /\ w2 # "file"
      BY DEF Before
  <2>2. /\ At(H, w1, b1, i1) /\ G[w1][b1][i1] = H[w1][b1][i1]
        /\ At(H, w2, b2, i2) /\ G[w2][b2][i2] = H[w2][b2][i2]
      BY <1>4, <2>1
  <2> QED
      BY <2>2 DEF Sorted
<1>8. \A m : Has(G, m) <=> Has(H, m)
    BY <1>4, <1>5 DEF Has
<1> QED
    BY <1>6, <1>7, <1>8 DEF Moved

InHand(H, m) == \E b, i : At(H, "hand", b, i) /\ H["hand"][b][i] = m

\* The buffer in hand is cleared, its lines being nowhere.
LEMMA ClearMoves ==
    ASSUME NEW H \in Holdings, NEW G, Once(H), Sorted(H),
           G["hand"] = << <<>> >>, Same(H, G, {"file", "tmp", "queue", "log"})
    PROVE  /\ Once(G) /\ Sorted(G)
           /\ \A m : Has(G, m) <=> Has(H, m) /\ ~InHand(H, m)
<1>1. \A b, i : ~At(G, "hand", b, i)
    BY DEF At
<1>2. ASSUME NEW w, NEW b, NEW i
      PROVE  /\ At(G, w, b, i) <=> At(H, w, b, i) /\ w # "hand"
             /\ w \in Where /\ w # "hand" => G[w] = H[w]
    BY <1>1 DEF At, Same, Where
<1>3. Once(G)
  <2> SUFFICES ASSUME NEW w1, NEW w2, NEW b1, NEW b2, NEW i1, NEW i2,
                      At(G, w1, b1, i1), At(G, w2, b2, i2),
                      G[w1][b1][i1] = G[w2][b2][i2]
               PROVE  w1 = w2 /\ b1 = b2 /\ i1 = i2
      BY DEF Once
  <2>1. /\ At(H, w1, b1, i1) /\ G[w1][b1][i1] = H[w1][b1][i1]
        /\ At(H, w2, b2, i2) /\ G[w2][b2][i2] = H[w2][b2][i2]
      BY <1>2 DEF At
  <2> QED
      BY <2>1 DEF Once
<1>4. Sorted(G)
  <2> SUFFICES ASSUME NEW w1, NEW w2, NEW b1, NEW b2, NEW i1, NEW i2,
                      At(G, w1, b1, i1), At(G, w2, b2, i2),
                      Before(w1, b1, i1, w2, b2, i2)
               PROVE  G[w1][b1][i1] < G[w2][b2][i2]
      BY DEF Sorted
  <2> QED
      BY <1>2 DEF Sorted, At
<1>5. ASSUME NEW m PROVE Has(G, m) <=> Has(H, m) /\ ~InHand(H, m)
  <2>1. ASSUME Has(G, m) PROVE Has(H, m) /\ ~InHand(H, m)
    <3> PICK w, b, i : At(G, w, b, i) /\ G[w][b][i] = m
        BY <2>1 DEF Has
    <3>1. At(H, w, b, i) /\ w # "hand" /\ H[w][b][i] = m
        BY <1>2 DEF At
    <3> QED
        BY <3>1 DEF Has, InHand, Once
  <2>2. ASSUME Has(H, m), ~InHand(H, m) PROVE Has(G, m)
    <3> PICK w, b, i : At(H, w, b, i) /\ H[w][b][i] = m
        BY <2>2 DEF Has
    <3>1. At(G, w, b, i) /\ w # "hand" /\ G[w][b][i] = m
        BY <1>2, <2>2 DEF At, InHand
    <3> QED
        BY <3>1 DEF Has
  <2> QED
      BY <2>1, <2>2
<1> QED
    BY <1>3, <1>4, <1>5

\* A line that is newer than all goes into the log buffer.
LEMMA AddMoves ==
    ASSUME NEW H \in Holdings, NEW G, NEW n \in Nat, Once(H), Sorted(H),
           \A m : Has(H, m) => m < n,
           G["log"] = <<Append(H["log"][1], n)>>,
           Same(H, G, {"file", "tmp", "hand", "queue"})
    PROVE  /\ Once(G) /\ Sorted(G)
           /\ \A m : Has(G, m) <=> Has(H, m) \/ m = n
<1> PICK l, k : l = H["log"][1] /\ k = Len(l) + 1
    OBVIOUS
<1>1. l \in Seq(Nat) /\ k \in Nat /\ DOMAIN H["log"] = {1} /\ DOMAIN G["log"] = {1}
    BY PlaceTypes
<1>2. /\ DOMAIN Append(l, n) = (DOMAIN l) \cup {k}
      /\ \A i \in DOMAIN l : i \in Nat /\ i < k /\ Append(l, n)[i] = l[i]
      /\ Append(l, n)[k] = n
    BY <1>1
<1>3. \A w, b, i : At(H, w, b, i) => H[w][b][i] < n /\ H[w][b][i] \in Nat
    BY PlaceTypes DEF Has
<1>4. ASSUME NEW w, NEW b, NEW i, At(G, w, b, i)
      PROVE  \/ /\ At(H, w, b, i) /\ G[w][b][i] = H[w][b][i]
                /\ w = "log" => b = 1 /\ i \in Nat /\ i < k
             \/ w = "log" /\ b = 1 /\ i = k /\ G[w][b][i] = n
  <2>1. CASE w = "log"
    <3>1. b = 1 /\ i \in DOMAIN Append(l, n) /\ G[w][b][i] = Append(l, n)[i]
        BY <1>1, <1>4, <2>1 DEF At
    <3> QED
        BY <1>1, <1>2, <2>1, <3>1 DEF At, Where
  <2>2. CASE w \in {"file", "tmp", "hand", "queue"}
      BY <1>4, <2>2 DEF At, Same
  <2> QED
      BY <1>4, <2>1, <2>2 DEF At, Where
<1>5. ASSUME NEW w, NEW b, NEW i, At(H, w, b, i)
      PROVE  At(G, w, b, i) /\ G[w][b][i] = H[w][b][i]
  <2>1. CASE w = "log"
      BY <1>1, <1>2, <1>5, <2>1 DEF At, Where
  <2>2. CASE w \in {"file", "tmp", "hand", "queue"}
      BY <1>5, <2>2 DEF At, Same
  <2> QED
      BY <1>5, <2>1, <2>2 DEF At, Where
<1>6. At(G, "log", 1, k) /\ G["log"][1][k] = n
    BY <1>1, <1>2 DEF At, Where
<1>7. Once(G)
  <2> SUFFICES ASSUME NEW w1, NEW w2, NEW b1, NEW b2, NEW i1, NEW i2,
                      At(G, w1, b1, i1), At(G, w2, b2, i2),
                      G[w1][b1][i1] = G[w2][b2][i2]
               PROVE  w1 = w2 /\ b1 = b2 /\ i1 = i2
      BY DEF Once
  <2>1. CASE G[w1][b1][i1] = n
    <3>1. w1 = "log" /\ b1 = 1 /\ i1 = k
        BY <1>3, <1>4, <2>1
    <3>2. w2 = "log" /\ b2 = 1 /\ i2 = k
      <4>1. ~(H[w2][b2][i2] = n /\ At(H, w2, b2, i2))
          BY <1>3
      <4> QED
          BY <1>4, <2>1, <4>1
    <3> QED
        BY <3>1, <3>2
  <2>2. CASE G[w1][b1][i1] # n
    <3>1. /\ At(H, w1, b1, i1) /\ G[w1][b1][i1] = H[w1][b1][i1]
          /\ At(H, w2, b2, i2) /\ G[w2][b2][i2] = H[w2][b2][i2]
        BY <1>4, <2>2
    <3> QED
        BY <3>1 DEF Once
  <2> QED
      BY <2>1, <2>2
<1>8. Sorted(G)
  <2> SUFFICES ASSUME NEW w1, NEW w2, NEW b1, NEW b2, NEW i1, NEW i2,
                      At(G, w1, b1, i1), At(G, w2, b2, i2),
                      Before(w1, b1, i1, w2, b2, i2)
               PROVE  G[w1][b1][i1] < G[w2][b2][i2]
      BY DEF Sorted
  <2>1. CASE w2 = "log" /\ i2 = k
    <3>1. G[w2][b2][i2] = n /\ b2 = 1
        BY <1>1, <1>4, <2>1
    <3>2. ~(w1 = "log" /\ b1 = 1 /\ i1 = k)
        BY <1>1, <2>1, <3>1 DEF Before
    <3>3. At(H, w1, b1, i1) /\ G[w1][b1][i1] = H[w1][b1][i1]
        BY <1>4, <3>2
    <3> QED
        BY <1>3, <3>1, <3>3
  <2>2. CASE ~(w2 = "log" /\ i2 = k)
    <3>1. /\ At(H, w2, b2, i2) /\ G[w2][b2][i2] = H[w2][b2][i2]
          /\ w2 = "log" => b2 = 1 /\ i2 \in Nat /\ i2 < k
        BY <1>4, <2>2
    <3>2. ~(w1 = "log" /\ b1 = 1 /\ i1 = k)
        BY <1>1, <3>1 DEF Before
    <3>3. At(H, w1, b1, i1) /\ G[w1][b1][i1] = H[w1][b1][i1]
        BY <1>4, <3>2
    <3> QED
        BY <3>1, <3>3 DEF Sorted
  <2> QED
      BY <2>1, <2>2
<1>9. \A m : Has(G, m) <=> Has(H, m) \/ m = n
  <2>1. ASSUME NEW m, Has(G, m) PROVE Has(H, m) \/ m = n
      BY <1>4, <2>1 DEF Has
  <2>2. ASSUME NEW m, Has(H, m) PROVE Has(G, m)
      BY <1>5, <2>2 DEF Has
  <2>3. Has(G, n)
      BY <1>6 DEF Has
  <2> QED
      BY <2>1, <2>2, <2>3
<1> QED
    BY <1>7, <1>8, <1>9

-----------------------------------------------------------------------------
(* The account of the messages.                                            *)

Account ==
    dtor # "destroyed" =>
        /\ Once(Held)
        /\ Sorted(Held)
        /\ \A m : Has(Held, m) \/ m \in unwritten \/ m \in Dropped <=> m \in 1 .. count
        /\ \A m : Has(Held, m) => m \notin unwritten /\ m \notin Dropped
        /\ unwritten \cap Dropped = {}
        /\ oversized \cap lost = {}
        /\ Cardinality(lost) = lost_counter_ + reported

\* The destructor writes the rest when there is no log thread any more.
ThreadIsGone == dtor \in {"joined", "destroyed"} => thread \in {"none", "exited"}

LEMMA HeldFields ==
    /\ Held["file"] = <<file>> /\ Held["tmp"] = tmp_buffers_
    /\ Held["hand"] = <<in_hand>> /\ Held["queue"] = write_buffers_
    /\ Held["log"] = <<log_buffer_>> /\ DOMAIN Held = Where
    /\ Held'["file"] = <<file'>> /\ Held'["tmp"] = tmp_buffers_'
    /\ Held'["hand"] = <<in_hand'>> /\ Held'["queue"] = write_buffers_'
    /\ Held'["log"] = <<log_buffer_'>> /\ DOMAIN Held' = Where
    BY DEF Held, Where

LEMMA OneBufferQueue ==
    ASSUME NEW buf \in Seq(Nat)
    PROVE  <<buf>> \in Seq(Seq(Nat))
<1>1. <<buf>> = Append(<< >>, buf) /\ << >> \in Seq(Seq(Nat))
    OBVIOUS
<1> QED
    BY <1>1, AppendProperties

LEMMA HeldTyped ==
    ASSUME IInv
    PROVE  Held \in Holdings
<1>1. Messages \subseteq Nat
    BY AsyncFileLoggerAssumption DEF Messages
<1>2. \A buf \in Seq(Messages) : buf \in Seq(Nat)
    BY <1>1, SeqMonotonic
<1>3. FullBuffers \subseteq Seq(Nat)
    BY <1>2 DEF FullBuffers
<1>4. \A queue \in Seq(FullBuffers) : queue \in Seq(Seq(Nat))
    BY <1>3, SeqMonotonic
<1>5. /\ log_buffer_ \in Seq(Nat) /\ in_hand \in Seq(Nat) /\ file \in Seq(Nat)
      /\ write_buffers_ \in Seq(Seq(Nat)) /\ tmp_buffers_ \in Seq(Seq(Nat))
    BY <1>2, <1>4 DEF IInv, BuffersTyped, ControlTyped, OutputTyped
<1>6. /\ <<log_buffer_>> \in Seq(Seq(Nat)) /\ <<in_hand>> \in Seq(Seq(Nat))
      /\ <<file>> \in Seq(Seq(Nat))
    BY <1>5, OneBufferQueue
<1>7. Held \in [Where -> Seq(Seq(Nat))]
  <2>1. \A w \in Where : Held[w] \in Seq(Seq(Nat))
      BY <1>5, <1>6, HeldFields DEF Where
  <2>2. Held = [w \in Where |-> Held[w]]
      BY DEF Held, Where
  <2> QED
      BY <2>1, <2>2
<1> QED
    BY <1>5, <1>6, <1>7, HeldFields DEF Holdings

LEMMA SameHeld ==
    ASSUME NEW H, NEW G, Once(H), Sorted(H), Same(H, G, Where)
    PROVE  Moved(H, G)
<1>1. \A w, b, i : At(G, w, b, i) <=> At(H, w, b, i)
    BY DEF At, Same
<1>2. \A w, b, i : At(G, w, b, i) => G[w][b][i] = H[w][b][i]
    BY DEF At, Same
<1>3. Once(G) /\ Sorted(G)
    BY <1>1, <1>2 DEF Once, Sorted
<1>4. \A m : Has(G, m) <=> Has(H, m)
    BY <1>1, <1>2 DEF Has
<1> QED
    BY <1>3, <1>4 DEF Moved

LEMMA AccountMoved ==
    ASSUME Account, dtor # "destroyed", Moved(Held, Held'),
           UNCHANGED <<counters, unwritten>>
    PROVE  Account'
    BY DEF Account, Moved, Dropped, counters

\* What is held when the log buffer has been queued, whatever comes after that.
LEMMA PushedHeld ==
    ASSUME IInv, Account, dtor # "destroyed"
    PROVE  \E M \in Holdings :
             /\ Moved(Held, M)
             /\ Same(Held, M, {"file", "tmp", "hand"})
             /\ M["queue"] = Append(write_buffers_, log_buffer_)
             /\ M["log"] = << <<>> >>
<1> DEFINE M == [Held EXCEPT !["queue"] = Append(write_buffers_, log_buffer_),
                             !["log"] = << <<>> >>]
<1>1. Held \in Holdings /\ Once(Held) /\ Sorted(Held)
    BY HeldTyped DEF Account
<1>2. Held \in [Where -> Seq(Seq(Nat))]
    BY <1>1 DEF Holdings
<1>3. write_buffers_ \in Seq(Seq(Nat)) /\ log_buffer_ \in Seq(Nat)
  <2>1. Held["log"][1] \in Seq(Nat) /\ Held["queue"] \in Seq(Seq(Nat))
      BY <1>1, PlaceTypes DEF Where
  <2> QED
      BY <2>1, HeldFields
<1>4. /\ Append(write_buffers_, log_buffer_) \in Seq(Seq(Nat))
      /\ << <<>> >> \in Seq(Seq(Nat)) /\ Len(<< <<>> >>) = 1
    BY <1>3
<1>5. M \in [Where -> Seq(Seq(Nat))]
    BY <1>2, <1>4 DEF Where
<1>6. /\ M["queue"] = Append(write_buffers_, log_buffer_)
      /\ M["log"] = << <<>> >>
      /\ Same(Held, M, {"file", "tmp", "hand"})
    BY <1>2 DEF Where, Same
<1> HIDE DEF M
<1>7. M \in Holdings
  <2>1. M["file"] = Held["file"] /\ M["hand"] = Held["hand"] /\ M["log"] = << <<>> >>
      BY <1>6 DEF Same
  <2>2. Len(M["file"]) = 1 /\ Len(M["hand"]) = 1 /\ Len(M["log"]) = 1
      BY <1>1, <1>4, <2>1 DEF Holdings
  <2> QED
      BY <1>5, <2>2 DEF Holdings
<1>8. M["queue"] = Append(Held["queue"], Held["log"][1])
    BY <1>6, HeldFields
<1>9. Moved(Held, M)
    BY <1>1, <1>6, <1>8, PushMoves
<1> QED
    BY <1>6, <1>7, <1>9

LEMMA FlushAccount ==
    ASSUME IInv, Account, Flush
    PROVE  Account'
<1>1. Held \in Holdings /\ Once(Held) /\ Sorted(Held) /\ dtor # "destroyed"
    BY HeldTyped DEF Account, Flush
<1>2. /\ Held'["queue"] = Append(Held["queue"], Held["log"][1])
      /\ Held'["log"] = << <<>> >>
      /\ Same(Held, Held', {"file", "tmp", "hand"})
    BY HeldFields DEF Same, Flush, SwapBuffer, output
<1>3. Moved(Held, Held')
    BY <1>1, <1>2, PushMoves
<1> QED
    BY <1>1, <1>3, AccountMoved DEF Flush, counters, output

LEMMA LockAndTestAccount ==
    ASSUME IInv, Account, dtor # "destroyed", LockAndTest
    PROVE  Account'
<1>1. Held \in Holdings /\ Once(Held) /\ Sorted(Held)
    BY HeldTyped DEF Account
<1>2. Held["hand"] = << <<>> >>
    BY HeldFields DEF IInv, ControlTyped, LockAndTest
<1>3. Same(Held, Held', {"file", "hand", "log"})
    BY HeldFields DEF Same, LockAndTest, output
<1>4. ASSUME UNCHANGED <<tmp_buffers_, write_buffers_>>
      PROVE  Moved(Held, Held')
  <2>1. Same(Held, Held', Where)
      BY <1>3, <1>4, HeldFields DEF Same, Where
  <2> QED
      BY <1>1, <2>1, SameHeld
<1>5. ASSUME TakeBuffers(write_buffers_)
      PROVE  Moved(Held, Held')
  <2>1. Held'["queue"] = Held["tmp"] /\ Held'["tmp"] = Held["queue"]
      BY <1>5, HeldFields DEF TakeBuffers
  <2> QED
      BY <1>1, <1>2, <1>3, <2>1, SwapMoves
<1>7. Moved(Held, Held')
    BY <1>4, <1>5 DEF LockAndTest
<1> QED
    BY <1>7, AccountMoved DEF LockAndTest, counters, output

LEMMA AfterTimeoutAccount ==
    ASSUME IInv, Account, dtor # "destroyed", AfterTimeout
    PROVE  Account'
<1>1. Held \in Holdings /\ Once(Held) /\ Sorted(Held)
    BY HeldTyped DEF Account
<1>2. Held["hand"] = << <<>> >>
    BY HeldFields DEF IInv, ControlTyped, AfterTimeout
<1>3. Same(Held, Held', {"file", "hand"})
    BY HeldFields DEF Same, AfterTimeout, output
<1>4. ASSUME log_buffer_ # <<>>
      PROVE  Moved(Held, Held')
  <2> PICK M \in Holdings :
             /\ Moved(Held, M)
             /\ Same(Held, M, {"file", "tmp", "hand"})
             /\ M["queue"] = Append(write_buffers_, log_buffer_)
             /\ M["log"] = << <<>> >>
      BY PushedHeld
  <2>1. /\ Held'["queue"] = M["tmp"] /\ Held'["tmp"] = M["queue"]
        /\ Held'["log"] = M["log"]
      BY <1>4, HeldFields DEF Same, AfterTimeout, TakeBuffers, SwapBuffer
  <2>2. M["hand"] = << <<>> >> /\ Same(M, Held', {"file", "hand", "log"})
      BY <1>2, <1>3, <2>1 DEF Same
  <2>3. Moved(M, Held')
      BY <2>1, <2>2, SwapMoves DEF Moved
  <2> QED
      BY <2>3 DEF Moved
<1>5. ASSUME log_buffer_ = <<>>
      PROVE  Moved(Held, Held')
  <2>1. /\ Held'["queue"] = Held["tmp"] /\ Held'["tmp"] = Held["queue"]
        /\ Same(Held, Held', {"file", "hand", "log"})
      BY <1>3, <1>5, HeldFields DEF Same, AfterTimeout, TakeBuffers
  <2> QED
      BY <1>1, <1>2, <2>1, SwapMoves
<1>6. Moved(Held, Held')
    BY <1>4, <1>5
<1> QED
    BY <1>6, AccountMoved DEF AfterTimeout, counters, output

LEMMA PopBufferAccount ==
    ASSUME IInv, Account, dtor # "destroyed", PopBuffer
    PROVE  Account'
<1>1. Held \in Holdings /\ Once(Held) /\ Sorted(Held)
    BY HeldTyped DEF Account
<1>2. Held["hand"] = << <<>> >>
    BY HeldFields DEF IInv, ControlTyped, PopBuffer
<1>3. Same(Held, Held', {"file", "tmp", "log"})
    BY HeldFields DEF Same, PopBuffer, output
<1>4. ASSUME write_buffers_ # <<>>
      PROVE  Moved(Held, Held')
  <2>1. in_hand' = Head(write_buffers_) /\ write_buffers_' = Tail(write_buffers_)
      BY <1>4 DEF PopBuffer, PopFront
  <2>2. /\ Held["queue"] # <<>>
        /\ Held'["hand"] = <<Head(Held["queue"])>>
        /\ Held'["queue"] = Tail(Held["queue"])
      BY <1>4, <2>1, HeldFields
  <2> QED
      BY <1>1, <1>2, <1>3, <2>2, PopMoves
<1>5. ASSUME write_buffers_ = <<>>
      PROVE  Moved(Held, Held')
  <2>1. UNCHANGED <<in_hand, write_buffers_>>
      BY <1>5 DEF PopBuffer
  <2>2. Held'["hand"] = Held["hand"] /\ Held'["queue"] = Held["queue"]
      BY <2>1, HeldFields
  <2>3. Same(Held, Held', Where)
      BY <1>3, <2>2 DEF Same, Where
  <2> QED
      BY <1>1, <2>3, SameHeld
<1>6. Moved(Held, Held')
    BY <1>4, <1>5
<1> QED
    BY <1>6, AccountMoved DEF PopBuffer, counters, output

\* A file that cannot be opened swallows the lines of the buffer in hand.
LEMMA ClearAccount ==
    ASSUME IInv, Account, dtor # "destroyed", WriteInHand,
           unwritten' = unwritten \cup ToSet(in_hand), file' = file
    PROVE  Account'
<1>1. /\ Held \in Holdings /\ Once(Held) /\ Sorted(Held)
      /\ \A m : Has(Held, m) \/ m \in unwritten \/ m \in Dropped <=> m \in 1 .. count
      /\ \A m : Has(Held, m) => m \notin unwritten /\ m \notin Dropped
      /\ unwritten \cap Dropped = {}
      /\ oversized \cap lost = {}
      /\ Cardinality(lost) = lost_counter_ + reported
    BY HeldTyped DEF Account
<1>2. UNCHANGED <<buffers, counters, dtor>> /\ Dropped' = Dropped
    BY DEF WriteInHand, counters, Dropped
<1>3. Held'["hand"] = << <<>> >> /\ Same(Held, Held', {"file", "tmp", "queue", "log"})
    BY <1>2, HeldFields DEF WriteInHand, Same, buffers
<1>4. /\ Once(Held') /\ Sorted(Held')
      /\ \A m : Has(Held', m) <=> Has(Held, m) /\ ~InHand(Held, m)
    BY <1>1, <1>3, ClearMoves
<1>5. \A m : InHand(Held, m) <=> m \in ToSet(in_hand)
  <2>1. in_hand \in Seq(Messages)
      BY DEF IInv, ControlTyped
  <2>2. \A m : m \in ToSet(in_hand) <=> \E i \in DOMAIN in_hand : in_hand[i] = m
      BY <2>1 DEF ToSet
  <2>3. Held["hand"] = <<in_hand>>
      BY HeldFields
  <2>4. Held["hand"][1] = in_hand /\ DOMAIN Held["hand"] = {1}
      BY <2>3, OneBuffer
  <2> QED
      BY <2>2, <2>4 DEF InHand, At, Where
<1>6. \A m : InHand(Held, m) => Has(Held, m)
    BY DEF InHand, Has
<1>7. \A m : m \in unwritten' <=> m \in unwritten \/ InHand(Held, m)
    BY <1>5
<1>8. ASSUME NEW m
      PROVE  /\ Has(Held', m) \/ m \in unwritten' \/ m \in Dropped <=> m \in 1 .. count
             /\ Has(Held', m) => m \notin unwritten' /\ m \notin Dropped
             /\ ~(m \in unwritten' /\ m \in Dropped)
    BY <1>1, <1>4, <1>6, <1>7
<1>9. unwritten' \cap Dropped = {}
    BY <1>8
<1> QED
    BY <1>1, <1>2, <1>4, <1>8, <1>9 DEF Account, counters

LEMMA WriteInHandAccount ==
    ASSUME IInv, Account, dtor # "destroyed", WriteInHand
    PROVE  Account'
<1>1. Held \in Holdings /\ Once(Held) /\ Sorted(Held)
    BY HeldTyped DEF Account
<1>2. UNCHANGED <<buffers, counters, dtor>> /\ in_hand' = <<>>
    BY DEF WriteInHand
<1>3. \/ unwritten' = unwritten \cup ToSet(in_hand) /\ file' = file
      \/ file' = file \o in_hand /\ unwritten' = unwritten
    BY DEF WriteInHand, WriteLogToFile, WriteLog
<1>4. ASSUME file' = file \o in_hand, unwritten' = unwritten
      PROVE  Account'
  <2>1. Held["file"][1] = file /\ Held["hand"][1] = in_hand
      BY HeldFields, OneBuffer
  <2>2. Held'["file"] = <<Held["file"][1] \o Held["hand"][1]>>
      BY <1>4, <2>1, HeldFields
  <2>3. Held'["hand"] = << <<>> >> /\ Same(Held, Held', {"tmp", "queue", "log"})
      BY <1>2, HeldFields DEF Same, buffers
  <2>4. Moved(Held, Held')
      BY <1>1, <2>2, <2>3, WriteMoves
  <2> QED
      BY <1>2, <1>4, <2>4, AccountMoved DEF counters
<1> QED
    BY <1>3, <1>4, ClearAccount

\* A message more: M is what is held before it is put into the log buffer, or
\* dropped.
LEMMA AppendAccount ==
    ASSUME IInv, IInv', Account, dtor # "destroyed", NEW M \in Holdings,
           Moved(Held, M), Same(M, Held', {"file", "tmp", "hand", "queue"}),
           NEW buf, M["log"] = <<buf>>, AppendTo(buf),
           UNCHANGED <<unwritten, dtor>>
    PROVE  Account'
<1>1. /\ \A m : Has(M, m) \/ m \in unwritten \/ m \in Dropped <=> m \in 1 .. count
      /\ \A m : Has(M, m) => m \notin unwritten /\ m \notin Dropped
      /\ unwritten \cap Dropped = {}
      /\ oversized \cap lost = {}
      /\ Cardinality(lost) = lost_counter_ + reported
      /\ Once(M) /\ Sorted(M)
    BY DEF Account, Moved
<1>2. /\ count \in Nat /\ lost_counter_ \in Nat /\ reported \in Nat
      /\ lost \in SUBSET Messages /\ count' = count + 1
      /\ oversized' = oversized
    BY DEF IInv, CountersTyped, AppendTo
<1>3. \A m : m \in 1 .. count' <=> m \in 1 .. count \/ m = count + 1
    BY <1>2
<1>4. count + 1 \notin 1 .. count
    BY <1>2
<1>5. CASE lost' = lost \cup {count'} /\ log_buffer_' = buf
           /\ lost_counter_' = lost_counter_ + 1 /\ reported' = reported
  <2>1. Same(M, Held', Where)
      BY <1>5, HeldFields DEF Same, Where
  <2>2. Moved(M, Held')
      BY <1>1, <2>1, SameHeld
  <2>3. Dropped' = Dropped \cup {count + 1} /\ count + 1 \notin Dropped
      BY <1>1, <1>2, <1>4, <1>5 DEF Dropped
  <2>4. Cardinality(lost') = lost_counter_' + reported'
    <3>1. IsFiniteSet(Messages)
        BY AsyncFileLoggerAssumption, FS_Interval DEF Messages
    <3>2. IsFiniteSet(lost) /\ count + 1 \notin lost
        BY <1>2, <2>3, <3>1, FS_Subset DEF Dropped
    <3>3. Cardinality(lost \cup {count + 1}) = Cardinality(lost) + 1
        BY <3>2, FS_AddElement
    <3> QED
        BY <1>1, <1>2, <1>5, <3>3
  <2>5. ASSUME NEW m
        PROVE  /\ Has(Held', m) \/ m \in unwritten \/ m \in Dropped' <=> m \in 1 .. count'
               /\ Has(Held', m) => m \notin unwritten /\ m \notin Dropped'
               /\ ~(m \in unwritten /\ m \in Dropped')
      BY <1>1, <1>3, <1>4, <2>2, <2>3 DEF Moved
  <2>6. oversized' \cap lost' = {}
      BY <1>1, <1>2, <1>5, <2>3 DEF Dropped
  <2>7. Once(Held') /\ Sorted(Held') /\ unwritten' \cap Dropped' = {}
      BY <2>2, <2>5 DEF Moved
  <2> QED
      BY <2>4, <2>5, <2>6, <2>7 DEF Account
<1>6. CASE lost' = lost /\ log_buffer_' = Append(buf, count')
           /\ lost_counter_' = 0 /\ reported' = reported + lost_counter_
  <2> PICK n : n = count + 1
      OBVIOUS
  <2>1. n \in Nat /\ Held'["log"] = <<Append(M["log"][1], n)>>
      BY <1>2, <1>6, HeldFields
  <2>2. \A m : Has(M, m) => m < n
      BY <1>1, <1>2
  <2>3. /\ Once(Held') /\ Sorted(Held')
        /\ \A m : Has(Held', m) <=> Has(M, m) \/ m = n
      BY <1>1, <2>1, <2>2, AddMoves
  <2>4. Cardinality(lost') = lost_counter_' + reported'
      BY <1>1, <1>2, <1>6
  <2>5. Dropped' = Dropped
      BY <1>2, <1>6 DEF Dropped
  <2>6. ASSUME NEW m
        PROVE  /\ Has(Held', m) \/ m \in unwritten \/ m \in Dropped' <=> m \in 1 .. count'
               /\ Has(Held', m) => m \notin unwritten /\ m \notin Dropped'
      BY <1>1, <1>3, <1>4, <2>3, <2>5
  <2> QED
      BY <1>1, <1>2, <1>6, <2>3, <2>4, <2>5, <2>6 DEF Account
<1> QED
    BY <1>5, <1>6 DEF AppendTo

\* Nor does one that is too long for any buffer change what is held.
LEMMA IgnoreOversizedAccount ==
    ASSUME IInv, Account, dtor # "destroyed", IgnoreOversized,
           UNCHANGED <<tmp_buffers_, file, unwritten, in_hand>>
    PROVE  Account'
<1>1. /\ Once(Held) /\ Sorted(Held)
      /\ \A m : Has(Held, m) \/ m \in unwritten \/ m \in Dropped <=> m \in 1 .. count
      /\ \A m : Has(Held, m) => m \notin unwritten /\ m \notin Dropped
      /\ unwritten \cap Dropped = {}
      /\ oversized \cap lost = {}
      /\ Cardinality(lost) = lost_counter_ + reported
    BY DEF Account
<1>2. count \in Nat /\ count' = count + 1
    BY DEF IInv, CountersTyped, IgnoreOversized
<1>3. \A m : m \in 1 .. count' <=> m \in 1 .. count \/ m = count + 1
    BY <1>2
<1>4. count + 1 \notin 1 .. count
    BY <1>2
<1>5. /\ oversized' = oversized \cup {count + 1}
      /\ UNCHANGED <<lost, lost_counter_, reported, unwritten>>
    BY <1>2 DEF IgnoreOversized
<1>6. Dropped' = Dropped \cup {count + 1} /\ count + 1 \notin Dropped
    BY <1>1, <1>4, <1>5 DEF Dropped
<1>7. Held' = Held
    BY DEF Held, IgnoreOversized
<1>8. ASSUME NEW m
      PROVE  /\ Has(Held', m) \/ m \in unwritten' \/ m \in Dropped' <=> m \in 1 .. count'
             /\ Has(Held', m) => m \notin unwritten' /\ m \notin Dropped'
             /\ ~(m \in unwritten' /\ m \in Dropped')
    BY <1>1, <1>3, <1>4, <1>5, <1>6, <1>7
<1>9. oversized' \cap lost' = {} /\ unwritten' \cap Dropped' = {}
    BY <1>1, <1>5, <1>6, <1>8 DEF Dropped
<1> QED
    BY <1>1, <1>5, <1>7, <1>8, <1>9 DEF Account

LEMMA OutputAccount ==
    ASSUME IInv, IInv', Account, Output
    PROVE  Account'
<1>1. /\ Held \in Holdings /\ Once(Held) /\ Sorted(Held) /\ dtor # "destroyed"
      /\ UNCHANGED <<tmp_buffers_, file, unwritten, in_hand, dtor>>
    BY HeldTyped DEF Account, Output, output
<1>2. ASSUME UNCHANGED write_buffers_, AppendTo(log_buffer_)
      PROVE  Account'
  <2>1. Same(Held, Held', {"file", "tmp", "hand", "queue"})
      BY <1>1, <1>2, HeldFields DEF Same
  <2>2. Moved(Held, Held) /\ Held["log"] = <<log_buffer_>>
      BY <1>1, HeldFields DEF Moved
  <2> QED
      BY <1>1, <1>2, <2>1, <2>2, AppendAccount
<1>3. ASSUME write_buffers_' = Append(write_buffers_, log_buffer_), AppendTo(<<>>)
      PROVE  Account'
  <2>1. PICK M \in Holdings :
             /\ Moved(Held, M)
             /\ Same(Held, M, {"file", "tmp", "hand"})
             /\ M["queue"] = Append(write_buffers_, log_buffer_)
             /\ M["log"] = << <<>> >>
      BY <1>1, PushedHeld
  <2>2. Same(M, Held', {"file", "tmp", "hand", "queue"})
      BY <1>1, <1>3, <2>1, HeldFields DEF Same
  <2> QED
      BY <1>1, <1>3, <2>1, <2>2, AppendAccount
<1>4. ASSUME IgnoreOversized
      PROVE  Account'
    BY <1>1, <1>4, IgnoreOversizedAccount
<1> QED
    BY <1>2, <1>3, <1>4 DEF Output

-----------------------------------------------------------------------------
(* The invariant of the account.                                           *)

LInv == IInv /\ ThreadIsGone /\ Account

LEMMA InitLInv == Init => LInv
<1> SUFFICES ASSUME Init PROVE ThreadIsGone /\ Account
    BY InitIInv DEF LInv
<1>1. /\ log_buffer_ = <<>> /\ write_buffers_ = <<>> /\ tmp_buffers_ = <<>>
      /\ in_hand = <<>> /\ file = <<>> /\ count = 0 /\ unwritten = {}
      /\ lost = {} /\ oversized = {} /\ Dropped = {}
      /\ lost_counter_ = 0 /\ reported = 0 /\ dtor = "alive"
    BY DEF Init, Dropped
<1>2. ASSUME NEW w, NEW b, NEW i
      PROVE  ~At(Held, w, b, i)
  <2>1. CASE w \in {"tmp", "queue"}
      BY <1>1, <2>1, HeldFields DEF At
  <2>2. CASE w \in {"file", "hand", "log"}
      BY <1>1, <2>2, HeldFields DEF At
  <2> QED
      BY <2>1, <2>2 DEF At, Where
<1>3. Once(Held) /\ Sorted(Held) /\ \A m : ~Has(Held, m)
    BY <1>2 DEF Once, Sorted, Has
<1>4. Cardinality({}) = 0
    BY FS_EmptySet
<1>5. Account
    BY <1>1, <1>3, <1>4 DEF Account
<1> QED
    BY <1>1, <1>5 DEF ThreadIsGone

LEMMA NextThreadIsGone ==
    ASSUME IInv, ThreadIsGone, [Next]_vars
    PROVE  ThreadIsGone'
<1> USE DEF ThreadIsGone
<1>1. CASE StartLogging
    BY <1>1 DEF StartLogging
<1>2. CASE Output
    BY <1>2 DEF Output
<1>3. CASE Flush
    BY <1>3 DEF Flush
<1>4. ASSUME LogThreadStep
      PROVE  thread \notin {"none", "exited"} /\ dtor' = dtor
    BY <1>4 DEF LogThreadStep, CheckStop, LockAndTest, Wait, AfterTimeout,
                PopBuffer, WriteInHand, Recycle
<1>5. CASE SpuriousWakeUp
    BY <1>5 DEF SpuriousWakeUp
<1>6. CASE WaitTimesOut
    BY <1>6 DEF WaitTimesOut
<1>7. CASE SetStop
    BY <1>7 DEF SetStop
<1>8. CASE DestructorStep
    BY <1>8 DEF DestructorStep, NotifyAll, Join, WriteRest, Notified
<1>9. CASE UNCHANGED vars
    BY <1>9 DEF vars
<1> QED
    BY <1>1, <1>2, <1>3, <1>4, <1>5, <1>6, <1>7, <1>8, <1>9 DEF Next

LEMMA NextAccount ==
    ASSUME IInv, IInv', Account, ThreadIsGone, ThreadIsGone', [Next]_vars
    PROVE  Account'
<1> SUFFICES ASSUME dtor' # "destroyed" PROVE Account'
    BY DEF Account
<1>1. dtor # "destroyed"
    BY DEF ThreadIsGone, Next, StartLogging, Output, Flush, LogThreadStep, CheckStop,
           LockAndTest, Wait, AfterTimeout, PopBuffer, WriteInHand, Recycle,
           SpuriousWakeUp, WaitTimesOut, SetStop, DestructorStep, NotifyAll, Join,
           WriteRest, vars
<1>2. ASSUME UNCHANGED <<log_buffer_, write_buffers_, tmp_buffers_, in_hand, file,
                         unwritten, counters>>
      PROVE  Account'
  <2>1. Held' = Held
      BY <1>2 DEF Held
  <2> QED
      BY <1>1, <1>2, <2>1 DEF Account, Dropped, counters
<1>3. CASE StartLogging
    BY <1>2, <1>3 DEF StartLogging, buffers, output
<1>4. CASE Output
    BY <1>4, OutputAccount
<1>5. CASE Flush
    BY <1>5, FlushAccount
<1>6. CASE CheckStop
    BY <1>2, <1>6 DEF CheckStop, buffers, output
<1>7. CASE LockAndTest
    BY <1>1, <1>7, LockAndTestAccount
<1>8. CASE AfterTimeout
    BY <1>1, <1>8, AfterTimeoutAccount
<1>9. CASE PopBuffer
    BY <1>1, <1>9, PopBufferAccount
<1>10. CASE WriteInHand
    BY <1>1, <1>10, WriteInHandAccount
<1>11. CASE Recycle
    BY <1>2, <1>11 DEF Recycle, output
<1>12. CASE SpuriousWakeUp
    BY <1>2, <1>12 DEF SpuriousWakeUp, buffers, output
<1>13. CASE WaitTimesOut
    BY <1>2, <1>13 DEF WaitTimesOut, buffers, output
<1>14. CASE SetStop
    BY <1>2, <1>14 DEF SetStop, buffers, output
<1>15. CASE NotifyAll
    BY <1>2, <1>15 DEF NotifyAll, buffers, output
<1>16. CASE Join
    BY <1>2, <1>16 DEF Join, buffers, output
<1>17. CASE WriteRest
    BY <1>17 DEF WriteRest
<1>18. CASE Wait
    BY <1>2, <1>18 DEF Wait, buffers, output
<1>19. CASE UNCHANGED vars
    BY <1>2, <1>19 DEF vars, buffers, output
<1> QED
    BY <1>3, <1>4, <1>5, <1>6, <1>7, <1>8, <1>9, <1>10, <1>11, <1>12, <1>13,
       <1>14, <1>15, <1>16, <1>17, <1>18, <1>19
    DEF Next, LogThreadStep, DestructorStep

LEMMA NextLInv == LInv /\ [Next]_vars => LInv'
<1> SUFFICES ASSUME LInv, [Next]_vars PROVE LInv'
    OBVIOUS
<1>1. IInv /\ ThreadIsGone /\ Account
    BY DEF LInv
<1>2. IInv'
    BY <1>1, NextIInv
<1>3. ThreadIsGone'
    BY <1>1, NextThreadIsGone
<1>4. Account'
    BY <1>1, <1>2, <1>3, NextAccount
<1> QED
    BY <1>2, <1>3, <1>4 DEF LInv

LEMMA PlacesAt ==
    /\ \A p : p \in Places <=> \E w, b, i : p = <<w, b, i>> /\ At(Held, w, b, i)
    /\ \A w, b, i : Line(<<w, b, i>>) = Held[w][b][i]
<1>1. \A w : w \in DOMAIN Held <=> w \in Where
    BY HeldFields
<1>2. \A p : p \in Places <=> \E w, b, i : p = <<w, b, i>> /\ At(Held, w, b, i)
  <2> DEFINE InBuffer(w, b) == {<<w, b, i>> : i \in DOMAIN Held[w][b]}
             InQueue(w) == UNION {InBuffer(w, b) : b \in DOMAIN Held[w]}
  <2>1. Places = UNION {InQueue(w) : w \in DOMAIN Held}
      BY DEF Places
  <2>2. \A w, b, p : p \in InBuffer(w, b) <=> \E i \in DOMAIN Held[w][b] : p = <<w, b, i>>
      OBVIOUS
  <2> HIDE DEF InBuffer
  <2>3. \A w, p : p \in InQueue(w) <=> \E b \in DOMAIN Held[w] : p \in InBuffer(w, b)
      OBVIOUS
  <2> HIDE DEF InQueue
  <2>4. \A p : p \in Places <=> \E w \in DOMAIN Held : p \in InQueue(w)
      BY <2>1
  <2>5. ASSUME NEW p, p \in Places
        PROVE  \E w, b, i : p = <<w, b, i>> /\ At(Held, w, b, i)
    <3> PICK w \in DOMAIN Held : p \in InQueue(w)
        BY <2>4, <2>5
    <3> PICK b \in DOMAIN Held[w] : p \in InBuffer(w, b)
        BY <2>3
    <3> PICK i \in DOMAIN Held[w][b] : p = <<w, b, i>>
        BY <2>2
    <3> QED
        BY <1>1 DEF At
  <2>6. ASSUME NEW w, NEW b, NEW i, At(Held, w, b, i)
        PROVE  <<w, b, i>> \in Places
    <3>1. w \in DOMAIN Held /\ b \in DOMAIN Held[w] /\ i \in DOMAIN Held[w][b]
        BY <1>1, <2>6 DEF At
    <3>2. <<w, b, i>> \in InBuffer(w, b)
        BY <2>2, <3>1
    <3> QED
        BY <2>3, <2>4, <3>1, <3>2
  <2> QED
      BY <2>5, <2>6
<1>3. \A w, b, i : Line(<<w, b, i>>) = Held[w][b][i]
    BY DEF Line
<1> QED
    BY <1>2, <1>3

LEMMA LinesAre ==
    ASSUME NEW ws
    PROVE  \A m : m \in LinesIn(ws) <=>
             \E w, b, i : w \in ws /\ At(Held, w, b, i) /\ Held[w][b][i] = m
<1>1. \A m : m \in LinesIn(ws) <=> \E p : p \in Places /\ p[1] \in ws /\ Line(p) = m
    BY DEF LinesIn
<1>2. ASSUME NEW m, m \in LinesIn(ws)
      PROVE  \E w, b, i : w \in ws /\ At(Held, w, b, i) /\ Held[w][b][i] = m
  <2> PICK p : p \in Places /\ p[1] \in ws /\ Line(p) = m
      BY <1>1, <1>2
  <2> PICK w, b, i : p = <<w, b, i>> /\ At(Held, w, b, i)
      BY PlacesAt
  <2>1. w \in ws /\ Held[w][b][i] = m
      BY PlacesAt
  <2> QED
      BY <2>1
<1>3. ASSUME NEW m, NEW w, NEW b, NEW i,
             w \in ws, At(Held, w, b, i), Held[w][b][i] = m
      PROVE  m \in LinesIn(ws)
  <2>1. <<w, b, i>> \in Places /\ <<w, b, i>>[1] \in ws /\ Line(<<w, b, i>>) = m
      BY <1>3, PlacesAt
  <2> QED
      BY <1>1, <2>1
<1> QED
    BY <1>2, <1>3

LEMMA AllLinesAre == \A m : m \in LinesIn(DOMAIN Held) <=> Has(Held, m)
<1>1. \A w, b, i : At(Held, w, b, i) => w \in DOMAIN Held
    BY HeldFields DEF At
<1> QED
    BY <1>1, LinesAre DEF Has

LEMMA LInvAccounts == LInv => NothingUnaccounted
<1> SUFFICES ASSUME IInv, Account, dtor # "destroyed"
             PROVE  /\ \A p, q \in Places : Line(p) = Line(q) => p = q
                    /\ LinesIn(DOMAIN Held) \cup unwritten \cup Dropped = 1 .. count
                    /\ LinesIn(DOMAIN Held) \cap (unwritten \cup Dropped) = {}
                    /\ unwritten \cap Dropped = {}
                    /\ oversized \cap lost = {}
                    /\ Cardinality(lost) = lost_counter_ + reported
    BY DEF LInv, NothingUnaccounted
<1>1. /\ Once(Held)
      /\ \A m : Has(Held, m) \/ m \in unwritten \/ m \in Dropped <=> m \in 1 .. count
      /\ \A m : Has(Held, m) => m \notin unwritten /\ m \notin Dropped
      /\ unwritten \cap Dropped = {}
      /\ oversized \cap lost = {}
      /\ Cardinality(lost) = lost_counter_ + reported
    BY DEF Account
<1>2. ASSUME NEW p \in Places, NEW q \in Places, Line(p) = Line(q)
      PROVE  p = q
  <2> PICK w1, b1, i1 : p = <<w1, b1, i1>> /\ At(Held, w1, b1, i1)
      BY PlacesAt
  <2> PICK w2, b2, i2 : q = <<w2, b2, i2>> /\ At(Held, w2, b2, i2)
      BY PlacesAt
  <2>1. Held[w1][b1][i1] = Held[w2][b2][i2]
      BY <1>2, PlacesAt
  <2>2. w1 = w2 /\ b1 = b2 /\ i1 = i2
      BY <1>1, <2>1 DEF Once
  <2> QED
      BY <2>2
<1>3. \A m : m \in LinesIn(DOMAIN Held) \cup unwritten \cup Dropped <=> m \in 1 .. count
    BY <1>1, AllLinesAre
<1>4. \A m : m \notin LinesIn(DOMAIN Held) \cap (unwritten \cup Dropped)
    BY <1>1, AllLinesAre
<1> QED
    BY <1>1, <1>2, <1>3, <1>4

-----------------------------------------------------------------------------
(* What is overtaken.                                                      *)

\* The lines in buffers; the step uses it with the values after it.
InBuffersPlaces ==
    \A m : m \in InBuffers <=>
        \E w, b, i : /\ w \in {"tmp", "hand", "queue", "log"}
                     /\ At(Held, w, b, i) /\ Held[w][b][i] = m

LEMMA InBuffersAre == InBuffersPlaces
    BY LinesAre DEF InBuffers, InBuffersPlaces

LEMMA InBuffersAfter == InBuffersPlaces'
    BY InBuffersAre, PTL

LEMMA AppendedLines ==
    ASSUME NEW text \in Seq(Nat), NEW buf \in Seq(Nat)
    PROVE  \A k \in ToSet(text \o buf) \ ToSet(text) : k \in ToSet(buf)
<1>1. \A i \in DOMAIN (text \o buf) \ DOMAIN text :
        i - Len(text) \in DOMAIN buf /\ (text \o buf)[i] = buf[i - Len(text)]
    BY ConcatPlaces
<1>2. \A i \in DOMAIN text : (text \o buf)[i] = text[i]
    BY ConcatPlaces
<1> QED
    BY <1>1, <1>2 DEF ToSet

\* If what is written comes from lines that are older than any in the queue and
\* the log buffer, only those in tmp_buffers_ can be older.
LEMMA WriteOvertakes ==
    ASSUME IInv, Account, dtor # "destroyed",
           thread = "writing", WriteInHand, file' # file
    PROVE  \A n \in ToSet(file') \ ToSet(file), m \in InBuffers' :
             m < n => m \in LinesIn({"tmp"})
<1> TAKE n \in ToSet(file') \ ToSet(file), m \in InBuffers'
<1> HAVE m < n
<1>1. /\ file' = file \o in_hand /\ in_hand' = <<>>
      /\ UNCHANGED <<tmp_buffers_, write_buffers_, log_buffer_>>
    BY DEF WriteInHand, WriteLogToFile, WriteLog, buffers
<1>2. PICK j : At(Held, "hand", 1, j) /\ Held["hand"][1][j] = n
  <2>1. file \in Seq(Nat) /\ in_hand \in Seq(Nat)
      BY HeldTyped, HeldFields, PlaceTypes, OneBuffer
  <2>3. n \in ToSet(in_hand)
      BY <1>1, <2>1, AppendedLines
  <2>4. \E k \in DOMAIN in_hand : in_hand[k] = n
      BY <2>3 DEF ToSet
  <2>5. Held["hand"][1] = in_hand /\ DOMAIN Held["hand"] = {1}
      BY HeldFields, OneBuffer
  <2> QED
      BY <2>4, <2>5 DEF At, Where
<1>3. PICK w, b, i : /\ w \in {"tmp", "hand", "queue", "log"}
                     /\ At(Held', w, b, i) /\ Held'[w][b][i] = m
    BY InBuffersAfter DEF InBuffersPlaces
<1>4. w # "hand"
    BY <1>1, <1>3, HeldFields, OneBuffer DEF At
<1>5. At(Held, w, b, i) /\ Held[w][b][i] = m
    BY <1>1, <1>3, <1>4, HeldFields DEF At
<1>6. w \notin {"queue", "log"}
  <2> SUFFICES ASSUME w \in {"queue", "log"} PROVE FALSE
      OBVIOUS
  <2>1. Before("hand", 1, j, w, b, i)
      BY DEF Before
  <2>2. n < m
      BY <1>2, <1>5, <2>1 DEF Account, Sorted
  <2>3. n \in Nat /\ m \in Nat
      BY <1>2, <1>5, HeldTyped, PlaceTypes
  <2> QED
      BY <2>2, <2>3
<1>7. w = "tmp"
    BY <1>3, <1>4, <1>6
<1> QED
    BY <1>5, <1>7, LinesAre

LEMMA WriteRestOvertakes ==
    ASSUME LInv, WriteRest
    PROVE  \A n \in ToSet(file') \ ToSet(file), m \in InBuffers' :
             m < n => m \in LinesIn({"tmp"})
<1> TAKE n \in ToSet(file') \ ToSet(file), m \in InBuffers'
<1> HAVE m < n
<1>0. PICK queue : queue = IF log_buffer_ = <<>> THEN write_buffers_
                           ELSE Append(write_buffers_, log_buffer_)
    OBVIOUS
<1>1. IInv /\ Account /\ dtor # "destroyed" /\ in_hand = <<>>
    BY DEF LInv, ThreadIsGone, WriteRest, IInv, ControlTyped
<1>2. /\ log_buffer_' = <<>> /\ in_hand' = <<>> /\ tmp_buffers_' = tmp_buffers_
      /\ queue # <<>> /\ write_buffers_' = Tail(queue)
      /\ file' = file \o Head(queue)
    BY <1>0, <1>1 DEF WriteRest, WriteLogToFile, WriteLog, output
<1>3. PICK M \in Holdings :
        /\ Sorted(M) /\ M["queue"] = queue /\ M["tmp"] = tmp_buffers_
  <2>1. CASE log_buffer_ = <<>>
    <3>1. /\ Held \in Holdings /\ Sorted(Held)
          /\ Held["queue"] = queue /\ Held["tmp"] = tmp_buffers_
        BY <1>0, <1>1, <2>1, HeldTyped, HeldFields DEF Account
    <3> QED
        BY <3>1
  <2>2. CASE log_buffer_ # <<>>
    <3>1. PICK M \in Holdings :
             /\ Moved(Held, M)
             /\ Same(Held, M, {"file", "tmp", "hand"})
             /\ M["queue"] = Append(write_buffers_, log_buffer_)
             /\ M["log"] = << <<>> >>
        BY <1>1, PushedHeld
    <3>2. Sorted(M) /\ M["queue"] = queue /\ M["tmp"] = tmp_buffers_
        BY <1>0, <2>2, <3>1, HeldFields DEF Moved, Same
    <3> QED
        BY <3>2
  <2> QED
      BY <2>1, <2>2
<1>4. queue \in Seq(Seq(Nat))
    BY <1>3, PlaceTypes DEF Where
<1>5. /\ 1 \in DOMAIN queue /\ Head(queue) = queue[1] /\ Head(queue) \in Seq(Nat)
      /\ \A b \in DOMAIN Tail(queue) :
            /\ b \in Nat /\ 1 < b + 1 /\ b + 1 \in DOMAIN queue
            /\ Tail(queue)[b] = queue[b + 1]
  <2>1. Len(queue) \in Nat /\ Len(queue) > 0 /\ DOMAIN queue = 1 .. Len(queue)
      BY <1>2, <1>4
  <2>2. Head(queue) = queue[1] /\ queue[1] \in Seq(Nat)
      BY <1>4, <2>1
  <2>3. Len(Tail(queue)) = Len(queue) - 1
        /\ \A b \in 1 .. Len(queue) - 1 : Tail(queue)[b] = queue[b + 1]
      BY <1>2, <1>4
  <2>4. DOMAIN Tail(queue) = 1 .. Len(queue) - 1
      BY <1>2, <1>4
  <2> QED
      BY <2>1, <2>2, <2>3, <2>4
<1>6. PICK j : At(M, "queue", 1, j) /\ M["queue"][1][j] = n
  <2>1. file \in Seq(Nat)
      BY <1>1, HeldTyped, HeldFields, PlaceTypes, OneBuffer
  <2>2. n \in ToSet(Head(queue))
      BY <1>2, <1>5, <2>1, AppendedLines
  <2>3. \E k \in DOMAIN queue[1] : queue[1][k] = n
      BY <1>5, <2>2 DEF ToSet
  <2> QED
      BY <1>3, <1>5, <2>3 DEF At, Where
<1>7. PICK w, b, i : /\ w \in {"tmp", "hand", "queue", "log"}
                     /\ At(Held', w, b, i) /\ Held'[w][b][i] = m
    BY InBuffersAfter DEF InBuffersPlaces
<1>8. w \notin {"hand", "log"}
    BY <1>2, <1>7, HeldFields, OneBuffer DEF At
<1>9. w # "queue"
  <2> SUFFICES ASSUME w = "queue" PROVE FALSE
      OBVIOUS
  <2>1. b \in DOMAIN Tail(queue) /\ i \in DOMAIN Tail(queue)[b] /\ Tail(queue)[b][i] = m
      BY <1>2, <1>7, HeldFields DEF At
  <2>2. At(M, "queue", b + 1, i) /\ M["queue"][b + 1][i] = m
      BY <1>3, <1>5, <2>1 DEF At, Where
  <2>3. Before("queue", 1, j, "queue", b + 1, i)
      BY <1>5, <2>1 DEF Before
  <2>4. n < m
      BY <1>3, <1>6, <2>2, <2>3 DEF Sorted
  <2>5. n \in Nat /\ m \in Nat
      BY <1>6, <2>2, PlaceTypes
  <2> QED
      BY <2>4, <2>5
<1>10. w = "tmp"
    BY <1>7, <1>8, <1>9
<1>11. At(Held, "tmp", b, i) /\ Held["tmp"][b][i] = m
    BY <1>2, <1>7, <1>10, HeldFields DEF At
<1> QED
    BY <1>11, LinesAre

LEMMA StepOvertakes ==
    ASSUME LInv, [Next]_vars
    PROVE  \A n \in ToSet(file') \ ToSet(file), m \in InBuffers' :
             m < n => m \in LinesIn({"tmp"})
<1>1. ASSUME file' = file
      PROVE  \A n \in ToSet(file') \ ToSet(file), m \in InBuffers' :
               m < n => m \in LinesIn({"tmp"})
    BY <1>1
<1>2. CASE WriteInHand
  <2>1. thread = "writing" /\ dtor # "destroyed"
      BY <1>2 DEF LInv, ThreadIsGone, WriteInHand
  <2> QED
      BY <1>1, <1>2, <2>1, WriteOvertakes DEF LInv
<1>3. CASE WriteRest
    BY <1>3, WriteRestOvertakes
<1>4. CASE ~WriteInHand /\ ~WriteRest
  <2>1. file' = file
      BY <1>4 DEF Next, StartLogging, Output, Flush, LogThreadStep, CheckStop,
                  LockAndTest, Wait, AfterTimeout, PopBuffer, Recycle, SpuriousWakeUp,
                  WaitTimesOut, SetStop, DestructorStep, NotifyAll, Join, vars,
                  output
  <2> QED
      BY <1>1, <2>1
<1> QED
    BY <1>2, <1>3, <1>4

-----------------------------------------------------------------------------
\* Every variable of the logger has its type, the log thread has a buffer in hand
\* exactly while it writes, and no buffer in a queue is empty: Flush and Output
\* push a log buffer only if something is in it.
THEOREM TypeCorrect == Spec => []TypeOK
<1>1. IInv /\ [Next]_vars => IInv'
    BY NextIInv
<1> QED
    BY <1>1, InitIInv, IInvTypeOK, PTL DEF Spec

\* However fast the other threads log and however slow the log thread is, at
\* most MaxQueue + 2 full buffers wait for it in write_buffers_, and one fewer in
\* tmp_buffers_: the test of Output, which comes after the push, and the buffers
\* that Flush and the timeout push without a test, cost no more than that.
THEOREM QueuesAreBounded == Spec => []QueueBound
<1>1. IInv /\ [Next]_vars => IInv'
    BY NextIInv
<1>2. IInv => QueueBound
  <2> SUFFICES ASSUME IInv PROVE QueueBound
      OBVIOUS
  <2> QED
      BY ExcessIsSmall, QueueLengths, AsyncFileLoggerAssumption
      DEF IInv, QueueLimit, QueueBound
<1> QED
    BY <1>1, <1>2, InitIInv, PTL DEF Spec

\* While the logger exists, every message of a call of Output is in one place, once:
\* in a buffer, in a file, in the text a file swallowed that could not be opened,
\* dropped with the queue too long, or ignored as longer than a buffer.  The drops
\* of the first kind are those counted and those reported; those of the second are
\* the only ones that the code keeps no account of.  Of all steps that hand buffers
\* over (Output, Flush, the swaps, the pop, the write, the recycling of a buffer)
\* none loses or repeats a line.
THEOREM EveryMessageAccounted == Spec => []NothingUnaccounted
    BY InitLInv, NextLInv, LInvAccounts, PTL DEF Spec

\* When a line is written to the file, by the log thread or by the destructor, every
\* older line that still is in a buffer waits in tmp_buffers_, where the swap has
\* left it: no line is overtaken by one of its own queue, nor by the log buffer.
THEOREM OvertakingIsBounded == Spec => OvertakenWaitInTmp
<1>1. LInv /\ [Next]_vars =>
        \A n \in ToSet(file') \ ToSet(file), m \in InBuffers' :
          m < n => m \in LinesIn({"tmp"})
    BY StepOvertakes
<1> QED
    BY <1>1, InitLInv, NextLInv, PTL DEF Spec, OvertakenWaitInTmp

=============================================================================
