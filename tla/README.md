# A verification project for water

water is a small C++ network library: an epoll event loop with timers, a thread
that runs such a loop, serial task queues, an asynchronous file logger, byte
buffers and TCP connections built on them. This directory holds TLA+ modules
translated from its source, TLC configurations that check them on small
instances, and proofs, checked by TLAPS, of what holds for instances of any
size. `PROJECT.json` maps every definition to the source lines it stands for,
and lists the runs, a mutant for each property, the hazards and the theorems.
Paths below are relative to `water/` of the repository.

    tlc -workers 2 -config MCEventLoop.cfg MCEventLoop     # a run
    tlapm EventLoop_proofs.tla                             # the proofs

## 1. The system

| component | state | operations | works with |
| --- | --- | --- | --- |
| `EventLoop` | `looping_`, `quit_`, `calling_funcs_`, `funcs_` and its mutex, an eventfd, `active_channels_` | `Loop`, `set_quit`, `RunInLoop`, `QueueInLoop`, `RunAt/After/Every`, `UpdateChannel`, `RemoveChannel` | polls through `Poller`; any thread pushes functors and writes the eventfd |
| `Poller`, `Channel` | the epoll set, the channel map, each channel's interest and index (`kNew`, `kAdded`, `kDeleted`) | `Poll`, `UpdateChannel`, `RemoveChannel`; `Enable*`, `Disable*`, `HandleEvent` | called in the I/O thread only |
| `TimerQueue`, `Timer`, `Date` | a heap of timers, one timerfd, the vector of expired timers while their callbacks run | `AddTimer`, `HandleRead`, `GetExpired`, `Reset` | a channel of the loop; `AddTimer` goes through `RunInLoop` |
| `SerialTaskQueue` (a `TaskQueue`) | a `std::queue` of tasks, mutex, condition variable, `stop_`, a worker thread | `RunTaskInQueue`, `SyncTaskInQueue`, `WaitAllTaskFinished`, destructor | tasks may submit tasks; the destructor joins |
| `EventLoopThread` | a `SerialTaskQueue` whose worker holds an `EventLoop` on its stack; `loop_`, mutex, condition variable | `Run`, `Stop`, `Wait`, destructor | composes the two |
| `AsyncFileLogger`, `LoggerFile` | the log buffer, a spare one, two queues of full buffers, `stop_flag_`, a counter of lost lines, the open file | `Output`, `Flush`, `StartLogging`, the log thread, destructor | `Logger` sends its lines here |
| `MsgBuffer` | a vector of bytes, read and write index, `init_cap_` | append, prepend, retrieve, `ReadFd`, copy, swap, encoded integers | the buffers of `TcpConnection` |
| `Logger`, `LogStream`, `FixedBuffer`, `Fmt` | a fixed buffer per line; static level and output functions; the formatted second, per thread | `LOG_` statements: a constructor, `operator<<`, a destructor that outputs | the output function, by default stdout |
| `TcpServer`, `Acceptor`, `TcpConnection`, `Socket`, `InetAddress` | listening socket, set of connections, each with a state, two buffers, a channel and callbacks | accept, read, write, send, shutdown, close | all in the I/O thread of the loop, `Send` from any thread |

What is hard in it:

* Threads meet in three places: the functor list with its eventfd, the task
  queue with its condition variable, and the logger's two queues, one of which
  the log thread empties without the mutex. In each of them a notification may
  come too early, too late or not at all.
* Destruction and shutdown: `stop_` and `stop_flag_` are set without the mutex,
  `loop_` outlives the loop it points to, `quit_` is reset by `Loop()`.
* A connection ends in several ways that meet: the peer's close, a failed write,
  `Shutdown` with data still to write, `Send` after any of them.
* User code runs inside the machinery: a functor queues functors while the list
  is being run, a timer's callback adds timers while the expired ones are out of
  the heap.
* Time: timers are kept by the wall clock and served by the monotonic clock.
* Boundaries: the minimum delay of the timerfd, the limit on queued log
  buffers, the compaction test of the byte buffer, the room that is left in a
  log line, integers put together from narrower ones.

What makes the components correct: a queued functor runs exactly once, in order,
without waiting for the poll timeout; accepted tasks run once and in order,
synchronous calls return after everything before them; destructors return;
timers are neither lost nor early nor late nor repeated; each log line is in one
place until it is in the file, and shows what was logged as far as there is room;
a buffer is a queue of bytes whose indices stay inside its vector, and a number is
read back from it as it was put in; a channel is watched as the poller believes;
what is sent on a connection is written in order, before the write side is closed,
and a closed connection is not read again. The list of hazards in `PROJECT.json`
ties each of these to the line where it could go wrong.

## 2. The modules

| module | models | state and actions |
| --- | --- | --- |
| `TaskQueue` | the contract of a serial executor (`base/task_queue.h`) | `pending`, `started`; `Accept`, `StartOldest` |
| `EventLoop` | `net/event_loop.{h,cc}`, `Poller::Poll`, one callback per ready channel | the members by their names; `io` is the program counter of the I/O thread, `waking[t]` says that `t` is between the push and `WakeUp()`; `ran` and `inline` are history |
| `SerialTaskQueue` | `base/serial_task_queue.{h,cc}`, `base/task_queue.h` | `worker` is the program counter of `QueueFunc`, `sync[c]` the promise a caller waits for, `dtor` the destructor's; `started`, `done` and `late` are history |
| `EventLoopThread` | `net/event_loop_thread.{h,cc}` | instantiates `SerialTaskQueue` and `EventLoop` on its own variables; the worker of the one is the I/O thread of the other; `life` is that of the loop on its stack |
| `TimerQueue` | `net/timer_queue.{h,cc}`, `net/timer.{h,cc}`, `RunAt/After/Every` | the heap, the timerfd as the time `left`, `wall` as `Date::Now()`; `io` says where `HandleRead` is; `fired` and `adjusted` are history |
| `AsyncFileLogger` | `base/async_file_logger.{h,cc}` | the members by their names; `thread` and `dtor` are program counters; `oversized`, `lost`, `reported`, `unwritten` are history |
| `ByteQueue` | what a byte buffer is to its user | `content` |
| `MsgBuffer` | `base/msg_buffer.{h,cc}`, `base/funcs.h` | a buffer is a record of its four members; operators compute the new record, the actions apply them; a number is the sequence of its bytes, the most significant first, and `NetworkOrder`, `InMemory` say where they go on a little-endian host |
| `LogStream` | `base/log_stream.{h,cc}` | no variables: a stream is a record of the items asked for, those shown, the offset of `cur_` and the extent written; `Insert` is `operator<<` |
| `Logger` | `base/logger.{h,cc}` | `logger` is the temporary of the current statement and what its destructor has done; `log_stream_` its stream; `last_second` and `last_time_string` the cache of the thread; `unflushed` says whether stdout holds lines back |
| `MessageStream` | what a connection is to its user | for all connections: `posted`, the requests on their way to the loop in one sequence, `pending` and `delivered` per connection, and which connections are `gone` or have `ended`; the steps of a message from the call of `Send` to the socket, and the ways in which it may be lost |
| `Poller` | `net/poller.{h,cc}`, the interest of `net/channel.{h,cc}` | `events_` and `index_` of every channel, the map `channels_`, and `epoll`, the kernel's interest list with the events of each descriptor; one action per `Enable...`, `Disable...` and `Remove` |
| `TcpServer` | `net/tcp_server.*`, `net/acceptor.*`, `net/tcp_connection.*`, `Accept` and `CloseWrite` of `net/socket.cc`, `HandleEventSafely` | instantiates `Poller` on its own variables; `io` says where the I/O thread is, `current` which connection's callback it is in, `revents_` what epoll has reported and is not yet handled; `peer` and `incoming` are the other side; `known`, `calls`, `written`, `closed` are history |
| `*_proofs` | | the theorems about a module; those about `Poller` are in `TcpServer_proofs` |
| `MC*` | | constants for TLC |

Four components implement abstract specifications, checked as properties under a
refinement mapping: `EventLoop` and `SerialTaskQueue` implement `TaskQueue`
(`FunctorsRunInOrder`, `TasksRunInOrder`; for the loop, `pending` is the local
vector of `DoRunInLoopFuncs` followed by `funcs_`), `MsgBuffer` implements
`ByteQueue` (`BytesInOrder`), and `TcpServer` implements `MessageStream`
(`StreamKept`; what is posted are the functors still queued, the local vector
first, and what is pending are the output buffers). `MessageStream`
says that messages reach the socket once and, for each sender, in the order of its
calls, that they are lost only when the other side has left or the stream has
ended, and that the stream ends only when nothing is pending and nothing follows
its end. `TcpServer` also implements `Poller`, and `EventLoopThread` both
`SerialTaskQueue` and `EventLoop`. All of these refinements are proved.

Granularity. A critical section of a mutex is one step, and so is a system call.
Everything a thread does outside of them that another thread can tell apart is a
step of its own: push and `WakeUp()`, `calling_funcs_ = true` and the swap,
setting `stop_` or `stop_flag_` and the notification, the test of the worker or
the log thread and its wait (the only places where a mutex, `task_mutex_` or
`mut_`, is held across two steps, because `stop_` and `stop_flag_` are written and
the destructors notify without it), each `pop` of the log thread. A functor, task or
callback is a step that starts it, whatever its thread may then call, and a step
in which it returns.

What the models abstract:

* `EventLoop`: channels are registered for good and a callback drains its
  descriptor. `RunInLoop` in the I/O thread runs its functor as part of the
  caller's code.
* `EventLoopThread`: callers use the loop only through this class; `Run()` is
  called once (a second `LoopFuncs` in the same queue is not modelled).
* `TimerQueue`: one unit of time is the minimum delay of 100 microseconds; the
  functor list is a sequence, its order and liveness being `EventLoop`'s
  properties.
* `AsyncFileLogger`: lengths are a choice (a line is longer than any buffer or
  not, it fits into a non-empty buffer or not, the file is over its limit or not). The queue that is popped without
  the mutex is a deque whose ends are independent.
* `MsgBuffer`: bytes are small numbers; `size_t` subtraction wraps around at
  `SizeMod`. What lies behind a local variable in memory is any pair of bytes in
  `Behind`.
* `LogStream`: an item is its length, and for integers the digits; doubles, which
  `snprintf` bounds by the same `kMaxNumericSize`, are items of `FormatInteger`.
* `Logger`: the statements of one thread, which shares nothing with those of
  another but the level, the clock and the output. `output_func_` and
  `flush_func_` are the default ones, stdout; they are set before logging starts.
* `TcpServer`: a message is one call of `Send`, so that a partial write ends
  between two of them. The wake-ups of the functor list are `EventLoop`'s. The
  accepted sockets are blocking, and `NewConnection` writes 100 MB of test data
  before it constructs the connection: both are steps that stand for the return
  of `write()` (io = "greeting" in between). `write()` to a peer that is gone, or
  after `CloseWrite`, fails or raises SIGPIPE, which nothing in the repository
  handles (io = "killed"). `state_` takes any value when a connection is
  constructed, as no constructor sets it. Descriptors run out at any number of
  connections in `FileLimits`.

## 3. The runs

Every operation of a module can happen in its passing run.

| run | instance | shows |
| --- | --- | --- |
| `loop` | 2 threads, 3 functors, 1 channel, an event array of 1 | `NoLostWakeUp`, `QueuedFuncRuns`, `FunctorsRunInOrder` |
| `queue` | 4 tasks, 2 callers | `TasksRunInOrder`, `SyncCoversEarlier`, `AtMostOneAfterStop`, `AcceptedTaskRuns`, `JoinsOutsideWindow` |
| `queue_destructor` | 3 tasks, 1 caller | violates `DestructorReturns` |
| `thread` | 2 callers, 2 waits, 2 functors, 1 channel | `RunCallReturns`, `WaitOutlastsLoop`, `StopEndsRunningLoop`, `DestructorJoins` |
| `thread_stop`, `thread_dangling` | 1 caller, 1 wait | violate `StopEndsLoop`, `LoopOutlivesItsUses` |
| `timer` | 2 timers; past, present and future times; the clock to 5, set by -2 or 2 | `HeapIsServed`, `NeverEarly`, `NoTimerLost`, `TimerFires` |
| `logger` | queue limit 1, 5 messages, any `stop_flag_`, `fopen` may fail | `NothingUnaccounted`, `QueueBound`, `OvertakenWaitInTmp`, `LogReachesFile`, `DestructorReturns` |
| `logger_shutdown` | 3 messages | violates `NothingLeftBehind` |
| `buffer` | 2 buffers, data of 1 and 2 bytes, a number of each width, lengths 1 and 2, vectors up to 7 and 2, offset 1, `ext_buffer` of 2 | `IndicesInBounds`, `CapacityFollowsVector`, `BytesInOrder`, `NumbersReadBack` |
| `tcp` | 2 connections, one of them quiet; 1 other thread; 2 calls of `Send` or `Shutdown`; 1 unread message; 1 or 2 connections at most | `IndexAgrees`, `WriteInterest`, `ClosedIsNotRead`, `StreamKept`, `SentIsWritten`, `ShutdownCompletes`, `PeersAreServed` |
| `line` | an array of 24 bytes, `kMaxNumericSize` 6, texts of 0 to 9 bytes, integers at the ends of 8 bits, pointers, 3 items a line, a clock of 2 seconds | `LineInBounds`, `LineFaithful` |

Why the bounds are enough. `loop`: three functors are one that is running, one in
the local vector and one in `funcs_`; two threads and the I/O thread give every
overlap of push and wake-up; an event array of one makes the array fill up and
double. `queue`: four tasks are enough for a synchronous call with a task of
another caller, one of a task and its own in front of or behind it. `timer`: two
timers are a top of the heap and another one, and the clock runs long enough for
a repeating timer to run twice. `logger`: five messages overflow a queue limit of
one, and the bounds of `QueueBound` are reached (they fail when made one
smaller). `buffer`: a vector that can grow, with an offset that is shorter than
the data, makes every way of moving bytes happen, the second iovec of `ReadFd`
included; a number of eight bytes does not fit into the vector for good, but
`NumbersReadBack` appends one to every state without keeping the result.
`line`: a header and a footer leave room for two or three items, so that any of
them, the line number and the newline are left out in some line, items that
follow one left out still fit, and the last byte of the array is written
(`LineInBounds` fails with `SIZE - 1`). `tcp`: two calls are a `Send` and a `Shutdown` in either order and by
either thread, or two messages of one thread; the quiet connection is there to
compete for the loop, for the callbacks of a round and for descriptors. Because
`MaxCalls` is finite a sender always pauses in the end: `SentIsWritten` and
`ShutdownCompletes` say nothing of one that refills the buffer for ever.
Deadlock is checked where
the system cannot stop (`loop`, `timer`, `buffer`); the others end with the
destructor, or with SIGPIPE.

### Fairness

* The threads of the program are scheduled: weak fairness of the steps of the
  I/O thread, the worker, the log thread and of a thread that is already inside
  a call. Functors, tasks and callbacks return.
* Nobody is bound to submit, log, stop or destroy anything.
* `epoll_wait`'s timeout is not fair in `EventLoop`: what holds there holds
  without ever waiting `kPollTimeMs`. The composed `EventLoopThread` assumes it,
  because `set_quit()`, and so `Stop()`, does not wake the loop
  (`StopEndsRunningLoop`).
* The log thread's `wait_for` times out under strong fairness: spurious wake-ups
  do not restart it for ever. A posted timer is run under strong fairness
  although rounds of the timerfd come between; that the functor list delivers is
  `QueuedFuncRuns`.
* The peers of `TcpServer` read what they are sent or go away, so that a poll
  finds every watched send buffer with room again and again
  (`NoBufferIsFull`, strong fairness). No peer has to send, to connect or to
  leave.
* `TimerFires`, and that the timerfd is armed for the earliest timer
  (`HeapIsServed`), hold as long as nobody sets the wall clock.

### Where the code does something else than it says

Four runs show a disagreement, each quoted under "findings":

* `queue_destructor`: `~SerialTaskQueue` sets `stop_` and notifies without the
  mutex. Between the worker's test and its wait the notification is lost, and
  `join` waits for ever. `JoinsOutsideWindow` shows that this is the only case.
* `thread_stop`: a `Stop()` after the publication of the loop and before the
  first line of `Loop()` is undone by `quit_ = false`.
* `thread_dangling`: after the loop has ended, `Stop()` and the destructor write
  through `loop_` into a frame that is gone.
* `logger_shutdown`: the destructor writes one of the buffers that are left.

The destructor of `AsyncFileLogger` notifies without the mutex as well, and the
log thread may miss it between its test and its wait. Only because that wait is a
`wait_for` does `DestructorReturns` hold there; with a plain `wait` TLC finds the
trace of `queue_destructor` again.

Others showed up while modelling and are kept as conditions of the properties
above: the log file is not in the order of logging, because buffers queued while
the log thread drains one queue are written before those that its swap has parked
in the other (`OvertakenWaitInTmp` says that this is the only way to be
overtaken); a wall clock that is set forward makes timers late (the condition
`~adjusted`); `stop_flag_` is never initialised, so that the log thread may end
at once (the condition `stop_flag_` in `LogReachesFile`); a `MsgBuffer` that is
constructed shorter than `BUF_OFFSET` can shrink below its own write index, after
which `WriteableBytes()` wraps around (the assumption `LongEnough` of the
proofs); and because growth swaps `init_cap_` as well, `Retrieve` never gives
memory back, although `base/msg_buffer.h:82` speaks of the initial state
(`CapacityFollowsVector`). `Output` ignores a message that is longer than a buffer,
4 MB, without counting it, so that the number in "log information is lost" leaves
it out: `oversized` holds these messages, and `NothingUnaccounted` says that no
other drop of `Output` goes without account. A line of `Logger`, built in a fixed
array, is never that long.

In buffers and lines:

* `AddInFrontInt32` converts through a `uint16_t` and copies four bytes, two of
  them from behind the variable; `AddInFrontInt64` copies four of eight bytes.
  What they put in front is not the number, so `NumbersReadBack` speaks of one
  and two bytes there. `PeekInt64` asserts four readable bytes and reads eight.
* A pointer's line lacks its last two digits: `cur_` moves by the length of the
  digits, without the "0x". The item counts as shown with its first characters.
* A line that is full to the last but one byte lacks its newline, and the next
  line is glued to it (the last conjunct of `LineFaithful`).
* `LOG_WARN` and everything above it ignore `set_log_level`; `SourceFile` cuts
  the path at the first slash, though the comment in `base/logger.h:28` calls it
  the basename.

On a connection:

* `state_` is not initialised, and `ConnectionEstablished`, the only code that
  sets it to `Connected`, is called by nobody. `Shutdown` therefore works only if
  the memory happens to say so (`ShutdownCompletes` starts from the states that
  took it).
* A read that reports the end of the stream makes `HandleClose` end the interest
  in writing as well: a client that sends its request and closes its own write
  side loses what is still in the output buffer. That is why `SentIsWritten` and
  `WriteInterest` except closed connections.
* `Send` does not look at the state. After `Shutdown` it writes to a closed side,
  which is SIGPIPE; after `HandleClose` it turns the interest in writing on
  again, though never the one in reading (`ClosedIsNotRead`).
* A read error is turned into a large unsigned number and reaches the user's
  callback as if data had come.
* `conn_set_` only grows, so descriptors are never given back; at the limit
  `accept` fails and the level-triggered acceptor is reported in every round. A
  peer is accepted in the end unless `conn_set_` has reached the limit, a
  condition of `PeersAreServed`.

## 4. The proofs

All theorems hold for every value of the constants that satisfies the named
assumptions of the modules (the I/O thread is not one of the others, `NoTask` is
no task, and the like).

`EventLoop_proofs`

* `TypeCorrect`: `TypeOK`, which includes that `looping_` and `calling_funcs_`
  agree with the position of the I/O thread, the facts `NeedsWakeUp` relies on.
* `WakeUpNotLost`: `NoLostWakeUp`. The invariant cannot be inductive by itself,
  since it speaks of the moment before `epoll_wait` only. The strengthening
  (`IInv`) extends it from the swap on to the next return of `epoll_wait`: what
  is in `funcs_` by then was announced (`AnnouncedBeforePoll`); during the
  dispatch it need not be, since the swap is still to come, and no wake-up that
  is eaten there can be missed. It adds that the local vector is empty outside of
  its loop (`LocalVectorEmpty`) and where the I/O thread may be waking itself up
  (`SelfWakeUp`).
* `FunctorsAreExecutedInOrder`: every step of `EventLoop` is a step of
  `TaskQueue` or a stutter. The swap stutters because the local vector is empty
  before it, which is the conjunct of `IInv` it needs.

`SerialTaskQueue_proofs`

* `TypeCorrect`: `TypeOK`.
* `StopLetsOneTaskPass`: `AtMostOneAfterStop`. A task taken after `stop_` is the
  last one taken, and the worker that has taken it goes on to test `stop_`.
* `SyncWaitsForEarlier`: `SyncCoversEarlier`. The tasks that have returned are
  a prefix of those taken.
* `TasksAreExecutedInOrder`: the refinement of `TaskQueue`.

`EventLoopThread_proofs`

* `RunsBothComponents`: every step of the thread is a step of its queue or leaves
  it alone, and likewise of its loop. So what the two modules prove of the safety
  of theirs holds of the composition, and their invariants are a part of its own.
* `TypeCorrect` and `WaitReturnsAfterLoop`: `WaitOutlastsLoop`. The invariant
  adds what ties the queue's worker to the loop (`LifeAgrees`): it is in
  `LoopFuncs` from the publication of the loop to its end, `Loop()` runs only in
  between, and when `LoopFuncs` has returned the loop is gone.

`TimerQueue_proofs`

* `HeapServed`: `HeapIsServed`, `NotEarly`: `NeverEarly`, `TimersKept`:
  `NoTimerLost`, and `TypeCorrect`. The first is nearly inductive: `AddTimerInLoop`
  sets the timerfd exactly if the new timer is the earliest, and `Reset` always
  when a timer is left. What has to be added is where a timer is: it is posted at
  most once (`PostedOnce`); a timer to run was due at the time `HandleRead` read
  (`DueTimers`); and one that has run is not posted again, is in the heap or with
  the handler if it repeats, and in the heap no more if it does not
  (`FiredTimers`).

`MsgBuffer_proofs`, under `LongEnough` (no buffer is constructed shorter than
`BUF_OFFSET`, which no code of the repository does)

* `BuffersStayInBounds`: `IndicesInBounds`, and `CapacityIsTracked`:
  `CapacityFollowsVector`. The invariant is that every buffer is `Good`; each
  operator has a lemma that maps a good buffer to a good one and tells the next
  operator what it needs (`EnsureMakesRoom`: there is room for the bytes). The
  two properties need each other: that `RetrieveAll` does not cut off the write
  index follows from the length being `init_cap_` plus the offset.
* `BytesStayInOrder`: `BytesInOrder`, the refinement of `ByteQueue`. Each operator
  has a second lemma, about the bytes between the indices: `EnsureWritableBytes`
  keeps them, whether it moves them to the front, grows the vector or does
  nothing; an append puts its bytes behind them, in one or, through `ext_buffer`,
  in two pieces; `AddInFront` puts them in front, with or without a new vector.
* `NumbersAreReadBack`: `NumbersReadBack`. A number's bytes are strings like
  others; that the conversion to network order and back is the identity is
  `NumberRoundTrip`, by reversing a sequence twice, for the halves of a 64-bit
  number as well.

`Logger_proofs`

* `LinesStayInBounds`: `LineInBounds`, for any array, texts and integers that
  meet `LoggerAssumption`: a number, with its terminator and the "0x" of a
  pointer, takes at most `kMaxNumericSize` bytes, and an integer is what
  `operator<<` makes of its value. That `Insert` keeps a stream in bounds is one
  lemma, split by the two tests of the code (`Avail() > len`,
  `Avail() >= kMaxNumericSize`); constructors, the destructor and the program's
  items are chains of it.
* `LinesAreFaithful`: `LineFaithful`. The invariant adds that the cached string is
  that of the second that was formatted last, that a line never gets longer than
  its items together, and that a line shows all of them as long as that length
  leaves room for one number more. That the text of an integer denotes it
  (`ConvertDenotes`) needs an induction over the digits, and that `Digits`, a
  recursive function, is what its equation says. The prover instantiates no
  induction rule over predicates; the module does without: from
  `WellFoundedInduction` it takes that a set of numbers that is not empty has a
  least one, hence `Induction` for sets, hence `Iteration` (a function that
  iterates a step exists), of which `Digits` and the two folds `Value` and
  `FullLength` are limits or instances.

`AsyncFileLogger_proofs`

* `TypeCorrect` and `QueuesAreBounded`: `QueueBound`, for every limit of the queue
  and any number of messages. It is not inductive: `Flush`, and the log thread
  after its timeout, push without testing the length, and `Output` tests it after
  its push. The invariant adds why they cannot go on pushing: a push needs a log
  buffer with something in it, and nothing is put into that buffer while the
  queue is over the limit (`QueueLimit`). So the queue outgrows its limit at most
  once before the log thread's swap and, when the swap brought back a queue that
  was already one over, once more after it (`Excess`). Between the two the
  thread empties the queue without `mut_`, which is why the phase it is in
  belongs to the invariant.
* `EveryMessageAccounted`: `NothingUnaccounted`, and `OvertakingIsBounded`:
  `OvertakenWaitInTmp`. Both come from one picture of all places that hold lines
  (`Held`): no line is held twice (`Once`), and the places are in the order in
  which the thread will come to them (`Sorted`), except that what waits in
  `tmp_buffers_` is only known to be older than the log buffer. That a push, the
  swap, a pop, a write and a new line each keep the two is a lemma about the
  values before and after it (`PushMoves`, `SwapMoves`, `PopMoves`, `WriteMoves`,
  `AddMoves`), whoever does it; `Account` says where the other messages are: swallowed, counted
  as lost, or longer than a buffer.

`TcpServer_proofs`

* `PollerAgreesWithEpoll`: `IndexAgrees` for `Poller` itself. With the types it is
  inductive as it is: the index of a channel, its place in the map and the
  kernel's interest list agree after every sequence of operations, `DisableAll`
  on a channel that is disabled already (which registers it again, with no
  events) included. `DisableReading` and `Remove` are proved about, though no code
  of the TCP server calls them before its destructors.
* `ServerUsesPoller`: every step of the server is one operation of `Poller` or
  leaves it alone, so that `ServerPollerAgrees` follows from the above.
* `PendingDataIsWatched`: `WriteInterest`, and `ClosedStaysClosed`:
  `ClosedIsNotRead`. The invariant is their conjunction with the types that
  matter and with `Accepted`: a connection that was not accepted yet is neither
  closed nor read nor reported as readable, and the one being greeted is such a
  connection. Without it `NewConnection` could turn on the reading of a closed
  connection.
* `ConnectionsAreStreams`: `StreamKept`, the refinement of `MessageStream`. On top
  of the invariant above, `Streams`: every functor was issued by a call that is
  over, every message has a number that was given out, so that a new one is the
  last of its sender; a connection outside of `conn_set_` has sent nothing and is
  not watched, so that the greeting comes first; and the local vector is empty
  when the loop is not in `DoRunInLoopFuncs`, so that its swap is a stutter.
* `TypeCorrect`: `TypeOK`, for which `Members` adds that there is a descriptor for
  every connection of `conn_set_`, and one left for the one that is greeted.

Only model-checked is what needs fairness: the prover does not reason about
ENABLED. That is `QueuedFuncRuns`, `AcceptedTaskRuns`, `JoinsOutsideWindow`,
`RunCallReturns`, `StopEndsRunningLoop`, `DestructorJoins`, `TimerFires`,
`LogReachesFile`, `DestructorReturns`, `SentIsWritten`, `ShutdownCompletes` and
`PeersAreServed`. Every invariant, every action property and every refinement of
the passing runs has a theorem.

## 5. Not modelled, and why

* The data race on the logger's `std::queue`, beyond its two ends: what a deque
  does to its map of blocks under a race is undefined. Likewise the race on the
  plain `bool`s `quit_` and `stop_flag_`: the models take the builds that see the
  write at the next test, as an opaque call lies in between.
* `queue_name_` is assigned after the thread that reads it was started: a race on
  a string for display.
* A task that synchronises with its own queue waits for itself at once.
* A `MsgBuffer` after a move keeps its indices and has no vector; no code of the
  repository uses one.
* Addresses, formatting of times, `Date`'s conversions, file names, sockets as
  such. `Fmt` cannot be used: its constructors are declared and never defined.
* Setting `Logger`'s output functions while others log: a race on two
  `std::function`s; and the lifetime of the `AsyncFileLogger` they refer to.
* `ConnectionEstablished`, `ConnectionDestroy` and `Channel::Tie`, which no code
  calls; the destructors of `TcpServer` and `Acceptor`, which run after the loop.

## 6. The plan

1. Done: `TaskQueue`, `EventLoop`, `SerialTaskQueue` and their composition in
   `EventLoopThread`; `TimerQueue`; `AsyncFileLogger`; `ByteQueue` and
   `MsgBuffer` with its numbers; `Poller`, on top of it `TcpServer`, and
   `MessageStream`; `LogStream` and `Logger`; a theorem for every safety property
   of these modules.
2. The safety that liveness rests on, as invariants of their own: whoever waits
   can be named someone who will wake it up (for the worker of `SerialTaskQueue`
   outside the window of its destructor, for a caller of `Run()`, for the thread
   that joins).
3. `Logger` with an `AsyncFileLogger` as its output, so that the end of a program
   that still logs can be stated.
