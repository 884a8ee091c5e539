------------------------------- MODULE Logger -------------------------------
(***************************************************************************)
(* Logger (water/base/logger.{h,cc}): a LOG_ statement is a temporary      *)
(* Logger whose constructor puts the time and the level in front of what   *)
(* the program inserts, and whose destructor ends the line and hands it to *)
(* the output function, which is the default one: stdout.                  *)
(*                                                                         *)
(* The module is about the statements of one thread.  A Logger is on the   *)
(* thread's stack and the formatted second is thread_local, so threads     *)
(* share only the wall clock and the level, which change at any moment,    *)
(* and the output.                                                         *)
(***************************************************************************)
EXTENDS LogStream

CONSTANTS NoLogger,
          Width,        \* the length of each fixed text, by its name
          ThreadId, Errno, LineNumber,
          Items,        \* what the program inserts
          Seconds,      \* the wall clock, in seconds
          MaxItems      \* bound of the model: items of the program in a line

TRACE == 0
DEBUG == 1
INFO == 2
WARN == 3
ERROR == 4
FATAL == 5
Levels == TRACE .. FATAL

WellFormed(item) ==
    /\ item.by \in {"Append", "FormatInteger", "ConvertHex"}
    /\ item.len \in Nat
    /\ item.by # "Append" => Extent(item) <= kMaxNumericSize
    /\ item.by = "FormatInteger" =>
         item.what \in Int /\ item = Integer(item.what)

ASSUME LoggerAssumption ==
    /\ Width \in [{"time", "micros", "level", "func", "error", "errno",
                   "dash", "file"} -> Nat]
    /\ \A item \in Items \cup
                  {Integer(ThreadId), Integer(Errno), Integer(LineNumber)} :
         WellFormed(item)
    /\ Seconds \subseteq Nat \ {0}

VARIABLES
    log_level_,         \* Logger::log_level_
    now,                \* the wall clock
    last_second,        \* thread_local: the second that was formatted last,
    last_time_string,   \* and the second that the string shows
    logger,             \* the Logger of the current statement, or NoLogger
    log_stream_,        \* its stream
    unflushed           \* lines are in the buffer of stdout

vars == <<log_level_, now, last_second, last_time_string, logger,
          log_stream_, unflushed>>

Init == /\ log_level_ = DEBUG
        /\ now \in Seconds
        /\ last_second = 0
        /\ last_time_string = 0
        /\ logger = NoLogger
        /\ log_stream_ = Empty
        /\ unflushed = FALSE

-----------------------------------------------------------------------------
(* The parts of a line.                                                    *)

Named(name) == Text(name, Width[name])
Char(c) == Text(c, 1)

SecondPassed == now > last_second
SecondChanged == now # last_second

\* The time of day, the microseconds and the thread.
TimeInFront ==
    Insert(Insert(Insert(Empty, Text(last_time_string', Width["time"])),
                  Named("micros")),
           Integer(ThreadId))

FormatTime ==
    IF SecondChanged
      THEN last_second' = now /\ last_time_string' = now
      ELSE UNCHANGED <<last_second, last_time_string>>

WithLevel(s) == Insert(s, Named("level"))
WithFunc(s) == Insert(Insert(Insert(s, Char("[")), Named("func")),
                      Text("] ", 2))
WithError(s) == Insert(Insert(Insert(Insert(s, Named("error")), Named("errno")),
                              Integer(Errno)),
                       Text(") ", 2))

WithEnd(s) ==
    Insert(Insert(Insert(Insert(Insert(s, Named("dash")), Named("file")),
                         Char(":")),
                  Integer(LineNumber)),
           Char("\n"))

-----------------------------------------------------------------------------
(* The statement.                                                          *)

\* The constructors; items is what the program has inserted.
Construct(level, header) ==
    /\ logger = NoLogger
    /\ FormatTime
    /\ logger' = [level |-> level, date |-> now, items |-> 0, phase |-> "open"]
    /\ log_stream_' = header
    /\ UNCHANGED <<log_level_, now, unflushed>>

\* LOG_TRACE and LOG_DEBUG, which name the function, and LOG_INFO are
\* conditional; the others are not.
LogAt(level) ==
    /\ level <= INFO => log_level_ <= level
    /\ Construct(level, IF level <= DEBUG THEN WithFunc(WithLevel(TimeInFront))
                                          ELSE WithLevel(TimeInFront))

\* LOG_SYSERR, with and without an errno.
LogSysErr == \/ Construct(FATAL, TimeInFront)
             \/ Construct(FATAL, WithError(WithLevel(TimeInFront)))

InsertItem(item) ==
    /\ logger # NoLogger /\ logger.phase = "open"
    /\ logger.items < MaxItems
    /\ logger' = [logger EXCEPT !.items = @ + 1]
    /\ log_stream_' = Insert(log_stream_, item)
    /\ UNCHANGED <<log_level_, now, last_second, last_time_string, unflushed>>

\* The destructor: the rest of the line, the output function, and from ERROR on
\* the flush function.
EndLine ==
    /\ logger # NoLogger /\ logger.phase = "open"
    /\ logger' = [logger EXCEPT !.phase = "output"]
    /\ log_stream_' = WithEnd(log_stream_)
    /\ UNCHANGED <<log_level_, now, last_second, last_time_string, unflushed>>

Gone == logger' = NoLogger /\ log_stream_' = Empty

Output ==
    /\ logger # NoLogger /\ logger.phase = "output"
    /\ unflushed' = TRUE
    /\ IF logger.level >= ERROR
         THEN /\ logger' = [logger EXCEPT !.phase = "flush"]
              /\ UNCHANGED log_stream_
         ELSE Gone
    /\ UNCHANGED <<log_level_, now, last_second, last_time_string>>

Flush ==
    /\ logger # NoLogger /\ logger.phase = "flush"
    /\ unflushed' = FALSE
    /\ Gone
    /\ UNCHANGED <<log_level_, now, last_second, last_time_string>>

-----------------------------------------------------------------------------
(* What others do: set_log_level, and setting the wall clock.              *)

SetLogLevel(level) ==
    /\ log_level_' = level
    /\ UNCHANGED <<now, last_second, last_time_string, logger, log_stream_,
                   unflushed>>

ClockMoves(second) ==
    /\ now' = second
    /\ UNCHANGED <<log_level_, last_second, last_time_string, logger,
                   log_stream_, unflushed>>

Next ==
    \/ \E level \in Levels : LogAt(level) \/ SetLogLevel(level)
    \/ LogSysErr
    \/ \E item \in Items : InsertItem(item)
    \/ EndLine \/ Output \/ Flush
    \/ \E second \in Seconds : ClockMoves(second)

Spec == Init /\ [][Next]_vars

-----------------------------------------------------------------------------
(* Properties.                                                             *)

\* Whatever is inserted, in any order: nothing is written behind the array, the
\* terminators of numbers and the digits that a pointer writes behind cur_
\* included, and a byte is left for the terminator of DebugStr.
LineInBounds ==
    LET s == log_stream_
    IN  /\ {s.cur, s.written} \subseteq Nat
        /\ s.cur <= s.written
        /\ s.written <= SIZE
        /\ s.cur < SIZE

\* The line is what the statement says: its time is that of the statement, though
\* the string is formatted only when the second changes and the clock may be set
\* back; integers are shown as their values; nothing is left out of a line that
\* has room for all of its items and one number more; and only a line that is
\* full to the last but one byte lacks its newline.
Value(digits) ==
    LET value[n \in 0 .. Len(digits)] ==
          IF n = 0 THEN 0 ELSE 10 * value[n - 1] + digits[n]
    IN  value[Len(digits)]

Denoted(text) == IF text.minus THEN -Value(text.digits) ELSE Value(text.digits)

FullLength(items) ==
    LET length[n \in 0 .. Len(items)] ==
          IF n = 0 THEN 0 ELSE length[n - 1] + items[n].len
    IN  length[Len(items)]

LineFaithful ==
    LET s == log_stream_
    IN  logger # NoLogger =>
        /\ s.asked[1].what = logger.date
        /\ \A i \in s.shown : s.asked[i].by = "FormatInteger" =>
             Denoted(s.asked[i].text) = s.asked[i].what
        /\ FullLength(s.asked) + kMaxNumericSize <= SIZE => s.shown = DOMAIN s.asked
        /\ logger.phase # "open" =>
             Len(s.asked) \in s.shown \/ s.cur = SIZE - 1

=============================================================================
