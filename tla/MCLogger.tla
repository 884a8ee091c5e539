------------------------------ MODULE MCLogger ------------------------------
(* A small instance of Logger for TLC.  The texts, the numbers and the array  *)
(* are scaled down together; NullString and the newline keep their lengths.   *)
EXTENDS Logger

MCWidth == [time |-> 2, micros |-> 1, level |-> 1, func |-> 1, error |-> 2,
            errno |-> 1, dash |-> 1, file |-> 2]
MCItems == {Text("a", 1), Text("long", 9), NullString, Text("", 0),
            Integer(0), Integer(-128), Integer(127),
            Pointer("null", 1), Pointer("ptr", 3)}
MCSeconds == {1, 2}

=============================================================================
