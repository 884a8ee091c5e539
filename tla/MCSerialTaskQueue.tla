-------------------------- MODULE MCSerialTaskQueue --------------------------
(* Small instances of SerialTaskQueue for TLC.                             *)
EXTENDS SerialTaskQueue

CONSTANTS a, b, c, d, caller1, caller2

MCThreeTasks == {a, b, c}
MCFourTasks == {a, b, c, d}
MCOneCaller == {caller1}
MCTwoCallers == {caller1, caller2}

=============================================================================
