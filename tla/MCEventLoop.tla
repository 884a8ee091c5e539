----------------------------- MODULE MCEventLoop -----------------------------
(* A small instance of EventLoop for TLC.                                   *)
EXTENDS EventLoop

CONSTANTS t1, t2, f1, f2, f3, c1

MCTwoThreads == {t1, t2}
MCThreeFuncs == {f1, f2, f3}
MCOneChan == {c1}

=============================================================================
