----------------------------- MODULE MCTimerQueue -----------------------------
(* A small instance of TimerQueue for TLC.                                 *)
EXTENDS TimerQueue

CONSTANTS t1, t2

MCTwoTimers == {t1, t2}
MCDelays == {-1, 0, 2}
MCIntervals == {2}
MCJumps == {-2, 2}

=============================================================================
