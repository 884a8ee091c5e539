-------------------------- MODULE MCEventLoopThread --------------------------
(* Small instances of EventLoopThread for TLC.                             *)
EXTENDS EventLoopThread

CONSTANTS main, other, w1, w2, f1, f2, c1

MCOneCaller == {main}
MCTwoCallers == {main, other}
MCOneWait == {w1}
MCTwoWaits == {w1, w2}
MCTwoFuncs == {f1, f2}
MCOneChan == {c1}

=============================================================================
