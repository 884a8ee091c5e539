----------------------------- MODULE MCMsgBuffer -----------------------------
(* A small instance of MsgBuffer for TLC.                                   *)
EXTENDS MsgBuffer

CONSTANTS p, q

MCBuffers == {p, q}
MCBytes == 0 .. 2
MCData == {<<1>>, <<1, 2>>}
MCNumbers == {<<1>>, <<1, 2>>, <<1, 2, 1, 2>>, <<1, 2, 1, 2, 0, 1, 2, 0>>}
MCBehind == {<<1, 1>>}
MCLens == {1, 2}
MCMaxSize == [b \in MCBuffers |-> IF b = p THEN 7 ELSE 2]

=============================================================================
