----------------------------- MODULE MCTcpServer -----------------------------
(* A small instance of TcpServer.                                           *)
EXTENDS TcpServer

\* state_ is not initialised: it may look connected, or already disconnecting;
\* every other value behaves like Connecting.
AnyState == {"Connecting", "Connected", "Disconnecting"}

OneOrTwo == 1 .. 2

=============================================================================
