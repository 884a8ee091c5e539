--------------------------- MODULE MessageStream ---------------------------
(***************************************************************************)
(* What a TcpConnection (water/net/tcp_connection.h) promises to those who *)
(* call Send and Shutdown: every connection carries messages to its socket *)
(* once and, for each sender, in the order of its calls; it loses messages *)
(* only when the other side is gone or the stream has ended; and it ends   *)
(* the stream only when no message waits for the socket.                   *)
(***************************************************************************)
EXTENDS Naturals, Sequences

CONSTANTS Conns,
          Messages,     \* records of their sender, by, and their number, nr
          Others        \* requests to the loop that are not about a message

Requests ==
    [call : {"send"}, conn : Conns, msg : Messages]
        \cup [call : {"shutdown"}, conn : Conns] \cup Others

VARIABLES posted,       \* requests on their way to the loop, oldest first
          pending,      \* pending[c]: messages that wait for the socket
          delivered,    \* messages written to the socket
          gone,         \* connections whose other side has left
          ended         \* connections whose stream has ended

vars == <<posted, pending, delivered, gone, ended>>

Init ==
    /\ posted = <<>>
    /\ pending = [c \in Conns |-> <<>>]
    /\ delivered = [c \in Conns |-> <<>>]
    /\ gone = {}
    /\ ended = {}

Carries(r, c) == r.call = "send" /\ r.conn = c

\* The next message of its sender.
New(c, m) ==
    /\ \A i \in DOMAIN delivered[c] :
         delivered[c][i].by = m.by => delivered[c][i].nr < m.nr
    /\ \A i \in DOMAIN pending[c] :
         pending[c][i].by = m.by => pending[c][i].nr < m.nr
    /\ \A i \in DOMAIN posted :
         Carries(posted[i], c) /\ posted[i].msg.by = m.by
            => posted[i].msg.nr < m.nr

Post(r) ==
    /\ r.call = "send" => New(r.conn, r.msg)
    /\ posted' = Append(posted, r)
    /\ UNCHANGED <<pending, delivered, gone, ended>>

Send(c, m) ==
    /\ New(c, m)
    /\ pending' = [pending EXCEPT ![c] = Append(@, m)]
    /\ UNCHANGED <<posted, delivered, gone, ended>>

\* The stream may end when nothing is pending.
Ends(c) ==
    /\ pending[c] = <<>>
    /\ ended' = ended \cup {c}

\* The loop comes to the oldest request.
Take ==
    /\ posted # <<>>
    /\ posted' = Tail(posted)
    /\ LET r == Head(posted)
       IN \/ /\ r.call = "send"
             /\ pending' = [pending EXCEPT ![r.conn] = Append(@, r.msg)]
             /\ UNCHANGED ended
          \/ /\ r.call = "shutdown"
             /\ Ends(r.conn) \/ UNCHANGED ended
             /\ UNCHANGED pending
          \/ /\ r \in Others
             /\ UNCHANGED <<pending, ended>>
    /\ UNCHANGED <<delivered, gone>>

\* Past what is pending: only the first message of all.
Greet(c, m) ==
    /\ delivered[c] = <<>>
    /\ pending[c] = <<>>
    /\ \A i \in DOMAIN posted : ~Carries(posted[i], c)
    /\ delivered' = [delivered EXCEPT ![c] = <<m>>]
    /\ UNCHANGED <<posted, pending, gone, ended>>

Deliver(c) ==
    /\ c \notin ended
    /\ \E n \in 1 .. Len(pending[c]) :
         /\ delivered' = [delivered EXCEPT ![c] = @ \o SubSeq(pending[c], 1, n)]
         /\ pending' = [pending EXCEPT ![c] = SubSeq(@, n + 1, Len(@))]
    /\ UNCHANGED <<posted, gone, ended>>

Lose(c) ==
    /\ c \in gone \cup ended
    /\ pending' = [pending EXCEPT ![c] = <<>>]
    /\ UNCHANGED <<posted, delivered, gone, ended>>

End(c) ==
    /\ Ends(c)
    /\ UNCHANGED <<posted, pending, delivered, gone>>

Leave(c) ==
    /\ gone' = gone \cup {c}
    /\ UNCHANGED <<posted, pending, delivered, ended>>

Next ==
    \/ \E r \in Requests : Post(r)
    \/ Take
    \/ \E c \in Conns :
         \/ \E m \in Messages : Send(c, m) \/ Greet(c, m)
         \/ Deliver(c) \/ Lose(c) \/ End(c) \/ Leave(c)

Spec == Init /\ [][Next]_vars

=============================================================================
