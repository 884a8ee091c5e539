------------------------------ MODULE TcpServer ------------------------------
(***************************************************************************)
(* TcpServer, Acceptor, TcpConnection and Socket (water/net) on one event  *)
(* loop, with its Poller and Channels: connections are accepted, read,     *)
(* written, shut down and lost, while other threads call Send and Shutdown *)
(* through the functors of the loop.                                       *)
(*                                                                         *)
(* The rounds of the loop are those of module EventLoop, without its       *)
(* wake-ups: epoll, the callbacks, the functors.  A message is one call of *)
(* Send, whatever its bytes.  The accepted sockets are blocking: a step    *)
(* that writes stands for the return of write().                           *)
(***************************************************************************)
EXTENDS Naturals, Sequences, FiniteSets

CONSTANTS
    Conns,          \* the peers, and their connections
    Acceptor,       \* the listening socket's channel
    IO,             \* the I/O thread
    Threads,        \* the other threads that call Send and Shutdown
    None,
    StateInit,      \* what state_ may hold uninitialised
    FileLimits,     \* at how many connections accept() fails
    MaxCalls,       \* calls of Send and Shutdown
    Quiet,          \* peers that connect, and do nothing more
    MaxIn           \* unread messages of a peer

ASSUME ServerAssumption ==
    /\ Acceptor \notin Conns
    /\ None \notin Conns
    /\ IO \notin Threads
    /\ StateInit \subseteq {"Disconnected", "Connecting", "Connected",
                            "Disconnecting"}
    /\ FileLimits \subseteq Nat
    /\ MaxCalls \in Nat
    /\ MaxIn \in Nat

VARIABLES
    events_, index_, channels_, epoll,      \* the Poller and its channels
    io,             \* where the I/O thread is
    current,        \* the connection whose event it handles, or None
    revents_,       \* of every channel: reported by epoll, not yet handled
    funcs_, funcs,  \* the functors of RunInLoop; the loop's swapped vector
    conn_set_, state_, write_buffer_,
    peer,           \* of every peer: none, open, closed or reset
    incoming,       \* of every peer: messages not yet read
    fin,            \* connections that were shut down for writing
    limit,          \* connections that the process may have open
    known,          \* history: connections that user code has been given
    calls,          \* history: how many calls of Send and Shutdown
    written,        \* history: of every connection, messages that were written
    closed          \* history: connections of which HandleClose has run

poller == <<events_, index_, channels_, epoll>>
loop == <<io, current, revents_, funcs>>
conn == <<state_, write_buffer_>>
network == <<peer, incoming>>
vars == <<poller, loop, funcs_, conn_set_, conn, network, fin, limit, known,
          calls, written, closed>>

Channels == Conns \cup {Acceptor}
P == INSTANCE Poller

States == {"Disconnected", "Connecting", "Connected", "Disconnecting"}
Message(t) == [by |-> t, nr |-> calls + 1]
Greeting == [by |-> IO, nr |-> 0]

Init ==
    /\ P!Init
    /\ io = "funcs"     \* user code, before it calls Loop()
    /\ current = None
    /\ revents_ = [c \in Channels |-> {}]
    /\ funcs_ = <<>>
    /\ funcs = <<>>
    /\ conn_set_ = {}
    /\ state_ = [c \in Conns |-> "Connecting"]
    /\ write_buffer_ = [c \in Conns |-> <<>>]
    /\ peer = [c \in Conns |-> "none"]
    /\ incoming = [c \in Conns |-> 0]
    /\ fin = {}
    /\ limit \in FileLimits
    /\ known = {}
    /\ calls = 0
    /\ written = [c \in Conns |-> <<>>]
    /\ closed = {}

-----------------------------------------------------------------------------
(* What a functor does, or the I/O thread at once.                           *)

\* shutdown(SHUT_WR); an error is only logged.
CloseWrite(c) == fin' = fin \cup {c}

BuffersOnly(c, m) ==
    /\ write_buffer_' = [write_buffer_ EXCEPT ![c] = Append(@, m)]
    /\ UNCHANGED poller

\* Looks at no state: a closed or shut down connection takes the message too.
SendInLoop(c, m) ==
    /\ write_buffer_' = [write_buffer_ EXCEPT ![c] = Append(@, m)]
    /\ IF P!IsWriting(c) THEN UNCHANGED poller ELSE P!EnableWriting(c)

ClosesAtOnce(c) ==
    IF state_[c] = "Connected"
    THEN /\ state_' = [state_ EXCEPT ![c] = "Disconnecting"]
         /\ CloseWrite(c)
    ELSE UNCHANGED <<state_, fin>>

ShutdownInLoop(c) ==
    IF state_[c] = "Connected"
    THEN /\ state_' = [state_ EXCEPT ![c] = "Disconnecting"]
         /\ IF P!IsWriting(c) THEN UNCHANGED fin ELSE CloseWrite(c)
    ELSE UNCHANGED <<state_, fin>>

-----------------------------------------------------------------------------
(* Calls of user code.                                                       *)

Pending == funcs \o funcs_

\* User code runs in a callback of a connection; in functors and in the
\* callbacks of other channels.
InUserCode == io \in {"callback", "funcs"} \/ (io = "handle" /\ current = None)

QueueInLoop(f) == funcs_' = Append(funcs_, f)

Start ==
    /\ Acceptor \notin channels_
    /\ \A i \in DOMAIN Pending : Pending[i].call # "listen"
    /\ \/ /\ InUserCode
          /\ P!EnableReading(Acceptor)
          /\ UNCHANGED funcs_
       \/ /\ QueueInLoop([call |-> "listen"])
          /\ UNCHANGED poller
    /\ UNCHANGED <<loop, conn_set_, conn, network, fin, limit, known, calls,
                   written, closed>>

\* Of a connection that the user's callback was given.
Calls(c) ==
    /\ c \in known
    /\ calls < MaxCalls
    /\ calls' = calls + 1

Send(t, c) ==
    /\ Calls(c)
    /\ \/ /\ t = IO
          /\ InUserCode
          /\ SendInLoop(c, Message(t))
          /\ UNCHANGED funcs_
       \/ /\ t # IO
          /\ QueueInLoop([call |-> "send", conn |-> c, msg |-> Message(t)])
          /\ UNCHANGED <<poller, write_buffer_>>
    /\ UNCHANGED <<loop, conn_set_, state_, network, fin, limit, known,
                   written, closed>>

Shutdown(t, c) ==
    /\ Calls(c)
    /\ \/ /\ t = IO
          /\ InUserCode
          /\ ShutdownInLoop(c)
          /\ UNCHANGED funcs_
       \/ /\ t # IO
          /\ QueueInLoop([call |-> "shutdown", conn |-> c])
          /\ UNCHANGED <<state_, fin>>
    /\ UNCHANGED <<poller, loop, conn_set_, write_buffer_, network, limit,
                   known, written, closed>>

-----------------------------------------------------------------------------
(* The loop.                                                                 *)

Dispatching == \E c \in Channels : revents_[c] # {}

SwapFuncs ==
    /\ io = "handle"
    /\ ~Dispatching
    /\ current = None
    /\ io' = "funcs"
    /\ funcs' = funcs_
    /\ funcs_' = <<>>
    /\ UNCHANGED <<poller, current, revents_, conn_set_, conn, network, fin,
                   limit, known, calls, written, closed>>

RunFunc ==
    /\ io = "funcs"
    /\ funcs # <<>>
    /\ funcs' = Tail(funcs)
    /\ LET f == Head(funcs)
       IN \/ /\ f.call = "listen"
             /\ P!EnableReading(Acceptor)
             /\ UNCHANGED <<conn, fin>>
          \/ /\ f.call = "send"
             /\ SendInLoop(f.conn, f.msg)
             /\ UNCHANGED <<state_, fin>>
          \/ /\ f.call = "shutdown"
             /\ ShutdownInLoop(f.conn)
             /\ UNCHANGED <<poller, write_buffer_>>
    /\ UNCHANGED <<io, current, revents_, funcs_, conn_set_, network, limit,
                   known, calls, written, closed>>

FuncsDone ==
    /\ io = "funcs"
    /\ funcs = <<>>
    /\ io' = "poll"
    /\ UNCHANGED <<poller, current, revents_, funcs_, funcs, conn_set_, conn,
                   network, fin, limit, known, calls, written, closed>>

Backlog == {c \in Conns \ conn_set_ : peer[c] # "none"}

\* Level triggered; the send buffers of full have no room.
Ready(c, full) ==
    IF c = Acceptor
    THEN IF Backlog # {} THEN {"in"} ELSE {}
    ELSE (IF incoming[c] > 0 \/ peer[c] \in {"closed", "reset"}
          THEN {"in"} ELSE {})
         \cup (IF c \in full THEN {} ELSE {"out"})

\* Returns when a channel is ready, or woken up for a functor.
Poll ==
    /\ io = "poll"
    /\ \E full \in SUBSET {c \in Conns : P!IsWriting(c)} :
         revents_' = [c \in Channels |->
                        IF c \in P!Watched THEN epoll[c] \cap Ready(c, full)
                                           ELSE {}]
    /\ revents_' # revents_ \/ funcs_ # <<>>
    /\ io' = "handle"
    /\ UNCHANGED <<poller, current, funcs_, funcs, conn_set_, conn, network,
                   fin, limit, known, calls, written, closed>>

\* HandleEventSafely: the read callback of a channel, then its write callback.
Handles(c, event) ==
    /\ io = "handle"
    /\ current \in {None, c}
    /\ event \in revents_[c]
    /\ event = "out" => "in" \notin revents_[c]
    /\ revents_' = [revents_ EXCEPT ![c] = @ \ {event}]

Continue(c) == current' = IF "out" \in revents_[c] THEN c ELSE None

-----------------------------------------------------------------------------
(* The Acceptor and the TcpServer.                                           *)

\* Socket::Accept takes a peer from the backlog, or fails without a free
\* descriptor: then the peer stays where it is, and the channel is ready again.
Accept ==
    \/ /\ Cardinality(conn_set_) < limit
       /\ current' \in Backlog
       /\ io' = "greeting"
    \/ /\ Cardinality(conn_set_) >= limit
       /\ UNCHANGED <<current, io>>

AcceptorReadCallback ==
    /\ Handles(Acceptor, "in")
    /\ Accept
    /\ UNCHANGED <<poller, funcs_, funcs, conn_set_, conn, network, fin, limit,
                   known, calls, written, closed>>

\* A write may fail when the peer is gone, and does after CloseWrite.  Nothing
\* handles SIGPIPE: it ends the process, unless the application ignores it.
MayFail(c) == c \in fin \/ peer[c] \in {"closed", "reset"}
MaySucceed(c) == c \notin fin /\ peer[c] # "reset"

NeverRead(c) ==
    /\ io = "greeting"
    /\ current = c
    /\ conn_set_' = conn_set_ \cup {c}
    /\ io' = "handle"
    /\ current' = None
    /\ UNCHANGED <<poller, revents_, funcs_, funcs, conn, network, fin, limit,
                   known, calls, written, closed>>

\* The constructor leaves state_ as it finds it, and begins to read.
TcpConnection(c) ==
    /\ \E s \in StateInit : state_' = [state_ EXCEPT ![c] = s]
    /\ P!EnableReading(c)

\* NewConnection, after its write of 100 MB of test data.
NewConnection(c) ==
    /\ io = "greeting"
    /\ current = c
    /\ \/ /\ MaySucceed(c)
          /\ written' = [written EXCEPT ![c] = Append(@, Greeting)]
       \/ /\ MayFail(c)
          /\ UNCHANGED written
    /\ TcpConnection(c)
    /\ conn_set_' = conn_set_ \cup {c}
    /\ io' = "handle"
    /\ current' = None
    /\ UNCHANGED <<revents_, funcs_, funcs, write_buffer_, network, fin, limit,
                   known, calls, closed>>

-----------------------------------------------------------------------------
(* The TcpConnection.                                                        *)

StillReading(c) ==
    /\ state_' = [state_ EXCEPT ![c] = "Disconnected"]
    /\ IF P!IsWriting(c) THEN P!DisableWriting(c) ELSE UNCHANGED poller
    /\ closed' = closed \cup {c}

\* conn_callback_ and close_callback_ are never set.
HandleClose(c) ==
    /\ state_' = [state_ EXCEPT ![c] = "Disconnected"]
    /\ P!DisableAll(c)
    /\ closed' = closed \cup {c}

\* What there is to read is read and given to the user, who may Send.
ReadData(c) ==
    /\ Handles(c, "in")
    /\ incoming[c] > 0
    /\ incoming' = [incoming EXCEPT ![c] = 0]
    /\ known' = known \cup {c}
    /\ io' = "callback"
    /\ current' = c
    /\ UNCHANGED <<poller, funcs_, funcs, conn_set_, conn, peer, fin, limit, calls,
                   written, closed>>

\* readv returns -1, which the unsigned n makes a large number: the user is
\* called as if data had come.  The next read returns 0.
ReadError(c) ==
    /\ Handles(c, "in")
    /\ incoming[c] = 0
    /\ peer[c] = "reset"
    /\ peer' = [peer EXCEPT ![c] = "closed"]
    /\ known' = known \cup {c}
    /\ io' = "callback"
    /\ current' = c
    /\ UNCHANGED <<poller, funcs_, funcs, conn_set_, conn, incoming, fin, limit,
                   calls, written, closed>>

ReadEnd(c) ==
    /\ Handles(c, "in")
    /\ incoming[c] = 0
    /\ peer[c] = "closed"
    /\ HandleClose(c)
    /\ Continue(c)
    /\ UNCHANGED <<io, funcs_, funcs, conn_set_, write_buffer_, network, fin, limit,
                   known, calls, written>>

CallbackReturns ==
    /\ io = "callback"
    /\ io' = "handle"
    /\ Continue(current)
    /\ UNCHANGED <<poller, revents_, funcs_, funcs, conn_set_, conn, network, fin,
                   limit, known, calls, written, closed>>

\* The channel is not writing any more: somebody has closed it since Poll.
WriteNothing(c) ==
    /\ ~P!IsWriting(c)
    /\ UNCHANGED <<poller, write_buffer_, fin, peer, written>>

NeverCloses(c) ==
    /\ P!IsWriting(c)
    /\ write_buffer_[c] = <<>>
    /\ P!DisableWriting(c)
    /\ UNCHANGED <<write_buffer_, fin, peer, written>>

\* The buffer was found empty: only now does Shutdown get what it asked for.
WriteComplete(c) ==
    /\ P!IsWriting(c)
    /\ write_buffer_[c] = <<>>
    /\ P!DisableWriting(c)
    /\ IF state_[c] = "Disconnecting" THEN CloseWrite(c) ELSE UNCHANGED fin
    /\ UNCHANGED <<write_buffer_, peer, written>>

WriteSome(c) ==
    /\ P!IsWriting(c)
    /\ MaySucceed(c)
    /\ \E n \in 1 .. Len(write_buffer_[c]) :
         /\ written' = [written EXCEPT ![c] =
                          @ \o SubSeq(write_buffer_[c], 1, n)]
         /\ write_buffer_' = [write_buffer_ EXCEPT ![c] =
                                SubSeq(@, n + 1, Len(@))]
    /\ UNCHANGED <<poller, fin, peer>>

\* Retrieve(-1) empties the buffer.  An error of the socket is reported once.
WriteFails(c) ==
    /\ P!IsWriting(c)
    /\ write_buffer_[c] # <<>>
    /\ MayFail(c)
    /\ write_buffer_' = [write_buffer_ EXCEPT ![c] = <<>>]
    /\ peer' = [peer EXCEPT ![c] = IF @ = "reset" THEN "closed" ELSE @]
    /\ UNCHANGED <<poller, fin, written>>

WriteCallback(c) ==
    /\ Handles(c, "out")
    /\ WriteNothing(c) \/ WriteComplete(c) \/ WriteSome(c) \/ WriteFails(c)
    /\ current' = None
    /\ UNCHANGED <<io, funcs_, funcs, conn_set_, state_, incoming, limit, known,
                   calls, closed>>

\* write() raises SIGPIPE.
Killed(c) ==
    /\ MayFail(c)
    /\ \/ io = "greeting" /\ current = c
       \/ /\ io = "handle"
          /\ current \in {None, c}
          /\ revents_[c] = {"out"}
          /\ P!IsWriting(c)
          /\ write_buffer_[c] # <<>>
    /\ io' = "killed"
    /\ current' = None
    /\ revents_' = [d \in Channels |-> {}]
    /\ UNCHANGED <<poller, funcs_, funcs, conn_set_, conn, network, fin, limit,
                   known, calls, written, closed>>

-----------------------------------------------------------------------------
(* The peers.                                                                *)

Connect(c) ==
    /\ peer[c] = "none"
    /\ Acceptor \in P!Watched
    /\ peer' = [peer EXCEPT ![c] = "open"]
    /\ UNCHANGED incoming

PeerSends(c) ==
    /\ c \notin Quiet
    /\ peer[c] = "open"
    /\ incoming[c] < MaxIn
    /\ incoming' = [incoming EXCEPT ![c] = @ + 1]
    /\ UNCHANGED peer

PeerLeaves(c) ==
    /\ peer[c] = "open"
    /\ c \notin Quiet
    /\ \E how \in {"closed", "reset"} : peer' = [peer EXCEPT ![c] = how]
    /\ UNCHANGED incoming

Network ==
    /\ io # "killed"
    /\ \E c \in Conns : Connect(c) \/ PeerSends(c) \/ PeerLeaves(c)
    /\ UNCHANGED <<poller, loop, funcs_, conn_set_, conn, fin, limit, known,
                   calls, written, closed>>

UserCode ==
    /\ io # "killed"
    /\ \/ Start
       \/ \E t \in Threads \cup {IO}, c \in Conns : Send(t, c) \/ Shutdown(t, c)

LoopStep ==
    \/ Poll
    \/ SwapFuncs
    \/ RunFunc
    \/ FuncsDone
    \/ AcceptorReadCallback
    \/ CallbackReturns
    \/ \E c \in Conns :
         \/ NewConnection(c)
         \/ ReadData(c) \/ ReadError(c) \/ ReadEnd(c)
         \/ WriteCallback(c)
         \/ Killed(c)

Next == UserCode \/ LoopStep \/ Network

NoBufferIsFull == \A c \in Conns : P!IsWriting(c) => "out" \in revents_'[c]

(***************************************************************************)
(* The loop runs, and callbacks and blocking writes return.  The peers      *)
(* read what they are sent or go away, so that again and again no send     *)
(* buffer is full when the loop polls.                                     *)
(***************************************************************************)
Spec ==
    /\ Init
    /\ [][Next]_vars
    /\ WF_vars(LoopStep)
    /\ SF_vars(Poll /\ NoBufferIsFull)

-----------------------------------------------------------------------------
(* Properties.                                                               *)

Functors ==
    [call : {"listen"}] \cup [call : {"shutdown"}, conn : Conns]
        \cup [call : {"send"}, conn : Conns,
              msg : [by : Threads, nr : 1 .. MaxCalls]]

\* The type of every variable; a connection is used, and is reported by epoll,
\* only after it was accepted.
TypeOK ==
    /\ P!TypeOK
    /\ io \in {"poll", "handle", "greeting", "callback", "funcs", "killed"}
    /\ current \in Conns \cup {None}
    /\ revents_ \in [Channels -> SUBSET P!Events]
    /\ funcs_ \in Seq(Functors)
    /\ funcs \in Seq(Functors)
    /\ conn_set_ \in SUBSET Conns
    /\ state_ \in [Conns -> States]
    /\ write_buffer_ \in [Conns -> Seq([by : Threads \cup {IO}, nr : 1 .. MaxCalls])]
    /\ peer \in [Conns -> {"none", "open", "closed", "reset"}]
    /\ incoming \in [Conns -> 0 .. MaxIn]
    /\ fin \in SUBSET conn_set_
    /\ limit \in FileLimits
    /\ known \in SUBSET conn_set_
    /\ calls \in 0 .. MaxCalls
    /\ written \in [Conns -> Seq([by : Threads \cup {IO}, nr : 0 .. MaxCalls])]
    /\ closed \in SUBSET conn_set_
    /\ conn_set_ \subseteq channels_
    /\ Cardinality(conn_set_) <= limit

\* What the Poller believes is what epoll does, for the channels of the server.
IndexAgrees == P!IndexAgrees

\* The server uses its channels as the Poller expects: every step is one
\* operation of a channel, or leaves the Poller alone.
UsesPoller == P!Init /\ [][P!Next]_poller

\* What waits to be written is watched for writing, so that WriteCallback will
\* come for it; only HandleClose takes the interest away.
WriteInterest ==
    \A c \in Conns \ closed : write_buffer_[c] # <<>> => P!IsWriting(c)

\* A connection whose end was seen is never read again, whatever is sent or
\* shut down afterwards: no callback of the user after the end of the stream.
ClosedIsNotRead ==
    \A c \in closed : /\ state_[c] = "Disconnected"
                      /\ "in" \notin events_[c] \cup revents_[c]

\* A connection is a stream of messages: whether a message is in a functor, in
\* the buffer or written, it is neither lost before a write fails nor sent
\* twice, those of one thread stay in the order of its calls, and a Shutdown
\* ends the stream only when the buffer is empty.
Stream == INSTANCE MessageStream WITH
    Messages <- [by : Threads \cup {IO}, nr : 0 .. MaxCalls],
    Others <- [call : {"listen"}],
    posted <- Pending,
    pending <- write_buffer_,
    delivered <- written,
    gone <- {c \in Conns : peer[c] \in {"closed", "reset"}},
    ended <- fin
StreamKept == Stream!Spec

\* A message in the buffer is written or a write fails, unless the connection
\* is closed first.
SentIsWritten ==
    \A c \in Conns :
        write_buffer_[c] # <<>>
            ~> write_buffer_[c] = <<>> \/ c \in closed \/ io = "killed"

\* A shutdown that found data to write takes place after it is written.
ShutdownCompletes ==
    \A c \in Conns :
        state_[c] = "Disconnecting" /\ c \in conn_set_ /\ P!IsWriting(c)
            ~> c \in fin \cup closed \/ io = "killed"

\* A peer that connects is accepted, unless the process has as many connections
\* as it may (conn_set_ never shrinks); and the connection of one that leaves is
\* closed.
PeersAreServed ==
    \A c \in Conns :
        /\ peer[c] # "none"
            ~> c \in conn_set_ \/ Cardinality(conn_set_) = limit \/ io = "killed"
        /\ peer[c] \in {"closed", "reset"} /\ c \in conn_set_
            ~> c \in closed \/ io = "killed"

=============================================================================
