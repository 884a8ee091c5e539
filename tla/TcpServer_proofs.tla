--------------------------- MODULE TcpServer_proofs ---------------------------
(***************************************************************************)
(* For any number of connections, threads, messages and descriptors: the    *)
(* server uses its channels as the Poller expects, so that the Poller and   *)
(* epoll agree; what waits to be written is watched for writing; a closed   *)
(* connection is not read again; every connection is a stream of messages   *)
(* (module MessageStream); and the types.                                   *)
(*                                                                         *)
(* The invariant comes in layers, each with a lemma for every action: IInv  *)
(* for the channels, Streams for the messages, Members for the set of       *)
(* connections.                                                            *)
(***************************************************************************)
EXTENDS TcpServer, FiniteSetTheorems, TLAPS

Messages == [by : Threads \cup {IO}, nr : 1 .. MaxCalls]

Types ==
    /\ funcs \in Seq(Functors)
    /\ funcs_ \in Seq(Functors)
    /\ calls \in 0 .. MaxCalls
    /\ state_ \in [Conns -> States]
    /\ write_buffer_ \in [Conns -> Seq(Messages)]
    /\ revents_ \in [Channels -> SUBSET P!Events]
    /\ conn_set_ \in SUBSET Conns

\* Nothing of a connection that was not accepted.
Accepted ==
    /\ io = "greeting" => current \in Conns \ conn_set_
    /\ \A c \in Conns \ conn_set_ :
         c \notin closed /\ "in" \notin events_[c] \cup revents_[c]
    /\ closed \in SUBSET Conns

Poller == P!TypeOK /\ P!IndexAgrees
Server == Types /\ Accepted /\ WriteInterest /\ ClosedIsNotRead
IInv == Poller /\ Server

-----------------------------------------------------------------------------
(* The Poller.                                                               *)

\* Channel::Update with new events keeps the Poller and epoll in agreement.
LEMMA UpdateChannelAgrees ==
    ASSUME Poller, NEW c \in Channels, NEW ev \in SUBSET P!Events,
           P!UpdateChannel(c, ev)
    PROVE  Poller'
<1> USE DEF Poller, P!TypeOK, P!IndexAgrees, P!Watched, P!KNew, P!KAdded,
            P!KDeleted
<1>1. events_' = [events_ EXCEPT ![c] = ev]
  BY DEF P!UpdateChannel
<1>2. CASE P!AddChannel(c, ev)
  <2>1. c \notin DOMAIN epoll
    BY <1>2 DEF P!AddChannel
  <2>2. epoll' = [d \in DOMAIN epoll \cup {c} |-> IF d = c THEN ev ELSE epoll[d]]
    BY <1>2, <2>1 DEF P!AddChannel, P!EpollAdd
  <2>3. P!TypeOK'
    BY <1>1, <1>2, <2>2 DEF P!AddChannel
  <2>4. P!IndexAgrees'
    BY <1>1, <1>2, <2>1, <2>2 DEF P!AddChannel
  <2> QED
    BY <2>3, <2>4
<1>3. CASE P!DropChannel(c, ev)
  <2>1. epoll' = [d \in DOMAIN epoll \ {c} |-> epoll[d]]
    BY <1>3 DEF P!DropChannel, P!EpollDel
  <2>2. P!TypeOK'
    BY <1>1, <1>3, <2>1 DEF P!DropChannel
  <2>3. P!IndexAgrees'
    BY <1>1, <1>3, <2>1 DEF P!DropChannel
  <2> QED
    BY <2>2, <2>3
<1>4. CASE P!ModifyChannel(c, ev)
  <2>1. epoll' = [d \in DOMAIN epoll |-> IF d = c THEN ev ELSE epoll[d]]
    BY <1>4 DEF P!ModifyChannel, P!EpollMod
  <2>2. P!TypeOK'
    BY <1>1, <1>4, <2>1 DEF P!ModifyChannel
  <2>3. P!IndexAgrees'
    BY <1>1, <1>4, <2>1 DEF P!ModifyChannel
  <2> QED
    BY <2>2, <2>3
<1> QED
  BY <1>2, <1>3, <1>4 DEF P!UpdateChannel

\* Channel::Remove does, too.
LEMMA RemoveChannelAgrees ==
    ASSUME Poller, NEW c \in Channels, P!RemoveChannel(c)
    PROVE  Poller'
<1> USE DEF Poller, P!TypeOK, P!IndexAgrees, P!Watched, P!KNew, P!KAdded,
            P!KDeleted
<1>1. epoll' = [d \in DOMAIN epoll \ {c} |-> epoll[d]]
  <2>1. CASE index_[c] = P!KAdded
    BY <2>1 DEF P!RemoveChannel, P!EpollDel
  <2>2. CASE index_[c] # P!KAdded
    <3>1. epoll' = epoll /\ c \notin DOMAIN epoll
      BY <2>2 DEF P!RemoveChannel
    <3>2. epoll = [d \in DOMAIN epoll |-> epoll[d]]
      OBVIOUS
    <3> QED
      BY <3>1, <3>2
  <2> QED
    BY <2>1, <2>2
<1>2. P!TypeOK'
  BY <1>1 DEF P!RemoveChannel
<1>3. P!IndexAgrees'
  BY <1>1 DEF P!RemoveChannel
<1> QED
  BY <1>2, <1>3

\* Every operation of every channel does.
LEMMA PollerStepAgrees ==
    ASSUME Poller, [P!Next]_poller
    PROVE  Poller'
<1>1. CASE UNCHANGED poller
  BY <1>1 DEF poller, Poller, P!TypeOK, P!IndexAgrees, P!Watched
<1>2. CASE P!Next
  <2>1. PICK c \in Channels :
          \/ P!EnableReading(c) \/ P!DisableReading(c) \/ P!EnableWriting(c)
          \/ P!DisableWriting(c) \/ P!DisableAll(c) \/ P!RemoveChannel(c)
    BY <1>2 DEF P!Next
  <2>2. /\ events_[c] \cup {"in"} \in SUBSET P!Events
        /\ events_[c] \ {"in"} \in SUBSET P!Events
        /\ events_[c] \cup {"out"} \in SUBSET P!Events
        /\ events_[c] \ {"out"} \in SUBSET P!Events
        /\ {} \in SUBSET P!Events
    BY <2>1 DEF Poller, P!TypeOK, P!Events
  <2>3. \/ \E ev \in SUBSET P!Events : P!UpdateChannel(c, ev)
        \/ P!RemoveChannel(c)
    BY <2>1, <2>2 DEF P!EnableReading, P!DisableReading, P!EnableWriting,
                      P!DisableWriting, P!DisableAll
  <2> QED
    BY <2>3, UpdateChannelAgrees, RemoveChannelAgrees
<1> QED
  BY <1>1, <1>2

\* What the Poller believes of a channel is what epoll does (poller.cc's
\* index_, channels_ and epoll_ctl), after any sequence of operations.
THEOREM PollerAgreesWithEpoll == P!Spec => [](P!TypeOK /\ P!IndexAgrees)
<1>1. P!Init => Poller
  BY DEF P!Init, Poller, P!TypeOK, P!IndexAgrees, P!Watched, P!KNew,
         P!KAdded, P!KDeleted
<1>2. Poller /\ [P!Next]_(P!vars) => Poller'
  BY PollerStepAgrees DEF poller, P!vars
<1> QED
  BY <1>1, <1>2, PTL DEF P!Spec, Poller

\* Each operation of a channel sets its events_, and no other's.
LEMMA OneChannel ==
    ASSUME NEW c \in Channels
    PROVE  /\ P!EnableReading(c) =>
                P!Next /\ events_' = [events_ EXCEPT ![c] = @ \cup {"in"}]
           /\ P!EnableWriting(c) =>
                P!Next /\ events_' = [events_ EXCEPT ![c] = @ \cup {"out"}]
           /\ P!DisableWriting(c) =>
                P!Next /\ events_' = [events_ EXCEPT ![c] = @ \ {"out"}]
           /\ P!DisableAll(c) =>
                P!Next /\ events_' = [events_ EXCEPT ![c] = {}]
BY DEF P!EnableReading, P!EnableWriting, P!DisableWriting, P!DisableAll,
       P!UpdateChannel, P!Next

-----------------------------------------------------------------------------
(* Send and Shutdown.                                                        *)

Unseen == UNCHANGED <<closed, conn_set_, revents_>>

\* SendInLoop makes sure that somebody comes for the message.
LEMMA SendInLoopStep ==
    ASSUME IInv, NEW c \in Conns, NEW m \in Messages, SendInLoop(c, m)
    PROVE  /\ [P!Next]_poller
           /\ write_buffer_' \in [Conns -> Seq(Messages)]
           /\ \A d \in Conns :
                /\ "in" \in events_'[d] <=> "in" \in events_[d]
                /\ d \notin closed /\ write_buffer_'[d] # <<>> => P!IsWriting(d)'
<1> USE DEF IInv, Server, Types, Poller, P!TypeOK, P!IsWriting, Channels
<1>1. write_buffer_' = [write_buffer_ EXCEPT ![c] = Append(@, m)]
  BY DEF SendInLoop
<1>2. write_buffer_' \in [Conns -> Seq(Messages)]
  BY <1>1
<1>3. CASE "out" \in events_[c]
  <2>1. UNCHANGED <<poller, events_>>
    BY <1>3 DEF SendInLoop, poller
  <2> QED
    BY <1>1, <1>2, <1>3, <2>1 DEF WriteInterest
<1>4. CASE "out" \notin events_[c]
  <2>1. P!EnableWriting(c)
    BY <1>4 DEF SendInLoop
  <2>2. P!Next /\ events_' = [events_ EXCEPT ![c] = @ \cup {"out"}]
    BY <2>1, OneChannel
  <2> QED
    BY <1>1, <1>2, <1>4, <2>2 DEF WriteInterest
<1> QED
  BY <1>3, <1>4

\* ShutdownInLoop does not reopen a closed connection.
LEMMA ShutdownInLoopStep ==
    ASSUME IInv, NEW c \in Conns, ShutdownInLoop(c)
    PROVE  /\ state_' \in [Conns -> States]
           /\ \A d \in closed : state_'[d] = "Disconnected"
BY DEF IInv, Server, Types, Accepted, ClosedIsNotRead, ShutdownInLoop, States

LEMMA ListenStep ==
    ASSUME IInv, P!EnableReading(Acceptor)
    PROVE  /\ [P!Next]_poller
           /\ \A d \in Conns : events_'[d] = events_[d]
<1>1. P!Next /\ events_' = [events_ EXCEPT ![Acceptor] = @ \cup {"in"}]
  BY OneChannel DEF Channels
<1> QED
  BY <1>1, ServerAssumption
     DEF IInv, Poller, P!TypeOK, Channels

\* A step that reports nothing and accepts and closes no connection.
LEMMA QuietStep ==
    ASSUME IInv, Unseen, Types',
           io' = "greeting" => io = "greeting" /\ current' = current,
           \A d \in Conns :
             /\ "in" \in events_'[d] <=> "in" \in events_[d]
             /\ d \notin closed /\ write_buffer_'[d] # <<>> => P!IsWriting(d)',
           \A d \in closed : state_'[d] = "Disconnected"
    PROVE  Server'
<1>1. Accepted'
  BY DEF IInv, Server, Accepted, Unseen
<1>2. WriteInterest'
  BY DEF WriteInterest, Unseen
<1>3. ClosedIsNotRead'
  BY DEF IInv, Server, Accepted, ClosedIsNotRead, Unseen
<1> QED
  BY <1>1, <1>2, <1>3 DEF Server

\* What the lemma asks for when the channels and buffers stay as they are.
LEMMA NothingSent ==
    ASSUME IInv, UNCHANGED <<events_, write_buffer_>>
    PROVE  \A d \in Conns :
             /\ "in" \in events_'[d] <=> "in" \in events_[d]
             /\ d \notin closed /\ write_buffer_'[d] # <<>> => P!IsWriting(d)'
BY DEF IInv, Server, WriteInterest, P!IsWriting

LEMMA StillDisconnected ==
    ASSUME IInv, UNCHANGED state_
    PROVE  \A d \in closed : state_'[d] = "Disconnected"
BY DEF IInv, Server, ClosedIsNotRead

LEMMA QueueStep ==
    ASSUME IInv, NEW f \in Functors, QueueInLoop(f)
    PROVE  funcs_' \in Seq(Functors)
BY DEF IInv, Server, Types, QueueInLoop

LEMMA StartStep ==
    ASSUME IInv, Start
    PROVE  [P!Next]_poller /\ Server'
<1>1. UNCHANGED <<loop, conn_set_, conn, calls, closed>>
  BY DEF Start
<1>2. CASE P!EnableReading(Acceptor) /\ UNCHANGED funcs_
  <2>1. [P!Next]_poller /\ \A d \in Conns : events_'[d] = events_[d]
    BY <1>2, ListenStep
  <2>2. Types'
    BY <1>1, <1>2 DEF IInv, Server, Types, loop, conn
  <2>3. \A d \in Conns :
          /\ "in" \in events_'[d] <=> "in" \in events_[d]
          /\ d \notin closed /\ write_buffer_'[d] # <<>> => P!IsWriting(d)'
    BY <1>1, <2>1 DEF IInv, Server, WriteInterest, P!IsWriting, conn
  <2> QED
    BY <1>1, <2>1, <2>2, <2>3, QuietStep, StillDisconnected
       DEF Unseen, loop, conn
<1>3. CASE QueueInLoop([call |-> "listen"]) /\ UNCHANGED poller
  <2>1. Types'
    BY <1>1, <1>3, QueueStep DEF IInv, Server, Types, Functors, loop, conn
  <2> QED
    BY <1>1, <1>3, <2>1, QuietStep, StillDisconnected, NothingSent
       DEF Unseen, loop, conn, poller
<1> QED
  BY <1>2, <1>3 DEF Start

LEMMA SendStep ==
    ASSUME IInv, NEW t \in Threads \cup {IO}, NEW c \in Conns, Send(t, c)
    PROVE  [P!Next]_poller /\ Server'
<1>1. /\ UNCHANGED <<loop, conn_set_, state_, closed>>
      /\ calls' = calls + 1
      /\ calls' \in 0 .. MaxCalls
  BY ServerAssumption DEF Send, Calls, IInv, Server, Types
<1>2. Message(t) \in Messages
  BY <1>1 DEF Message, Messages, IInv, Server, Types
<1>3. CASE SendInLoop(c, Message(t)) /\ UNCHANGED funcs_
  <2>1. Types'
    BY <1>1, <1>2, <1>3, SendInLoopStep DEF IInv, Server, Types, loop
  <2> QED
    BY <1>1, <1>2, <1>3, <2>1, SendInLoopStep, QuietStep, StillDisconnected
       DEF Unseen, loop
<1>4. CASE /\ t # IO
           /\ QueueInLoop([call |-> "send", conn |-> c, msg |-> Message(t)])
           /\ UNCHANGED <<poller, write_buffer_>>
  <2>1. [call |-> "send", conn |-> c, msg |-> Message(t)] \in Functors
    BY <1>1, <1>4 DEF Message, Functors, IInv, Server, Types
  <2>2. funcs_' \in Seq(Functors)
    BY <1>4, <2>1, QueueStep
  <2>3. Types'
    BY <1>1, <1>4, <2>2 DEF IInv, Server, Types, loop
  <2> QED
    BY <1>1, <1>4, <2>3, QuietStep, StillDisconnected, NothingSent
       DEF Unseen, loop, poller
<1> QED
  BY <1>3, <1>4 DEF Send

LEMMA ShutdownStep ==
    ASSUME IInv, NEW t \in Threads \cup {IO}, NEW c \in Conns, Shutdown(t, c)
    PROVE  [P!Next]_poller /\ Server'
<1>1. /\ UNCHANGED <<poller, loop, conn_set_, write_buffer_, closed>>
      /\ calls' \in 0 .. MaxCalls
  BY ServerAssumption DEF Shutdown, Calls, IInv, Server, Types
<1>2. CASE ShutdownInLoop(c) /\ UNCHANGED funcs_
  <2>1. Types'
    BY <1>1, <1>2, ShutdownInLoopStep DEF IInv, Server, Types, loop
  <2> QED
    BY <1>1, <1>2, <2>1, ShutdownInLoopStep, QuietStep, NothingSent
       DEF Unseen, loop, poller
<1>3. CASE /\ QueueInLoop([call |-> "shutdown", conn |-> c])
           /\ UNCHANGED <<state_, fin>>
  <2>1. Types'
    BY <1>1, <1>3, QueueStep DEF IInv, Server, Types, Functors, loop
  <2> QED
    BY <1>1, <1>3, <2>1, QuietStep, StillDisconnected, NothingSent
       DEF Unseen, loop, poller
<1> QED
  BY <1>2, <1>3 DEF Shutdown

-----------------------------------------------------------------------------
(* The loop.                                                                 *)

LEMMA RunFuncStep ==
    ASSUME IInv, RunFunc
    PROVE  [P!Next]_poller /\ Server'
<1> DEFINE f == Head(funcs)
<1>1. /\ UNCHANGED <<io, current, revents_, funcs_, conn_set_, calls, closed>>
      /\ funcs' = Tail(funcs)
      /\ funcs # <<>>
  BY DEF RunFunc
<1>2. f \in Functors /\ funcs' \in Seq(Functors)
  BY <1>1 DEF IInv, Server, Types
<1>3. CASE f.call = "listen" /\ P!EnableReading(Acceptor) /\ UNCHANGED <<conn, fin>>
  <2>1. [P!Next]_poller /\ \A d \in Conns : events_'[d] = events_[d]
    BY <1>3, ListenStep
  <2>2. Types'
    BY <1>1, <1>2, <1>3 DEF IInv, Server, Types, conn
  <2>3. \A d \in Conns :
          /\ "in" \in events_'[d] <=> "in" \in events_[d]
          /\ d \notin closed /\ write_buffer_'[d] # <<>> => P!IsWriting(d)'
    BY <1>3, <2>1 DEF IInv, Server, WriteInterest, P!IsWriting, conn
  <2> QED
    BY <1>1, <1>3, <2>1, <2>2, <2>3, QuietStep, StillDisconnected
       DEF Unseen, conn
<1>4. CASE f.call = "send" /\ SendInLoop(f.conn, f.msg)
           /\ UNCHANGED <<state_, fin>>
  <2>1. f.conn \in Conns /\ f.msg \in Messages
    BY <1>2, <1>4 DEF Functors, Messages
  <2>2. /\ [P!Next]_poller
        /\ write_buffer_' \in [Conns -> Seq(Messages)]
        /\ \A d \in Conns :
             /\ "in" \in events_'[d] <=> "in" \in events_[d]
             /\ d \notin closed /\ write_buffer_'[d] # <<>> => P!IsWriting(d)'
    BY <1>4, <2>1, SendInLoopStep
  <2>3. Types'
    BY <1>1, <1>2, <1>4, <2>2 DEF IInv, Server, Types
  <2> QED
    BY <1>1, <1>4, <2>2, <2>3, QuietStep, StillDisconnected DEF Unseen
<1>5. CASE f.call = "shutdown" /\ ShutdownInLoop(f.conn)
           /\ UNCHANGED <<poller, write_buffer_>>
  <2>1. f.conn \in Conns
    BY <1>2, <1>5 DEF Functors, Messages
  <2>2. /\ state_' \in [Conns -> States]
        /\ \A d \in closed : state_'[d] = "Disconnected"
    BY <1>5, <2>1, ShutdownInLoopStep
  <2>3. Types'
    BY <1>1, <1>2, <1>5, <2>2 DEF IInv, Server, Types
  <2> QED
    BY <1>1, <1>5, <2>2, <2>3, QuietStep, NothingSent DEF Unseen, poller
<1>6. \/ f.call = "listen" /\ P!EnableReading(Acceptor) /\ UNCHANGED <<conn, fin>>
      \/ /\ f.call = "send" /\ SendInLoop(f.conn, f.msg)
         /\ UNCHANGED <<state_, fin>>
      \/ /\ f.call = "shutdown" /\ ShutdownInLoop(f.conn)
         /\ UNCHANGED <<poller, write_buffer_>>
  BY Zenon DEF RunFunc
<1> QED
  BY <1>3, <1>4, <1>5, <1>6

\* SwapFuncs, FuncsDone and CallbackReturns move the I/O thread on.
LEMMA MovesOn ==
    ASSUME IInv, SwapFuncs \/ FuncsDone \/ CallbackReturns
    PROVE  [P!Next]_poller /\ Server'
<1>1. UNCHANGED <<poller, revents_, conn_set_, conn, calls, closed>>
  BY DEF SwapFuncs, FuncsDone, CallbackReturns
<1>2. io' # "greeting"
  BY DEF SwapFuncs, FuncsDone, CallbackReturns
<1>3. funcs' \in Seq(Functors) /\ funcs_' \in Seq(Functors)
  <2>1. funcs \in Seq(Functors) /\ funcs_ \in Seq(Functors)
    BY DEF IInv, Server, Types
  <2>2. CASE SwapFuncs
    <3>1. funcs' = funcs_ /\ funcs_' = <<>>
      BY <2>2 DEF SwapFuncs
    <3>2. <<>> \in Seq(Functors)
      OBVIOUS
    <3> QED
      BY <2>1, <3>1, <3>2
  <2>3. CASE FuncsDone \/ CallbackReturns
    BY <2>1, <2>3 DEF FuncsDone, CallbackReturns
  <2> QED
    BY <2>2, <2>3
<1>4. Types'
  BY <1>1, <1>3 DEF IInv, Server, Types, conn
<1> QED
  BY <1>1, <1>2, <1>4, QuietStep, StillDisconnected, NothingSent
     DEF Unseen, conn, poller

\* epoll reports what was asked for: nothing to read of a closed connection, or
\* of one that was not accepted.
LEMMA PollStep ==
    ASSUME IInv, Poll
    PROVE  [P!Next]_poller /\ Server'
<1>1. /\ UNCHANGED <<poller, funcs_, funcs, conn_set_, conn, calls, closed>>
      /\ io' = "handle"
  BY DEF Poll
<1>2. PICK full : revents_' = [c \in Channels |->
                     IF c \in P!Watched THEN epoll[c] \cap Ready(c, full)
                                        ELSE {}]
  BY DEF Poll
<1>3. \A c \in Channels : revents_'[c] \subseteq events_[c]
  BY <1>2 DEF IInv, Poller, P!IndexAgrees
<1>4. revents_' \in [Channels -> SUBSET P!Events]
  BY <1>2, <1>3 DEF IInv, Poller, P!TypeOK
<1>5. Types'
  BY <1>1, <1>4 DEF IInv, Server, Types, conn
<1>6. Accepted'
  BY <1>1, <1>3 DEF IInv, Server, Accepted, poller, Channels
<1>7. WriteInterest'
  BY <1>1 DEF IInv, Server, WriteInterest, P!IsWriting, poller, conn
<1>8. ClosedIsNotRead'
  BY <1>1, <1>3
     DEF IInv, Server, Accepted, ClosedIsNotRead, poller, conn, Channels
<1> QED
  BY <1>1, <1>5, <1>6, <1>7, <1>8 DEF Server

-----------------------------------------------------------------------------
(* Callbacks.                                                                *)

\* The report of one event is consumed.
LEMMA Handled ==
    ASSUME IInv, NEW c \in Channels, NEW event, Handles(c, event)
    PROVE  /\ revents_' \in [Channels -> SUBSET P!Events]
           /\ \A d \in Channels : revents_'[d] \subseteq revents_[d]
BY DEF IInv, Server, Types, Handles

\* A callback that changes no channel, buffer or state.
LEMMA HandlerStep ==
    ASSUME IInv, UNCHANGED <<poller, funcs_, funcs, conn_set_, conn, calls, closed>>,
           revents_' \in [Channels -> SUBSET P!Events],
           \A d \in Channels : revents_'[d] \subseteq revents_[d],
           io' = "greeting" => current' \in Conns \ conn_set_
    PROVE  [P!Next]_poller /\ Server'
<1>1. Types'
  BY DEF IInv, Server, Types, conn
<1>2. Accepted'
  BY DEF IInv, Server, Accepted, poller, Channels
<1>3. WriteInterest'
  BY DEF IInv, Server, WriteInterest, P!IsWriting, poller, conn
<1>4. ClosedIsNotRead'
  BY DEF IInv, Server, Accepted, ClosedIsNotRead, poller, conn, Channels
<1> QED
  BY <1>1, <1>2, <1>3, <1>4 DEF Server

LEMMA AcceptorReadCallbackStep ==
    ASSUME IInv, AcceptorReadCallback
    PROVE  [P!Next]_poller /\ Server'
<1>1. Handles(Acceptor, "in") /\ Acceptor \in Channels
  BY DEF AcceptorReadCallback, Channels
<1>2. io' = "greeting" => current' \in Conns \ conn_set_
  BY <1>1 DEF AcceptorReadCallback, Accept, Handles, Backlog
<1> QED
  BY <1>1, <1>2, Handled, HandlerStep DEF AcceptorReadCallback

\* ReadData and ReadError hand the connection to the user.
LEMMA ReadStep ==
    ASSUME IInv, NEW c \in Conns, ReadData(c) \/ ReadError(c)
    PROVE  [P!Next]_poller /\ Server'
<1>1. Handles(c, "in") /\ c \in Channels /\ io' = "callback"
  BY DEF ReadData, ReadError, Channels
<1>2. UNCHANGED <<poller, funcs_, funcs, conn_set_, conn, calls, closed>>
  BY DEF ReadData, ReadError
<1> QED
  BY <1>1, <1>2, Handled, HandlerStep

LEMMA KilledStep ==
    ASSUME IInv, NEW c \in Conns, Killed(c)
    PROVE  [P!Next]_poller /\ Server'
BY HandlerStep DEF Killed, IInv, Server, Types

\* The first read interest of a connection comes with its acceptance.
LEMMA NewConnectionStep ==
    ASSUME IInv, NEW c \in Conns, NewConnection(c)
    PROVE  [P!Next]_poller /\ Server'
<1>1. /\ UNCHANGED <<revents_, funcs_, funcs, write_buffer_, calls, closed>>
      /\ io' = "handle"
      /\ conn_set_' = conn_set_ \cup {c}
      /\ P!EnableReading(c)
      /\ io = "greeting" /\ current = c
  BY DEF NewConnection, TcpConnection
<1>2. PICK st \in StateInit : state_' = [state_ EXCEPT ![c] = st]
  BY DEF NewConnection, TcpConnection
<1>3. P!Next /\ events_' = [events_ EXCEPT ![c] = @ \cup {"in"}]
  BY <1>1, OneChannel DEF Channels
<1>4. c \notin conn_set_ /\ c \notin closed
  BY <1>1 DEF IInv, Server, Accepted
<1>5. Types'
  BY <1>1, <1>2, ServerAssumption DEF IInv, Server, Types, States
<1>6. \A d \in Conns \ {c} : events_'[d] = events_[d] /\ state_'[d] = state_[d]
  BY <1>2, <1>3 DEF IInv, Poller, P!TypeOK, Server, Types, Channels
<1>7. Accepted'
  BY <1>1, <1>6 DEF IInv, Server, Accepted
<1>8. WriteInterest'
  BY <1>1, <1>3
     DEF IInv, Poller, P!TypeOK, Server, WriteInterest, P!IsWriting, Channels
<1>9. ClosedIsNotRead'
  BY <1>1, <1>4, <1>6 DEF IInv, Server, Accepted, ClosedIsNotRead
<1> QED
  BY <1>3, <1>5, <1>7, <1>8, <1>9 DEF Server

\* HandleClose ends all interest in the connection.
LEMMA ReadEndStep ==
    ASSUME IInv, NEW c \in Conns, ReadEnd(c)
    PROVE  [P!Next]_poller /\ Server'
<1>1. /\ UNCHANGED <<io, funcs_, funcs, conn_set_, write_buffer_, calls>>
      /\ state_' = [state_ EXCEPT ![c] = "Disconnected"]
      /\ P!DisableAll(c)
      /\ closed' = closed \cup {c}
      /\ Handles(c, "in")
  BY DEF ReadEnd, HandleClose
<1>2. P!Next /\ events_' = [events_ EXCEPT ![c] = {}]
  BY <1>1, OneChannel DEF Channels
<1>3. /\ revents_' \in [Channels -> SUBSET P!Events]
      /\ \A d \in Channels : revents_'[d] \subseteq revents_[d]
      /\ "in" \notin revents_'[c]
      /\ "in" \in revents_[c]
      /\ io = "handle"
  BY <1>1, Handled DEF Handles, Channels, IInv, Server, Types
<1>4. c \in conn_set_
  BY <1>3 DEF IInv, Server, Accepted
<1>5. \A d \in Conns \ {c} : events_'[d] = events_[d] /\ state_'[d] = state_[d]
  BY <1>1, <1>2 DEF IInv, Poller, P!TypeOK, Server, Types, Channels
<1>6. events_'[c] = {} /\ state_'[c] = "Disconnected"
  BY <1>1, <1>2 DEF IInv, Poller, P!TypeOK, Server, Types, Channels
<1>7. Types'
  BY <1>1, <1>3 DEF IInv, Server, Types, States
<1>8. Accepted'
  BY <1>1, <1>3, <1>4, <1>5, <1>6 DEF IInv, Server, Accepted, Channels
<1>9. WriteInterest'
  BY <1>1, <1>5 DEF IInv, Server, WriteInterest, P!IsWriting
<1>10. ClosedIsNotRead'
  BY <1>1, <1>3, <1>5, <1>6
     DEF IInv, Server, Accepted, ClosedIsNotRead, Channels
<1> QED
  BY <1>2, <1>7, <1>8, <1>9, <1>10 DEF Server

\* Interest in writing ends only where the buffer was found empty.
LEMMA WriteCallbackStep ==
    ASSUME IInv, NEW c \in Conns, WriteCallback(c)
    PROVE  [P!Next]_poller /\ Server'
<1>1. /\ UNCHANGED <<io, funcs_, funcs, conn_set_, state_, calls, closed>>
      /\ Handles(c, "out")
      /\ io = "handle"
  BY DEF WriteCallback, Handles
<1>2. /\ revents_' \in [Channels -> SUBSET P!Events]
      /\ \A d \in Channels : revents_'[d] \subseteq revents_[d]
  BY <1>1, Handled DEF Channels
<1>3. /\ [P!Next]_poller
      /\ write_buffer_' \in [Conns -> Seq(Messages)]
      /\ \A d \in Conns :
           /\ "in" \in events_'[d] <=> "in" \in events_[d]
           /\ d \notin closed /\ write_buffer_'[d] # <<>> => P!IsWriting(d)'
  <2> USE DEF IInv, Server, Types, WriteInterest, P!IsWriting
  <2>1. CASE WriteNothing(c)
    BY <2>1 DEF WriteNothing, poller
  <2>2. CASE WriteComplete(c)
    <3>1. P!DisableWriting(c) /\ write_buffer_[c] = <<>>
          /\ UNCHANGED write_buffer_
      BY <2>2 DEF WriteComplete
    <3>2. P!Next /\ events_' = [events_ EXCEPT ![c] = @ \ {"out"}]
      BY <3>1, OneChannel DEF Channels
    <3> QED
      BY <3>1, <3>2 DEF Poller, P!TypeOK, Channels
  <2>3. CASE WriteSome(c)
    <3>1. PICK n \in 1 .. Len(write_buffer_[c]) :
             write_buffer_' = [write_buffer_ EXCEPT ![c] =
                                SubSeq(@, n + 1, Len(@))]
      BY <2>3 DEF WriteSome
    <3>2. UNCHANGED <<poller, events_>> /\ write_buffer_[c] # <<>>
      BY <2>3, <3>1 DEF WriteSome, poller
    <3> QED
      BY <3>1, <3>2
  <2>4. CASE WriteFails(c)
    BY <2>4 DEF WriteFails, poller
  <2> QED
    BY <2>1, <2>2, <2>3, <2>4 DEF WriteCallback
<1>4. Types'
  BY <1>1, <1>2, <1>3 DEF IInv, Server, Types
<1>5. Accepted'
  BY <1>1, <1>2, <1>3 DEF IInv, Server, Accepted, Channels
<1>6. WriteInterest'
  BY <1>1, <1>3 DEF WriteInterest
<1>7. ClosedIsNotRead'
  BY <1>1, <1>2, <1>3 DEF IInv, Server, Accepted, ClosedIsNotRead, Channels
<1> QED
  BY <1>3, <1>4, <1>5, <1>6, <1>7 DEF Server

-----------------------------------------------------------------------------
(* The channels of the server.                                               *)

LEMMA InitServes == Init => IInv
<1> SUFFICES ASSUME Init PROVE IInv
  OBVIOUS
<1>1. Poller
  BY DEF Init, P!Init, Poller, P!TypeOK, P!IndexAgrees, P!Watched, P!KNew,
         P!KAdded, P!KDeleted
<1>2. Server
  BY ServerAssumption
     DEF Init, P!Init, Server, Types, Accepted, WriteInterest,
         ClosedIsNotRead, States, Channels
<1> QED
  BY <1>1, <1>2 DEF IInv

LEMMA NextServes ==
    ASSUME IInv, [Next]_vars
    PROVE  [P!Next]_poller /\ IInv'
<1>1. [P!Next]_poller /\ Server'
  <2>1. CASE UNCHANGED vars
    BY <2>1, HandlerStep
       DEF vars, loop, conn, IInv, Server, Types, Accepted
  <2>2. CASE UserCode
    BY <2>2, StartStep, SendStep, ShutdownStep DEF UserCode
  <2>3. CASE LoopStep
    BY <2>3, PollStep, MovesOn, RunFuncStep, AcceptorReadCallbackStep,
       NewConnectionStep, ReadStep, ReadEndStep, WriteCallbackStep, KilledStep
       DEF LoopStep
  <2>4. CASE Network
    BY <2>4, HandlerStep
       DEF Network, loop, IInv, Server, Types, Accepted
  <2> QED
    BY <2>1, <2>2, <2>3, <2>4 DEF Next
<1>2. Poller'
  BY <1>1, PollerStepAgrees DEF IInv
<1> QED
  BY <1>1, <1>2 DEF IInv

\* The server's use of its channels (acceptor.cc, tcp_connection.cc) is a run of
\* the Poller of module Poller.
THEOREM ServerUsesPoller == Spec => UsesPoller
<1>1. Init => P!Init
  BY DEF Init
<1>2. IInv /\ [Next]_vars => IInv'
  BY NextServes
<1>3. IInv /\ [Next]_vars => [P!Next]_poller
  BY NextServes
<1> QED
  BY <1>1, <1>2, <1>3, InitServes, PTL DEF Spec, UsesPoller

\* The channels of every connection and of the acceptor are watched as the
\* Poller believes (poller.cc).
THEOREM ServerPollerAgrees == Spec => []IndexAgrees
<1>1. IInv => IndexAgrees
  BY DEF IInv, Poller, IndexAgrees
<1>2. IInv /\ [Next]_vars => IInv'
  BY NextServes
<1> QED
  BY <1>1, <1>2, InitServes, PTL DEF Spec

\* Messages in write_buffer_ wait for a WriteCallback that epoll was asked for
\* (TcpConnection::SendInLoop, WriteCallback), or the connection is closed.
THEOREM PendingDataIsWatched == Spec => []WriteInterest
<1>1. IInv => WriteInterest
  BY DEF IInv, Server
<1>2. IInv /\ [Next]_vars => IInv'
  BY NextServes
<1> QED
  BY <1>1, <1>2, InitServes, PTL DEF Spec

\* HandleClose is final (TcpConnection::HandleClose): Send and Shutdown after it
\* never bring the connection back to reading.
THEOREM ClosedStaysClosed == Spec => []ClosedIsNotRead
<1>1. IInv => ClosedIsNotRead
  BY DEF IInv, Server
<1>2. IInv /\ [Next]_vars => IInv'
  BY NextServes
<1> QED
  BY <1>1, <1>2, InitServes, PTL DEF Spec

-----------------------------------------------------------------------------
(* The messages, from the call of Send to the socket.                        *)

\* A functor is about a connection that user code was given, and carries a
\* message that was sent.
Issued(f) ==
    /\ f.call \in {"send", "shutdown"} => f.conn \in known
    /\ f.call = "send" => f.msg.nr <= calls

\* The messages of s were sent.
Numbered(s) == \A i \in DOMAIN s : s[i].nr <= calls

Written == [by : Threads \cup {IO}, nr : 0 .. MaxCalls]

Streams ==
    /\ known \subseteq conn_set_
    /\ \A i \in DOMAIN Pending : Issued(Pending[i])
    /\ written \in [Conns -> Seq(Written)]
    /\ \A c \in Conns : Numbered(write_buffer_[c]) /\ Numbered(written[c])
    /\ \A c \in Conns \ conn_set_ : /\ write_buffer_[c] = <<>>
                                    /\ written[c] = <<>>
                                    /\ events_[c] \cup revents_[c] = {}
    /\ io # "funcs" => funcs = <<>>

\* The peers, and where the I/O thread is.
Places ==
    /\ io \in {"poll", "handle", "greeting", "callback", "funcs", "killed"}
    /\ current \in Conns \cup {None}
    /\ peer \in [Conns -> {"none", "open", "closed", "reset"}]
    /\ incoming \in [Conns -> 0 .. MaxIn]
    /\ limit \in FileLimits

Serving == IInv /\ Places /\ Streams

StreamStep == [Stream!Next]_(Stream!vars)

\* A step that keeps Streams and is one of the streams.
Flows == Streams' /\ StreamStep

\* The functors of both vectors are one queue.
LEMMA PendingIsQueue ==
    ASSUME Types
    PROVE  /\ Pending \in Seq(Functors)
           /\ \A f \in Functors :
                QueueInLoop(f) /\ UNCHANGED funcs => Pending' = Append(Pending, f)
           /\ funcs # <<>> /\ funcs' = Tail(funcs) /\ UNCHANGED funcs_ =>
                /\ Pending # <<>>
                /\ Pending' = Tail(Pending)
                /\ Head(funcs) = Head(Pending)
           /\ funcs = <<>> /\ funcs' = funcs_ /\ funcs_' = <<>> =>
                UNCHANGED Pending
<1> USE DEF Types, Pending
<1>1. Pending \in Seq(Functors)
  OBVIOUS
<1>2. ASSUME NEW f \in Functors, QueueInLoop(f), UNCHANGED funcs
      PROVE  Pending' = Append(Pending, f)
  BY <1>2 DEF QueueInLoop
<1>3. ASSUME funcs # <<>>, funcs' = Tail(funcs), UNCHANGED funcs_
      PROVE  /\ Pending # <<>>
             /\ Pending' = Tail(Pending)
             /\ Head(funcs) = Head(Pending)
  BY <1>3
<1>4. ASSUME funcs = <<>>, funcs' = funcs_, funcs_' = <<>>
      PROVE  UNCHANGED Pending
  BY <1>4
<1> QED
  BY <1>1, <1>2, <1>3, <1>4

Gone == {c \in Conns : peer[c] \in {"closed", "reset"}}

LEMMA MessageNumbers ==
    ASSUME Serving, NEW c \in Conns
    PROVE  /\ calls \in Nat
           /\ \A i \in DOMAIN write_buffer_[c] :
                write_buffer_[c][i].nr \in Nat /\ write_buffer_[c][i].nr <= calls
           /\ \A i \in DOMAIN written[c] :
                written[c][i].nr \in Nat /\ written[c][i].nr <= calls
<1>1. calls \in 0 .. MaxCalls /\ MaxCalls \in Nat
  BY ServerAssumption DEF Serving, IInv, Server, Types
<1>2. write_buffer_[c] \in Seq(Messages) /\ written[c] \in Seq(Written)
  BY DEF Serving, IInv, Server, Types, Streams
<1>3. Numbered(write_buffer_[c]) /\ Numbered(written[c])
  BY DEF Serving, Streams
<1>4. \A i \in DOMAIN write_buffer_[c] : write_buffer_[c][i].nr \in Nat
  <2>1. \A i \in DOMAIN write_buffer_[c] : write_buffer_[c][i] \in Messages
    BY <1>2
  <2> QED
    BY <1>1, <2>1 DEF Messages
<1>5. \A i \in DOMAIN written[c] : written[c][i].nr \in Nat
  <2>1. \A i \in DOMAIN written[c] : written[c][i] \in Written
    BY <1>2
  <2> QED
    BY <1>1, <2>1 DEF Written
<1> QED
  BY <1>1, <1>3, <1>4, <1>5 DEF Numbered

\* What Streams says of the functors and the messages, when none is added.
LEMMA StreamsKept ==
    ASSUME Serving, UNCHANGED <<Pending, write_buffer_, written, conn_set_>>,
           calls <= calls', calls' \in Nat,
           known \subseteq known', known' \subseteq conn_set_,
           \A c \in Conns \ conn_set_ : events_'[c] \cup revents_'[c] = {},
           io' # "funcs" => funcs' = <<>>
    PROVE  Streams'
<1> USE DEF Serving, IInv, Server, Types, Streams
<1>1. \A i \in DOMAIN Pending' : Issued(Pending[i])'
  <2> SUFFICES ASSUME NEW i \in DOMAIN Pending PROVE Issued(Pending[i])'
    OBVIOUS
  <2>1. Issued(Pending[i]) /\ Pending[i] \in Functors
    BY PendingIsQueue
  <2> QED
    BY <2>1, ServerAssumption DEF Issued, Functors
<1>2. \A c \in Conns : (Numbered(write_buffer_[c]) /\ Numbered(written[c]))'
  BY MessageNumbers DEF Numbered
<1> QED
  BY <1>1, <1>2

\* A step of which the streams notice nothing.
LEMMA StreamRests ==
    ASSUME UNCHANGED <<Pending, write_buffer_, written, fin, Gone>>
    PROVE  StreamStep
BY DEF StreamStep, Stream!vars, Gone

\* A message that is about to be sent follows all others.
LEMMA FreshIsNew ==
    ASSUME Serving, NEW t \in Threads \cup {IO}, NEW c \in Conns
    PROVE  Stream!New(c, Message(t))
<1> USE ServerAssumption DEF Serving, IInv, Server, Types, Streams, Message
<1>1. \A i \in DOMAIN written[c] : written[c][i].nr < calls + 1
  BY MessageNumbers
<1>2. \A i \in DOMAIN write_buffer_[c] : write_buffer_[c][i].nr < calls + 1
  BY MessageNumbers
<1>3. ASSUME NEW i \in DOMAIN Pending, Pending[i].call = "send"
      PROVE  Pending[i].msg.nr < calls + 1
  <2>1. Pending[i] \in Functors /\ Issued(Pending[i])
    BY PendingIsQueue
  <2> QED
    BY <1>3, <2>1 DEF Issued, Functors
<1> QED
  BY <1>1, <1>2, <1>3 DEF Stream!New, Stream!Carries

LEMMA FunctorsAreRequests == Functors \subseteq Stream!Requests
BY ServerAssumption DEF Functors, Stream!Requests

LEMMA QueueFlows ==
    ASSUME Serving, NEW f \in Functors, QueueInLoop(f),
           calls <= calls', calls' \in 0 .. MaxCalls, Issued(f)',
           f.call = "send" => Stream!New(f.conn, f.msg),
           UNCHANGED <<poller, loop, conn_set_, known, write_buffer_, written,
                       fin, peer>>
    PROVE  Flows
<1> USE DEF Serving, IInv, Server, Types, Streams
<1>1. Pending' = Append(Pending, f) /\ Pending \in Seq(Functors)
  BY PendingIsQueue DEF loop
<1>2. StreamStep
  <2>1. f \in Stream!Requests
    BY FunctorsAreRequests
  <2>2. Stream!Post(f)
    BY <1>1 DEF Stream!Post
  <2> QED
    BY <2>1, <2>2 DEF StreamStep, Stream!Next
<1>3. \A i \in DOMAIN Pending' : Issued(Pending[i])'
  <2> SUFFICES ASSUME NEW i \in DOMAIN Pending' PROVE Issued(Pending[i])'
    OBVIOUS
  <2>1. CASE i \in DOMAIN Pending
    <3>1. Pending'[i] = Pending[i] /\ Issued(Pending[i]) /\ Pending[i] \in Functors
      BY <1>1, <2>1
    <3> QED
      BY <3>1, ServerAssumption DEF Issued, Functors
  <2>2. CASE i \notin DOMAIN Pending
    <3>1. Pending'[i] = f
      BY <1>1, <2>2
    <3> QED
      BY <3>1 DEF Issued
  <2> QED
    BY <2>1, <2>2
<1>4. \A c \in Conns : (Numbered(write_buffer_[c]) /\ Numbered(written[c]))'
  BY MessageNumbers DEF Numbered
<1>5. Streams'
  BY <1>3, <1>4 DEF poller, loop
<1> QED
  BY <1>2, <1>5 DEF Flows

\* What SendInLoop does to the buffers and channels, in Streams.
LEMMA SendInLoopKeeps ==
    ASSUME Serving, NEW c \in known, NEW m \in Messages, SendInLoop(c, m),
           m.nr <= calls', calls <= calls', calls' \in Nat,
           UNCHANGED <<written, conn_set_, revents_>>
    PROVE  /\ \A d \in Conns : (Numbered(write_buffer_[d]) /\ Numbered(written[d]))'
           /\ \A d \in Conns \ conn_set_ : /\ write_buffer_'[d] = <<>>
                                           /\ events_'[d] \cup revents_'[d] = {}
<1> USE DEF Serving, IInv, Server, Types, Streams, Poller, P!TypeOK
<1>1. /\ c \in conn_set_ /\ c \in Conns
      /\ write_buffer_' = [write_buffer_ EXCEPT ![c] = Append(@, m)]
  BY DEF SendInLoop
<1>2. ASSUME NEW d \in Conns PROVE (Numbered(write_buffer_[d]) /\ Numbered(written[d]))'
  <2>1. CASE d = c
    <3>1. write_buffer_'[d] = Append(write_buffer_[d], m)
      BY <1>1, <2>1
    <3>2. write_buffer_[d] \in Seq(Messages)
      OBVIOUS
    <3>3. \A i \in DOMAIN write_buffer_'[d] :
            \/ write_buffer_'[d][i] = m
            \/ /\ i \in DOMAIN write_buffer_[d]
               /\ write_buffer_'[d][i] = write_buffer_[d][i]
      BY <3>1, <3>2
    <3>4. \A i \in DOMAIN write_buffer_[d] : write_buffer_[d][i].nr <= calls'
      BY MessageNumbers
    <3> QED
      <4>1. Numbered(write_buffer_[d])'
        BY <3>3, <3>4 DEF Numbered
      <4>2. Numbered(written[d])'
        <5>1. \A i \in DOMAIN written[d] : written[d][i].nr <= calls'
          BY MessageNumbers
        <5>2. written'[d] = written[d]
          OBVIOUS
        <5> QED
          BY <5>1, <5>2 DEF Numbered
      <4> QED
        BY <4>1, <4>2
  <2>2. CASE d # c
    <3>1. write_buffer_'[d] = write_buffer_[d]
      BY <1>1, <2>2
    <3> QED
      BY <3>1, MessageNumbers DEF Numbered
  <2> QED
    BY <2>1, <2>2
<1>3. \A d \in Conns \ {c} : events_'[d] = events_[d]
  <2>1. CASE UNCHANGED poller
    BY <2>1 DEF poller
  <2>2. CASE P!EnableWriting(c)
    BY <1>1, <2>2, OneChannel DEF Channels
  <2> QED
    BY <2>1, <2>2 DEF SendInLoop
<1> QED
  BY <1>1, <1>2, <1>3

\* Shutdown ends a stream only when its buffer is empty: a connection that is
\* not writing, and was not closed, has nothing to write.
LEMMA ShutdownInLoopEnds ==
    ASSUME Serving, NEW c \in Conns, ShutdownInLoop(c)
    PROVE  UNCHANGED fin \/ Stream!Ends(c)
<1>1. c \in closed => UNCHANGED fin
  BY DEF ShutdownInLoop, Serving, IInv, Server, ClosedIsNotRead
<1>2. c \notin closed /\ ~P!IsWriting(c) => write_buffer_[c] = <<>>
  BY DEF Serving, IInv, Server, WriteInterest
<1> QED
  BY <1>1, <1>2 DEF ShutdownInLoop, CloseWrite, Stream!Ends

LEMMA StartFlows ==
    ASSUME Serving, Start
    PROVE  Flows
<1>1. UNCHANGED <<loop, conn_set_, conn, fin, peer, known, calls, written>>
  BY DEF Start, network
<1>2. CASE P!EnableReading(Acceptor) /\ UNCHANGED funcs_
  <2>1. \A d \in Conns : events_'[d] = events_[d]
    BY <1>2, ListenStep DEF Serving
  <2>2. UNCHANGED <<Pending, Gone>>
    BY <1>1, <1>2 DEF Pending, Gone, loop
  <2>3. StreamStep
    BY <1>1, <2>2, StreamRests DEF conn
  <2>4. calls <= calls' /\ calls' \in Nat
    BY <1>1, ServerAssumption DEF Serving, IInv, Server, Types
  <2>5. Streams'
    BY <1>1, <2>1, <2>2, <2>4, StreamsKept DEF Serving, Streams, conn, loop
  <2> QED
    BY <2>3, <2>5 DEF Flows
<1>3. CASE QueueInLoop([call |-> "listen"]) /\ UNCHANGED poller
  <2> DEFINE f == [call |-> "listen"]
  <2>1. f \in Functors /\ f.call = "listen" /\ Issued(f)'
    BY DEF Functors, Issued
  <2>2. calls <= calls' /\ calls' \in 0 .. MaxCalls
    BY <1>1, ServerAssumption DEF Serving, IInv, Server, Types
  <2> HIDE DEF f
  <2> QED
    BY <1>1, <1>3, <2>1, <2>2, QueueFlows DEF f, conn
<1> QED
  BY <1>2, <1>3 DEF Start

LEMMA SendFlows ==
    ASSUME Serving, NEW t \in Threads \cup {IO}, NEW c \in Conns, Send(t, c)
    PROVE  Flows
<1> PICK m : m = Message(t)
  OBVIOUS
<1>1. /\ UNCHANGED <<loop, conn_set_, fin, peer, known, written>>
      /\ c \in known
      /\ calls' = calls + 1
      /\ calls \in Nat
      /\ calls' \in 0 .. MaxCalls
      /\ MaxCalls \in Nat
  BY ServerAssumption DEF Send, Calls, network, Serving, IInv, Server, Types
<1>2. m \in Messages /\ m.nr = calls + 1 /\ m.by = t
  BY <1>1 DEF Message, Messages
<1>3. Stream!New(c, m)
  BY FreshIsNew
<1>4. CASE SendInLoop(c, m) /\ UNCHANGED funcs_
  <2>1. UNCHANGED Pending
    BY <1>1, <1>4 DEF Pending, loop
  <2>2. Stream!Send(c, m)
    BY <1>1, <1>3, <1>4, <2>1 DEF Stream!Send, SendInLoop
  <2>3. StreamStep
    <3>1. m \in Written
      BY <1>1, <1>2 DEF Messages, Written
    <3> QED
      BY <2>2, <3>1 DEF StreamStep, Stream!Next, Written
  <2>4. \A i \in DOMAIN Pending' : Issued(Pending[i])'
    <3> SUFFICES ASSUME NEW i \in DOMAIN Pending PROVE Issued(Pending[i])'
      BY <2>1
    <3>1. Issued(Pending[i]) /\ Pending[i] \in Functors
      BY PendingIsQueue DEF Serving, IInv, Server, Streams
    <3> QED
      BY <1>1, <2>1, <3>1 DEF Issued, Functors
  <2>5. /\ \A d \in Conns : (Numbered(write_buffer_[d]) /\ Numbered(written[d]))'
        /\ \A d \in Conns \ conn_set_ : /\ write_buffer_'[d] = <<>>
                                        /\ events_'[d] \cup revents_'[d] = {}
    BY <1>1, <1>2, <1>4, SendInLoopKeeps DEF loop
  <2>6. Streams'
    BY <1>1, <2>4, <2>5 DEF Serving, Streams, loop
  <2> QED
    BY <2>3, <2>6 DEF Flows
<1>5. CASE /\ t # IO
           /\ QueueInLoop([call |-> "send", conn |-> c, msg |-> m])
           /\ UNCHANGED <<poller, write_buffer_>>
  <2> DEFINE f == [call |-> "send", conn |-> c, msg |-> m]
  <2>1. f \in Functors
    BY <1>1, <1>2, <1>5 DEF Functors, Messages
  <2>2. f.call = "send" /\ f.conn = c /\ f.msg = m /\ Issued(f)'
    BY <1>1, <1>2 DEF Issued
  <2> HIDE DEF f
  <2> QED
    BY <1>1, <1>3, <1>5, <2>1, <2>2, QueueFlows DEF f
<1> QED
  BY <1>4, <1>5 DEF Send

LEMMA ShutdownFlows ==
    ASSUME Serving, NEW t \in Threads \cup {IO}, NEW c \in Conns, Shutdown(t, c)
    PROVE  Flows
<1>1. /\ UNCHANGED <<poller, loop, conn_set_, write_buffer_, peer, known, written>>
      /\ c \in known
      /\ calls <= calls'
      /\ calls' \in 0 .. MaxCalls
      /\ calls' \in Nat
  BY ServerAssumption DEF Shutdown, Calls, network, Serving, IInv, Server, Types
<1>2. CASE ShutdownInLoop(c) /\ UNCHANGED funcs_
  <2>1. UNCHANGED Pending
    BY <1>1, <1>2 DEF Pending, loop
  <2>2. Streams'
    BY <1>1, <2>1, StreamsKept DEF Serving, Streams, poller, loop
  <2>3. UNCHANGED fin \/ Stream!End(c)
    BY <1>1, <1>2, <2>1, ShutdownInLoopEnds DEF Stream!End
  <2>4. CASE UNCHANGED fin
    BY <1>1, <2>1, <2>2, <2>4, StreamRests DEF Flows, Gone
  <2>5. CASE Stream!End(c)
    BY <2>2, <2>5 DEF Flows, StreamStep, Stream!Next
  <2> QED
    BY <2>3, <2>4, <2>5
<1>3. CASE /\ QueueInLoop([call |-> "shutdown", conn |-> c])
           /\ UNCHANGED <<state_, fin>>
  <2> DEFINE f == [call |-> "shutdown", conn |-> c]
  <2>1. f \in Functors /\ f.call = "shutdown" /\ Issued(f)'
    BY <1>1 DEF Functors, Issued
  <2> HIDE DEF f
  <2> QED
    BY <1>1, <1>3, <2>1, QueueFlows DEF f
<1> QED
  BY <1>2, <1>3 DEF Shutdown

\* The loop comes to the oldest request.
LEMMA RunFuncFlows ==
    ASSUME Serving, RunFunc
    PROVE  Flows
<1> PICK f : f = Head(funcs)
  OBVIOUS
<1>1. /\ UNCHANGED <<io, revents_, funcs_, conn_set_, peer, known, calls, written>>
      /\ io = "funcs"
      /\ funcs # <<>>
      /\ funcs' = Tail(funcs)
  BY DEF RunFunc, network
<1>2. /\ Pending # <<>>
      /\ Pending' = Tail(Pending)
      /\ f = Head(Pending)
      /\ Pending \in Seq(Functors)
  BY <1>1, PendingIsQueue DEF Serving, IInv, Server
<1>3. f \in Functors /\ Issued(f)
  <2>1. f = Pending[1] /\ 1 \in DOMAIN Pending
    BY <1>2
  <2> QED
    BY <1>2, <2>1 DEF Serving, Streams
<1>4. \A i \in DOMAIN Pending' : Issued(Pending[i])'
  <2> SUFFICES ASSUME NEW i \in DOMAIN Pending' PROVE Issued(Pending[i])'
    OBVIOUS
  <2>1. i + 1 \in DOMAIN Pending /\ Pending'[i] = Pending[i + 1]
    BY <1>2
  <2>2. Issued(Pending[i + 1])
    BY <2>1 DEF Serving, Streams
  <2> QED
    BY <1>1, <2>1, <2>2 DEF Issued
<1>5. calls \in Nat
  BY ServerAssumption DEF Serving, IInv, Server, Types
<1>6. CASE f.call = "listen" /\ P!EnableReading(Acceptor) /\ UNCHANGED <<conn, fin>>
  <2>1. \A d \in Conns : events_'[d] = events_[d]
    BY <1>6, ListenStep DEF Serving
  <2>2. Streams'
    BY <1>1, <1>4, <1>6, <2>1 DEF Serving, Streams, Numbered, conn
  <2>3. f \in [call : {"listen"}]
    BY <1>3, <1>6 DEF Functors
  <2>4. Stream!Take
    BY <1>1, <1>2, <1>6, <2>3 DEF Stream!Take, conn
  <2> QED
    BY <2>2, <2>4 DEF Flows, StreamStep, Stream!Next
<1>7. CASE f.call = "send" /\ SendInLoop(f.conn, f.msg) /\ UNCHANGED <<state_, fin>>
  <2>1. f.conn \in known /\ f.msg \in Messages /\ f.msg.nr <= calls
    BY <1>3, <1>7 DEF Functors, Messages, Issued
  <2>2. /\ \A d \in Conns : (Numbered(write_buffer_[d]) /\ Numbered(written[d]))'
        /\ \A d \in Conns \ conn_set_ : /\ write_buffer_'[d] = <<>>
                                        /\ events_'[d] \cup revents_'[d] = {}
    BY <1>1, <1>5, <1>7, <2>1, SendInLoopKeeps
  <2>3. Streams'
    BY <1>1, <1>4, <2>2 DEF Serving, Streams
  <2>4. write_buffer_' = [write_buffer_ EXCEPT ![f.conn] = Append(@, f.msg)]
    BY <1>7 DEF SendInLoop
  <2>5. Stream!Take
    BY <1>1, <1>2, <1>7, <2>4 DEF Stream!Take
  <2> QED
    BY <2>3, <2>5 DEF Flows, StreamStep, Stream!Next
<1>8. CASE /\ f.call = "shutdown" /\ ShutdownInLoop(f.conn)
           /\ UNCHANGED <<poller, write_buffer_>>
  <2>1. f.conn \in Conns
    BY <1>3, <1>8 DEF Functors
  <2>2. Stream!Ends(f.conn) \/ UNCHANGED fin
    BY <1>8, <2>1, ShutdownInLoopEnds
  <2>3. Streams'
    BY <1>1, <1>4, <1>8 DEF Serving, Streams, Numbered, poller
  <2>4. Stream!Take
    BY <1>1, <1>2, <1>8, <2>2 DEF Stream!Take
  <2> QED
    BY <2>3, <2>4 DEF Flows, StreamStep, Stream!Next
<1>9. \/ f.call = "listen" /\ P!EnableReading(Acceptor) /\ UNCHANGED <<conn, fin>>
      \/ /\ f.call = "send" /\ SendInLoop(f.conn, f.msg)
         /\ UNCHANGED <<state_, fin>>
      \/ /\ f.call = "shutdown" /\ ShutdownInLoop(f.conn)
         /\ UNCHANGED <<poller, write_buffer_>>
  BY Zenon DEF RunFunc
<1> QED
  BY <1>6, <1>7, <1>8, <1>9

\* A step in which the streams rest.
LEMMA QuietFlows ==
    ASSUME Serving,
           UNCHANGED <<Pending, write_buffer_, written, conn_set_, fin, Gone, calls>>,
           known \subseteq known', known' \subseteq conn_set_,
           \A c \in Conns \ conn_set_ : events_'[c] \cup revents_'[c] = {},
           io' # "funcs" => funcs' = <<>>
    PROVE  Flows
<1>1. calls <= calls' /\ calls' \in Nat
  BY ServerAssumption DEF Serving, IInv, Server, Types
<1>2. Streams'
  BY <1>1, StreamsKept
<1> QED
  BY <1>2, StreamRests DEF Flows

\* What is swapped when nothing is left of the last round.
LEMMA MovesOnFlows ==
    ASSUME Serving, SwapFuncs \/ FuncsDone \/ CallbackReturns
    PROVE  Flows
<1>1. /\ UNCHANGED <<poller, revents_, conn_set_, conn, peer, fin, known, calls,
                     written>>
      /\ io' # "funcs" => funcs' = <<>>
  BY DEF SwapFuncs, FuncsDone, CallbackReturns, network, Serving, Streams
<1>2. UNCHANGED Pending
  <2>1. CASE SwapFuncs
    BY <2>1, PendingIsQueue DEF SwapFuncs, Serving, Streams, IInv, Server
  <2>2. CASE FuncsDone \/ CallbackReturns
    BY <2>2 DEF FuncsDone, CallbackReturns, Pending
  <2> QED
    BY <2>1, <2>2
<1> QED
  BY <1>1, <1>2, QuietFlows DEF Serving, Streams, poller, conn, Gone

LEMMA PollFlows ==
    ASSUME Serving, Poll
    PROVE  Flows
<1>1. /\ UNCHANGED <<poller, funcs_, funcs, conn_set_, conn, peer, fin, known,
                     calls, written>>
      /\ io = "poll"
  BY DEF Poll, network
<1>2. PICK full : revents_' = [c \in Channels |->
                     IF c \in P!Watched THEN epoll[c] \cap Ready(c, full)
                                        ELSE {}]
  BY DEF Poll
<1>3. \A c \in Channels : revents_'[c] \subseteq events_[c]
  BY <1>2 DEF Serving, IInv, Poller, P!IndexAgrees
<1>4. \A c \in Conns \ conn_set_ : events_'[c] \cup revents_'[c] = {}
  BY <1>1, <1>3 DEF Serving, Streams, poller, Channels
<1> QED
  BY <1>1, <1>4, QuietFlows DEF Serving, Streams, Pending, conn, Gone

\* The accept, the reads and the death of the process leave the streams alone.
LEMMA HandlerFlows ==
    ASSUME Serving,
           \/ AcceptorReadCallback
           \/ \E c \in Conns : ReadData(c) \/ ReadError(c) \/ Killed(c)
    PROVE  Flows
<1>1. /\ UNCHANGED <<poller, funcs_, funcs, conn_set_, conn, fin, calls, written>>
      /\ io \in {"handle", "greeting"}
  BY DEF AcceptorReadCallback, ReadData, ReadError, Killed, Handles
<1>2. /\ known \subseteq known'
      /\ known' \subseteq conn_set_
      /\ UNCHANGED Gone
  <2>1. CASE AcceptorReadCallback \/ \E c \in Conns : Killed(c)
    BY <2>1 DEF AcceptorReadCallback, Killed, network, Gone, Serving, Streams
  <2>2. ASSUME NEW c \in Conns, ReadData(c) \/ ReadError(c)
        PROVE  known \subseteq known' /\ known' \subseteq conn_set_ /\ UNCHANGED Gone
    <3>1. known' = known \cup {c} /\ "in" \in revents_[c]
      BY <2>2 DEF ReadData, ReadError, Handles
    <3>2. CASE ReadData(c)
      BY <3>1, <3>2 DEF ReadData, Gone, Serving, Streams
    <3>3. CASE ReadError(c)
      <4>1. /\ peer[c] = "reset"
            /\ peer' = [peer EXCEPT ![c] = "closed"]
        BY <3>3 DEF ReadError
      <4> QED
        BY <3>1, <4>1 DEF Gone, Serving, Streams, Places
    <3> QED
      BY <2>2, <3>2, <3>3
  <2> QED
    BY <2>1, <2>2
<1>3. \A d \in Conns : revents_'[d] \subseteq revents_[d]
  <2>1. CASE \E c \in Conns : Killed(c)
    BY <2>1 DEF Killed, Channels
  <2>2. CASE AcceptorReadCallback
    BY <2>2, Handled DEF AcceptorReadCallback, Channels, Serving
  <2>3. CASE \E c \in Conns : ReadData(c) \/ ReadError(c)
    BY <2>3, Handled DEF ReadData, ReadError, Channels, Serving
  <2> QED
    BY <2>1, <2>2, <2>3
<1> QED
  BY <1>1, <1>2, <1>3, QuietFlows DEF Serving, Streams, Pending, poller, conn

\* The test data of NewConnection goes to a connection that carried nothing.
LEMMA NewConnectionFlows ==
    ASSUME Serving, NEW c \in Conns, NewConnection(c)
    PROVE  Flows
<1>1. /\ UNCHANGED <<revents_, funcs_, funcs, write_buffer_, peer, fin, known, calls>>
      /\ io = "greeting" /\ io' = "handle"
      /\ conn_set_' = conn_set_ \cup {c}
      /\ c \notin conn_set_
      /\ \/ written' = [written EXCEPT ![c] = Append(@, Greeting)]
         \/ UNCHANGED written
      /\ P!EnableReading(c)
  BY DEF NewConnection, TcpConnection, network, Serving, IInv, Server, Accepted
<1>2. UNCHANGED <<Pending, Gone>>
  BY <1>1 DEF Pending, Gone
<1>3. /\ write_buffer_[c] = <<>>
      /\ written[c] = <<>>
      /\ c \notin known
  BY <1>1 DEF Serving, Streams
<1>4. UNCHANGED written \/ written' = [written EXCEPT ![c] = <<Greeting>>]
  BY <1>1, <1>3
<1>5. calls \in Nat /\ Greeting \in Written /\ Greeting.nr <= calls
  BY ServerAssumption DEF Greeting, Written, Serving, IInv, Server, Types
<1>6. StreamStep
  <2>1. CASE UNCHANGED written
    BY <1>1, <1>2, <2>1, StreamRests
  <2>2. CASE written' = [written EXCEPT ![c] = <<Greeting>>]
    <3>1. \A i \in DOMAIN Pending : ~Stream!Carries(Pending[i], c)
      BY <1>3 DEF Serving, Streams, Issued, Stream!Carries
    <3>2. Stream!Greet(c, Greeting)
      BY <1>1, <1>2, <1>3, <2>2, <3>1 DEF Stream!Greet, Gone
    <3> QED
      BY <1>5, <3>2 DEF StreamStep, Stream!Next, Written
  <2> QED
    BY <1>4, <2>1, <2>2
<1>7. /\ written' \in [Conns -> Seq(Written)]
      /\ \A d \in Conns : Numbered(written[d])'
      /\ \A d \in Conns \ {c} : written'[d] = written[d]
  <2>1. CASE UNCHANGED written
    BY <1>1, <2>1 DEF Serving, Streams, Numbered
  <2>2. CASE written' = [written EXCEPT ![c] = <<Greeting>>]
    BY <1>1, <1>5, <2>2 DEF Serving, Streams, Numbered
  <2> QED
    BY <1>4, <2>1, <2>2
<1>8. \A d \in Conns \ {c} : events_'[d] = events_[d]
  BY <1>1, OneChannel DEF Channels, Serving, IInv, Poller, P!TypeOK
<1>9. \A i \in DOMAIN Pending' : Issued(Pending[i])'
  BY <1>1, <1>2 DEF Serving, Streams, Issued
<1>10. \A d \in Conns : Numbered(write_buffer_[d])'
  BY <1>1 DEF Serving, Streams, Numbered
<1>11. Streams'
  BY <1>1, <1>7, <1>8, <1>9, <1>10 DEF Serving, Streams
<1> QED
  BY <1>6, <1>11 DEF Flows

LEMMA ReadEndFlows ==
    ASSUME Serving, NEW c \in Conns, ReadEnd(c)
    PROVE  Flows
<1>1. /\ UNCHANGED <<io, funcs_, funcs, conn_set_, write_buffer_, peer, fin,
                     known, calls, written>>
      /\ Handles(c, "in")
      /\ P!DisableAll(c)
  BY DEF ReadEnd, HandleClose, network
<1>2. \A d \in Conns : revents_'[d] \subseteq revents_[d]
  BY <1>1, Handled DEF Channels, Serving
<1>3. events_' = [events_ EXCEPT ![c] = {}]
  BY <1>1, OneChannel DEF Channels
<1>4. \A d \in Conns \ conn_set_ : events_'[d] \cup revents_'[d] = {}
  BY <1>2, <1>3 DEF Serving, Streams, IInv, Poller, P!TypeOK, Channels
<1> QED
  BY <1>1, <1>4, QuietFlows DEF Serving, Streams, Pending, Gone

\* The first n of s move to the end of w: nothing else gets into either.
LEMMA PrefixMoves ==
    ASSUME NEW s \in Seq(Written), NEW w \in Seq(Written), NEW n \in 1 .. Len(s),
           Numbered(s), Numbered(w)
    PROVE  /\ w \o SubSeq(s, 1, n) \in Seq(Written)
           /\ Numbered(w \o SubSeq(s, 1, n))
           /\ Numbered(SubSeq(s, n + 1, Len(s)))
<1> DEFINE moved == SubSeq(s, 1, n)
           rest == SubSeq(s, n + 1, Len(s))
<1>1. moved \in Seq(Written) /\ rest \in Seq(Written)
  OBVIOUS
<1>2. \A i \in DOMAIN moved : i \in DOMAIN s /\ moved[i] = s[i]
  OBVIOUS
<1>3. \A i \in DOMAIN rest : i + n \in DOMAIN s /\ rest[i] = s[i + n]
  OBVIOUS
<1>4. Numbered(moved) /\ Numbered(rest)
  BY <1>2, <1>3 DEF Numbered
<1> HIDE DEF moved, rest
<1>5. w \o moved \in Seq(Written)
  BY <1>1
<1>6. \A i \in DOMAIN (w \o moved) :
        \/ i \in DOMAIN w /\ (w \o moved)[i] = w[i]
        \/ i - Len(w) \in DOMAIN moved /\ (w \o moved)[i] = moved[i - Len(w)]
  BY <1>1
<1>7. Numbered(w \o moved)
  BY <1>4, <1>6 DEF Numbered
<1> QED
  BY <1>4, <1>5, <1>7 DEF moved, rest

\* The write callback delivers, loses or ends what the connection carries.
LEMMA WriteCallbackFlows ==
    ASSUME Serving, NEW c \in Conns, WriteCallback(c)
    PROVE  Flows
<1>1. /\ UNCHANGED <<io, funcs_, funcs, conn_set_, known, calls>>
      /\ Handles(c, "out")
      /\ c \in conn_set_
  BY DEF WriteCallback, Handles, Serving, Streams
<1>2. \A d \in Conns : revents_'[d] \subseteq revents_[d]
  BY <1>1, Handled DEF Channels, Serving
<1>3. UNCHANGED Pending
  BY <1>1 DEF Pending
<1>4. CASE WriteNothing(c)
  <2>1. UNCHANGED <<poller, write_buffer_, fin, peer, written>>
    BY <1>4 DEF WriteNothing
  <2>2. \A d \in Conns \ conn_set_ : events_'[d] \cup revents_'[d] = {}
    BY <1>2, <2>1 DEF Serving, Streams, poller
  <2> QED
    BY <1>1, <1>3, <2>1, <2>2, QuietFlows DEF Serving, Streams, Gone
<1>5. CASE WriteComplete(c)
  <2>1. /\ UNCHANGED <<write_buffer_, peer, written>>
        /\ UNCHANGED fin \/ (write_buffer_[c] = <<>> /\ fin' = fin \cup {c})
        /\ P!DisableWriting(c)
    BY <1>5 DEF WriteComplete, CloseWrite
  <2>2. \A d \in Conns \ conn_set_ : events_'[d] \cup revents_'[d] = {}
    BY <1>1, <1>2, <2>1, OneChannel
       DEF Serving, Streams, IInv, Poller, P!TypeOK, Channels
  <2>3. StreamStep
    <3>1. CASE UNCHANGED fin
      BY <1>3, <2>1, <3>1, StreamRests DEF Gone
    <3>2. CASE write_buffer_[c] = <<>> /\ fin' = fin \cup {c}
      <4>1. Stream!End(c)
        BY <1>3, <2>1, <3>2 DEF Stream!End, Stream!Ends
      <4> QED
        BY <4>1 DEF StreamStep, Stream!Next
    <3> QED
      BY <2>1, <3>1, <3>2
  <2>4. calls <= calls' /\ calls' \in Nat
    BY <1>1, ServerAssumption DEF Serving, IInv, Server, Types
  <2>5. Streams'
    BY <1>1, <1>3, <2>1, <2>2, <2>4, StreamsKept DEF Serving, Streams
  <2> QED
    BY <2>3, <2>5 DEF Flows
<1>6. CASE WriteSome(c)
  <2>1. PICK n \in 1 .. Len(write_buffer_[c]) :
          /\ written' = [written EXCEPT ![c] =
                           @ \o SubSeq(write_buffer_[c], 1, n)]
          /\ write_buffer_' = [write_buffer_ EXCEPT ![c] =
                                 SubSeq(@, n + 1, Len(@))]
    BY <1>6 DEF WriteSome
  <2>2. UNCHANGED <<poller, events_, fin, peer>> /\ c \notin fin
    BY <1>6 DEF WriteSome, MaySucceed, poller
  <2>3. Stream!Deliver(c)
    BY <1>3, <2>1, <2>2 DEF Stream!Deliver, Gone
  <2>4. /\ write_buffer_[c] \in Seq(Messages)
        /\ written[c] \in Seq(Written)
    BY DEF Serving, Streams, IInv, Server, Types
  <2>5. write_buffer_[c] \in Seq(Written)
    <3>1. Messages \subseteq Written
      BY ServerAssumption DEF Messages, Written
    <3> QED
      BY <2>4, <3>1
  <2>6. /\ written'[c] = written[c] \o SubSeq(write_buffer_[c], 1, n)
        /\ write_buffer_'[c] = SubSeq(write_buffer_[c], n + 1, Len(write_buffer_[c]))
    BY <2>1 DEF Serving, Streams, IInv, Server, Types
  <2>7. /\ written[c] \o SubSeq(write_buffer_[c], 1, n) \in Seq(Written)
        /\ Numbered(written[c] \o SubSeq(write_buffer_[c], 1, n))
        /\ Numbered(SubSeq(write_buffer_[c], n + 1, Len(write_buffer_[c])))
    BY <2>4, <2>5, PrefixMoves DEF Serving, Streams
  <2>8. written'[c] \in Seq(Written)
    BY <2>6, <2>7
  <2>9. Numbered(write_buffer_[c])' /\ Numbered(written[c])'
    BY <1>1, <2>6, <2>7 DEF Numbered
  <2>10. \A d \in Conns \ {c} : /\ written'[d] = written[d]
                                /\ write_buffer_'[d] = write_buffer_[d]
    BY <2>1 DEF Serving, Streams, IInv, Server, Types
  <2>11. \A d \in Conns : (Numbered(write_buffer_[d]) /\ Numbered(written[d]))'
    BY <1>1, <2>9, <2>10 DEF Serving, Streams, Numbered
  <2>12. written' \in [Conns -> Seq(Written)]
    BY <2>1, <2>8, <2>10 DEF Serving, Streams
  <2>13. \A i \in DOMAIN Pending' : Issued(Pending[i])'
    BY <1>1, <1>3 DEF Serving, Streams, Issued
  <2>14. Streams'
    BY <1>1, <1>2, <2>2, <2>10, <2>11, <2>12, <2>13 DEF Serving, Streams
  <2> QED
    BY <2>3, <2>14 DEF Flows, StreamStep, Stream!Next
<1>7. CASE WriteFails(c)
  <2>1. /\ write_buffer_' = [write_buffer_ EXCEPT ![c] = <<>>]
        /\ peer' = [peer EXCEPT ![c] = IF @ = "reset" THEN "closed" ELSE @]
        /\ UNCHANGED <<poller, events_, fin, written>>
        /\ c \in fin \/ peer[c] \in {"closed", "reset"}
    BY <1>7 DEF WriteFails, MayFail, poller
  <2>2. UNCHANGED Gone /\ c \in Gone \cup fin
    BY <2>1 DEF Gone, Serving, Places
  <2>3. Stream!Lose(c)
    BY <1>3, <2>1, <2>2 DEF Stream!Lose, Gone
  <2>4. \A d \in Conns : (Numbered(write_buffer_[d]) /\ Numbered(written[d]))'
    BY <1>1, <2>1 DEF Serving, Streams, Numbered, IInv, Server, Types
  <2>5. \A i \in DOMAIN Pending' : Issued(Pending[i])'
    BY <1>1, <1>3 DEF Serving, Streams, Issued
  <2>6. Streams'
    BY <1>1, <1>2, <2>1, <2>4, <2>5 DEF Serving, Streams, IInv, Server, Types
  <2> QED
    BY <2>3, <2>6 DEF Flows, StreamStep, Stream!Next
<1> QED
  BY <1>4, <1>5, <1>6, <1>7 DEF WriteCallback

\* A peer that leaves is one that the stream loses.
LEMMA NetworkFlows ==
    ASSUME Serving, Network
    PROVE  Flows
<1>1. UNCHANGED <<poller, loop, funcs_, conn_set_, conn, fin, known, calls, written>>
  BY DEF Network
<1>2. UNCHANGED Pending
  BY <1>1 DEF Pending, loop
<1>3. PICK c \in Conns : Connect(c) \/ PeerSends(c) \/ PeerLeaves(c)
  BY DEF Network
<1>4. UNCHANGED Gone \/ Gone' = Gone \cup {c}
  <2>1. CASE Connect(c)
    BY <2>1 DEF Connect, Gone, Serving, Places
  <2>2. CASE PeerSends(c)
    BY <2>2 DEF PeerSends, Gone
  <2>3. CASE PeerLeaves(c)
    BY <2>3 DEF PeerLeaves, Gone, Serving, Places
  <2> QED
    BY <1>3, <2>1, <2>2, <2>3
<1>5. CASE UNCHANGED Gone
  BY <1>1, <1>2, <1>5, QuietFlows DEF Serving, Streams, poller, loop, conn
<1>6. CASE Gone' = Gone \cup {c}
  <2>1. Stream!Leave(c)
    BY <1>1, <1>2, <1>6 DEF Stream!Leave, Gone, conn
  <2>2. calls <= calls' /\ calls' \in Nat
    BY <1>1, ServerAssumption DEF Serving, IInv, Server, Types
  <2>3. Streams'
    BY <1>1, <1>2, <2>2, StreamsKept DEF Serving, Streams, poller, loop, conn
  <2> QED
    BY <2>1, <2>3 DEF Flows, StreamStep, Stream!Next
<1> QED
  BY <1>4, <1>5, <1>6

LEMMA StreamsFlow ==
    ASSUME Serving, [Next]_vars
    PROVE  Flows
<1>1. CASE UNCHANGED vars
  BY <1>1, QuietFlows
     DEF vars, poller, loop, conn, network, Serving, Streams, Pending, Gone
<1>2. CASE UserCode
  BY <1>2, StartFlows, SendFlows, ShutdownFlows DEF UserCode
<1>3. CASE LoopStep
  BY <1>3, PollFlows, MovesOnFlows, RunFuncFlows, HandlerFlows,
     NewConnectionFlows, ReadEndFlows, WriteCallbackFlows DEF LoopStep
<1>4. CASE Network
  BY <1>4, NetworkFlows
<1> QED
  BY <1>1, <1>2, <1>3, <1>4 DEF Next

LEMMA PlacesKept ==
    ASSUME Places, [Next]_vars
    PROVE  Places'
<1> USE DEF Places
<1>1. CASE UNCHANGED vars
  BY <1>1 DEF vars, loop, network
<1>2. CASE UserCode
  BY <1>2 DEF UserCode, Start, Send, Shutdown, loop, network
<1>3. CASE SwapFuncs \/ RunFunc \/ FuncsDone \/ Poll
  BY <1>3 DEF SwapFuncs, RunFunc, FuncsDone, Poll, network
<1>4. CASE AcceptorReadCallback
  BY <1>4 DEF AcceptorReadCallback, Accept, Backlog, network
<1>5. CASE CallbackReturns
  BY <1>5 DEF CallbackReturns, Continue, network
<1>6. ASSUME NEW c \in Conns, NewConnection(c) \/ Killed(c)
      PROVE  Places'
  BY <1>6 DEF NewConnection, Killed, network
<1>7. ASSUME NEW c \in Conns, ReadData(c)
      PROVE  Places'
  BY <1>7, ServerAssumption DEF ReadData
<1>8. ASSUME NEW c \in Conns, ReadError(c)
      PROVE  Places'
  BY <1>8 DEF ReadError
<1>9. ASSUME NEW c \in Conns, ReadEnd(c)
      PROVE  Places'
  BY <1>9 DEF ReadEnd, Continue, network
<1>10. ASSUME NEW c \in Conns, WriteCallback(c)
       PROVE  Places'
  BY <1>10 DEF WriteCallback, WriteNothing, WriteComplete, WriteSome, WriteFails
<1>11. CASE Network
  BY <1>11, ServerAssumption
     DEF Network, Connect, PeerSends, PeerLeaves, loop
<1> QED
  BY <1>1, <1>2, <1>3, <1>4, <1>5, <1>6, <1>7, <1>8, <1>9, <1>10, <1>11
     DEF Next, LoopStep

LEMMA ServingIsKept ==
    ASSUME Serving, [Next]_vars
    PROVE  Serving' /\ StreamStep
BY NextServes, PlacesKept, StreamsFlow DEF Serving, Flows

LEMMA InitServing == Init => Serving
<1> SUFFICES ASSUME Init PROVE Serving
  OBVIOUS
<1>1. Places
  BY ServerAssumption DEF Init, Places
<1>2. Streams
  BY DEF Init, P!Init, Streams, Pending, Channels, Numbered
<1> QED
  BY <1>1, <1>2, InitServes DEF Serving

\* Every connection (TcpConnection::Send, Shutdown, WriteCallback, HandleClose,
\* and the functors of the loop) is a stream of messages: none is lost before a
\* write fails, none is sent twice or overtakes another of its thread, and the
\* stream ends only when nothing is pending.
THEOREM ConnectionsAreStreams == Spec => StreamKept
<1>1. Init => Stream!Init
  BY DEF Init, Stream!Init, Pending
<1>2. Serving /\ [Next]_vars => Serving'
  BY ServingIsKept
<1>3. Serving /\ [Next]_vars => [Stream!Next]_(Stream!vars)
  BY ServingIsKept DEF StreamStep
<1> QED
  BY <1>1, <1>2, <1>3, InitServing, PTL DEF Spec, StreamKept, Stream!Spec

-----------------------------------------------------------------------------
(* The connections of the process.                                           *)

\* A connection is in the set before it is used in any other way; and there is
\* a descriptor for every one, and for the one that is greeted.
Members ==
    /\ fin \subseteq conn_set_
    /\ conn_set_ \subseteq channels_
    /\ IsFiniteSet(conn_set_)
    /\ Cardinality(conn_set_) <= limit
    /\ io = "greeting" => Cardinality(conn_set_) < limit

\* No channel of the server leaves the map.
LEMMA ChannelsGrow ==
    ASSUME [Next]_vars
    PROVE  channels_ \subseteq channels_'
<1>1. ASSUME NEW c, NEW ev, P!UpdateChannel(c, ev)
      PROVE  channels_ \subseteq channels_'
  BY <1>1 DEF P!UpdateChannel, P!AddChannel, P!DropChannel, P!ModifyChannel
<1> USE <1>1 DEF poller
<1>2. CASE UNCHANGED vars
  BY <1>2 DEF vars
<1>3. CASE UserCode
  BY <1>3 DEF UserCode, Start, Send, Shutdown, SendInLoop, P!EnableReading,
              P!EnableWriting
<1>4. CASE RunFunc
  BY <1>4 DEF RunFunc, SendInLoop, P!EnableReading, P!EnableWriting
<1>5. CASE SwapFuncs \/ FuncsDone \/ Poll \/ AcceptorReadCallback \/ CallbackReturns
  BY <1>5 DEF SwapFuncs, FuncsDone, Poll, AcceptorReadCallback, CallbackReturns
<1>6. ASSUME NEW c \in Conns,
             NewConnection(c) \/ ReadData(c) \/ ReadError(c) \/ ReadEnd(c) \/ Killed(c)
      PROVE  channels_ \subseteq channels_'
  BY <1>6 DEF NewConnection, TcpConnection, ReadData, ReadError, ReadEnd,
              HandleClose, Killed, P!EnableReading, P!DisableAll
<1>7. ASSUME NEW c \in Conns, WriteCallback(c)
      PROVE  channels_ \subseteq channels_'
  BY <1>7 DEF WriteCallback, WriteNothing, WriteComplete, WriteSome, WriteFails,
              P!DisableWriting
<1>8. CASE Network
  BY <1>8 DEF Network
<1> QED
  BY <1>2, <1>3, <1>4, <1>5, <1>6, <1>7, <1>8 DEF Next, LoopStep

\* Only an accepted connection is shut down.
LEMMA FinIsAccepted ==
    ASSUME Serving, fin \subseteq conn_set_, [Next]_vars
    PROVE  fin' \subseteq conn_set_ /\ conn_set_ \subseteq conn_set_'
<1> USE DEF CloseWrite
<1>1. CASE UNCHANGED vars
  BY <1>1 DEF vars
<1>2. CASE Start
  BY <1>2 DEF Start
<1>3. ASSUME NEW t \in Threads \cup {IO}, NEW c \in Conns, Send(t, c)
      PROVE  fin' \subseteq conn_set_ /\ conn_set_ \subseteq conn_set_'
  BY <1>3 DEF Send
<1>4. ASSUME NEW t \in Threads \cup {IO}, NEW c \in Conns, Shutdown(t, c)
      PROVE  fin' \subseteq conn_set_ /\ conn_set_ \subseteq conn_set_'
  BY <1>4 DEF Shutdown, ShutdownInLoop, Calls, Serving, Streams
<1>5. CASE RunFunc
  <2> PICK f : f = Head(funcs)
    OBVIOUS
  <2>1. f.call = "shutdown" => f.conn \in conn_set_
    <3>1. funcs # <<>> /\ funcs' = Tail(funcs) /\ UNCHANGED funcs_
      BY <1>5 DEF RunFunc
    <3>2. Pending # <<>> /\ f = Head(Pending) /\ Pending \in Seq(Functors)
      BY <3>1, PendingIsQueue DEF Serving, IInv, Server
    <3>3. 1 \in DOMAIN Pending /\ f = Pending[1]
      BY <3>2
    <3> QED
      BY <3>3 DEF Serving, Streams, Issued
  <2>2. UNCHANGED fin \/ (f.call = "shutdown" /\ fin' = fin \cup {f.conn})
    BY <1>5 DEF RunFunc, ShutdownInLoop
  <2>3. UNCHANGED conn_set_
    BY <1>5 DEF RunFunc
  <2> QED
    BY <2>1, <2>2, <2>3
<1>6. CASE SwapFuncs \/ FuncsDone \/ Poll \/ AcceptorReadCallback \/ CallbackReturns
  BY <1>6 DEF SwapFuncs, FuncsDone, Poll, AcceptorReadCallback, CallbackReturns
<1>7. ASSUME NEW c \in Conns,
             NewConnection(c) \/ ReadData(c) \/ ReadError(c) \/ ReadEnd(c) \/ Killed(c)
      PROVE  fin' \subseteq conn_set_ /\ conn_set_ \subseteq conn_set_'
  BY <1>7 DEF NewConnection, ReadData, ReadError, ReadEnd, Killed
<1>8. ASSUME NEW c \in Conns, WriteCallback(c)
      PROVE  fin' \subseteq conn_set_ /\ conn_set_ \subseteq conn_set_'
  <2>1. c \in conn_set_ /\ UNCHANGED conn_set_
    BY <1>8 DEF WriteCallback, Handles, Serving, Streams
  <2>2. UNCHANGED fin \/ fin' = fin \cup {c}
    BY <1>8 DEF WriteCallback, WriteNothing, WriteComplete, WriteSome, WriteFails
  <2> QED
    BY <2>1, <2>2
<1>9. CASE Network
  BY <1>9 DEF Network
<1> QED
  BY <1>1, <1>2, <1>3, <1>4, <1>5, <1>6, <1>7, <1>8, <1>9
     DEF Next, LoopStep, UserCode

\* The set of connections grows by the one that is greeted.
LEMMA MembersKept ==
    ASSUME Serving, Members, [Next]_vars
    PROVE  Members'
<1>1. fin' \subseteq conn_set_ /\ conn_set_ \subseteq conn_set_'
  BY FinIsAccepted DEF Members
<1>2. channels_ \subseteq channels_'
  BY ChannelsGrow
<1>3. Cardinality(conn_set_) \in Nat /\ limit \in Nat
  BY FS_CardinalityType, ServerAssumption DEF Members, Serving, Places
<1>4. ASSUME NEW c \in Conns, NewConnection(c)
      PROVE  Members'
  <2>1. /\ conn_set_' = conn_set_ \cup {c}
        /\ io = "greeting"
        /\ io' = "handle"
        /\ limit' = limit
        /\ P!EnableReading(c)
    BY <1>4 DEF NewConnection, TcpConnection
  <2>2. /\ IsFiniteSet(conn_set_')
        /\ Cardinality(conn_set_') <= limit'
    <3>1. /\ IsFiniteSet(conn_set_')
          /\ Cardinality(conn_set_') \in {Cardinality(conn_set_),
                                          Cardinality(conn_set_) + 1}
      BY <2>1, FS_AddElement DEF Members
    <3>2. Cardinality(conn_set_) < limit
      BY <2>1 DEF Members
    <3> QED
      BY <1>3, <2>1, <3>1, <3>2
  <2>3. c \in channels_'
    BY <2>1 DEF P!EnableReading, P!UpdateChannel, P!AddChannel, P!DropChannel,
                P!ModifyChannel, P!KNew, P!KAdded, P!IndexAgrees, Poller,
                Serving, IInv, Channels
  <2>4. (fin \subseteq conn_set_ /\ conn_set_ \subseteq channels_)'
    BY <1>1, <1>2, <2>1, <2>3 DEF Members
  <2> QED
    BY <2>1, <2>2, <2>4 DEF Members
<1>5. CASE ~\E c \in Conns : NewConnection(c)
  <2>1. UNCHANGED <<conn_set_, limit>>
    BY <1>5 DEF Next, vars, loop, UserCode, Start, Send, Shutdown, LoopStep, Poll,
                SwapFuncs, RunFunc, FuncsDone, AcceptorReadCallback,
                CallbackReturns, ReadData, ReadError, ReadEnd, WriteCallback,
                Killed, Network
  <2>2. io' = "greeting" => Cardinality(conn_set_) < limit
    BY <1>3, <1>5
       DEF Members, Next, vars, loop, UserCode, Start, Send, Shutdown, LoopStep,
           Poll, SwapFuncs, RunFunc, FuncsDone, AcceptorReadCallback, Accept,
           CallbackReturns, ReadData, ReadError, ReadEnd, WriteCallback, Killed,
           Network
  <2> QED
    BY <1>1, <1>2, <2>1, <2>2 DEF Members
<1> QED
  BY <1>4, <1>5

\* TypeOK: the types of all variables; and no connection is used, reported by
\* epoll, shut down or closed that TcpServer::NewConnection has not put into
\* conn_set_, nor are there more of them than descriptors.
THEOREM TypeCorrect == Spec => []TypeOK
<1>1. Init => Serving /\ Members
  <2>1. Init => Members
    BY FS_EmptySet, ServerAssumption DEF Init, P!Init, Members
  <2> QED
    BY <2>1, InitServing
<1>2. (Serving /\ Members) /\ [Next]_vars => (Serving /\ Members)'
  BY ServingIsKept, MembersKept
<1>3. Serving /\ Members => TypeOK
  <2> SUFFICES ASSUME Serving, Members PROVE TypeOK
    OBVIOUS
  <2>1. closed \subseteq conn_set_
    BY DEF Serving, IInv, Server, Accepted
  <2> QED
    BY <2>1 DEF Serving, IInv, Poller, Server, Types, Places, Streams, Members,
                TypeOK, Messages, Written
<1> QED
  BY <1>1, <1>2, <1>3, PTL DEF Spec

=============================================================================
