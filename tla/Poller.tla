-------------------------------- MODULE Poller --------------------------------
(***************************************************************************)
(* Poller and Channel (water/net/poller.{h,cc}, channel.{h,cc}): what the  *)
(* channels want to hear of, what the Poller believes epoll watches        *)
(* (index_, channels_), and what epoll does watch.  Everything runs in the *)
(* I/O thread.                                                             *)
(***************************************************************************)
CONSTANT Channels       \* each stands for its descriptor too

VARIABLES
    events_,        \* of every channel: a subset of {"in", "out"}
    index_,         \* of every channel: kNew, kAdded or kDeleted
    channels_,      \* the channels in the map
    epoll           \* the kernel's interest list: channels and their events

vars == <<events_, index_, channels_, epoll>>

Events == {"in", "out"}
KNew == "kNew"
KAdded == "kAdded"
KDeleted == "kDeleted"

Init ==
    /\ events_ = [c \in Channels |-> {}]
    /\ index_ = [c \in Channels |-> KNew]
    /\ channels_ = {}
    /\ epoll = [c \in {} |-> {}]

IsWriting(c) == "out" \in events_[c]
IsNoneEvent(c) == events_[c] = {}

-----------------------------------------------------------------------------
(* epoll_ctl fails, and changes nothing, when it adds what is there or       *)
(* changes what is not; the code only says so.                               *)

Watched == DOMAIN epoll

EpollAdd(c, ev) ==
    epoll' = IF c \in Watched THEN epoll
             ELSE [d \in Watched \cup {c} |-> IF d = c THEN ev ELSE epoll[d]]

EpollMod(c, ev) ==
    epoll' = [d \in Watched |-> IF d = c THEN ev ELSE epoll[d]]

EpollDel(c) == epoll' = [d \in Watched \ {c} |-> epoll[d]]

-----------------------------------------------------------------------------
(* The Poller.                                                               *)

AddChannel(c, ev) ==
    /\ index_[c] \in {KNew, KDeleted}
    /\ channels_' = channels_ \cup {c}
    /\ index_' = [index_ EXCEPT ![c] = KAdded]
    /\ EpollAdd(c, ev)

StillAdded(c, ev) ==
    /\ index_[c] = KAdded
    /\ ev = {}
    /\ EpollDel(c)
    /\ UNCHANGED <<index_, channels_>>

DropChannel(c, ev) ==
    /\ index_[c] = KAdded
    /\ ev = {}
    /\ EpollDel(c)
    /\ index_' = [index_ EXCEPT ![c] = KDeleted]
    /\ UNCHANGED channels_

ModifyChannel(c, ev) ==
    /\ index_[c] = KAdded
    /\ ev # {}
    /\ EpollMod(c, ev)
    /\ UNCHANGED <<index_, channels_>>

\* Channel sets its events_ to ev and calls UpdateChannel.
UpdateChannel(c, ev) ==
    /\ events_' = [events_ EXCEPT ![c] = ev]
    /\ AddChannel(c, ev) \/ DropChannel(c, ev) \/ ModifyChannel(c, ev)

\* The caller sees to it that the channel wants nothing and is in the map.
RemoveChannel(c) ==
    /\ IsNoneEvent(c)
    /\ c \in channels_
    /\ channels_' = channels_ \ {c}
    /\ IF index_[c] = KAdded THEN EpollDel(c) ELSE UNCHANGED epoll
    /\ index_' = [index_ EXCEPT ![c] = KNew]
    /\ UNCHANGED events_

-----------------------------------------------------------------------------
(* The Channel.                                                              *)

EnableReading(c) == UpdateChannel(c, events_[c] \cup {"in"})
DisableReading(c) == UpdateChannel(c, events_[c] \ {"in"})
EnableWriting(c) == UpdateChannel(c, events_[c] \cup {"out"})
DisableWriting(c) == UpdateChannel(c, events_[c] \ {"out"})
DisableAll(c) == UpdateChannel(c, {})

Next ==
    \E c \in Channels :
        \/ EnableReading(c)
        \/ DisableReading(c)
        \/ EnableWriting(c)
        \/ DisableWriting(c)
        \/ DisableAll(c)
        \/ RemoveChannel(c)

Spec == Init /\ [][Next]_vars

-----------------------------------------------------------------------------
(* Properties.                                                               *)

\* The type of every variable.
TypeOK ==
    /\ events_ \in [Channels -> SUBSET Events]
    /\ index_ \in [Channels -> {KNew, KAdded, KDeleted}]
    /\ channels_ \in SUBSET Channels
    /\ Watched \in SUBSET Channels
    /\ epoll \in [Watched -> SUBSET Events]

\* What the Poller believes is what the kernel does: the assertions of
\* UpdateChannel and RemoveChannel on index_ and channels_ hold, no epoll_ctl
\* fails, and a channel that epoll watches is in the map and watched for
\* exactly what it asked for.
IndexAgrees ==
    \A c \in Channels :
        /\ index_[c] = KNew <=> c \notin channels_
        /\ index_[c] = KAdded <=> c \in Watched
        /\ c \in Watched => epoll[c] = events_[c]

=============================================================================
