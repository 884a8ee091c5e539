------------------------------ MODULE ByteQueue ------------------------------
(***************************************************************************)
(* What a MsgBuffer (water/base/msg_buffer.h) is to its user: a sequence   *)
(* of bytes that grows at both ends and is consumed at the front.          *)
(***************************************************************************)
EXTENDS Naturals, Sequences

CONSTANTS Buffers, Data     \* Data: the byte strings that may be added

VARIABLE content            \* content[b]: the readable bytes of b

Init == content = [b \in Buffers |-> <<>>]

Add(b, d) == content' = [content EXCEPT ![b] = @ \o d]
AddInFront(b, d) == content' = [content EXCEPT ![b] = d \o @]

\* The first n bytes, or all there are.
Remove(b, n) ==
    content' = [content EXCEPT ![b] = SubSeq(@, n + 1, Len(@))]

Copy(b, c) == content' = [content EXCEPT ![b] = content[c]]
AddCopy(b, c) == Add(b, content[c])
Swap(b, c) ==
    content' = [content EXCEPT ![b] = content[c], ![c] = content[b]]

Next ==
    \/ \E b \in Buffers, d \in Data : Add(b, d) \/ AddInFront(b, d)
    \/ \E b \in Buffers : \E n \in 1 .. Len(content[b]) : Remove(b, n)
    \/ \E b, c \in Buffers : Copy(b, c) \/ AddCopy(b, c) \/ Swap(b, c)

Spec == Init /\ [][Next]_content

=============================================================================
