------------------------------ MODULE MsgBuffer ------------------------------
(***************************************************************************)
(* MsgBuffer (water/base/msg_buffer.{h,cc}): a vector of bytes with a read *)
(* and a write index, room in front for headers, and growth on demand.     *)
(*                                                                         *)
(* A buffer is a record; index i of the vector is element i + 1 of .data.  *)
(* The operators compute the new record; the actions apply them to one or  *)
(* two of a set of buffers.                                                *)
(***************************************************************************)
EXTENDS Integers, Sequences, SequencesExt

CONSTANTS Buffers,
          Bytes, Zero,  \* Zero: what the vector puts into new elements
          Data,         \* the byte strings that are appended or read
          Numbers,      \* of 1, 2, 4 or 8 bytes, the most significant first
          Behind,       \* pairs of bytes: what lies behind a local variable
          Lens,         \* the lengths buffers are constructed with
          BUF_OFFSET,   \* 8 in the code
          ExtSize,      \* of ReadFd's buffer on the stack; 65536 in the code
          SizeMod,      \* size_t is a number modulo SizeMod
          MaxSize       \* bound of the model: the longest vector of each buffer

ASSUME MsgBufferAssumption ==
    /\ Zero \in Bytes
    /\ Data \subseteq Seq(Bytes)
    /\ Numbers \subseteq {n \in Seq(Bytes) : Len(n) \in {1, 2, 4, 8}}
    /\ Behind \subseteq Bytes \X Bytes
    /\ Lens \subseteq Nat
    /\ BUF_OFFSET \in Nat
    /\ ExtSize \in Nat
    /\ MaxSize \in [Buffers -> Nat]
    /\ SizeMod \in Nat

VARIABLE buf            \* buf[b]: the members of b

-----------------------------------------------------------------------------
(* The vector.                                                             *)

New(len) == [read |-> BUF_OFFSET, write |-> BUF_OFFSET, init |-> len,
             data |-> [i \in 1 .. len + BUF_OFFSET |-> Zero]]

ReadableBytes(r) == r.write - r.read

\* buffer_.size() - write_index_, as a size_t.
WriteableBytes(r) ==
    IF r.write <= Len(r.data) THEN Len(r.data) - r.write
                              ELSE Len(r.data) - r.write + SizeMod

Content(r) == SubSeq(r.data, r.read + 1, r.write)

\* memcpy or std::copy of d to index at.  AddInFront moves bytes to the right
\* with std::copy, which its contract excludes when source and target overlap;
\* for bytes the libraries implement it as memmove, which is what this is.
Overwrite(data, at, d) ==
    [i \in 1 .. Len(data) |-> IF i \in at + 1 .. at + Len(d) THEN d[i - at]
                                                             ELSE data[i]]

\* At the write index, which moves on.
Put(r, d) == [r EXCEPT !.data = Overwrite(r.data, r.write, d),
                       !.write = r.write + Len(d)]

\* What is readable moves back to the offset.
MoveIndicesOnly(r) == [r EXCEPT !.read = BUF_OFFSET,
                                !.write = BUF_OFFSET + ReadableBytes(r)]
Compact(r) == [r EXCEPT !.data = Overwrite(r.data, BUF_OFFSET, Content(r)),
                        !.read = BUF_OFFSET,
                        !.write = BUF_OFFSET + ReadableBytes(r)]

GrownLen(r, len) ==
    IF Len(r.data) * 2 > BUF_OFFSET + ReadableBytes(r) + len
      THEN Len(r.data) * 2
      ELSE BUF_OFFSET + ReadableBytes(r) + len

CompactsWithoutOffset(r, len) == r.read + WriteableBytes(r) >= len
CompactsFor(r, len) == r.read + WriteableBytes(r) >= len + BUF_OFFSET

GrowWithoutCapacity(r, len) ==
    IF WriteableBytes(r) >= len THEN r
    ELSE IF CompactsFor(r, len) THEN Compact(r)
    ELSE [Put(New(GrownLen(r, len)), Content(r)) EXCEPT !.init = r.init]

\* Growing swaps with a larger new buffer: init_cap_ is swapped, too.
EnsureWriteableBytes(r, len) ==
    IF WriteableBytes(r) >= len THEN r
    ELSE IF CompactsFor(r, len) THEN Compact(r)
    ELSE Put(New(GrownLen(r, len)), Content(r))

AppendBytes(r, d) == Put(EnsureWriteableBytes(r, Len(d)), d)

RetrieveAllOf(r) ==
    [r EXCEPT !.data = IF Len(r.data) > r.init * 2
                         THEN SubSeq(r.data, 1, r.init) ELSE r.data,
              !.read = BUF_OFFSET,
              !.write = BUF_OFFSET]

RetrieveOf(r, len) ==
    IF len >= ReadableBytes(r) THEN RetrieveAllOf(r)
                               ELSE [r EXCEPT !.read = r.read + len]

FrontLen(r, len) ==
    IF len + ReadableBytes(r) < r.init THEN r.init ELSE len + ReadableBytes(r)

\* Into the room in front; or what is readable makes room; or a new buffer.
AddInFrontOf(r, d) ==
    IF r.read >= Len(d)
      THEN [r EXCEPT !.data = Overwrite(r.data, r.read - Len(d), d),
                     !.read = r.read - Len(d)]
    ELSE IF Len(d) <= WriteableBytes(r)
      THEN [r EXCEPT !.data = Overwrite(r.data, r.read, d \o Content(r)),
                     !.write = r.write + Len(d)]
    ELSE Put(New(FrontLen(r, Len(d))), d \o Content(r))

\* readv into the rest of the vector and, if that is short, into ext_buffer.
ReadLimit(r) ==
    WriteableBytes(r) + (IF WriteableBytes(r) < ExtSize THEN ExtSize ELSE 0)

WritesAll(r, d) == Put(r, d)
ReadOf(r, d) ==
    LET here == WriteableBytes(r)
    IN  IF Len(d) <= here THEN Put(r, d)
        ELSE AppendBytes(Put(r, SubSeq(d, 1, here)),
                         SubSeq(d, here + 1, Len(d)))

-----------------------------------------------------------------------------
(* Numbers in network byte order.  The host is little-endian: in its memory  *)
(* the least significant byte comes first.                                   *)

HostOrder(n) == n

\* htons and htonl; hton64, and ntoh64, which is the same, swap each half.
NetworkOrder(n) ==
    IF Len(n) = 8 THEN Reverse(SubSeq(n, 5, 8)) \o Reverse(SubSeq(n, 1, 4))
                  ELSE Reverse(n)

InMemory(n) == Reverse(n)

BytesOf(n) == InMemory(NetworkOrder(n))

\* Of four bytes, a uint16_t keeps the two lower ones of what htonl returns, and
\* memcpy takes four from its address; of eight, memcpy takes four.
FrontBytesOf(n, behind) ==
    IF Len(n) = 4 THEN InMemory(SubSeq(NetworkOrder(n), 3, 4)) \o behind
    ELSE IF Len(n) = 8 THEN SubSeq(BytesOf(n), 1, 4)
    ELSE BytesOf(n)

PeekInt(r, width) ==
    NetworkOrder(InMemory(SubSeq(r.data, r.read + 1, r.read + width)))

\* The assertions of PeekInt8 to PeekInt64.
MayPeek(r, width) ==
    CASE width = 1 -> TRUE
      [] width = 2 -> ReadableBytes(r) >= 2
      [] width \in {4, 8} -> ReadableBytes(r) >= 4

-----------------------------------------------------------------------------
(* The public operations.                                                  *)

Init == buf \in [Buffers -> {New(len) : len \in Lens}]

\* The bound of the model.
Fits(b, r) == Len(r.data) <= MaxSize[b]

Becomes(b, r) == Fits(b, r) /\ buf' = [buf EXCEPT ![b] = r]

AppendData(b, d) == Becomes(b, AppendBytes(buf[b], d))
AddInFront(b, d) == Becomes(b, AddInFrontOf(buf[b], d))
AppendInt(b, n) == AppendData(b, BytesOf(n))
AddInFrontInt(b, n) ==
    \E behind \in Behind : AddInFront(b, FrontBytesOf(n, behind))
ReadFd(b, d) == Len(d) <= ReadLimit(buf[b]) /\ Becomes(b, ReadOf(buf[b], d))
Retrieve(b, len) == Becomes(b, RetrieveOf(buf[b], len))
Read(b, len) == Retrieve(b, IF len > ReadableBytes(buf[b])
                              THEN ReadableBytes(buf[b]) ELSE len)
ReadInt(b, width) == MayPeek(buf[b], width) /\ Retrieve(b, width)
RetrieveAll(b) == Becomes(b, RetrieveAllOf(buf[b]))
AppendBuffer(b, c) == Becomes(b, AppendBytes(buf[b], Content(buf[c])))
Assign(b, c) == Becomes(b, buf[c])
Swap(b, c) ==
    /\ Fits(b, buf[c])
    /\ Fits(c, buf[b])
    /\ buf' = [buf EXCEPT ![b] = buf[c], ![c] = buf[b]]

Next ==
    \/ \E b \in Buffers, d \in Data :
         AppendData(b, d) \/ AddInFront(b, d) \/ ReadFd(b, d)
    \/ \E b \in Buffers, n \in Numbers : AppendInt(b, n) \/ AddInFrontInt(b, n)
    \/ \E b \in Buffers :
         \/ \E width \in {1, 2, 4, 8} : ReadInt(b, width)
         \/ \E len \in 0 .. ReadableBytes(buf[b]) + 1 :
              Retrieve(b, len) \/ Read(b, len)
         \/ RetrieveAll(b)
    \/ \E b, c \in Buffers : AppendBuffer(b, c) \/ Assign(b, c) \/ Swap(b, c)

Spec == Init /\ [][Next]_buf

-----------------------------------------------------------------------------
(* Properties.                                                             *)

\* The members' types, and the indices are in order and within the vector, for
\* every sequence of operations on buffers constructed with at least the length
\* of the offset.
IndicesInBounds ==
    \A b \in Buffers :
        /\ buf[b].data \in Seq(Bytes)
        /\ {buf[b].read, buf[b].write, buf[b].init} \subseteq Nat
        /\ buf[b].read <= buf[b].write
        /\ buf[b].write <= Len(buf[b].data)
        /\ BUF_OFFSET <= Len(buf[b].data)

\* init_cap_ follows the vector through every growth, copy and swap.  So the
\* vector is never more than twice as long, the condition under which
\* RetrieveAll would shrink it, and a buffer that has grown stays grown.
CapacityFollowsVector ==
    \A b \in Buffers : Len(buf[b].data) = buf[b].init + BUF_OFFSET

\* A MsgBuffer is a queue of bytes: no operation loses, repeats or moves one,
\* however the bytes are copied around.
Added == Data \cup {BytesOf(n) : n \in Numbers}
              \cup {FrontBytesOf(n, behind) : n \in Numbers, behind \in Behind}
Queue == INSTANCE ByteQueue WITH
    Data <- Added,
    content <- [b \in Buffers |-> Content(buf[b])]
BytesInOrder == Queue!Spec

\* In every state a buffer can be in: a number that is appended is there in
\* network byte order, behind what was there, and is read back as it was; so is
\* one that is added in front, if it is of one or two bytes.
NumbersReadBack ==
    \A b \in Buffers, n \in Numbers :
        /\ LET r == AppendBytes(buf[b], BytesOf(n))
           IN /\ Content(r) = Content(buf[b]) \o n
              /\ PeekInt(RetrieveOf(r, ReadableBytes(buf[b])), Len(n)) = n
        /\ \A behind \in Behind :
             LET r == AddInFrontOf(buf[b], FrontBytesOf(n, behind))
             IN  Len(n) <= 2 => /\ Content(r) = n \o Content(buf[b])
                                /\ PeekInt(r, Len(n)) = n

=============================================================================
