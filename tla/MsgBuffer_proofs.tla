--------------------------- MODULE MsgBuffer_proofs ---------------------------
(***************************************************************************)
(* For buffers of any number and length: the indices of MsgBuffer stay     *)
(* within the vector, and init_cap_ follows the vector, provided that no   *)
(* buffer is constructed shorter than BUF_OFFSET.                          *)
(*                                                                         *)
(* The invariant is that every buffer is Good.  Each operator of MsgBuffer *)
(* has a lemma that says it maps a Good buffer to a Good one, and what it  *)
(* does to the indices and lengths that the next operator depends on.      *)
(* A second lemma for each says what it does to the bytes between the      *)
(* indices: that is the refinement of ByteQueue, and that a number is read *)
(* back from a buffer as it was put in.                                    *)
(***************************************************************************)
EXTENDS MsgBuffer, SequenceTheorems, TLAPS

Records == [read : Nat, write : Nat, init : Nat, data : Seq(Bytes)]

\* The indices are in order and within the vector, which is as long as init_cap_
\* and the offset together.
Good(r) ==
    /\ r \in Records
    /\ r.read <= r.write
    /\ r.write <= Len(r.data)
    /\ Len(r.data) = r.init + BUF_OFFSET
    /\ BUF_OFFSET <= r.init

\* Nobody constructs a buffer that is shorter than the offset.
LongEnough == \A len \in Lens : BUF_OFFSET <= len

IInv == /\ buf \in [Buffers -> Records]
        /\ \A b \in Buffers : Good(buf[b])

\* An update of the vector and the indices that keeps them in order.
Updated(r, data, read, write) ==
    [r EXCEPT !.data = data, !.read = read, !.write = write]

LEMMA UpdateIsGood ==
    ASSUME NEW r, Good(r),
           NEW data, data \in Seq(Bytes), Len(data) = Len(r.data),
           NEW read, read \in Nat, NEW write, write \in Nat,
           read <= write, write <= Len(r.data)
    PROVE  Good(Updated(r, data, read, write))
<1> DEFINE new == Updated(r, data, read, write)
<1>1. r \in Records /\ Len(r.data) = r.init + BUF_OFFSET /\ BUF_OFFSET <= r.init
    BY DEF Good
<1>2. new \in Records
    BY <1>1 DEF Records, Updated
<1>3. /\ new.read = read
      /\ new.write = write
      /\ new.init = r.init
      /\ new.data = data
    BY <1>1 DEF Records, Updated
<1> HIDE DEF new
<1>4. Good(new)
    BY <1>1, <1>2, <1>3 DEF Good
<1> QED
    BY <1>4 DEF new

-----------------------------------------------------------------------------
(* The vector.                                                             *)

\* A new buffer is good, empty, and has room for its length.
LEMMA NewIsGood ==
    ASSUME NEW len \in Nat, BUF_OFFSET <= len
    PROVE  /\ Good(New(len))
           /\ New(len).read = BUF_OFFSET
           /\ New(len).write = BUF_OFFSET
           /\ Len(New(len).data) = len + BUF_OFFSET
<1> DEFINE zeros == [i \in 1 .. len + BUF_OFFSET |-> Zero]
<1>1. BUF_OFFSET \in Nat /\ Zero \in Bytes
    BY MsgBufferAssumption
<1>2. zeros \in Seq(Bytes) /\ Len(zeros) = len + BUF_OFFSET
    BY <1>1
<1> HIDE DEF zeros
<1>3. New(len) = [read |-> BUF_OFFSET, write |-> BUF_OFFSET, init |-> len,
                  data |-> zeros]
    BY DEF New, zeros
<1> QED
    BY <1>1, <1>2, <1>3 DEF Good, Records

\* Overwriting bytes of the vector keeps it a vector of bytes of its length.
LEMMA OverwriteKeepsLength ==
    ASSUME NEW data \in Seq(Bytes), NEW at \in Nat, NEW d \in Seq(Bytes)
    PROVE  /\ Overwrite(data, at, d) \in Seq(Bytes)
           /\ Len(Overwrite(data, at, d)) = Len(data)
<1> DEFINE new == [i \in 1 .. Len(data) |->
                     IF i \in at + 1 .. at + Len(d) THEN d[i - at] ELSE data[i]]
<1>1. \A i \in 1 .. Len(data) : new[i] \in Bytes
  <2> SUFFICES ASSUME NEW i \in 1 .. Len(data)
               PROVE  (IF i \in at + 1 .. at + Len(d) THEN d[i - at]
                                                       ELSE data[i]) \in Bytes
      OBVIOUS
  <2>1. CASE i \in at + 1 .. at + Len(d)
    <3>1. i - at \in 1 .. Len(d)
        BY <2>1
    <3> QED
        BY <2>1, <3>1
  <2>2. CASE i \notin at + 1 .. at + Len(d)
      BY <2>2
  <2> QED
      BY <2>1, <2>2
<1>2. new \in [1 .. Len(data) -> Bytes]
    BY <1>1
<1>3. new \in Seq(Bytes) /\ Len(new) = Len(data)
    BY <1>2
<1> QED
    BY <1>3 DEF Overwrite

\* What is readable is a string of bytes, as long as ReadableBytes() says.
LEMMA ContentIsReadable ==
    ASSUME NEW r, Good(r)
    PROVE  /\ Content(r) \in Seq(Bytes)
           /\ Len(Content(r)) = ReadableBytes(r)
           /\ ReadableBytes(r) \in Nat
<1>1. /\ r.read \in Nat /\ r.write \in Nat /\ r.data \in Seq(Bytes)
      /\ r.read <= r.write /\ r.write <= Len(r.data)
    BY DEF Good, Records
<1>2. r.read + 1 \in 1 .. Len(r.data) + 1 /\ r.write \in r.read .. Len(r.data)
    BY <1>1
<1> QED
    BY <1>1, <1>2 DEF Content, ReadableBytes

\* In a good buffer WriteableBytes() is the room behind the write index.
LEMMA WriteableIsRoom ==
    ASSUME NEW r, Good(r)
    PROVE  /\ WriteableBytes(r) = Len(r.data) - r.write
           /\ WriteableBytes(r) \in Nat
BY DEF Good, Records, WriteableBytes

\* Putting bytes into the room behind the write index.
LEMMA PutIsGood ==
    ASSUME NEW r, Good(r), NEW d \in Seq(Bytes),
           r.write + Len(d) <= Len(r.data)
    PROVE  /\ Good(Put(r, d))
           /\ Put(r, d).write = r.write + Len(d)
           /\ Len(Put(r, d).data) = Len(r.data)
<1> DEFINE new == Overwrite(r.data, r.write, d)
<1>1. r \in Records /\ r.write \in Nat /\ r.data \in Seq(Bytes)
    BY DEF Good, Records
<1>2. new \in Seq(Bytes) /\ Len(new) = Len(r.data)
    BY <1>1, OverwriteKeepsLength
<1>3. Len(d) \in Nat
    OBVIOUS
<1>4. Put(r, d) = [r EXCEPT !.data = new, !.write = r.write + Len(d)]
    BY DEF Put
<1> HIDE DEF new
<1>5. Put(r, d) = Updated(r, new, r.read, r.write + Len(d))
    BY <1>1, <1>4 DEF Records, Updated
<1>6. /\ r.read \in Nat /\ r.write + Len(d) \in Nat
      /\ r.read <= r.write + Len(d)
    BY <1>1, <1>3 DEF Good, Records
<1>7. Good(Put(r, d))
    BY <1>2, <1>5, <1>6, UpdateIsGood
<1>8. Put(r, d).write = r.write + Len(d) /\ Put(r, d).data = new
    BY <1>1, <1>5 DEF Records, Updated
<1> QED
    BY <1>2, <1>7, <1>8

-----------------------------------------------------------------------------
(* The operations.                                                         *)

\* EnsureWriteableBytes makes room for len bytes.
LEMMA EnsureMakesRoom ==
    ASSUME NEW r, Good(r), NEW len \in Nat
    PROVE  /\ Good(EnsureWriteableBytes(r, len))
           /\ EnsureWriteableBytes(r, len).write + len
                 <= Len(EnsureWriteableBytes(r, len).data)
<1>1. /\ r \in Records
      /\ r.read \in Nat /\ r.write \in Nat /\ r.init \in Nat
      /\ r.data \in Seq(Bytes) /\ Len(r.data) \in Nat
      /\ r.read <= r.write /\ r.write <= Len(r.data)
      /\ Len(r.data) = r.init + BUF_OFFSET /\ BUF_OFFSET <= r.init
    BY DEF Good, Records
<1>2. BUF_OFFSET \in Nat
    BY MsgBufferAssumption
<1>3. /\ WriteableBytes(r) = Len(r.data) - r.write
      /\ ReadableBytes(r) = r.write - r.read
    BY WriteableIsRoom DEF ReadableBytes
<1>4. Content(r) \in Seq(Bytes) /\ Len(Content(r)) = r.write - r.read
    BY <1>3, ContentIsReadable
<1>5. CASE WriteableBytes(r) >= len
    BY <1>1, <1>3, <1>5 DEF EnsureWriteableBytes
<1>6. CASE ~(WriteableBytes(r) >= len) /\ CompactsFor(r, len)
  <2> DEFINE new == Overwrite(r.data, BUF_OFFSET, Content(r))
  <2>1. new \in Seq(Bytes) /\ Len(new) = Len(r.data)
      BY <1>1, <1>2, <1>4, OverwriteKeepsLength
  <2>2. BUF_OFFSET + (r.write - r.read) + len <= Len(r.data)
      BY <1>1, <1>2, <1>3, <1>6 DEF CompactsFor
  <2>3. EnsureWriteableBytes(r, len)
          = Updated(r, new, BUF_OFFSET, BUF_OFFSET + (r.write - r.read))
      BY <1>3, <1>6 DEF EnsureWriteableBytes, Compact, Updated
  <2> HIDE DEF new
  <2> DEFINE start == BUF_OFFSET
             end == BUF_OFFSET + (r.write - r.read)
             e == EnsureWriteableBytes(r, len)
  <2>4. start \in Nat /\ end \in Nat /\ start <= end /\ end <= Len(r.data)
      BY <1>1, <1>2, <2>2
  <2>5. e = Updated(r, new, start, end)
      BY <2>3
  <2>6. end + len <= Len(r.data)
      BY <2>2
  <2> HIDE DEF start, end, e
  <2>7. Good(e) /\ e.write = end /\ e.data = new
    <3>1. Good(Updated(r, new, start, end))
        BY <2>1, <2>4, UpdateIsGood
    <3>2. /\ Updated(r, new, start, end).write = end
          /\ Updated(r, new, start, end).data = new
        BY <1>1 DEF Records, Updated
    <3> QED
        BY <2>5, <3>1, <3>2
  <2>8. Good(e) /\ e.write + len <= Len(e.data)
    <3>1. Len(e.data) = Len(r.data)
        BY <2>1, <2>7
    <3>2. Len(r.data) \in Nat /\ end \in Nat
        BY <1>1, <2>4
    <3> QED
        BY <2>6, <2>7, <3>1, <3>2
  <2> QED
      BY <2>8 DEF e
<1>7. CASE ~(WriteableBytes(r) >= len) /\ ~CompactsFor(r, len)
  <2> DEFINE n == GrownLen(r, len)
  <2>1. n \in Nat /\ BUF_OFFSET + (r.write - r.read) + len <= n
    <3> DEFINE twice == Len(r.data) * 2
               enough == BUF_OFFSET + (r.write - r.read) + len
    <3>1. twice \in Nat /\ enough \in Nat
      <4>1. /\ Len(r.data) \in Nat /\ BUF_OFFSET \in Nat /\ len \in Nat
            /\ r.read \in Nat /\ r.write \in Nat /\ r.read <= r.write
          BY <1>1, <1>2
      <4> QED
          BY <4>1
    <3>2. n = IF twice > enough THEN twice ELSE enough
        BY <1>3 DEF GrownLen
    <3> HIDE DEF n, twice, enough
    <3>3. n \in Nat /\ enough <= n
        BY <3>1, <3>2
    <3> QED
        BY <3>3 DEF enough
  <2>2. EnsureWriteableBytes(r, len) = Put(New(n), Content(r))
      BY <1>7 DEF EnsureWriteableBytes
  <2> HIDE DEF n
  <2>3. BUF_OFFSET <= n
      BY <1>1, <1>2, <2>1
  <2>4. /\ Good(New(n))
        /\ New(n).write = BUF_OFFSET
        /\ Len(New(n).data) = n + BUF_OFFSET
      BY <2>1, <2>3, NewIsGood
  <2>5. New(n).write + Len(Content(r)) <= Len(New(n).data)
      BY <1>1, <1>2, <1>4, <2>1, <2>4
  <2>6. /\ Good(Put(New(n), Content(r)))
        /\ Put(New(n), Content(r)).write = BUF_OFFSET + (r.write - r.read)
        /\ Len(Put(New(n), Content(r)).data) = n + BUF_OFFSET
      BY <1>4, <2>4, <2>5, PutIsGood
  <2> QED
      BY <1>1, <1>2, <2>1, <2>2, <2>6
<1> QED
    BY <1>5, <1>6, <1>7

LEMMA AppendIsGood ==
    ASSUME NEW r, Good(r), NEW d \in Seq(Bytes)
    PROVE  Good(AppendBytes(r, d))
BY EnsureMakesRoom, PutIsGood DEF AppendBytes

\* RetrieveAll does not shrink the vector.
LEMMA RetrieveAllIsGood ==
    ASSUME NEW r, Good(r)
    PROVE  Good(RetrieveAllOf(r))
<1>1. /\ r \in Records
      /\ r.init \in Nat /\ r.data \in Seq(Bytes)
      /\ Len(r.data) = r.init + BUF_OFFSET /\ BUF_OFFSET <= r.init
    BY DEF Good, Records
<1>2. BUF_OFFSET \in Nat
    BY MsgBufferAssumption
<1>3. ~(Len(r.data) > r.init * 2)
    BY <1>1, <1>2
<1> DEFINE new == RetrieveAllOf(r)
<1>4. new = [r EXCEPT !.data = r.data, !.read = BUF_OFFSET, !.write = BUF_OFFSET]
    BY <1>3 DEF RetrieveAllOf
<1> HIDE DEF new
<1>5. /\ new \in Records
      /\ new.read = BUF_OFFSET
      /\ new.write = BUF_OFFSET
      /\ new.init = r.init
      /\ new.data = r.data
    BY <1>1, <1>2, <1>4 DEF Records
<1>6. Good(new)
    BY <1>1, <1>2, <1>5 DEF Good
<1> QED
    BY <1>6 DEF new

LEMMA RetrieveIsGood ==
    ASSUME NEW r, Good(r), NEW len \in Nat
    PROVE  Good(RetrieveOf(r, len))
<1>1. CASE len >= ReadableBytes(r)
    BY <1>1, RetrieveAllIsGood DEF RetrieveOf
<1>2. CASE ~(len >= ReadableBytes(r))
  <2>1. RetrieveOf(r, len) = [r EXCEPT !.read = r.read + len]
      BY <1>2 DEF RetrieveOf
  <2> QED
      BY <1>2, <2>1 DEF Good, Records, ReadableBytes
<1> QED
    BY <1>1, <1>2

LEMMA AddInFrontIsGood ==
    ASSUME NEW r, Good(r), NEW d \in Seq(Bytes)
    PROVE  Good(AddInFrontOf(r, d))
<1>1. /\ r \in Records
      /\ r.read \in Nat /\ r.write \in Nat /\ r.init \in Nat
      /\ r.data \in Seq(Bytes) /\ Len(r.data) \in Nat
      /\ r.read <= r.write /\ r.write <= Len(r.data)
      /\ Len(r.data) = r.init + BUF_OFFSET /\ BUF_OFFSET <= r.init
    BY DEF Good, Records
<1>2. BUF_OFFSET \in Nat /\ Len(d) \in Nat
    BY MsgBufferAssumption
<1>3. /\ WriteableBytes(r) = Len(r.data) - r.write
      /\ ReadableBytes(r) = r.write - r.read
    BY WriteableIsRoom DEF ReadableBytes
<1>4. /\ d \o Content(r) \in Seq(Bytes)
      /\ Len(d \o Content(r)) = Len(d) + (r.write - r.read)
    BY <1>3, ContentIsReadable
<1>5. CASE r.read >= Len(d)
  <2> DEFINE new == Overwrite(r.data, r.read - Len(d), d)
  <2>1. r.read - Len(d) \in Nat
      BY <1>1, <1>2, <1>5
  <2>2. new \in Seq(Bytes) /\ Len(new) = Len(r.data)
      BY <1>1, <2>1, OverwriteKeepsLength
  <2>3. AddInFrontOf(r, d) = [r EXCEPT !.data = new,
                                       !.read = r.read - Len(d)]
      BY <1>5 DEF AddInFrontOf
  <2> HIDE DEF new
  <2>4. AddInFrontOf(r, d) = Updated(r, new, r.read - Len(d), r.write)
      BY <1>1, <2>3 DEF Records, Updated
  <2>5. r.read - Len(d) <= r.write
      BY <1>1, <1>2
  <2> QED
      BY <1>1, <2>1, <2>2, <2>4, <2>5, UpdateIsGood
<1>6. CASE ~(r.read >= Len(d)) /\ Len(d) <= WriteableBytes(r)
  <2> DEFINE new == Overwrite(r.data, r.read, d \o Content(r))
  <2>1. new \in Seq(Bytes) /\ Len(new) = Len(r.data)
      BY <1>1, <1>4, OverwriteKeepsLength
  <2>2. AddInFrontOf(r, d) = [r EXCEPT !.data = new,
                                       !.write = r.write + Len(d)]
      BY <1>6 DEF AddInFrontOf
  <2> HIDE DEF new
  <2>3. AddInFrontOf(r, d) = Updated(r, new, r.read, r.write + Len(d))
      BY <1>1, <2>2 DEF Records, Updated
  <2>4. /\ r.write + Len(d) \in Nat
        /\ r.read <= r.write + Len(d)
        /\ r.write + Len(d) <= Len(r.data)
      BY <1>1, <1>2, <1>3, <1>6
  <2> QED
      BY <1>1, <2>1, <2>3, <2>4, UpdateIsGood
<1>7. CASE ~(r.read >= Len(d)) /\ ~(Len(d) <= WriteableBytes(r))
  <2> DEFINE n == FrontLen(r, Len(d))
  <2>1. n \in Nat /\ BUF_OFFSET <= n /\ Len(d) + (r.write - r.read) <= n
      BY <1>1, <1>2, <1>3 DEF FrontLen
  <2>2. AddInFrontOf(r, d) = Put(New(n), d \o Content(r))
      BY <1>7 DEF AddInFrontOf
  <2> HIDE DEF n
  <2>3. /\ Good(New(n))
        /\ New(n).write = BUF_OFFSET
        /\ Len(New(n).data) = n + BUF_OFFSET
      BY <2>1, NewIsGood
  <2>4. New(n).write + Len(d \o Content(r)) <= Len(New(n).data)
      BY <1>1, <1>2, <1>4, <2>1, <2>3
  <2> QED
      BY <1>4, <2>2, <2>3, <2>4, PutIsGood
<1> QED
    BY <1>5, <1>6, <1>7

\* What readv put behind the write index, and the rest of it from ext_buffer.
LEMMA ReadIsGood ==
    ASSUME NEW r, Good(r), NEW d \in Seq(Bytes)
    PROVE  Good(ReadOf(r, d))
<1> DEFINE here == WriteableBytes(r)
<1>1. here \in Nat /\ here = Len(r.data) - r.write
    BY WriteableIsRoom
<1>2. r.write \in Nat /\ Len(r.data) \in Nat /\ Len(d) \in Nat
    BY DEF Good, Records
<1>3. ReadOf(r, d) = IF Len(d) <= here THEN Put(r, d)
                     ELSE AppendBytes(Put(r, SubSeq(d, 1, here)),
                                      SubSeq(d, here + 1, Len(d)))
    BY DEF ReadOf
<1> HIDE DEF here
<1>4. CASE Len(d) <= here
    BY <1>1, <1>2, <1>3, <1>4, PutIsGood
<1>5. CASE ~(Len(d) <= here)
  <2>1. /\ SubSeq(d, 1, here) \in Seq(Bytes)
        /\ Len(SubSeq(d, 1, here)) = here
        /\ SubSeq(d, here + 1, Len(d)) \in Seq(Bytes)
      BY <1>1, <1>2, <1>5
  <2>3. r.write + Len(SubSeq(d, 1, here)) <= Len(r.data)
      BY <1>1, <1>2, <2>1
  <2>2. Good(Put(r, SubSeq(d, 1, here)))
      BY <2>1, <2>3, PutIsGood
  <2> QED
      BY <1>3, <1>5, <2>1, <2>2, AppendIsGood
<1> QED
    BY <1>4, <1>5

-----------------------------------------------------------------------------
(* What is readable, byte by byte.                                         *)

LEMMA SameBytes ==
    ASSUME NEW s \in Seq(Bytes), NEW t \in Seq(Bytes), Len(s) = Len(t),
           \A i \in 1 .. Len(s) : s[i] = t[i]
    PROVE  s = t
BY SeqEqual

LEMMA GoodFields ==
    ASSUME NEW r, Good(r)
    PROVE  /\ r \in Records
           /\ r.read \in Nat /\ r.write \in Nat /\ r.init \in Nat
           /\ r.data \in Seq(Bytes) /\ Len(r.data) \in Nat
           /\ r.read <= r.write /\ r.write <= Len(r.data)
           /\ Len(r.data) = r.init + BUF_OFFSET /\ BUF_OFFSET <= r.init
           /\ BUF_OFFSET \in Nat
BY MsgBufferAssumption DEF Good, Records

LEMMA ContentBytes ==
    ASSUME NEW r, Good(r), NEW i \in 1 .. ReadableBytes(r)
    PROVE  Content(r)[i] = r.data[r.read + i]
<1>1. /\ r.read \in Nat /\ r.write \in Nat /\ r.data \in Seq(Bytes)
      /\ r.read <= r.write /\ r.write <= Len(r.data)
    BY GoodFields
<1>2. i \in 1 .. r.write - r.read
    BY DEF ReadableBytes
<1> QED
    BY <1>1, <1>2 DEF Content

\* The content of a buffer is the string that its vector holds between the indices.
LEMMA ContentIs ==
    ASSUME NEW r, Good(r), NEW s \in Seq(Bytes), r.read + Len(s) = r.write,
           \A i \in 1 .. Len(s) : r.data[r.read + i] = s[i]
    PROVE  Content(r) = s
<1>1. Content(r) \in Seq(Bytes) /\ Len(Content(r)) = Len(s)
  <2>1. /\ Content(r) \in Seq(Bytes) /\ Len(Content(r)) = r.write - r.read
        /\ r.read \in Nat /\ r.write \in Nat
      BY ContentIsReadable, GoodFields DEF ReadableBytes
  <2>2. Len(s) \in Nat
      OBVIOUS
  <2> QED
      BY <2>1, <2>2
<1>2. ASSUME NEW i \in 1 .. Len(s) PROVE Content(r)[i] = s[i]
  <2>1. i \in 1 .. ReadableBytes(r)
      BY <1>1, ContentIsReadable
  <2> QED
      BY <2>1, ContentBytes
<1> QED
    BY <1>1, <1>2, SameBytes

LEMMA OverwriteBytes ==
    ASSUME NEW data \in Seq(Bytes), NEW at \in Nat, NEW d \in Seq(Bytes),
           NEW i \in 1 .. Len(data)
    PROVE  Overwrite(data, at, d)[i] =
             IF i \in at + 1 .. at + Len(d) THEN d[i - at] ELSE data[i]
BY DEF Overwrite

LEMMA ConcatBytes ==
    ASSUME NEW s \in Seq(Bytes), NEW t \in Seq(Bytes)
    PROVE  /\ s \o t \in Seq(Bytes) /\ Len(s \o t) = Len(s) + Len(t)
           /\ Len(s) \in Nat /\ Len(t) \in Nat
           /\ \A i \in 1 .. Len(s) + Len(t) :
                (s \o t)[i] = IF i <= Len(s) THEN s[i] ELSE t[i - Len(s)]
OBVIOUS

LEMMA EmptyContent ==
    ASSUME NEW r, Good(r), r.read = r.write
    PROVE  Content(r) = <<>>
<1>1. Content(r) \in Seq(Bytes) /\ Len(Content(r)) = 0
    BY ContentIsReadable, GoodFields DEF ReadableBytes
<1> QED
    BY <1>1, EmptySeq

\* A new buffer is empty.
LEMMA NewContent ==
    ASSUME NEW len \in Nat, BUF_OFFSET <= len
    PROVE  Content(New(len)) = <<>>
    BY NewIsGood, EmptyContent

\* What is put behind the write index is behind what was readable.
LEMMA PutContent ==
    ASSUME NEW r, Good(r), NEW d \in Seq(Bytes),
           r.write + Len(d) <= Len(r.data)
    PROVE  Content(Put(r, d)) = Content(r) \o d
<1> DEFINE new == Overwrite(r.data, r.write, d)
           c == Content(r)
<1>1. /\ r \in Records /\ r.read \in Nat /\ r.write \in Nat /\ r.data \in Seq(Bytes)
      /\ r.read <= r.write /\ r.write <= Len(r.data) /\ Len(r.data) \in Nat
      /\ Len(d) \in Nat
    BY GoodFields
<1>2. /\ Good(Put(r, d)) /\ Put(r, d).read = r.read
      /\ Put(r, d).write = r.write + Len(d) /\ Put(r, d).data = new
    BY <1>1, PutIsGood DEF Put, Records
<1>3. /\ c \in Seq(Bytes) /\ Len(c) = r.write - r.read
      /\ \A i \in 1 .. r.write - r.read : c[i] = r.data[r.read + i]
    BY ContentIsReadable, ContentBytes DEF ReadableBytes
<1>4. \A i \in 1 .. Len(r.data) :
        new[i] = IF i \in r.write + 1 .. r.write + Len(d) THEN d[i - r.write]
                                                          ELSE r.data[i]
    BY <1>1, OverwriteBytes
<1> HIDE DEF new, c
<1>5. /\ c \o d \in Seq(Bytes) /\ Len(c \o d) = (r.write - r.read) + Len(d)
      /\ \A i \in 1 .. (r.write - r.read) + Len(d) :
            (c \o d)[i] = IF i <= r.write - r.read THEN c[i] ELSE d[i - (r.write - r.read)]
  <2>1. /\ c \o d \in Seq(Bytes) /\ Len(c \o d) = Len(c) + Len(d)
        /\ \A i \in 1 .. Len(c) + Len(d) :
              (c \o d)[i] = IF i <= Len(c) THEN c[i] ELSE d[i - Len(c)]
      BY <1>3, ConcatBytes
  <2> QED
      BY <1>3, <2>1
<1>6. ASSUME NEW i \in 1 .. Len(c \o d)
      PROVE  new[r.read + i] = (c \o d)[i]
  <2>1. i \in 1 .. (r.write - r.read) + Len(d) /\ r.read + i \in 1 .. Len(r.data)
      BY <1>1, <1>5
  <2>2. CASE i <= r.write - r.read
    <3>1. r.read + i \notin r.write + 1 .. r.write + Len(d) /\ i \in 1 .. r.write - r.read
        BY <1>1, <2>1, <2>2
    <3> QED
        BY <1>3, <1>4, <1>5, <2>1, <2>2, <3>1
  <2>3. CASE ~(i <= r.write - r.read)
    <3>1. /\ r.read + i \in r.write + 1 .. r.write + Len(d)
          /\ (r.read + i) - r.write = i - (r.write - r.read)
        BY <1>1, <2>1, <2>3
    <3> QED
        BY <1>4, <1>5, <2>1, <2>3, <3>1
  <2> QED
      BY <2>2, <2>3
<1>7. r.read + Len(c \o d) = r.write + Len(d)
    BY <1>1, <1>5
<1>8. Content(Put(r, d)) = c \o d
    BY <1>2, <1>5, <1>6, <1>7, ContentIs
<1> QED
    BY <1>8 DEF c

\* Making room moves the content at most.
LEMMA EnsureKeepsContent ==
    ASSUME NEW r, Good(r), NEW len \in Nat
    PROVE  Content(EnsureWriteableBytes(r, len)) = Content(r)
<1> DEFINE c == Content(r)
<1>1. /\ r \in Records /\ r.read \in Nat /\ r.write \in Nat /\ r.init \in Nat
      /\ r.data \in Seq(Bytes) /\ Len(r.data) \in Nat
      /\ r.read <= r.write /\ r.write <= Len(r.data)
      /\ Len(r.data) = r.init + BUF_OFFSET /\ BUF_OFFSET <= r.init
      /\ BUF_OFFSET \in Nat
    BY GoodFields
<1>2. c \in Seq(Bytes) /\ Len(c) = r.write - r.read
    BY ContentIsReadable DEF ReadableBytes
<1>3. /\ WriteableBytes(r) = Len(r.data) - r.write
      /\ ReadableBytes(r) = r.write - r.read
    BY WriteableIsRoom DEF ReadableBytes
<1>4. Good(EnsureWriteableBytes(r, len))
    BY EnsureMakesRoom
<1>5. CASE WriteableBytes(r) >= len
    BY <1>5 DEF EnsureWriteableBytes
<1>6. CASE ~(WriteableBytes(r) >= len) /\ CompactsFor(r, len)
  <2> DEFINE e == EnsureWriteableBytes(r, len)
             new == Overwrite(r.data, BUF_OFFSET, c)
  <2>1. e = Compact(r)
      BY <1>6 DEF EnsureWriteableBytes
  <2>2. /\ e.read = BUF_OFFSET /\ e.write = BUF_OFFSET + (r.write - r.read)
        /\ e.data = new
      BY <1>1, <1>3, <2>1 DEF Compact, Records
  <2>3. BUF_OFFSET + (r.write - r.read) <= Len(r.data)
    <3>1. ~(WriteableBytes(r) >= len)
          /\ r.read + WriteableBytes(r) >= len + BUF_OFFSET
        BY <1>6 DEF CompactsFor
    <3>2. /\ r.read \in Nat /\ r.write \in Nat /\ BUF_OFFSET \in Nat
          /\ Len(r.data) \in Nat
        BY <1>1
    <3> QED
        BY <1>3, <3>1, <3>2
  <2>4. \A i \in 1 .. Len(r.data) :
          new[i] = IF i \in BUF_OFFSET + 1 .. BUF_OFFSET + Len(c)
                     THEN c[i - BUF_OFFSET] ELSE r.data[i]
    <3> HIDE DEF c
    <3>1. r.data \in Seq(Bytes) /\ BUF_OFFSET \in Nat /\ c \in Seq(Bytes)
        BY <1>1, <1>2
    <3> QED
        BY <3>1, OverwriteBytes
  <2> HIDE DEF e, new, c
  <2>5. ASSUME NEW i \in 1 .. Len(c) PROVE new[BUF_OFFSET + i] = c[i]
    <3>1. /\ BUF_OFFSET + i \in 1 .. Len(r.data)
          /\ BUF_OFFSET + i \in BUF_OFFSET + 1 .. BUF_OFFSET + Len(c)
          /\ (BUF_OFFSET + i) - BUF_OFFSET = i
        BY <1>1, <1>2, <2>3
    <3> QED
        BY <2>4, <3>1
  <2>6. Good(e) /\ e.read + Len(c) = e.write
      BY <1>1, <1>2, <1>4, <2>2 DEF e
  <2>7. Content(e) = c
      BY <1>2, <2>2, <2>5, <2>6, ContentIs
  <2> QED
      BY <2>7 DEF e, c
<1>7. CASE ~(WriteableBytes(r) >= len) /\ ~CompactsFor(r, len)
  <2> DEFINE n == GrownLen(r, len)
  <2>1. n \in Nat /\ BUF_OFFSET + (r.write - r.read) + len <= n
    <3> DEFINE twice == Len(r.data) * 2
               enough == BUF_OFFSET + (r.write - r.read) + len
    <3>1. twice \in Nat /\ enough \in Nat
      <4>1. /\ Len(r.data) \in Nat /\ BUF_OFFSET \in Nat /\ len \in Nat
            /\ r.read \in Nat /\ r.write \in Nat /\ r.read <= r.write
          BY <1>1
      <4> QED
          BY <4>1
    <3>2. n = IF twice > enough THEN twice ELSE enough
        BY <1>3 DEF GrownLen
    <3> HIDE DEF n, twice, enough
    <3>3. n \in Nat /\ enough <= n
        BY <3>1, <3>2
    <3> QED
        BY <3>3 DEF enough
  <2>2. EnsureWriteableBytes(r, len) = Put(New(n), c)
      BY <1>7 DEF EnsureWriteableBytes
  <2> HIDE DEF n, c
  <2>3. BUF_OFFSET <= n
      BY <1>1, <2>1
  <2>4. /\ Good(New(n)) /\ New(n).write = BUF_OFFSET
        /\ Len(New(n).data) = n + BUF_OFFSET /\ Content(New(n)) = <<>>
      BY <2>1, <2>3, NewIsGood, NewContent
  <2>5. New(n).write + Len(c) <= Len(New(n).data)
      BY <1>1, <1>2, <2>1, <2>4
  <2>6. Content(Put(New(n), c)) = <<>> \o c
      BY <1>2, <2>4, <2>5, PutContent
  <2>7. <<>> \o c = c
      BY <1>2
  <2> QED
      BY <2>2, <2>6, <2>7 DEF c
<1> QED
    BY <1>5, <1>6, <1>7

\* Appending appends.
LEMMA AppendContent ==
    ASSUME NEW r, Good(r), NEW d \in Seq(Bytes)
    PROVE  Content(AppendBytes(r, d)) = Content(r) \o d
<1> DEFINE e == EnsureWriteableBytes(r, Len(d))
<1>1. Good(e) /\ e.write + Len(d) <= Len(e.data) /\ Content(e) = Content(r)
    BY EnsureMakesRoom, EnsureKeepsContent
<1> HIDE DEF e
<1>2. Content(Put(e, d)) = Content(r) \o d
    BY <1>1, PutContent
<1> QED
    BY <1>2 DEF AppendBytes, e

\* Retrieving takes bytes from the front.
LEMMA RetrieveAllContent ==
    ASSUME NEW r, Good(r)
    PROVE  Content(RetrieveAllOf(r)) = <<>>
<1> DEFINE e == RetrieveAllOf(r)
<1>1. e.read = BUF_OFFSET /\ e.write = BUF_OFFSET /\ BUF_OFFSET \in Nat
    BY GoodFields DEF RetrieveAllOf, Records
<1>2. Good(e)
    BY RetrieveAllIsGood
<1> HIDE DEF e
<1>4. Content(e) = <<>>
    BY <1>1, <1>2, EmptyContent
<1> QED
    BY <1>4 DEF e

LEMMA RetrieveContent ==
    ASSUME NEW r, Good(r), NEW len \in Nat
    PROVE  Content(RetrieveOf(r, len)) =
             IF len >= ReadableBytes(r) THEN <<>>
             ELSE SubSeq(Content(r), len + 1, Len(Content(r)))
<1>1. CASE len >= ReadableBytes(r)
    BY <1>1, RetrieveAllContent DEF RetrieveOf
<1>2. CASE ~(len >= ReadableBytes(r))
  <2> DEFINE e == RetrieveOf(r, len)
             c == Content(r)
             rest == SubSeq(c, len + 1, Len(c))
  <2>1. /\ r \in Records /\ r.read \in Nat /\ r.write \in Nat /\ r.read <= r.write
        /\ c \in Seq(Bytes) /\ Len(c) = r.write - r.read
        /\ ReadableBytes(r) = r.write - r.read
      BY GoodFields, ContentIsReadable DEF ReadableBytes
  <2>2. /\ e.read = r.read + len /\ e.write = r.write /\ e.data = r.data
        /\ Good(e)
      BY <1>2, <2>1, RetrieveIsGood DEF RetrieveOf, Records
  <2>3. \A i \in 1 .. Len(c) : c[i] = r.data[r.read + i]
      BY <2>1, ContentBytes
  <2> HIDE DEF e, c
  <2>4. /\ rest \in Seq(Bytes) /\ Len(rest) = Len(c) - len
        /\ \A i \in 1 .. Len(c) - len : rest[i] = c[len + i]
    <3>1. Len(c) \in Nat /\ len < Len(c)
        BY <1>2, <2>1
    <3> QED
        BY <2>1, <3>1
  <2> HIDE DEF rest
  <2>5. ASSUME NEW i \in 1 .. Len(rest) PROVE e.data[e.read + i] = rest[i]
    <3>1. /\ i \in 1 .. Len(c) - len /\ len + i \in 1 .. Len(c)
          /\ r.read + (len + i) = (r.read + len) + i
        BY <1>2, <2>1, <2>4
    <3> QED
        BY <2>2, <2>3, <2>4, <3>1
  <2>6. e.read + Len(rest) = e.write
      BY <2>1, <2>2, <2>4
  <2>7. Content(e) = rest
      BY <2>2, <2>4, <2>5, <2>6, ContentIs
  <2> QED
      BY <1>2, <2>7 DEF e, rest, c
<1> QED
    BY <1>1, <1>2

\* Adding in front puts the bytes in front, wherever there is room.
LEMMA AddInFrontContent ==
    ASSUME NEW r, Good(r), NEW d \in Seq(Bytes)
    PROVE  Content(AddInFrontOf(r, d)) = d \o Content(r)
<1> DEFINE c == Content(r)
           dc == d \o c
           e == AddInFrontOf(r, d)
<1>1. /\ r \in Records /\ r.read \in Nat /\ r.write \in Nat /\ r.init \in Nat
      /\ r.data \in Seq(Bytes) /\ Len(r.data) \in Nat
      /\ r.read <= r.write /\ r.write <= Len(r.data)
      /\ BUF_OFFSET <= r.init /\ BUF_OFFSET \in Nat /\ Len(d) \in Nat
    BY GoodFields
<1>2. /\ c \in Seq(Bytes) /\ Len(c) = r.write - r.read
      /\ \A i \in 1 .. r.write - r.read : c[i] = r.data[r.read + i]
    BY ContentIsReadable, ContentBytes DEF ReadableBytes
<1>3. /\ WriteableBytes(r) = Len(r.data) - r.write
      /\ ReadableBytes(r) = r.write - r.read
    BY WriteableIsRoom DEF ReadableBytes
<1>4. Good(e)
    BY AddInFrontIsGood
<1> HIDE DEF c
<1>5. /\ dc \in Seq(Bytes) /\ Len(dc) = Len(d) + (r.write - r.read)
      /\ \A i \in 1 .. Len(d) + (r.write - r.read) :
            dc[i] = IF i <= Len(d) THEN d[i] ELSE c[i - Len(d)]
  <2>1. /\ dc \in Seq(Bytes) /\ Len(dc) = Len(d) + Len(c)
        /\ \A i \in 1 .. Len(d) + Len(c) :
              dc[i] = IF i <= Len(d) THEN d[i] ELSE c[i - Len(d)]
      BY <1>2, ConcatBytes
  <2> QED
      BY <1>2, <2>1
<1>6. CASE r.read >= Len(d)
  <2>0. PICK m : m = r.read - Len(d)
      OBVIOUS
  <2> DEFINE new == Overwrite(r.data, m, d)
  <2>1. /\ e.read = m /\ e.write = r.write /\ e.data = new
      BY <1>1, <1>6, <2>0 DEF AddInFrontOf, Records
  <2>2. m \in Nat /\ m + Len(d) = r.read
      BY <1>1, <1>6, <2>0
  <2>3. \A i \in 1 .. Len(r.data) :
          new[i] = IF i \in m + 1 .. m + Len(d) THEN d[i - m] ELSE r.data[i]
      BY <1>1, <2>2, OverwriteBytes
  <2> HIDE DEF e, new, dc
  <2>4. ASSUME NEW i \in 1 .. Len(dc)
        PROVE  new[m + i] = dc[i]
    <3>1. i \in 1 .. Len(d) + (r.write - r.read)
        BY <1>5
    <3>2. m + i \in 1 .. Len(r.data)
        BY <1>1, <2>2, <3>1
    <3>3. CASE i <= Len(d)
      <4>1. m + i \in m + 1 .. m + Len(d) /\ (m + i) - m = i
          BY <1>1, <2>2, <3>1, <3>3
      <4> QED
          BY <1>5, <2>3, <3>1, <3>2, <3>3, <4>1
    <3>4. CASE ~(i <= Len(d))
      <4>1. /\ m + i \notin m + 1 .. m + Len(d)
            /\ i - Len(d) \in 1 .. r.write - r.read
            /\ r.read + (i - Len(d)) = m + i
          BY <1>1, <2>2, <3>1, <3>4
      <4>2. new[m + i] = r.data[m + i] /\ dc[i] = c[i - Len(d)]
          BY <1>5, <2>3, <3>1, <3>2, <3>4, <4>1
      <4> QED
          BY <1>2, <4>1, <4>2
    <3> QED
        BY <3>3, <3>4
  <2>5. e.read + Len(dc) = e.write
      BY <1>1, <1>5, <2>1, <2>2
  <2>6. \A i \in 1 .. Len(dc) : e.data[e.read + i] = dc[i]
      BY <2>1, <2>4
  <2>7. Content(e) = dc
      BY <1>4, <1>5, <2>5, <2>6, ContentIs
  <2> QED
      BY <2>7 DEF e, dc, c
<1>7. CASE ~(r.read >= Len(d)) /\ Len(d) <= WriteableBytes(r)
  <2> DEFINE new == Overwrite(r.data, r.read, dc)
  <2>1. /\ e.read = r.read /\ e.write = r.write + Len(d) /\ e.data = new
      BY <1>1, <1>7 DEF AddInFrontOf, Records, c
  <2> HIDE DEF dc
  <2>2. \A i \in 1 .. Len(r.data) :
          new[i] = IF i \in r.read + 1 .. r.read + Len(dc)
                     THEN dc[i - r.read] ELSE r.data[i]
    <3>1. r.data \in Seq(Bytes) /\ r.read \in Nat /\ dc \in Seq(Bytes)
        BY <1>1, <1>5
    <3> QED
        BY <3>1, OverwriteBytes
  <2> HIDE DEF e, new
  <2>3. ASSUME NEW i \in 1 .. Len(dc)
        PROVE  new[r.read + i] = dc[i]
    <3>1. /\ r.read + i \in 1 .. Len(r.data)
          /\ r.read + i \in r.read + 1 .. r.read + Len(dc)
          /\ (r.read + i) - r.read = i
      <4>1. /\ Len(dc) = Len(d) + (r.write - r.read)
            /\ Len(d) <= Len(r.data) - r.write
          BY <1>3, <1>5, <1>7
      <4>2. /\ r.read \in Nat /\ r.write \in Nat /\ Len(d) \in Nat
            /\ Len(r.data) \in Nat /\ r.read <= r.write
          BY <1>1
      <4> QED
          BY <4>1, <4>2
    <3> QED
        BY <2>2, <3>1
  <2>4. e.read + Len(dc) = e.write
      BY <1>1, <1>5, <2>1
  <2>5. \A i \in 1 .. Len(dc) : e.data[e.read + i] = dc[i]
      BY <2>1, <2>3
  <2>6. Content(e) = dc
      BY <1>4, <1>5, <2>4, <2>5, ContentIs
  <2> QED
      BY <2>6 DEF e, dc, c
<1>8. CASE ~(r.read >= Len(d)) /\ ~(Len(d) <= WriteableBytes(r))
  <2> DEFINE n == FrontLen(r, Len(d))
  <2>1. n \in Nat /\ BUF_OFFSET <= n /\ Len(d) + (r.write - r.read) <= n
      BY <1>1, <1>3 DEF FrontLen
  <2>2. e = Put(New(n), dc)
      BY <1>8 DEF AddInFrontOf, c
  <2> HIDE DEF n, e, dc
  <2>3. /\ Good(New(n)) /\ New(n).write = BUF_OFFSET
        /\ Len(New(n).data) = n + BUF_OFFSET /\ Content(New(n)) = <<>>
      BY <2>1, NewIsGood, NewContent
  <2>4. New(n).write + Len(dc) <= Len(New(n).data)
      BY <1>1, <1>5, <2>1, <2>3
  <2>5. Content(Put(New(n), dc)) = <<>> \o dc
      BY <1>5, <2>3, <2>4, PutContent
  <2>6. <<>> \o dc = dc
      BY <1>5
  <2> QED
      BY <2>2, <2>5, <2>6 DEF e, dc, c
<1> QED
    BY <1>6, <1>7, <1>8

LEMMA SplitBytes ==
    ASSUME NEW d \in Seq(Bytes), NEW n \in 0 .. Len(d)
    PROVE  /\ SubSeq(d, 1, n) \in Seq(Bytes) /\ Len(SubSeq(d, 1, n)) = n
           /\ SubSeq(d, n + 1, Len(d)) \in Seq(Bytes)
           /\ Len(SubSeq(d, n + 1, Len(d))) = Len(d) - n
           /\ SubSeq(d, 1, n) \o SubSeq(d, n + 1, Len(d)) = d
<1> DEFINE d1 == SubSeq(d, 1, n)
           d2 == SubSeq(d, n + 1, Len(d))
<1>1. /\ d1 \in Seq(Bytes) /\ Len(d1) = n
      /\ \A i \in 1 .. n : d1[i] = d[i]
    OBVIOUS
<1>2. /\ d2 \in Seq(Bytes) /\ Len(d2) = Len(d) - n
      /\ \A i \in 1 .. Len(d) - n : d2[i] = d[n + i]
    OBVIOUS
<1> HIDE DEF d1, d2
<1>3. /\ d1 \o d2 \in Seq(Bytes) /\ Len(d1 \o d2) = Len(d)
      /\ \A i \in 1 .. Len(d) :
            (d1 \o d2)[i] = IF i <= n THEN d1[i] ELSE d2[i - n]
  <2>1. /\ d1 \o d2 \in Seq(Bytes) /\ Len(d1 \o d2) = Len(d1) + Len(d2)
        /\ \A i \in 1 .. Len(d1) + Len(d2) :
              (d1 \o d2)[i] = IF i <= Len(d1) THEN d1[i] ELSE d2[i - Len(d1)]
      BY <1>1, <1>2, ConcatBytes
  <2>2. n + (Len(d) - n) = Len(d)
      OBVIOUS
  <2> QED
      BY <1>1, <1>2, <2>1, <2>2
<1>4. ASSUME NEW i \in 1 .. Len(d) PROVE (d1 \o d2)[i] = d[i]
  <2>1. CASE i <= n
      BY <1>1, <1>3, <2>1
  <2>2. CASE ~(i <= n)
    <3>1. i - n \in 1 .. Len(d) - n /\ n + (i - n) = i
        BY <2>2
    <3> QED
        BY <1>2, <1>3, <2>2, <3>1
  <2> QED
      BY <2>1, <2>2
<1>5. d1 \o d2 = d
    BY <1>3, <1>4, SameBytes
<1> QED
    BY <1>1, <1>2, <1>5 DEF d1, d2

LEMMA BytesAssociative ==
    ASSUME NEW s \in Seq(Bytes), NEW t \in Seq(Bytes), NEW u \in Seq(Bytes)
    PROVE  (s \o t) \o u = s \o (t \o u)
    BY ConcatAssociative

\* What was read comes in order, though part of it took the detour.
LEMMA ReadContent ==
    ASSUME NEW r, Good(r), NEW d \in Seq(Bytes)
    PROVE  Content(ReadOf(r, d)) = Content(r) \o d
<1> DEFINE here == WriteableBytes(r)
           d1 == SubSeq(d, 1, here)
           d2 == SubSeq(d, here + 1, Len(d))
<1>1. /\ here \in Nat /\ here = Len(r.data) - r.write
      /\ r.write \in Nat /\ Len(r.data) \in Nat /\ Len(d) \in Nat
      /\ Content(r) \in Seq(Bytes)
    BY WriteableIsRoom, GoodFields, ContentIsReadable
<1>2. ReadOf(r, d) = IF Len(d) <= here THEN Put(r, d)
                     ELSE AppendBytes(Put(r, d1), d2)
    BY DEF ReadOf
<1> HIDE DEF here
<1>3. CASE Len(d) <= here
    BY <1>1, <1>2, <1>3, PutContent
<1>4. CASE ~(Len(d) <= here)
  <2>1. here \in 0 .. Len(d)
      BY <1>1, <1>4
  <2>2. /\ d1 \in Seq(Bytes) /\ Len(d1) = here /\ d2 \in Seq(Bytes)
        /\ d1 \o d2 = d
      BY <2>1, SplitBytes
  <2> HIDE DEF d1, d2
  <2>3. r.write + Len(d1) <= Len(r.data)
      BY <1>1, <2>2
  <2>4. Good(Put(r, d1)) /\ Content(Put(r, d1)) = Content(r) \o d1
      BY <2>2, <2>3, PutIsGood, PutContent
  <2>5. Content(AppendBytes(Put(r, d1), d2)) = (Content(r) \o d1) \o d2
      BY <2>2, <2>4, AppendContent
  <2>6. (Content(r) \o d1) \o d2 = Content(r) \o (d1 \o d2)
      BY <1>1, <2>2, BytesAssociative
  <2> QED
      BY <1>2, <1>4, <2>2, <2>5, <2>6
<1> QED
    BY <1>3, <1>4

-----------------------------------------------------------------------------
(* The bytes of numbers.                                                   *)

LEMMA ReverseIsString ==
    ASSUME NEW s \in Seq(Bytes)
    PROVE  Reverse(s) \in Seq(Bytes) /\ Len(Reverse(s)) = Len(s)
<1> DEFINE new == [i \in 1 .. Len(s) |-> s[(Len(s) - i) + 1]]
<1>1. \A i \in 1 .. Len(s) : (Len(s) - i) + 1 \in 1 .. Len(s)
    OBVIOUS
<1>2. new \in [1 .. Len(s) -> Bytes]
    BY <1>1
<1>3. new \in Seq(Bytes) /\ Len(new) = Len(s)
    BY <1>2
<1> QED
    BY <1>3 DEF Reverse

\* A part of a string.
LEMMA PartIsString ==
    ASSUME NEW s \in Seq(Bytes), NEW m \in 1 .. Len(s) + 1, NEW n \in 0 .. Len(s)
    PROVE  /\ SubSeq(s, m, n) \in Seq(Bytes)
           /\ m <= n => Len(SubSeq(s, m, n)) = n - m + 1
<1>1. m \in Int /\ n \in Int /\ \A i \in m .. n : s[i] \in Bytes
    OBVIOUS
<1> QED
    BY <1>1, SubSeqProperties

\* Of a number in network byte order, and in memory.
LEMMA OrderIsString ==
    ASSUME NEW n \in Seq(Bytes)
    PROVE  /\ NetworkOrder(n) \in Seq(Bytes)
           /\ Len(NetworkOrder(n)) = Len(n)
           /\ BytesOf(n) \in Seq(Bytes)
           /\ Len(BytesOf(n)) = Len(n)
<1>1. /\ NetworkOrder(n) \in Seq(Bytes)
      /\ Len(NetworkOrder(n)) = Len(n)
  <2>1. CASE Len(n) = 8
    <3>1. /\ SubSeq(n, 5, 8) \in Seq(Bytes) /\ Len(SubSeq(n, 5, 8)) = 4
          /\ SubSeq(n, 1, 4) \in Seq(Bytes) /\ Len(SubSeq(n, 1, 4)) = 4
      <4>1. /\ 5 \in 1 .. Len(n) + 1 /\ 8 \in 0 .. Len(n)
            /\ 1 \in 1 .. Len(n) + 1 /\ 4 \in 0 .. Len(n)
          BY <2>1
      <4>2. SubSeq(n, 5, 8) \in Seq(Bytes) /\ Len(SubSeq(n, 5, 8)) = 8 - 5 + 1
          BY <4>1, PartIsString
      <4>3. SubSeq(n, 1, 4) \in Seq(Bytes) /\ Len(SubSeq(n, 1, 4)) = 4 - 1 + 1
          BY <4>1, PartIsString
      <4> QED
          BY <4>2, <4>3
    <3> DEFINE high == Reverse(SubSeq(n, 5, 8))
               low == Reverse(SubSeq(n, 1, 4))
    <3>2. /\ high \in Seq(Bytes) /\ Len(high) = 4
          /\ low \in Seq(Bytes) /\ Len(low) = 4
        BY <3>1, ReverseIsString
    <3>3. NetworkOrder(n) = high \o low
        BY <2>1 DEF NetworkOrder
    <3> HIDE DEF high, low
    <3>4. high \o low \in Seq(Bytes) /\ Len(high \o low) = Len(high) + Len(low)
        BY <3>2, ConcatProperties
    <3> QED
        BY <2>1, <3>2, <3>3, <3>4
  <2>2. CASE Len(n) # 8
      BY <2>2, ReverseIsString DEF NetworkOrder
  <2> QED
      BY <2>1, <2>2
<1> QED
    BY <1>1, ReverseIsString DEF BytesOf, InMemory

LEMMA FrontIsString ==
    ASSUME NEW n \in Numbers, NEW behind \in Behind
    PROVE  FrontBytesOf(n, behind) \in Seq(Bytes)
<1>1. n \in Seq(Bytes) /\ behind \in Bytes \X Bytes
    BY MsgBufferAssumption
<1>2. behind \in Seq(Bytes)
  <2>1. PICK x \in Bytes, y \in Bytes : behind = <<x, y>>
      BY <1>1
  <2> QED
      BY <2>1
<1>3. CASE Len(n) = 4
  <2>1. /\ NetworkOrder(n) \in Seq(Bytes) /\ Len(NetworkOrder(n)) = 4
      BY <1>1, <1>3, OrderIsString
  <2>2. SubSeq(NetworkOrder(n), 3, 4) \in Seq(Bytes)
    <3>1. /\ 3 \in 1 .. Len(NetworkOrder(n)) + 1
          /\ 4 \in 0 .. Len(NetworkOrder(n))
        BY <2>1
    <3> QED
        BY <2>1, <3>1, PartIsString
  <2>3. InMemory(SubSeq(NetworkOrder(n), 3, 4)) \in Seq(Bytes)
      BY <2>2, ReverseIsString DEF InMemory
  <2> QED
      BY <1>2, <1>3, <2>3 DEF FrontBytesOf
<1>4. CASE Len(n) = 8
  <2>1. BytesOf(n) \in Seq(Bytes) /\ Len(BytesOf(n)) = 8
      BY <1>1, <1>4, OrderIsString
  <2>2. SubSeq(BytesOf(n), 1, 4) \in Seq(Bytes)
    <3>1. /\ 1 \in 1 .. Len(BytesOf(n)) + 1
          /\ 4 \in 0 .. Len(BytesOf(n))
        BY <2>1
    <3> QED
        BY <2>1, <3>1, PartIsString
  <2> QED
      BY <1>4, <2>2 DEF FrontBytesOf
<1>5. CASE Len(n) # 4 /\ Len(n) # 8
    BY <1>1, <1>5, OrderIsString DEF FrontBytesOf
<1> QED
    BY <1>3, <1>4, <1>5

\* Twice reversed is as before, also in halves.
LEMMA ReverseBytes ==
    ASSUME NEW s \in Seq(Bytes)
    PROVE  /\ Reverse(s) \in Seq(Bytes) /\ Len(Reverse(s)) = Len(s)
           /\ \A i \in 1 .. Len(s) : Reverse(s)[i] = s[(Len(s) - i) + 1]
<1>1. Reverse(s) \in Seq(Bytes) /\ Len(Reverse(s)) = Len(s)
    BY ReverseIsString
<1>2. \A i \in 1 .. Len(s) : Reverse(s)[i] = s[(Len(s) - i) + 1]
    BY DEF Reverse
<1> QED
    BY <1>1, <1>2

LEMMA ReverseTwice ==
    ASSUME NEW s \in Seq(Bytes)
    PROVE  Reverse(Reverse(s)) = s
<1> DEFINE t == Reverse(s)
           u == Reverse(t)
<1>1. /\ t \in Seq(Bytes) /\ Len(t) = Len(s)
      /\ \A i \in 1 .. Len(s) : t[i] = s[(Len(s) - i) + 1]
    BY ReverseBytes
<1> HIDE DEF t
<1>2. /\ u \in Seq(Bytes) /\ Len(u) = Len(s)
      /\ \A i \in 1 .. Len(s) : u[i] = t[(Len(s) - i) + 1]
    BY <1>1, ReverseBytes
<1> HIDE DEF u
<1>3. ASSUME NEW i \in 1 .. Len(s) PROVE u[i] = s[i]
  <2>1. (Len(s) - i) + 1 \in 1 .. Len(s) /\ (Len(s) - ((Len(s) - i) + 1)) + 1 = i
      OBVIOUS
  <2> QED
      BY <1>1, <1>2, <2>1
<1>4. u = s
    BY <1>2, <1>3, SameBytes
<1> QED
    BY <1>4 DEF u, t

LEMMA ReverseConcat ==
    ASSUME NEW s \in Seq(Bytes), NEW t \in Seq(Bytes)
    PROVE  Reverse(s \o t) = Reverse(t) \o Reverse(s)
<1> DEFINE st == s \o t
           rs == Reverse(s)
           rt == Reverse(t)
           l == Reverse(st)
           r == rt \o rs
<1>1. /\ st \in Seq(Bytes) /\ Len(st) = Len(s) + Len(t)
      /\ Len(s) \in Nat /\ Len(t) \in Nat
      /\ \A i \in 1 .. Len(s) + Len(t) :
            st[i] = IF i <= Len(s) THEN s[i] ELSE t[i - Len(s)]
    BY ConcatBytes
<1> HIDE DEF st
<1>2. /\ l \in Seq(Bytes) /\ Len(l) = Len(st)
      /\ \A i \in 1 .. Len(st) : l[i] = st[(Len(st) - i) + 1]
    BY <1>1, ReverseBytes
<1>3. /\ rs \in Seq(Bytes) /\ Len(rs) = Len(s)
      /\ \A i \in 1 .. Len(s) : rs[i] = s[(Len(s) - i) + 1]
    BY ReverseBytes
<1>4. /\ rt \in Seq(Bytes) /\ Len(rt) = Len(t)
      /\ \A i \in 1 .. Len(t) : rt[i] = t[(Len(t) - i) + 1]
    BY ReverseBytes
<1> HIDE DEF l, rs, rt
<1>5. /\ r \in Seq(Bytes) /\ Len(r) = Len(rt) + Len(rs)
      /\ \A i \in 1 .. Len(rt) + Len(rs) :
            r[i] = IF i <= Len(rt) THEN rt[i] ELSE rs[i - Len(rt)]
    BY <1>3, <1>4, ConcatBytes
<1> HIDE DEF r
<1>6. Len(l) = Len(s) + Len(t) /\ Len(r) = Len(s) + Len(t)
    BY <1>1, <1>2, <1>3, <1>4, <1>5
<1>7. ASSUME NEW i \in 1 .. Len(s) + Len(t) PROVE l[i] = r[i]
  <2> PICK k : k = ((Len(s) + Len(t)) - i) + 1
      OBVIOUS
  <2>1. k \in 1 .. Len(s) + Len(t) /\ l[i] = st[k]
      BY <1>1, <1>2
  <2>2. i \in 1 .. Len(rt) + Len(rs)
      BY <1>1, <1>3, <1>4
  <2>3. CASE i <= Len(t)
    <3>1. ~(k <= Len(s)) /\ k - Len(s) = (Len(t) - i) + 1 /\ i \in 1 .. Len(t)
        BY <1>1, <2>3
    <3>2. st[k] = t[(Len(t) - i) + 1]
        BY <1>1, <2>1, <3>1
    <3>3. r[i] = t[(Len(t) - i) + 1]
        BY <1>4, <1>5, <2>2, <2>3, <3>1
    <3> QED
        BY <2>1, <3>2, <3>3
  <2>4. CASE ~(i <= Len(t))
    <3>1. /\ k <= Len(s) /\ i - Len(t) \in 1 .. Len(s)
          /\ (Len(s) - (i - Len(t))) + 1 = k
        BY <1>1, <2>4
    <3>2. st[k] = s[k]
        BY <1>1, <2>1, <3>1
    <3>3. r[i] = rs[i - Len(t)] /\ rs[i - Len(t)] = s[k]
        BY <1>3, <1>4, <1>5, <2>2, <2>4, <3>1
    <3> QED
        BY <2>1, <3>2, <3>3
  <2> QED
      BY <2>3, <2>4
<1>8. l = r
    BY <1>2, <1>5, <1>6, <1>7, SameBytes
<1> QED
    BY <1>8 DEF l, r, st, rs, rt

LEMMA HalvesOfConcat ==
    ASSUME NEW s \in Seq(Bytes), NEW t \in Seq(Bytes)
    PROVE  /\ SubSeq(s \o t, 1, Len(s)) = s
           /\ SubSeq(s \o t, Len(s) + 1, Len(s) + Len(t)) = t
<1> DEFINE st == s \o t
           l == SubSeq(st, 1, Len(s))
           r == SubSeq(st, Len(s) + 1, Len(s) + Len(t))
<1>1. /\ st \in Seq(Bytes) /\ Len(st) = Len(s) + Len(t)
      /\ Len(s) \in Nat /\ Len(t) \in Nat
      /\ \A i \in 1 .. Len(s) + Len(t) :
            st[i] = IF i <= Len(s) THEN s[i] ELSE t[i - Len(s)]
    BY ConcatBytes
<1> HIDE DEF st
<1>2. /\ l \in Seq(Bytes) /\ Len(l) = Len(s)
      /\ \A i \in 1 .. Len(s) : l[i] = st[i]
    BY <1>1
<1>3. /\ r \in Seq(Bytes) /\ Len(r) = Len(t)
      /\ \A i \in 1 .. Len(t) : r[i] = st[Len(s) + i]
    BY <1>1
<1> HIDE DEF l, r
<1>4. \A i \in 1 .. Len(s) : l[i] = s[i]
  <2> TAKE i \in 1 .. Len(s)
  <2>1. i \in 1 .. Len(s) + Len(t) /\ i <= Len(s)
      BY <1>1
  <2> QED
      BY <1>1, <1>2, <2>1
<1>5. \A i \in 1 .. Len(t) : r[i] = t[i]
  <2> TAKE i \in 1 .. Len(t)
  <2>1. /\ Len(s) + i \in 1 .. Len(s) + Len(t) /\ ~(Len(s) + i <= Len(s))
        /\ (Len(s) + i) - Len(s) = i
      BY <1>1
  <2> QED
      BY <1>1, <1>3, <2>1
<1>6. l = s /\ r = t
    BY <1>2, <1>3, <1>4, <1>5, SameBytes
<1> QED
    BY <1>6 DEF l, r, st

\* The bytes of a number in memory, once in network order, are those of the number,
\* the most significant first; and what is read comes back.
LEMMA NumberRoundTrip ==
    ASSUME NEW n \in Seq(Bytes)
    PROVE  BytesOf(n) = n /\ NetworkOrder(InMemory(n)) = n
<1>1. CASE Len(n) # 8
  <2>1. Len(Reverse(n)) # 8
      BY <1>1, ReverseBytes
  <2> QED
      BY <1>1, <2>1, ReverseTwice DEF BytesOf, InMemory, NetworkOrder
<1>2. CASE Len(n) = 8
  <2> DEFINE a == SubSeq(n, 1, 4)
             b == SubSeq(n, 5, 8)
             ra == Reverse(a)
             rb == Reverse(b)
  <2>1. a \in Seq(Bytes) /\ Len(a) = 4 /\ b \in Seq(Bytes) /\ Len(b) = 4 /\ a \o b = n
    <3>1. 4 \in 0 .. Len(n) /\ 4 + 1 = 5 /\ Len(n) - 4 = 4
        BY <1>2
    <3> QED
        BY <1>2, <3>1, SplitBytes
  <2>2. NetworkOrder(n) = rb \o ra
      BY <1>2 DEF NetworkOrder
  <2> HIDE DEF a, b
  <2>3. /\ ra \in Seq(Bytes) /\ Len(ra) = 4 /\ Reverse(ra) = a
        /\ rb \in Seq(Bytes) /\ Len(rb) = 4 /\ Reverse(rb) = b
      BY <2>1, ReverseBytes, ReverseTwice
  <2>4. Reverse(n) = rb \o ra
      BY <2>1, ReverseConcat
  <2> HIDE DEF ra, rb
  <2>5. Reverse(rb \o ra) = a \o b
      BY <2>3, ReverseConcat
  <2>6. /\ SubSeq(rb \o ra, 1, 4) = rb /\ SubSeq(rb \o ra, 5, 8) = ra
        /\ Len(rb \o ra) = 8
    <3>1. SubSeq(rb \o ra, 1, Len(rb)) = rb
          /\ SubSeq(rb \o ra, Len(rb) + 1, Len(rb) + Len(ra)) = ra
        BY <2>3, HalvesOfConcat
    <3>2. Len(rb \o ra) = Len(rb) + Len(ra)
        BY <2>3, ConcatBytes
    <3>3. Len(rb) + 1 = 5 /\ Len(rb) + Len(ra) = 8
        BY <2>3
    <3> QED
        BY <2>3, <3>1, <3>2, <3>3
  <2>7. BytesOf(n) = n
      BY <2>1, <2>2, <2>5 DEF BytesOf, InMemory
  <2>8. NetworkOrder(rb \o ra) = Reverse(ra) \o Reverse(rb)
      BY <2>6 DEF NetworkOrder
  <2> QED
      BY <2>1, <2>3, <2>4, <2>7, <2>8 DEF InMemory
<1> QED
    BY <1>1, <1>2

LEMMA PartBytes ==
    ASSUME NEW s \in Seq(Bytes), NEW m \in Nat, NEW l \in Nat, m + l <= Len(s)
    PROVE  /\ SubSeq(s, m + 1, m + l) \in Seq(Bytes)
           /\ Len(SubSeq(s, m + 1, m + l)) = l
           /\ \A i \in 1 .. l : SubSeq(s, m + 1, m + l)[i] = s[m + i]
<1>1. m + 1 \in 1 .. Len(s) + 1 /\ m + l \in 0 .. Len(s) /\ Len(s) \in Nat
    OBVIOUS
<1>2. SubSeq(s, m + 1, m + l) \in Seq(Bytes)
    BY <1>1, PartIsString
<1>3. Len(SubSeq(s, m + 1, m + l)) = l
    BY <1>1
<1>4. \A i \in 1 .. l : SubSeq(s, m + 1, m + l)[i] = s[m + i]
    BY <1>1
<1> QED
    BY <1>2, <1>3, <1>4

\* A number in front of the content is what PeekInt returns.
LEMMA PeekReads ==
    ASSUME NEW r, Good(r), NEW n \in Seq(Bytes), NEW rest \in Seq(Bytes),
           Content(r) = n \o rest
    PROVE  PeekInt(r, Len(n)) = n
<1> DEFINE here == SubSeq(r.data, r.read + 1, r.read + Len(n))
<1>1. /\ r.read \in Nat /\ r.write \in Nat /\ r.data \in Seq(Bytes)
      /\ r.read <= r.write /\ r.write <= Len(r.data) /\ Len(r.data) \in Nat
    BY GoodFields
<1>2. /\ Len(n \o rest) = Len(n) + Len(rest) /\ Len(n) \in Nat /\ Len(rest) \in Nat
      /\ \A i \in 1 .. Len(n) + Len(rest) :
            (n \o rest)[i] = IF i <= Len(n) THEN n[i] ELSE rest[i - Len(n)]
    BY ConcatBytes
<1>3. r.write - r.read = Len(n) + Len(rest)
    BY <1>2, ContentIsReadable DEF ReadableBytes
<1>4. /\ here \in Seq(Bytes) /\ Len(here) = Len(n)
      /\ \A i \in 1 .. Len(n) : here[i] = r.data[r.read + i]
  <2>1. r.read + Len(n) <= Len(r.data)
      BY <1>1, <1>2, <1>3
  <2> QED
    <3>1. /\ r.data \in Seq(Bytes) /\ r.read \in Nat /\ Len(n) \in Nat
          /\ r.read + Len(n) <= Len(r.data)
        BY <1>1, <1>2, <2>1
    <3> QED
        BY <3>1, PartBytes
<1> HIDE DEF here
<1>5. ASSUME NEW i \in 1 .. Len(n) PROVE here[i] = n[i]
  <2>1. i \in 1 .. ReadableBytes(r) /\ i \in 1 .. Len(n) + Len(rest) /\ i <= Len(n)
      BY <1>2, <1>3 DEF ReadableBytes
  <2>2. (n \o rest)[i] = r.data[r.read + i]
      BY <2>1, ContentBytes
  <2> QED
      BY <1>2, <1>4, <2>1, <2>2
<1>6. here = n
    BY <1>4, <1>5, SameBytes
<1> QED
    BY <1>6, NumberRoundTrip DEF PeekInt, here

LEMMA AppendedNumber ==
    ASSUME NEW r, Good(r), NEW n \in Seq(Bytes), Len(n) > 0
    PROVE  /\ Content(AppendBytes(r, BytesOf(n))) = Content(r) \o n
           /\ PeekInt(RetrieveOf(AppendBytes(r, BytesOf(n)), ReadableBytes(r)),
                      Len(n)) = n
<1> DEFINE c == Content(r)
           a == AppendBytes(r, n)
           e == RetrieveOf(a, Len(c))
<1>1. BytesOf(n) = n
    BY NumberRoundTrip
<1>2. c \in Seq(Bytes) /\ ReadableBytes(r) = Len(c) /\ Len(c) \in Nat /\ Len(n) \in Nat
    BY ContentIsReadable
<1>3. Good(a) /\ Content(a) = c \o n
    BY AppendIsGood, AppendContent
<1> HIDE DEF a, c
<1>4. Len(c \o n) = Len(c) + Len(n) /\ ReadableBytes(a) = Len(c) + Len(n)
    BY <1>2, <1>3, ConcatBytes, ContentIsReadable
<1>5. ~(Len(c) >= ReadableBytes(a))
    BY <1>2, <1>4
<1>6. Good(e) /\ Content(e) = SubSeq(c \o n, Len(c) + 1, Len(c) + Len(n))
    BY <1>2, <1>3, <1>4, <1>5, RetrieveIsGood, RetrieveContent
<1> HIDE DEF e
<1>7. Content(e) = n
    BY <1>2, <1>6, HalvesOfConcat
<1>8. n = n \o <<>> /\ <<>> \in Seq(Bytes)
    OBVIOUS
<1>9. PeekInt(e, Len(n)) = n
    BY <1>6, <1>7, <1>8, PeekReads
<1> QED
    BY <1>1, <1>2, <1>3, <1>9 DEF a, e, c

LEMMA FrontNumber ==
    ASSUME NEW r, Good(r), NEW n \in Seq(Bytes), NEW behind, Len(n) <= 2
    PROVE  /\ Content(AddInFrontOf(r, FrontBytesOf(n, behind))) = n \o Content(r)
           /\ PeekInt(AddInFrontOf(r, FrontBytesOf(n, behind)), Len(n)) = n
<1>1. FrontBytesOf(n, behind) = n
  <2>1. \A k \in Nat : k <= 2 => k # 4 /\ k # 8
      OBVIOUS
  <2>2. Len(n) # 4 /\ Len(n) # 8
      BY <2>1, LenProperties
  <2> QED
      BY <2>2, NumberRoundTrip DEF FrontBytesOf
<1>2. Good(AddInFrontOf(r, n)) /\ Content(AddInFrontOf(r, n)) = n \o Content(r)
    BY AddInFrontIsGood, AddInFrontContent
<1>3. Content(r) \in Seq(Bytes)
    BY ContentIsReadable
<1>4. PeekInt(AddInFrontOf(r, n), Len(n)) = n
    BY <1>2, <1>3, PeekReads
<1> QED
    BY <1>1, <1>2, <1>4

-----------------------------------------------------------------------------
(* The specification.                                                      *)

\* A buffer replaced by a good one leaves all good.
LEMMA BecomesIInv ==
    ASSUME IInv, NEW b \in Buffers, NEW r, Good(r),
           buf' = [buf EXCEPT ![b] = r]
    PROVE  IInv'
BY DEF IInv, Good

LEMMA InitIInv ==
    ASSUME LongEnough, Init
    PROVE  IInv
<1>1. \A len \in Lens : len \in Nat /\ BUF_OFFSET <= len
    BY MsgBufferAssumption DEF LongEnough
<1>2. \A len \in Lens : Good(New(len))
    BY <1>1, NewIsGood
<1>3. \A b \in Buffers : \E len \in Lens : buf[b] = New(len)
    BY DEF Init
<1>4. \A b \in Buffers : Good(buf[b])
    BY <1>2, <1>3
<1>5. DOMAIN buf = Buffers /\ buf = [b \in Buffers |-> buf[b]]
    BY DEF Init
<1>6. \A b \in Buffers : buf[b] \in Records
    BY <1>4 DEF Good
<1>7. buf \in [Buffers -> Records]
    BY <1>5, <1>6
<1> QED
    BY <1>4, <1>7 DEF IInv

LEMMA NextIInv ==
    ASSUME IInv, [Next]_buf
    PROVE  IInv'
<1>1. ASSUME NEW b \in Buffers, NEW d \in Data, AppendData(b, d)
      PROVE  IInv'
  <2>1. Good(buf[b]) /\ d \in Seq(Bytes)
      BY MsgBufferAssumption DEF IInv
  <2>2. Good(AppendBytes(buf[b], d))
      BY <2>1, AppendIsGood
  <2> QED
      BY <1>1, <2>2, BecomesIInv DEF AppendData, Becomes
<1>2. ASSUME NEW b \in Buffers, NEW d \in Data, AddInFront(b, d)
      PROVE  IInv'
  <2>1. Good(buf[b]) /\ d \in Seq(Bytes)
      BY MsgBufferAssumption DEF IInv
  <2>2. Good(AddInFrontOf(buf[b], d))
      BY <2>1, AddInFrontIsGood
  <2> QED
      BY <1>2, <2>2, BecomesIInv DEF AddInFront, Becomes
<1>3. ASSUME NEW b \in Buffers, NEW d \in Data, ReadFd(b, d)
      PROVE  IInv'
  <2>1. Good(buf[b]) /\ d \in Seq(Bytes)
      BY MsgBufferAssumption DEF IInv
  <2>2. Good(ReadOf(buf[b], d))
      BY <2>1, ReadIsGood
  <2> QED
      BY <1>3, <2>2, BecomesIInv DEF ReadFd, Becomes
<1>4. ASSUME NEW b \in Buffers, NEW len \in 0 .. ReadableBytes(buf[b]) + 1,
             Retrieve(b, len) \/ Read(b, len)
      PROVE  IInv'
  <2>1. Good(buf[b]) /\ ReadableBytes(buf[b]) \in Nat
      BY ContentIsReadable DEF IInv
  <2>2. PICK n \in Nat : Retrieve(b, n)
      BY <1>4, <2>1 DEF Read
  <2>3. Good(RetrieveOf(buf[b], n))
      BY <2>1, RetrieveIsGood
  <2> QED
      BY <2>2, <2>3, BecomesIInv DEF Retrieve, Becomes
<1>5. ASSUME NEW b \in Buffers, RetrieveAll(b)
      PROVE  IInv'
  <2>1. Good(RetrieveAllOf(buf[b]))
      BY RetrieveAllIsGood DEF IInv
  <2> QED
      BY <1>5, <2>1, BecomesIInv DEF RetrieveAll, Becomes
<1>6. ASSUME NEW b \in Buffers, NEW c \in Buffers, AppendBuffer(b, c)
      PROVE  IInv'
  <2>1. Good(buf[b]) /\ Content(buf[c]) \in Seq(Bytes)
      BY ContentIsReadable DEF IInv
  <2>2. Good(AppendBytes(buf[b], Content(buf[c])))
      BY <2>1, AppendIsGood
  <2> QED
      BY <1>6, <2>2, BecomesIInv DEF AppendBuffer, Becomes
<1>7. ASSUME NEW b \in Buffers, NEW c \in Buffers, Assign(b, c)
      PROVE  IInv'
    BY <1>7, BecomesIInv DEF Assign, Becomes, IInv
<1>8. ASSUME NEW b \in Buffers, NEW c \in Buffers, Swap(b, c)
      PROVE  IInv'
    BY <1>8 DEF Swap, IInv, Good
<1>9. ASSUME NEW b \in Buffers, NEW n \in Numbers, AppendInt(b, n)
      PROVE  IInv'
  <2>1. Good(buf[b]) /\ BytesOf(n) \in Seq(Bytes)
      BY MsgBufferAssumption, OrderIsString DEF IInv
  <2>2. Good(AppendBytes(buf[b], BytesOf(n)))
      BY <2>1, AppendIsGood
  <2> QED
      BY <1>9, <2>2, BecomesIInv DEF AppendInt, AppendData, Becomes
<1>10. ASSUME NEW b \in Buffers, NEW n \in Numbers, AddInFrontInt(b, n)
       PROVE  IInv'
  <2>1. PICK behind \in Behind : AddInFront(b, FrontBytesOf(n, behind))
      BY <1>10 DEF AddInFrontInt
  <2>2. Good(buf[b]) /\ FrontBytesOf(n, behind) \in Seq(Bytes)
      BY FrontIsString DEF IInv
  <2>3. Good(AddInFrontOf(buf[b], FrontBytesOf(n, behind)))
      BY <2>2, AddInFrontIsGood
  <2> QED
      BY <2>1, <2>3, BecomesIInv DEF AddInFront, Becomes
<1>11. ASSUME NEW b \in Buffers, NEW width \in {1, 2, 4, 8}, ReadInt(b, width)
       PROVE  IInv'
  <2>1. Good(buf[b]) /\ width \in Nat
      BY DEF IInv
  <2>2. Good(RetrieveOf(buf[b], width))
      BY <2>1, RetrieveIsGood
  <2> QED
      BY <1>11, <2>2, BecomesIInv DEF ReadInt, Retrieve, Becomes
<1>12. CASE UNCHANGED buf
    BY <1>12 DEF IInv, Good
<1> QED
    BY <1>1, <1>2, <1>3, <1>4, <1>5, <1>6, <1>7, <1>8, <1>9, <1>10, <1>11, <1>12
    DEF Next

\* Every buffer is good, in every reachable state.
THEOREM Invariance == ASSUME LongEnough PROVE Spec => []IInv
<1>1. Init => IInv
    BY InitIInv
<1>2. IInv /\ [Next]_buf => IInv'
    BY NextIInv
<1> QED
    BY <1>1, <1>2, PTL DEF Spec

\* The indices of every MsgBuffer are in order and within its vector, whatever
\* is appended, prepended, read, retrieved, copied or swapped (msg_buffer.cc).
THEOREM BuffersStayInBounds ==
    ASSUME LongEnough PROVE Spec => []IndicesInBounds
<1>1. BUF_OFFSET \in Nat
    BY MsgBufferAssumption
<1>2. IInv => IndicesInBounds
  <2> SUFFICES ASSUME IInv, NEW b \in Buffers
               PROVE  /\ buf[b].data \in Seq(Bytes)
                      /\ {buf[b].read, buf[b].write, buf[b].init} \subseteq Nat
                      /\ buf[b].read <= buf[b].write
                      /\ buf[b].write <= Len(buf[b].data)
                      /\ BUF_OFFSET <= Len(buf[b].data)
      BY DEF IndicesInBounds
  <2>1. /\ buf[b].data \in Seq(Bytes)
        /\ buf[b].read \in Nat /\ buf[b].write \in Nat /\ buf[b].init \in Nat
        /\ buf[b].read <= buf[b].write
        /\ buf[b].write <= Len(buf[b].data)
        /\ Len(buf[b].data) = buf[b].init + BUF_OFFSET
      BY DEF IInv, Good, Records
  <2> QED
      BY <1>1, <2>1
<1> QED
    BY <1>2, Invariance, PTL

\* init_cap_ follows the vector, so RetrieveAll never shrinks it.
THEOREM CapacityIsTracked ==
    ASSUME LongEnough PROVE Spec => []CapacityFollowsVector
<1>1. IInv => CapacityFollowsVector
    BY DEF IInv, Good, CapacityFollowsVector
<1> QED
    BY <1>1, Invariance, PTL

\* A number that is appended is read back as it was, in whatever state the buffer is:
\* with room, after moving its content, after growing; and so is one of one or two
\* bytes that is added in front (AppendInt8 to PeekInt64).
THEOREM NumbersAreReadBack ==
    ASSUME LongEnough PROVE Spec => []NumbersReadBack
<1>1. IInv => NumbersReadBack
  <2> SUFFICES ASSUME IInv, NEW b \in Buffers, NEW n \in Numbers
               PROVE  /\ LET r == AppendBytes(buf[b], BytesOf(n))
                         IN /\ Content(r) = Content(buf[b]) \o n
                            /\ PeekInt(RetrieveOf(r, ReadableBytes(buf[b])), Len(n)) = n
                      /\ \A behind \in Behind :
                           LET r == AddInFrontOf(buf[b], FrontBytesOf(n, behind))
                           IN  Len(n) <= 2 => /\ Content(r) = n \o Content(buf[b])
                                              /\ PeekInt(r, Len(n)) = n
      BY DEF NumbersReadBack
  <2>1. Good(buf[b]) /\ n \in Seq(Bytes)
      BY MsgBufferAssumption DEF IInv
  <2>2. Len(n) \in {1, 2, 4, 8}
      BY MsgBufferAssumption
  <2>3. Len(n) > 0
      BY <2>2
  <2> QED
      BY <2>1, <2>3, AppendedNumber, FrontNumber
<1> QED
    BY <1>1, Invariance, PTL

-----------------------------------------------------------------------------
(* Every operation is one of ByteQueue on the contents.                    *)

Contents == [b \in Buffers |-> Content(buf[b])]

LEMMA BecomesContents ==
    ASSUME IInv, NEW b \in Buffers, NEW r, Becomes(b, r)
    PROVE  Contents' = [Contents EXCEPT ![b] = Content(r)]
<1>1. buf' = [buf EXCEPT ![b] = r] /\ DOMAIN buf = Buffers
    BY DEF Becomes, IInv
<1>2. Contents' = [c \in Buffers |-> Content(buf'[c])]
    BY DEF Contents
<1>3. \A c \in Buffers : buf'[c] = IF c = b THEN r ELSE buf[c]
    BY <1>1
<1> QED
    BY <1>2, <1>3 DEF Contents

LEMMA AppendStep ==
    ASSUME IInv, NEW b \in Buffers, NEW d \in Seq(Bytes), NEW r, Becomes(b, r),
           Content(r) = Content(buf[b]) \o d
    PROVE  Queue!Add(b, d)
<1>1. Contents' = [Contents EXCEPT ![b] = Content(buf[b]) \o d]
    BY BecomesContents
<1>2. Contents' = [Contents EXCEPT ![b] = @ \o d]
    BY <1>1 DEF Contents
<1> QED
    BY <1>2 DEF Contents, Queue!Add

LEMMA FrontStep ==
    ASSUME IInv, NEW b \in Buffers, NEW d \in Seq(Bytes), AddInFront(b, d)
    PROVE  Queue!AddInFront(b, d)
<1>1. Contents' = [Contents EXCEPT ![b] = d \o Content(buf[b])]
  <2>1. Good(buf[b])
      BY DEF IInv
  <2>2. Content(AddInFrontOf(buf[b], d)) = d \o Content(buf[b])
      BY <2>1, AddInFrontContent
  <2> QED
      BY <2>2, BecomesContents DEF AddInFront
<1>2. Contents' = [Contents EXCEPT ![b] = d \o @]
    BY <1>1 DEF Contents
<1> QED
    BY <1>2 DEF Contents, Queue!AddInFront

LEMMA RetrieveStep ==
    ASSUME IInv, NEW b \in Buffers, NEW len \in Nat, Retrieve(b, len)
    PROVE  [Queue!Next]_Contents
<1> DEFINE c == Content(buf[b])
<1>1. /\ Good(buf[b]) /\ c \in Seq(Bytes) /\ Len(c) \in Nat
      /\ ReadableBytes(buf[b]) = Len(c) /\ Contents[b] = c
    BY ContentIsReadable DEF IInv, Contents
<1>2. Contents' = [Contents EXCEPT ![b] =
                     IF len >= Len(c) THEN <<>> ELSE SubSeq(c, len + 1, Len(c))]
    BY <1>1, RetrieveContent, BecomesContents DEF Retrieve
<1> HIDE DEF c
<1>3. \A n \in 1 .. Len(c) :
        Contents' = [Contents EXCEPT ![b] = SubSeq(c, n + 1, Len(c))]
          => Queue!Remove(b, n) /\ n \in 1 .. Len(Contents[b])
    BY <1>1 DEF Contents, Queue!Remove
<1>4. \A n \in 1 .. Len(c) :
        Contents' = [Contents EXCEPT ![b] = SubSeq(c, n + 1, Len(c))]
          => Queue!Next
    BY <1>3 DEF Contents, Queue!Next
<1>5. CASE Len(c) = 0
  <2>1. c = <<>> /\ len >= Len(c)
      BY <1>1, <1>5
  <2>2. Contents' = Contents
      BY <1>1, <1>2, <2>1 DEF Contents
  <2> QED
      BY <2>2
<1>6. CASE Len(c) > 0 /\ len >= Len(c)
  <2>1. SubSeq(c, Len(c) + 1, Len(c)) = <<>>
      BY <1>1
  <2>2. Contents' = [Contents EXCEPT ![b] = SubSeq(c, Len(c) + 1, Len(c))]
      BY <1>2, <1>6, <2>1
  <2>3. Len(c) \in 1 .. Len(c)
      BY <1>1, <1>6
  <2> QED
      BY <1>4, <2>2, <2>3
<1>7. CASE ~(len >= Len(c)) /\ len = 0
  <2>1. SubSeq(c, len + 1, Len(c)) = c
      BY <1>1, <1>7
  <2>2. Contents' = Contents
      BY <1>1, <1>2, <1>7, <2>1 DEF Contents
  <2> QED
      BY <2>2
<1>8. CASE ~(len >= Len(c)) /\ len # 0
  <2>1. Contents' = [Contents EXCEPT ![b] = SubSeq(c, len + 1, Len(c))]
      BY <1>2, <1>8
  <2>2. len \in 1 .. Len(c)
      BY <1>1, <1>8
  <2> QED
      BY <1>4, <2>1, <2>2
<1> QED
    BY <1>1, <1>5, <1>6, <1>7, <1>8

LEMMA NextIsQueueStep ==
    ASSUME IInv, [Next]_buf
    PROVE  [Queue!Next]_Contents
<1> USE DEF Added
<1>1. ASSUME NEW b \in Buffers, NEW d \in Added, Queue!Add(b, d) \/ Queue!AddInFront(b, d)
      PROVE  [Queue!Next]_Contents
    BY <1>1 DEF Queue!Next
<1>2. ASSUME NEW b \in Buffers, NEW d \in Seq(Bytes), AppendData(b, d)
      PROVE  Queue!Add(b, d)
  <2>1. Good(buf[b]) /\ Content(AppendBytes(buf[b], d)) = Content(buf[b]) \o d
      BY AppendContent DEF IInv
  <2> QED
      BY <1>2, <2>1, AppendStep DEF AppendData
<1>3. ASSUME NEW b \in Buffers, NEW d \in Data, AppendData(b, d)
      PROVE  [Queue!Next]_Contents
    BY <1>1, <1>2, <1>3, MsgBufferAssumption
<1>4. ASSUME NEW b \in Buffers, NEW d \in Data, AddInFront(b, d)
      PROVE  [Queue!Next]_Contents
    BY <1>1, <1>4, FrontStep, MsgBufferAssumption
<1>5. ASSUME NEW b \in Buffers, NEW d \in Data, ReadFd(b, d)
      PROVE  [Queue!Next]_Contents
  <2>1. Good(buf[b]) /\ d \in Seq(Bytes)
      BY MsgBufferAssumption DEF IInv
  <2>2. Content(ReadOf(buf[b], d)) = Content(buf[b]) \o d
      BY <2>1, ReadContent
  <2>3. Queue!Add(b, d)
      BY <1>5, <2>1, <2>2, AppendStep DEF ReadFd
  <2> QED
      BY <1>1, <2>3
<1>6. ASSUME NEW b \in Buffers, NEW n \in Numbers, AppendInt(b, n)
      PROVE  [Queue!Next]_Contents
  <2>1. BytesOf(n) \in Seq(Bytes) /\ BytesOf(n) \in Added
      BY MsgBufferAssumption, OrderIsString
  <2>2. Queue!Add(b, BytesOf(n))
      BY <1>2, <1>6, <2>1 DEF AppendInt
  <2> QED
      BY <1>1, <2>1, <2>2
<1>7. ASSUME NEW b \in Buffers, NEW n \in Numbers, AddInFrontInt(b, n)
      PROVE  [Queue!Next]_Contents
  <2>1. PICK behind \in Behind : AddInFront(b, FrontBytesOf(n, behind))
      BY <1>7 DEF AddInFrontInt
  <2>2. FrontBytesOf(n, behind) \in Seq(Bytes) /\ FrontBytesOf(n, behind) \in Added
      BY FrontIsString
  <2>3. Queue!AddInFront(b, FrontBytesOf(n, behind))
      BY <2>1, <2>2, FrontStep
  <2> QED
      BY <1>1, <2>2, <2>3
<1>8. ASSUME NEW b \in Buffers, NEW len \in 0 .. ReadableBytes(buf[b]) + 1,
             Retrieve(b, len) \/ Read(b, len)
      PROVE  [Queue!Next]_Contents
  <2>1. Good(buf[b]) /\ ReadableBytes(buf[b]) \in Nat
      BY ContentIsReadable DEF IInv
  <2>2. PICK n \in Nat : Retrieve(b, n)
      BY <1>8, <2>1 DEF Read
  <2> QED
      BY <2>2, RetrieveStep
<1>9. ASSUME NEW b \in Buffers, NEW width \in {1, 2, 4, 8}, ReadInt(b, width)
      PROVE  [Queue!Next]_Contents
    BY <1>9, RetrieveStep DEF ReadInt
<1>10. ASSUME NEW b \in Buffers, RetrieveAll(b)
       PROVE  [Queue!Next]_Contents
  <2>1. Good(buf[b]) /\ ReadableBytes(buf[b]) \in Nat
      BY ContentIsReadable DEF IInv
  <2>2. RetrieveOf(buf[b], ReadableBytes(buf[b])) = RetrieveAllOf(buf[b])
      BY <2>1 DEF RetrieveOf
  <2>3. Retrieve(b, ReadableBytes(buf[b]))
      BY <1>10, <2>2 DEF Retrieve, RetrieveAll
  <2> QED
      BY <2>1, <2>3, RetrieveStep
<1>11. ASSUME NEW b \in Buffers, NEW c \in Buffers, AppendBuffer(b, c)
       PROVE  [Queue!Next]_Contents
  <2>1. Good(buf[b]) /\ Content(buf[c]) \in Seq(Bytes)
      BY ContentIsReadable DEF IInv
  <2>2. Queue!Add(b, Content(buf[c]))
      BY <1>11, <2>1, AppendContent, AppendStep DEF AppendBuffer
  <2>3. Queue!AddCopy(b, c)
      BY <2>2 DEF Queue!AddCopy, Queue!Add
  <2> QED
      BY <2>3 DEF Queue!Next
<1>12. ASSUME NEW b \in Buffers, NEW c \in Buffers, Assign(b, c)
       PROVE  [Queue!Next]_Contents
  <2>1. Contents' = [Contents EXCEPT ![b] = Content(buf[c])]
      BY <1>12, BecomesContents DEF Assign
  <2>2. Queue!Copy(b, c)
      BY <2>1 DEF Contents, Queue!Copy
  <2> QED
      BY <2>2 DEF Queue!Next
<1>13. ASSUME NEW b \in Buffers, NEW c \in Buffers, Swap(b, c)
       PROVE  [Queue!Next]_Contents
  <2>1. \A x \in Buffers : buf'[x] = IF x = c THEN buf[b]
                                     ELSE IF x = b THEN buf[c] ELSE buf[x]
      BY <1>13 DEF Swap, IInv
  <2>2. Contents' = [Contents EXCEPT ![b] = Content(buf[c]), ![c] = Content(buf[b])]
      BY <2>1 DEF Contents
  <2>3. Queue!Swap(b, c)
      BY <2>2 DEF Contents, Queue!Swap
  <2> QED
      BY <2>3 DEF Queue!Next
<1>14. CASE UNCHANGED buf
    BY <1>14 DEF Contents
<1> QED
    BY <1>3, <1>4, <1>5, <1>6, <1>7, <1>8, <1>9, <1>10, <1>11, <1>12, <1>13, <1>14
    DEF Next

\* A MsgBuffer is a queue of bytes.  Whatever the indices, the moves in the vector,
\* the growth, the swaps of vectors and the detour of ReadFd: every operation adds
\* its bytes behind or in front of what is readable, removes some from the front,
\* or copies or exchanges whole contents (msg_buffer.cc).
THEOREM BytesStayInOrder ==
    ASSUME LongEnough PROVE Spec => BytesInOrder
<1>1. ASSUME Init PROVE Queue!Init
  <2>1. ASSUME NEW b \in Buffers PROVE Content(buf[b]) = <<>>
    <3>1. PICK len \in Lens : buf[b] = New(len)
        BY <1>1 DEF Init
    <3>2. len \in Nat /\ BUF_OFFSET <= len
        BY MsgBufferAssumption DEF LongEnough
    <3> QED
        BY <3>1, <3>2, NewContent
  <2> QED
      BY <2>1 DEF Queue!Init
<1>2. IInv /\ [Next]_buf => [Queue!Next]_Contents
    BY NextIsQueueStep
<1> QED
    BY <1>1, <1>2, Invariance, PTL DEF Spec, BytesInOrder, Queue!Spec, Contents

=============================================================================
