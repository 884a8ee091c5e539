------------------------------ MODULE LogStream ------------------------------
(***************************************************************************)
(* LogStream and its FixedBuffer (water/base/log_stream.{h,cc}): a line is *)
(* put together in an array of SIZE bytes, and an item for which there is  *)
(* no room is left out.                                                    *)
(*                                                                         *)
(* A stream is a record: the items inserted so far, the numbers of those   *)
(* that are shown, the offset of cur_, and how many bytes of data_ have    *)
(* been written, those behind cur_ included.                               *)
(***************************************************************************)
EXTENDS Integers, SequencesExt

CONSTANTS SIZE,             \* 4000 in the code
          kMaxNumericSize   \* 32

ASSUME LogStreamAssumption == SIZE \in Nat \ {0} /\ kMaxNumericSize \in Nat

-----------------------------------------------------------------------------
(* Integers as text.                                                       *)

\* The remainder and the quotient of C++, which truncates.
LastDigit(i) == IF i < 0 THEN -((-i) % 10) ELSE i % 10
WithoutLastDigit(i) == IF i < 0 THEN -((-i) \div 10) ELSE i \div 10

\* kZero points into the middle of kDigits: an index and its negative have the
\* same digit.
KZero(lsd) == IF lsd < 0 THEN -lsd ELSE lsd

\* In the order in which they are written, which is the reverse.
Digits[i \in Int] ==
    <<KZero(LastDigit(i))>> \o (IF WithoutLastDigit(i) = 0 THEN <<>>
                                ELSE Digits[WithoutLastDigit(i)])

Convert(value) == [minus |-> value < 0, digits |-> Reverse(Digits[value])]

-----------------------------------------------------------------------------
(* The items, by the operator<< that inserts them.                         *)

\* Characters, booleans, strings, and what Append is given.
Text(what, len) == [by |-> "Append", what |-> what, len |-> len]

NullString == Text("(null)", 6)

Integer(value) ==
    LET text == Convert(value)
    IN  [by |-> "FormatInteger", what |-> value, text |-> text,
         len |-> Len(text.digits) + (IF text.minus THEN 1 ELSE 0)]

\* len is the number of hexadecimal digits.
Pointer(what, len) == [by |-> "ConvertHex", what |-> what, len |-> len]

\* The bytes of data_ that it takes: numbers have a terminator, pointers "0x".
Extent(item) == item.len + (CASE item.by = "Append" -> 0
                              [] item.by = "FormatInteger" -> 1
                              [] item.by = "ConvertHex" -> 3)

-----------------------------------------------------------------------------
(* The stream.                                                             *)

Empty == [asked |-> <<>>, shown |-> {}, cur |-> 0, written |-> 0]

Avail(s) == SIZE - s.cur

MayAppend(s, len) == Avail(s) > len
MayFormatSomething(s) == Avail(s) > 0
MayFormat(s) == Avail(s) >= kMaxNumericSize

\* cur_ moves by item.len: of a pointer's "0x" and digits, the line has the first
\* item.len characters.
Show(s, item) ==
    LET end == s.cur + Extent(item)
    IN  [asked |-> Append(s.asked, item),
         shown |-> s.shown \cup {Len(s.asked) + 1},
         cur |-> s.cur + item.len,
         written |-> IF s.written < end THEN end ELSE s.written]

LeaveOut(s, item) == [s EXCEPT !.asked = Append(@, item)]

Insert(s, item) ==
    IF IF item.by = "Append" THEN MayAppend(s, item.len) ELSE MayFormat(s)
      THEN Show(s, item)
      ELSE LeaveOut(s, item)

=============================================================================
