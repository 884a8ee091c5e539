---------------------------- MODULE Logger_proofs ----------------------------
(***************************************************************************)
(* For arrays, texts and numbers of every size that meets the assumptions: *)
(* LogStream never writes behind its array, and a line shows what its      *)
(* statement says.                                                         *)
(*                                                                         *)
(* Insert maps a stream that is Complete to one that is, and every action  *)
(* of Logger that changes the stream is a chain of Inserts.                *)
(*                                                                         *)
(* That the text of an integer denotes it is an induction over its length. *)
(* It is done with sets: a set of numbers with 0 and every successor of a  *)
(* member has all of them, since what it lacks would have a least number.  *)
(***************************************************************************)
EXTENDS Logger, WellFoundedInduction, TLAPS

-----------------------------------------------------------------------------
(* Induction and recursion, with sets and functions for the predicates.      *)

Less == OpToRel(<, Nat)

LEMMA Smallest ==
  ASSUME NEW S \in SUBSET Nat, S # {}
  PROVE  \E n \in S : \A m \in S : n <= m
<1>1. Less = {p \in Nat \X Nat : p[1] < p[2]}
  BY DEF Less, OpToRel
<1>2. \E n \in S : \A m \in S : <<m, n>> \notin Less
  <2>1. IsWellFoundedOn(Less, Nat)
    BY NatLessThanWellFounded, Zenon DEF Less
  <2> QED
    BY <2>1, WFMin, Zenon
<1>3. \A m, n \in Nat : <<m, n>> \notin Less => n <= m
  BY <1>1
<1> QED
  BY <1>2, <1>3

LEMMA Induction ==
  ASSUME NEW S, 0 \in S, \A n \in Nat : n \in S => n + 1 \in S
  PROVE  \A n \in Nat : n \in S
<1> DEFINE T == Nat \ S
<1> SUFFICES ASSUME T # {} PROVE FALSE
  OBVIOUS
<1>1. PICK n \in T : \A m \in T : n <= m
  BY Smallest, Zenon
<1>2. n \in Nat /\ n # 0 /\ n - 1 \in Nat /\ n-1 \notin T
  BY <1>1
<1> QED BY <1>2


Follows(f, n, a, step) ==
  f[0] = a /\ \A k \in 0 .. n - 1 : f[k + 1] = step[<<k, f[k]>>]

Iterates(T, a, step) ==
  \E f \in [Nat -> T] :
     f[0] = a /\ \A n \in Nat : f[n + 1] = step[<<n, f[n]>>]

LEMMA Iteration ==
  ASSUME NEW T, NEW a \in T, NEW step \in [Nat \X T -> T]
  PROVE  Iterates(T, a, step)
<1> DEFINE Run(n) == {g \in [0 .. n -> T] : Follows(g, n, a, step)}
           S == {n \in Nat : Run(n) # {}}
<1>1. 0 \in S
  <2>1. [k \in 0 .. 0 |-> a] \in Run(0)
    BY DEF Follows
  <2> QED
    BY <2>1
<1>2. ASSUME NEW n \in Nat, n \in S PROVE n + 1 \in S
  <2>1. PICK g \in [0 .. n -> T] : Follows(g, n, a, step)
    BY <1>2
  <2> DEFINE h == [k \in 0 .. n + 1 |->
                     IF k = n + 1 THEN step[<<n, g[n]>>] ELSE g[k]]
  <2>2. h \in [0 .. n + 1 -> T]
    BY <2>1
  <2>3. h[0] = a
    BY <2>1 DEF Follows
  <2>4. \A k \in 0 .. n : h[k] = g[k]
    OBVIOUS
  <2>5. h[n + 1] = step[<<n, g[n]>>]
    OBVIOUS
  <2> HIDE DEF h
  <2>6. ASSUME NEW k \in 0 .. n PROVE h[k + 1] = step[<<k, h[k]>>]
    <3>1. CASE k = n
      BY <2>4, <2>5, <3>1
    <3>2. CASE k # n
      <4>1. k \in 0 .. n - 1 /\ k + 1 \in 0 .. n
        BY <3>2
      <4>2. g[k + 1] = step[<<k, g[k]>>]
        BY <2>1, <4>1 DEF Follows
      <4> QED
        BY <2>4, <4>1, <4>2
    <3> QED
      BY <3>1, <3>2
  <2>7. Follows(h, n + 1, a, step)
    BY <2>3, <2>6 DEF Follows
  <2> QED
    BY <2>2, <2>7
<1> HIDE DEF S
<1>3. \A n \in Nat : n \in S
  BY <1>1, <1>2, Induction
<1>4. \A n \in Nat : Run(n) # {}
  BY <1>3 DEF S
\* Runs agree.
<1>5. ASSUME NEW n \in Nat, NEW m \in Nat, n <= m,
             NEW g \in Run(n), NEW h \in Run(m)
      PROVE  \A k \in 0 .. n : g[k] = h[k]
  <2> DEFINE U == {k \in Nat : k <= n => g[k] = h[k]}
  <2>1. 0 \in U
    BY DEF Follows
  <2>2. ASSUME NEW k \in Nat, k \in U PROVE k + 1 \in U
    <3>1. CASE k + 1 <= n
      <4>1. k \in 0 .. n - 1 /\ k \in 0 .. m - 1
        BY <1>5, <3>1
      <4>2. /\ g[k + 1] = step[<<k, g[k]>>]
            /\ h[k + 1] = step[<<k, h[k]>>]
        BY <4>1 DEF Follows
      <4>3. g[k] = h[k]
        BY <2>2, <3>1
      <4> QED
        BY <4>2, <4>3
    <3> QED
      BY <3>1
  <2> HIDE DEF U
  <2>3. \A k \in Nat : k \in U
    BY <2>1, <2>2, Induction
  <2> QED
    BY <2>3 DEF U
<1> DEFINE run == [n \in Nat |-> CHOOSE g \in Run(n) : TRUE]
           f == [n \in Nat |-> run[n][n]]
<1>6. \A n \in Nat : run[n] \in Run(n)
  BY <1>4
<1>7. f \in [Nat -> T]
  BY <1>6
<1>8. f[0] = a
  BY <1>6 DEF Follows
<1>9. ASSUME NEW n \in Nat PROVE f[n + 1] = step[<<n, f[n]>>]
  <2>1. run[n + 1][n + 1] = step[<<n, run[n + 1][n]>>]
    <3>1. n + 1 \in Nat /\ n \in 0 .. (n + 1) - 1
      OBVIOUS
    <3>2. run[n + 1] \in Run(n + 1)
      BY <1>6, <3>1
    <3> HIDE DEF run
    <3> QED
      BY <3>1, <3>2 DEF Follows
  <2>2. run[n + 1][n] = run[n][n]
    <3> HIDE DEF run, Run
    <3> QED
      BY <1>5, <1>6
  <2>3. f[n] = run[n][n] /\ f[n + 1] = run[n + 1][n + 1]
    OBVIOUS
  <2> HIDE DEF f, run
  <2> QED
    BY <2>1, <2>2, <2>3
<1> HIDE DEF f
<1> QED
  BY <1>7, <1>8, <1>9 DEF Iterates

\* A sequence folded from its left: step[<<v, e>>] is what e makes of v.
FoldsLeft(T, a, s, step) ==
  \E f \in [0 .. Len(s) -> T] :
    \A n \in 0 .. Len(s) :
      f[n] = IF n = 0 THEN a ELSE step[<<f[n - 1], s[n]>>]

LEMMA LeftFold ==
  ASSUME NEW T, NEW a \in T, NEW E, NEW s \in Seq(E),
         NEW step \in [T \X E -> T]
  PROVE  FoldsLeft(T, a, s, step)
<1>1. Len(s) \in Nat /\ \A n \in 1 .. Len(s) : s[n] \in E
  OBVIOUS
<1> DEFINE at == [p \in Nat \X T |->
                    IF p[1] < Len(s) THEN step[<<p[2], s[p[1] + 1]>>] ELSE a]
<1>2. at \in [Nat \X T -> T]
  <2>1. ASSUME NEW p \in Nat \X T
        PROVE  (IF p[1] < Len(s) THEN step[<<p[2], s[p[1] + 1]>>] ELSE a) \in T
    <3>1. p[1] \in Nat /\ p[2] \in T
      OBVIOUS
    <3>2. p[1] < Len(s) => p[1] + 1 \in 1 .. Len(s)
      BY <1>1, <3>1
    <3> QED
      BY <1>1, <3>1, <3>2
  <2> QED
    BY <2>1
<1>3. \A n \in Nat, v \in T :
        n < Len(s) => at[<<n, v>>] = step[<<v, s[n + 1]>>]
  OBVIOUS
<1> HIDE DEF at
<1>4. PICK g \in [Nat -> T] :
        g[0] = a /\ \A n \in Nat : g[n + 1] = at[<<n, g[n]>>]
  <2>1. Iterates(T, a, at)
    BY <1>2, Iteration
  <2> QED
    BY <2>1 DEF Iterates
<1> DEFINE f == [n \in 0 .. Len(s) |-> g[n]]
<1>5. f \in [0 .. Len(s) -> T]
  BY <1>1, <1>4
<1>6. ASSUME NEW n \in 0 .. Len(s), n # 0
      PROVE  f[n] = step[<<f[n - 1], s[n]>>]
  <2>1. n - 1 \in Nat /\ n - 1 < Len(s) /\ (n - 1) + 1 = n
    BY <1>1, <1>6
  <2>2. g[n] = at[<<n - 1, g[n - 1]>>]
    BY <1>4, <2>1
  <2>3. f[n] = g[n] /\ f[n - 1] = g[n - 1] /\ g[n - 1] \in T
    BY <1>1, <1>4, <2>1
  <2> HIDE DEF f
  <2> QED
    BY <1>3, <2>1, <2>2, <2>3
<1>7. f[0] = a
  BY <1>1, <1>4
<1> HIDE DEF f
<1> QED
  BY <1>5, <1>6, <1>7 DEF FoldsLeft

-----------------------------------------------------------------------------
(* Numbers as text.                                                          *)

\* The function that Value evaluates.
Values(s) ==
    CHOOSE f : f = [n \in 0 .. Len(s) |->
                      IF n = 0 THEN 0 ELSE 10 * f[n - 1] + s[n]]

LEMMA ValuesRecurs ==
  ASSUME NEW s \in Seq(Int)
  PROVE  Values(s) = [n \in 0 .. Len(s) |->
                        IF n = 0 THEN 0 ELSE 10 * Values(s)[n - 1] + s[n]]
<1> DEFINE step == [p \in Int \X Int |-> 10 * p[1] + p[2]]
<1>1. step \in [Int \X Int -> Int] /\ \A v, e \in Int : step[<<v, e>>] = 10 * v + e
  OBVIOUS
<1> HIDE DEF step
<1>2. PICK f \in [0 .. Len(s) -> Int] :
        \A n \in 0 .. Len(s) : f[n] = IF n = 0 THEN 0 ELSE step[<<f[n - 1], s[n]>>]
  <2>1. FoldsLeft(Int, 0, s, step)
    <3>1. 0 \in Int /\ s \in Seq(Int) /\ step \in [Int \X Int -> Int]
      BY <1>1
    <3> QED
      BY <3>1, LeftFold, Zenon
  <2> QED
    BY <2>1 DEF FoldsLeft
<1>3. \A n \in 0 .. Len(s) : f[n] = IF n = 0 THEN 0 ELSE 10 * f[n - 1] + s[n]
  <2> SUFFICES ASSUME NEW n \in 0 .. Len(s), n # 0
               PROVE  f[n] = 10 * f[n - 1] + s[n]
    BY <1>2
  <2>1. f[n - 1] \in Int /\ s[n] \in Int
    OBVIOUS
  <2> QED
    BY <1>1, <1>2, <2>1
<1>4. f = [n \in 0 .. Len(s) |-> IF n = 0 THEN 0 ELSE 10 * f[n - 1] + s[n]]
  BY <1>3
<1> QED
  BY <1>4 DEF Values

LEMMA ValueIsLast == \A s : Value(s) = Values(s)[Len(s)]
BY DEF Value, Values

LEMMA ValuesTyped ==
  ASSUME NEW s \in Seq(Int)
  PROVE  \A n \in 0 .. Len(s) : Values(s)[n] \in Int
<1> DEFINE U == {n \in Nat : n <= Len(s) => Values(s)[n] \in Int}
<1>1. Values(s)[0] = 0 /\ \A n \in 0 .. Len(s) :
        n # 0 => Values(s)[n] = 10 * Values(s)[n - 1] + s[n]
  BY ValuesRecurs
<1>2. 0 \in U
  BY <1>1
<1>3. ASSUME NEW n \in Nat, n \in U PROVE n + 1 \in U
  <2> SUFFICES ASSUME n + 1 <= Len(s) PROVE Values(s)[n + 1] \in Int
    OBVIOUS
  <2>1. n + 1 \in 0 .. Len(s) /\ n + 1 # 0 /\ (n + 1) - 1 = n
    OBVIOUS
  <2>2. Values(s)[n] \in Int /\ s[n + 1] \in Int
    BY <1>3
  <2> QED
    BY <1>1, <2>1, <2>2
<1> HIDE DEF U
<1>4. \A n \in Nat : n \in U
  BY <1>2, <1>3, Induction
<1> QED
  BY <1>4 DEF U

\* A digit behind the others.
LEMMA ValueOfAppend ==
  ASSUME NEW s \in Seq(Int), NEW d \in Int
  PROVE  Value(Append(s, d)) = 10 * Value(s) + d
<1> DEFINE t == Append(s, d)
           U == {n \in Nat : n <= Len(s) => Values(t)[n] = Values(s)[n]}
<1>1. t \in Seq(Int) /\ Len(t) = Len(s) + 1 /\ t[Len(s) + 1] = d
      /\ \A n \in 1 .. Len(s) : t[n] = s[n]
  OBVIOUS
<1> HIDE DEF t
<1>2. \A r \in {s, t} : Values(r)[0] = 0 /\ \A n \in 1 .. Len(r) :
        Values(r)[n] = 10 * Values(r)[n - 1] + r[n]
  BY <1>1, ValuesRecurs
<1>3. 0 \in U
  BY <1>2
<1>4. ASSUME NEW n \in Nat, n \in U PROVE n + 1 \in U
  <2> SUFFICES ASSUME n + 1 <= Len(s)
               PROVE  Values(t)[n + 1] = Values(s)[n + 1]
    OBVIOUS
  <2>1. n + 1 \in 1 .. Len(s) /\ n + 1 \in 1 .. Len(t) /\ (n + 1) - 1 = n
    BY <1>1
  <2>2. Values(t)[n] = Values(s)[n] /\ t[n + 1] = s[n + 1]
    BY <1>1, <1>4, <2>1
  <2>3. /\ Values(t)[n + 1] = 10 * Values(t)[n] + t[n + 1]
        /\ Values(s)[n + 1] = 10 * Values(s)[n] + s[n + 1]
    BY <1>2, <2>1
  <2> QED
    BY <2>2, <2>3
<1> HIDE DEF U
<1>5. \A n \in Nat : n \in U
  BY <1>3, <1>4, Induction
<1>6. Len(s) \in Nat
  OBVIOUS
<1>7. Values(t)[Len(s)] = Values(s)[Len(s)]
  BY <1>5, <1>6 DEF U
<1>8. Values(t)[Len(s) + 1] = 10 * Values(t)[Len(s)] + d
  <2>1. Len(s) + 1 \in 1 .. Len(t) /\ (Len(s) + 1) - 1 = Len(s)
    BY <1>1, <1>6
  <2> QED
    BY <1>1, <1>2, <2>1
<1> QED
  BY <1>1, <1>7, <1>8, ValueIsLast DEF t

LEMMA ValueOfNothing == Value(<<>>) = 0
<1>1. <<>> \in Seq(Int) /\ Len(<<>>) = 0
  OBVIOUS
<1>2. 0 \in 0 .. Len(<<>>)
  BY <1>1
<1>3. Values(<<>>)[0] = 0
  <2> DEFINE e == <<>>
  <2>1. e \in Seq(Int) /\ 0 \in 0 .. Len(e)
    BY <1>1, <1>2
  <2> HIDE DEF e
  <2>2. Values(e)[0] = 0
    BY <2>1, ValuesRecurs
  <2> QED
    BY <2>2 DEF e
<1> QED
  BY <1>1, <1>3, ValueIsLast

Abs(i) == IF i < 0 THEN -i ELSE i

\* What one round of Convert takes off a number.
LEMMA LastDigitTaken ==
  ASSUME NEW i \in Int
  PROVE  /\ KZero(LastDigit(i)) \in 0 .. 9
         /\ WithoutLastDigit(i) \in Int
         /\ Abs(i) \in Nat
         /\ Abs(WithoutLastDigit(i)) \in Nat
         /\ Abs(i) = 10 * Abs(WithoutLastDigit(i)) + KZero(LastDigit(i))
         /\ WithoutLastDigit(i) # 0 => Abs(WithoutLastDigit(i)) < Abs(i)
         /\ i = 0 => WithoutLastDigit(i) = 0
<1>1. CASE i < 0
  BY <1>1 DEF KZero, LastDigit, WithoutLastDigit, Abs
<1>2. CASE i >= 0
  BY <1>2 DEF KZero, LastDigit, WithoutLastDigit, Abs
<1> QED
  BY <1>1, <1>2

DigitSeqs == Seq(0 .. 9)

\* The digits of i, given those of the shorter numbers.
Longer(i, digits) ==
    <<KZero(LastDigit(i))>> \o (IF WithoutLastDigit(i) = 0 THEN <<>>
                                ELSE digits[WithoutLastDigit(i)])

LEMMA LongerTyped ==
  ASSUME NEW i \in Int, NEW digits,
         WithoutLastDigit(i) # 0 => digits[WithoutLastDigit(i)] \in DigitSeqs
  PROVE  Longer(i, digits) \in DigitSeqs
<1>1. KZero(LastDigit(i)) \in 0 .. 9
  BY LastDigitTaken
<1> DEFINE rest == IF WithoutLastDigit(i) = 0 THEN <<>>
                   ELSE digits[WithoutLastDigit(i)]
<1>2. rest \in Seq(0 .. 9)
  BY DEF DigitSeqs
<1> HIDE DEF rest
<1>3. <<KZero(LastDigit(i))>> \o rest \in Seq(0 .. 9)
  BY <1>1, <1>2
<1> QED
  BY <1>3 DEF Longer, rest, DigitSeqs

LEMMA LongerDepends ==
  ASSUME NEW i, NEW f, NEW g,
         WithoutLastDigit(i) # 0 => f[WithoutLastDigit(i)] = g[WithoutLastDigit(i)]
  PROVE  Longer(i, f) = Longer(i, g)
BY DEF Longer

\* The recursion of Digits has a solution: the limit of its iteration.
LEMMA DigitsRecur == Digits = [i \in Int |-> Longer(i, Digits)]
<1> DEFINE T == [Int -> DigitSeqs]
           none == [i \in Int |-> <<>>]
           step == [p \in Nat \X T |-> [i \in Int |-> Longer(i, p[2])]]
<1>1. none \in T
  <2>1. <<>> \in DigitSeqs
    BY DEF DigitSeqs
  <2> QED
    BY <2>1
<1>2. step \in [Nat \X T -> T]
  <2>1. ASSUME NEW p \in Nat \X T PROVE [i \in Int |-> Longer(i, p[2])] \in T
    <3>1. p[2] \in T
      OBVIOUS
    <3>2. \A i \in Int : Longer(i, p[2]) \in DigitSeqs
      BY <3>1, LongerTyped, LastDigitTaken
    <3> QED
      BY <3>2
  <2> QED
    BY <2>1
<1>3. \A n \in Nat, d \in T : step[<<n, d>>] = [i \in Int |-> Longer(i, d)]
  OBVIOUS
<1> HIDE DEF none, step, T
<1>4. PICK F \in [Nat -> T] :
        F[0] = none /\ \A n \in Nat : F[n + 1] = step[<<n, F[n]>>]
  <2>1. Iterates(T, none, step)
    BY <1>1, <1>2, Iteration
  <2> QED
    BY <2>1 DEF Iterates
<1>5. \A n \in Nat, i \in Int : F[n + 1][i] = Longer(i, F[n])
  <2> SUFFICES ASSUME NEW n \in Nat, NEW i \in Int
               PROVE  F[n + 1][i] = Longer(i, F[n])
    OBVIOUS
  <2>1. F[n + 1] = [j \in Int |-> Longer(j, F[n])]
    BY <1>3, <1>4
  <2> QED
    BY <2>1
\* From the number's length on, nothing changes.
<1> DEFINE U == {k \in Nat : \A i \in Int : Abs(i) <= k =>
                   \A j \in Nat : j >= k => F[j + 1][i] = F[k + 1][i]}
<1>6. 0 \in U
  <2> SUFFICES ASSUME NEW i \in Int, Abs(i) <= 0, NEW j \in Nat
               PROVE  F[j + 1][i] = F[0 + 1][i]
    OBVIOUS
  <2>1. i = 0
    BY DEF Abs
  <2>2. WithoutLastDigit(i) = 0
    BY <2>1, LastDigitTaken
  <2>3. Longer(i, F[j]) = Longer(i, F[0])
    BY <2>2, LongerDepends
  <2>4. F[j + 1][i] = Longer(i, F[j]) /\ F[0 + 1][i] = Longer(i, F[0])
    BY <1>5
  <2> QED
    BY <2>3, <2>4
<1>7. ASSUME NEW k \in Nat, k \in U PROVE k + 1 \in U
  <2> SUFFICES ASSUME NEW i \in Int, Abs(i) <= k + 1,
                      NEW j \in Nat, j >= k + 1
               PROVE  F[j + 1][i] = F[(k + 1) + 1][i]
    OBVIOUS
  <2> DEFINE w == WithoutLastDigit(i)
  <2>1. w # 0 => F[j][w] = F[k + 1][w]
    <3> SUFFICES ASSUME w # 0 PROVE F[j][w] = F[k + 1][w]
      OBVIOUS
    <3>1. w \in Int /\ Abs(w) <= k
      BY LastDigitTaken
    <3>2. j - 1 \in Nat /\ j - 1 >= k /\ (j - 1) + 1 = j
      OBVIOUS
    <3> HIDE DEF w
    <3> QED
      BY <1>7, <3>1, <3>2
  <2>2. Longer(i, F[j]) = Longer(i, F[k + 1])
    BY <2>1, LongerDepends
  <2> QED
    BY <1>5, <2>2
<1> HIDE DEF U
<1>8. \A k \in Nat : k \in U
  BY <1>6, <1>7, Induction
<1> DEFINE D == [i \in Int |-> F[Abs(i) + 1][i]]
<1>9. ASSUME NEW i \in Int PROVE D[i] = Longer(i, D)
  <2> DEFINE w == WithoutLastDigit(i)
             a == Abs(i)
             b == Abs(w)
  <2>1. a \in Nat /\ w \in Int /\ b \in Nat
    BY LastDigitTaken
  <2>2. w # 0 => F[a][w] = D[w]
    <3> SUFFICES ASSUME w # 0 PROVE F[a][w] = F[b + 1][w]
      BY <2>1
    <3>1. a - 1 \in Nat /\ a - 1 >= b /\ (a - 1) + 1 = a
      BY LastDigitTaken
    <3>2. b \in U /\ b <= b
      BY <1>8, <2>1
    <3> HIDE DEF w, a
    <3>3. F[(a - 1) + 1][w] = F[b + 1][w]
      BY <2>1, <3>1, <3>2 DEF U
    <3> QED
      BY <3>1, <3>3
  <2>3. Longer(i, F[a]) = Longer(i, D)
    <3> HIDE DEF D
    <3> QED
      BY <2>2, LongerDepends
  <2> QED
    BY <1>5, <2>1, <2>3
<1> HIDE DEF D
<1>10. D = [i \in Int |-> Longer(i, D)]
  <2>1. D = [i \in Int |-> D[i]]
    BY DEF D
  <2> QED
    BY <1>9, <2>1
<1> QED
  BY <1>10 DEF Digits, Longer

LEMMA DigitsAre == \A i \in Int : Digits[i] = Longer(i, Digits)
<1> HIDE DEF Digits, Longer
<1> QED
  BY DigitsRecur

\* Reversed, the digit that was taken off is the last.
LEMMA ReverseLonger ==
  ASSUME NEW d \in Int, NEW rest \in Seq(Int)
  PROVE  /\ Reverse(rest) \in Seq(Int)
         /\ Reverse(<<d>> \o rest) = Append(Reverse(rest), d)
<1> DEFINE s == <<d>> \o rest
<1>1. /\ Len(rest) \in Nat
      /\ s \in Seq(Int)
      /\ Len(s) = Len(rest) + 1
      /\ s[1] = d
      /\ \A n \in 1 .. Len(rest) : s[n + 1] = rest[n] /\ rest[n] \in Int
  OBVIOUS
<1> HIDE DEF s
<1>2. Reverse(rest) = [i \in 1 .. Len(rest) |-> rest[(Len(rest) - i) + 1]]
  BY DEF Reverse
<1>3. Reverse(s) = [i \in 1 .. Len(rest) + 1 |-> s[(Len(rest) + 1 - i) + 1]]
  BY <1>1 DEF Reverse
<1>4. \A i \in 1 .. Len(rest) : (Len(rest) - i) + 1 \in 1 .. Len(rest)
  BY <1>1
<1>5. Reverse(rest) \in Seq(Int)
  BY <1>1, <1>2, <1>4
<1> DEFINE t == Append(Reverse(rest), d)
<1>6. Len(Reverse(rest)) = Len(rest)
  BY <1>1, <1>2
<1>7. /\ t \in Seq(Int)
      /\ Len(t) = Len(rest) + 1
      /\ t[Len(rest) + 1] = d
      /\ \A i \in 1 .. Len(rest) : t[i] = Reverse(rest)[i]
  BY <1>5, <1>6
<1> HIDE DEF t
<1>8. ASSUME NEW i \in 1 .. Len(rest) + 1
      PROVE  t[i] = s[(Len(rest) + 1 - i) + 1]
  <2>1. CASE i = Len(rest) + 1
    <3>1. (Len(rest) + 1 - i) + 1 = 1
      BY <1>1, <2>1
    <3> QED
      BY <1>1, <1>7, <2>1, <3>1
  <2>2. CASE i # Len(rest) + 1
    <3> DEFINE n == (Len(rest) - i) + 1
    <3>1. i \in 1 .. Len(rest) /\ n \in 1 .. Len(rest)
          /\ (Len(rest) + 1 - i) + 1 = n + 1
      BY <1>1, <2>2
    <3>2. t[i] = rest[n]
      BY <1>2, <1>7, <3>1
    <3> HIDE DEF n
    <3> QED
      BY <1>1, <3>1, <3>2
  <2> QED
    BY <2>1, <2>2
<1>9. Reverse(s) = t
  <2>1. t = [i \in 1 .. Len(rest) + 1 |-> t[i]]
    BY <1>7
  <2> QED
    BY <1>3, <1>8, <2>1
<1> QED
  BY <1>5, <1>9 DEF s, t

\* Convert's digits, in the order of the line, are those of the number.
LEMMA DigitsHaveValue ==
  ASSUME NEW v \in Int
  PROVE  Digits[v] \in Seq(Int) /\ Value(Reverse(Digits[v])) = Abs(v)
<1> DEFINE Right(i) == /\ Digits[i] \in Seq(Int)
                       /\ Value(Reverse(Digits[i])) = Abs(i)
           U == {k \in Nat : \A i \in Int : Abs(i) <= k => Right(i)}
<1>1. ASSUME NEW i \in Int,
             WithoutLastDigit(i) # 0 => Right(WithoutLastDigit(i))
      PROVE  Right(i)
  <2> DEFINE w == WithoutLastDigit(i)
             d == KZero(LastDigit(i))
             rest == IF w = 0 THEN <<>> ELSE Digits[w]
  <2>1. d \in Int /\ Abs(i) = 10 * Abs(w) + d
    <3>1. d \in 0 .. 9 /\ Abs(i) = 10 * Abs(w) + d
      BY LastDigitTaken, Zenon
    <3> QED
      BY <3>1
  <2>2. Digits[i] = <<d>> \o rest
    BY DigitsAre DEF Longer
  <2>3. rest \in Seq(Int)
    BY <1>1
  <2>4. Value(Reverse(rest)) = Abs(w)
    <3>1. CASE w = 0
      <4>1. Reverse(<<>>) = <<>>
        BY DEF Reverse
      <4>2. Abs(w) = 0
        BY <3>1 DEF Abs
      <4>3. rest = <<>>
        BY <3>1
      <4> QED
        BY <4>1, <4>2, <4>3, ValueOfNothing
    <3>2. CASE w # 0
      BY <1>1, <3>2
    <3> QED
      BY <3>1, <3>2
  <2> HIDE DEF w, d, rest
  <2>5. /\ Reverse(rest) \in Seq(Int)
        /\ Reverse(Digits[i]) = Append(Reverse(rest), d)
    BY <2>1, <2>2, <2>3, ReverseLonger
  <2>6. Value(Reverse(Digits[i])) = 10 * Abs(w) + d
    BY <2>1, <2>4, <2>5, ValueOfAppend
  <2>7. Digits[i] \in Seq(Int)
    BY <2>1, <2>2, <2>3
  <2> QED
    BY <2>1, <2>6, <2>7
<1> HIDE DEF Right
<1>2. 0 \in U
  <2> SUFFICES ASSUME NEW i \in Int, Abs(i) <= 0 PROVE Right(i)
    OBVIOUS
  <2>1. i = 0
    BY DEF Abs
  <2>2. WithoutLastDigit(i) = 0
    BY <2>1, LastDigitTaken
  <2> QED
    BY <1>1, <2>2
<1>3. ASSUME NEW k \in Nat, k \in U PROVE k + 1 \in U
  <2> SUFFICES ASSUME NEW i \in Int, Abs(i) <= k + 1 PROVE Right(i)
    OBVIOUS
  <2> DEFINE w == WithoutLastDigit(i)
  <2>1. w \in Int /\ (w # 0 => Abs(w) <= k)
    BY LastDigitTaken
  <2>2. w # 0 => Right(w)
    <3> HIDE DEF w
    <3> QED
      BY <1>3, <2>1
  <2> QED
    BY <1>1, <2>2
<1> HIDE DEF U
<1>4. \A k \in Nat : k \in U
  BY <1>2, <1>3, Induction
<1>5. Abs(v) \in Nat /\ Abs(v) <= Abs(v)
  BY LastDigitTaken
<1>6. Right(v)
  BY <1>4, <1>5 DEF U
<1> QED
  BY <1>6 DEF Right

\* The text of an integer denotes it, the smallest one included: log_stream.cc's
\* Convert takes the digits of a negative number off as they are.
LEMMA ConvertDenotes ==
  ASSUME NEW v \in Int
  PROVE  Denoted(Convert(v)) = v
<1>1. Convert(v).minus = (v < 0) /\ Convert(v).digits = Reverse(Digits[v])
  BY DEF Convert
<1>2. Value(Convert(v).digits) = Abs(v)
  BY <1>1, DigitsHaveValue
<1>3. CASE v < 0
  <2>1. Convert(v).minus
    BY <1>1, <1>3
  <2> QED
    BY <1>2, <1>3, <2>1 DEF Denoted, Abs
<1>4. CASE ~(v < 0)
  <2>1. ~Convert(v).minus
    BY <1>1, <1>4
  <2> QED
    BY <1>2, <1>4, <2>1 DEF Denoted, Abs
<1> QED
  BY <1>3, <1>4

-----------------------------------------------------------------------------
(* The bounds of the array.                                                  *)

InBounds(s) ==
    /\ s.cur \in Nat
    /\ s.written \in Nat
    /\ s.cur <= s.written
    /\ s.written <= SIZE
    /\ s.cur < SIZE

StreamInBounds(s) ==
    /\ s = [asked |-> s.asked, shown |-> s.shown, cur |-> s.cur,
            written |-> s.written]
    /\ InBounds(s)

\* A text needs a byte more than it takes, a number kMaxNumericSize bytes.
LEMMA InsertInBounds ==
    ASSUME NEW s, StreamInBounds(s), NEW item, WellFormed(item)
    PROVE  StreamInBounds(Insert(s, item))
<1>1. SIZE \in Nat /\ kMaxNumericSize \in Nat
    BY LogStreamAssumption
<1>2. item.len \in Nat
    BY DEF WellFormed
<1>3. s.cur \in Nat /\ s.written \in Nat /\ s.cur <= s.written
      /\ s.written <= SIZE /\ s.cur < SIZE
    BY DEF StreamInBounds, InBounds
<1>4. /\ Extent(item) \in Nat
      /\ item.len <= Extent(item)
      /\ item.by = "Append" => Extent(item) = item.len
      /\ item.by # "Append" => item.len < Extent(item)
    BY <1>2 DEF Extent, WellFormed
<1> DEFINE end == s.cur + Extent(item)
<1>5. ASSUME s.cur + item.len < SIZE, end <= SIZE
      PROVE  StreamInBounds(Show(s, item))
  <2> DEFINE written == IF s.written < end THEN end ELSE s.written
             shown == s.shown \cup {Len(s.asked) + 1}
             asked == Append(s.asked, item)
             cur == s.cur + item.len
  <2>1. /\ cur \in Nat /\ written \in Nat /\ cur <= written
        /\ written <= SIZE /\ cur < SIZE
      BY <1>1, <1>2, <1>3, <1>4, <1>5
  <2>2. Show(s, item) = [asked |-> asked, shown |-> shown, cur |-> cur,
                         written |-> written]
      BY DEF Show
  <2> HIDE DEF asked, shown, cur, written
  <2> QED
      BY <2>1, <2>2 DEF StreamInBounds, InBounds
<1>6. StreamInBounds(LeaveOut(s, item))
  <2> DEFINE asked == Append(s.asked, item)
             t == LeaveOut(s, item)
  <2>1. t = [asked |-> asked, shown |-> s.shown, cur |-> s.cur,
             written |-> s.written]
      BY DEF LeaveOut, StreamInBounds
  <2> HIDE DEF asked, t
  <2>2. StreamInBounds(t)
      BY <1>3, <2>1 DEF StreamInBounds, InBounds
  <2> QED
      BY <2>2 DEF t
<1>7. CASE item.by = "Append"
  <2>1. MayAppend(s, item.len) => s.cur + item.len < SIZE /\ end <= SIZE
      BY <1>1, <1>2, <1>3, <1>4, <1>7 DEF MayAppend, Avail
  <2> QED
      BY <1>5, <1>6, <1>7, <2>1 DEF Insert
<1>8. CASE item.by # "Append"
  <2>1. Extent(item) <= kMaxNumericSize
      BY <1>8 DEF WellFormed
  <2>2. MayFormat(s) => s.cur + item.len < SIZE /\ end <= SIZE
      BY <1>1, <1>2, <1>3, <1>4, <1>8, <2>1 DEF MayFormat, Avail
  <2> QED
      BY <1>5, <1>6, <1>8, <2>2 DEF Insert
<1> QED
    BY <1>7, <1>8

LEMMA EmptyInBounds == StreamInBounds(Empty)
BY LogStreamAssumption DEF Empty, StreamInBounds, InBounds

-----------------------------------------------------------------------------
(* The length of a line that has room for everything.                        *)

Names == {"time", "micros", "level", "func", "error", "errno", "dash", "file"}
Marks == {"[", "] ", ") ", ":", "\n"}

\* All that a line may be made of.
LineItems ==
    Items \cup {Integer(ThreadId), Integer(Errno), Integer(LineNumber)}
          \cup {Text(what, len) : what \in Seconds \cup Names \cup Marks,
                                  len \in Nat}

LEMMA LineItemsWellFormed ==
    \A item \in LineItems : WellFormed(item) /\ item.len \in Nat
<1>1. \A what \in Seconds \cup Names \cup Marks, len \in Nat :
        WellFormed(Text(what, len))
    BY DEF WellFormed, Text
<1>2. \A item \in LineItems : WellFormed(item)
    BY <1>1, LoggerAssumption DEF LineItems
<1> QED
    BY <1>2 DEF WellFormed

LEMMA PartsInLine ==
    /\ \A name \in Names \ {"time"} : Named(name) \in LineItems
    /\ \A mark \in Marks : Char(mark) \in LineItems /\ Text(mark, 2) \in LineItems
    /\ \A second \in Seconds : Text(second, Width["time"]) \in LineItems
    /\ {Integer(ThreadId), Integer(Errno), Integer(LineNumber)} \subseteq LineItems
<1>1. \A name \in Names : Width[name] \in Nat
    BY LoggerAssumption DEF Names
<1>2. \A what \in Seconds \cup Names \cup Marks, len \in Nat :
        Text(what, len) \in LineItems
    BY DEF LineItems
<1>3. \A name \in Names : Named(name) \in LineItems
    BY <1>1, <1>2 DEF Named
<1>4. \A mark \in Marks : Char(mark) \in LineItems /\ Text(mark, 2) \in LineItems
    BY <1>2 DEF Char
<1>5. \A second \in Seconds : Text(second, Width["time"]) \in LineItems
    BY <1>1, <1>2 DEF Names
<1>6. {Integer(ThreadId), Integer(Errno), Integer(LineNumber)} \subseteq LineItems
    BY DEF LineItems
<1> QED
    BY <1>3, <1>4, <1>5, <1>6

\* The function that FullLength evaluates.
Lengths(s) ==
    CHOOSE f : f = [n \in 0 .. Len(s) |->
                      IF n = 0 THEN 0 ELSE f[n - 1] + s[n].len]

LEMMA LengthsRecur ==
    ASSUME NEW s \in Seq(LineItems)
    PROVE  Lengths(s) = [n \in 0 .. Len(s) |->
                           IF n = 0 THEN 0 ELSE Lengths(s)[n - 1] + s[n].len]
<1> DEFINE step == [p \in Nat \X LineItems |-> p[1] + p[2].len]
<1>1. \A p \in Nat \X LineItems : p[1] + p[2].len \in Nat
    BY LineItemsWellFormed
<1>2. /\ step \in [Nat \X LineItems -> Nat]
      /\ \A v \in Nat, e \in LineItems : step[<<v, e>>] = v + e.len
    BY <1>1
<1> HIDE DEF step
<1>3. PICK f \in [0 .. Len(s) -> Nat] :
        \A n \in 0 .. Len(s) : f[n] = IF n = 0 THEN 0 ELSE step[<<f[n - 1], s[n]>>]
  <2>1. FoldsLeft(Nat, 0, s, step)
    <3>1. 0 \in Nat /\ s \in Seq(LineItems) /\ step \in [Nat \X LineItems -> Nat]
        BY <1>2
    <3> QED
        BY <3>1, LeftFold, Zenon
  <2> QED
      BY <2>1 DEF FoldsLeft
<1>4. \A n \in 0 .. Len(s) : f[n] = IF n = 0 THEN 0 ELSE f[n - 1] + s[n].len
  <2> SUFFICES ASSUME NEW n \in 0 .. Len(s), n # 0
               PROVE  f[n] = f[n - 1] + s[n].len
      BY <1>3
  <2>1. f[n - 1] \in Nat /\ s[n] \in LineItems
      OBVIOUS
  <2> QED
      BY <1>2, <1>3, <2>1
<1>5. f = [n \in 0 .. Len(s) |-> IF n = 0 THEN 0 ELSE f[n - 1] + s[n].len]
    BY <1>4
<1> QED
    BY <1>5 DEF Lengths

LEMMA FullLengthIsLast == \A s : FullLength(s) = Lengths(s)[Len(s)]
BY DEF FullLength, Lengths

LEMMA FullLengthTyped ==
    ASSUME NEW s \in Seq(LineItems)
    PROVE  FullLength(s) \in Nat
<1> DEFINE U == {n \in Nat : n <= Len(s) => Lengths(s)[n] \in Nat}
<1>1. Lengths(s)[0] = 0 /\ \A n \in 0 .. Len(s) :
        n # 0 => Lengths(s)[n] = Lengths(s)[n - 1] + s[n].len
    BY LengthsRecur
<1>2. 0 \in U
    BY <1>1
<1>3. ASSUME NEW n \in Nat, n \in U PROVE n + 1 \in U
  <2> SUFFICES ASSUME n + 1 <= Len(s) PROVE Lengths(s)[n + 1] \in Nat
      OBVIOUS
  <2>1. n + 1 \in 0 .. Len(s) /\ n + 1 # 0 /\ (n + 1) - 1 = n
      OBVIOUS
  <2>2. s[n + 1] \in LineItems
      OBVIOUS
  <2>3. Lengths(s)[n] \in Nat /\ s[n + 1].len \in Nat
      BY <1>3, <2>2, LineItemsWellFormed
  <2> QED
      BY <1>1, <2>1, <2>3
<1> HIDE DEF U
<1>4. \A n \in Nat : n \in U
    BY <1>2, <1>3, Induction
<1>5. Len(s) \in Nat
    OBVIOUS
<1>6. Lengths(s)[Len(s)] \in Nat
    BY <1>4, <1>5 DEF U
<1> QED
    BY <1>6, FullLengthIsLast

LEMMA FullLengthOfAppend ==
    ASSUME NEW s \in Seq(LineItems), NEW item \in LineItems
    PROVE  FullLength(Append(s, item)) = FullLength(s) + item.len
<1> DEFINE t == Append(s, item)
           U == {n \in Nat : n <= Len(s) => Lengths(t)[n] = Lengths(s)[n]}
<1>1. t \in Seq(LineItems) /\ Len(t) = Len(s) + 1 /\ t[Len(s) + 1] = item
      /\ \A n \in 1 .. Len(s) : t[n] = s[n]
    OBVIOUS
<1> HIDE DEF t
<1>2. \A r \in {s, t} : Lengths(r)[0] = 0 /\ \A n \in 1 .. Len(r) :
        Lengths(r)[n] = Lengths(r)[n - 1] + r[n].len
    BY <1>1, LengthsRecur
<1>3. 0 \in U
    BY <1>2
<1>4. ASSUME NEW n \in Nat, n \in U PROVE n + 1 \in U
  <2> SUFFICES ASSUME n + 1 <= Len(s)
               PROVE  Lengths(t)[n + 1] = Lengths(s)[n + 1]
      OBVIOUS
  <2>1. n + 1 \in 1 .. Len(s) /\ n + 1 \in 1 .. Len(t) /\ (n + 1) - 1 = n
      BY <1>1
  <2>2. Lengths(t)[n] = Lengths(s)[n] /\ t[n + 1] = s[n + 1]
      BY <1>1, <1>4, <2>1
  <2>3. /\ Lengths(t)[n + 1] = Lengths(t)[n] + t[n + 1].len
        /\ Lengths(s)[n + 1] = Lengths(s)[n] + s[n + 1].len
      BY <1>2, <2>1
  <2> QED
      BY <2>2, <2>3
<1> HIDE DEF U
<1>5. \A n \in Nat : n \in U
    BY <1>3, <1>4, Induction
<1>6. Len(s) \in Nat
    OBVIOUS
<1>7. Lengths(t)[Len(s)] = Lengths(s)[Len(s)]
    BY <1>5, <1>6 DEF U
<1>8. Lengths(t)[Len(s) + 1] = Lengths(t)[Len(s)] + item.len
  <2>1. Len(s) + 1 \in 1 .. Len(t) /\ (Len(s) + 1) - 1 = Len(s)
      BY <1>1, <1>6
  <2> QED
      BY <1>1, <1>2, <2>1
<1> QED
    BY <1>1, <1>7, <1>8, FullLengthIsLast DEF t

LEMMA FullLengthOfNothing == FullLength(<<>>) = 0
<1> DEFINE e == <<>>
<1>1. e \in Seq(LineItems) /\ Len(e) = 0 /\ 0 \in 0 .. Len(e)
    OBVIOUS
<1> HIDE DEF e
<1>2. Lengths(e)[0] = 0
    BY <1>1, LengthsRecur
<1> QED
    BY <1>1, <1>2, FullLengthIsLast DEF e

-----------------------------------------------------------------------------
(* What a stream shows.                                                      *)

Complete(s) ==
    /\ StreamInBounds(s)
    /\ s.asked \in Seq(LineItems)
    /\ s.shown \subseteq 1 .. Len(s.asked)
    /\ s.cur <= FullLength(s.asked)
    /\ FullLength(s.asked) + kMaxNumericSize <= SIZE
          => s.shown = 1 .. Len(s.asked)

\* The line begins with the second.
Starts(s, second) == s.asked # <<>> /\ s.asked[1].what = second

Faithful(s, second) == Complete(s) /\ Starts(s, second)

\* Only a line that is full to the last but one byte lacks its newline.
Ended(s) == Len(s.asked) \in s.shown \/ s.cur = SIZE - 1

LEMMA NumbersNeedRoom == kMaxNumericSize > 0
<1>1. Extent(Integer(ThreadId)) <= kMaxNumericSize /\ Integer(ThreadId).len \in Nat
    BY LoggerAssumption DEF WellFormed, Integer
<1>2. Extent(Integer(ThreadId)) = Integer(ThreadId).len + 1
    BY DEF Extent, Integer
<1> QED
    BY <1>1, <1>2, LogStreamAssumption

LEMMA InsertFields ==
    ASSUME NEW s, StreamInBounds(s), NEW item
    PROVE  LET t == Insert(s, item)
               shows == t.shown = s.shown \cup {Len(s.asked) + 1}
                        /\ t.cur = s.cur + item.len
               leaves == t.shown = s.shown /\ t.cur = s.cur
           IN  /\ t.asked = Append(s.asked, item)
               /\ item.by = "Append"
                    => IF MayAppend(s, item.len) THEN shows ELSE leaves
               /\ item.by # "Append" => IF MayFormat(s) THEN shows ELSE leaves
<1>1. /\ Show(s, item).asked = Append(s.asked, item)
      /\ Show(s, item).shown = s.shown \cup {Len(s.asked) + 1}
      /\ Show(s, item).cur = s.cur + item.len
    BY DEF Show
<1>2. /\ LeaveOut(s, item).asked = Append(s.asked, item)
      /\ LeaveOut(s, item).shown = s.shown
      /\ LeaveOut(s, item).cur = s.cur
    BY DEF LeaveOut, StreamInBounds
<1> QED
    BY <1>1, <1>2 DEF Insert

LEMMA InsertComplete ==
    ASSUME NEW s, Complete(s), NEW item \in LineItems
    PROVE  Complete(Insert(s, item))
<1> DEFINE t == Insert(s, item)
           room == IF item.by = "Append" THEN MayAppend(s, item.len)
                                         ELSE MayFormat(s)
<1>1. StreamInBounds(s) /\ WellFormed(item) /\ item.len \in Nat
    BY LineItemsWellFormed DEF Complete
<1>2. StreamInBounds(t)
    BY <1>1, InsertInBounds
<1>3. /\ t.asked = Append(s.asked, item)
      /\ room => t.shown = s.shown \cup {Len(s.asked) + 1}
                 /\ t.cur = s.cur + item.len
      /\ ~room => t.shown = s.shown /\ t.cur = s.cur
    BY <1>1, InsertFields
<1>4. /\ s.asked \in Seq(LineItems)
      /\ s.shown \subseteq 1 .. Len(s.asked)
      /\ s.cur <= FullLength(s.asked)
      /\ FullLength(s.asked) + kMaxNumericSize <= SIZE
            => s.shown = 1 .. Len(s.asked)
      /\ s.cur \in Nat
    BY <1>1 DEF Complete, StreamInBounds, InBounds
<1>5. /\ t.asked \in Seq(LineItems)
      /\ Len(s.asked) \in Nat
      /\ Len(t.asked) = Len(s.asked) + 1
    BY <1>3, <1>4
<1>6. /\ FullLength(s.asked) \in Nat
      /\ FullLength(t.asked) = FullLength(s.asked) + item.len
    BY <1>3, <1>4, FullLengthTyped, FullLengthOfAppend
<1>7. SIZE \in Nat /\ kMaxNumericSize \in Nat /\ kMaxNumericSize > 0
    BY LogStreamAssumption, NumbersNeedRoom
<1>8. FullLength(t.asked) + kMaxNumericSize <= SIZE
        => room /\ FullLength(s.asked) + kMaxNumericSize <= SIZE
    BY <1>1, <1>4, <1>6, <1>7 DEF MayAppend, MayFormat, Avail
<1> HIDE DEF t, room
<1>9. t.shown \subseteq 1 .. Len(t.asked)
    BY <1>3, <1>4, <1>5
<1>10. t.cur <= FullLength(t.asked)
    BY <1>1, <1>3, <1>4, <1>6
<1>11. FullLength(t.asked) + kMaxNumericSize <= SIZE
        => t.shown = 1 .. Len(t.asked)
  <2> SUFFICES ASSUME FullLength(t.asked) + kMaxNumericSize <= SIZE
               PROVE  t.shown = 1 .. Len(t.asked)
      OBVIOUS
  <2>1. t.shown = (1 .. Len(s.asked)) \cup {Len(s.asked) + 1}
      BY <1>3, <1>4, <1>8
  <2> QED
      BY <1>5, <2>1
<1>12. Complete(t)
    BY <1>2, <1>5, <1>9, <1>10, <1>11 DEF Complete
<1> QED
    BY <1>12 DEF t

LEMMA InsertFaithful ==
    ASSUME NEW second, NEW s, Faithful(s, second), NEW item \in LineItems
    PROVE  Faithful(Insert(s, item), second)
<1>1. Complete(Insert(s, item))
    BY InsertComplete DEF Faithful
<1>2. Insert(s, item).asked = Append(s.asked, item)
    BY InsertFields DEF Faithful, Complete
<1>3. s.asked \in Seq(LineItems) /\ s.asked # <<>> /\ s.asked[1].what = second
    BY DEF Faithful, Complete, Starts
<1>4. Append(s.asked, item) # <<>> /\ Append(s.asked, item)[1] = s.asked[1]
    BY <1>3
<1> QED
    BY <1>1, <1>2, <1>3, <1>4 DEF Faithful, Starts

LEMMA EmptyComplete == Complete(Empty)
<1>1. /\ Empty.asked = <<>>
      /\ Empty.shown = {}
      /\ Empty.cur = 0
    BY DEF Empty
<1>2. <<>> \in Seq(LineItems) /\ 1 .. Len(<<>>) = {}
    OBVIOUS
<1> QED
    BY <1>1, <1>2, EmptyInBounds, FullLengthOfNothing DEF Complete

\* The constructor puts the string of the thread in front.
LEMMA TimeInFrontFaithful ==
    ASSUME last_time_string' \in Seconds
    PROVE  Faithful(TimeInFront, last_time_string')
<1> DEFINE time == Text(last_time_string', Width["time"])
<1>1. time \in LineItems
    BY PartsInLine
<1>2. Insert(Empty, time).asked = Append(<<>>, time)
    BY EmptyInBounds, InsertFields DEF Empty
<1>3. Append(<<>>, time) # <<>> /\ Append(<<>>, time)[1] = time
    OBVIOUS
<1>4. time.what = last_time_string'
    BY DEF Text
<1> HIDE DEF time
<1>5. Faithful(Insert(Empty, time), last_time_string')
    BY <1>1, <1>2, <1>3, <1>4, EmptyComplete, InsertComplete DEF Faithful, Starts
<1>6. Named("micros") \in LineItems /\ Integer(ThreadId) \in LineItems
    BY PartsInLine DEF Names
<1> QED
    BY <1>5, <1>6, InsertFaithful DEF TimeInFront, time

LEMMA ChainsFaithful ==
    ASSUME NEW second, NEW s, Faithful(s, second)
    PROVE  /\ Faithful(WithLevel(s), second)
           /\ Faithful(WithFunc(s), second)
           /\ Faithful(WithError(s), second)
           /\ Faithful(WithEnd(s), second)
<1>1. /\ Named("level") \in LineItems
      /\ Named("func") \in LineItems
      /\ Named("error") \in LineItems
      /\ Named("errno") \in LineItems
      /\ Named("dash") \in LineItems
      /\ Named("file") \in LineItems
    BY PartsInLine DEF Names
<1>2. /\ Char("[") \in LineItems
      /\ Char(":") \in LineItems
      /\ Char("\n") \in LineItems
      /\ Text("] ", 2) \in LineItems
      /\ Text(") ", 2) \in LineItems
    BY PartsInLine DEF Marks
<1>3. Integer(Errno) \in LineItems /\ Integer(LineNumber) \in LineItems
    BY PartsInLine
<1>4. Faithful(WithLevel(s), second)
    BY <1>1, InsertFaithful DEF WithLevel
<1>5. Faithful(WithFunc(s), second)
    BY <1>1, <1>2, InsertFaithful DEF WithFunc
<1>6. Faithful(WithError(s), second)
    BY <1>1, <1>2, <1>3, InsertFaithful DEF WithError
<1>7. Faithful(WithEnd(s), second)
    BY <1>1, <1>2, <1>3, InsertFaithful DEF WithEnd
<1> QED
    BY <1>4, <1>5, <1>6, <1>7

\* A newline that finds no room leaves the last byte alone.
LEMMA NewlineEnds ==
    ASSUME NEW s, Complete(s)
    PROVE  Ended(Insert(s, Char("\n")))
<1> DEFINE item == Char("\n")
           t == Insert(s, item)
<1>1. item.by = "Append" /\ item.len = 1
    BY DEF Char, Text
<1>2. StreamInBounds(s) /\ s.asked \in Seq(LineItems)
    BY DEF Complete
<1>3. /\ t.asked = Append(s.asked, item)
      /\ MayAppend(s, 1) => t.shown = s.shown \cup {Len(s.asked) + 1}
      /\ ~MayAppend(s, 1) => t.cur = s.cur
    BY <1>1, <1>2, InsertFields
<1>4. Len(t.asked) = Len(s.asked) + 1
    BY <1>2, <1>3
<1>5. ~MayAppend(s, 1) => s.cur = SIZE - 1
    BY <1>2, LogStreamAssumption DEF MayAppend, Avail, StreamInBounds, InBounds
<1> HIDE DEF t
<1>6. Ended(t)
    BY <1>3, <1>4, <1>5 DEF Ended
<1> QED
    BY <1>6 DEF t

LEMMA WithEndEnds ==
    ASSUME NEW second, NEW s, Faithful(s, second)
    PROVE  Ended(WithEnd(s))
<1>1. /\ Named("dash") \in LineItems
      /\ Named("file") \in LineItems
      /\ Char(":") \in LineItems
      /\ Integer(LineNumber) \in LineItems
    BY PartsInLine DEF Names, Marks
<1> QED
    BY <1>1, InsertFaithful, NewlineEnds DEF WithEnd, Faithful

-----------------------------------------------------------------------------
(* The invariant.                                                            *)

Loggers == [level : Levels, date : Seconds, items : Nat,
            phase : {"open", "output", "flush"}]

\* The string that is put in front is the one of the second that was formatted
\* last, whatever the clock did in between.
IInv ==
    /\ now \in Seconds
    /\ last_time_string = last_second
    /\ Complete(log_stream_)
    /\ logger # NoLogger =>
         /\ logger \in Loggers
         /\ Starts(log_stream_, logger.date)
         /\ logger.phase # "open" => Ended(log_stream_)

LEMMA ConstructIInv ==
    ASSUME IInv, NEW level \in Levels, NEW header, Construct(level, header),
           Faithful(TimeInFront, last_time_string')
             => Faithful(header, last_time_string')
    PROVE  IInv'
<1>1. now' = now /\ now \in Seconds
    BY DEF IInv, Construct
<1>2. last_time_string' = now /\ last_second' = now
    BY DEF IInv, Construct, FormatTime, SecondChanged
<1>3. Faithful(header, now)
    BY <1>1, <1>2, TimeInFrontFaithful
<1>4. logger' = [level |-> level, date |-> now, items |-> 0, phase |-> "open"]
      /\ log_stream_' = header
    BY DEF Construct
<1>5. /\ logger' \in Loggers
      /\ logger'.date = now
      /\ logger'.phase = "open"
    BY <1>1, <1>4 DEF Loggers
<1>6. Complete(log_stream_') /\ Starts(log_stream_', logger'.date)
    BY <1>3, <1>4, <1>5 DEF Faithful
<1> QED
    BY <1>1, <1>2, <1>5, <1>6 DEF IInv, Complete, Starts, Ended, StreamInBounds,
       InBounds

LEMMA InsertItemIInv ==
    ASSUME IInv, NEW item \in Items, InsertItem(item)
    PROVE  IInv'
<1>1. logger # NoLogger /\ logger \in Loggers /\ logger.phase = "open"
      /\ Faithful(log_stream_, logger.date)
    BY DEF IInv, InsertItem, Faithful
<1>2. logger' = [logger EXCEPT !.items = @ + 1]
    BY DEF InsertItem
<1>3. logger' \in Loggers /\ logger'.date = logger.date /\ logger'.phase = "open"
    BY <1>1, <1>2 DEF Loggers
<1>4. log_stream_' = Insert(log_stream_, item) /\ item \in LineItems
    BY DEF InsertItem, LineItems
<1>5. Faithful(log_stream_', logger'.date)
    BY <1>1, <1>3, <1>4, InsertFaithful
<1>6. now' \in Seconds /\ last_time_string' = last_second'
    BY DEF IInv, InsertItem
<1> QED
    BY <1>3, <1>5, <1>6 DEF IInv, Faithful, Complete, Starts, Ended,
       StreamInBounds, InBounds

LEMMA EndLineIInv ==
    ASSUME IInv, EndLine
    PROVE  IInv'
<1>1. logger # NoLogger /\ logger \in Loggers
      /\ Faithful(log_stream_, logger.date)
    BY DEF IInv, EndLine, Faithful
<1>2. logger' = [logger EXCEPT !.phase = "output"]
    BY DEF EndLine
<1>3. logger' \in Loggers /\ logger'.date = logger.date
    BY <1>1, <1>2 DEF Loggers
<1>4. log_stream_' = WithEnd(log_stream_)
    BY DEF EndLine
<1>5. Faithful(log_stream_', logger'.date) /\ Ended(log_stream_')
    BY <1>1, <1>3, <1>4, ChainsFaithful, WithEndEnds
<1>6. now' \in Seconds /\ last_time_string' = last_second'
    BY DEF IInv, EndLine
<1> QED
    BY <1>3, <1>5, <1>6 DEF IInv, Faithful, Complete, Starts, Ended,
       StreamInBounds, InBounds

\* The steps that hand the line over.
LEMMA HandOverIInv ==
    ASSUME IInv, Output \/ Flush
    PROVE  IInv'
<1>1. now' \in Seconds /\ last_time_string' = last_second'
    BY DEF IInv, Output, Flush
<1>2. CASE Gone
  <2>1. logger' = NoLogger /\ Complete(log_stream_')
      BY <1>2, EmptyComplete DEF Gone
  <2> QED
      BY <1>1, <2>1 DEF IInv, Complete, StreamInBounds, InBounds
<1>3. CASE ~Gone
  <2>1. /\ logger # NoLogger
        /\ logger.phase = "output"
        /\ logger' = [logger EXCEPT !.phase = "flush"]
        /\ log_stream_' = log_stream_
      BY <1>3 DEF Output, Flush
  <2>2. logger \in Loggers /\ Starts(log_stream_, logger.date)
        /\ Ended(log_stream_) /\ Complete(log_stream_)
      BY <2>1 DEF IInv
  <2>3. logger' \in Loggers /\ logger'.date = logger.date
      BY <2>1, <2>2 DEF Loggers
  <2> QED
      BY <1>1, <2>1, <2>2, <2>3 DEF IInv, Complete, Starts, Ended,
         StreamInBounds, InBounds
<1> QED
    BY <1>2, <1>3

LEMMA OthersIInv ==
    ASSUME IInv, NEW level, NEW second \in Seconds,
           SetLogLevel(level) \/ ClockMoves(second) \/ UNCHANGED vars
    PROVE  IInv'
<1>1. /\ now' \in Seconds
      /\ last_time_string' = last_second'
      /\ logger' = logger
      /\ log_stream_' = log_stream_
    BY DEF IInv, SetLogLevel, ClockMoves, vars
<1> QED
    BY <1>1 DEF IInv, Complete, Starts, Ended, StreamInBounds, InBounds

LEMMA NextIInv ==
    ASSUME IInv, [Next]_vars
    PROVE  IInv'
<1>1. ASSUME NEW level \in Levels, LogAt(level)
      PROVE  IInv'
  <2>1. \E header \in {WithFunc(WithLevel(TimeInFront)), WithLevel(TimeInFront)} :
          Construct(level, header)
      BY <1>1 DEF LogAt
  <2> QED
      BY <2>1, ConstructIInv, ChainsFaithful
<1>2. ASSUME LogSysErr
      PROVE  IInv'
  <2>1. \E header \in {WithError(WithLevel(TimeInFront)), TimeInFront} :
          Construct(FATAL, header)
      BY <1>2 DEF LogSysErr
  <2>2. FATAL \in Levels
      BY DEF FATAL, Levels, TRACE
  <2> QED
      BY <2>1, <2>2, ConstructIInv, ChainsFaithful
<1>3. now \in Seconds
    BY DEF IInv
<1> QED
    BY <1>1, <1>2, <1>3, InsertItemIInv, EndLineIInv, HandOverIInv, OthersIInv
       DEF Next

LEMMA InitIInv == Init => IInv
BY EmptyComplete DEF Init, IInv

\* Whatever a LOG_ statement inserts, log_stream.cc writes within the array, and
\* a byte is left for a terminator.
THEOREM LinesStayInBounds == Spec => []LineInBounds
<1>1. IInv => LineInBounds
    BY DEF IInv, Complete, StreamInBounds, InBounds, LineInBounds
<1> QED
    BY <1>1, InitIInv, NextIInv, PTL DEF Spec

\* A line shows the time of its statement (logger.cc's cached string), integers
\* as their values (log_stream.cc's Convert), everything if there is room for it
\* and one number more, and its newline if a byte is left for it.
THEOREM LinesAreFaithful == Spec => []LineFaithful
<1>1. ASSUME IInv, logger # NoLogger
      PROVE  /\ log_stream_.asked[1].what = logger.date
             /\ \A i \in log_stream_.shown :
                  log_stream_.asked[i].by = "FormatInteger" =>
                    Denoted(log_stream_.asked[i].text) = log_stream_.asked[i].what
             /\ FullLength(log_stream_.asked) + kMaxNumericSize <= SIZE
                  => log_stream_.shown = DOMAIN log_stream_.asked
             /\ logger.phase # "open" =>
                  Len(log_stream_.asked) \in log_stream_.shown
                    \/ log_stream_.cur = SIZE - 1
  <2> DEFINE s == log_stream_
  <2>1. Complete(s) /\ Starts(s, logger.date)
        /\ (logger.phase # "open" => Ended(s))
      BY <1>1 DEF IInv
  <2>2. ASSUME NEW i \in s.shown, s.asked[i].by = "FormatInteger"
        PROVE  Denoted(s.asked[i].text) = s.asked[i].what
    <3> DEFINE item == s.asked[i]
    <3>1. item \in LineItems
        BY <2>1 DEF Complete
    <3>2. item.what \in Int /\ item = Integer(item.what)
        BY <2>2, <3>1, LineItemsWellFormed DEF WellFormed
    <3>3. item.text = Convert(item.what)
      <4>1. \A v : Integer(v).text = Convert(v)
          BY DEF Integer
      <4> QED
          BY <3>2, <4>1
    <3> QED
        BY <3>2, <3>3, ConvertDenotes
  <2>3. DOMAIN s.asked = 1 .. Len(s.asked)
      BY <2>1 DEF Complete
  <2> HIDE DEF s
  <2>4. /\ s.asked[1].what = logger.date
        /\ FullLength(s.asked) + kMaxNumericSize <= SIZE
             => s.shown = DOMAIN s.asked
        /\ logger.phase # "open" => Len(s.asked) \in s.shown \/ s.cur = SIZE - 1
      BY <2>1, <2>3 DEF Complete, Starts, Ended
  <2> QED
      BY <2>2, <2>4 DEF s
<1>2. IInv => LineFaithful
    BY <1>1 DEF LineFaithful
<1> QED
    BY <1>2, InitIInv, NextIInv, PTL DEF Spec

=============================================================================
