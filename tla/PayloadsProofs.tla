--------------------------- MODULE PayloadsProofs ---------------------------
(***************************************************************************)
(* Theorems about data on its way through the library, for all filter      *)
(* maps, answers and damaged messages.  The operators of the codec and of  *)
(* the conversions are recursive functions; each is shown to exist and to  *)
(* satisfy its equation (FromCharsIs, FlattenSeqIs, InOrderIs, ...) before *)
(* anything is proved of it.                                               *)
(***************************************************************************)
EXTENDS Payloads, SequenceTheorems, FiniteSetTheorems, WellFoundedInduction, TLAPS

-----------------------------------------------------------------------------
(***************************************************************************)
(* Numbers and recursion.                                                  *)
(***************************************************************************)
\* Every set of numbers that is not empty has a least one.
LEMMA LeastNumber ==
  ASSUME NEW T, T \subseteq Nat, T # {}
  PROVE  \E m \in T : \A n \in T : m <= n
<1>1. IsWellFoundedOn(OpToRel(<,Nat), Nat)
  BY NatLessThanWellFounded
<1>2. \E m \in T : \A n \in T : ~ (<<n, m>> \in OpToRel(<,Nat))
  BY <1>1, WFMin
<1>3. \A m, n \in Nat : n < m => <<n, m>> \in OpToRel(<,Nat)
  BY DEF OpToRel
<1>4. PICK m \in T : \A n \in T : ~(n < m)
  BY <1>2, <1>3
<1> QED
  BY <1>4

\* Induction, for a set of numbers.
LEMMA Induction ==
  ASSUME NEW S, 0 \in S, \A n \in Nat : n \in S => n + 1 \in S
  PROVE  \A n \in Nat : n \in S
<1> SUFFICES ASSUME Nat \ S # {} PROVE FALSE
  OBVIOUS
<1>1. PICK m \in Nat \ S : \A n \in Nat \ S : m <= n
  BY LeastNumber
<1>2. m - 1 \in Nat /\ m - 1 \in S
  BY <1>1
<1> QED
  BY <1>1, <1>2

\* The same up to a bound.
LEMMA BoundedInduction ==
  ASSUME NEW S, NEW n \in Nat, 0 \in S,
         \A i \in 1..n : i - 1 \in S => i \in S
  PROVE  \A i \in 0..n : i \in S
<1> DEFINE T == {i \in Nat : i <= n => i \in S}
<1>1. 0 \in T
  OBVIOUS
<1>2. ASSUME NEW i \in Nat, i \in T PROVE i + 1 \in T
  <2>1. CASE i + 1 <= n
    <3>1. i + 1 \in 1..n /\ (i + 1) - 1 = i /\ i <= n
      BY <2>1
    <3>2. i \in S
      BY <3>1, <1>2
    <3> QED BY <3>1, <3>2
  <2> QED BY <2>1
<1>3. \A i \in Nat : i \in T
  <2> HIDE DEF T
  <2> QED BY <1>1, <1>2, Induction
<1> QED BY <1>3

\* f follows the step from base on, n times.
Follows(f, n, base, step) ==
  f[0] = base /\ \A i \in 1..n : f[i] = step[i][f[i - 1]]

\* Every step leads from a value of V to one of V.
Maps(step, V) == \A i \in Nat, v \in V : step[i][v] \in V

\* A function that follows such a step exists.
LEMMA Recursion ==
  ASSUME NEW V, NEW base \in V, NEW step, Maps(step, V), NEW k \in Nat
  PROVE  \E f \in [0..k -> V] : Follows(f, k, base, step)
<1> DEFINE S == {n \in Nat : \E f \in [0..n -> V] : Follows(f, n, base, step)}
<1>1. 0 \in S
  <2> DEFINE f == [i \in 0..0 |-> base]
  <2>1. f \in [0..0 -> V] /\ Follows(f, 0, base, step)
    BY DEF Follows
  <2> HIDE DEF f
  <2> QED BY <2>1
<1>2. ASSUME NEW n \in Nat, n \in S PROVE n + 1 \in S
  <2>1. PICK f \in [0..n -> V] : Follows(f, n, base, step)
    BY <1>2
  <2> DEFINE g == [i \in 0..(n + 1) |-> IF i = n + 1 THEN step[n + 1][f[n]] ELSE f[i]]
  <2>2. \A i \in 0..n : i \in 0..(n + 1) /\ i # n + 1 /\ g[i] = f[i]
    OBVIOUS
  <2>3. n + 1 \in 0..(n + 1) /\ g[n + 1] = step[n + 1][f[n]]
    OBVIOUS
  <2>4. n \in 0..n /\ f[n] \in V /\ step[n + 1][f[n]] \in V
    BY <2>1 DEF Maps
  <2>5. g[n + 1] \in V
    BY <2>3, <2>4
  <2>6. g \in [0..(n + 1) -> V]
    <3>1. \A i \in 0..(n + 1) : (IF i = n + 1 THEN step[n + 1][f[n]] ELSE f[i]) \in V
      BY <2>1, <2>4
    <3> QED BY <3>1
  <2>7. ASSUME NEW i \in 1..(n + 1) PROVE g[i] = step[i][g[i - 1]]
    <3> HIDE DEF g
    <3>1. CASE i = n + 1
      BY <3>1, <2>2, <2>3, <2>4
    <3>2. CASE i # n + 1
      <4>1. i \in 0..n /\ i - 1 \in 0..n /\ i \in 1..n
        BY <3>2
      <4> QED BY <4>1, <2>1, <2>2 DEF Follows
    <3> QED BY <3>1, <3>2
  <2>8. g[0] = base
    BY <2>1, <2>2 DEF Follows
  <2> HIDE DEF g
  <2>9. Follows(g, n + 1, base, step)
    BY <2>7, <2>8 DEF Follows
  <2> QED BY <2>6, <2>9
<1>3. \A n \in Nat : n \in S
  <2> HIDE DEF S
  <2> QED BY <1>1, <1>2, Induction
<1> QED BY <1>3

-----------------------------------------------------------------------------
(***************************************************************************)
(* Numbers as texts.                                                       *)
(***************************************************************************)
\* The bytes of a text.
LEMMA TextBytes ==
  ASSUME NEW text \in Text
  PROVE  /\ Len(text) \in Nat /\ DOMAIN text = 1..Len(text)
         /\ \A i \in 1..Len(text) : text[i] \in 0..255
<1> DEFINE B == 0..255
<1>1. text \in Seq(B)
  BY DEF Text
<1> HIDE DEF B
<1>2. Len(text) \in Nat /\ text \in [1..Len(text) -> B]
  BY <1>1, LenProperties
<1>3. \A i \in 1..Len(text) : text[i] \in B
  BY <1>2
<1> QED BY <1>2, <1>3 DEF B

\* One more digit.
Shift(v, c) ==
  IF 10 * v + c - 48 > TooLarge THEN TooLarge ELSE 10 * v + c - 48

\* f[n] is the number the first n bytes of the text stand for.
ByDigits(f, text) ==
  /\ f \in [0..Len(text) -> Int]
  /\ f[0] = 0
  /\ \A i \in 1..Len(text) : f[i] = Shift(f[i - 1], text[i])

\* FromChars is the last value of such a function.
LEMMA FromCharsIs ==
  ASSUME NEW text \in Text
  PROVE  \E f : ByDigits(f, text) /\ FromChars(text) = f[Len(text)]
<1> DEFINE n == Len(text)
           step == [i \in Nat |-> [v \in Int |->
                      IF i \in 1..n THEN Shift(v, text[i]) ELSE 0]]
           Defines(f) == f = [i \in 0..n |->
                                IF i = 0 THEN 0
                                ELSE IF 10 * f[i - 1] + text[i] - 48 > TooLarge
                                THEN TooLarge ELSE 10 * f[i - 1] + text[i] - 48]
           value == CHOOSE f : Defines(f)
<1>1. n \in Nat /\ \A i \in 1..n : text[i] \in Int
  <2>1. \A c \in 0..255 : c \in Int
    OBVIOUS
  <2> HIDE DEF Defines, step
  <2> QED BY <2>1, TextBytes
<1>2. \A i \in Nat, v \in Int : (IF i \in 1..n THEN Shift(v, text[i]) ELSE 0) \in Int
  <2> HIDE DEF n
  <2> QED BY <1>1 DEF Shift, TooLarge
<1>3. Maps(step, Int) /\ 0 \in Int
  <2> HIDE DEF n
  <2> QED BY <1>2 DEF Maps
<1>4. PICK f \in [0..n -> Int] : Follows(f, n, 0, step)
  <2> HIDE DEF n, step
  <2> QED BY <1>1, <1>3, Recursion
<1>5. \A i \in 1..n : f[i] = Shift(f[i - 1], text[i])
  <2> TAKE i \in 1..n
  <2>1. i \in Nat /\ f[i - 1] \in Int
    BY <1>1
  <2>2. f[i] = step[i][f[i - 1]]
    BY <1>4 DEF Follows
  <2> QED BY <2>1, <2>2
<1>6. Defines(f)
  <2>1. f = [i \in 0..n |-> f[i]]
    BY <1>4
  <2>2. ASSUME NEW i \in 0..n
        PROVE  f[i] = IF i = 0 THEN 0
                      ELSE IF 10 * f[i - 1] + text[i] - 48 > TooLarge
                      THEN TooLarge ELSE 10 * f[i - 1] + text[i] - 48
    <3>1. CASE i = 0
      BY <3>1, <1>4 DEF Follows
    <3>2. CASE i # 0
      BY <3>2, <1>1, <1>5 DEF Shift
    <3> QED BY <3>1, <3>2
  <2> HIDE DEF n
  <2> QED BY <2>1, <2>2
<1>7. Defines(value)
  <2> HIDE DEF Defines
  <2> QED BY <1>6
<1>8. FromChars(text) = value[n]
  BY DEF FromChars
<1> HIDE DEF value
<1>9. ASSUME NEW i \in 0..n
      PROVE  value[i] = IF i = 0 THEN 0 ELSE Shift(value[i - 1], text[i])
  BY <1>7 DEF Shift
<1>10. \A i \in 0..n : i \in {j \in 0..n : value[j] = f[j]}
  <2> DEFINE S == {j \in 0..n : value[j] = f[j]}
  <2>1. 0 \in S
    BY <1>1, <1>4, <1>9 DEF Follows
  <2>2. ASSUME NEW i \in 1..n, i - 1 \in S PROVE i \in S
    BY <2>2, <1>1, <1>5, <1>9
  <2> HIDE DEF S, n
  <2> QED BY <1>1, <2>1, <2>2, BoundedInduction DEF S
<1>11. value[n] = f[n]
  BY <1>1, <1>10
<1> QED BY <1>1, <1>4, <1>5, <1>8, <1>11 DEF ByDigits, Follows

\* Two such functions are one.
LEMMA ByDigitsUnique ==
  ASSUME NEW text, Len(text) \in Nat, NEW f, NEW g, ByDigits(f, text),
         ByDigits(g, text)
  PROVE  f[Len(text)] = g[Len(text)]
<1> DEFINE n == Len(text)
           S == {j \in 0..n : g[j] = f[j]}
<1>1. 0 \in S
  BY DEF ByDigits
<1>2. ASSUME NEW i \in 1..n, i - 1 \in S PROVE i \in S
  BY <1>2 DEF ByDigits
<1>3. \A i \in 0..n : i \in S
  <2> HIDE DEF S, n
  <2>1. n \in Nat
    BY DEF n
  <2> QED BY <2>1, <1>1, <1>2, BoundedInduction
<1> QED BY <1>3

\* A digit more, and the first one.
LEMMA FromCharsAppend ==
  ASSUME NEW s \in Text, NEW c \in 0..255
  PROVE  /\ FromChars(s) \in Int
         /\ FromChars(Append(s, c)) = Shift(FromChars(s), c)
<1> DEFINE n == Len(s)
           t == Append(s, c)
<1>1. PICK f : ByDigits(f, s) /\ FromChars(s) = f[n]
  BY FromCharsIs
<1>2. t \in Text /\ Len(t) = n + 1 /\ n \in Nat /\ t[n + 1] = c
      /\ \A i \in 1..n : t[i] = s[i]
  BY AppendProperties DEF Text
<1>3. PICK g : ByDigits(g, t) /\ FromChars(t) = g[n + 1]
  BY <1>2, FromCharsIs
<1> HIDE DEF t
<1> DEFINE h == [i \in 0..n |-> g[i]]
<1>4. ByDigits(h, s)
  <2>1. \A i \in 0..n : i \in 0..(n + 1) /\ g[i] \in Int
    BY <1>2, <1>3 DEF ByDigits
  <2>2. h \in [0..n -> Int] /\ h[0] = 0
    BY <2>1, <1>2, <1>3 DEF ByDigits
  <2>3. ASSUME NEW i \in 1..n PROVE h[i] = Shift(h[i - 1], s[i])
    <3>1. i \in 1..(n + 1) /\ i \in 0..n /\ i - 1 \in 0..n
      BY <1>2
    <3>2. g[i] = Shift(g[i - 1], t[i])
      BY <3>1, <1>2, <1>3 DEF ByDigits
    <3> QED BY <3>1, <3>2, <1>2
  <2> HIDE DEF h
  <2> QED BY <2>2, <2>3 DEF ByDigits
<1>5. h[n] = f[n]
  <2> HIDE DEF h
  <2> QED BY <1>1, <1>2, <1>4, ByDigitsUnique
<1>6. g[n] = f[n] /\ g[n + 1] = Shift(g[n], c) /\ f[n] \in Int
  <2>1. n + 1 \in 1..(n + 1) /\ (n + 1) - 1 = n /\ n \in 0..n
    BY <1>2
  <2>2. g[n + 1] = Shift(g[n], t[n + 1])
    BY <2>1, <1>2, <1>3 DEF ByDigits
  <2> QED BY <2>1, <2>2, <1>1, <1>2, <1>5 DEF ByDigits
<1> QED BY <1>1, <1>3, <1>6 DEF t

\* A text of one byte.
LEMMA OneByte ==
  ASSUME NEW c \in 0..255
  PROVE  /\ <<c>> \in Text /\ Len(<<c>>) = 1 /\ <<c>>[1] = c /\ <<>> \in Text
         /\ <<c>> = Append(<<>>, c)
  BY DEF Text

\* Leaving the last digit off.
LEMMA DivTen ==
  ASSUME NEW m \in Nat, m >= 10
  PROVE  /\ m \div 10 \in Nat /\ m \div 10 < m /\ m % 10 \in 0..9
         /\ m = 10 * (m \div 10) + (m % 10)
  OBVIOUS

\* f gives the digits of the numbers up to n.
DigitsUpTo(f, n) ==
  \A m \in 0..n :
    f[m] = IF m < 10 THEN <<48 + m>> ELSE Append(f[m \div 10], 48 + (m % 10))

\* There is such a function.
LEMMA DigitsExist ==
  ASSUME NEW k \in Nat
  PROVE  \E f : DOMAIN f = 0..k /\ f = [m \in 0..k |-> f[m]] /\ DigitsUpTo(f, k)
<1> DEFINE Good(f, n) == DOMAIN f = 0..n /\ f = [m \in 0..n |-> f[m]] /\ DigitsUpTo(f, n)
           S == {n \in Nat : \E f : Good(f, n)}
<1>1. 0 \in S
  <2> DEFINE f == [i \in 0..0 |-> <<48 + i>>]
  <2>1. DOMAIN f = 0..0 /\ f = [m \in 0..0 |-> f[m]]
    OBVIOUS
  <2>2. DigitsUpTo(f, 0)
    BY DEF DigitsUpTo
  <2> HIDE DEF f
  <2> QED BY <2>1, <2>2
<1>2. ASSUME NEW n \in Nat, n \in S PROVE n + 1 \in S
  <2>1. PICK f : Good(f, n)
    BY <1>2
  <2> DEFINE m == n + 1
             next == IF m < 10 THEN <<48 + m>> ELSE Append(f[m \div 10], 48 + (m % 10))
             g == [i \in 0..m |-> IF i = m THEN next ELSE f[i]]
  <2>2. \A i \in 0..n : i \in 0..m /\ i # m
    OBVIOUS
  <2>3. \A i \in 0..n : g[i] = f[i]
    BY <2>2
  <2>4. g[m] = next /\ DOMAIN g = 0..m /\ g = [i \in 0..m |-> g[i]]
    OBVIOUS
  <2>5. \A i \in 0..m : i >= 10 => i \div 10 \in 0..n
    <3> TAKE i \in 0..m
    <3>1. i \in Nat /\ i <= n + 1
      OBVIOUS
    <3> HIDE DEF m
    <3> QED BY <3>1, DivTen
  <2>6. ASSUME NEW i \in 0..m
        PROVE  g[i] = IF i < 10 THEN <<48 + i>> ELSE Append(g[i \div 10], 48 + (i % 10))
    <3> HIDE DEF g
    <3>1. CASE i = m
      <4>1. m >= 10 => g[m \div 10] = f[m \div 10]
        BY <2>3, <2>5, <3>1
      <4>2. m >= 10 \/ m < 10
        OBVIOUS
      <4>3. m \in Int
        OBVIOUS
      <4> HIDE DEF m
      <4> QED BY <4>1, <4>2, <4>3, <2>4, <3>1 DEF next
    <3>2. CASE i # m
      <4>1. i \in 0..n
        BY <3>2
      <4>2. i >= 10 => g[i \div 10] = f[i \div 10]
        BY <2>3, <2>5
      <4>3. f[i] = IF i < 10 THEN <<48 + i>> ELSE Append(f[i \div 10], 48 + (i % 10))
        BY <2>1, <4>1 DEF DigitsUpTo
      <4>4. i \in Int
        OBVIOUS
      <4> QED BY <4>1, <4>2, <4>3, <4>4, <2>3
    <3> QED BY <3>1, <3>2
  <2> HIDE DEF g, next
  <2>7. DigitsUpTo(g, m)
    BY <2>6 DEF DigitsUpTo
  <2>8. Good(g, n + 1)
    BY <2>4, <2>7
  <2> HIDE DEF Good
  <2> QED BY <2>8
<1>3. \A n \in Nat : n \in S
  <2> HIDE DEF S
  <2> QED BY <1>1, <1>2, Induction
<1> QED BY <1>3

\* A number of two digits or more has fewer than it counts.
Short(m, digits) == m >= 10 => Len(digits) <= m - 1

\* Digits are a text, not a long one, and stand for the number as far as it counts.
LEMMA DigitsRight ==
  ASSUME NEW k \in Nat, NEW f, DigitsUpTo(f, k)
  PROVE  \A m \in 0..k :
           /\ f[m] \in Text /\ IsNumber(f[m]) /\ Len(f[m]) <= m + 1
           /\ Short(m, f[m])
           /\ FromChars(f[m]) = IF m > TooLarge THEN TooLarge ELSE m
<1> DEFINE Right(m) == /\ f[m] \in Text /\ IsNumber(f[m]) /\ Len(f[m]) <= m + 1
                       /\ Short(m, f[m])
                       /\ FromChars(f[m]) = IF m > TooLarge THEN TooLarge ELSE m
           T == {m \in 0..k : ~ Right(m)}
<1> SUFFICES ASSUME T # {} PROVE FALSE
  OBVIOUS
<1>1. PICK m \in T : \A i \in T : m <= i
  <2>1. T \subseteq Nat
    OBVIOUS
  <2> HIDE DEF T
  <2> QED BY <2>1, LeastNumber
<1>2. m \in Nat /\ m <= k
  BY <1>1
<1>3. CASE m < 10
  <2> DEFINE c == 48 + m
  <2>1. c \in 0..255 /\ c \in Digits /\ c - 48 = m
    BY <1>2, <1>3 DEF Digits
  <2>2. f[m] = Append(<<>>, c) /\ f[m] = <<c>>
    <3>1. f[m] = <<c>>
      BY <1>2, <1>3 DEF DigitsUpTo
    <3> HIDE DEF c
    <3> QED BY <3>1, <2>1, OneByte
  <2> HIDE DEF c
  <2>3. f[m] \in Text /\ Len(f[m]) = 1 /\ f[m][1] = c /\ <<>> \in Text
    BY <2>1, <2>2, OneByte
  <2>4. IsNumber(f[m])
    BY <2>1, <2>2, <2>3 DEF IsNumber
  <2>5. FromChars(<<>>) = 0
    <3>1. PICK h : ByDigits(h, <<>>) /\ FromChars(<<>>) = h[Len(<<>>)]
      BY <2>3, FromCharsIs
    <3> QED BY <3>1 DEF ByDigits
  <2>6. FromChars(f[m]) = m
    <3>1. FromChars(f[m]) = Shift(FromChars(<<>>), c)
      BY <2>1, <2>2, <2>3, FromCharsAppend, ZenonT(60)
    <3> QED BY <3>1, <2>1, <2>5, <1>2, <1>3 DEF Shift, TooLarge
  <2>7. Right(m)
    BY <2>3, <2>4, <2>6, <1>2, <1>3 DEF TooLarge, Short
  <2> QED BY <2>7, <1>1
<1>4. CASE m >= 10
  <2> DEFINE q == m \div 10
             c == 48 + (m % 10)
             s == f[q]
  <2>1. q \in Nat /\ q < m /\ c \in 48..57 /\ m = 10 * q + (c - 48)
    BY <1>2, <1>4, DivTen
  <2>2. f[m] = Append(s, c)
    <3>1. m \in 0..k /\ ~(m < 10)
      BY <1>2, <1>4
    <3> HIDE DEF T, Right
    <3> QED BY <3>1 DEF DigitsUpTo
  <2>3. Right(q)
    <3>1. q \in 0..k /\ ~ (m <= q)
      <4> HIDE DEF q
      <4> QED BY <2>1, <1>2
    <3> HIDE DEF q, Right
    <3> QED BY <3>1, <1>1
  <2> HIDE DEF q, c
  <2>4. s \in Text /\ IsNumber(s) /\ Len(s) <= q + 1
        /\ FromChars(s) = IF q > TooLarge THEN TooLarge ELSE q
    BY <2>3
  <2> HIDE DEF s, Right
  <2>5. c \in 0..255 /\ c \in Digits
    BY <2>1 DEF Digits
  <2>6. /\ f[m] \in Text /\ f[m] # <<>> /\ Len(f[m]) = Len(s) + 1 /\ f[m][Len(s) + 1] = c
        /\ \A i \in 1..Len(s) : f[m][i] = s[i]
    BY <2>2, <2>4, <2>5, AppendProperties DEF Text
  <2>7. Len(s) \in Nat /\ DOMAIN s = 1..Len(s) /\ DOMAIN f[m] = 1..Len(f[m])
    BY <2>4, <2>6, TextBytes
  <2>8. IsNumber(f[m])
    <3>1. ASSUME NEW i \in 1..(Len(s) + 1) PROVE f[m][i] \in Digits
      <4>1. CASE i = Len(s) + 1
        BY <4>1, <2>5, <2>6
      <4>2. CASE i # Len(s) + 1
        <5>1. i \in 1..Len(s)
          BY <4>2, <2>7
        <5> QED BY <5>1, <2>4, <2>6, <2>7 DEF IsNumber
      <4> QED BY <4>1, <4>2
    <3> QED BY <3>1, <2>6, <2>7 DEF IsNumber
  <2>9. FromChars(f[m]) = IF m > TooLarge THEN TooLarge ELSE m
    <3>1. FromChars(f[m]) = Shift(FromChars(s), c)
      BY <2>2, <2>4, <2>5, FromCharsAppend
    <3>2. CASE q > TooLarge
      BY <3>1, <3>2, <2>1, <2>4 DEF Shift, TooLarge
    <3>3. CASE q <= TooLarge
      <4>1. FromChars(s) = q
        BY <3>3, <2>1, <2>4 DEF TooLarge
      <4>2. Shift(q, c) = IF m > TooLarge THEN TooLarge ELSE m
        <5>1. 10 * q + c - 48 = m
          BY <2>1
        <5> QED BY <5>1 DEF Shift
      <4> QED BY <3>1, <4>1, <4>2
    <3> QED BY <3>2, <3>3, <2>1 DEF TooLarge
  <2>10. Len(f[m]) <= m + 1
    BY <2>1, <2>4, <2>6, <2>7
  <2>12. Short(m, f[m])
    <3>1. q + 2 <= m - 1
      BY <2>1, <1>4
    <3>2. Len(f[m]) <= q + 2
      BY <2>1, <2>4, <2>6, <2>7
    <3>3. Len(f[m]) \in Nat
      BY <2>6, <2>7
    <3> QED BY <3>1, <3>2, <3>3, <2>1, <1>2 DEF Short
  <2>11. Right(m)
    BY <2>6, <2>8, <2>9, <2>10, <2>12 DEF Right
  <2> QED BY <2>11, <1>1
<1> QED BY <1>2, <1>3, <1>4

\* A number that is not negative becomes a text that is read as this number, or as
\* one too large; a negative one becomes a text that no number is read from.
LEMMA DecimalIs ==
  ASSUME NEW n \in Int
  PROVE  /\ Decimal(n) \in Text /\ Len(Decimal(n)) \in Nat
         /\ n >= 0 => /\ IsNumber(Decimal(n)) /\ Len(Decimal(n)) <= n + 1
                      /\ Short(n, Decimal(n))
                      /\ FromChars(Decimal(n)) = IF n > TooLarge THEN TooLarge ELSE n
         /\ n < 0 => /\ Decimal(n)[1] = Minus /\ Len(Decimal(n)) >= 1
                     /\ Len(Decimal(n)) <= 2 - n
                     /\ n <= -10 => Len(Decimal(n)) <= -n
                     /\ \A i \in 2..Len(Decimal(n)) : Decimal(n)[i] \in Digits
<1> DEFINE size == IF n < 0 THEN -n ELSE n
           Defines(f) == f = [m \in 0..size |->
             IF m < 10 THEN <<48 + m>> ELSE Append(f[m \div 10], 48 + (m % 10))]
           digits == CHOOSE f : Defines(f)
<1>1. size \in Nat
  OBVIOUS
<1>2. PICK f : DOMAIN f = 0..size /\ f = [m \in 0..size |-> f[m]] /\ DigitsUpTo(f, size)
  <2> HIDE DEF size
  <2> QED BY <1>1, DigitsExist
<1>3. Defines(f)
  <2> HIDE DEF size
  <2> QED BY <1>2 DEF DigitsUpTo
<1>4. Defines(digits)
  <2> HIDE DEF Defines
  <2> QED BY <1>3
<1>5. Decimal(n) = IF n < 0 THEN <<Minus>> \o digits[size] ELSE digits[size]
  BY DEF Decimal
<1> HIDE DEF digits
<1>6. DigitsUpTo(digits, size)
  <2> HIDE DEF size
  <2> QED BY <1>4 DEF DigitsUpTo
<1> HIDE DEF size, Defines
<1> DEFINE d == digits[size]
<1>7. /\ d \in Text /\ IsNumber(d) /\ Len(d) <= size + 1 /\ Short(size, d)
      /\ FromChars(d) = IF size > TooLarge THEN TooLarge ELSE size
  BY <1>1, <1>6, DigitsRight
<1>8. Len(d) \in Nat /\ DOMAIN d = 1..Len(d)
  BY <1>7, TextBytes
<1> HIDE DEF d
<1>9. CASE n >= 0
  <2>1. Decimal(n) = d /\ size = n
    BY <1>5, <1>9 DEF d, size
  <2> QED BY <2>1, <1>7, <1>8, <1>9
<1>10. CASE n < 0
  <2>1. Decimal(n) = <<Minus>> \o d /\ size = -n
    BY <1>5, <1>10 DEF d, size
  <2>2. <<Minus>> \in Text /\ Len(<<Minus>>) = 1 /\ <<Minus>>[1] = Minus
    BY OneByte DEF Minus
  <2>3. /\ Decimal(n) \in Text /\ Len(Decimal(n)) = 1 + Len(d)
        /\ \A i \in 1..1 + Len(d) :
             Decimal(n)[i] = IF i <= 1 THEN <<Minus>>[i] ELSE d[i - 1]
    BY <2>1, <2>2, <1>7, ConcatProperties DEF Text
  <2>4. \A i \in 2..1 + Len(d) : Decimal(n)[i] \in Digits
    <3> TAKE i \in 2..1 + Len(d)
    <3>1. i - 1 \in 1..Len(d) /\ ~(i <= 1) /\ i \in 1..1 + Len(d)
      BY <1>8
    <3> QED BY <3>1, <2>3, <1>7, <1>8 DEF IsNumber
  <2>5. Decimal(n)[1] = Minus
    BY <2>2, <2>3, <1>8
  <2>6. n <= -10 => Len(Decimal(n)) <= -n
    BY <2>1, <2>3, <1>7, <1>8 DEF Short
  <2> QED BY <2>1, <2>3, <2>4, <2>5, <2>6, <1>7, <1>8, <1>10
<1> QED BY <1>9, <1>10

\* The digits of the smaller numbers do not depend on how far they go.
LEMMA DigitsUnique ==
  ASSUME NEW k \in Nat, NEW l \in Nat, NEW f, NEW g, DigitsUpTo(f, k), DigitsUpTo(g, l)
  PROVE  \A m \in 0..k : m \in 0..l => f[m] = g[m]
<1> DEFINE T == {m \in 0..k : m \in 0..l /\ f[m] # g[m]}
<1> SUFFICES ASSUME T # {} PROVE FALSE
  OBVIOUS
<1>1. PICK m \in T : \A i \in T : m <= i
  <2>1. T \subseteq Nat
    OBVIOUS
  <2> HIDE DEF T
  <2> QED BY <2>1, LeastNumber
<1>2. m \in 0..k /\ m \in 0..l /\ m \in Nat /\ f[m] # g[m]
  BY <1>1
<1>3. CASE m < 10
  <2>1. f[m] = <<48 + m>> /\ g[m] = <<48 + m>>
    BY <1>2, <1>3 DEF DigitsUpTo
  <2> QED BY <2>1, <1>2
<1>4. CASE m >= 10
  <2> DEFINE q == m \div 10
  <2>1. q \in Nat /\ q < m
    BY <1>2, <1>4, DivTen
  <2>2. ~ (m < 10)
    BY <1>2, <1>4
  <2>3. f[m] = Append(f[q], 48 + (m % 10)) /\ g[m] = Append(g[q], 48 + (m % 10))
    BY <1>2, <2>2 DEF DigitsUpTo
  <2> HIDE DEF q
  <2>4. q \in 0..k /\ q \in 0..l /\ ~ (m <= q)
    BY <2>1, <1>2
  <2>5. f[q] = g[q]
    BY <2>4, <1>1
  <2> QED BY <2>3, <2>5, <1>2
<1> QED BY <1>2, <1>3, <1>4

\* The text of a number is made of such digits.
LEMMA DecimalFrom ==
  ASSUME NEW n \in Nat
  PROVE  \E f : DigitsUpTo(f, n) /\ Decimal(n) = f[n]
<1> DEFINE Defines(f) == f = [m \in 0..n |->
             IF m < 10 THEN <<48 + m>> ELSE Append(f[m \div 10], 48 + (m % 10))]
           digits == CHOOSE f : Defines(f)
<1>1. PICK f : DOMAIN f = 0..n /\ f = [m \in 0..n |-> f[m]] /\ DigitsUpTo(f, n)
  BY DigitsExist
<1>2. Defines(f)
  BY <1>1 DEF DigitsUpTo
<1>3. Defines(digits)
  <2> HIDE DEF Defines
  <2> QED BY <1>2
<1>4. ~ (n < 0)
  OBVIOUS
<1>5. Decimal(n) = digits[n]
  BY <1>4 DEF Decimal
<1> HIDE DEF digits
<1>6. DigitsUpTo(digits, n)
  BY <1>3 DEF DigitsUpTo
<1> QED BY <1>5, <1>6

\* Its last digit, behind the text of the number without it.
LEMMA DecimalDigits ==
  ASSUME NEW n \in Nat
  PROVE  /\ n < 10 => Decimal(n) = <<48 + n>>
         /\ n >= 10 => Decimal(n) = Append(Decimal(n \div 10), 48 + (n % 10))
<1>1. PICK f : DigitsUpTo(f, n) /\ Decimal(n) = f[n]
  BY DecimalFrom
<1>2. n \in 0..n
  OBVIOUS
<1>3. CASE n < 10
  <2>1. ~ (n >= 10)
    BY <1>3
  <2>2. f[n] = <<48 + n>>
    BY <1>1, <1>2, <1>3 DEF DigitsUpTo
  <2>3. Decimal(n) = <<48 + n>>
    BY <2>2, <1>1
  <2> QED BY <2>1, <2>3, Zenon
<1>4. CASE n >= 10
  <2> DEFINE q == n \div 10
  <2>1. q \in Nat /\ q < n /\ ~ (n < 10)
    BY <1>4, DivTen
  <2>2. f[n] = Append(f[q], 48 + (n % 10))
    BY <1>1, <1>2, <2>1 DEF DigitsUpTo
  <2> HIDE DEF q
  <2>3. PICK g : DigitsUpTo(g, q) /\ Decimal(q) = g[q]
    BY <2>1, DecimalFrom
  <2>4. q \in 0..n /\ q \in 0..q
    BY <2>1
  <2>5. f[q] = g[q]
    BY <1>1, <2>1, <2>3, <2>4, DigitsUnique
  <2>6. Decimal(n) = Append(Decimal(q), 48 + (n % 10))
    BY <1>1, <2>2, <2>3, <2>5
  <2> QED BY <2>1, <2>6 DEF q
<1> QED BY <1>3, <1>4

\* Digits stand for the number read from them, unless it is too large.
LEMMA NumeralIs ==
  ASSUME NEW text \in Text, IsNumber(text), FromChars(text) < TooLarge
  PROVE  FromChars(text) \in Nat /\ StandsFor(text, FromChars(text))
<1> DEFINE Good(s) == FromChars(s) \in Nat /\ StandsFor(s, FromChars(s))
           Counts(s) == IsNumber(s) /\ FromChars(s) < TooLarge
           S == {n \in Nat : \A s \in Text : Len(s) = n /\ Counts(s) => Good(s)}
<1>1. 0 \in S
  <2>1. \A s \in Text : Len(s) = 0 => s = <<>>
    BY DEF Text
  <2>2. \A s \in Text : Len(s) = 0 => ~ Counts(s)
    BY <2>1 DEF IsNumber
  <2> HIDE DEF Counts
  <2> QED BY <2>2
<1>2. ASSUME NEW n \in Nat, n \in S PROVE n + 1 \in S
  <2>1. ASSUME NEW t \in Text, Len(t) = n + 1, Counts(t) PROVE Good(t)
    <3> DEFINE s == SubSeq(t, 1, n)
               c == t[n + 1]
               q == FromChars(s)
               m == FromChars(t)
    <3>1. /\ s \in Text /\ Len(s) = n /\ t = Append(s, c)
          /\ \A i \in 1..n : s[i] = t[i]
      <4>1. t \in Seq(0..255) /\ t # <<>>
        BY <2>1 DEF Text
      <4> DEFINE B == 0..255
      <4> HIDE DEF B
      <4>2. t \in Seq(B) /\ t # <<>> /\ Len(t) = n + 1
        BY <4>1, <2>1 DEF B
      <4>3. s \in Seq(B) /\ Len(s) = n /\ \A i \in 1..n : s[i] = t[i]
        BY <4>2
      <4>4. t = Append(s, c)
        <5>1. c \in B
          BY <4>2
        <5>2. Append(s, c) \in Seq(B) /\ Len(Append(s, c)) = n + 1
              /\ \A i \in 1..n + 1 : Append(s, c)[i] = IF i = n + 1 THEN c ELSE s[i]
          BY <4>3, <5>1
        <5>3. \A i \in 1..n + 1 : Append(s, c)[i] = t[i]
          BY <5>2, <4>3
        <5> QED BY <5>2, <5>3, <4>2, SeqEqual
      <4> QED BY <4>3, <4>4 DEF Text, B
    <3>2. \A i \in 1..n + 1 : t[i] \in Digits
      <4>1. DOMAIN t = 1..n + 1
        BY <2>1, TextBytes
      <4> QED BY <4>1, <2>1 DEF IsNumber
    <3>3. c \in 48..57 /\ c \in 0..255
      BY <3>2 DEF Digits
    <3> HIDE DEF s, c
    <3>4. q \in Int /\ m = Shift(q, c) /\ m < TooLarge
      BY <3>1, <3>3, <2>1, FromCharsAppend
    <3> HIDE DEF q, m
    <3>5. m = 10 * q + c - 48 /\ q < TooLarge
      BY <3>3, <3>4 DEF Shift, TooLarge
    <3>6. DOMAIN t = 1..n + 1 /\ t[n + 1] = c
      BY <2>1, TextBytes DEF c
    <3>7. ASSUME q = 0, \A i \in 1..n : t[i] = 48 PROVE Good(t)
      <4>1. m \in Nat /\ m < 10 /\ 48 + m = c
        BY <3>3, <3>5, <3>7
      <4>2. Decimal(m) = <<c>> /\ Len(<<c>>) = 1 /\ <<c>>[1] = c
        BY <4>1, DecimalDigits
      <4>3. \A i \in 1..n + 1 : t[i] = IF i <= n THEN 48 ELSE Decimal(m)[i - n]
        BY <4>2, <3>6, <3>7
      <4>4. Len(t) - Len(Decimal(m)) = n
        BY <4>2, <2>1
      <4> QED BY <4>1, <4>3, <4>4, <3>6 DEF StandsFor, m
    <3>8. CASE n = 0
      <4>1. s = <<>>
        BY <3>1, <3>8 DEF Text
      <4>2. q = 0
        <5>1. <<>> \in Text
          BY DEF Text
        <5>2. PICK h : ByDigits(h, <<>>) /\ FromChars(<<>>) = h[Len(<<>>)]
          BY <5>1, FromCharsIs
        <5> QED BY <5>2, <4>1 DEF ByDigits, q
      <4> QED BY <4>2, <3>7, <3>8
    <3>9. CASE n # 0
      <4>1. Counts(s)
        <5>1. s # <<>> /\ DOMAIN s = 1..n
          BY <3>1, <3>9, TextBytes
        <5>2. \A i \in 1..n : s[i] \in Digits
          BY <3>1, <3>2
        <5> QED BY <5>1, <5>2, <3>5 DEF IsNumber, q
      <4>2. q \in Nat /\ StandsFor(s, q)
        BY <4>1, <1>2, <3>1 DEF q
      <4> DEFINE d == Decimal(q)
                 k == n - Len(d)
      <4>3. d \in Text /\ Len(d) \in Nat
        BY <4>2, DecimalIs
      <4>4. k \in Nat /\ \A i \in 1..n : s[i] = IF i <= k THEN 48 ELSE d[i - k]
        <5>1. DOMAIN s = 1..n /\ Len(s) = n
          BY <3>1, TextBytes
        <5>2. /\ n - Len(d) >= 0
              /\ \A i \in 1..n : s[i] = IF i <= n - Len(d) THEN 48 ELSE d[i - (n - Len(d))]
          BY <4>2, <5>1, Zenon DEF StandsFor
        <5> HIDE DEF d
        <5>3. n - Len(d) \in Nat
          BY <4>3, <5>2
        <5> QED BY <5>2, <5>3
      <4>5. CASE q = 0
        <5>1. d = <<48>> /\ Len(<<48>>) = 1 /\ <<48>>[1] = 48
          BY <4>5, DecimalDigits
        <5>2. \A i \in 1..n : t[i] = 48
          BY <5>1, <4>4, <3>1
        <5> QED BY <5>2, <4>5, <3>7
      <4>6. CASE q # 0
        <5>1. m \in Nat /\ m >= 10 /\ m \div 10 = q /\ 48 + (m % 10) = c
          <6>1. PICK b \in 0..9 : c = 48 + b
            BY <3>3
          <6>2. m = 10 * q + b /\ m \in Nat /\ m >= 10
            BY <6>1, <4>2, <4>6, <3>5
          <6>3. \A x \in Nat : \A y \in 0..9 :
                  (10 * x + y) \div 10 = x /\ (10 * x + y) % 10 = y
            BY Z3
          <6>4. m \div 10 = q /\ m % 10 = b
            BY <6>2, <6>3, <4>2
          <6> QED BY <6>1, <6>2, <6>4
        <5>2. Decimal(m) = Append(d, c)
          BY <5>1, DecimalDigits
        <5> HIDE DEF d
        <5>3. /\ Len(Decimal(m)) = Len(d) + 1 /\ Decimal(m)[Len(d) + 1] = c
              /\ \A i \in 1..Len(d) : Decimal(m)[i] = d[i]
          BY <5>2, <4>3, <3>3, AppendProperties DEF Text
        <5>4. Len(t) - Len(Decimal(m)) = k
          BY <5>3, <2>1, <4>3
        <5>5. ASSUME NEW i \in 1..n + 1
              PROVE  t[i] = IF i <= k THEN 48 ELSE Decimal(m)[i - k]
          <6>1. CASE i = n + 1
            <7>1. i - k = Len(d) + 1 /\ ~ (i <= k)
              BY <6>1, <4>3, <4>4
            <7> QED BY <7>1, <6>1, <5>3, <3>6
          <6>2. CASE i # n + 1
            <7>1. i \in 1..n /\ t[i] = s[i]
              BY <6>2, <3>1
            <7>2. ~ (i <= k) => i - k \in 1..Len(d)
              BY <7>1, <4>3, <4>4
            <7> QED BY <7>1, <7>2, <4>4, <5>3
          <6> QED BY <6>1, <6>2
        <5> HIDE DEF k
        <5>6. StandsFor(t, m)
          <6>1. k >= 0 /\ DOMAIN t = 1..n + 1
            BY <4>4, <3>6
          <6>2. \A i \in DOMAIN t : t[i] = IF i <= k THEN 48 ELSE Decimal(m)[i - k]
            BY <5>5, <6>1
          <6> QED BY <5>4, <6>1, <6>2, Zenon DEF StandsFor
        <5> QED BY <5>1, <5>6 DEF m
      <4> QED BY <4>5, <4>6
    <3> QED BY <3>8, <3>9
  <2> HIDE DEF Good, Counts
  <2> QED BY <2>1
<1>3. \A n \in Nat : n \in S
  <2> HIDE DEF S
  <2> QED BY <1>1, <1>2, Induction
<1>4. Len(text) \in Nat
  BY TextBytes
<1>5. Good(text)
  BY <1>3, <1>4
<1> QED BY <1>5

-----------------------------------------------------------------------------
(***************************************************************************)
(* Sequences put one behind the other.                                     *)
(***************************************************************************)
\* f[i] is the first i parts put together.
Joins(f, parts) ==
  /\ f[0] = <<>>
  /\ \A i \in 1..Len(parts) : f[i] = f[i - 1] \o parts[i]

\* FlattenSeq is the last value of such a function.
LEMMA FlattenSeqIs ==
  ASSUME NEW S, NEW parts \in Seq(Seq(S))
  PROVE  \E f \in [0..Len(parts) -> Seq(S)] :
           Joins(f, parts) /\ FlattenSeq(parts) = f[Len(parts)]
<1> DEFINE n == Len(parts)
           V == Seq(S)
           step == [i \in Nat |-> [v \in V |-> IF i \in 1..n THEN v \o parts[i] ELSE v]]
           Defines(f) == f = [i \in 1..n |->
                                IF i = 1 THEN parts[i] ELSE f[i - 1] \o parts[i]]
           flatten == CHOOSE f : Defines(f)
<1>1. n \in Nat /\ \A i \in 1..n : parts[i] \in V
  OBVIOUS
<1>2. \A i \in Nat, v \in V : (IF i \in 1..n THEN v \o parts[i] ELSE v) \in V
  <2>1. \A v, w \in V : v \o w \in V
    BY ConcatProperties
  <2> HIDE DEF n, V
  <2> QED BY <1>1, <2>1
<1>3. Maps(step, V) /\ <<>> \in V
  <2>1. <<>> \in V
    OBVIOUS
  <2> HIDE DEF n, V
  <2> QED BY <1>2, <2>1 DEF Maps
<1>4. PICK f \in [0..n -> V] : Follows(f, n, <<>>, step)
  <2> HIDE DEF n, step, V
  <2> QED BY <1>1, <1>3, Recursion
<1>5. \A i \in 1..n : f[i] = f[i - 1] \o parts[i] /\ f[i - 1] \in V
  <2> TAKE i \in 1..n
  <2>1. i \in Nat /\ i - 1 \in 0..n
    BY <1>1
  <2>2. f[i] = step[i][f[i - 1]] /\ f[i - 1] \in V
    BY <2>1, <1>4 DEF Follows
  <2> HIDE DEF n, V
  <2> QED BY <2>1, <2>2
<1>6. Joins(f, parts)
  BY <1>4, <1>5 DEF Joins, Follows
<1>7. CASE n = 0
  <2>1. parts = <<>>
    BY <1>7
  <2>2. FlattenSeq(parts) = parts
    BY <1>7 DEF FlattenSeq
  <2> QED BY <2>1, <2>2, <1>4, <1>6, <1>7 DEF Joins
<1>8. CASE n # 0
  <2> DEFINE g == [i \in 1..n |-> f[i]]
  <2>1. f[1] = parts[1]
    <3>1. 1 \in 1..n /\ f[1] = <<>> \o parts[1]
      <4>1. 1 \in 1..n /\ 1 - 1 = 0
        BY <1>1, <1>8
      <4>2. f[1] = f[1 - 1] \o parts[1] /\ f[0] = <<>>
        BY <4>1, <1>5, <1>6 DEF Joins
      <4> QED BY <4>1, <4>2
    <3> QED BY <3>1, <1>1, ConcatEmptySeq
  <2>2. Defines(g)
    <3>1. ASSUME NEW i \in 1..n
          PROVE  g[i] = IF i = 1 THEN parts[i] ELSE g[i - 1] \o parts[i]
      <4>1. CASE i = 1
        BY <4>1, <2>1
      <4>2. CASE i # 1
        <5>1. i - 1 \in 1..n
          BY <4>2, <1>1
        <5>2. g[i - 1] = f[i - 1] /\ g[i] = f[i]
          BY <5>1
        <5> QED BY <5>2, <4>2, <1>5
      <4> QED BY <4>1, <4>2
    <3>2. g = [i \in 1..n |-> g[i]]
      OBVIOUS
    <3> HIDE DEF g, n
    <3> QED BY <3>1, <3>2
  <2>3. Defines(flatten)
    <3> HIDE DEF Defines, g
    <3> QED BY <2>2
  <2>4. FlattenSeq(parts) = flatten[n]
    BY <1>8 DEF FlattenSeq
  <2> HIDE DEF flatten, g
  <2> DEFINE T == {i \in 0..n : i # 0 => flatten[i] = f[i]}
  <2>5. ASSUME NEW i \in 1..n, i - 1 \in T PROVE i \in T
    <3>1. flatten[i] = IF i = 1 THEN parts[i] ELSE flatten[i - 1] \o parts[i]
      BY <2>3
    <3>2. i # 1 => flatten[i - 1] = f[i - 1]
      BY <2>5
    <3>3. f[i] = IF i = 1 THEN parts[i] ELSE f[i - 1] \o parts[i]
      BY <2>1, <1>5
    <3>4. flatten[i] = f[i] /\ i \in 0..n
      <4> HIDE DEF Defines, T, n
      <4> QED BY <3>1, <3>2, <3>3, <1>1
    <3> QED BY <3>4
  <2>6. \A i \in 0..n : i \in T
    <3>1. 0 \in T
      BY <1>1
    <3> HIDE DEF T, n
    <3> QED BY <1>1, <2>5, <3>1, BoundedInduction
  <2>7. flatten[n] = f[n]
    BY <2>6, <1>1, <1>8
  <2> QED BY <2>4, <2>7, <1>4, <1>6
<1> QED BY <1>7, <1>8

\* Part i of the sequence begins behind position o[i - 1].
Laid(o, parts, flat) ==
  /\ o \in [0..Len(parts) -> Nat] /\ o[0] = 0 /\ o[Len(parts)] = Len(flat)
  /\ \A i \in 1..Len(parts) :
       /\ o[i] = o[i - 1] + Len(parts[i])
       /\ o[i] <= Len(flat)
       /\ \A k \in 1..Len(parts[i]) : flat[o[i - 1] + k] = parts[i][k]

\* t begins with s.
Begins(s, t) == Len(s) <= Len(t) /\ \A k \in 1..Len(s) : t[k] = s[k]

\* Where the parts of a flattened sequence are.
LEMMA FlattenSeqLaid ==
  ASSUME NEW S, NEW parts \in Seq(Seq(S))
  PROVE  /\ FlattenSeq(parts) \in Seq(S)
         /\ \E o : Laid(o, parts, FlattenSeq(parts))
<1> DEFINE n == Len(parts)
           flat == FlattenSeq(parts)
<1>1. PICK f \in [0..n -> Seq(S)] : Joins(f, parts) /\ flat = f[n]
  BY FlattenSeqIs
<1>2. n \in Nat /\ \A i \in 1..n : parts[i] \in Seq(S)
  OBVIOUS
<1> HIDE DEF flat, n
<1>3. \A i \in 0..n : f[i] \in Seq(S) /\ Len(f[i]) \in Nat
  BY <1>1
<1>4. ASSUME NEW i \in 1..n
      PROVE  /\ Len(f[i]) = Len(f[i - 1]) + Len(parts[i]) /\ Len(parts[i]) \in Nat
             /\ Begins(f[i - 1], f[i])
             /\ \A k \in 1..Len(parts[i]) : f[i][Len(f[i - 1]) + k] = parts[i][k]
  <2>1. i - 1 \in 0..n /\ i \in 0..n /\ f[i] = f[i - 1] \o parts[i]
    <3>1. \A j \in 1..n : f[j] = f[j - 1] \o parts[j]
      BY <1>1 DEF Joins, n
    <3>2. i - 1 \in 0..n /\ i \in 0..n
      BY <1>2
    <3>3. f[i] = f[i - 1] \o parts[i]
      BY <3>1
    <3> QED BY <3>2, <3>3
  <2> DEFINE s == f[i - 1]
             t == parts[i]
  <2>2. s \in Seq(S) /\ t \in Seq(S) /\ Len(s) \in Nat /\ Len(t) \in Nat
    BY <2>1, <1>2, <1>3
  <2>3. f[i] = s \o t
    BY <2>1
  <2> HIDE DEF s, t
  <2>4. /\ Len(f[i]) = Len(s) + Len(t)
        /\ \A k \in 1..Len(s) + Len(t) :
             f[i][k] = IF k <= Len(s) THEN s[k] ELSE t[k - Len(s)]
    BY <2>2, <2>3, ConcatProperties
  <2>5. \A k \in 1..Len(t) : f[i][Len(s) + k] = t[k]
    <3> TAKE k \in 1..Len(t)
    <3>1. Len(s) + k \in 1..Len(s) + Len(t) /\ ~(Len(s) + k <= Len(s))
          /\ (Len(s) + k) - Len(s) = k
      BY <2>2
    <3> QED BY <3>1, <2>4
  <2>6. Begins(s, f[i])
    <3>1. \A k \in 1..Len(s) : k \in 1..Len(s) + Len(t) /\ k <= Len(s)
      BY <2>2
    <3>2. \A k \in 1..Len(s) : f[i][k] = s[k]
      BY <3>1, <2>4
    <3> QED BY <3>2, <2>2, <2>4 DEF Begins
  <2> QED BY <2>2, <2>4, <2>5, <2>6 DEF s, t
<1> DEFINE T == {j \in 0..n : \A i \in 0..j : Begins(f[i], f[j])}
<1>5. \A i \in 0..n : Begins(f[i], f[i])
  BY <1>3 DEF Begins
<1>6. \A j \in 0..n : j \in T
  <2>1. 0 \in T
    BY <1>2, <1>5
  <2>2. ASSUME NEW j \in 1..n, j - 1 \in T PROVE j \in T
    <3>1. ASSUME NEW i \in 0..j PROVE Begins(f[i], f[j])
      <4>1. CASE i = j
        BY <4>1, <1>5, <1>2
      <4>2. CASE i # j
        <5>1. i \in 0..(j - 1) /\ i \in 0..n /\ j \in 0..n /\ j - 1 \in 0..n
          BY <4>2, <1>2
        <5>2. Begins(f[i], f[j - 1]) /\ Begins(f[j - 1], f[j])
          BY <5>1, <2>2, <1>4
        <5> QED BY <5>1, <5>2, <1>3 DEF Begins
      <4> QED BY <4>1, <4>2
    <3> QED BY <3>1, <1>2
  <2> HIDE DEF T
  <2> QED BY <1>2, <2>1, <2>2, BoundedInduction
<1>7. \A i \in 0..n : Begins(f[i], flat)
  BY <1>1, <1>2, <1>6
<1> DEFINE o == [i \in 0..n |-> Len(f[i])]
<1>8. o \in [0..n -> Nat] /\ o[0] = 0 /\ o[n] = Len(flat)
  BY <1>1, <1>2, <1>3 DEF Joins
<1>9. ASSUME NEW i \in 1..n
      PROVE  /\ o[i] = o[i - 1] + Len(parts[i]) /\ o[i] <= Len(flat)
             /\ \A k \in 1..Len(parts[i]) : flat[o[i - 1] + k] = parts[i][k]
  <2>1. i - 1 \in 0..n /\ i \in 0..n
    BY <1>2
  <2>2. o[i] = Len(f[i]) /\ o[i - 1] = Len(f[i - 1])
    BY <2>1
  <2> HIDE DEF o
  <2>3. \A k \in 1..Len(parts[i]) : o[i - 1] + k \in 1..Len(f[i])
    <3>1. /\ Len(f[i]) = o[i - 1] + Len(parts[i]) /\ Len(parts[i]) \in Nat
          /\ o[i - 1] \in Nat
      BY <2>1, <2>2, <1>3, <1>4
    <3> QED BY <3>1
  <2>4. /\ Len(f[i]) <= Len(flat) /\ \A k \in 1..Len(f[i]) : flat[k] = f[i][k]
        /\ \A k \in 1..Len(parts[i]) : f[i][o[i - 1] + k] = parts[i][k]
    BY <2>1, <2>2, <1>4, <1>7, ZenonT(60) DEF Begins
  <2> QED BY <2>1, <2>2, <2>3, <2>4, <1>4
<1>10. Laid(o, parts, flat)
  <2> HIDE DEF o
  <2> QED BY <1>8, <1>9 DEF Laid, n
<1>11. flat \in Seq(S)
  BY <1>1, <1>2, <1>3
<1> QED BY <1>10, <1>11 DEF flat

\* Parts have lengths.
Sized(parts) ==
  Len(parts) \in Nat /\ \A i \in 1..Len(parts) : Len(parts[i]) \in Nat

\* Parts are laid out in their order.
LEMMA LaidOrder ==
  ASSUME NEW o, NEW parts, NEW flat, Laid(o, parts, flat), Sized(parts)
  PROVE  \A j \in 0..Len(parts) : \A i \in 0..j : o[i] <= o[j]
<1> DEFINE n == Len(parts)
           T == {j \in 0..n : \A i \in 0..j : o[i] <= o[j]}
<1>1. /\ \A i \in 0..n : o[i] \in Nat
      /\ \A i \in 1..n : o[i] = o[i - 1] + Len(parts[i]) /\ Len(parts[i]) \in Nat
  BY DEF Laid, Sized
<1>2. 0 \in T
  BY <1>1
<1>3. ASSUME NEW j \in 1..n, j - 1 \in T PROVE j \in T
  <2>1. o[j] \in Nat /\ o[j - 1] \in Nat /\ o[j - 1] <= o[j] /\ j \in 0..n
    BY <1>1
  <2>2. ASSUME NEW i \in 0..j PROVE o[i] <= o[j]
    <3>1. CASE i = j
      BY <3>1, <2>1
    <3>2. CASE i # j
      <4>1. i \in 0..(j - 1) /\ i \in 0..n
        BY <3>2
      <4>2. o[i] <= o[j - 1] /\ o[i] \in Nat
        BY <4>1, <1>1, <1>3
      <4> QED BY <4>2, <2>1
    <3> QED BY <3>1, <3>2
  <2> QED BY <2>1, <2>2
<1> HIDE DEF T
<1>4. \A j \in 0..n : j \in T
  <2> HIDE DEF n
  <2>1. n \in Nat
    BY DEF n, Sized
  <2> QED BY <2>1, <1>2, <1>3, BoundedInduction
<1> QED BY <1>4 DEF T

\* Every position is in some part.
LEMMA LaidAt ==
  ASSUME NEW o, NEW parts, NEW flat, Laid(o, parts, flat), Sized(parts),
         Len(flat) \in Nat, NEW p \in 1..Len(flat)
  PROVE  \E i \in 1..Len(parts) : \E k \in 1..Len(parts[i]) : p = o[i - 1] + k
<1> DEFINE n == Len(parts)
           T == {i \in 0..n : p <= o[i]}
<1>1. /\ \A i \in 0..n : o[i] \in Nat
      /\ \A i \in 1..n : o[i] = o[i - 1] + Len(parts[i]) /\ Len(parts[i]) \in Nat
      /\ o[0] = 0 /\ o[n] = Len(flat) /\ n \in Nat
  BY DEF Laid, Sized
<1>2. T # {} /\ T \subseteq Nat
  BY <1>1
<1>3. PICK i \in T : \A j \in T : i <= j
  <2> HIDE DEF T
  <2> QED BY <1>2, LeastNumber
<1>4. i \in 1..n /\ i - 1 \in 0..n /\ i - 1 \notin T
  BY <1>1, <1>3
<1>5. ~(p <= o[i - 1]) /\ p <= o[i]
  BY <1>3, <1>4
<1>6. o[i] = o[i - 1] + Len(parts[i]) /\ o[i - 1] \in Nat /\ Len(parts[i]) \in Nat
  BY <1>1, <1>4
<1>7. p - o[i - 1] \in 1..Len(parts[i]) /\ p = o[i - 1] + (p - o[i - 1])
  BY <1>5, <1>6
<1> QED BY <1>4, <1>7

\* Counting a set by numbering it.
LEMMA Numbered ==
  ASSUME NEW n \in Nat, NEW f, NEW T,
         \A i \in 1..n : f[i] \in T,
         \A i, j \in 1..n : f[i] = f[j] => i = j,
         \A t \in T : \E i \in 1..n : f[i] = t
  PROVE  Cardinality(T) = n /\ IsFiniteSet(T)
<1> DEFINE g == [i \in 1..n |-> f[i]]
<1>1. g \in [1..n -> T]
  OBVIOUS
<1>2. g \in Bijection(1..n, T)
  BY <1>1 DEF Bijection, Injection, IsInjective, Surjection
<1>3. ExistsBijection(1..n, T)
  BY <1>2 DEF ExistsBijection
<1> QED BY <1>3, FS_CountingElements, FS_NatBijection

-----------------------------------------------------------------------------
(***************************************************************************)
(* Lists of texts, joined and split.                                       *)
(***************************************************************************)
\* Two texts put together.
LEMMA TextConcat ==
  ASSUME NEW a \in Text, NEW b \in Text
  PROVE  /\ a \o b \in Text /\ Len(a \o b) = Len(a) + Len(b)
         /\ \A k \in 1..Len(a) : (a \o b)[k] = a[k]
         /\ \A k \in 1..Len(b) : (a \o b)[Len(a) + k] = b[k]
<1>1. /\ a \o b \in Text /\ Len(a \o b) = Len(a) + Len(b)
      /\ \A k \in 1..Len(a) + Len(b) :
           (a \o b)[k] = IF k <= Len(a) THEN a[k] ELSE b[k - Len(a)]
  BY ConcatProperties DEF Text
<1>2. Len(a) \in Nat /\ Len(b) \in Nat
  BY TextBytes
<1>3. \A k \in 1..Len(a) : k \in 1..Len(a) + Len(b) /\ k <= Len(a)
  BY <1>2
<1>4. \A k \in 1..Len(b) : /\ Len(a) + k \in 1..Len(a) + Len(b)
                           /\ ~(Len(a) + k <= Len(a)) /\ (Len(a) + k) - Len(a) = k
  BY <1>2
<1> QED BY <1>1, <1>3, <1>4

\* A text behind a comma.
LEMMA AfterComma ==
  ASSUME NEW b \in Text
  PROVE  /\ <<Comma>> \o b \in Text
         /\ Len(<<Comma>> \o b) = 1 + Len(b)
         /\ (<<Comma>> \o b)[1] = Comma
         /\ \A k \in 1..Len(b) : (<<Comma>> \o b)[1 + k] = b[k]
<1> DEFINE a == <<Comma>>
<1>1. a \in Text /\ Len(a) = 1 /\ a[1] = Comma
  BY OneByte DEF Comma
<1> HIDE DEF a
<1>2. /\ a \o b \in Text /\ Len(a \o b) = Len(a) + Len(b)
      /\ \A k \in 1..Len(a) : (a \o b)[k] = a[k]
      /\ \A k \in 1..Len(b) : (a \o b)[Len(a) + k] = b[k]
  BY <1>1, TextConcat
<1>3. (a \o b)[1] = Comma /\ \A k \in 1..Len(b) : (a \o b)[1 + k] = b[k]
  BY <1>1, <1>2
<1> QED BY <1>1, <1>2, <1>3 DEF a

\* Item i of the list begins behind position s[i] of the text, where there is a
\* comma unless it is the first item.
Separates(s, list, text) ==
  /\ \A i \in 1..Len(list) + 1 : s[i] \in Nat
  /\ s[1] = 0 /\ s[Len(list) + 1] = Len(text) + 1
  /\ \A i \in 1..Len(list) :
       /\ s[i + 1] = s[i] + Len(list[i]) + 1
       /\ \A k \in 1..Len(list[i]) :
            s[i] + k \in 1..Len(text) /\ text[s[i] + k] = list[i][k]
  /\ \A i \in 2..Len(list) : s[i] \in 1..Len(text) /\ text[s[i]] = Comma
  /\ \A p \in 1..Len(text) :
       \/ \E i \in 2..Len(list) : p = s[i]
       \/ \E i \in 1..Len(list) : \E k \in 1..Len(list[i]) : p = s[i] + k

\* Where the items of a joined list are.
LEMMA JoinedIs ==
  ASSUME NEW list \in Seq(Text)
  PROVE  /\ Joined(list) \in Text
         /\ list = <<>> => Joined(list) = <<>>
         /\ list # <<>> => \E s : Separates(s, list, Joined(list))
<1> DEFINE n == Len(list)
           parts == [i \in DOMAIN list |-> IF i = 1 THEN list[i] ELSE <<Comma>> \o list[i]]
           text == Joined(list)
<1>1. n \in Nat /\ DOMAIN list = 1..n /\ \A i \in 1..n : list[i] \in Text
  BY LenProperties, ElementOfSeq
<1>2. \A i \in 1..n : Len(list[i]) \in Nat
  BY <1>1, TextBytes
<1>3. <<Comma>> \in Text /\ Len(<<Comma>>) = 1 /\ <<Comma>>[1] = Comma
  BY OneByte DEF Comma
<1>4. ASSUME NEW i \in 1..n
      PROVE  /\ <<Comma>> \o list[i] \in Text
             /\ Len(<<Comma>> \o list[i]) = 1 + Len(list[i])
             /\ (<<Comma>> \o list[i])[1] = Comma
             /\ \A k \in 1..Len(list[i]) : (<<Comma>> \o list[i])[1 + k] = list[i][k]
  <2>1. list[i] \in Text
    BY <1>1
  <2> QED BY <2>1, AfterComma
<1>5. parts \in Seq(Text) /\ Len(parts) = n
      /\ \A i \in 1..n : parts[i] = IF i = 1 THEN list[i] ELSE <<Comma>> \o list[i]
  <2>1. \A i \in 1..n : (IF i = 1 THEN list[i] ELSE <<Comma>> \o list[i]) \in Text
    BY <1>1, <1>4
  <2>2. parts = [i \in 1..n |-> IF i = 1 THEN list[i] ELSE <<Comma>> \o list[i]]
    BY <1>1
  <2> HIDE DEF n
  <2>3. parts \in [1..n -> Text]
    <3> HIDE DEF parts
    <3> QED BY <2>1, <2>2
  <2> QED BY <2>2, <2>3, <1>1
<1>6. text = FlattenSeq(parts)
  BY DEF Joined
<1> HIDE DEF parts, text
<1>7. PICK o : Laid(o, parts, text)
  BY <1>5, <1>6, FlattenSeqLaid DEF Text
<1>8. text \in Text
  BY <1>5, <1>6, FlattenSeqLaid DEF Text
<1>9. CASE list = <<>>
  <2>1. n = 0 /\ o[n] = Len(text) /\ o[0] = 0
    BY <1>9, <1>7, <1>5 DEF Laid
  <2>2. text = <<>>
    BY <2>1, <1>8 DEF Text
  <2> QED BY <2>2, <1>8, <1>9 DEF text
<1>10. CASE list # <<>>
  <2> HIDE DEF n
  <2>0. n >= 1
    BY <1>1, <1>10 DEF n
  <2> DEFINE s == [i \in 1..n + 1 |-> IF i = 1 THEN 0 ELSE o[i - 1] + 1]
  <2>1. /\ \A i \in 0..n : o[i] \in Nat
        /\ o[0] = 0 /\ o[n] = Len(text)
        /\ \A i \in 1..n :
             /\ o[i] = o[i - 1] + Len(parts[i]) /\ o[i] <= Len(text)
             /\ \A k \in 1..Len(parts[i]) : text[o[i - 1] + k] = parts[i][k]
    BY <1>5, <1>7 DEF Laid
  <2>2. /\ \A i \in 1..n + 1 : s[i] = IF i = 1 THEN 0 ELSE o[i - 1] + 1
        /\ s[1] = 0 /\ s[n + 1] = Len(text) + 1
    <3>1. \A i \in 1..n + 1 : s[i] = IF i = 1 THEN 0 ELSE o[i - 1] + 1
      OBVIOUS
    <3>2. 1 \in 1..n + 1 /\ n + 1 \in 1..n + 1 /\ n + 1 # 1 /\ (n + 1) - 1 = n
      BY <1>1, <2>0
    <3> HIDE DEF s
    <3> QED BY <3>1, <3>2, <2>1
  <2> HIDE DEF s
  <2>3. \A i \in 1..n + 1 : s[i] \in Nat
    BY <1>1, <2>1, <2>2, SMTT(30)
  <2>4. ASSUME NEW i \in 1..n
        PROVE  /\ s[i] + Len(list[i]) = o[i]
               /\ \A k \in 1..Len(list[i]) : text[s[i] + k] = list[i][k]
               /\ i # 1 => text[s[i]] = Comma /\ s[i] \in 1..Len(text)
    <3>1. CASE i = 1
      <4>1. parts[i] = list[i] /\ s[i] = 0 /\ o[i - 1] = 0
        BY <3>1, <1>5, <2>1, <2>2
      <4> QED BY <4>1, <3>1, <2>1, <1>2
    <3>2. CASE i # 1
      <4> DEFINE b == list[i]
                 q == parts[i]
                 at == o[i - 1]
      <4>1. q = <<Comma>> \o b /\ s[i] = at + 1 /\ at \in Nat /\ Len(b) \in Nat
        <5>1. i - 1 \in 0..n /\ i \in 1..n + 1
          BY <1>1
        <5>2. q = <<Comma>> \o b
          BY <3>2, <1>5
        <5>3. s[i] = at + 1 /\ at \in Nat
          BY <5>1, <3>2, <2>1, <2>2
        <5> QED BY <5>2, <5>3, <1>2
      <4>2. Len(q) = 1 + Len(b) /\ q[1] = Comma /\ \A k \in 1..Len(b) : q[1 + k] = b[k]
        BY <4>1, <1>4
      <4>3. /\ o[i] = at + Len(q) /\ o[i] <= Len(text)
            /\ \A k \in 1..Len(q) : text[at + k] = q[k]
        BY <2>1
      <4> HIDE DEF b, q, at
      <4>4. text[at + 1] = Comma
        BY <4>1, <4>2, <4>3
      <4>5. \A k \in 1..Len(b) : text[s[i] + k] = b[k]
        <5> TAKE k \in 1..Len(b)
        <5>1. 1 + k \in 1..Len(q) /\ at + (1 + k) = s[i] + k
          BY <4>1, <4>2
        <5> QED BY <5>1, <4>2, <4>3
      <4>6. Len(text) \in Nat
        BY <1>8, TextBytes
      <4>7. s[i] + Len(b) = o[i] /\ text[s[i]] = Comma
        BY <4>1, <4>2, <4>3, <4>4
      <4>8. s[i] \in 1..Len(text)
        BY <4>1, <4>2, <4>3, <4>6
      <4> QED BY <4>5, <4>7, <4>8 DEF b
    <3> QED BY <3>1, <3>2
  <2>5. \A i \in 1..n : s[i + 1] = o[i] + 1
    BY <1>1, <2>2
  <2>6. ASSUME NEW i \in 1..n, NEW k \in 1..Len(list[i])
        PROVE  s[i] + k \in 1..Len(text)
    <3>1. /\ s[i] + Len(list[i]) = o[i] /\ o[i] <= Len(text) /\ o[i] \in Nat /\ s[i] \in Nat
          /\ Len(list[i]) \in Nat
      BY <1>2, <1>1, <2>1, <2>3, <2>4
    <3>2. Len(text) \in Nat
      BY <1>8, TextBytes
    <3> QED BY <3>1, <3>2
  <2>7. ASSUME NEW p \in 1..Len(text)
        PROVE  \/ \E i \in 2..n : p = s[i]
               \/ \E i \in 1..n : \E k \in 1..Len(list[i]) : p = s[i] + k
    <3>1. Len(text) \in Nat /\ \A i \in 1..n : Len(parts[i]) \in Nat
      <4>1. Len(text) \in Nat
        BY <1>8, TextBytes
      <4>2. ASSUME NEW i \in 1..n PROVE Len(parts[i]) \in Nat
        BY <1>1, <1>2, <1>4, <1>5
      <4> QED BY <4>1, <4>2
    <3>5. PICK i \in 1..n : \E k \in 1..Len(parts[i]) : p = o[i - 1] + k
      <4>1. Sized(parts)
        BY <3>1, <1>5, <1>1 DEF Sized
      <4>2. \E i \in 1..Len(parts) : \E k \in 1..Len(parts[i]) : p = o[i - 1] + k
        BY <3>1, <4>1, <1>7, LaidAt
      <4> QED BY <4>2, <1>5
    <3>2. PICK k \in 1..Len(parts[i]) : p = o[i - 1] + k
      BY <3>5
    <3>3. CASE i = 1
      <4>1. parts[i] = list[i] /\ s[i] = 0 /\ o[i - 1] = 0
        BY <3>3, <1>5, <2>1, <2>2
      <4> QED BY <4>1, <3>2
    <3>4. CASE i # 1
      <4>1. Len(parts[i]) = 1 + Len(list[i]) /\ s[i] = o[i - 1] + 1 /\ o[i - 1] \in Nat
            /\ Len(list[i]) \in Nat
        BY <3>4, <1>1, <1>2, <1>4, <1>5, <2>1, <2>2
      <4>2. CASE k = 1
        <5>1. p = s[i] /\ i \in 2..n
          BY <4>1, <4>2, <3>2, <3>4
        <5> QED BY <5>1
      <4>3. CASE k # 1
        <5>1. k - 1 \in 1..Len(list[i]) /\ p = s[i] + (k - 1)
          BY <4>1, <4>3, <3>2
        <5> QED BY <5>1
      <4> QED BY <4>2, <4>3
    <3> QED BY <3>3, <3>4
  <2>8. \A i \in 1..n : s[i + 1] = s[i] + Len(list[i]) + 1
    BY <2>4, <2>5
  <2>9. \A i \in 2..n : s[i] \in 1..Len(text) /\ text[s[i]] = Comma
    BY <2>4
  <2>10. Separates(s, list, text)
    BY <2>2, <2>3, <2>4, <2>6, <2>7, <2>8, <2>9 DEF Separates, n
  <2> QED BY <2>10, <1>8, <1>10 DEF text
<1> QED BY <1>9, <1>10

\* What was joined is what is split.
LEMMA SplitJoined ==
  ASSUME NEW list \in Seq(Text), Items(list)
  PROVE  split_csv(Joined(list)) = list
<1> DEFINE n == Len(list)
           text == Joined(list)
           m == Len(text)
           ends == {0, Len(text) + 1} \cup {i \in DOMAIN text : text[i] = Comma}
           starts == {i \in ends : i + 1 \in DOMAIN text /\ text[i + 1] # Comma}
           end(i) == CHOOSE j \in ends : j > i /\ \A k \in ends : k > i => j <= k
           upTo(i) == {j \in starts : j <= i}
           ranked(r) == CHOOSE i \in starts : Cardinality(upTo(i)) = r
<1>1. n \in Nat /\ DOMAIN list = 1..n /\ \A i \in 1..n : list[i] \in Text
  BY LenProperties, ElementOfSeq
<1>2. \A i \in 1..n : Len(list[i]) \in Nat /\ Len(list[i]) >= 1
  <2> TAKE i \in 1..n
  <2>1. list[i] \in Text /\ list[i] # <<>>
    BY <1>1 DEF Items
  <2> QED BY <2>1, EmptySeq DEF Text
<1>3. text \in Text /\ m \in Nat /\ DOMAIN text = 1..m
  BY JoinedIs, TextBytes
<1>4. split_csv(text) = [r \in 1..Cardinality(starts) |->
                           SubSeq(text, ranked(r) + 1, end(ranked(r)) - 1)]
  BY DEF split_csv
<1> HIDE DEF text, m, end, ranked
<1>5. ends = {0, m + 1} \cup {i \in 1..m : text[i] = Comma}
      /\ starts = {i \in ends : i + 1 \in 1..m /\ text[i + 1] # Comma}
  BY <1>3 DEF m
<1> HIDE DEF starts, ends
<1>6. CASE list = <<>>
  <2>0. text = <<>>
    BY <1>6, JoinedIs DEF text
  <2>1. text = <<>> /\ m = 0
    BY <2>0 DEF m
  <2>2. starts = {}
    BY <1>5, <2>1
  <2>3. Cardinality(starts) = 0
    BY <2>2, FS_EmptySet
  <2>4. split_csv(text) = <<>>
    BY <1>4, <2>3
  <2> QED BY <2>4, <1>6 DEF text
<1>7. CASE list # <<>>
  <2>1. n >= 1
    BY <1>1, <1>7
  <2>2. PICK s : Separates(s, list, text)
    BY <1>7, JoinedIs DEF text
  <2> HIDE DEF n
  <2>3. /\ \A i \in 1..n + 1 : s[i] \in Nat
        /\ s[1] = 0 /\ s[n + 1] = m + 1
        /\ \A i \in 1..n : s[i + 1] = s[i] + Len(list[i]) + 1
        /\ \A i \in 1..n : \A k \in 1..Len(list[i]) :
             s[i] + k \in 1..m /\ text[s[i] + k] = list[i][k]
        /\ \A i \in 2..n : s[i] \in 1..m /\ text[s[i]] = Comma
        /\ \A p \in 1..m : \/ \E i \in 2..n : p = s[i]
                           \/ \E i \in 1..n : \E k \in 1..Len(list[i]) : p = s[i] + k
    BY <2>2 DEF Separates, n, m
  <2>4. \A i \in 1..n : s[i] < s[i + 1]
    <3> TAKE i \in 1..n
    <3>1. i \in 1..n + 1 /\ i + 1 \in 1..n + 1
      BY <1>1
    <3> QED BY <3>1, <2>3, <1>2 DEF n
  <2>5. \A j \in 1..n + 1 : \A i \in 1..n + 1 : i < j => s[i] < s[j]
    <3> DEFINE T == {j \in 0..n : \A i \in 1..n + 1 : i < j + 1 => s[i] < s[j + 1]}
    <3>1. 0 \in T
      BY <1>1
    <3>2. ASSUME NEW j \in 1..n, j - 1 \in T PROVE j \in T
      <4>1. ASSUME NEW i \in 1..n + 1, i < j + 1 PROVE s[i] < s[j + 1]
        <5>1. s[j] < s[j + 1] /\ s[j] \in Nat /\ s[j + 1] \in Nat /\ s[i] \in Nat
          <6>1. j \in 1..n + 1 /\ j + 1 \in 1..n + 1
            BY <1>1
          <6> QED BY <6>1, <2>3, <2>4
        <5>2. CASE i = j
          BY <5>1, <5>2
        <5>3. CASE i # j
          <6>1. i < (j - 1) + 1 /\ (j - 1) + 1 = j
            BY <4>1, <5>3, <1>1
          <6>2. s[i] < s[j]
            BY <6>1, <3>2
          <6> QED BY <6>2, <5>1
        <5> QED BY <5>2, <5>3
      <4>2. j \in 0..n
        BY <1>1
      <4> QED BY <4>1, <4>2
    <3> HIDE DEF T
    <3>3. \A j \in 0..n : j \in T
      BY <3>1, <3>2, <1>1, BoundedInduction
    <3>4. ASSUME NEW j \in 1..n + 1, NEW i \in 1..n + 1, i < j PROVE s[i] < s[j]
      <4>1. j - 1 \in 0..n /\ (j - 1) + 1 = j
        BY <1>1
      <4>2. j - 1 \in T
        BY <4>1, <3>3
      <4> QED BY <4>1, <4>2, <3>4 DEF T
    <3> QED BY <3>4
  <2>6. ends = {s[i] : i \in 1..n + 1}
    <3>1. ASSUME NEW i \in 1..n + 1 PROVE s[i] \in ends
      <4>1. i = 1 \/ i = n + 1 \/ i \in 2..n
        BY <1>1
      <4> QED BY <4>1, <1>5, <2>3
    <3>2. ASSUME NEW p \in ends PROVE \E i \in 1..n + 1 : p = s[i]
      <4>1. CASE p = 0
        BY <4>1, <2>1, <2>3, <1>1
      <4>2. CASE p = m + 1
        <5>1. n + 1 \in 1..n + 1
          BY <1>1
        <5> QED BY <5>1, <4>2, <2>3
      <4>3. CASE p \in 1..m /\ text[p] = Comma
        <5>1. ~ \E i \in 1..n : \E k \in 1..Len(list[i]) : p = s[i] + k
          <6>1. \A i \in 1..n : \A k \in 1..Len(list[i]) : list[i][k] # Comma
            BY DEF Items, n
          <6>2. \A i \in 1..n : \A k \in 1..Len(list[i]) : text[s[i] + k] = list[i][k]
            BY <2>3
          <6> QED BY <6>1, <6>2, <4>3
        <5>2. \A i \in 2..n : i \in 1..n + 1
          BY <1>1
        <5> QED BY <5>1, <5>2, <4>3, <2>3
      <4> QED BY <4>1, <4>2, <4>3, <1>5
    <3> QED BY <3>1, <3>2
  <2>7. ASSUME NEW i \in 1..n
        PROVE  /\ s[i] + 1 \in 1..m /\ text[s[i] + 1] # Comma
               /\ s[i] \in Nat /\ s[i + 1] \in Nat /\ i \in 1..n + 1 /\ i + 1 \in 1..n + 1
    <3>1. 1 \in 1..Len(list[i])
      BY <1>2 DEF n
    <3>2. s[i] + 1 \in 1..m /\ text[s[i] + 1] = list[i][1]
      BY <3>1, <2>3
    <3>3. i \in 1..n + 1 /\ i + 1 \in 1..n + 1
      BY <1>1
    <3>4. list[i][1] # Comma
      BY <3>1 DEF Items, n
    <3> QED BY <3>2, <3>3, <3>4, <2>3
  <2>8. starts = {s[i] : i \in 1..n}
    <3>1. \A i \in 1..n : s[i] \in starts
      BY <2>6, <2>7, <1>5
    <3>2. ASSUME NEW p \in starts PROVE \E i \in 1..n : p = s[i]
      <4>1. p \in ends /\ p + 1 \in 1..m
        BY <1>5
      <4>2. PICK i \in 1..n + 1 : p = s[i]
        BY <4>1, <2>6
      <4>3. i # n + 1
        BY <4>1, <4>2, <2>3, <1>3
      <4>4. i \in 1..n
        BY <4>3, <1>1
      <4> QED BY <4>2, <4>4
    <3> QED BY <3>1, <3>2
  <2>9. \A i, j \in 1..n + 1 : s[i] = s[j] => i = j
    <3>1. ASSUME NEW i \in 1..n + 1, NEW j \in 1..n + 1, s[i] = s[j] PROVE i = j
      <4>1. i < j \/ j < i \/ i = j
        BY <1>1
      <4>2. ~(s[i] < s[j]) /\ ~(s[j] < s[i])
        BY <3>1, <2>3
      <4> QED BY <4>1, <4>2, <2>5
    <3> QED BY <3>1
  <2>10. ASSUME NEW i \in 1..n
         PROVE  Cardinality(upTo(s[i])) = i
    <3>1. i \in Nat /\ \A j \in 1..i : j \in 1..n /\ j \in 1..n + 1
      BY <1>1
    <3>2. \A j \in 1..i : s[j] <= s[i]
      <4> TAKE j \in 1..i
      <4>1. j = i \/ j < i
        OBVIOUS
      <4>2. s[i] \in Nat /\ s[j] \in Nat
        BY <2>7, <3>1
      <4>3. j < i => s[j] < s[i]
        BY <3>1, <2>5, <2>7
      <4> QED BY <4>1, <4>2, <4>3
    <3>3. \A j \in 1..i : s[j] \in upTo(s[i])
      BY <3>1, <3>2, <2>8
    <3>4. ASSUME NEW t \in upTo(s[i]) PROVE \E j \in 1..i : s[j] = t
      <4>1. t <= s[i]
        OBVIOUS
      <4>2. PICK j \in 1..n : t = s[j]
        BY <2>8
      <4>3. ~(i < j)
        <5>1. i \in 1..n + 1 /\ j \in 1..n + 1 /\ s[i] \in Nat /\ s[j] \in Nat
          BY <2>7
        <5>2. ~(s[i] < s[j])
          BY <4>1, <4>2, <5>1
        <5> QED BY <5>1, <5>2, <2>5
      <4>4. j \in 1..i
        BY <4>3
      <4> QED BY <4>2, <4>4
    <3>5. \A a, b \in 1..i : s[a] = s[b] => a = b
      BY <3>1, <2>9
    <3> HIDE DEF upTo
    <3> QED BY <3>1, <3>3, <3>4, <3>5, Numbered
  <2>11. Cardinality(starts) = n
    <3>1. \A a, b \in 1..n : s[a] = s[b] => a = b
      BY <2>7, <2>9
    <3>2. \A i \in 1..n : s[i] \in starts
      BY <2>8
    <3>3. \A t \in starts : \E i \in 1..n : s[i] = t
      BY <2>8
    <3> QED BY <3>1, <3>2, <3>3, <1>1, Numbered
  <2>12. ASSUME NEW r \in 1..n PROVE ranked(r) = s[r]
    <3>1. s[r] \in starts /\ Cardinality(upTo(s[r])) = r
      BY <2>8, <2>10
    <3>2. \A p \in starts : Cardinality(upTo(p)) = r => p = s[r]
      BY <2>8, <2>10
    <3> HIDE DEF upTo
    <3> QED BY <3>1, <3>2 DEF ranked
  <2>13. ASSUME NEW r \in 1..n PROVE end(s[r]) = s[r + 1]
    <3>1. /\ r \in 1..n + 1 /\ r + 1 \in 1..n + 1 /\ s[r] \in Nat /\ s[r + 1] \in Nat
          /\ s[r] < s[r + 1]
      BY <2>4, <2>7
    <3>2. s[r + 1] \in ends
      BY <3>1, <2>6
    <3>3. ASSUME NEW k \in ends, k > s[r] PROVE s[r + 1] <= k
      <4>1. PICK j \in 1..n + 1 : k = s[j]
        BY <2>6
      <4>2. s[j] \in Nat /\ ~(j = r) /\ ~(j < r)
        <5>1. s[j] \in Nat
          BY <2>3
        <5>2. ~(s[j] < s[r]) /\ ~(s[j] = s[r])
          BY <5>1, <4>1, <3>1, <3>3
        <5> QED BY <5>1, <5>2, <3>1, <2>5
      <4>3. j = r + 1 \/ r + 1 < j
        BY <4>2
      <4>4. r + 1 < j => s[r + 1] < s[j]
        BY <3>1, <2>5
      <4> QED BY <4>1, <4>2, <4>3, <4>4, <3>1
    <3>4. \A k \in ends : k \in Nat
      BY <2>3, <2>6
    <3>5. \A j \in ends : (j > s[r] /\ \A k \in ends : k > s[r] => j <= k) => j = s[r + 1]
      BY <3>1, <3>2, <3>3, <3>4
    <3>6. s[r + 1] > s[r] /\ \A k \in ends : k > s[r] => s[r + 1] <= k
      BY <3>1, <3>3
    <3> QED BY <3>2, <3>5, <3>6 DEF end
  <2>14. ASSUME NEW r \in 1..n PROVE SubSeq(text, s[r] + 1, s[r + 1] - 1) = list[r]
    <3> DEFINE item == list[r]
               sub == SubSeq(text, s[r] + 1, s[r + 1] - 1)
    <3>1. /\ item \in Text /\ Len(item) \in Nat /\ Len(item) >= 1
          /\ s[r] \in Nat /\ s[r + 1] = s[r] + Len(item) + 1
          /\ \A k \in 1..Len(item) : s[r] + k \in 1..m /\ text[s[r] + k] = item[k]
      BY <1>1, <1>2, <2>3, <2>7 DEF n
    <3> HIDE DEF item
    <3>2. s[r + 1] - 1 = s[r] + Len(item) /\ s[r] + 1 \in Int /\ s[r] + Len(item) \in Int
          /\ s[r] + 1 <= s[r] + Len(item)
      BY <3>1
    <3>3. sub = SubSeq(text, s[r] + 1, s[r] + Len(item))
      BY <3>2
    <3> HIDE DEF sub
    <3>4. \A i \in s[r] + 1..s[r] + Len(item) : text[i] \in 0..255
      <4> TAKE i \in s[r] + 1..s[r] + Len(item)
      <4>1. i - s[r] \in 1..Len(item) /\ s[r] + (i - s[r]) = i
        BY <3>1
      <4>2. i \in 1..m
        BY <4>1, <3>1
      <4> QED BY <4>2, <1>3, TextBytes DEF m
    <3>5. /\ sub \in Text
          /\ Len(sub) = (s[r] + Len(item)) - (s[r] + 1) + 1
          /\ \A i \in 1..(s[r] + Len(item)) - (s[r] + 1) + 1 :
               sub[i] = text[s[r] + 1 + i - 1]
      BY <3>2, <3>3, <3>4, SubSeqProperties, SMTT(30) DEF Text
    <3>6. (s[r] + Len(item)) - (s[r] + 1) + 1 = Len(item)
      BY <3>1, SMTT(30)
    <3>7. \A i \in 1..Len(item) : sub[i] = item[i]
      <4> TAKE i \in 1..Len(item)
      <4>1. s[r] + 1 + i - 1 = s[r] + i
        BY <3>1
      <4> QED BY <4>1, <3>1, <3>5, <3>6
    <3>8. sub = item
      BY <3>1, <3>5, <3>6, <3>7, SeqEqual DEF Text
    <3> QED BY <3>8 DEF sub, item
  <2>15. split_csv(text) = [r \in 1..n |-> list[r]]
    <3>1. \A r \in 1..n : SubSeq(text, ranked(r) + 1, end(ranked(r)) - 1) = list[r]
      BY <2>12, <2>13, <2>14
    <3> QED BY <3>1, <2>11, <1>4
  <2>16. list = [r \in 1..n |-> list[r]]
    BY LenProperties DEF n
  <2> QED BY <2>15, <2>16 DEF text
<1> QED BY <1>6, <1>7

-----------------------------------------------------------------------------
(***************************************************************************)
(* Filters.                                                                *)
(***************************************************************************)
\* The kinds of values of a filter map.
LEMMA DartValues ==
  ASSUME NEW v \in DartValue
  PROVE  \/ v = <<"null", 0>> /\ v[1] = "null"
         \/ v[1] = "int" /\ v[2] \in Int /\ v = <<"int", v[2]>>
         \/ v[1] = "bool" /\ v[2] \in BOOLEAN /\ v = <<"bool", v[2]>>
         \/ v[1] = "text" /\ v[2] \in Text /\ v = <<"text", v[2]>>
         \/ v[1] = "list" /\ v[2] \in Seq(Text) /\ v = <<"list", v[2]>>
  BY DEF DartValue

\* The texts of a value.
LEMMA ValueTexts ==
  ASSUME NEW v \in DartValue
  PROVE  /\ v[1] = "null" => FilterValueToString(v) = <<>>
         /\ v[1] = "int" => FilterValueToString(v) = Decimal(v[2])
         /\ v[1] = "bool" => FilterValueToString(v) = BoolText(v[2])
         /\ v[1] = "text" => FilterValueToString(v) = v[2]
         /\ v[1] = "list" => FilterValueToString(v) = Joined(v[2])
  BY DEF FilterValueToString

\* The texts of truth values.
LEMMA BoolTexts ==
  /\ TrueText \in Text /\ FalseText \in Text
  /\ Len(TrueText) = 4 /\ Len(FalseText) = 5 /\ TrueText # FalseText
  /\ TrueText[1] = 116 /\ FalseText[1] = 102
  /\ \A i \in 1..4 : TrueText[i] # 0 /\ TrueText[i] # Comma
  /\ \A i \in 1..5 : FalseText[i] # 0 /\ FalseText[i] # Comma
<1>1. /\ TrueText \in Text /\ FalseText \in Text
      /\ Len(TrueText) = 4 /\ Len(FalseText) = 5
  BY DEF TrueText, FalseText, Text
<1>2. TrueText[1] = 116 /\ FalseText[1] = 102
  BY DEF TrueText, FalseText
<1>3. /\ \A i \in 1..4 : TrueText[i] # 0 /\ TrueText[i] # Comma
      /\ \A i \in 1..5 : FalseText[i] # 0 /\ FalseText[i] # Comma
  <2>1. /\ TrueText[1] = 116 /\ TrueText[2] = 114 /\ TrueText[3] = 117 /\ TrueText[4] = 101
        /\ FalseText[1] = 102 /\ FalseText[2] = 97 /\ FalseText[3] = 108
        /\ FalseText[4] = 115 /\ FalseText[5] = 101
    BY DEF TrueText, FalseText
  <2>2. \A i \in 1..4 : i = 1 \/ i = 2 \/ i = 3 \/ i = 4
    OBVIOUS
  <2>3. \A i \in 1..5 : i = 1 \/ i = 2 \/ i = 3 \/ i = 4 \/ i = 5
    OBVIOUS
  <2> QED BY <2>1, <2>2, <2>3 DEF Comma
<1> QED BY <1>1, <1>2, <1>3

\* The same of either of them.
LEMMA BoolTextIs ==
  ASSUME NEW text \in {TrueText, FalseText}
  PROVE  /\ text \in Text /\ text # <<>> /\ text[1] \in {116, 102}
         /\ \A p \in 1..Len(text) : text[p] # 0 /\ text[p] # Comma
         /\ ~ HasNul(text)
<1>1. text \in Text /\ text # <<>> /\ text[1] \in {116, 102}
  <2>1. CASE text = TrueText
    <3>1. text \in Text /\ Len(text) = 4 /\ text[1] = 116
      BY <2>1, BoolTexts
    <3> QED BY <3>1
  <2>2. CASE text = FalseText
    <3>1. text \in Text /\ Len(text) = 5 /\ text[1] = 102
      BY <2>2, BoolTexts
    <3> QED BY <3>1
  <2> QED BY <2>1, <2>2
<1>2. ASSUME NEW p \in 1..Len(text) PROVE text[p] # 0 /\ text[p] # Comma
  <2>1. CASE text = TrueText
    <3>1. p \in 1..4
      BY <2>1, BoolTexts
    <3> QED BY <2>1, <3>1, BoolTexts
  <2>2. CASE text = FalseText
    <3>1. p \in 1..5
      BY <2>2, BoolTexts
    <3> QED BY <2>2, <3>1, BoolTexts
  <2> QED BY <2>1, <2>2
<1>3. ~ HasNul(text)
  BY <1>1, <1>2, TextBytes DEF HasNul
<1> QED BY <1>1, <1>2, <1>3

\* The text of a number of two bytes is converted to that number.
LEMMA SmallDecimal ==
  ASSUME NEW n \in Nat, n <= 65535
  PROVE  /\ IsNumber(Decimal(n)) /\ FromChars(Decimal(n)) = n
         /\ ~ HasNul(Decimal(n))
<1>1. IsNumber(Decimal(n)) /\ FromChars(Decimal(n)) = n
  <2>1. n \in Int /\ n >= 0 /\ ~ (n > TooLarge)
    BY DEF TooLarge
  <2> QED BY <2>1, DecimalIs
<1> QED BY <1>1 DEF IsNumber, HasNul, Digits

\* Which filters are numbers, lists and truth values, and for whom.
LEMMA FilterKeys ==
  /\ DOMAIN Numeric = is_uint16_key \cup {"SubjectLength"}
  /\ \A key \in is_uint16_key : Numeric[key] = 65535
  /\ Numeric["SubjectLength"] = 255
  /\ "SubjectLength" \notin is_uint16_key
  /\ Listed = is_string_array_key /\ Boolean = is_bool_key
  /\ is_string_array_key \cap DOMAIN Numeric = {}
  /\ is_bool_key \cap DOMAIN Numeric = {}
  /\ is_bool_key \cap is_string_array_key = {}
  BY DEF Numeric, is_uint16_key, is_string_array_key, is_bool_key, Listed, Boolean

\* The types of their variants.
LEMMA ExpectedIs ==
  ASSUME NEW key
  PROVE  /\ key \in DOMAIN Numeric =>
              Expected(key) = IF Numeric[key] = 255 THEN "y" ELSE "q"
         /\ key \in Listed => Expected(key) = "as"
         /\ key \in Boolean => Expected(key) = "b"
         /\ key \notin DOMAIN Numeric /\ key \notin Listed /\ key \notin Boolean
              => Expected(key) = "s"
<1>1. ~ (key \in DOMAIN Numeric /\ key \in Listed)
      /\ ~ (key \in DOMAIN Numeric /\ key \in Boolean)
      /\ ~ (key \in Listed /\ key \in Boolean)
  BY FilterKeys
<1>2. CASE key \in DOMAIN Numeric
  BY <1>1, <1>2, SMT DEF Expected
<1>3. CASE key \in Listed
  BY <1>1, <1>3, SMT DEF Expected
<1>4. CASE key \in Boolean
  BY <1>1, <1>4, SMT DEF Expected
<1>5. CASE key \notin DOMAIN Numeric /\ key \notin Listed /\ key \notin Boolean
  BY <1>5, SMT DEF Expected
<1> QED BY <1>2, <1>3, <1>4, <1>5

\* What a filter of each kind is converted to.
LEMMA Converted ==
  ASSUME NEW key, NEW text
  PROVE  /\ key \in DOMAIN Numeric =>
              ConvertFilter(key, text) = parse_uint(Expected(key), Numeric[key], text)
         /\ key \in Listed =>
              ConvertFilter(key, text) = Parsed(TRUE, <<"as", split_csv(text)>>)
         /\ key \in Boolean =>
              ConvertFilter(key, text) =
                IF text \in {TrueText, FalseText}
                THEN Parsed(TRUE, <<"b", text = TrueText>>) ELSE Malformed
         /\ key \notin DOMAIN Numeric /\ key \notin Listed /\ key \notin Boolean =>
              ConvertFilter(key, text) = Parsed(TRUE, <<"s", text>>)
<1>1. ASSUME key \in DOMAIN Numeric
      PROVE  ConvertFilter(key, text) = parse_uint(Expected(key), Numeric[key], text)
  <2>1. CASE key \in is_uint16_key
    <3>1. /\ Numeric[key] = 65535 /\ key # "SubjectLength"
          /\ key \notin is_string_array_key /\ key \notin is_bool_key
      BY <2>1, FilterKeys
    <3>2. ConvertFilter(key, text) = parse_uint("q", 65535, text)
      BY <2>1, <3>1, SMT DEF ConvertFilter
    <3> QED BY <3>1, <3>2, <1>1, ExpectedIs
  <2>2. CASE key = "SubjectLength"
    <3>1. /\ key \notin is_uint16_key /\ Numeric[key] = 255
          /\ key \notin is_string_array_key /\ key \notin is_bool_key
      BY <2>2, FilterKeys
    <3>2. ConvertFilter(key, text) = parse_uint("y", 255, text)
      BY <2>2, <3>1, SMT DEF ConvertFilter
    <3> QED BY <3>1, <3>2, <1>1, ExpectedIs
  <2>3. key \in is_uint16_key \/ key = "SubjectLength"
    BY <1>1, FilterKeys
  <2> QED BY <2>1, <2>2, <2>3
<1>2. ASSUME key \in Listed
      PROVE  ConvertFilter(key, text) = Parsed(TRUE, <<"as", split_csv(text)>>)
  <2>1. /\ key \in is_string_array_key /\ key \notin is_bool_key
        /\ key \notin is_uint16_key /\ key # "SubjectLength"
    BY <1>2, FilterKeys
  <2> QED BY <2>1, SMT DEF ConvertFilter
<1>3. ASSUME key \in Boolean
      PROVE  ConvertFilter(key, text) =
               IF text \in {TrueText, FalseText}
               THEN Parsed(TRUE, <<"b", text = TrueText>>) ELSE Malformed
  <2>1. /\ key \in is_bool_key /\ key \notin is_string_array_key
        /\ key \notin is_uint16_key /\ key # "SubjectLength"
    BY <1>3, FilterKeys
  <2> QED BY <2>1, SMT DEF ConvertFilter
<1>4. ASSUME key \notin DOMAIN Numeric, key \notin Listed, key \notin Boolean
      PROVE  ConvertFilter(key, text) = Parsed(TRUE, <<"s", text>>)
  <2>1. /\ key \notin is_bool_key /\ key \notin is_string_array_key
        /\ key \notin is_uint16_key /\ key # "SubjectLength"
    BY <1>4, FilterKeys
  <2> QED BY <2>1, SMT DEF ConvertFilter
<1> QED BY <1>1, <1>2, <1>3, <1>4

\* A joined list has a zero byte only if one of its items has.
LEMMA JoinedNul ==
  ASSUME NEW list \in Seq(Text),
         \A i \in 1..Len(list) : \A k \in 1..Len(list[i]) : list[i][k] # 0
  PROVE  ~ HasNul(Joined(list))
<1> DEFINE text == Joined(list)
<1>1. text \in Text /\ DOMAIN text = 1..Len(text)
  BY JoinedIs, TextBytes
<1>2. CASE list = <<>>
  <2>1. text = <<>>
    BY <1>2, JoinedIs
  <2> QED BY <2>1 DEF HasNul
<1>3. CASE list # <<>>
  <2>1. PICK s : Separates(s, list, text)
    BY <1>3, JoinedIs
  <2> HIDE DEF text
  <2>2. ASSUME NEW p \in 1..Len(text) PROVE text[p] # 0
    <3>1. \/ \E i \in 2..Len(list) : p = s[i]
          \/ \E i \in 1..Len(list) : \E k \in 1..Len(list[i]) : p = s[i] + k
      BY <2>1 DEF Separates
    <3>2. CASE \E i \in 2..Len(list) : p = s[i]
      BY <3>2, <2>1 DEF Separates, Comma
    <3>3. CASE \E i \in 1..Len(list) : \E k \in 1..Len(list[i]) : p = s[i] + k
      <4>1. PICK i \in 1..Len(list) : \E k \in 1..Len(list[i]) : p = s[i] + k
        BY <3>3
      <4>2. PICK k \in 1..Len(list[i]) : p = s[i] + k
        BY <4>1
      <4>3. text[p] = list[i][k]
        BY <4>2, <2>1 DEF Separates
      <4> QED BY <4>3
    <3> QED BY <3>1, <3>2, <3>3
  <2> QED BY <2>2, <1>1 DEF HasNul, text
<1> QED BY <1>2, <1>3

\* Without a comma the text of a list is the text of its only item.
LEMMA JoinedOne ==
  ASSUME NEW list \in Seq(Text), Joined(list) # <<>>,
         \A p \in 1..Len(Joined(list)) : Joined(list)[p] # Comma
  PROVE  list = <<Joined(list)>>
<1> DEFINE text == Joined(list)
<1>1. list # <<>>
  BY JoinedIs
<1>2. PICK s : Separates(s, list, text)
  BY <1>1, JoinedIs
<1>3. \A p \in 1..Len(text) : text[p] # Comma
  OBVIOUS
<1>4. text \in Text /\ Len(text) \in Nat
  BY JoinedIs, TextBytes
<1> HIDE DEF text
<1>5. Len(list) \in Nat /\ Len(list) # 0
  BY <1>1
<1>6. ~ (2 \in 2..Len(list))
  BY <1>2, <1>3 DEF Separates
<1>7. Len(list) = 1
  <2>1. \A n \in Nat : n # 0 /\ ~ (2 \in 2..n) => n = 1
    OBVIOUS
  <2> QED BY <1>5, <1>6, <2>1, Zenon
<1>8. list[1] \in Text /\ Len(list[1]) \in Nat /\ list = <<list[1]>>
  <2>1. 1 \in 1..Len(list)
    BY <1>7
  <2>2. list[1] \in Text
    BY <2>1, ElementOfSeq
  <2>3. Len(list[1]) \in Nat
    BY <2>2, TextBytes
  <2>4. list = <<list[1]>>
    <3>1. \A x \in Text : /\ <<x>> \in Seq(Text) /\ Len(<<x>>) = 1
                           /\ <<x>>[1] = x
      OBVIOUS
    <3>2. <<list[1]>> \in Seq(Text) /\ Len(<<list[1]>>) = 1 /\ <<list[1]>>[1] = list[1]
      BY <2>2, <3>1
    <3>3. \A i \in 1..Len(list) : list[i] = <<list[1]>>[i]
      BY <1>7, <3>2
    <3> QED BY <3>2, <3>3, <1>7, SeqEqual
  <2> QED BY <2>2, <2>3, <2>4
<1>9. /\ s[1] = 0 /\ s[2] = Len(text) + 1 /\ s[2] = s[1] + Len(list[1]) + 1
      /\ \A k \in 1..Len(list[1]) : text[s[1] + k] = list[1][k]
  <2>1. 1 \in 1..Len(list) /\ Len(list) + 1 = 2 /\ 1 + 1 = 2
    BY <1>7
  <2>2. s[Len(list) + 1] = Len(text) + 1 /\ s[1] = 0
    BY <1>2 DEF Separates
  <2>3. \A i \in 1..Len(list) :
          /\ s[i + 1] = s[i] + Len(list[i]) + 1
          /\ \A k \in 1..Len(list[i]) : text[s[i] + k] = list[i][k]
    BY <1>2 DEF Separates
  <2>4. s[1 + 1] = s[1] + Len(list[1]) + 1
        /\ \A k \in 1..Len(list[1]) : text[s[1] + k] = list[1][k]
    <3>1. 1 \in 1..Len(list)
      BY <2>1
    <3> QED BY <3>1, <2>3
  <2> QED BY <2>1, <2>2, <2>4
<1>10. Len(list[1]) = Len(text) /\ \A k \in 1..Len(text) : list[1][k] = text[k]
  BY <1>4, <1>8, <1>9
<1>11. list[1] = text
  BY <1>4, <1>8, <1>10, SeqEqual DEF Text
<1> QED BY <1>8, <1>11 DEF text

\* What fits a filter of each kind.
LEMMA FitsMeans ==
  ASSUME NEW key, NEW v, Fits(key, v)
  PROVE  /\ key \in DOMAIN Numeric => v[1] = "int" /\ v[2] \in 0..Numeric[key]
         /\ key \in Listed =>
              /\ v[1] = "list"
              /\ \A i \in DOMAIN v[2] :
                   /\ v[2][i] # <<>>
                   /\ \A j \in DOMAIN v[2][i] : v[2][i][j] \notin {0, Comma}
         /\ key \in Boolean => v[1] = "bool"
         /\ key \notin DOMAIN Numeric /\ key \notin Listed /\ key \notin Boolean
              => v[1] = "text" /\ ~ HasNul(v[2])
<1>1. CASE key \in DOMAIN Numeric
  <2>1. key \notin Listed /\ key \notin Boolean
    BY <1>1, FilterKeys
  <2> QED BY <1>1, <2>1, SMT DEF Fits
<1>2. CASE key \in Listed
  <2>1. key \notin DOMAIN Numeric /\ key \notin Boolean
    BY <1>2, FilterKeys
  <2> QED BY <1>2, <2>1, SMT DEF Fits
<1>3. CASE key \in Boolean
  <2>1. key \notin DOMAIN Numeric /\ key \notin Listed
    BY <1>3, FilterKeys
  <2> QED BY <1>3, <2>1, SMT DEF Fits
<1>4. CASE key \notin DOMAIN Numeric /\ key \notin Listed /\ key \notin Boolean
  BY <1>4, SMT DEF Fits
<1> QED BY <1>1, <1>2, <1>3, <1>4

\* The limits of the numeric filters.
LEMMA Limits ==
  ASSUME NEW key \in DOMAIN Numeric
  PROVE  Numeric[key] \in Nat /\ Numeric[key] <= 65535
<1>1. Numeric[key] = 65535 \/ Numeric[key] = 255
  BY FilterKeys
<1> QED BY <1>1

\* A value that fits its filter has a text without a zero byte, which is
\* converted to that value.
LEMMA FitsArrives ==
  ASSUME NEW key, NEW v \in DartValue, Fits(key, v)
  PROVE  LET text == FilterValueToString(v)
         IN  /\ ~ HasNul(text)
             /\ ConvertFilter(key, text).ok
             /\ ConvertFilter(key, text).variant[2] = v[2]
<1> DEFINE text == FilterValueToString(v)
           c == ConvertFilter(key, text)
<1>1. CASE key \in DOMAIN Numeric
  <2>1. /\ v[1] = "int" /\ v[2] \in 0..Numeric[key]
        /\ Numeric[key] \in Nat /\ Numeric[key] <= 65535
    BY <1>1, FitsMeans, Limits
  <2>2. FilterValueToString(v) = Decimal(v[2])
    BY <2>1, ValueTexts
  <2>3. v[2] \in Nat /\ v[2] <= 65535 /\ v[2] <= Numeric[key]
    BY <2>1
  <2> HIDE DEF text
  <2>4. IsNumber(text) /\ FromChars(text) = v[2]
    BY <2>2, <2>3, SmallDecimal DEF text
  <2>5. ~ HasNul(text)
    BY <2>2, <2>3, SmallDecimal DEF text
  <2>6. ConvertFilter(key, text) = parse_uint(Expected(key), Numeric[key], text)
    BY <1>1, Converted
  <2>7. c = Parsed(TRUE, <<Expected(key), v[2]>>)
    BY <2>4, <2>3, <2>6 DEF parse_uint
  <2> HIDE DEF c
  <2>8. c.ok /\ c.variant[2] = v[2]
    BY <2>7 DEF Parsed
  <2> QED BY <2>5, <2>8 DEF c, text
<1>2. CASE key \in Listed
  <2>1. /\ v[1] = "list"
        /\ \A i \in DOMAIN v[2] :
             /\ v[2][i] # <<>>
             /\ \A j \in DOMAIN v[2][i] : v[2][i][j] \notin {0, Comma}
    BY <1>2, FitsMeans
  <2>2. v[2] \in Seq(Text) /\ text = Joined(v[2])
    BY <2>1, ValueTexts, DartValues
  <2>3. DOMAIN v[2] = 1..Len(v[2])
    BY <2>2
  <2>4. \A i \in 1..Len(v[2]) : DOMAIN v[2][i] = 1..Len(v[2][i])
    <3>1. ASSUME NEW i \in 1..Len(v[2]) PROVE v[2][i] \in Text
      BY <2>2, ElementOfSeq
    <3> QED BY <3>1, TextBytes
  <2>5. \A i \in 1..Len(v[2]) :
          /\ v[2][i] # <<>>
          /\ \A k \in 1..Len(v[2][i]) : v[2][i][k] # 0 /\ v[2][i][k] # Comma
    BY <2>1, <2>3, <2>4
  <2>6. Items(v[2])
    BY <2>5 DEF Items
  <2>7. split_csv(text) = v[2]
    BY <2>2, <2>6, SplitJoined
  <2>8. ~ HasNul(text)
    BY <2>2, <2>5, JoinedNul
  <2> HIDE DEF text
  <2>9. c = Parsed(TRUE, <<"as", v[2]>>)
    <3>1. c = Parsed(TRUE, <<"as", split_csv(text)>>)
      BY <1>2, Converted, Zenon
    <3> HIDE DEF c
    <3> QED BY <2>7, <3>1
  <2> HIDE DEF c
  <2>10. c.ok /\ c.variant[2] = v[2]
    BY <2>9 DEF Parsed
  <2> QED BY <2>8, <2>10 DEF c, text
<1>3. CASE key \in Boolean
  <2>1. v[2] \in BOOLEAN /\ text = BoolText(v[2])
    BY <1>3, FitsMeans, ValueTexts, DartValues
  <2> HIDE DEF text
  <2>2. text = IF v[2] THEN TrueText ELSE FalseText
    BY <2>1 DEF BoolText
  <2>3. text \in {TrueText, FalseText} /\ (text = TrueText) = v[2]
    <3>1. CASE v[2] = TRUE
      BY <3>1, <2>2
    <3>2. CASE v[2] = FALSE
      BY <3>2, <2>2, BoolTexts
    <3> QED BY <3>1, <3>2, <2>1
  <2>4. ~ HasNul(text)
    BY <2>3, BoolTextIs
  <2>5. c = Parsed(TRUE, <<"b", text = TrueText>>)
    BY <1>3, <2>3, Converted, Zenon
  <2> HIDE DEF c
  <2>6. c.ok /\ c.variant[2] = v[2]
    BY <2>3, <2>5 DEF Parsed
  <2> QED BY <2>4, <2>6 DEF c, text
<1>4. CASE key \notin DOMAIN Numeric /\ key \notin Listed /\ key \notin Boolean
  <2>1. v[1] = "text" /\ ~ HasNul(v[2])
    BY <1>4, FitsMeans, Zenon
  <2>2. text = v[2]
    BY <2>1, ValueTexts
  <2> HIDE DEF text
  <2>3. c = Parsed(TRUE, <<"s", v[2]>>)
    BY <1>4, <2>2, Converted
  <2> HIDE DEF c
  <2>4. c.ok /\ c.variant[2] = v[2]
    BY <2>3 DEF Parsed
  <2> QED BY <2>1, <2>2, <2>4 DEF c, text
<1> QED BY <1>1, <1>2, <1>3, <1>4

\* What is converted at all is converted to the type that is expected.
LEMMA TypeExpected ==
  ASSUME NEW key, NEW text, ConvertFilter(key, text).ok
  PROVE  ConvertFilter(key, text).variant[1] = Expected(key)
<1> DEFINE c == ConvertFilter(key, text)
<1>1. c.ok /\ ~ Malformed.ok
  BY DEF Malformed, Parsed
<1>2. \A type, value : Parsed(TRUE, <<type, value>>).variant[1] = type
  BY DEF Parsed
<1>3. CASE key \in DOMAIN Numeric
  <2>1. c = parse_uint(Expected(key), Numeric[key], text)
    BY <1>3, Converted
  <2> HIDE DEF c
  <2>2. c = Parsed(TRUE, <<Expected(key), FromChars(text)>>) \/ c = Malformed
    BY <2>1, Zenon DEF parse_uint
  <2>3. c = Parsed(TRUE, <<Expected(key), FromChars(text)>>)
    BY <2>2, <1>1
  <2> QED BY <2>3, <1>2 DEF c
<1>4. CASE key \in Listed
  <2>1. c = Parsed(TRUE, <<"as", split_csv(text)>>)
    BY <1>4, Converted, Zenon
  <2>2. Expected(key) = "as"
    BY <1>4, ExpectedIs
  <2> HIDE DEF c
  <2> QED BY <2>1, <2>2, <1>2 DEF c
<1>5. CASE key \in Boolean
  <2>1. c = IF text \in {TrueText, FalseText}
            THEN Parsed(TRUE, <<"b", text = TrueText>>) ELSE Malformed
    BY <1>5, Converted, Zenon
  <2>2. Expected(key) = "b"
    BY <1>5, ExpectedIs
  <2> HIDE DEF c
  <2>3. c = Parsed(TRUE, <<"b", text = TrueText>>) \/ c = Malformed
    BY <2>1, Zenon
  <2>4. c = Parsed(TRUE, <<"b", text = TrueText>>)
    BY <2>3, <1>1
  <2>5. c.variant[1] = "b"
    BY <2>4, <1>2, Zenon
  <2> QED BY <2>2, <2>5 DEF c
<1>6. CASE key \notin DOMAIN Numeric /\ key \notin Listed /\ key \notin Boolean
  <2>1. c = Parsed(TRUE, <<"s", text>>)
    BY <1>6, Converted
  <2>2. Expected(key) = "s"
    BY <1>6, ExpectedIs
  <2> HIDE DEF c
  <2> QED BY <2>1, <2>2, <1>2 DEF c
<1> QED BY <1>3, <1>4, <1>5, <1>6

\* The text of digits comes from a number, from that text, or from a list of it only.
LEMMA DigitsFrom ==
  ASSUME NEW v \in DartValue, IsNumber(FilterValueToString(v))
  PROVE  LET text == FilterValueToString(v)
         IN  /\ text \in Text
             /\ \/ v[1] = "int" /\ v[2] \in Nat /\ text = Decimal(v[2])
                \/ v = <<"text", text>>
                \/ v = <<"list", <<text>>>>
<1> DEFINE text == FilterValueToString(v)
<1>1. text \in Text
  <2>1. <<>> \in Text
    BY DEF Text
  <2>2. v[1] = "int" => text \in Text
    <3>1. ASSUME v[1] = "int" PROVE text \in Text
      <4>1. text = Decimal(v[2]) /\ v[2] \in Int
        BY <3>1, ValueTexts, DartValues
      <4> QED BY <4>1, DecimalIs
    <3> QED BY <3>1
  <2>3. v[1] = "bool" => text \in Text
    BY ValueTexts, BoolTexts DEF BoolText
  <2>4. v[1] = "list" => text \in Text
    <3>1. ASSUME v[1] = "list" PROVE text \in Text
      <4>1. text = Joined(v[2]) /\ v[2] \in Seq(Text)
        BY <3>1, ValueTexts, DartValues
      <4> QED BY <4>1, JoinedIs
    <3> QED BY <3>1
  <2>5. v[1] = "text" => text \in Text
    BY ValueTexts, DartValues
  <2>6. v[1] = "null" => text \in Text
    BY <2>1, ValueTexts
  <2> HIDE DEF text
  <2>7. v[1] \in {"null", "int", "bool", "text", "list"}
    BY DartValues
  <2> QED BY <2>2, <2>3, <2>4, <2>5, <2>6, <2>7
<1>2. /\ text # <<>> /\ DOMAIN text = 1..Len(text) /\ Len(text) \in Nat
      /\ \A i \in 1..Len(text) : text[i] \in Digits
  <2>1. IsNumber(text)
    OBVIOUS
  <2> HIDE DEF text
  <2> QED BY <2>1, <1>1, TextBytes DEF IsNumber
<1>3. 1 \in 1..Len(text) /\ text[1] \in 48..57
  <2> HIDE DEF text
  <2>1. Len(text) # 0
    BY <1>1, <1>2 DEF Text
  <2>2. 1 \in 1..Len(text)
    BY <2>1, <1>2
  <2> QED BY <2>2, <1>2 DEF Digits
<1>4. CASE v[1] = "null"
  BY <1>2, <1>4, ValueTexts
<1>5. CASE v[1] = "int"
  <2>1. text = Decimal(v[2]) /\ v[2] \in Int
    BY <1>5, ValueTexts, DartValues
  <2>2. ~ (v[2] < 0)
    <3>1. v[2] < 0 => text[1] = Minus
      BY <2>1, DecimalIs
    <3> HIDE DEF text
    <3> QED BY <3>1, <1>3 DEF Minus
  <2> QED BY <2>1, <2>2, <1>1, <1>5
<1>6. CASE v[1] = "bool"
  <2>1. text \in {TrueText, FalseText}
    BY <1>6, ValueTexts DEF BoolText
  <2>2. text[1] \in {116, 102}
    <3> HIDE DEF text
    <3> QED BY <2>1, BoolTextIs
  <2> QED BY <2>2, <1>3
<1>7. CASE v[1] = "text"
  <2>1. v = <<"text", text>>
    BY <1>7, ValueTexts, DartValues
  <2> QED BY <2>1, <1>1
<1>8. CASE v[1] = "list"
  <2>1. v[2] \in Seq(Text) /\ text = Joined(v[2]) /\ v = <<"list", v[2]>>
    BY <1>8, ValueTexts, DartValues
  <2>2. \A i \in 1..Len(text) : text[i] # Comma
    BY <1>2 DEF Digits, Comma
  <2>3. v[2] = <<text>>
    BY <2>1, <2>2, <1>2, JoinedOne
  <2> QED BY <2>1, <2>3, <1>1
<1> QED BY <1>4, <1>5, <1>6, <1>7, <1>8, DartValues

\* What is converted to a number is in the range of its type, and is what the value
\* says.
LEMMA NumberFrom ==
  ASSUME NEW key \in DOMAIN Numeric, NEW v \in DartValue,
         ConvertFilter(key, FilterValueToString(v)).ok
  PROVE  LET n == ConvertFilter(key, FilterValueToString(v)).variant[2]
         IN  n \in 0..Numeric[key] /\ SaysNumber(v, n)
<1> DEFINE text == FilterValueToString(v)
           c == ConvertFilter(key, text)
           n == FromChars(text)
<1>1. c = parse_uint(Expected(key), Numeric[key], text)
  BY Converted
<1>2. Numeric[key] \in Nat /\ Numeric[key] <= 65535
  BY Limits
<1>3. c.ok
  OBVIOUS
<1>4. IsNumber(text) /\ n <= Numeric[key] /\ c = Parsed(TRUE, <<Expected(key), n>>)
  <2> HIDE DEF text, c
  <2>1. ASSUME ~ (IsNumber(text) /\ n <= Numeric[key]) PROVE FALSE
    <3>1. c = Malformed
      BY <1>1, <2>1, Zenon DEF parse_uint
    <3>2. ~ Malformed.ok
      BY DEF Malformed, Parsed
    <3> QED BY <1>3, <3>1, <3>2
  <2>2. IsNumber(text) /\ n <= Numeric[key]
    BY <2>1
  <2>3. c = Parsed(TRUE, <<Expected(key), n>>)
    BY <1>1, <2>2, Zenon DEF parse_uint
  <2> QED BY <2>2, <2>3
<1>5. c.variant[2] = n
  <2> HIDE DEF c, n
  <2> QED BY <1>4 DEF Parsed
<1>6. /\ text \in Text
      /\ \/ v[1] = "int" /\ v[2] \in Nat /\ text = Decimal(v[2])
         \/ v = <<"text", text>>
         \/ v = <<"list", <<text>>>>
  BY <1>4, DigitsFrom
<1> HIDE DEF text, c
<1>7. n \in Nat /\ StandsFor(text, n)
  <2>1. n \in Int
    <3>1. PICK f : ByDigits(f, text) /\ FromChars(text) = f[Len(text)]
      BY <1>6, FromCharsIs
    <3>2. Len(text) \in Nat
      BY <1>6, TextBytes
    <3> QED BY <3>1, <3>2 DEF ByDigits
  <2>2. n < TooLarge
    BY <2>1, <1>2, <1>4 DEF TooLarge
  <2> QED BY <2>2, <1>4, <1>6, NumeralIs
<1>8. SaysNumber(v, n)
  <2>1. CASE v[1] = "int" /\ v[2] \in Nat /\ text = Decimal(v[2])
    <3>1. n = IF v[2] > TooLarge THEN TooLarge ELSE v[2]
      <4>1. v[2] \in Int /\ v[2] >= 0
        BY <2>1
      <4> QED BY <4>1, <2>1, DecimalIs, Zenon
    <3> HIDE DEF n
    <3>2. v[2] = n
      BY <3>1, <2>1, <1>2, <1>4, <1>7 DEF TooLarge
    <3> QED BY <3>2, <2>1 DEF SaysNumber
  <2>2. CASE v = <<"text", text>>
    <3> HIDE DEF n
    <3> QED BY <2>2, <1>7 DEF SaysNumber
  <2>3. CASE v = <<"list", <<text>>>>
    <3> HIDE DEF n
    <3>1. v[1] = "list" /\ Len(v[2]) = 1 /\ v[2][1] = text
      BY <2>3
    <3> QED BY <3>1, <1>7 DEF SaysNumber
  <2> QED BY <1>6, <2>1, <2>2, <2>3
<1> HIDE DEF n
<1>9. n \in 0..Numeric[key]
  BY <1>2, <1>4, <1>7
<1> QED BY <1>5, <1>8, <1>9 DEF c, text

\* What is converted to a truth value is that truth value, its text, or a
\* list of that text only.
LEMMA TruthFrom ==
  ASSUME NEW key \in Boolean, NEW v \in DartValue,
         ConvertFilter(key, FilterValueToString(v)).ok
  PROVE  LET b == ConvertFilter(key, FilterValueToString(v)).variant[2]
         IN  SaysTruth(v, b)
<1> DEFINE text == FilterValueToString(v)
           c == ConvertFilter(key, text)
           b == c.variant[2]
<1> SUFFICES v \in {<<"bool", b>>, <<"text", BoolText(b)>>, <<"list", <<BoolText(b)>>>>}
  BY DEF SaysTruth
<1>1. c = IF text \in {TrueText, FalseText}
          THEN Parsed(TRUE, <<"b", text = TrueText>>) ELSE Malformed
  <2> HIDE DEF text
  <2> QED BY Converted, Zenon
<1>2. text \in {TrueText, FalseText} /\ b = (text = TrueText)
  <2>1. c.ok
    OBVIOUS
  <2> HIDE DEF text, c
  <2>2. CASE text \in {TrueText, FalseText}
    <3>1. c = Parsed(TRUE, <<"b", text = TrueText>>)
      BY <1>1, <2>2, Zenon
    <3> QED BY <3>1, <2>2 DEF Parsed
  <2>3. CASE text \notin {TrueText, FalseText}
    <3>1. c = Malformed
      BY <1>1, <2>3, Zenon
    <3> QED BY <3>1, <2>1 DEF Malformed, Parsed
  <2> QED BY <2>2, <2>3
<1> HIDE DEF b
<1>3. text = BoolText(b) /\ b \in BOOLEAN
  BY <1>2 DEF BoolText
<1>4. /\ text \in Text /\ text # <<>> /\ text[1] \in {116, 102}
      /\ \A p \in 1..Len(text) : text[p] # Comma
  BY <1>2, BoolTextIs
<1>5. CASE v[1] = "null"
  BY <1>4, <1>5, ValueTexts
<1>6. CASE v[1] = "int"
  <2>1. v[2] \in Int /\ text = Decimal(v[2])
    BY <1>6, ValueTexts, DartValues
  <2>2. CASE v[2] < 0
    <3>1. text[1] = Minus
      BY <2>1, <2>2, DecimalIs
    <3> QED BY <3>1, <1>4 DEF Minus
  <2>3. CASE v[2] >= 0
    <3>1. IsNumber(text)
      BY <2>1, <2>3, DecimalIs
    <3>2. 1 \in DOMAIN text
      BY <1>4, TextBytes
    <3> QED BY <3>1, <3>2, <1>4 DEF IsNumber, Digits
  <2> QED BY <2>1, <2>2, <2>3
<1>7. CASE v[1] = "bool"
  <2>1. v[2] \in BOOLEAN /\ text = BoolText(v[2]) /\ v = <<"bool", v[2]>>
    BY <1>7, ValueTexts, DartValues
  <2>2. v[2] = b
    BY <2>1, <1>3, BoolTexts DEF BoolText
  <2> QED BY <2>1, <2>2 DEF b
<1>8. CASE v[1] = "text"
  <2>1. v = <<"text", text>>
    BY <1>8, ValueTexts, DartValues
  <2> QED BY <2>1, <1>3 DEF b
<1>9. CASE v[1] = "list"
  <2>1. v[2] \in Seq(Text) /\ text = Joined(v[2]) /\ v = <<"list", v[2]>>
    BY <1>9, ValueTexts, DartValues
  <2>2. v[2] = <<text>>
    BY <2>1, <1>4, JoinedOne
  <2> QED BY <2>1, <2>2, <1>3 DEF b
<1> QED BY <1>5, <1>6, <1>7, <1>8, <1>9, DartValues

(***************************************************************************)
(* The inductive invariant of the way out: the texts are those of the      *)
(* filter map, none with a zero byte once they are sent on, and a map that *)
(* was refused has a value that does not fit.                              *)
(***************************************************************************)
FiltersIInv ==
  /\ stage \in {"texts", "sent"} =>
       /\ \A key \in DOMAIN filters : filters[key] \in DartValue
       /\ strings = [key \in DOMAIN filters |-> FilterValueToString(filters[key])]
  /\ FiltersArrive

\* A filter map that fits is marshalled, and its texts are those of its
\* values.
LEMMA MarshalKeeps ==
  ASSUME Marshal PROVE FiltersIInv'
<1>1. PICK n \in DOMAIN FilterSamples :
        LET map == FilterSamples[n]
            texts == [key \in DOMAIN map |-> FilterValueToString(map[key])]
        IN  /\ stage' = IF \E key \in DOMAIN map : HasNul(texts[key])
                        THEN "refused" ELSE "texts"
            /\ filters' = map
            /\ strings' = texts
  BY DEF Marshal
<1> DEFINE map == FilterSamples[n]
           texts == [key \in DOMAIN map |-> FilterValueToString(map[key])]
<1>2. filters' = map /\ strings' = texts
      /\ stage' = IF \E key \in DOMAIN map : HasNul(texts[key])
                  THEN "refused" ELSE "texts"
  BY <1>1
<1>3. \A key \in DOMAIN map :
        map[key] \in DartValue /\ texts[key] = FilterValueToString(map[key])
  BY FilterSamplesAssumption
<1>4. strings' = [key \in DOMAIN filters' |-> FilterValueToString(filters'[key])]
  BY <1>2
<1> HIDE DEF map, texts
<1>5. stage' = "refused" => \E key \in DOMAIN filters' : ~ Fits(key, filters'[key])
  <2>1. ASSUME NEW key \in DOMAIN map, HasNul(texts[key])
        PROVE  ~ Fits(key, map[key])
    BY <2>1, <1>3, FitsArrives
  <2>2. stage' = "refused" => \E key \in DOMAIN map : HasNul(texts[key])
    BY <1>2
  <2> QED BY <2>1, <2>2, <1>2
<1>6. FiltersArrive'
  BY <1>2, <1>5 DEF FiltersArrive
<1>7. \A key \in DOMAIN filters' : filters'[key] \in DartValue
  BY <1>2, <1>3
<1> QED BY <1>4, <1>6, <1>7 DEF FiltersIInv

\* Sending refuses a map only for a value that does not fit, and sends the
\* others as they are.
LEMMA SendKeeps ==
  ASSUME FiltersIInv, Send PROVE FiltersIInv'
<1> DEFINE keys == DOMAIN filters \ {""}
           converted == variant_map_from_strings(strings)
           text(key) == FilterValueToString(filters[key])
           c(key) == ConvertFilter(key, text(key))
<1>1. /\ \A key \in DOMAIN filters : filters[key] \in DartValue
      /\ strings = [key \in DOMAIN filters |-> FilterValueToString(filters[key])]
  BY DEF FiltersIInv, Send
<1>2. /\ stage' = IF converted.ok THEN "sent" ELSE "refused"
      /\ variants' = IF converted.ok THEN converted.variants ELSE Nothing
      /\ filters' = filters /\ strings' = strings
  BY DEF Send
<1>3. DOMAIN strings = DOMAIN filters
      /\ \A key \in keys : strings[key] = text(key)
  BY <1>1
<1>4. /\ converted.ok = \A key \in keys : c(key).ok
      /\ converted.variants = [key \in keys |-> c(key).variant]
  <2>1. /\ converted.ok = \A key \in keys : ConvertFilter(key, strings[key]).ok
        /\ converted.variants
             = [key \in keys |-> ConvertFilter(key, strings[key]).variant]
    BY <1>3 DEF variant_map_from_strings
  <2> HIDE DEF converted, text
  <2>2. \A key \in keys : ConvertFilter(key, strings[key]) = c(key)
    BY <1>3
  <2> QED BY <2>1, <2>2
<1> HIDE DEF converted
<1>5. CASE ~ \A key \in keys : c(key).ok
  <2>1. stage' = "refused"
    BY <1>2, <1>4, <1>5, Zenon
  <2>2. PICK key \in keys : ~ c(key).ok
    BY <1>5
  <2>3. ~ Fits(key, filters[key])
    BY <2>2, <1>1, FitsArrives
  <2>4. \E k \in DOMAIN filters' : ~ Fits(k, filters'[k])
    BY <2>3, <1>2
  <2> QED BY <2>1, <2>4 DEF FiltersIInv, FiltersArrive
<1>6. CASE \A key \in keys : c(key).ok
  <2>1. stage' = "sent" /\ variants' = [key \in keys |-> c(key).variant]
    BY <1>2, <1>4, <1>6, Zenon
  <2>2. ASSUME NEW key \in keys
        PROVE  /\ variants'[key] = c(key).variant
               /\ variants'[key][1] = Expected(key)
               /\ Fits(key, filters[key]) => variants'[key][2] = filters[key][2]
               /\ key \in DOMAIN Numeric =>
                    /\ variants'[key][2] \in 0..Numeric[key]
                    /\ SaysNumber(filters[key], variants'[key][2])
               /\ key \in Boolean => SaysTruth(filters[key], variants'[key][2])
    <3>1. filters[key] \in DartValue /\ c(key).ok
      BY <1>1, <1>6
    <3>2. variants'[key] = c(key).variant
      <4> HIDE DEF c
      <4> QED BY <2>1
    <3>3. Fits(key, filters[key]) => variants'[key][2] = filters[key][2]
      <4>1. Fits(key, filters[key]) => c(key).variant[2] = filters[key][2]
        BY <3>1, FitsArrives, Zenon
      <4> HIDE DEF c
      <4> QED BY <3>2, <4>1
    <3>4. key \in DOMAIN Numeric =>
            /\ variants'[key][2] \in 0..Numeric[key]
            /\ SaysNumber(filters[key], variants'[key][2])
      BY <3>1, <3>2, NumberFrom, Zenon
    <3>5. key \in Boolean => SaysTruth(filters[key], variants'[key][2])
      BY <3>1, <3>2, TruthFrom, Zenon
    <3>6. variants'[key][1] = Expected(key)
      BY <3>1, <3>2, TypeExpected, Zenon
    <3> QED BY <3>2, <3>3, <3>4, <3>5, <3>6
  <2> HIDE DEF c
  <2>3. DOMAIN variants' = keys
    BY <2>1
  <2>4. FiltersArrive'
    BY <1>2, <2>1, <2>2, <2>3 DEF FiltersArrive
  <2>5. /\ \A key \in DOMAIN filters' : filters'[key] \in DartValue
        /\ strings' = [key \in DOMAIN filters' |-> FilterValueToString(filters'[key])]
    BY <1>1, <1>2
  <2> QED BY <2>4, <2>5 DEF FiltersIInv
<1> QED BY <1>5, <1>6

\* Filters arrive (FiltersArrive): whatever the filter maps, those that fit
\* are sent as they were, and every variant has the expected type; a number or
\* a truth value that is sent is the one the Dart value, its text or its one
\* item says.
THEOREM FiltersArriveHolds == Spec => []FiltersArrive
<1>1. Init => FiltersIInv
  BY DEF Init, FiltersIInv, FiltersArrive
<1>2. FiltersIInv /\ [Next]_vars => FiltersIInv'
  <2> SUFFICES ASSUME FiltersIInv, [Next]_vars PROVE FiltersIInv'
    OBVIOUS
  <2>1. CASE Marshal
    BY <2>1, MarshalKeeps
  <2>2. CASE Send
    BY <2>2, SendKeeps
  <2>3. CASE Answer
    <3>1. stage' = "posted"
      BY <2>3 DEF Answer
    <3> QED BY <3>1 DEF FiltersIInv, FiltersArrive
  <2>4. CASE Cut
    <3>1. stage' = "cut"
      BY <2>4 DEF Cut
    <3> QED BY <3>1 DEF FiltersIInv, FiltersArrive
  <2>5. CASE Change
    <3>1. stage' = "changed"
      BY <2>5 DEF Change
    <3> QED BY <3>1 DEF FiltersIInv, FiltersArrive
  <2>6. CASE Receive
    <3>1. stage' \in {"received", "received_cut", "received_changed"}
      BY <2>6 DEF Receive
    <3> QED BY <3>1 DEF FiltersIInv, FiltersArrive
  <2>7. CASE Forget
    <3>1. stage' = "idle"
      BY <2>7 DEF Forget
    <3> QED BY <3>1 DEF FiltersIInv, FiltersArrive
  <2>8. CASE UNCHANGED vars
    BY <2>8 DEF vars, FiltersIInv, FiltersArrive
  <2> QED BY <2>1, <2>2, <2>3, <2>4, <2>5, <2>6, <2>7, <2>8 DEF Next
<1>3. FiltersIInv => FiltersArrive
  BY DEF FiltersIInv
<1> QED BY <1>1, <1>2, <1>3, PTL DEF Spec

-----------------------------------------------------------------------------
(***************************************************************************)
(* Reading one thing after the other.                                      *)
(***************************************************************************)
\* What reading the next thing makes of what was read before.
ReadNext(read, i, before) ==
  IF ~ before.ok THEN before
  ELSE [read[i][before.at] EXCEPT !.value = Append(before.value, @),
                                  !.slots = before.slots + @]

\* f[i] is what was read after i things.
ReadBy(f, n, read, at) ==
  /\ f[0] = Result(at, <<>>)
  /\ \A i \in 1..n : f[i] = ReadNext(read, i, f[i - 1])

\* InOrder is the last value of such a function.
LEMMA InOrderIs ==
  ASSUME NEW n \in Nat, NEW read, NEW at
  PROVE  \E f : ReadBy(f, n, read, at) /\ InOrder(n, read, at) = f[n]
<1> DEFINE S == {m \in Nat : \E f : ReadBy(f, m, read, at)}
           Defines(f) == f = [i \in 0..n |->
                                IF i = 0 THEN Result(at, <<>>)
                                ELSE ReadNext(read, i, f[i - 1])]
           upTo == CHOOSE f : Defines(f)
<1>1. 0 \in S
  <2>1. ReadBy([i \in {0} |-> Result(at, <<>>)], 0, read, at)
    BY DEF ReadBy
  <2> QED BY <2>1
<1>2. ASSUME NEW m \in Nat, m \in S PROVE m + 1 \in S
  <2>1. PICK f : ReadBy(f, m, read, at)
    BY <1>2
  <2> DEFINE g == [i \in 0..m + 1 |-> IF i <= m THEN f[i] ELSE ReadNext(read, i, f[m])]
  <2>2. \A i \in 0..m : g[i] = f[i]
    OBVIOUS
  <2>3. g[m + 1] = ReadNext(read, m + 1, f[m])
    OBVIOUS
  <2> HIDE DEF g
  <2>4. g[0] = Result(at, <<>>)
    BY <2>1, <2>2 DEF ReadBy
  <2>5. ASSUME NEW i \in 1..m + 1 PROVE g[i] = ReadNext(read, i, g[i - 1])
    <3>1. CASE i <= m
      <4>1. i \in 0..m /\ i - 1 \in 0..m /\ i \in 1..m
        BY <3>1
      <4> QED BY <4>1, <2>1, <2>2 DEF ReadBy
    <3>2. CASE i = m + 1
      <4>1. i - 1 = m /\ m \in 0..m
        BY <3>2
      <4> QED BY <4>1, <3>2, <2>2, <2>3
    <3> QED BY <3>1, <3>2
  <2>6. ReadBy(g, m + 1, read, at)
    BY <2>4, <2>5 DEF ReadBy
  <2> QED BY <2>6
<1>3. PICK f : ReadBy(f, n, read, at)
  <2>1. n \in S
    <3> HIDE DEF S
    <3> QED BY <1>1, <1>2, Induction
  <2> QED BY <2>1
<1>4. \E g : Defines(g)
  <2> DEFINE g == [i \in 0..n |-> f[i]]
  <2>1. \A i \in 0..n : g[i] = IF i = 0 THEN Result(at, <<>>)
                              ELSE ReadNext(read, i, g[i - 1])
    <3> SUFFICES ASSUME NEW i \in 0..n
                 PROVE  g[i] = IF i = 0 THEN Result(at, <<>>)
                               ELSE ReadNext(read, i, g[i - 1])
      OBVIOUS
    <3>1. CASE i = 0
      BY <3>1, <1>3 DEF ReadBy
    <3>2. CASE i # 0
      <4>1. i \in 1..n /\ i - 1 \in 0..n
        BY <3>2
      <4>2. g[i] = f[i] /\ g[i - 1] = f[i - 1]
        BY <4>1
      <4> HIDE DEF g
      <4> QED BY <3>2, <4>1, <4>2, <1>3 DEF ReadBy
    <3> QED BY <3>1, <3>2
  <2>2. Defines(g)
    <3>1. DOMAIN g = 0..n /\ g = [i \in 0..n |-> g[i]]
      OBVIOUS
    <3> HIDE DEF g
    <3> QED BY <2>1, <3>1
  <2> QED BY <2>2
<1>5. Defines(upTo)
  <2> HIDE DEF Defines
  <2> QED BY <1>4
<1>6. InOrder(n, read, at) = upTo[n]
  BY DEF InOrder, ReadNext
<1> HIDE DEF upTo
<1>7. \A i \in 0..n : upTo[i] = IF i = 0 THEN Result(at, <<>>)
                                ELSE ReadNext(read, i, upTo[i - 1])
  <2> DEFINE h == [i \in 0..n |-> IF i = 0 THEN Result(at, <<>>)
                                  ELSE ReadNext(read, i, upTo[i - 1])]
  <2>1. \A i \in 0..n : h[i] = IF i = 0 THEN Result(at, <<>>)
                              ELSE ReadNext(read, i, upTo[i - 1])
    OBVIOUS
  <2>2. upTo = h
    BY <1>5
  <2> HIDE DEF h
  <2> QED BY <2>1, <2>2
<1>8. ReadBy(upTo, n, read, at)
  <2>1. \A i \in 1..n : i \in 0..n /\ i # 0
    OBVIOUS
  <2>2. 0 \in 0..n
    OBVIOUS
  <2> QED BY <1>7, <2>1, <2>2 DEF ReadBy
<1> QED BY <1>6, <1>8

\* From offset at on, d has the bytes of e, as far as it goes.
Agree(d, at, e) == \A k \in 1..Len(e) : at + k <= Len(d) => d[at + k] = e[k]

\* A result is a record of four fields.
Shape(r) == r = [ok |-> r.ok, at |-> r.at, value |-> r.value, slots |-> r.slots]

\* r is what reading v, encoded as e, at an offset of d has to give: nothing
\* if its end is missing.
Right(r, d, at, e, v) ==
  /\ Shape(r)
  /\ r.ok <=> at + Len(e) <= Len(d)
  /\ r.ok => r.at = at + Len(e) /\ r.value = v

\* Each thing is read right, wherever it is; or wherever it is as a whole.
ReadsParts(read, d, parts, values, whole) ==
  \A i \in 1..Len(parts) : \A a \in 0..Len(d) :
    Agree(d, a, parts[i]) /\ (whole => a + Len(parts[i]) <= Len(d))
      => Right(read[i][a], d, a, parts[i], values[i])

\* The start of a sequence, and one more element.
LEMMA SubSeqGrows ==
  ASSUME NEW W, NEW v \in Seq(W)
  PROVE  /\ SubSeq(v, 1, 0) = <<>> /\ SubSeq(v, 1, Len(v)) = v
         /\ \A i \in 1..Len(v) :
              Append(SubSeq(v, 1, i - 1), v[i]) = SubSeq(v, 1, i)
<1>1. Len(v) \in Nat
  OBVIOUS
<1>2. ASSUME NEW i \in 0..Len(v)
      PROVE  /\ SubSeq(v, 1, i) \in Seq(W) /\ Len(SubSeq(v, 1, i)) = i
             /\ \A k \in 1..i : SubSeq(v, 1, i)[k] = v[k]
  OBVIOUS
<1>3. SubSeq(v, 1, 0) = <<>>
  OBVIOUS
<1>4. SubSeq(v, 1, Len(v)) = v
  BY <1>1, <1>2, SeqEqual
<1>5. ASSUME NEW i \in 1..Len(v)
      PROVE  Append(SubSeq(v, 1, i - 1), v[i]) = SubSeq(v, 1, i)
  <2> DEFINE s == SubSeq(v, 1, i - 1)
             t == SubSeq(v, 1, i)
  <2>1. /\ s \in Seq(W) /\ Len(s) = i - 1 /\ t \in Seq(W) /\ Len(t) = i
        /\ v[i] \in W
    BY <1>1, <1>2
  <2>2. /\ \A k \in 1..i - 1 : s[k] = v[k]
        /\ \A k \in 1..i : t[k] = v[k]
    BY <1>1, <1>2
  <2> HIDE DEF s, t
  <2>3. /\ Append(s, v[i]) \in Seq(W) /\ Len(Append(s, v[i])) = i
        /\ \A k \in 1..i : Append(s, v[i])[k] = IF k <= i - 1 THEN s[k] ELSE v[i]
    BY <2>1
  <2>4. \A k \in 1..i : Append(s, v[i])[k] = t[k]
    BY <2>2, <2>3
  <2>5. Append(s, v[i]) = t
    BY <2>1, <2>3, <2>4, SeqEqual
  <2> QED BY <2>5 DEF s, t
<1> QED BY <1>3, <1>4, <1>5

\* s is the result before, with r added.
Added(s, before, r) ==
  /\ Shape(s) /\ s.ok = r.ok /\ s.at = r.at
  /\ s.value = Append(before.value, r.value)
  /\ s.slots = before.slots + r.slots

\* Reading the next thing adds what was read.
LEMMA ReadNextIs ==
  ASSUME NEW read, NEW i, NEW before, before.ok, Shape(read[i][before.at])
  PROVE  Added(ReadNext(read, i, before), before, read[i][before.at])
  BY DEF ReadNext, Shape, Added

\* What is laid out in d is read in its order.
LEMMA InOrderRight ==
  ASSUME NEW d, Len(d) \in Nat, NEW parts, NEW flat, NEW o,
         Laid(o, parts, flat), Sized(parts), Len(flat) \in Nat,
         NEW W, NEW values \in Seq(W), Len(values) = Len(parts),
         NEW read, NEW whole \in BOOLEAN, NEW at \in 0..Len(d),
         ReadsParts(read, d, parts, values, whole), Agree(d, at, flat),
         whole => at + Len(flat) <= Len(d)
  PROVE  Right(InOrder(Len(parts), read, at), d, at, flat, values)
<1> DEFINE n == Len(parts)
<1>1. n \in Nat
  BY DEF Sized
<1>2. PICK f : ReadBy(f, n, read, at) /\ InOrder(n, read, at) = f[n]
  BY <1>1, InOrderIs
<1>3. /\ \A i \in 0..n : o[i] \in Nat
      /\ o[0] = 0 /\ o[n] = Len(flat)
      /\ \A i \in 1..n : /\ o[i] = o[i - 1] + Len(parts[i])
                         /\ Len(parts[i]) \in Nat /\ o[i] <= Len(flat)
  BY DEF Laid, Sized
<1> DEFINE Good(i) ==
             /\ Shape(f[i])
             /\ f[i].ok <=> at + o[i] <= Len(d)
             /\ f[i].ok => f[i].at = at + o[i] /\ f[i].value = SubSeq(values, 1, i)
           T == {i \in 0..n : Good(i)}
<1>4. 0 \in T
  <2>1. f[0] = Result(at, <<>>)
    BY <1>2 DEF ReadBy
  <2>2. Shape(f[0]) /\ f[0].ok /\ f[0].at = at /\ f[0].value = <<>>
    BY <2>1 DEF Result, Shape
  <2>3. at + o[0] = at /\ at <= Len(d) /\ 0 \in 0..n
    BY <1>1, <1>3
  <2>4. SubSeq(values, 1, 0) = <<>>
    BY SubSeqGrows
  <2> QED BY <2>2, <2>3, <2>4
<1>5. ASSUME NEW i \in 1..n, i - 1 \in T PROVE i \in T
  <2>1. Good(i - 1) /\ i - 1 \in 0..n /\ i \in 0..n
    BY <1>1, <1>5
  <2>2. f[i] = ReadNext(read, i, f[i - 1])
    BY <1>2 DEF ReadBy
  <2>3. /\ o[i] \in Nat /\ o[i - 1] \in Nat /\ o[i] = o[i - 1] + Len(parts[i])
        /\ Len(parts[i]) \in Nat /\ o[i] <= Len(flat)
    BY <1>3, <2>1
  <2> HIDE DEF n
  <2>4. CASE ~ f[i - 1].ok
    <3>1. f[i] = f[i - 1]
      BY <2>2, <2>4 DEF ReadNext
    <3>2. ~ (at + o[i] <= Len(d))
      <4>1. ~ (at + o[i - 1] <= Len(d))
        BY <2>1, <2>4
      <4>2. o[i] \in Nat /\ o[i - 1] \in Nat /\ o[i] >= o[i - 1]
        BY <2>3
      <4> QED BY <4>1, <4>2
    <3>3. Good(i)
      BY <3>1, <3>2, <2>1, <2>4
    <3> QED BY <2>1, <3>3
  <2>5. CASE f[i - 1].ok
    <3> DEFINE a == at + o[i - 1]
               r == read[i][a]
    <3>1. f[i - 1].at = a /\ a \in 0..Len(d) /\ f[i - 1].value = SubSeq(values, 1, i - 1)
      BY <2>1, <2>3, <2>5
    <3>2. Agree(d, a, parts[i])
      <4>1. ASSUME NEW k \in 1..Len(parts[i]), a + k <= Len(d)
            PROVE  d[a + k] = parts[i][k]
        <5>1. flat[o[i - 1] + k] = parts[i][k]
          BY DEF Laid, n
        <5>2. o[i - 1] + k \in 1..Len(flat) /\ at + (o[i - 1] + k) = a + k
          <6> DEFINE p == o[i - 1]
                     l == Len(parts[i])
                     total == Len(flat)
          <6>1. p \in Nat /\ l \in Nat /\ total \in Nat /\ at \in Nat /\ p + l <= total
            BY <2>3
          <6>2. k \in 1..l
            OBVIOUS
          <6> HIDE DEF p, l, total
          <6>3. p + k \in 1..total /\ at + (p + k) = (at + p) + k
            BY <6>1, <6>2
          <6> QED BY <6>3 DEF p, total
        <5>3. d[at + (o[i - 1] + k)] = flat[o[i - 1] + k]
          BY <4>1, <5>2 DEF Agree
        <5> QED BY <5>1, <5>2, <5>3
      <4> QED BY <4>1 DEF Agree
    <3>3. a + Len(parts[i]) = at + o[i]
      BY <2>3, SMTT(30)
    <3>4. whole => a + Len(parts[i]) <= Len(d)
      BY <2>3, <3>3
    <3>5. Right(r, d, a, parts[i], values[i])
      BY <3>1, <3>2, <3>4 DEF ReadsParts, n
    <3> HIDE DEF a
    <3>6. /\ Shape(f[i]) /\ f[i].ok = r.ok /\ f[i].at = r.at
          /\ f[i].value = Append(f[i - 1].value, r.value)
      <4>1. r = read[i][f[i - 1].at] /\ Shape(r)
        BY <3>1, <3>5 DEF Right
      <4> HIDE DEF r
      <4>2. Added(ReadNext(read, i, f[i - 1]), f[i - 1], read[i][f[i - 1].at])
        BY <2>5, <4>1, ReadNextIs
      <4>3. Added(f[i], f[i - 1], r)
        BY <2>2, <4>1, <4>2
      <4> QED BY <4>3 DEF Added
    <3> HIDE DEF r
    <3>7. f[i].ok <=> at + o[i] <= Len(d)
      BY <3>3, <3>5, <3>6 DEF Right
    <3>8. f[i].ok => f[i].at = at + o[i]
      BY <3>3, <3>5, <3>6 DEF Right
    <3>9. f[i].ok => f[i].value = SubSeq(values, 1, i)
      <4>1. Append(SubSeq(values, 1, i - 1), values[i]) = SubSeq(values, 1, i)
        BY SubSeqGrows DEF n
      <4> QED BY <4>1, <3>1, <3>5, <3>6 DEF Right
    <3> QED BY <2>1, <3>6, <3>7, <3>8, <3>9
  <2> QED BY <2>4, <2>5
<1>6. Good(n)
  <2> HIDE DEF T
  <2>1. \A i \in 1..n : i - 1 \in T => i \in T
    BY <1>5
  <2> HIDE DEF n
  <2>2. \A i \in 0..n : i \in T
    BY <1>1, <1>4, <2>1, BoundedInduction
  <2> QED BY <1>1, <2>2 DEF T
<1>7. SubSeq(values, 1, n) = values
  BY SubSeqGrows
<1> QED BY <1>2, <1>3, <1>6, <1>7 DEF Right

-----------------------------------------------------------------------------
(***************************************************************************)
(* Numbers and texts.                                                      *)
(***************************************************************************)
\* A number is put together from its bytes.
LEMMA ThreeBytes ==
  ASSUME NEW n \in Nat, n < Limit
  PROVE  /\ n % 256 \in 0..255 /\ (n \div 256) % 256 \in 0..255
         /\ (n \div 65536) % 256 \in 0..255
         /\ n = (n % 256) + 256 * ((n \div 256) % 256) + 65536 * ((n \div 65536) % 256)
         /\ n < 256 => (n \div 256) % 256 = 0 /\ (n \div 65536) % 256 = 0
         /\ n < 65536 => (n \div 65536) % 256 = 0
  BY DEF Limit

\* The widths of numbers.
LEMMA Widths ==
  ASSUME NEW w \in {1, 2, 4, 8}
  PROVE  w \in Nat /\ w \in 1..8 /\ (w > 2 \/ w = 1 \/ w = 2)
  OBVIOUS

\* b is n in w bytes.
Written(b, n, w) ==
  /\ Len(b) = w /\ b[1] = n % 256
  /\ w > 1 => b[2] = (n \div 256) % 256
  /\ w > 2 => b[3] = (n \div 65536) % 256
  /\ \A i \in 4..w : b[i] = 0

\* The bytes of a number.
LEMMA BytesIs ==
  ASSUME NEW n \in Nat, n < Limit, NEW w \in 1..8
  PROVE  Bytes(n, w) \in Text /\ Written(Bytes(n, w), n, w)
<1> DEFINE all == <<n % 256, (n \div 256) % 256, (n \div 65536) % 256, 0, 0, 0, 0, 0>>
<1>1. all \in Text /\ Len(all) = 8
  BY ThreeBytes DEF Text
<1>2. /\ all[1] = n % 256 /\ all[2] = (n \div 256) % 256
      /\ all[3] = (n \div 65536) % 256
      /\ all[4] = 0 /\ all[5] = 0 /\ all[6] = 0 /\ all[7] = 0 /\ all[8] = 0
  OBVIOUS
<1> HIDE DEF all
<1>3. ASSUME NEW B, NEW s \in Seq(B), Len(s) = 8
      PROVE  /\ SubSeq(s, 1, w) \in Seq(B) /\ Len(SubSeq(s, 1, w)) = w
             /\ \A i \in 1..w : SubSeq(s, 1, w)[i] = s[i]
  <2>1. 8 = Len(s) /\ w <= Len(s)
    BY <1>3
  <2> QED BY <2>1
<1>4. /\ SubSeq(all, 1, w) \in Text /\ Len(SubSeq(all, 1, w)) = w
      /\ \A i \in 1..w : SubSeq(all, 1, w)[i] = all[i]
  BY <1>1, <1>3 DEF Text
<1>5. Bytes(n, w) = SubSeq(all, 1, w)
  BY DEF Bytes, all
<1>6. \A i \in 4..w : i \in 1..w /\ all[i] = 0
  <2>1. \A i \in 4..8 : i = 4 \/ i = 5 \/ i = 6 \/ i = 7 \/ i = 8
    OBVIOUS
  <2>2. \A i \in 4..w : i \in 4..8 /\ i \in 1..w
    OBVIOUS
  <2> QED BY <1>2, <2>1, <2>2
<1>7. 1 \in 1..w /\ (w > 1 => 2 \in 1..w) /\ (w > 2 => 3 \in 1..w)
  OBVIOUS
<1> DEFINE b == SubSeq(all, 1, w)
<1>8. Written(b, n, w)
  <2>1. Len(b) = w /\ \A i \in 1..w : b[i] = all[i]
    BY <1>4
  <2> HIDE DEF b
  <2> QED BY <2>1, <1>2, <1>6, <1>7, SMTT(30) DEF Written
<1> QED BY <1>4, <1>5, <1>8

\* The numbers that w bytes can hold.
Holds(n, w) == n \in Nat /\ n < Limit /\ (w = 1 => n < 256) /\ (w = 2 => n < 65536)

\* Reading the bytes of a number gives the number.
LEMMA NumberIs ==
  ASSUME NEW d, Len(d) \in Nat, NEW at \in Nat, NEW w \in 1..8, NEW n,
         Holds(n, w), Agree(d, at, Bytes(n, w)), at + w <= Len(d)
  PROVE  Number(d, at, w) = n
<1> DEFINE b == Bytes(n, w)
<1>1. n \in Nat /\ n < Limit
  BY DEF Holds
<1>9. Written(b, n, w)
  BY <1>1, BytesIs
<1> HIDE DEF b
<1>2. /\ Len(b) = w /\ b[1] = n % 256
      /\ w > 1 => b[2] = (n \div 256) % 256
      /\ w > 2 => b[3] = (n \div 65536) % 256
      /\ \A i \in 4..w : b[i] = 0
  BY <1>9 DEF Written
<1>3. ASSUME NEW i \in 1..w PROVE d[at + i] = b[i]
  <2>1. Agree(d, at, b)
    BY DEF b
  <2>2. Len(b) = w
    BY <1>2
  <2>3. at + i <= Len(d)
    <3>1. i \in Nat /\ w \in Nat /\ i <= w
      OBVIOUS
    <3> QED BY <3>1
  <2> QED BY <2>1, <2>2, <2>3 DEF Agree
<1>4. \A i \in 4..w : i <= w /\ d[at + i] = 0
  <2>1. ASSUME NEW i \in 4..w PROVE i <= w /\ d[at + i] = 0
    <3>1. i \in 1..w /\ i <= w
      OBVIOUS
    <3>2. d[at + i] = b[i]
      BY <1>3, <3>1
    <3> QED BY <1>2, <3>1, <3>2
  <2> QED BY <2>1
<1>5. d[at + 1] = n % 256
  BY <1>2, <1>3
<1>6. (IF 2 <= w THEN d[at + 2] ELSE 0) = (n \div 256) % 256
  <2>1. CASE w > 1
    BY <1>2, <1>3, <2>1
  <2>2. CASE w = 1
    BY <1>1, <2>2, ThreeBytes DEF Holds
  <2> QED BY <2>1, <2>2
<1>7. (IF 3 <= w THEN d[at + 3] ELSE 0) = (n \div 65536) % 256
  <2>1. CASE w > 2
    BY <1>2, <1>3, <2>1
  <2>2. CASE w = 2
    BY <1>1, <2>2, ThreeBytes DEF Holds
  <2>3. CASE w = 1
    BY <1>1, <2>3, ThreeBytes DEF Holds
  <2> QED BY <2>1, <2>2, <2>3
<1>8. Number(d, at, w) = (n % 256) + 256 * ((n \div 256) % 256)
                           + 65536 * ((n \div 65536) % 256)
  <2>1. ~ \E i \in 4..w : (IF i <= w THEN d[at + i] ELSE 0) # 0
    BY <1>4
  <2>2. 1 <= w
    OBVIOUS
  <2> QED BY <2>1, <2>2, <1>5, <1>6, <1>7 DEF Number
<1> QED BY <1>1, <1>8, ThreeBytes

\* Where there are bytes there is a number.
LEMMA NumberNat ==
  ASSUME NEW d \in Text, NEW at \in Nat, NEW w \in 1..8, at + w <= Len(d)
  PROVE  Number(d, at, w) \in Nat
<1>1. Len(d) \in Nat /\ \A p \in 1..Len(d) : d[p] \in Nat
  <2>1. Len(d) \in Nat /\ \A p \in 1..Len(d) : d[p] \in 0..255
    BY TextBytes
  <2>2. \A c \in 0..255 : c \in Nat
    OBVIOUS
  <2> QED BY <2>1, <2>2, Zenon
<1>2. \A i \in 1..w : d[at + i] \in Nat
  <2>1. ASSUME NEW i \in 1..w PROVE d[at + i] \in Nat
    <3>1. at + i \in 1..Len(d)
      <4>1. Len(d) \in Nat
        BY <1>1
      <4> QED BY <4>1
    <3> QED BY <3>1, <1>1, Zenon
  <2> QED BY <2>1
<1> DEFINE byte(i) == IF i <= w THEN d[at + i] ELSE 0
<1>3. byte(1) \in Nat /\ byte(2) \in Nat /\ byte(3) \in Nat
  BY <1>1, <1>2
<1>4. Number(d, at, w) = 16777216
      \/ Number(d, at, w) = byte(1) + 256 * byte(2) + 65536 * byte(3)
  BY DEF Number
<1> HIDE DEF byte
<1> QED BY <1>3, <1>4, SMTT(30)

\* Texts of the service are byte sequences.
LEMMA AsciiBytes ==
  ASSUME NEW s \in Ascii
  PROVE  /\ s \in Text /\ Len(s) \in Nat /\ Len(s) < Limit
         /\ \A k \in 1..Len(s) : s[k] \in 0..127
<1>1. s \in Seq(0..127) /\ Len(s) < Limit
  BY DEF Ascii
<1>2. \A c \in 0..127 : c \in 0..255
  OBVIOUS
<1> HIDE DEF Limit
<1>3. s \in Seq(0..255)
  BY <1>1, <1>2
<1>4. \A k \in 1..Len(s) : s[k] \in 0..127
  BY <1>1, ElementOfSeq
<1> QED BY <1>1, <1>3, <1>4 DEF Text

\* Agreement on a whole is agreement on its parts.
LEMMA AgreeConcat ==
  ASSUME NEW d, Len(d) \in Nat, NEW at \in Nat, NEW a \in Text, NEW b \in Text,
         Agree(d, at, a \o b)
  PROVE  Agree(d, at, a) /\ Agree(d, at + Len(a), b)
<1>1. /\ Len(a) \in Nat /\ Len(b) \in Nat /\ Len(a \o b) = Len(a) + Len(b)
      /\ \A k \in 1..Len(a) : (a \o b)[k] = a[k]
      /\ \A k \in 1..Len(b) : (a \o b)[Len(a) + k] = b[k]
  BY TextConcat, TextBytes
<1> DEFINE c == a \o b
<1> HIDE DEF c
<1>2. \A k \in 1..Len(c) : at + k <= Len(d) => d[at + k] = c[k]
  BY DEF Agree, c
<1>3. ASSUME NEW k \in 1..Len(a), at + k <= Len(d) PROVE d[at + k] = a[k]
  BY <1>1, <1>2, <1>3 DEF c
<1>4. ASSUME NEW k \in 1..Len(b), (at + Len(a)) + k <= Len(d)
      PROVE  d[(at + Len(a)) + k] = b[k]
  <2>1. Len(a) + k \in 1..Len(c) /\ at + (Len(a) + k) = (at + Len(a)) + k
    BY <1>1 DEF c
  <2>2. d[at + (Len(a) + k)] = c[Len(a) + k]
    BY <1>2, <1>4, <2>1
  <2> QED BY <1>1, <2>1, <2>2 DEF c
<1> QED BY <1>3, <1>4 DEF Agree

\* What a field of each plain type holds.
PlainTypes == {"s", "y", "q", "t", "b", "as"}
FitsPlain(type, v) ==
  /\ type \in PlainTypes
  /\ type = "s" => v \in Ascii
  /\ type = "y" => v \in Below(256)
  /\ type = "q" => v \in Below(65536)
  /\ type = "t" => v \in Below(Limit)
  /\ type = "b" => v \in BOOLEAN
  /\ type = "as" => v \in Seq(Ascii) /\ Len(v) < Limit

\* Numbers and truth values are written as numbers.
LEMMA ScalarIs ==
  ASSUME NEW type \in {"y", "q", "t", "b"}, NEW v, FitsPlain(type, v)
  PROVE  /\ Width(type) \in 1..8
         /\ \E n : /\ Holds(n, Width(type)) /\ Scalar(type, n) = v
                   /\ EncodePlain(type, v) = Bytes(n, Width(type))
<1>1. CASE type = "y"
  <2>1. Width(type) = 1 /\ EncodePlain(type, v) = Bytes(v, 1) /\ Scalar(type, v) = v
    BY <1>1 DEF Width, EncodePlain, Scalar
  <2>2. Holds(v, 1)
    BY <1>1 DEF Holds, FitsPlain, Below, Limit
  <2> QED BY <2>1, <2>2
<1>2. CASE type = "q"
  <2>1. Width(type) = 2 /\ EncodePlain(type, v) = Bytes(v, 2) /\ Scalar(type, v) = v
    BY <1>2 DEF Width, EncodePlain, Scalar
  <2>2. Holds(v, 2)
    BY <1>2 DEF Holds, FitsPlain, Below, Limit
  <2> QED BY <2>1, <2>2
<1>3. CASE type = "t"
  <2>1. Width(type) = 8 /\ EncodePlain(type, v) = Bytes(v, 8) /\ Scalar(type, v) = v
    BY <1>3 DEF Width, EncodePlain, Scalar
  <2>2. Holds(v, 8)
    BY <1>3 DEF Holds, FitsPlain, Below, Limit
  <2> QED BY <2>1, <2>2
<1>4. CASE type = "b"
  <2> DEFINE n == IF v THEN 1 ELSE 0
  <2>1. Width(type) = 1 /\ EncodePlain(type, v) = (IF v THEN <<1>> ELSE <<0>>)
    BY <1>4 DEF Width, EncodePlain
  <2>2. v = TRUE \/ v = FALSE
    BY <1>4 DEF FitsPlain
  <2>3. n \in {0, 1} /\ n \in Nat /\ n < Limit /\ n % 256 = n
    BY <2>2 DEF Limit
  <2>4. Holds(n, 1)
    BY <2>3 DEF Holds
  <2>5. Scalar(type, n) = v
    <3>1. Scalar(type, n) = (n # 0)
      <4> HIDE DEF n
      <4> QED BY <1>4, Zenon DEF Scalar
    <3>2. CASE v = TRUE
      <4>1. n # 0
        BY <3>2
      <4> HIDE DEF n
      <4>2. (n # 0) = TRUE
        BY <4>1
      <4> QED BY <3>1, <3>2, <4>2
    <3>3. CASE v = FALSE
      <4>1. ~ (n # 0)
        BY <3>3
      <4> HIDE DEF n
      <4>2. (n # 0) = FALSE
        BY <4>1
      <4> QED BY <3>1, <3>3, <4>2
    <3> QED BY <2>2, <3>2, <3>3
  <2>6. EncodePlain(type, v) = Bytes(n, 1)
    <3>1. EncodePlain(type, v) = <<n>>
      BY <2>1, <2>2
    <3>2. Bytes(n, 1) \in Text /\ Written(Bytes(n, 1), n, 1)
      BY <2>3, BytesIs
    <3>3. Bytes(n, 1) \in Text /\ Len(Bytes(n, 1)) = 1 /\ Bytes(n, 1)[1] = n
      BY <2>3, <3>2 DEF Written
    <3>4. <<n>> \in Text /\ Len(<<n>>) = 1 /\ <<n>>[1] = n
      BY <2>3 DEF Text
    <3> HIDE DEF n
    <3>5. <<n>> = Bytes(n, 1)
      BY <3>3, <3>4, SeqEqual DEF Text
    <3> QED BY <3>1, <3>5
  <2> HIDE DEF n
  <2> QED BY <2>1, <2>4, <2>5, <2>6
<1> QED BY <1>1, <1>2, <1>3, <1>4

\* A refusal and a result, as readings.
LEMMA Readings ==
  /\ Shape(Refused) /\ ~ Refused.ok
  /\ \A at, v : /\ Shape(Result(at, v)) /\ Result(at, v).ok
                /\ Result(at, v).at = at /\ Result(at, v).value = v
                /\ Result(at, v).slots = 0
  BY DEF Shape, Refused, Result

\* Reading a number or truth value.
LEMMA ReadScalarRight ==
  ASSUME NEW d \in Text, NEW at \in 0..Len(d),
         NEW type \in {"y", "q", "t", "b"}, NEW v, FitsPlain(type, v),
         Agree(d, at, EncodePlain(type, v))
  PROVE  Right(ReadScalar(d, at, type), d, at, EncodePlain(type, v), v)
<1> DEFINE w == Width(type)
<1>1. Len(d) \in Nat /\ at \in Nat
  BY TextBytes
<1>2. PICK n : /\ Holds(n, w) /\ Scalar(type, n) = v
               /\ EncodePlain(type, v) = Bytes(n, w)
  BY ScalarIs
<1>3. w \in 1..8
  BY ScalarIs
<1> HIDE DEF w
<1>4. Len(EncodePlain(type, v)) = w
  <2>1. Written(Bytes(n, w), n, w)
    BY <1>2, <1>3, BytesIs DEF Holds
  <2> QED BY <1>2, <2>1 DEF Written
<1>5. CASE at + w <= Len(d)
  <2>1. Number(d, at, w) = n
    BY <1>1, <1>2, <1>3, <1>5, NumberIs
  <2>2. ReadScalar(d, at, type) = Result(at + w, v)
    BY <1>1, <1>2, <1>3, <1>5, <2>1 DEF ReadScalar, CheckBounds, w
  <2> QED BY <1>4, <1>5, <2>2, Readings DEF Right
<1>6. CASE ~ (at + w <= Len(d))
  <2>1. ReadScalar(d, at, type) = Refused
    BY <1>1, <1>3, <1>6 DEF ReadScalar, CheckBounds, w
  <2> QED BY <1>4, <1>6, <2>1, Readings DEF Right
<1> QED BY <1>5, <1>6

\* A text in d.
LEMMA TextAt ==
  ASSUME NEW d \in Text, NEW a \in Nat, NEW s \in Ascii, Agree(d, a, s),
         a + Len(s) <= Len(d)
  PROVE  SubSeq(d, a + 1, a + Len(s)) = s
<1>1. /\ Len(d) \in Nat /\ s \in Text /\ Len(s) \in Nat
      /\ \A k \in 1..Len(s) : d[a + k] = s[k]
  BY TextBytes, AsciiBytes DEF Agree
<1> DEFINE t == SubSeq(d, a + 1, a + Len(s))
<1>2. t \in Text /\ Len(t) = Len(s) /\ \A k \in 1..Len(s) : t[k] = d[a + k]
  <2>1. ASSUME NEW B, NEW q \in Seq(B), NEW n \in Nat, a + n <= Len(q)
        PROVE  /\ SubSeq(q, a + 1, a + n) \in Seq(B)
               /\ Len(SubSeq(q, a + 1, a + n)) = n
               /\ \A k \in 1..n : SubSeq(q, a + 1, a + n)[k] = q[a + k]
    <3> DEFINE m == a + 1
               l == a + n
               sub == SubSeq(q, m, l)
    <3>1. m \in Int /\ l \in Int
      OBVIOUS
    <3>2. \A k \in m..l : q[k] \in B
      <4> SUFFICES ASSUME NEW k \in m..l PROVE q[k] \in B
        OBVIOUS
      <4>1. k \in 1..Len(q)
        BY <2>1
      <4> QED BY <4>1, ElementOfSeq
    <3> HIDE DEF m, l
    <3>3. /\ sub \in Seq(B) /\ Len(sub) = IF m <= l THEN l - m + 1 ELSE 0
          /\ \A k \in 1..l - m + 1 : sub[k] = q[m + k - 1]
      BY <3>1, <3>2, SubSeqProperties, SMTT(30)
    <3>4. l - m + 1 = n /\ (m <= l \/ n = 0) /\ \A k \in 1..n : m + k - 1 = a + k
      BY DEF m, l
    <3> HIDE DEF sub
    <3>5. sub \in Seq(B) /\ Len(sub) = n
      BY <3>1, <3>3, <3>4
    <3>6. \A k \in 1..n : sub[k] = q[a + k]
      BY <3>3, <3>4
    <3> QED BY <3>5, <3>6 DEF sub, m, l
  <2> DEFINE B == 0..255
             n == Len(s)
  <2>2. d \in Seq(B) /\ n \in Nat /\ a + n <= Len(d)
    BY <1>1 DEF Text
  <2> HIDE DEF B, n
  <2>3. /\ SubSeq(d, a + 1, a + n) \in Seq(B)
        /\ Len(SubSeq(d, a + 1, a + n)) = n
        /\ \A k \in 1..n : SubSeq(d, a + 1, a + n)[k] = d[a + k]
    BY <2>1, <2>2
  <2> QED BY <2>3 DEF B, n, Text
<1> HIDE DEF t
<1>3. t = s
  BY <1>1, <1>2, SeqEqual DEF Text
<1> QED BY <1>3 DEF t

\* A text behind its length.
LEMMA EncodeTextIs ==
  ASSUME NEW s \in Ascii
  PROVE  /\ EncodeText(s) \in Text /\ Len(EncodeText(s)) = 4 + Len(s)
         /\ \A d : \A at \in Nat : Len(d) \in Nat /\ Agree(d, at, EncodeText(s)) =>
              /\ at + 4 <= Len(d) => Number(d, at, 4) = Len(s)
              /\ Agree(d, at + 4, s)
<1> DEFINE b == Bytes(Len(s), 4)
<1>1. s \in Text /\ Len(s) \in Nat /\ Len(s) < Limit
  BY AsciiBytes
<1>2. b \in Text /\ Written(b, Len(s), 4) /\ Len(b) = 4
  BY <1>1, BytesIs DEF Written
<1>3. EncodeText(s) = b \o s
  BY DEF EncodeText
<1>4. Holds(Len(s), 4)
  BY <1>1 DEF Holds
<1>5. b \o s \in Text /\ Len(b \o s) = 4 + Len(s)
  <2>1. b \in Text /\ s \in Text
    BY <1>1, <1>2
  <2> HIDE DEF b
  <2>2. b \o s \in Text /\ Len(b \o s) = Len(b) + Len(s)
    BY <2>1, TextConcat
  <2> QED BY <1>2, <2>2
<1>6. ASSUME NEW d, NEW at \in Nat, Len(d) \in Nat, Agree(d, at, EncodeText(s))
      PROVE  /\ at + 4 <= Len(d) => Number(d, at, 4) = Len(s)
             /\ Agree(d, at + 4, s)
  <2>1. Agree(d, at, b) /\ Agree(d, at + Len(b), s)
    <3>1. b \in Text /\ s \in Text /\ Agree(d, at, b \o s)
      BY <1>1, <1>2, <1>3, <1>6
    <3> HIDE DEF b
    <3> QED BY <3>1, <1>6, AgreeConcat
  <2>2. Agree(d, at + 4, s)
    BY <1>2, <2>1
  <2>3. at + 4 <= Len(d) => Number(d, at, 4) = Len(s)
    BY <1>4, <1>6, <2>1, NumberIs
  <2> QED BY <2>2, <2>3
<1> QED BY <1>3, <1>5, <1>6

\* Reading a text, in Dart.
LEMMA ReadTextRight ==
  ASSUME NEW d \in Text, NEW at \in 0..Len(d), NEW s \in Ascii,
         Agree(d, at, EncodeText(s))
  PROVE  Right(ReadText(d, at), d, at, EncodeText(s), s)
<1>1. Len(d) \in Nat /\ at \in Nat /\ Len(s) \in Nat
  BY TextBytes, AsciiBytes
<1>2. /\ Len(EncodeText(s)) = 4 + Len(s) /\ Agree(d, at + 4, s)
      /\ at + 4 <= Len(d) => Number(d, at, 4) = Len(s)
  BY <1>1, EncodeTextIs
<1>3. CASE at + 4 > Len(d)
  <2>1. ReadText(d, at) = Refused
    BY <1>1, <1>3 DEF ReadText, CheckBounds
  <2>2. ~ (at + Len(EncodeText(s)) <= Len(d))
    BY <1>1, <1>2, <1>3
  <2> QED BY <2>1, <2>2, Readings DEF Right
<1>4. CASE at + 4 <= Len(d) /\ at + 4 + Len(s) > Len(d)
  <2>1. CheckBounds(d, at, 4) /\ ~ CheckBounds(d, at + 4, Len(s))
        /\ Number(d, at, 4) = Len(s)
    BY <1>1, <1>2, <1>4 DEF CheckBounds
  <2>2. ReadText(d, at) = Refused
    BY <2>1 DEF ReadText
  <2>3. ~ (at + Len(EncodeText(s)) <= Len(d))
    BY <1>1, <1>2, <1>4
  <2> QED BY <2>2, <2>3, Readings DEF Right
<1>5. CASE at + 4 + Len(s) <= Len(d)
  <2>1. CheckBounds(d, at, 4) /\ CheckBounds(d, at + 4, Len(s))
        /\ Number(d, at, 4) = Len(s)
    BY <1>1, <1>2, <1>5 DEF CheckBounds
  <2>2. SubSeq(d, at + 5, at + 4 + Len(s)) = s
    <3>1. SubSeq(d, (at + 4) + 1, (at + 4) + Len(s)) = s
      BY <1>1, <1>2, <1>5, TextAt
    <3>2. (at + 4) + 1 = at + 5
      BY <1>1
    <3> QED BY <3>1, <3>2
  <2>3. \A i \in DOMAIN s : s[i] < 128
    <3>1. s \in Text /\ \A k \in 1..Len(s) : s[k] \in 0..127
      BY AsciiBytes
    <3>2. DOMAIN s = 1..Len(s)
      BY <3>1, TextBytes
    <3>3. \A c \in 0..127 : c < 128
      OBVIOUS
    <3> QED BY <3>1, <3>2, <3>3, Zenon
  <2>4. ReadText(d, at) = Result(at + 4 + Len(s), s)
    BY <2>1, <2>2, <2>3 DEF ReadText
  <2>5. at + Len(EncodeText(s)) = at + 4 + Len(s)
    BY <1>1, <1>2
  <2> QED BY <1>5, <2>4, <2>5, Readings DEF Right
<1> QED BY <1>1, <1>3, <1>4, <1>5

\* Reading a text that is there, in C++.
LEMMA NativeTextRight ==
  ASSUME NEW d \in Text, NEW at \in 0..Len(d), NEW s \in Ascii,
         Agree(d, at, EncodeText(s)), at + Len(EncodeText(s)) <= Len(d)
  PROVE  Right(NativeText(d, at), d, at, EncodeText(s), s)
<1>1. Len(d) \in Nat /\ at \in Nat /\ Len(s) \in Nat
  BY TextBytes, AsciiBytes
<1>2. Len(EncodeText(s)) = 4 + Len(s) /\ Agree(d, at + 4, s)
  BY <1>1, EncodeTextIs
<1>3. Number(d, at, 4) = Len(s)
  BY <1>1, <1>2, EncodeTextIs
<1>4. SubSeq(d, at + 5, at + 4 + Len(s)) = s
  <2>1. SubSeq(d, (at + 4) + 1, (at + 4) + Len(s)) = s
    BY <1>1, <1>2, TextAt
  <2>2. (at + 4) + 1 = at + 5
    BY <1>1
  <2> QED BY <2>1, <2>2
<1>5. NativeText(d, at) = Result(at + 4 + Len(s), s)
  BY <1>3, <1>4 DEF NativeText
<1>6. at + Len(EncodeText(s)) = at + 4 + Len(s)
  BY <1>1, <1>2
<1> QED BY <1>5, <1>6, Readings DEF Right

-----------------------------------------------------------------------------
(***************************************************************************)
(* Lists.                                                                  *)
(***************************************************************************)
\* Texts have lengths.
LEMMA TextsSized ==
  ASSUME NEW parts \in Seq(Text)
  PROVE  /\ Sized(parts) /\ Len(parts) \in Nat
         /\ \A i \in 1..Len(parts) : parts[i] \in Text
<1>1. Len(parts) \in Nat /\ \A i \in 1..Len(parts) : parts[i] \in Text
  BY ElementOfSeq
<1>2. \A i \in 1..Len(parts) : Len(parts[i]) \in Nat
  BY <1>1, TextBytes
<1> QED BY <1>1, <1>2 DEF Sized

\* Each part has m bytes at least.
AtLeast(parts, m) == \A i \in 1..Len(parts) : m <= Len(parts[i])

\* So have all parts together, as often.
LEMMA LaidLength ==
  ASSUME NEW o, NEW parts, NEW flat, Laid(o, parts, flat), Sized(parts),
         Len(flat) \in Nat, NEW m \in Nat, AtLeast(parts, m)
  PROVE  m * Len(parts) <= Len(flat)
<1> DEFINE n == Len(parts)
           T == {i \in 0..n : m * i <= o[i]}
<1>1. n \in Nat /\ o[0] = 0 /\ o[n] = Len(flat)
      /\ \A i \in 0..n : o[i] \in Nat
  BY DEF Laid, Sized
<1>2. 0 \in T
  BY <1>1
<1>3. \A i \in 1..n : i - 1 \in T => i \in T
  <2> SUFFICES ASSUME NEW i \in 1..n, i - 1 \in T PROVE i \in T
    OBVIOUS
  <2>1. /\ o[i] = o[i - 1] + Len(parts[i]) /\ m <= Len(parts[i])
        /\ Len(parts[i]) \in Nat /\ o[i - 1] \in Nat /\ m * (i - 1) <= o[i - 1]
    BY <1>1 DEF Laid, Sized, AtLeast
  <2> HIDE DEF n
  <2>2. i \in Nat /\ m * i = m * (i - 1) + m /\ m * (i - 1) \in Nat
    BY <1>1
  <2>3. m * i <= o[i] /\ i \in 0..n
    BY <1>1, <2>1, <2>2
  <2> QED BY <2>3
<1>4. n \in T
  <2> HIDE DEF T, n
  <2>1. \A i \in 0..n : i \in T
    BY <1>1, <1>2, <1>3, BoundedInduction
  <2> QED BY <1>1, <2>1
<1> QED BY <1>1, <1>4

\* A list behind its length.
LEMMA EncodeEachIs ==
  ASSUME NEW encoded \in Seq(Text), Len(encoded) < Limit
  PROVE  LET flat == FlattenSeq(encoded)
         IN  /\ flat \in Text /\ EncodeEach(encoded) \in Text
             /\ Len(EncodeEach(encoded)) = 4 + Len(flat)
             /\ \E o : Laid(o, encoded, flat)
             /\ \A d : \A at \in Nat : Len(d) \in Nat /\ Agree(d, at, EncodeEach(encoded)) =>
                  /\ at + 4 <= Len(d) => Number(d, at, 4) = Len(encoded)
                  /\ Agree(d, at + 4, flat)
<1> DEFINE b == Bytes(Len(encoded), 4)
           flat == FlattenSeq(encoded)
<1>1. Len(encoded) \in Nat
  OBVIOUS
<1>2. b \in Text /\ Written(b, Len(encoded), 4) /\ Len(b) = 4
  BY <1>1, BytesIs DEF Written
<1>3. EncodeEach(encoded) = b \o flat
  BY DEF EncodeEach
<1>4. Holds(Len(encoded), 4)
  BY <1>1 DEF Holds
<1>5. flat \in Text /\ \E o : Laid(o, encoded, flat)
  BY FlattenSeqLaid DEF Text
<1> HIDE DEF b, flat
<1>6. b \o flat \in Text /\ Len(b \o flat) = 4 + Len(flat)
  <2>1. b \o flat \in Text /\ Len(b \o flat) = Len(b) + Len(flat)
    BY <1>2, <1>5, TextConcat
  <2> QED BY <1>2, <2>1
<1>7. ASSUME NEW d, NEW at \in Nat, Len(d) \in Nat, Agree(d, at, EncodeEach(encoded))
      PROVE  /\ at + 4 <= Len(d) => Number(d, at, 4) = Len(encoded)
             /\ Agree(d, at + 4, flat)
  <2>1. Agree(d, at, b) /\ Agree(d, at + Len(b), flat)
    <3>1. b \in Text /\ Agree(d, at, b \o flat)
      BY <1>2, <1>3, <1>7
    <3> QED BY <3>1, <1>5, <1>7, AgreeConcat
  <2>2. Agree(d, at + 4, flat)
    BY <1>2, <2>1
  <2>3. at + 4 <= Len(d) => Number(d, at, 4) = Len(encoded)
    BY <1>4, <1>7, <2>1, NumberIs DEF b
  <2> QED BY <2>2, <2>3
<1> QED BY <1>3, <1>5, <1>6, <1>7 DEF flat

\* The bytes that elements are taken to need.
Needs == {4, 8, 14, 90}

\* How many elements there is room for.
LEMMA RoomFor ==
  ASSUME NEW x \in Nat, NEW c \in Nat, NEW m \in Needs
  PROVE  m \in Nat /\ (c <= x \div m <=> m * c <= x)
<1>1. CASE m = 4
  BY <1>1
<1>2. CASE m = 8
  BY <1>2
<1>3. CASE m = 14
  BY <1>3
<1>4. CASE m = 90
  BY <1>4
<1> QED BY <1>1, <1>2, <1>3, <1>4 DEF Needs

\* Reading a list, in Dart.
LEMMA ReadEachRight ==
  ASSUME NEW d \in Text, NEW at \in 0..Len(d), NEW encoded \in Seq(Text),
         Len(encoded) < Limit, NEW W, NEW values \in Seq(W),
         Len(values) = Len(encoded), NEW read,
         ReadsParts(read, d, encoded, values, FALSE),
         NEW m \in Needs, AtLeast(encoded, m),
         Agree(d, at, EncodeEach(encoded))
  PROVE  Right(ReadEach(d, at, m, read), d, at, EncodeEach(encoded), values)
<1> DEFINE n == Len(encoded)
           flat == FlattenSeq(encoded)
           e == EncodeEach(encoded)
<1>1. Len(d) \in Nat /\ at \in Nat /\ n \in Nat
  BY TextBytes, TextsSized
<1>2. /\ flat \in Text /\ Len(e) = 4 + Len(flat) /\ Agree(d, at + 4, flat)
      /\ at + 4 <= Len(d) => Number(d, at, 4) = n
  BY <1>1, EncodeEachIs
<1>3. PICK o : Laid(o, encoded, flat)
  BY EncodeEachIs
<1>4. Len(flat) \in Nat
  BY <1>2, TextBytes
<1>5. m * n <= Len(flat)
  <2>1. m \in Nat
    BY <1>1, RoomFor
  <2> QED BY <1>3, <1>4, <2>1, TextsSized, LaidLength
<1> HIDE DEF flat, e, n
<1>6. CASE at + 4 > Len(d)
  <2>1. ReadEach(d, at, m, read) = Refused
    BY <1>1, <1>6 DEF ReadEach, CheckBounds
  <2>2. ~ (at + Len(e) <= Len(d))
    BY <1>1, <1>2, <1>4, <1>6
  <2> QED BY <2>1, <2>2, Readings DEF Right, e
<1>7. CASE at + 4 <= Len(d)
  <2>1. CheckBounds(d, at, 4) /\ Number(d, at, 4) = n /\ Len(d) - (at + 4) \in Nat
    BY <1>1, <1>2, <1>7 DEF CheckBounds
  <2>2. CheckElementCount(d, at + 4, n, m) <=> m * n <= Len(d) - (at + 4)
    BY <1>1, <2>1, RoomFor DEF CheckElementCount
  <2>3. CASE m * n > Len(d) - (at + 4)
    <3>1. m * n \in Nat
      BY <1>1, RoomFor
    <3>2. ~ CheckElementCount(d, at + 4, n, m)
      BY <2>1, <2>2, <2>3, <3>1
    <3>3. ReadEach(d, at, m, read) = Refused
      BY <2>1, <3>2 DEF ReadEach
    <3>4. ~ (at + Len(e) <= Len(d))
      BY <1>1, <1>2, <1>4, <1>5, <2>3, <3>1
    <3> QED BY <3>3, <3>4, Readings DEF Right, e
  <2>4. CASE m * n <= Len(d) - (at + 4)
    <3> DEFINE r == InOrder(n, read, at + 4)
               s == ReadEach(d, at, m, read)
    <3>1. Right(r, d, at + 4, flat, values)
      <4>1. at + 4 \in 0..Len(d)
        BY <1>1, <1>7
      <4>2. Sized(encoded) /\ Agree(d, at + 4, flat) /\ Len(values) = Len(encoded)
        BY TextsSized, <1>2
      <4>3. FALSE \in BOOLEAN
        OBVIOUS
      <4>4. Right(InOrder(Len(encoded), read, at + 4), d, at + 4, flat, values)
        BY <1>1, <1>3, <1>4, <4>1, <4>2, <4>3, InOrderRight
      <4> QED BY <4>4 DEF n
    <3>2. s = [r EXCEPT !.slots = @ + n]
      BY <2>1, <2>2, <2>4 DEF ReadEach
    <3> HIDE DEF r, s
    <3>3. Shape(s) /\ s.ok = r.ok /\ s.at = r.at /\ s.value = r.value
      BY <3>1, <3>2 DEF Right, Shape
    <3>4. at + Len(e) = (at + 4) + Len(flat)
      BY <1>1, <1>2, <1>4
    <3>5. Right(s, d, at, e, values)
      BY <3>1, <3>3, <3>4 DEF Right
    <3> QED BY <3>5 DEF s, e
  <2>5. m * n \in Nat
    BY <1>1, RoomFor
  <2> QED BY <1>1, <2>1, <2>3, <2>4, <2>5
<1> QED BY <1>1, <1>6, <1>7

\* Reading a list that is there, in C++.
LEMMA NativeEachRight ==
  ASSUME NEW d \in Text, NEW at \in 0..Len(d), NEW encoded \in Seq(Text),
         Len(encoded) < Limit, NEW W, NEW values \in Seq(W),
         Len(values) = Len(encoded), NEW read,
         ReadsParts(read, d, encoded, values, TRUE),
         Agree(d, at, EncodeEach(encoded)),
         at + Len(EncodeEach(encoded)) <= Len(d)
  PROVE  Right(InOrder(Number(d, at, 4), read, at + 4), d, at,
               EncodeEach(encoded), values)
<1> DEFINE n == Len(encoded)
           flat == FlattenSeq(encoded)
           e == EncodeEach(encoded)
           r == InOrder(n, read, at + 4)
<1>1. Len(d) \in Nat /\ at \in Nat /\ n \in Nat
  BY TextBytes, TextsSized
<1>2. /\ flat \in Text /\ Len(e) = 4 + Len(flat) /\ Agree(d, at + 4, flat)
      /\ at + 4 <= Len(d) => Number(d, at, 4) = n
  BY <1>1, EncodeEachIs
<1>3. PICK o : Laid(o, encoded, flat)
  BY EncodeEachIs
<1>4. Len(flat) \in Nat
  BY <1>2, TextBytes
<1>5. at + Len(e) <= Len(d)
  OBVIOUS
<1> HIDE DEF flat, e, n
<1>6. /\ at + 4 \in 0..Len(d) /\ (at + 4) + Len(flat) <= Len(d)
      /\ at + Len(e) = (at + 4) + Len(flat) /\ Number(d, at, 4) = n
  BY <1>1, <1>2, <1>4, <1>5
<1>7. Right(r, d, at + 4, flat, values)
  <2>1. Sized(encoded)
    BY TextsSized
  <2> QED BY <1>1, <1>2, <1>3, <1>4, <1>6, <2>1, InOrderRight DEF n
<1> HIDE DEF r
<1>8. Right(r, d, at, e, values)
  BY <1>6, <1>7 DEF Right
<1> QED BY <1>6, <1>8 DEF r, e

\* The texts of a list, as they are written and read.
TextParts(v) == [i \in DOMAIN v |-> EncodeText(v[i])]
TextReader(d) == [i \in Nat |-> [a \in Nat |-> ReadText(d, a)]]
NativeReader(d) == [i \in Nat |-> [a \in Nat |-> NativeText(d, a)]]

\* Each text of a list is written with its length, in four bytes at least.
LEMMA TextsWritten ==
  ASSUME NEW v \in Seq(Ascii)
  PROVE  /\ TextParts(v) \in Seq(Text) /\ Len(TextParts(v)) = Len(v) /\ Len(v) \in Nat
         /\ \A i \in 1..Len(v) : TextParts(v)[i] = EncodeText(v[i]) /\ v[i] \in Ascii
         /\ AtLeast(TextParts(v), 4)
<1> DEFINE encoded == TextParts(v)
<1>1. Len(v) \in Nat /\ DOMAIN v = 1..Len(v) /\ \A i \in 1..Len(v) : v[i] \in Ascii
  BY ElementOfSeq
<1>2. \A i \in 1..Len(v) : /\ encoded[i] = EncodeText(v[i]) /\ encoded[i] \in Text
                           /\ 4 <= Len(encoded[i])
  <2> SUFFICES ASSUME NEW i \in 1..Len(v)
               PROVE  /\ encoded[i] = EncodeText(v[i]) /\ encoded[i] \in Text
                      /\ 4 <= Len(encoded[i])
    OBVIOUS
  <2>1. encoded[i] = EncodeText(v[i]) /\ v[i] \in Ascii
    BY <1>1 DEF TextParts
  <2> HIDE DEF encoded
  <2>2. encoded[i] \in Text /\ Len(encoded[i]) = 4 + Len(v[i]) /\ Len(v[i]) \in Nat
    BY <2>1, EncodeTextIs, AsciiBytes
  <2> QED BY <2>1, <2>2
<1>3. encoded \in Seq(Text) /\ Len(encoded) = Len(v)
  <2>1. encoded = [i \in 1..Len(v) |-> encoded[i]]
    BY <1>1 DEF TextParts
  <2> HIDE DEF encoded
  <2>2. encoded \in [1..Len(v) -> Text]
    BY <1>2, <2>1
  <2> QED BY <1>1, <2>2
<1>4. AtLeast(encoded, 4)
  <2> HIDE DEF encoded
  <2> QED BY <1>2, <1>3 DEF AtLeast
<1> QED BY <1>1, <1>2, <1>3, <1>4

\* The encoder, reader and decoder of each plain type.
LEMMA TextPlain ==
  ASSUME NEW v, NEW d, NEW at
  PROVE  /\ EncodePlain("s", v) = EncodeText(v)
         /\ ReadPlain(d, at, "s") = ReadText(d, at)
         /\ NativePlain(d, at, "s") = NativeText(d, at)
  BY DEF EncodePlain, ReadPlain, NativePlain

\* A list of texts.
LEMMA ListPlain ==
  ASSUME NEW v, NEW d, NEW at
  PROVE  /\ EncodePlain("as", v) = EncodeEach(TextParts(v))
         /\ ReadPlain(d, at, "as") = ReadEach(d, at, 4, TextReader(d))
         /\ NativePlain(d, at, "as") = InOrder(Number(d, at, 4), NativeReader(d), at + 4)
  BY DEF EncodePlain, ReadPlain, NativePlain, TextParts, TextReader, NativeReader

\* A number or truth value.
LEMMA ScalarPlain ==
  ASSUME NEW d, NEW at, NEW type \in {"y", "q", "t", "b"}
  PROVE  /\ ReadPlain(d, at, type) = ReadScalar(d, at, type)
         /\ NativePlain(d, at, type)
              = Result(at + Width(type), Scalar(type, Number(d, at, Width(type))))
<1>1. type # "s" /\ type # "as"
  OBVIOUS
<1> QED BY <1>1 DEF ReadPlain, NativePlain

\* What a list of texts is.
LEMMA FitsList ==
  ASSUME NEW v, FitsPlain("as", v)
  PROVE  v \in Seq(Ascii) /\ Len(v) < Limit
  BY DEF FitsPlain

\* Reading a plain field, in Dart.
LEMMA ReadPlainRight ==
  ASSUME NEW d \in Text, NEW at \in 0..Len(d), NEW type, NEW v,
         FitsPlain(type, v), Agree(d, at, EncodePlain(type, v))
  PROVE  Right(ReadPlain(d, at, type), d, at, EncodePlain(type, v), v)
<1>1. CASE type = "s"
  <2>1. v \in Ascii
    BY <1>1 DEF FitsPlain
  <2>2. EncodePlain(type, v) = EncodeText(v) /\ ReadPlain(d, at, type) = ReadText(d, at)
    BY <1>1, TextPlain
  <2>3. Agree(d, at, EncodeText(v))
    BY <2>2
  <2>4. Right(ReadText(d, at), d, at, EncodeText(v), v)
    BY <2>1, <2>3, ReadTextRight
  <2> QED BY <2>2, <2>4
<1>2. CASE type \in {"y", "q", "t", "b"}
  <2>1. Right(ReadScalar(d, at, type), d, at, EncodePlain(type, v), v)
    BY <1>2, ReadScalarRight
  <2>2. ReadPlain(d, at, type) = ReadScalar(d, at, type)
    BY <1>2, ScalarPlain
  <2> QED BY <2>1, <2>2
<1>3. CASE type = "as"
  <2> DEFINE encoded == TextParts(v)
             read == TextReader(d)
  <2>1. v \in Seq(Ascii) /\ Len(v) < Limit
    BY <1>3, FitsList
  <2>2. /\ encoded \in Seq(Text) /\ Len(encoded) = Len(v) /\ Len(v) \in Nat
        /\ \A i \in 1..Len(v) : encoded[i] = EncodeText(v[i]) /\ v[i] \in Ascii
        /\ AtLeast(encoded, 4)
    BY <2>1, TextsWritten
  <2>3. /\ EncodePlain(type, v) = EncodeEach(encoded)
        /\ ReadPlain(d, at, type) = ReadEach(d, at, 4, read)
    BY <1>3, ListPlain
  <2>4. \A i, a \in Nat : read[i][a] = ReadText(d, a)
    BY DEF TextReader
  <2> HIDE DEF encoded, read
  <2>5. ReadsParts(read, d, encoded, v, FALSE)
    <3>1. ASSUME NEW i \in 1..Len(encoded), NEW a \in 0..Len(d), Agree(d, a, encoded[i])
          PROVE  Right(read[i][a], d, a, encoded[i], v[i])
      <4>1. /\ i \in Nat /\ a \in Nat /\ encoded[i] = EncodeText(v[i]) /\ v[i] \in Ascii
            /\ Agree(d, a, EncodeText(v[i]))
        BY <2>2, <3>1, TextBytes
      <4>2. read[i][a] = ReadText(d, a)
        BY <2>4, <4>1
      <4>3. Right(ReadText(d, a), d, a, EncodeText(v[i]), v[i])
        BY <4>1, ReadTextRight
      <4> QED BY <4>1, <4>2, <4>3
    <3> QED BY <3>1 DEF ReadsParts
  <2>6. Right(ReadEach(d, at, 4, read), d, at, EncodeEach(encoded), v)
    <3>1. Agree(d, at, EncodeEach(encoded)) /\ Len(encoded) < Limit
      BY <2>1, <2>2, <2>3
    <3>2. 4 \in Needs
      BY DEF Needs
    <3> QED BY <2>1, <2>2, <2>5, <3>1, <3>2, ReadEachRight
  <2> QED BY <2>3, <2>6
<1> QED BY <1>1, <1>2, <1>3 DEF FitsPlain, PlainTypes

\* Reading a plain field that is there, in C++.
LEMMA NativePlainRight ==
  ASSUME NEW d \in Text, NEW at \in 0..Len(d), NEW type, NEW v,
         FitsPlain(type, v), Agree(d, at, EncodePlain(type, v)),
         at + Len(EncodePlain(type, v)) <= Len(d)
  PROVE  Right(NativePlain(d, at, type), d, at, EncodePlain(type, v), v)
<1>1. CASE type = "s"
  <2>1. v \in Ascii
    BY <1>1 DEF FitsPlain
  <2>2. EncodePlain(type, v) = EncodeText(v) /\ NativePlain(d, at, type) = NativeText(d, at)
    BY <1>1, TextPlain
  <2>3. Agree(d, at, EncodeText(v)) /\ at + Len(EncodeText(v)) <= Len(d)
    BY <2>2
  <2>4. Right(NativeText(d, at), d, at, EncodeText(v), v)
    BY <2>1, <2>3, NativeTextRight
  <2> QED BY <2>2, <2>4
<1>2. CASE type \in {"y", "q", "t", "b"}
  <2> DEFINE w == Width(type)
  <2>1. Len(d) \in Nat /\ at \in Nat
    BY TextBytes
  <2>2. PICK n : /\ Holds(n, w) /\ Scalar(type, n) = v
                 /\ EncodePlain(type, v) = Bytes(n, w)
    BY <1>2, ScalarIs
  <2>3. w \in 1..8
    BY <1>2, ScalarIs
  <2>4. NativePlain(d, at, type) = Result(at + w, Scalar(type, Number(d, at, w)))
    BY <1>2, ScalarPlain
  <2> HIDE DEF w
  <2>5. Len(EncodePlain(type, v)) = w
    <3>1. Written(Bytes(n, w), n, w)
      BY <2>2, <2>3, BytesIs DEF Holds
    <3> QED BY <2>2, <3>1 DEF Written
  <2>6. Number(d, at, w) = n
    BY <2>1, <2>2, <2>3, <2>5, NumberIs
  <2>7. NativePlain(d, at, type) = Result(at + w, v)
    BY <2>2, <2>4, <2>6
  <2> QED BY <2>5, <2>7, Readings DEF Right
<1>3. CASE type = "as"
  <2> DEFINE encoded == TextParts(v)
             read == NativeReader(d)
  <2>1. v \in Seq(Ascii) /\ Len(v) < Limit
    BY <1>3, FitsList
  <2>2. /\ encoded \in Seq(Text) /\ Len(encoded) = Len(v) /\ Len(v) \in Nat
        /\ \A i \in 1..Len(v) : encoded[i] = EncodeText(v[i]) /\ v[i] \in Ascii
    BY <2>1, TextsWritten
  <2>3. /\ EncodePlain(type, v) = EncodeEach(encoded)
        /\ NativePlain(d, at, type) = InOrder(Number(d, at, 4), read, at + 4)
    BY <1>3, ListPlain
  <2>4. \A i, a \in Nat : read[i][a] = NativeText(d, a)
    BY DEF NativeReader
  <2> HIDE DEF encoded, read
  <2>5. ReadsParts(read, d, encoded, v, TRUE)
    <3>1. ASSUME NEW i \in 1..Len(encoded), NEW a \in 0..Len(d),
                 Agree(d, a, encoded[i]), a + Len(encoded[i]) <= Len(d)
          PROVE  Right(read[i][a], d, a, encoded[i], v[i])
      <4>1. /\ i \in Nat /\ a \in Nat /\ encoded[i] = EncodeText(v[i]) /\ v[i] \in Ascii
            /\ Agree(d, a, EncodeText(v[i])) /\ a + Len(EncodeText(v[i])) <= Len(d)
        BY <2>2, <3>1, TextBytes
      <4>2. read[i][a] = NativeText(d, a)
        BY <2>4, <4>1
      <4>3. Right(NativeText(d, a), d, a, EncodeText(v[i]), v[i])
        BY <4>1, NativeTextRight
      <4> QED BY <4>1, <4>2, <4>3
    <3> QED BY <3>1 DEF ReadsParts
  <2>6. Right(InOrder(Number(d, at, 4), read, at + 4), d, at, EncodeEach(encoded), v)
    <3>1. Agree(d, at, EncodeEach(encoded)) /\ Len(encoded) < Limit
          /\ at + Len(EncodeEach(encoded)) <= Len(d)
      BY <2>1, <2>2, <2>3
    <3> QED BY <2>1, <2>2, <2>5, <3>1, NativeEachRight
  <2> QED BY <2>3, <2>6
<1> QED BY <1>1, <1>2, <1>3 DEF FitsPlain, PlainTypes

\* The fewest bytes of a plain field.
Least(type) ==
  IF type \in {"s", "as"} THEN 4 ELSE IF type = "t" THEN 8
  ELSE IF type = "q" THEN 2 ELSE 1

\* A plain field as bytes.
LEMMA PlainBytes ==
  ASSUME NEW type, NEW v, FitsPlain(type, v)
  PROVE  EncodePlain(type, v) \in Text /\ Least(type) <= Len(EncodePlain(type, v))
<1>1. CASE type = "s"
  <2>1. v \in Ascii
    BY <1>1 DEF FitsPlain
  <2>2. /\ EncodeText(v) \in Text /\ Len(EncodeText(v)) = 4 + Len(v) /\ Len(v) \in Nat
    BY <2>1, EncodeTextIs, AsciiBytes
  <2>3. EncodePlain(type, v) = EncodeText(v)
    BY <1>1, TextPlain
  <2>4. Least(type) = 4
    BY <1>1 DEF Least
  <2> QED BY <2>2, <2>3, <2>4
<1>2. CASE type \in {"y", "q", "t", "b"}
  <2>1. PICK n : Holds(n, Width(type)) /\ EncodePlain(type, v) = Bytes(n, Width(type))
    BY <1>2, ScalarIs
  <2>2. Width(type) \in 1..8
    BY <1>2, ScalarIs
  <2>3. Bytes(n, Width(type)) \in Text /\ Written(Bytes(n, Width(type)), n, Width(type))
    BY <2>1, <2>2, BytesIs DEF Holds
  <2>4. Least(type) = Width(type)
    BY <1>2 DEF Least, Width
  <2>5. Len(EncodePlain(type, v)) = Width(type)
    BY <2>1, <2>3 DEF Written
  <2> QED BY <2>1, <2>2, <2>3, <2>4, <2>5
<1>3. CASE type = "as"
  <2> DEFINE encoded == TextParts(v)
  <2>1. v \in Seq(Ascii) /\ Len(v) < Limit
    BY <1>3, FitsList
  <2>2. encoded \in Seq(Text) /\ Len(encoded) = Len(v)
    BY <2>1, TextsWritten
  <2>3. EncodePlain(type, v) = EncodeEach(encoded)
    BY <1>3, ListPlain
  <2>5. Least(type) = 4
    BY <1>3 DEF Least
  <2> HIDE DEF encoded
  <2>4. /\ EncodeEach(encoded) \in Text /\ FlattenSeq(encoded) \in Text
        /\ Len(EncodeEach(encoded)) = 4 + Len(FlattenSeq(encoded))
    BY <2>1, <2>2, EncodeEachIs
  <2> QED BY <2>3, <2>4, <2>5, TextBytes
<1> QED BY <1>1, <1>2, <1>3 DEF FitsPlain, PlainTypes
-----------------------------------------------------------------------------
(***************************************************************************)
(* Records.                                                                *)
(***************************************************************************)
\* A table of fields, and a record that has these fields.
IsTable(fields) == Len(fields) \in Nat /\ DOMAIN fields = 1..Len(fields)
Names(fields) == {fields[i][1] : i \in DOMAIN fields}
HasFields(record, fields) == record = [name \in Names(fields) |-> record[name]]

\* The values of a record in the order of its fields.
InOrderOf(fields, record) == [i \in 1..Len(fields) |-> record[fields[i][1]]]

\* What was read of each field is put under its name.
LEMMA NamedRight ==
  ASSUME NEW fields, IsTable(fields), NEW record, HasFields(record, fields),
         NEW r, NEW d, NEW at, NEW e, Right(r, d, at, e, InOrderOf(fields, record))
  PROVE  Right(Named(fields, r), d, at, e, record)
<1> DEFINE s == Named(fields, r)
           pick(name) == CHOOSE i \in DOMAIN fields : fields[i][1] = name
<1>1. /\ Shape(r)
      /\ r.ok <=> at + Len(e) <= Len(d)
      /\ r.ok => r.at = at + Len(e) /\ r.value = InOrderOf(fields, record)
  BY DEF Right
<1> DEFINE named == [name \in Names(fields) |-> r.value[pick(name)]]
           value == IF ~ r.ok THEN r.value ELSE named
<1>2. s = [r EXCEPT !.value = value]
  BY DEF Named, Names
<1>3. Shape(s) /\ s.ok = r.ok /\ s.at = r.at /\ s.value = value
  <2> HIDE DEF value, s
  <2>1. r = [ok |-> r.ok, at |-> r.at, value |-> r.value, slots |-> r.slots]
    BY <1>1 DEF Shape
  <2>2. s = [ok |-> r.ok, at |-> r.at, value |-> value, slots |-> r.slots]
    BY <1>2, <2>1
  <2> QED BY <2>2 DEF Shape
<1>4. ASSUME r.ok PROVE s.value = record
  <2>1. s.value = [name \in Names(fields) |-> r.value[pick(name)]]
    <3> HIDE DEF s, named
    <3>1. s.value = named
      BY <1>3, <1>4
    <3> QED BY <3>1 DEF named
  <2>2. ASSUME NEW name \in Names(fields) PROVE r.value[pick(name)] = record[name]
    <3>1. pick(name) \in 1..Len(fields) /\ fields[pick(name)][1] = name
      <4>1. \E i \in DOMAIN fields : fields[i][1] = name
        BY <2>2 DEF Names
      <4> QED BY <4>1 DEF IsTable
    <3> HIDE DEF pick
    <3>2. r.value[pick(name)] = record[fields[pick(name)][1]]
      BY <1>1, <1>4, <3>1 DEF InOrderOf
    <3> QED BY <3>1, <3>2
  <2>3. [name \in Names(fields) |-> r.value[pick(name)]]
          = [name \in Names(fields) |-> record[name]]
    <3> HIDE DEF pick
    <3> QED BY <2>2
  <2> QED BY <2>1, <2>3 DEF HasFields
<1> HIDE DEF s
<1>5. Right(s, d, at, e, record)
  BY <1>1, <1>3, <1>4 DEF Right
<1> QED BY <1>5 DEF s

\* A record whose fields are each read right is read right.
LEMMA RecordRight ==
  ASSUME NEW d \in Text, NEW at \in 0..Len(d),
         NEW fields, IsTable(fields), NEW record, HasFields(record, fields),
         NEW parts \in Seq(Text), Len(parts) = Len(fields),
         NEW read, NEW whole \in BOOLEAN,
         ReadsParts(read, d, parts, InOrderOf(fields, record), whole),
         Agree(d, at, FlattenSeq(parts)),
         whole => at + Len(FlattenSeq(parts)) <= Len(d)
  PROVE  Right(Named(fields, InOrder(Len(fields), read, at)), d, at,
               FlattenSeq(parts), record)
<1> DEFINE values == InOrderOf(fields, record)
           flat == FlattenSeq(parts)
           W == {values[i] : i \in 1..Len(fields)}
<1>1. Len(d) \in Nat /\ Len(fields) \in Nat
  BY TextBytes DEF IsTable
<1>2. values \in Seq(W) /\ Len(values) = Len(parts)
  <2>1. values \in [1..Len(fields) -> W]
    BY DEF InOrderOf
  <2> HIDE DEF values, W
  <2> QED BY <1>1, <2>1
<1>3. flat \in Text /\ \E o : Laid(o, parts, flat)
  BY FlattenSeqLaid DEF Text
<1>4. PICK o : Laid(o, parts, flat)
  BY <1>3
<1>5. Sized(parts)
  BY TextsSized
<1> HIDE DEF values, flat, W
<1>6. Len(flat) \in Nat
  BY <1>3, TextBytes
<1>7. /\ ReadsParts(read, d, parts, values, whole)
      /\ Agree(d, at, flat)
      /\ whole => at + Len(flat) <= Len(d)
  BY DEF values, flat
<1>8. Right(InOrder(Len(parts), read, at), d, at, flat, values)
  <2>1. whole \in BOOLEAN /\ at \in 0..Len(d)
    OBVIOUS
  <2>2. whole => at + Len(flat) <= Len(d)
    BY <1>7
  <2> QED BY <1>1, <1>2, <1>4, <1>5, <1>6, <1>7, <2>1, <2>2, InOrderRight
<1>9. Right(InOrder(Len(fields), read, at), d, at, flat, InOrderOf(fields, record))
  BY <1>8 DEF values
<1>10. Right(Named(fields, InOrder(Len(fields), read, at)), d, at, flat, record)
  BY <1>9, NamedRight
<1> QED BY <1>10 DEF flat

-----------------------------------------------------------------------------
(***************************************************************************)
(* The tables of fields.                                                   *)
(***************************************************************************)
\* A function on 1..n is a sequence.
LEMMA FunctionIsSeq ==
  ASSUME NEW W, NEW n \in Nat, NEW f \in [1..n -> W]
  PROVE  f \in Seq(W) /\ Len(f) = n
  OBVIOUS

\* The fields of a session, one by one.
SessionTable ==
  <<<<"objectPath", "s">>, <<"source", "s">>, <<"destination", "s">>,
    <<"channel", "y">>, <<"psm", "q">>, <<"target", "s">>, <<"root", "s">>>>

\* It is the table of both sides.
LEMMA SessionTableIs ==
  /\ Fields["SessionProps"] = SessionTable
  /\ DartFields["SessionProps"] = SessionTable
  /\ Len(SessionTable) = 7 /\ DOMAIN SessionTable = 1..7
<1> DEFINE a == Texts(<<"objectPath", "source", "destination">>)
           b == <<<<"channel", "y">>, <<"psm", "q">>>>
           c == Texts(<<"target", "root">>)
           all == a \o b \o c
           t == SessionTable
           W == {SessionTable[i] : i \in 1..7}
<1>1. Fields["SessionProps"] = all
  BY DEF Fields, ObjectFields, MessageFields, ResultFields, Structs
<1>2. DartFields["SessionProps"] = all
  BY DEF DartFields, DartObjectFields, DartResultFields, DartItemFields, Structs,
         ObjectFields, MessageFields, ResultFields
<1>3. /\ a = <<<<"objectPath", "s">>, <<"source", "s">>, <<"destination", "s">>>>
      /\ c = <<<<"target", "s">>, <<"root", "s">>>>
  BY DEF Texts
<1> HIDE DEF a, c
<1>4. a \in Seq(W) /\ b \in Seq(W) /\ c \in Seq(W)
  BY <1>3 DEF SessionTable
<1>5. /\ SessionTable \in [1..7 -> W]
      /\ Len(SessionTable) = 7 /\ DOMAIN SessionTable = 1..7
  BY DEF SessionTable
<1>6. Len(all) = 7
  BY <1>3
<1>7. /\ all[1] = t[1] /\ all[2] = t[2] /\ all[3] = t[3] /\ all[4] = t[4]
      /\ all[5] = t[5] /\ all[6] = t[6] /\ all[7] = t[7]
  BY <1>3 DEF SessionTable
<1>8. \A i \in 1..7 :
        i = 1 \/ i = 2 \/ i = 3 \/ i = 4 \/ i = 5 \/ i = 6 \/ i = 7
  OBVIOUS
<1>9. all \in Seq(W)
  <2> HIDE DEF W, b
  <2> QED BY <1>4
<1> HIDE DEF all, W
<1>10. \A i \in 1..7 : all[i] = SessionTable[i]
  BY <1>7, <1>8
<1>11. all = SessionTable
  <2>1. SessionTable \in Seq(W) /\ Len(all) = Len(SessionTable)
    BY <1>5, <1>6, FunctionIsSeq
  <2>2. \A i \in 1..Len(all) : all[i] = SessionTable[i]
    BY <1>6, <1>10
  <2> QED BY <1>9, <2>1, <2>2, SeqEqual
<1> QED BY <1>1, <1>2, <1>5, <1>11

\* The fields of a transfer, one by one.
TransferTable ==
  <<<<"objectPath", "s">>, <<"status", "s">>, <<"session", "s">>,
    <<"name", "s">>, <<"type", "s">>, <<"time", "t">>, <<"size", "t">>,
    <<"transferred", "t">>, <<"filename", "s">>>>

\* It is the table of both sides.
LEMMA TransferTableIs ==
  /\ Fields["TransferProps"] = TransferTable
  /\ DartFields["TransferProps"] = TransferTable
  /\ Len(TransferTable) = 9 /\ DOMAIN TransferTable = 1..9
<1> DEFINE a == Texts(<<"objectPath", "status", "session", "name", "type">>)
           b == <<<<"time", "t">>, <<"size", "t">>, <<"transferred", "t">>>>
           c == Texts(<<"filename">>)
           all == a \o b \o c
           t == TransferTable
           W == {TransferTable[i] : i \in 1..9}
<1>1. Fields["TransferProps"] = all
  BY DEF Fields, ObjectFields, MessageFields, ResultFields, Structs
<1>2. DartFields["TransferProps"] = all
  BY DEF DartFields, DartObjectFields, DartResultFields, DartItemFields, Structs,
         ObjectFields, MessageFields, ResultFields
<1>3. /\ a = <<<<"objectPath", "s">>, <<"status", "s">>, <<"session", "s">>,
               <<"name", "s">>, <<"type", "s">>>>
      /\ c = <<<<"filename", "s">>>>
  BY DEF Texts
<1> HIDE DEF a, c
<1>4. a \in Seq(W) /\ b \in Seq(W) /\ c \in Seq(W)
  BY <1>3 DEF TransferTable
<1>5. /\ TransferTable \in [1..9 -> W]
      /\ Len(TransferTable) = 9 /\ DOMAIN TransferTable = 1..9
  BY DEF TransferTable
<1>6. Len(all) = 9
  BY <1>3
<1>7. /\ all[1] = t[1] /\ all[2] = t[2] /\ all[3] = t[3] /\ all[4] = t[4]
      /\ all[5] = t[5] /\ all[6] = t[6] /\ all[7] = t[7] /\ all[8] = t[8]
      /\ all[9] = t[9]
  BY <1>3 DEF TransferTable
<1>8. \A i \in 1..9 :
        i = 1 \/ i = 2 \/ i = 3 \/ i = 4 \/ i = 5 \/ i = 6 \/ i = 7 \/ i = 8 \/
        i = 9
  OBVIOUS
<1>9. all \in Seq(W)
  <2> HIDE DEF W, b
  <2> QED BY <1>4
<1> HIDE DEF all, W
<1>10. \A i \in 1..9 : all[i] = TransferTable[i]
  BY <1>7, <1>8
<1>11. all = TransferTable
  <2>1. TransferTable \in Seq(W) /\ Len(all) = Len(TransferTable)
    BY <1>5, <1>6, FunctionIsSeq
  <2>2. \A i \in 1..Len(all) : all[i] = TransferTable[i]
    BY <1>6, <1>10
  <2> QED BY <1>9, <2>1, <2>2, SeqEqual
<1> QED BY <1>1, <1>2, <1>5, <1>11

\* The fields of a phonebook, one by one.
PhonebookTable ==
  <<<<"objectPath", "s">>, <<"folder", "s">>, <<"databaseIdentifier", "s">>,
    <<"primaryCounter", "s">>, <<"secondaryCounter", "s">>,
    <<"fixedImageSize", "b">>>>

\* It is the table of both sides.
LEMMA PhonebookTableIs ==
  /\ Fields["PhonebookProps"] = PhonebookTable
  /\ DartFields["PhonebookProps"] = PhonebookTable
  /\ Len(PhonebookTable) = 6 /\ DOMAIN PhonebookTable = 1..6
<1> DEFINE a == Texts(<<"objectPath", "folder", "databaseIdentifier",
                        "primaryCounter", "secondaryCounter">>)
           b == <<<<"fixedImageSize", "b">>>>
           all == a \o b
           t == PhonebookTable
           W == {PhonebookTable[i] : i \in 1..6}
<1>1. Fields["PhonebookProps"] = all
  BY DEF Fields, ObjectFields, MessageFields, ResultFields, Structs
<1>2. DartFields["PhonebookProps"] = all
  BY DEF DartFields, DartObjectFields, DartResultFields, DartItemFields, Structs,
         ObjectFields, MessageFields, ResultFields
<1>3. /\ a = <<<<"objectPath", "s">>, <<"folder", "s">>,
               <<"databaseIdentifier", "s">>, <<"primaryCounter", "s">>,
               <<"secondaryCounter", "s">>>>
  BY DEF Texts
<1> HIDE DEF a
<1>4. a \in Seq(W) /\ b \in Seq(W)
  BY <1>3 DEF PhonebookTable
<1>5. /\ PhonebookTable \in [1..6 -> W]
      /\ Len(PhonebookTable) = 6 /\ DOMAIN PhonebookTable = 1..6
  BY DEF PhonebookTable
<1>6. Len(all) = 6
  BY <1>3
<1>7. /\ all[1] = t[1] /\ all[2] = t[2] /\ all[3] = t[3] /\ all[4] = t[4]
      /\ all[5] = t[5] /\ all[6] = t[6]
  BY <1>3 DEF PhonebookTable
<1>8. \A i \in 1..6 :
        i = 1 \/ i = 2 \/ i = 3 \/ i = 4 \/ i = 5 \/ i = 6
  OBVIOUS
<1>9. all \in Seq(W)
  <2> HIDE DEF W, b
  <2> QED BY <1>4
<1> HIDE DEF all, W
<1>10. \A i \in 1..6 : all[i] = PhonebookTable[i]
  BY <1>7, <1>8
<1>11. all = PhonebookTable
  <2>1. PhonebookTable \in Seq(W) /\ Len(all) = Len(PhonebookTable)
    BY <1>5, <1>6, FunctionIsSeq
  <2>2. \A i \in 1..Len(all) : all[i] = PhonebookTable[i]
    BY <1>6, <1>10
  <2> QED BY <1>9, <2>1, <2>2, SeqEqual
<1> QED BY <1>1, <1>2, <1>5, <1>11

\* The fields of a message, one by one.
MessageTable ==
  <<<<"objectPath", "s">>, <<"folder", "s">>, <<"subject", "s">>,
    <<"timestamp", "s">>, <<"sender", "s">>, <<"senderAddress", "s">>,
    <<"replyTo", "s">>, <<"recipient", "s">>, <<"recipientAddress", "s">>,
    <<"type", "s">>, <<"size", "t">>, <<"text", "b">>, <<"status", "s">>,
    <<"attachmentSize", "t">>, <<"priority", "b">>, <<"read", "b">>,
    <<"deleted", "b">>, <<"sent", "b">>, <<"protected", "b">>,
    <<"deliveryStatus", "s">>, <<"conversationId", "t">>,
    <<"conversationName", "s">>, <<"direction", "s">>,
    <<"attachmentMimeTypes", "s">>>>

\* It is the table of both sides.
LEMMA MessageTableIs ==
  /\ Fields["MessageProps"] = MessageTable
  /\ DartFields["MessageProps"] = MessageTable
  /\ Len(MessageTable) = 24 /\ DOMAIN MessageTable = 1..24
<1> DEFINE a == Texts(<<"objectPath", "folder", "subject", "timestamp", "sender",
                        "senderAddress", "replyTo", "recipient",
                        "recipientAddress", "type">>)
           b == <<<<"size", "t">>, <<"text", "b">>, <<"status", "s">>,
                  <<"attachmentSize", "t">>, <<"priority", "b">>,
                  <<"read", "b">>, <<"deleted", "b">>, <<"sent", "b">>,
                  <<"protected", "b">>, <<"deliveryStatus", "s">>,
                  <<"conversationId", "t">>>>
           c == Texts(<<"conversationName", "direction", "attachmentMimeTypes">>)
           all == a \o b \o c
           t == MessageTable
           W == {MessageTable[i] : i \in 1..24}
<1>1. Fields["MessageProps"] = all
  BY DEF Fields, ObjectFields, MessageFields, ResultFields, Structs
<1>2. DartFields["MessageProps"] = all
  BY DEF DartFields, DartObjectFields, DartResultFields, DartItemFields, Structs,
         ObjectFields, MessageFields, ResultFields
<1>3. /\ a = <<<<"objectPath", "s">>, <<"folder", "s">>, <<"subject", "s">>,
               <<"timestamp", "s">>, <<"sender", "s">>,
               <<"senderAddress", "s">>, <<"replyTo", "s">>,
               <<"recipient", "s">>, <<"recipientAddress", "s">>,
               <<"type", "s">>>>
      /\ c = <<<<"conversationName", "s">>, <<"direction", "s">>,
               <<"attachmentMimeTypes", "s">>>>
  BY DEF Texts
<1> HIDE DEF a, c
<1>4. a \in Seq(W) /\ b \in Seq(W) /\ c \in Seq(W)
  BY <1>3 DEF MessageTable
<1>5. /\ MessageTable \in [1..24 -> W]
      /\ Len(MessageTable) = 24 /\ DOMAIN MessageTable = 1..24
  BY DEF MessageTable
<1>6. Len(all) = 24
  BY <1>3
<1>7. /\ all[1] = t[1] /\ all[2] = t[2] /\ all[3] = t[3] /\ all[4] = t[4]
      /\ all[5] = t[5] /\ all[6] = t[6] /\ all[7] = t[7] /\ all[8] = t[8]
      /\ all[9] = t[9] /\ all[10] = t[10] /\ all[11] = t[11] /\ all[12] = t[12]
      /\ all[13] = t[13] /\ all[14] = t[14] /\ all[15] = t[15] /\ all[16] = t[16]
      /\ all[17] = t[17] /\ all[18] = t[18] /\ all[19] = t[19] /\ all[20] = t[20]
      /\ all[21] = t[21] /\ all[22] = t[22] /\ all[23] = t[23] /\ all[24] = t[24]
  BY <1>3 DEF MessageTable
<1>8. \A i \in 1..24 :
        i = 1 \/ i = 2 \/ i = 3 \/ i = 4 \/ i = 5 \/ i = 6 \/ i = 7 \/ i = 8 \/
        i = 9 \/ i = 10 \/ i = 11 \/ i = 12 \/ i = 13 \/ i = 14 \/ i = 15 \/
        i = 16 \/ i = 17 \/ i = 18 \/ i = 19 \/ i = 20 \/ i = 21 \/ i = 22 \/
        i = 23 \/ i = 24
  OBVIOUS
<1>9. all \in Seq(W)
  <2> HIDE DEF W, b
  <2> QED BY <1>4
<1> HIDE DEF all, W
<1>10. \A i \in 1..24 : all[i] = MessageTable[i]
  BY <1>7, <1>8
<1>11. all = MessageTable
  <2>1. MessageTable \in Seq(W) /\ Len(all) = Len(MessageTable)
    BY <1>5, <1>6, FunctionIsSeq
  <2>2. \A i \in 1..Len(all) : all[i] = MessageTable[i]
    BY <1>6, <1>10
  <2> QED BY <1>9, <2>1, <2>2, SeqEqual
<1> QED BY <1>1, <1>2, <1>5, <1>11

\* The fields of a device, one by one.
DeviceTable ==
  <<<<"address", "s">>, <<"name", "s">>, <<"paired", "b">>,
    <<"connected", "b">>, <<"uuids", "as">>>>

\* It is the table of both sides.
LEMMA DeviceTableIs ==
  /\ Fields["Device"] = DeviceTable
  /\ DartFields["Device"] = DeviceTable
  /\ Len(DeviceTable) = 5 /\ DOMAIN DeviceTable = 1..5
<1> DEFINE a == Texts(<<"address", "name">>)
           b == <<<<"paired", "b">>, <<"connected", "b">>, <<"uuids", "as">>>>
           all == a \o b
           t == DeviceTable
           W == {DeviceTable[i] : i \in 1..5}
<1>1. Fields["Device"] = all
  BY DEF Fields, ObjectFields, MessageFields, ResultFields, Structs
<1>2. DartFields["Device"] = all
  BY DEF DartFields, DartObjectFields, DartResultFields, DartItemFields, Structs,
         ObjectFields, MessageFields, ResultFields
<1>3. /\ a = <<<<"address", "s">>, <<"name", "s">>>>
  BY DEF Texts
<1> HIDE DEF a
<1>4. a \in Seq(W) /\ b \in Seq(W)
  BY <1>3 DEF DeviceTable
<1>5. /\ DeviceTable \in [1..5 -> W]
      /\ Len(DeviceTable) = 5 /\ DOMAIN DeviceTable = 1..5
  BY DEF DeviceTable
<1>6. Len(all) = 5
  BY <1>3
<1>7. /\ all[1] = t[1] /\ all[2] = t[2] /\ all[3] = t[3] /\ all[4] = t[4]
      /\ all[5] = t[5]
  BY <1>3 DEF DeviceTable
<1>8. \A i \in 1..5 :
        i = 1 \/ i = 2 \/ i = 3 \/ i = 4 \/ i = 5
  OBVIOUS
<1>9. all \in Seq(W)
  <2> HIDE DEF W, b
  <2> QED BY <1>4
<1> HIDE DEF all, W
<1>10. \A i \in 1..5 : all[i] = DeviceTable[i]
  BY <1>7, <1>8
<1>11. all = DeviceTable
  <2>1. DeviceTable \in Seq(W) /\ Len(all) = Len(DeviceTable)
    BY <1>5, <1>6, FunctionIsSeq
  <2>2. \A i \in 1..Len(all) : all[i] = DeviceTable[i]
    BY <1>6, <1>10
  <2> QED BY <1>9, <2>1, <2>2, SeqEqual
<1> QED BY <1>1, <1>2, <1>5, <1>11

\* The other tables, field by field.
SmallTable ==
  [Property |-> <<<<"key", "s">>, <<"value", "s">>>>,
   PhonebookEntry |-> <<<<"vcard", "s">>, <<"name", "s">>>>,
   PhonebookEntries |-> <<<<"entries", "PhonebookEntry">>>>,
   MessageFolder |-> <<<<"name", "s">>>>,
   MessageFolders |-> <<<<"folders", "MessageFolder">>>>,
   MessageAccessProps |-> <<<<"objectPath", "s">>, <<"supportedTypes", "as">>>>,
   Messages |-> <<<<"messages", "MessageProps">>>>,
   FilterFields |-> <<<<"fields", "as">>>>,
   TransferResult |-> <<<<"transferPath", "s">>, <<"properties", "Property">>>>,
   ManagedObjects |->
     <<<<"sessions", "as">>, <<"transfers", "as">>, <<"phonebooks", "as">>,
       <<"messageAccesses", "as">>, <<"messages", "as">>>>,
   ObjectAdded |-> <<<<"objectPath", "s">>, <<"interfaceName", "s">>>>,
   ObjectRemoved |-> <<<<"objectPath", "s">>, <<"interfaceName", "s">>>>,
   Error |-> <<<<"objectPath", "s">>, <<"name", "s">>, <<"message", "s">>>>,
   Devices |-> <<<<"devices", "Device">>>>]

\* They are the tables of both sides.
LEMMA SmallTableIs ==
  \A s \in DOMAIN SmallTable :
    /\ s \in Structs /\ Fields[s] = SmallTable[s] /\ DartFields[s] = SmallTable[s]
<1>1. /\ Texts(<<"key", "value">>)
           = <<<<"key", "s">>, <<"value", "s">>>>
      /\ Texts(<<"vcard", "name">>)
           = <<<<"vcard", "s">>, <<"name", "s">>>>
      /\ Texts(<<"name">>)
           = <<<<"name", "s">>>>
      /\ Lists(<<"fields">>)
           = <<<<"fields", "as">>>>
      /\ Lists(<<"sessions", "transfers", "phonebooks", "messageAccesses", "messages">>)
           = <<<<"sessions", "as">>, <<"transfers", "as">>, <<"phonebooks", "as">>,
               <<"messageAccesses", "as">>, <<"messages", "as">>>>
      /\ Texts(<<"objectPath", "interfaceName">>)
           = <<<<"objectPath", "s">>, <<"interfaceName", "s">>>>
      /\ Texts(<<"objectPath", "name", "message">>)
           = <<<<"objectPath", "s">>, <<"name", "s">>, <<"message", "s">>>>
  BY DEF Texts, Lists
<1> DEFINE Good(s) ==
             /\ s \in Structs /\ Fields[s] = SmallTable[s]
             /\ DartFields[s] = SmallTable[s]
<1>2. Good("Property")
  BY <1>1 DEF SmallTable, Fields, ObjectFields, MessageFields, ResultFields, Structs,
              DartFields, DartObjectFields, DartResultFields, DartItemFields
<1>3. Good("PhonebookEntry")
  BY <1>1 DEF SmallTable, Fields, ObjectFields, MessageFields, ResultFields, Structs,
              DartFields, DartObjectFields, DartResultFields, DartItemFields
<1>4. Good("PhonebookEntries")
  BY <1>1 DEF SmallTable, Fields, ObjectFields, MessageFields, ResultFields, Structs,
              DartFields, DartObjectFields, DartResultFields, DartItemFields
<1>5. Good("MessageFolder")
  BY <1>1 DEF SmallTable, Fields, ObjectFields, MessageFields, ResultFields, Structs,
              DartFields, DartObjectFields, DartResultFields, DartItemFields
<1>6. Good("MessageFolders")
  BY <1>1 DEF SmallTable, Fields, ObjectFields, MessageFields, ResultFields, Structs,
              DartFields, DartObjectFields, DartResultFields, DartItemFields
<1>7. Good("MessageAccessProps")
  BY <1>1 DEF SmallTable, Fields, ObjectFields, MessageFields, ResultFields, Structs,
              DartFields, DartObjectFields, DartResultFields, DartItemFields
<1>8. Good("Messages")
  BY <1>1 DEF SmallTable, Fields, ObjectFields, MessageFields, ResultFields, Structs,
              DartFields, DartObjectFields, DartResultFields, DartItemFields
<1>9. Good("FilterFields")
  BY <1>1 DEF SmallTable, Fields, ObjectFields, MessageFields, ResultFields, Structs,
              DartFields, DartObjectFields, DartResultFields, DartItemFields
<1>10. Good("TransferResult")
  BY <1>1 DEF SmallTable, Fields, ObjectFields, MessageFields, ResultFields, Structs,
              DartFields, DartObjectFields, DartResultFields, DartItemFields
<1>11. Good("ManagedObjects")
  BY <1>1 DEF SmallTable, Fields, ObjectFields, MessageFields, ResultFields, Structs,
              DartFields, DartObjectFields, DartResultFields, DartItemFields
<1>12. Good("ObjectAdded")
  BY <1>1 DEF SmallTable, Fields, ObjectFields, MessageFields, ResultFields, Structs,
              DartFields, DartObjectFields, DartResultFields, DartItemFields
<1>13. Good("ObjectRemoved")
  BY <1>1 DEF SmallTable, Fields, ObjectFields, MessageFields, ResultFields, Structs,
              DartFields, DartObjectFields, DartResultFields, DartItemFields
<1>14. Good("Error")
  BY <1>1 DEF SmallTable, Fields, ObjectFields, MessageFields, ResultFields, Structs,
              DartFields, DartObjectFields, DartResultFields, DartItemFields
<1>15. Good("Devices")
  BY <1>1 DEF SmallTable, Fields, ObjectFields, MessageFields, ResultFields, Structs,
              DartFields, DartObjectFields, DartResultFields, DartItemFields
<1> HIDE DEF Good
<1>16. \A s \in DOMAIN SmallTable : Good(s)
  BY <1>2, <1>3, <1>4, <1>5, <1>6, <1>7, <1>8, <1>9, <1>10, <1>11, <1>12, <1>13, <1>14,
     <1>15 DEF SmallTable
<1> QED BY <1>16 DEF Good

\* The structs lists are made of.
ItemStructs == {"Property", "PhonebookEntry", "MessageFolder", "MessageProps", "Device"}

\* A table whose fields are of these types, and the same on both sides.
TableOf(s, types) ==
  /\ s \in Structs /\ IsTable(Fields[s]) /\ DartFields[s] = Fields[s]
  /\ \A i \in 1..Len(Fields[s]) : Fields[s][i][2] \in types

\* Every struct is in one of the tables.
LEMMA StructsAre ==
  Structs = DOMAIN SmallTable
              \cup {"SessionProps", "TransferProps", "PhonebookProps", "MessageProps",
                    "Device"}
  BY DEF Structs, ObjectFields, MessageFields, ResultFields, SmallTable

\* The fields of the large structs are plain.
LEMMA LargeTables ==
  ASSUME NEW s \in {"SessionProps", "TransferProps", "PhonebookProps", "MessageProps",
                    "Device"}
  PROVE  TableOf(s, PlainTypes)
<1>1. CASE s = "SessionProps"
  <2>1. \A i \in 1..7 : SessionTable[i][2] \in PlainTypes
    BY DEF SessionTable, PlainTypes
  <2>2. s \in Structs
    BY StructsAre
  <2> QED BY <1>1, <2>1, <2>2, SessionTableIs DEF TableOf, IsTable
<1>2. CASE s = "TransferProps"
  <2>1. \A i \in 1..9 : TransferTable[i][2] \in PlainTypes
    BY DEF TransferTable, PlainTypes
  <2>2. s \in Structs
    BY StructsAre
  <2> QED BY <1>2, <2>1, <2>2, TransferTableIs DEF TableOf, IsTable
<1>3. CASE s = "PhonebookProps"
  <2>1. \A i \in 1..6 : PhonebookTable[i][2] \in PlainTypes
    BY DEF PhonebookTable, PlainTypes
  <2>2. s \in Structs
    BY StructsAre
  <2> QED BY <1>3, <2>1, <2>2, PhonebookTableIs DEF TableOf, IsTable
<1>4. CASE s = "MessageProps"
  <2>1. \A i \in 1..24 : MessageTable[i][2] \in PlainTypes
    BY DEF MessageTable, PlainTypes
  <2>2. s \in Structs
    BY StructsAre
  <2> QED BY <1>4, <2>1, <2>2, MessageTableIs DEF TableOf, IsTable
<1>5. CASE s = "Device"
  <2>1. \A i \in 1..5 : DeviceTable[i][2] \in PlainTypes
    BY DEF DeviceTable, PlainTypes
  <2>2. s \in Structs
    BY StructsAre
  <2> QED BY <1>5, <2>1, <2>2, DeviceTableIs DEF TableOf, IsTable
<1> QED BY <1>1, <1>2, <1>3, <1>4, <1>5

\* The others have lists as well.
LEMMA SmallTables ==
  /\ \A s \in DOMAIN SmallTable : TableOf(s, PlainTypes \cup ItemStructs)
  /\ \A s \in {"Property", "PhonebookEntry", "MessageFolder"} : TableOf(s, PlainTypes)
<1> DEFINE Good(s, types) ==
             /\ Len(SmallTable[s]) \in Nat /\ DOMAIN SmallTable[s] = 1..Len(SmallTable[s])
             /\ \A i \in 1..Len(SmallTable[s]) : SmallTable[s][i][2] \in types
<1>1. Good("Property", PlainTypes)
  BY DEF SmallTable, PlainTypes, ItemStructs
<1>2. Good("PhonebookEntry", PlainTypes)
  BY DEF SmallTable, PlainTypes, ItemStructs
<1>3. Good("PhonebookEntries", PlainTypes \cup ItemStructs)
  BY DEF SmallTable, PlainTypes, ItemStructs
<1>4. Good("MessageFolder", PlainTypes)
  BY DEF SmallTable, PlainTypes, ItemStructs
<1>5. Good("MessageFolders", PlainTypes \cup ItemStructs)
  BY DEF SmallTable, PlainTypes, ItemStructs
<1>6. Good("MessageAccessProps", PlainTypes)
  BY DEF SmallTable, PlainTypes, ItemStructs
<1>7. Good("Messages", PlainTypes \cup ItemStructs)
  BY DEF SmallTable, PlainTypes, ItemStructs
<1>8. Good("FilterFields", PlainTypes)
  BY DEF SmallTable, PlainTypes, ItemStructs
<1>9. Good("TransferResult", PlainTypes \cup ItemStructs)
  BY DEF SmallTable, PlainTypes, ItemStructs
<1>10. Good("ManagedObjects", PlainTypes)
  BY DEF SmallTable, PlainTypes, ItemStructs
<1>11. Good("ObjectAdded", PlainTypes)
  BY DEF SmallTable, PlainTypes, ItemStructs
<1>12. Good("ObjectRemoved", PlainTypes)
  BY DEF SmallTable, PlainTypes, ItemStructs
<1>13. Good("Error", PlainTypes)
  BY DEF SmallTable, PlainTypes, ItemStructs
<1>14. Good("Devices", PlainTypes \cup ItemStructs)
  BY DEF SmallTable, PlainTypes, ItemStructs
<1> HIDE DEF Good
<1>20. /\ \A s \in DOMAIN SmallTable : Good(s, PlainTypes \cup ItemStructs)
       /\ \A s \in {"Property", "PhonebookEntry", "MessageFolder"} : Good(s, PlainTypes)
  <2>1. \A s : Good(s, PlainTypes) => Good(s, PlainTypes \cup ItemStructs)
    BY DEF Good
  <2> QED BY <1>1, <1>2, <1>3, <1>4, <1>5, <1>6, <1>7, <1>8, <1>9, <1>10, <1>11, <1>12,
             <1>13, <1>14, <2>1 DEF SmallTable
<1>21. {"Property", "PhonebookEntry", "MessageFolder"} \subseteq DOMAIN SmallTable
  BY DEF SmallTable
<1>22. ASSUME NEW s \in DOMAIN SmallTable, NEW types, Good(s, types)
       PROVE  TableOf(s, types)
  BY <1>22, SmallTableIs DEF TableOf, IsTable, Good
<1> QED BY <1>20, <1>21, <1>22

\* All tables, and those lists are made of.
LEMMA Tables ==
  /\ \A s \in Structs : TableOf(s, PlainTypes \cup ItemStructs)
  /\ \A s \in ItemStructs : TableOf(s, PlainTypes)
<1>1. \A s : TableOf(s, PlainTypes) => TableOf(s, PlainTypes \cup ItemStructs)
  BY DEF TableOf
<1> QED BY <1>1, StructsAre, LargeTables, SmallTables DEF ItemStructs

-----------------------------------------------------------------------------
(***************************************************************************)
(* Records of plain fields.                                                *)
(***************************************************************************)
\* A record that fits its struct.
FitsItem(s, record) ==
  /\ HasFields(record, Fields[s])
  /\ \A i \in 1..Len(Fields[s]) : FitsPlain(Fields[s][i][2], record[Fields[s][i][1]])

\* Its fields as bytes, and their readers.
ItemParts(s, record) ==
  [i \in DOMAIN Fields[s] |-> EncodePlain(Fields[s][i][2], record[Fields[s][i][1]])]
ItemReader(s, d) == [i \in Nat |-> [a \in Nat |-> ReadPlain(d, a, Fields[s][i][2])]]
NativeItemReader(s, d) ==
  [i \in Nat |-> [a \in Nat |-> NativePlain(d, a, Fields[s][i][2])]]

\* The encoder, reader and decoder of a record.
LEMMA ItemIs ==
  ASSUME NEW s \in ItemStructs, NEW record, NEW d, NEW at
  PROVE  /\ EncodeItem(s, record) = FlattenSeq(ItemParts(s, record))
         /\ ReadItem(d, at, s)
              = Named(Fields[s], InOrder(Len(Fields[s]), ItemReader(s, d), at))
         /\ NativeItem(d, at, s)
              = Named(Fields[s], InOrder(Len(Fields[s]), NativeItemReader(s, d), at))
<1>1. EncodeItem(s, record) = FlattenSeq(ItemParts(s, record))
  BY DEF EncodeItem, ItemParts
<1>2. DartFields[s] = Fields[s]
  BY Tables DEF TableOf
<1>3. ReadItem(d, at, s)
        = Named(Fields[s], InOrder(Len(Fields[s]), ItemReader(s, d), at))
  BY <1>2 DEF ReadItem, ItemReader
<1>4. NativeItem(d, at, s)
        = Named(Fields[s], InOrder(Len(Fields[s]), NativeItemReader(s, d), at))
  BY DEF NativeItem, NativeItemReader
<1> QED BY <1>1, <1>3, <1>4

\* A record as bytes.
LEMMA ItemWritten ==
  ASSUME NEW s \in ItemStructs, NEW record, FitsItem(s, record)
  PROVE  LET parts == ItemParts(s, record)
         IN  /\ parts \in Seq(Text) /\ Len(parts) = Len(Fields[s])
             /\ \A i \in 1..Len(Fields[s]) :
                  /\ parts[i] = EncodePlain(Fields[s][i][2], record[Fields[s][i][1]])
                  /\ Least(Fields[s][i][2]) <= Len(parts[i])
             /\ EncodeItem(s, record) \in Text
<1> DEFINE f == Fields[s]
           parts == ItemParts(s, record)
<1>1. Len(f) \in Nat /\ DOMAIN f = 1..Len(f)
  BY Tables DEF TableOf, IsTable
<1>2. ASSUME NEW i \in 1..Len(f)
      PROVE  /\ parts[i] = EncodePlain(f[i][2], record[f[i][1]])
             /\ parts[i] \in Text /\ Least(f[i][2]) <= Len(parts[i])
  <2>1. parts[i] = EncodePlain(f[i][2], record[f[i][1]])
    BY <1>1 DEF ItemParts
  <2>2. FitsPlain(f[i][2], record[f[i][1]])
    BY DEF FitsItem
  <2> HIDE DEF parts, f
  <2> QED BY <2>1, <2>2, PlainBytes
<1>3. parts = [i \in 1..Len(f) |-> parts[i]]
  BY <1>1 DEF ItemParts
<1> HIDE DEF parts, f
<1>4. parts \in [1..Len(f) -> Text]
  BY <1>2, <1>3
<1>5. parts \in Seq(Text) /\ Len(parts) = Len(f)
  BY <1>1, <1>4, FunctionIsSeq
<1>6. FlattenSeq(parts) \in Text
  BY <1>5, FlattenSeqLaid DEF Text
<1>7. EncodeItem(s, record) \in Text
  BY <1>6, ItemIs DEF parts
<1> QED BY <1>2, <1>5, <1>7 DEF parts, f

\* Reading a record, in Dart.
LEMMA ReadItemRight ==
  ASSUME NEW d \in Text, NEW at \in 0..Len(d), NEW s \in ItemStructs, NEW record,
         FitsItem(s, record), Agree(d, at, EncodeItem(s, record))
  PROVE  Right(ReadItem(d, at, s), d, at, EncodeItem(s, record), record)
<1> DEFINE f == Fields[s]
           parts == ItemParts(s, record)
           read == ItemReader(s, d)
<1>1. IsTable(f) /\ HasFields(record, f)
  BY Tables DEF TableOf, FitsItem
<1>2. /\ parts \in Seq(Text) /\ Len(parts) = Len(f)
      /\ \A i \in 1..Len(f) : parts[i] = EncodePlain(f[i][2], record[f[i][1]])
  BY ItemWritten
<1>3. \A i, a \in Nat : read[i][a] = ReadPlain(d, a, f[i][2])
  BY DEF ItemReader
<1>4. \A i \in 1..Len(f) : FitsPlain(f[i][2], record[f[i][1]])
  BY DEF FitsItem
<1>5. /\ EncodeItem(s, record) = FlattenSeq(parts)
      /\ ReadItem(d, at, s) = Named(f, InOrder(Len(f), read, at))
  BY ItemIs
<1>6. Agree(d, at, FlattenSeq(parts))
  BY <1>5
<1> HIDE DEF f, parts, read
<1>7. ReadsParts(read, d, parts, InOrderOf(f, record), FALSE)
  <2>1. ASSUME NEW i \in 1..Len(parts), NEW a \in 0..Len(d), Agree(d, a, parts[i])
        PROVE  Right(read[i][a], d, a, parts[i], InOrderOf(f, record)[i])
    <3>1. i \in Nat /\ a \in Nat /\ i \in 1..Len(f)
      BY <1>2, TextBytes
    <3>2. Agree(d, a, EncodePlain(f[i][2], record[f[i][1]]))
      BY <1>2, <2>1, <3>1
    <3>3. Right(ReadPlain(d, a, f[i][2]), d, a, EncodePlain(f[i][2], record[f[i][1]]),
                record[f[i][1]])
      BY <1>4, <3>1, <3>2, ReadPlainRight
    <3>4. InOrderOf(f, record)[i] = record[f[i][1]]
      BY <3>1 DEF InOrderOf
    <3> QED BY <1>2, <1>3, <3>1, <3>3, <3>4
  <2> QED BY <2>1 DEF ReadsParts
<1>8. Right(Named(f, InOrder(Len(f), read, at)), d, at, FlattenSeq(parts), record)
  BY <1>1, <1>2, <1>6, <1>7, RecordRight
<1> QED BY <1>5, <1>8

\* Reading a record that is there, in C++.
LEMMA NativeItemRight ==
  ASSUME NEW d \in Text, NEW at \in 0..Len(d), NEW s \in ItemStructs, NEW record,
         FitsItem(s, record), Agree(d, at, EncodeItem(s, record)),
         at + Len(EncodeItem(s, record)) <= Len(d)
  PROVE  Right(NativeItem(d, at, s), d, at, EncodeItem(s, record), record)
<1> DEFINE f == Fields[s]
           parts == ItemParts(s, record)
           read == NativeItemReader(s, d)
<1>1. IsTable(f) /\ HasFields(record, f)
  BY Tables DEF TableOf, FitsItem
<1>2. /\ parts \in Seq(Text) /\ Len(parts) = Len(f)
      /\ \A i \in 1..Len(f) : parts[i] = EncodePlain(f[i][2], record[f[i][1]])
  BY ItemWritten
<1>3. \A i, a \in Nat : read[i][a] = NativePlain(d, a, f[i][2])
  BY DEF NativeItemReader
<1>4. \A i \in 1..Len(f) : FitsPlain(f[i][2], record[f[i][1]])
  BY DEF FitsItem
<1>5. /\ EncodeItem(s, record) = FlattenSeq(parts)
      /\ NativeItem(d, at, s) = Named(f, InOrder(Len(f), read, at))
  BY ItemIs
<1>6. Agree(d, at, FlattenSeq(parts)) /\ at + Len(FlattenSeq(parts)) <= Len(d)
  BY <1>5
<1> HIDE DEF f, parts, read
<1>7. ReadsParts(read, d, parts, InOrderOf(f, record), TRUE)
  <2>1. ASSUME NEW i \in 1..Len(parts), NEW a \in 0..Len(d), Agree(d, a, parts[i]),
               a + Len(parts[i]) <= Len(d)
        PROVE  Right(read[i][a], d, a, parts[i], InOrderOf(f, record)[i])
    <3>1. i \in Nat /\ a \in Nat /\ i \in 1..Len(f)
      BY <1>2, TextBytes
    <3>2. /\ Agree(d, a, EncodePlain(f[i][2], record[f[i][1]]))
          /\ a + Len(EncodePlain(f[i][2], record[f[i][1]])) <= Len(d)
      BY <1>2, <2>1, <3>1
    <3>3. Right(NativePlain(d, a, f[i][2]), d, a,
                EncodePlain(f[i][2], record[f[i][1]]), record[f[i][1]])
      BY <1>4, <3>1, <3>2, NativePlainRight
    <3>4. InOrderOf(f, record)[i] = record[f[i][1]]
      BY <3>1 DEF InOrderOf
    <3> QED BY <1>2, <1>3, <3>1, <3>3, <3>4
  <2> QED BY <2>1 DEF ReadsParts
<1>8. Right(Named(f, InOrder(Len(f), read, at)), d, at, FlattenSeq(parts), record)
  BY <1>1, <1>2, <1>6, <1>7, RecordRight
<1> QED BY <1>5, <1>8

\* low[i] is the fewest bytes of the fields before field i.
Lows(low, f) ==
  /\ low[1] = 0
  /\ \A i \in 1..Len(f) : low[i] \in Nat /\ low[i + 1] = low[i] + Least(f[i][2])

\* Together fields have as many bytes at least.
LEMMA LowsLength ==
  ASSUME NEW f, NEW o, NEW parts, NEW flat, Laid(o, parts, flat), Sized(parts),
         Len(flat) \in Nat, Len(f) \in Nat, Len(parts) = Len(f),
         \A i \in 1..Len(f) : Least(f[i][2]) <= Len(parts[i]),
         NEW low, Lows(low, f)
  PROVE  low[Len(f) + 1] <= Len(flat)
<1> DEFINE n == Len(f)
           T == {i \in 0..n : low[i + 1] <= o[i]}
<1>1. /\ n \in Nat /\ o[0] = 0 /\ o[n] = Len(flat)
      /\ \A i \in 0..n : o[i] \in Nat
      /\ \A i \in 1..n : o[i] = o[i - 1] + Len(parts[i]) /\ Len(parts[i]) \in Nat
  BY DEF Laid, Sized
<1>2. 0 \in T
  BY <1>1 DEF Lows
<1>3. \A i \in 1..n : i - 1 \in T => i \in T
  <2> SUFFICES ASSUME NEW i \in 1..n, i - 1 \in T PROVE i \in T
    OBVIOUS
  <2>1. /\ low[i] \in Nat /\ low[i + 1] = low[i] + Least(f[i][2])
        /\ Least(f[i][2]) \in Nat /\ Least(f[i][2]) <= Len(parts[i])
    BY DEF Lows, Least
  <2>2. /\ o[i] = o[i - 1] + Len(parts[i]) /\ Len(parts[i]) \in Nat
        /\ o[i - 1] \in Nat /\ low[i] <= o[i - 1]
    <3>1. (i - 1) + 1 = i /\ i - 1 \in 0..n
      BY <1>1
    <3> QED BY <1>1, <3>1
  <2>3. low[i + 1] <= o[i] /\ i \in 0..n
    BY <1>1, <2>1, <2>2, SMTT(30)
  <2> QED BY <2>3
<1>4. n \in T
  <2> HIDE DEF T, n
  <2>1. \A i \in 0..n : i \in T
    BY <1>1, <1>2, <1>3, BoundedInduction
  <2> QED BY <1>1, <2>1
<1> QED BY <1>1, <1>4

\* An element has at least the bytes it is taken to need.
LEMMA ItemLength ==
  ASSUME NEW s \in ItemStructs, NEW record, FitsItem(s, record)
  PROVE  MinimumBytes[s] <= Len(EncodeItem(s, record))
<1> DEFINE f == Fields[s]
           parts == ItemParts(s, record)
           flat == EncodeItem(s, record)
<1>1. /\ parts \in Seq(Text) /\ Len(parts) = Len(f) /\ flat \in Text
      /\ \A i \in 1..Len(f) : Least(f[i][2]) <= Len(parts[i])
      /\ flat = FlattenSeq(parts) /\ Len(f) \in Nat
  BY ItemWritten, ItemIs, Tables DEF TableOf, IsTable
<1>2. PICK o : Laid(o, parts, flat)
  BY <1>1, FlattenSeqLaid DEF Text
<1>3. Sized(parts) /\ Len(flat) \in Nat
  BY <1>1, TextsSized, TextBytes
<1> HIDE DEF f, parts, flat
<1>4. ASSUME NEW low, Lows(low, f) PROVE low[Len(f) + 1] <= Len(flat)
  BY <1>1, <1>2, <1>3, <1>4, LowsLength
<1>5. Least("s") = 4 /\ Least("as") = 4 /\ Least("t") = 8 /\ Least("b") = 1
  BY DEF Least
<1>6. CASE s \in {"Property", "PhonebookEntry"}
  <2> DEFINE low == <<0, 4, 8>>
  <2>1. Len(f) = 2 /\ f[1][2] = "s" /\ f[2][2] = "s"
    BY <1>6, SmallTableIs DEF f, SmallTable
  <2>2. Lows(low, f) /\ low[3] = 8
    BY <1>5, <2>1 DEF Lows
  <2> QED BY <1>4, <1>6, <2>1, <2>2 DEF MinimumBytes, flat
<1>7. CASE s = "MessageFolder"
  <2> DEFINE low == <<0, 4>>
  <2>1. Len(f) = 1 /\ f[1][2] = "s"
    BY <1>7, SmallTableIs DEF f, SmallTable
  <2>2. Lows(low, f) /\ low[2] = 4
    BY <1>5, <2>1 DEF Lows
  <2> QED BY <1>4, <1>7, <2>1, <2>2 DEF MinimumBytes, flat
<1>8. CASE s = "Device"
  <2> DEFINE low == <<0, 4, 8, 9, 10, 14>>
  <2>1. /\ Len(f) = 5 /\ f[1][2] = "s" /\ f[2][2] = "s" /\ f[3][2] = "b"
        /\ f[4][2] = "b" /\ f[5][2] = "as"
    BY <1>8, DeviceTableIs DEF f, DeviceTable
  <2>2. Lows(low, f) /\ low[6] = 14
    BY <1>5, <2>1 DEF Lows
  <2> QED BY <1>4, <1>8, <2>1, <2>2 DEF MinimumBytes, flat
<1>9. CASE s = "MessageProps"
  <2> DEFINE low == <<0, 4, 8, 12, 16, 20, 24, 28, 32, 36, 40, 48, 49, 53, 61, 62, 63, 64,
                      65, 66, 70, 78, 82, 86, 90>>
  <2>1. f = MessageTable /\ Len(f) = 24
    BY <1>9, MessageTableIs DEF f
  <2>2. Lows(low, f) /\ low[25] = 90
    <3>1. \A i \in 1..24 : low[i] \in Nat
      OBVIOUS
    <3>2. \A i \in 1..24 : low[i + 1] = low[i] + Least(f[i][2])
      BY <1>5, <2>1 DEF MessageTable
    <3>3. low[1] = 0 /\ low[25] = 90
      OBVIOUS
    <3> HIDE DEF low
    <3> QED BY <2>1, <3>1, <3>2, <3>3 DEF Lows
  <2> HIDE DEF low
  <2>3. 90 <= Len(flat)
    BY <1>4, <2>1, <2>2
  <2> QED BY <1>9, <2>3 DEF MinimumBytes, flat
<1> QED BY <1>6, <1>7, <1>8, <1>9 DEF ItemStructs

-----------------------------------------------------------------------------
(***************************************************************************)
(* Fields that are lists of records.                                       *)
(***************************************************************************)
\* A field that fits its type.
FitsField(type, v) ==
  IF type \in ItemStructs
  THEN /\ v \in Seq({v[i] : i \in DOMAIN v}) /\ Len(v) < Limit
       /\ \A i \in 1..Len(v) : FitsItem(type, v[i])
  ELSE FitsPlain(type, v)

\* The records of a list, as they are written and read.
RecordParts(type, v) == [i \in DOMAIN v |-> EncodeItem(type, v[i])]
RecordReader(type, d) == [i \in Nat |-> [a \in Nat |-> ReadItem(d, a, type)]]
NativeRecordReader(type, d) == [i \in Nat |-> [a \in Nat |-> NativeItem(d, a, type)]]

\* No plain type is a struct.
LEMMA PlainNotStruct == \A type \in PlainTypes : type \notin Structs
  BY StructsAre DEF PlainTypes, SmallTable

\* The encoder, reader and decoder of a field.
LEMMA RecordFieldIs ==
  ASSUME NEW type \in ItemStructs, NEW v, NEW d, NEW at
  PROVE  /\ EncodeField(type, v) = EncodeEach(RecordParts(type, v))
         /\ ReadField(d, at, type)
              = ReadEach(d, at, MinimumBytes[type], RecordReader(type, d))
         /\ NativeField(d, at, type)
              = InOrder(Number(d, at, 4), NativeRecordReader(type, d), at + 4)
<1>1. type \in Structs
  BY Tables DEF TableOf
<1> QED BY <1>1 DEF EncodeField, ReadField, NativeField, RecordParts, RecordReader,
                    NativeRecordReader

\* A field that is no list of records.
LEMMA PlainFieldIs ==
  ASSUME NEW type \in PlainTypes, NEW v, NEW d, NEW at
  PROVE  /\ EncodeField(type, v) = EncodePlain(type, v)
         /\ ReadField(d, at, type) = ReadPlain(d, at, type)
         /\ NativeField(d, at, type) = NativePlain(d, at, type)
         /\ type \notin ItemStructs
<1>1. type \notin Structs
  BY PlainNotStruct
<1>2. type \notin ItemStructs
  BY <1>1, Tables DEF TableOf
<1> QED BY <1>1, <1>2 DEF EncodeField, ReadField, NativeField

\* What an element needs.
LEMMA MinimumIs ==
  ASSUME NEW type \in ItemStructs
  PROVE  MinimumBytes[type] \in Needs
  BY DEF MinimumBytes, ItemStructs, Needs

\* A list of records as bytes.
LEMMA RecordsWritten ==
  ASSUME NEW type \in ItemStructs, NEW v, FitsField(type, v)
  PROVE  LET parts == RecordParts(type, v)
         IN  /\ parts \in Seq(Text) /\ Len(parts) = Len(v) /\ Len(v) \in Nat
             /\ \A i \in 1..Len(v) : /\ parts[i] = EncodeItem(type, v[i])
                                     /\ FitsItem(type, v[i])
             /\ AtLeast(parts, MinimumBytes[type])
             /\ v \in Seq({v[i] : i \in DOMAIN v}) /\ Len(v) < Limit
<1> DEFINE parts == RecordParts(type, v)
<1>1. /\ v \in Seq({v[i] : i \in DOMAIN v}) /\ Len(v) < Limit
      /\ \A i \in 1..Len(v) : FitsItem(type, v[i])
  BY DEF FitsField
<1>2. Len(v) \in Nat /\ DOMAIN v = 1..Len(v)
  BY <1>1
<1>3. ASSUME NEW i \in 1..Len(v)
      PROVE  /\ parts[i] = EncodeItem(type, v[i]) /\ parts[i] \in Text
             /\ MinimumBytes[type] <= Len(parts[i])
  <2>1. parts[i] = EncodeItem(type, v[i])
    BY <1>2 DEF RecordParts
  <2> HIDE DEF parts
  <2> QED BY <1>1, <2>1, ItemWritten, ItemLength
<1>4. parts = [i \in 1..Len(v) |-> parts[i]]
  BY <1>2 DEF RecordParts
<1> HIDE DEF parts
<1>5. parts \in [1..Len(v) -> Text]
  BY <1>3, <1>4
<1>6. parts \in Seq(Text) /\ Len(parts) = Len(v)
  BY <1>2, <1>5, FunctionIsSeq
<1>7. AtLeast(parts, MinimumBytes[type])
  BY <1>3, <1>6 DEF AtLeast
<1> QED BY <1>1, <1>2, <1>3, <1>6, <1>7 DEF parts

\* A field as bytes.
LEMMA FieldBytes ==
  ASSUME NEW type \in PlainTypes \cup ItemStructs, NEW v, FitsField(type, v)
  PROVE  EncodeField(type, v) \in Text
<1>1. CASE type \in ItemStructs
  <2> DEFINE parts == RecordParts(type, v)
  <2>1. parts \in Seq(Text) /\ Len(parts) < Limit
    BY <1>1, RecordsWritten
  <2>2. EncodeField(type, v) = EncodeEach(parts)
    BY <1>1, RecordFieldIs
  <2> HIDE DEF parts
  <2>3. EncodeEach(parts) \in Text
    BY <2>1, EncodeEachIs
  <2> QED BY <2>2, <2>3
<1>2. CASE type \in PlainTypes
  <2>1. EncodeField(type, v) = EncodePlain(type, v) /\ type \notin ItemStructs
    BY <1>2, PlainFieldIs
  <2>2. FitsPlain(type, v)
    BY <2>1 DEF FitsField
  <2> QED BY <2>1, <2>2, PlainBytes
<1> QED BY <1>1, <1>2

\* Reading a field, in Dart.
LEMMA ReadFieldRight ==
  ASSUME NEW d \in Text, NEW at \in 0..Len(d), NEW type \in PlainTypes \cup ItemStructs,
         NEW v, FitsField(type, v), Agree(d, at, EncodeField(type, v))
  PROVE  Right(ReadField(d, at, type), d, at, EncodeField(type, v), v)
<1>1. CASE type \in PlainTypes
  <2>1. /\ EncodeField(type, v) = EncodePlain(type, v) /\ type \notin ItemStructs
        /\ ReadField(d, at, type) = ReadPlain(d, at, type)
    BY <1>1, PlainFieldIs
  <2>2. FitsPlain(type, v) /\ Agree(d, at, EncodePlain(type, v))
    BY <2>1 DEF FitsField
  <2>3. Right(ReadPlain(d, at, type), d, at, EncodePlain(type, v), v)
    BY <2>2, ReadPlainRight
  <2> QED BY <2>1, <2>3
<1>2. CASE type \in ItemStructs
  <2> DEFINE parts == RecordParts(type, v)
             read == RecordReader(type, d)
             m == MinimumBytes[type]
             W == {v[i] : i \in DOMAIN v}
  <2>1. /\ parts \in Seq(Text) /\ Len(parts) = Len(v) /\ Len(v) \in Nat
        /\ \A i \in 1..Len(v) : parts[i] = EncodeItem(type, v[i]) /\ FitsItem(type, v[i])
        /\ AtLeast(parts, m) /\ v \in Seq(W) /\ Len(v) < Limit
    BY <1>2, RecordsWritten, ZenonT(60)
  <2>2. /\ EncodeField(type, v) = EncodeEach(parts)
        /\ ReadField(d, at, type) = ReadEach(d, at, m, read)
    BY <1>2, RecordFieldIs
  <2>3. \A i, a \in Nat : read[i][a] = ReadItem(d, a, type)
    BY DEF RecordReader
  <2>4. m \in Needs
    BY <1>2, MinimumIs
  <2> HIDE DEF parts, read, m, W
  <2>5. ReadsParts(read, d, parts, v, FALSE)
    <3>1. ASSUME NEW i \in 1..Len(parts), NEW a \in 0..Len(d), Agree(d, a, parts[i])
          PROVE  Right(read[i][a], d, a, parts[i], v[i])
      <4>1. i \in Nat /\ a \in Nat /\ i \in 1..Len(v)
        BY <2>1, TextBytes
      <4>2. parts[i] = EncodeItem(type, v[i]) /\ FitsItem(type, v[i])
        BY <2>1, <4>1
      <4>3. Right(ReadItem(d, a, type), d, a, EncodeItem(type, v[i]), v[i])
        BY <1>2, <3>1, <4>2, ReadItemRight
      <4> QED BY <2>3, <4>1, <4>2, <4>3
    <3> QED BY <3>1 DEF ReadsParts
  <2>6. Right(ReadEach(d, at, m, read), d, at, EncodeEach(parts), v)
    <3>1. Agree(d, at, EncodeEach(parts)) /\ Len(parts) < Limit
      BY <2>1, <2>2
    <3>2. parts \in Seq(Text) /\ v \in Seq(W) /\ Len(v) = Len(parts) /\ AtLeast(parts, m)
      BY <2>1
    <3> QED BY <2>4, <2>5, <3>1, <3>2, ReadEachRight
  <2> QED BY <2>2, <2>6
<1> QED BY <1>1, <1>2

\* Reading a field that is there, in C++.
LEMMA NativeFieldRight ==
  ASSUME NEW d \in Text, NEW at \in 0..Len(d), NEW type \in PlainTypes \cup ItemStructs,
         NEW v, FitsField(type, v), Agree(d, at, EncodeField(type, v)),
         at + Len(EncodeField(type, v)) <= Len(d)
  PROVE  Right(NativeField(d, at, type), d, at, EncodeField(type, v), v)
<1>1. CASE type \in PlainTypes
  <2>1. /\ EncodeField(type, v) = EncodePlain(type, v) /\ type \notin ItemStructs
        /\ NativeField(d, at, type) = NativePlain(d, at, type)
    BY <1>1, PlainFieldIs
  <2>2. /\ FitsPlain(type, v) /\ Agree(d, at, EncodePlain(type, v))
        /\ at + Len(EncodePlain(type, v)) <= Len(d)
    BY <2>1 DEF FitsField
  <2>3. Right(NativePlain(d, at, type), d, at, EncodePlain(type, v), v)
    BY <2>2, NativePlainRight
  <2> QED BY <2>1, <2>3
<1>2. CASE type \in ItemStructs
  <2> DEFINE parts == RecordParts(type, v)
             read == NativeRecordReader(type, d)
             W == {v[i] : i \in DOMAIN v}
  <2>1. /\ parts \in Seq(Text) /\ Len(parts) = Len(v) /\ Len(v) \in Nat
        /\ \A i \in 1..Len(v) : parts[i] = EncodeItem(type, v[i]) /\ FitsItem(type, v[i])
        /\ v \in Seq(W) /\ Len(v) < Limit
    BY <1>2, RecordsWritten, ZenonT(60)
  <2>2. /\ EncodeField(type, v) = EncodeEach(parts)
        /\ NativeField(d, at, type) = InOrder(Number(d, at, 4), read, at + 4)
    BY <1>2, RecordFieldIs
  <2>3. \A i, a \in Nat : read[i][a] = NativeItem(d, a, type)
    BY DEF NativeRecordReader
  <2> HIDE DEF parts, read, W
  <2>4. ReadsParts(read, d, parts, v, TRUE)
    <3>1. ASSUME NEW i \in 1..Len(parts), NEW a \in 0..Len(d), Agree(d, a, parts[i]),
                 a + Len(parts[i]) <= Len(d)
          PROVE  Right(read[i][a], d, a, parts[i], v[i])
      <4>1. i \in Nat /\ a \in Nat /\ i \in 1..Len(v)
        BY <2>1, TextBytes
      <4>2. parts[i] = EncodeItem(type, v[i]) /\ FitsItem(type, v[i])
        BY <2>1, <4>1
      <4>3. Right(NativeItem(d, a, type), d, a, EncodeItem(type, v[i]), v[i])
        BY <1>2, <3>1, <4>2, NativeItemRight
      <4> QED BY <2>3, <4>1, <4>2, <4>3
    <3> QED BY <3>1 DEF ReadsParts
  <2>5. Right(InOrder(Number(d, at, 4), read, at + 4), d, at, EncodeEach(parts), v)
    <3>1. /\ Agree(d, at, EncodeEach(parts)) /\ Len(parts) < Limit
          /\ at + Len(EncodeEach(parts)) <= Len(d)
      BY <2>1, <2>2
    <3> QED BY <2>1, <2>4, <3>1, NativeEachRight
  <2> QED BY <2>2, <2>5
<1> QED BY <1>1, <1>2

-----------------------------------------------------------------------------
(***************************************************************************)
(* Structs.                                                                *)
(***************************************************************************)
\* A record that fits its struct.
FitsStruct(s, record) ==
  /\ HasFields(record, Fields[s])
  /\ \A i \in 1..Len(Fields[s]) : FitsField(Fields[s][i][2], record[Fields[s][i][1]])

\* Its fields as bytes, and their readers.
FieldParts(s, record) ==
  [i \in DOMAIN Fields[s] |-> EncodeField(Fields[s][i][2], record[Fields[s][i][1]])]
FieldReader(s, d) == [i \in Nat |-> [a \in Nat |-> ReadField(d, a, Fields[s][i][2])]]
NativeFieldReader(s, d) ==
  [i \in Nat |-> [a \in Nat |-> NativeField(d, a, Fields[s][i][2])]]

\* The encoder, reader and decoder of a struct.
LEMMA StructIs ==
  ASSUME NEW s \in Structs, NEW record, NEW d, NEW at
  PROVE  /\ Encode(s, record) = FlattenSeq(FieldParts(s, record))
         /\ Decode(s, d, at)
              = Named(Fields[s], InOrder(Len(Fields[s]), FieldReader(s, d), at))
         /\ NativeDecode(s, d, at)
              = Named(Fields[s], InOrder(Len(Fields[s]), NativeFieldReader(s, d), at))
<1>1. Encode(s, record) = FlattenSeq(FieldParts(s, record))
  BY DEF Encode, FieldParts
<1>2. DartFields[s] = Fields[s]
  BY Tables DEF TableOf
<1>3. Decode(s, d, at)
        = Named(Fields[s], InOrder(Len(Fields[s]), FieldReader(s, d), at))
  BY <1>2 DEF Decode, FieldReader
<1>4. NativeDecode(s, d, at)
        = Named(Fields[s], InOrder(Len(Fields[s]), NativeFieldReader(s, d), at))
  BY DEF NativeDecode, NativeFieldReader
<1> QED BY <1>1, <1>3, <1>4

\* A struct as bytes.
LEMMA StructWritten ==
  ASSUME NEW s \in Structs, NEW record, FitsStruct(s, record)
  PROVE  LET f == Fields[s]
             parts == FieldParts(s, record)
         IN  /\ parts \in Seq(Text) /\ Len(parts) = Len(f) /\ IsTable(f)
             /\ \A i \in 1..Len(f) :
                  /\ parts[i] = EncodeField(f[i][2], record[f[i][1]])
                  /\ f[i][2] \in PlainTypes \cup ItemStructs
                  /\ FitsField(f[i][2], record[f[i][1]])
             /\ Encode(s, record) \in Text
<1> DEFINE f == Fields[s]
           parts == FieldParts(s, record)
<1>1. /\ IsTable(f) /\ Len(f) \in Nat /\ DOMAIN f = 1..Len(f)
      /\ \A i \in 1..Len(f) : f[i][2] \in PlainTypes \cup ItemStructs
  BY Tables DEF TableOf, IsTable
<1>2. \A i \in 1..Len(f) : FitsField(f[i][2], record[f[i][1]])
  BY DEF FitsStruct
<1>3. \A i \in 1..Len(f) : parts[i] = EncodeField(f[i][2], record[f[i][1]])
  BY <1>1 DEF FieldParts
<1>4. parts = [i \in 1..Len(f) |-> parts[i]]
  BY <1>1 DEF FieldParts
<1>5. Encode(s, record) = FlattenSeq(parts)
  BY StructIs
<1> HIDE DEF parts, f
<1>6. \A i \in 1..Len(f) : parts[i] \in Text
  BY <1>1, <1>2, <1>3, FieldBytes
<1>7. parts \in [1..Len(f) -> Text]
  BY <1>4, <1>6
<1>8. parts \in Seq(Text) /\ Len(parts) = Len(f)
  BY <1>1, <1>7, FunctionIsSeq
<1>9. FlattenSeq(parts) \in Text
  BY <1>8, FlattenSeqLaid DEF Text
<1> QED BY <1>1, <1>2, <1>3, <1>5, <1>8, <1>9 DEF parts, f

\* What Dart reads from a message, and from the start of one: the record that
\* was written, unless the end of it is missing.
LEMMA DecodeRight ==
  ASSUME NEW d \in Text, NEW at \in 0..Len(d), NEW s \in Structs, NEW record,
         FitsStruct(s, record), Agree(d, at, Encode(s, record))
  PROVE  Right(Decode(s, d, at), d, at, Encode(s, record), record)
<1> DEFINE f == Fields[s]
           parts == FieldParts(s, record)
           read == FieldReader(s, d)
<1>1. /\ parts \in Seq(Text) /\ Len(parts) = Len(f) /\ IsTable(f)
      /\ \A i \in 1..Len(f) : /\ parts[i] = EncodeField(f[i][2], record[f[i][1]])
                              /\ f[i][2] \in PlainTypes \cup ItemStructs
                              /\ FitsField(f[i][2], record[f[i][1]])
  BY StructWritten
<1>2. HasFields(record, f)
  BY DEF FitsStruct
<1>3. \A i, a \in Nat : read[i][a] = ReadField(d, a, f[i][2])
  BY DEF FieldReader
<1>4. /\ Encode(s, record) = FlattenSeq(parts)
      /\ Decode(s, d, at) = Named(f, InOrder(Len(f), read, at))
  BY StructIs
<1>5. Agree(d, at, FlattenSeq(parts))
  BY <1>4
<1> HIDE DEF f, parts, read
<1>6. ReadsParts(read, d, parts, InOrderOf(f, record), FALSE)
  <2>1. ASSUME NEW i \in 1..Len(parts), NEW a \in 0..Len(d), Agree(d, a, parts[i])
        PROVE  Right(read[i][a], d, a, parts[i], InOrderOf(f, record)[i])
    <3>1. i \in Nat /\ a \in Nat /\ i \in 1..Len(f)
      BY <1>1, TextBytes
    <3>2. /\ parts[i] = EncodeField(f[i][2], record[f[i][1]])
          /\ f[i][2] \in PlainTypes \cup ItemStructs
          /\ FitsField(f[i][2], record[f[i][1]])
      BY <1>1, <3>1
    <3>3. Right(ReadField(d, a, f[i][2]), d, a, EncodeField(f[i][2], record[f[i][1]]),
                record[f[i][1]])
      BY <2>1, <3>2, ReadFieldRight
    <3>4. InOrderOf(f, record)[i] = record[f[i][1]]
      BY <3>1 DEF InOrderOf
    <3> QED BY <1>3, <3>1, <3>2, <3>3, <3>4
  <2> QED BY <2>1 DEF ReadsParts
<1>7. Right(Named(f, InOrder(Len(f), read, at)), d, at, FlattenSeq(parts), record)
  BY <1>1, <1>2, <1>5, <1>6, RecordRight
<1> QED BY <1>4, <1>7

\* What the C++ decoder reads from a whole message.
LEMMA NativeDecodeRight ==
  ASSUME NEW d \in Text, NEW at \in 0..Len(d), NEW s \in Structs, NEW record,
         FitsStruct(s, record), Agree(d, at, Encode(s, record)),
         at + Len(Encode(s, record)) <= Len(d)
  PROVE  Right(NativeDecode(s, d, at), d, at, Encode(s, record), record)
<1> DEFINE f == Fields[s]
           parts == FieldParts(s, record)
           read == NativeFieldReader(s, d)
<1>1. /\ parts \in Seq(Text) /\ Len(parts) = Len(f) /\ IsTable(f)
      /\ \A i \in 1..Len(f) : /\ parts[i] = EncodeField(f[i][2], record[f[i][1]])
                              /\ f[i][2] \in PlainTypes \cup ItemStructs
                              /\ FitsField(f[i][2], record[f[i][1]])
  BY StructWritten
<1>2. HasFields(record, f)
  BY DEF FitsStruct
<1>3. \A i, a \in Nat : read[i][a] = NativeField(d, a, f[i][2])
  BY DEF NativeFieldReader
<1>4. /\ Encode(s, record) = FlattenSeq(parts)
      /\ NativeDecode(s, d, at) = Named(f, InOrder(Len(f), read, at))
  BY StructIs
<1>5. Agree(d, at, FlattenSeq(parts)) /\ at + Len(FlattenSeq(parts)) <= Len(d)
  BY <1>4
<1> HIDE DEF f, parts, read
<1>6. ReadsParts(read, d, parts, InOrderOf(f, record), TRUE)
  <2>1. ASSUME NEW i \in 1..Len(parts), NEW a \in 0..Len(d), Agree(d, a, parts[i]),
               a + Len(parts[i]) <= Len(d)
        PROVE  Right(read[i][a], d, a, parts[i], InOrderOf(f, record)[i])
    <3>1. i \in Nat /\ a \in Nat /\ i \in 1..Len(f)
      BY <1>1, TextBytes
    <3>2. /\ parts[i] = EncodeField(f[i][2], record[f[i][1]])
          /\ f[i][2] \in PlainTypes \cup ItemStructs
          /\ FitsField(f[i][2], record[f[i][1]])
      BY <1>1, <3>1
    <3>3. Right(NativeField(d, a, f[i][2]), d, a,
                EncodeField(f[i][2], record[f[i][1]]), record[f[i][1]])
      BY <2>1, <3>2, NativeFieldRight
    <3>4. InOrderOf(f, record)[i] = record[f[i][1]]
      BY <3>1 DEF InOrderOf
    <3> QED BY <1>3, <3>1, <3>2, <3>3, <3>4
  <2> QED BY <2>1 DEF ReadsParts
<1>7. Right(Named(f, InOrder(Len(f), read, at)), d, at, FlattenSeq(parts), record)
  BY <1>1, <1>2, <1>5, <1>6, RecordRight
<1> QED BY <1>4, <1>7

-----------------------------------------------------------------------------
(***************************************************************************)
(* The room a reader makes, whatever the bytes.                            *)
(***************************************************************************)
\* What was read at a stays within the bytes, took m of them, and made room for an
\* element for every k of them.
Room(r, d, a, k, m) ==
  /\ Shape(r) /\ r.slots \in Nat
  /\ r.ok => r.at \in Nat /\ r.at <= Len(d) /\ a + m <= r.at
             /\ k * r.slots <= r.at - a
  /\ ~ r.ok => k * r.slots <= Len(d) - a

\* What is read in order: low[i] bytes at least for the first i things.
LEMMA InOrderRoom ==
  ASSUME NEW d, Len(d) \in Nat, NEW n \in Nat, NEW read, NEW at \in 0..Len(d),
         NEW k \in {2, 4}, NEW low, low[0] = 0,
         \A i \in 1..n : low[i] \in Nat /\ low[i - 1] \in Nat,
         \A i \in 1..n : \A a \in 0..Len(d) :
           Room(read[i][a], d, a, k, low[i] - low[i - 1])
  PROVE  Room(InOrder(n, read, at), d, at, k, low[n])
<1>1. PICK f : ReadBy(f, n, read, at) /\ InOrder(n, read, at) = f[n]
  BY InOrderIs
<1> DEFINE T == {i \in 0..n : Room(f[i], d, at, k, low[i])}
<1>2. 0 \in T
  <2>1. f[0] = Result(at, <<>>)
    BY <1>1 DEF ReadBy
  <2>2. Shape(f[0]) /\ f[0].ok /\ f[0].at = at /\ f[0].slots = 0
    BY <2>1, Readings
  <2>3. k * 0 = 0
    OBVIOUS
  <2>4. Room(f[0], d, at, k, low[0])
    BY <2>2, <2>3 DEF Room
  <2> QED BY <2>4
<1>3. ASSUME NEW i \in 1..n, i - 1 \in T PROVE i \in T
  <2> DEFINE p == f[i - 1]
             a == p.at
             r == read[i][a]
             l == low[i - 1]
             h == low[i]
  <2>1. Room(p, d, at, k, l) /\ i \in 0..n /\ l \in Nat /\ h \in Nat
    BY <1>3
  <2>2. f[i] = ReadNext(read, i, p)
    BY <1>1 DEF ReadBy
  <2>3. \A b \in 0..Len(d) : Room(read[i][b], d, b, k, h - l)
    OBVIOUS
  <2>4. Room(f[i], d, at, k, h)
    <3> HIDE DEF l, h, p
    <3>1. CASE ~ p.ok
      BY <2>1, <2>2, <3>1 DEF ReadNext, Room
    <3>2. CASE p.ok
      <4>1. a \in 0..Len(d) /\ p.slots \in Nat /\ at + l <= a /\ k * p.slots <= a - at
        BY <2>1, <3>2 DEF Room
      <4>2. Room(r, d, a, k, h - l)
        BY <4>1, <2>3
      <4>3. Added(f[i], p, r)
        BY <4>2, <2>2, <3>2, ReadNextIs DEF Room
      <4> HIDE DEF a, r
      <4>4. /\ Shape(f[i]) /\ f[i].ok = r.ok /\ f[i].at = r.at
            /\ f[i].slots = p.slots + r.slots
        BY <4>3 DEF Added
      <4> DEFINE x == k * p.slots
                 y == k * r.slots
      <4>5. k * f[i].slots = x + y /\ x \in Nat /\ y \in Nat /\ f[i].slots \in Nat
        <5>1. r.slots \in Nat /\ p.slots \in Nat
          BY <4>1, <4>2 DEF Room
        <5>2. f[i].slots = p.slots + r.slots
          BY <4>4
        <5>3. CASE k = 2
          BY <5>1, <5>2, <5>3, SMTT(30)
        <5>4. CASE k = 4
          BY <5>1, <5>2, <5>4, SMTT(30)
        <5> QED BY <5>3, <5>4
      <4>8. x <= a - at /\ a \in Nat
        BY <4>1
      <4>9. /\ r.ok => y <= r.at - a
            /\ ~ r.ok => y <= Len(d) - a
        BY <4>2 DEF Room
      <4> HIDE DEF x, y
      <4>6. CASE r.ok
        <5>1. r.at \in Nat /\ r.at <= Len(d) /\ a + (h - l) <= r.at
          BY <4>2, <4>6 DEF Room
        <5>2. at + h <= r.at
          BY <5>1, <4>1, <4>8, <2>1
        <5>3. x + y <= r.at - at
          BY <5>1, <4>5, <4>6, <4>8, <4>9
        <5>4. f[i].at = r.at /\ k * f[i].slots <= f[i].at - at
          BY <5>3, <4>4, <4>5
        <5> QED BY <5>1, <5>2, <5>4, <4>4, <4>5, <4>6 DEF Room
      <4>7. CASE ~ r.ok
        <5>1. x + y <= Len(d) - at
          BY <4>5, <4>7, <4>8, <4>9
        <5> QED BY <5>1, <4>4, <4>5, <4>7 DEF Room
      <4> QED BY <4>6, <4>7
    <3> QED BY <3>1, <3>2
  <2> QED BY <2>1, <2>4
<1>4. \A i \in 0..n : i \in T
  <2> HIDE DEF T
  <2>1. \A i \in 1..n : i - 1 \in T => i \in T
    BY <1>3
  <2> QED BY <1>2, <2>1, BoundedInduction
<1> QED BY <1>1, <1>4

\* Less was promised.
LEMMA RoomLess ==
  ASSUME NEW d, Len(d) \in Nat, NEW r, NEW a \in 0..Len(d), NEW m \in Nat,
         Room(r, d, a, 4, m)
  PROVE  Room(r, d, a, 4, 0) /\ Room(r, d, a, 2, 0)
<1>1. r.slots \in Nat /\ 2 * r.slots <= 4 * r.slots
  BY DEF Room
<1> QED BY <1>1 DEF Room

\* A refusal, and something without a list.
LEMMA RoomPlain ==
  ASSUME NEW d, Len(d) \in Nat, NEW a \in 0..Len(d)
  PROVE  /\ \A m : Room(Refused, d, a, 4, m)
         /\ \A m \in Nat, n \in Nat : \A v :
              m <= n /\ a + n <= Len(d) => Room(Result(a + n, v), d, a, 4, m)
  BY DEF Room, Result, Refused, Shape

\* A text, and a number.
LEMMA ReadTextRoom ==
  ASSUME NEW d \in Text, NEW a \in 0..Len(d)
  PROVE  Room(ReadText(d, a), d, a, 4, 4)
<1>1. Len(d) \in Nat /\ a \in Nat
  BY TextBytes
<1>2. CASE ReadText(d, a) = Refused
  BY <1>1, <1>2, RoomPlain
<1>3. CASE ReadText(d, a) # Refused
  <2> DEFINE n == Number(d, a, 4)
             text == SubSeq(d, a + 5, a + 4 + n)
  <2>1. CheckBounds(d, a, 4) /\ CheckBounds(d, a + 4, n)
        /\ ReadText(d, a) = Result(a + 4 + n, text)
    BY <1>3 DEF ReadText
  <2>2. a + 4 <= Len(d)
    BY <1>1, <2>1 DEF CheckBounds
  <2>3. n \in Nat
    BY <1>1, <2>2, NumberNat
  <2> HIDE DEF n, text
  <2>4. a + (4 + n) <= Len(d) /\ a + 4 + n = a + (4 + n) /\ 4 <= 4 + n /\ 4 + n \in Nat
    BY <1>1, <2>1, <2>3 DEF CheckBounds
  <2> QED BY <1>1, <2>1, <2>4, RoomPlain
<1> QED BY <1>2, <1>3

\* A number or truth value takes no room.
LEMMA ReadScalarRoom ==
  ASSUME NEW d \in Text, NEW a \in 0..Len(d), NEW type \in {"y", "q", "t", "b"}
  PROVE  Room(ReadScalar(d, a, type), d, a, 4, 0)
<1>1. Len(d) \in Nat /\ a \in Nat
  BY TextBytes
<1>2. Width(type) \in Nat
  BY DEF Width
<1>3. CASE CheckBounds(d, a, Width(type))
  <2>1. a + Width(type) <= Len(d)
    BY <1>1, <1>2, <1>3 DEF CheckBounds
  <2> QED BY <1>1, <1>2, <1>3, <2>1, RoomPlain DEF ReadScalar
<1>4. CASE ~ CheckBounds(d, a, Width(type))
  BY <1>1, <1>4, RoomPlain DEF ReadScalar
<1> QED BY <1>3, <1>4

\* Things without lists make no room.
LEMMA InOrderNoRoom ==
  ASSUME NEW d, NEW n \in Nat, NEW read, NEW at \in 0..Len(d),
         Len(d) \in Nat,
         \A i \in 1..n : \A a \in 0..Len(d) : Room(read[i][a], d, a, 4, 0),
         \A i \in 1..n : \A a \in 0..Len(d) : read[i][a].slots = 0
  PROVE  InOrder(n, read, at).slots = 0
<1>1. PICK f : ReadBy(f, n, read, at) /\ InOrder(n, read, at) = f[n]
  BY InOrderIs
<1> DEFINE T == {i \in 0..n : f[i].slots = 0 /\ (f[i].ok => f[i].at \in 0..Len(d))}
<1>2. 0 \in T
  <2>1. f[0] = Result(at, <<>>)
    BY <1>1 DEF ReadBy
  <2> QED BY <2>1, Readings
<1>3. ASSUME NEW i \in 1..n, i - 1 \in T PROVE i \in T
  <2> DEFINE p == f[i - 1]
             r == read[i][p.at]
  <2>1. p.slots = 0 /\ (p.ok => p.at \in 0..Len(d)) /\ i \in 0..n
    BY <1>3
  <2>2. f[i] = ReadNext(read, i, p)
    BY <1>1 DEF ReadBy
  <2> HIDE DEF p
  <2>3. CASE ~ p.ok
    BY <2>1, <2>2, <2>3 DEF ReadNext
  <2>4. CASE p.ok
    <3>1. Room(r, d, p.at, 4, 0) /\ r.slots = 0
      BY <2>1, <2>4
    <3>2. Added(f[i], p, r)
      BY <3>1, <2>2, <2>4, ReadNextIs DEF Room
    <3> HIDE DEF r
    <3>3. f[i].slots = 0 /\ f[i].ok = r.ok /\ f[i].at = r.at
      BY <3>1, <3>2, <2>1 DEF Added
    <3>4. r.ok => r.at \in 0..Len(d)
      BY <3>1 DEF Room
    <3> QED BY <3>3, <3>4, <2>1
  <2> QED BY <2>3, <2>4
<1>4. \A i \in 0..n : i \in T
  <2> HIDE DEF T
  <2>1. \A i \in 1..n : i - 1 \in T => i \in T
    BY <1>3
  <2> QED BY <1>2, <2>1, BoundedInduction
<1> QED BY <1>1, <1>4

\* The lows of a list whose elements take 4 bytes.
LEMMA Fours ==
  ASSUME NEW n \in Nat
  PROVE  LET low == [i \in 0..n |-> 4 * i]
         IN  /\ low[0] = 0 /\ low[n] = 4 * n
             /\ \A i \in 1..n : low[i] \in Nat /\ low[i - 1] \in Nat
             /\ \A i \in 1..n : low[i] - low[i - 1] = 4
  OBVIOUS

\* No element takes less.
LEMMA NeedsFour ==
  ASSUME NEW m \in Needs, NEW n \in Nat
  PROVE  m * n \in Nat /\ 4 * n <= m * n
<1>1. CASE m = 4
  BY <1>1
<1>2. CASE m = 8
  BY <1>2
<1>3. CASE m = 14
  BY <1>3
<1>4. CASE m = 90
  BY <1>4
<1> QED BY <1>1, <1>2, <1>3, <1>4 DEF Needs

\* Every thing read takes 4 bytes, and as many for each element of a list in it.
ReadsRoom(read, d) ==
  \A i \in Nat : \A a \in 0..Len(d) : Room(read[i][a], d, a, 4, 4)

\* A list: room for as many elements as its count, which was checked.
LEMMA ReadEachRoom ==
  ASSUME NEW d \in Text, NEW at \in 0..Len(d), NEW m \in Needs, NEW read,
         ReadsRoom(read, d)
  PROVE  /\ Room(ReadEach(d, at, m, read), d, at, 2, 0)
         /\ (\A i \in Nat : \A a \in 0..Len(d) : read[i][a].slots = 0)
              => Room(ReadEach(d, at, m, read), d, at, 4, 4)
<1>1. Len(d) \in Nat /\ at \in Nat
  BY TextBytes
<1>2. CASE ReadEach(d, at, m, read) = Refused
  <2>1. Room(Refused, d, at, 4, 0) /\ Room(Refused, d, at, 4, 4)
    BY <1>1, RoomPlain
  <2> QED BY <1>1, <1>2, <2>1, RoomLess
<1>3. CASE ReadEach(d, at, m, read) # Refused
  <2> DEFINE n == Number(d, at, 4)
             r == InOrder(n, read, at + 4)
             s == ReadEach(d, at, m, read)
             low == [i \in 0..n |-> 4 * i]
  <2>1. CheckBounds(d, at, 4) /\ CheckElementCount(d, at + 4, n, m)
        /\ s = [r EXCEPT !.slots = @ + n]
    BY <1>3 DEF ReadEach
  <2>2. at + 4 <= Len(d) /\ at + 4 \in 0..Len(d) /\ Len(d) - (at + 4) \in Nat
    BY <1>1, <2>1 DEF CheckBounds
  <2>3. n \in Nat
    BY <1>1, <2>2, NumberNat
  <2>4. /\ low[0] = 0 /\ low[n] = 4 * n
        /\ \A i \in 1..n : low[i] \in Nat /\ low[i - 1] \in Nat
        /\ \A i \in 1..n : low[i] - low[i - 1] = 4
    <3> HIDE DEF n
    <3> QED BY <2>3, Fours
  <2> HIDE DEF n, low
  <2>5. 4 * n <= Len(d) - (at + 4)
    <3>1. m * n <= Len(d) - (at + 4)
      BY <2>1, <2>2, <2>3, RoomFor DEF CheckElementCount
    <3>2. m * n \in Nat /\ 4 * n <= m * n
      BY <2>3, NeedsFour
    <3> HIDE DEF s, r
    <3> DEFINE mn == m * n
    <3>3. mn \in Nat /\ 4 * n <= mn /\ mn <= Len(d) - (at + 4)
      BY <3>1, <3>2
    <3> HIDE DEF mn
    <3> QED BY <3>3, <2>2, <2>3
  <2>6. Room(r, d, at + 4, 4, 4 * n)
    <3>1. \A i \in 1..n : \A a \in 0..Len(d) :
            Room(read[i][a], d, a, 4, low[i] - low[i - 1])
      BY <2>3, <2>4 DEF ReadsRoom
    <3>2. 4 \in {2, 4}
      OBVIOUS
    <3>3. Room(r, d, at + 4, 4, low[n])
      BY <1>1, <2>2, <2>3, <2>4, <3>1, <3>2, InOrderRoom
    <3> QED BY <3>3, <2>4
  <2> HIDE DEF s
  <2>7. (\A i \in Nat : \A a \in 0..Len(d) : read[i][a].slots = 0) => r.slots = 0
    <3>1. \A i \in 1..n : \A a \in 0..Len(d) : Room(read[i][a], d, a, 4, 0)
      BY <1>1, <2>3, RoomLess DEF ReadsRoom
    <3> QED BY <1>1, <2>2, <2>3, <3>1, InOrderNoRoom
  <2> HIDE DEF r
  <2>8. Shape(s) /\ s.ok = r.ok /\ s.at = r.at /\ s.slots = r.slots + n
    BY <2>1, <2>6 DEF Room, Shape
  <2>9. /\ r.slots \in Nat /\ s.slots \in Nat
        /\ r.ok => r.at \in Nat /\ r.at <= Len(d) /\ at + 4 + 4 * n <= r.at
                   /\ 4 * r.slots <= r.at - (at + 4)
        /\ ~ r.ok => 4 * r.slots <= Len(d) - (at + 4)
    <3>1. r.slots \in Nat
      BY <2>6 DEF Room
    <3>2. s.slots \in Nat
      BY <3>1, <2>3, <2>8
    <3>3. r.ok => r.at \in Nat /\ r.at <= Len(d) /\ at + 4 + 4 * n <= r.at
                 /\ 4 * r.slots <= r.at - (at + 4)
      BY <2>6 DEF Room
    <3>4. ~ r.ok => 4 * r.slots <= Len(d) - (at + 4)
      BY <2>6 DEF Room
    <3> QED BY <3>1, <3>2, <3>3, <3>4
  <2>10. 4 * n <= Len(d) - (at + 4)
    BY <2>5
  <2>11. Room(s, d, at, 2, 0)
    <3>1. CASE r.ok
      <4>2. /\ r.at \in Nat /\ at + 4 + 4 * n <= r.at /\ r.slots \in Nat
            /\ 4 * r.slots <= r.at - (at + 4)
        BY <2>9, <3>1
      <4>3. s.slots = r.slots + n
        BY <2>8
      <4>1. 2 * s.slots <= r.at - at /\ at + 0 <= r.at
        BY <1>1, <2>3, <4>2, <4>3, SMTT(30)
      <4> QED BY <4>1, <3>1, <2>8, <2>9 DEF Room
    <3>2. CASE ~ r.ok
      <4>1. 2 * s.slots <= Len(d) - at
        BY <1>1, <2>3, <2>8, <2>9, <2>10, <3>2, SMTT(30)
      <4> QED BY <4>1, <3>2, <2>8, <2>9 DEF Room
    <3> QED BY <3>1, <3>2
  <2>12. ASSUME r.slots = 0 PROVE Room(s, d, at, 4, 4)
    <3>1. CASE r.ok
      <4>1. 4 * s.slots <= r.at - at /\ at + 4 <= r.at
        BY <1>1, <2>3, <2>8, <2>9, <2>10, <2>12, <3>1
      <4> QED BY <4>1, <3>1, <2>8, <2>9 DEF Room
    <3>2. CASE ~ r.ok
      <4>1. 4 * s.slots <= Len(d) - at
        BY <1>1, <2>3, <2>8, <2>9, <2>10, <2>12, <3>2
      <4> QED BY <4>1, <3>2, <2>8, <2>9 DEF Room
    <3> QED BY <3>1, <3>2
  <2> QED BY <2>7, <2>11, <2>12 DEF s
<1> QED BY <1>2, <1>3

\* A plain value.
LEMMA ReadPlainRoom ==
  ASSUME NEW d \in Text, NEW a \in 0..Len(d), NEW type \in PlainTypes
  PROVE  /\ Room(ReadPlain(d, a, type), d, a, 4, 0)
         /\ type = "s" => Room(ReadPlain(d, a, type), d, a, 4, 4)
<1>1. Len(d) \in Nat
  BY TextBytes
<1>2. CASE type = "s"
  <2>1. Room(ReadPlain(d, a, type), d, a, 4, 4)
    BY <1>2, ReadTextRoom, TextPlain
  <2> QED BY <1>1, <2>1, RoomLess
<1>3. CASE type = "as"
  <2> DEFINE read == TextReader(d)
  <2>1. \A i \in Nat : \A b \in 0..Len(d) : read[i][b] = ReadText(d, b)
    BY <1>1 DEF TextReader
  <2> HIDE DEF read
  <2>2. ReadsRoom(read, d)
    BY <2>1, ReadTextRoom DEF ReadsRoom
  <2>3. \A i \in Nat : \A b \in 0..Len(d) : read[i][b].slots = 0
    <3>1. \A b : ReadText(d, b).slots = 0
      BY DEF ReadText, Result, Refused
    <3> QED BY <2>1, <3>1
  <2>4. Room(ReadEach(d, a, 4, read), d, a, 4, 4)
    <3>1. 4 \in Needs
      BY DEF Needs
    <3> QED BY <2>2, <2>3, <3>1, ReadEachRoom
  <2>5. Room(ReadPlain(d, a, "as"), d, a, 4, 4)
    BY <2>4, ListPlain DEF read
  <2> QED BY <1>1, <1>3, <2>5, RoomLess
<1>4. CASE type \in {"y", "q", "t", "b"}
  <2>1. Room(ReadPlain(d, a, type), d, a, 4, 0) /\ type # "s"
    BY <1>4, ReadScalarRoom, ScalarPlain
  <2> QED BY <2>1
<1> QED BY <1>2, <1>3, <1>4 DEF PlainTypes

\* Giving the values names changes nothing of that.
LEMMA NamedRoom ==
  ASSUME NEW fields, NEW r, NEW d, NEW a, NEW k, NEW m, Room(r, d, a, k, m)
  PROVE  Room(Named(fields, r), d, a, k, m)
  BY DEF Named, Room, Shape

\* A record of a list begins with a text.
LEMMA ReadItemRoom ==
  ASSUME NEW d \in Text, NEW at \in 0..Len(d), NEW s \in ItemStructs
  PROVE  Room(ReadItem(d, at, s), d, at, 4, 4)
<1> DEFINE f == Fields[s]
           n == Len(f)
           read == ItemReader(s, d)
           low == [i \in 0..n |-> IF i = 0 THEN 0 ELSE 4]
<1>1. Len(d) \in Nat
  BY TextBytes
<1>2. IsTable(f) /\ \A i \in 1..n : f[i][2] \in PlainTypes
  BY Tables DEF TableOf
<1>3. n \in Nat /\ n >= 1 /\ f[1][2] = "s"
  <2>1. CASE s = "MessageProps"
    BY <2>1, MessageTableIs DEF MessageTable
  <2>2. CASE s = "Device"
    BY <2>2, DeviceTableIs DEF DeviceTable
  <2>3. CASE s \in {"Property", "PhonebookEntry", "MessageFolder"}
    <3>1. f = SmallTable[s]
      BY <2>3, SmallTableIs DEF SmallTable
    <3> HIDE DEF f
    <3> QED BY <3>1, <2>3 DEF SmallTable
  <2> QED BY <2>1, <2>2, <2>3 DEF ItemStructs
<1>4. \A i \in Nat : \A a \in 0..Len(d) : read[i][a] = ReadPlain(d, a, f[i][2])
  BY <1>1 DEF ItemReader
<1>5. ReadItem(d, at, s) = Named(f, InOrder(n, read, at))
  BY ItemIs
<1> HIDE DEF f, n, read
<1>6. /\ low[0] = 0 /\ low[n] = 4
      /\ \A i \in 1..n : low[i] = 4 /\ low[i] \in Nat /\ low[i - 1] \in Nat
      /\ \A i \in 1..n : low[i] - low[i - 1] = IF i = 1 THEN 4 ELSE 0
  BY <1>3
<1> HIDE DEF low
<1>7. \A i \in 1..n : \A a \in 0..Len(d) : Room(read[i][a], d, a, 4, low[i] - low[i - 1])
  <2> TAKE i \in 1..n
  <2> TAKE a \in 0..Len(d)
  <2>1. read[i][a] = ReadPlain(d, a, f[i][2]) /\ f[i][2] \in PlainTypes
    BY <1>2, <1>3, <1>4
  <2>2. CASE i = 1
    <3>1. low[i] - low[i - 1] = 4
      BY <1>6, <2>2
    <3>2. Room(ReadPlain(d, a, f[i][2]), d, a, 4, 4)
      BY <2>1, <2>2, <1>3, ReadPlainRoom
    <3> QED BY <2>1, <3>1, <3>2
  <2>3. CASE i # 1
    <3>1. low[i] - low[i - 1] = 0
      BY <1>6, <2>3
    <3>2. Room(ReadPlain(d, a, f[i][2]), d, a, 4, 0)
      BY <2>1, ReadPlainRoom
    <3> QED BY <2>1, <3>1, <3>2
  <2> QED BY <2>2, <2>3
<1>8. Room(InOrder(n, read, at), d, at, 4, low[n])
  <2>1. 4 \in {2, 4}
    OBVIOUS
  <2> QED BY <1>1, <1>3, <1>6, <1>7, <2>1, InOrderRoom
<1> QED BY <1>5, <1>6, <1>8, NamedRoom

\* A field of a struct.
LEMMA ReadFieldRoom ==
  ASSUME NEW d \in Text, NEW a \in 0..Len(d), NEW type \in PlainTypes \cup ItemStructs
  PROVE  Room(ReadField(d, a, type), d, a, 2, 0)
<1>1. Len(d) \in Nat
  BY TextBytes
<1>2. CASE type \in PlainTypes
  BY <1>1, <1>2, ReadPlainRoom, PlainFieldIs, RoomLess
<1>3. CASE type \in ItemStructs
  <2> DEFINE read == RecordReader(type, d)
             m == MinimumBytes[type]
  <2>1. \A i \in Nat : \A b \in 0..Len(d) : read[i][b] = ReadItem(d, b, type)
    BY <1>1 DEF RecordReader
  <2>2. m \in Needs /\ ReadField(d, a, type) = ReadEach(d, a, m, read)
    BY <1>3, MinimumIs, RecordFieldIs
  <2> HIDE DEF read, m
  <2>3. ReadsRoom(read, d)
    BY <1>3, <2>1, ReadItemRoom DEF ReadsRoom
  <2>4. Room(ReadEach(d, a, m, read), d, a, 2, 0)
    BY <2>2, <2>3, ReadEachRoom
  <2> QED BY <2>2, <2>4
<1> QED BY <1>2, <1>3

\* Reading any bytes as any struct: room for fewer elements than half the bytes.
LEMMA DecodeRoom ==
  ASSUME NEW d \in Text, NEW at \in 0..Len(d), NEW s \in Structs
  PROVE  /\ 2 * Decode(s, d, at).slots <= Len(d)
         /\ Decode(s, d, at).slots \in Nat
<1> DEFINE f == Fields[s]
           n == Len(f)
           read == FieldReader(s, d)
           low == [i \in 0..n |-> 0]
<1>1. Len(d) \in Nat /\ at \in Nat
  BY TextBytes
<1>2. n \in Nat /\ \A i \in 1..n : f[i][2] \in PlainTypes \cup ItemStructs
  BY Tables DEF TableOf, IsTable
<1>3. \A i \in Nat : \A a \in 0..Len(d) : read[i][a] = ReadField(d, a, f[i][2])
  BY <1>1 DEF FieldReader
<1>4. Decode(s, d, at) = Named(f, InOrder(n, read, at))
  BY StructIs
<1> HIDE DEF f, n, read
<1>5. /\ low[0] = 0 /\ low[n] = 0
      /\ \A i \in 1..n : low[i] \in Nat /\ low[i - 1] \in Nat
      /\ \A i \in 1..n : low[i] - low[i - 1] = 0
  BY <1>2
<1> HIDE DEF low
<1>6. \A i \in 1..n : \A a \in 0..Len(d) : Room(read[i][a], d, a, 2, low[i] - low[i - 1])
  <2> TAKE i \in 1..n
  <2> TAKE a \in 0..Len(d)
  <2>1. read[i][a] = ReadField(d, a, f[i][2]) /\ low[i] - low[i - 1] = 0
    BY <1>2, <1>3, <1>5
  <2>2. Room(ReadField(d, a, f[i][2]), d, a, 2, 0)
    BY <1>2, ReadFieldRoom
  <2> QED BY <2>1, <2>2
<1>7. Room(InOrder(n, read, at), d, at, 2, 0)
  <2>1. 2 \in {2, 4}
    OBVIOUS
  <2>2. Room(InOrder(n, read, at), d, at, 2, low[n])
    BY <1>1, <1>2, <1>5, <1>6, <2>1, InOrderRoom
  <2> QED BY <2>2, <1>5
<1> DEFINE r == Decode(s, d, at)
<1>8. Room(r, d, at, 2, 0)
  BY <1>4, <1>7, NamedRoom
<1> HIDE DEF r
<1>9. 2 * r.slots <= Len(d) /\ r.slots \in Nat
  BY <1>1, <1>8 DEF Room
<1> QED BY <1>9 DEF r

-----------------------------------------------------------------------------
(***************************************************************************)
(* The order of keys.                                                      *)
(***************************************************************************)
\* The beginning of a text.
LEMMA Beginning ==
  ASSUME NEW v \in Text, NEW n \in Nat, n <= Len(v)
  PROVE  /\ SubSeq(v, 1, n) \in Text /\ Len(SubSeq(v, 1, n)) = n
         /\ \A k \in 1..n : SubSeq(v, 1, n)[k] = v[k]
<1>1. ASSUME NEW W, NEW q \in Seq(W), n <= Len(q)
      PROVE  /\ SubSeq(q, 1, n) \in Seq(W) /\ Len(SubSeq(q, 1, n)) = n
             /\ \A k \in 1..n : SubSeq(q, 1, n)[k] = q[k]
  <2>1. \A k \in 1..n : 1 + k - 1 = k /\ k \in 1..Len(q)
    BY <1>1, LenProperties
  <2> QED BY <1>1, <2>1, SubSeqProperties, ElementOfSeq
<1> QED BY <1>1 DEF Text

\* s is before t, which it equals for n bytes.
Precedes(s, t, n) ==
  /\ n <= Len(s) /\ n < Len(t)
  /\ \A k \in 1..n : s[k] = t[k]
  /\ n < Len(s) => s[n + 1] < t[n + 1]

\* That is the order of std::string.
LEMMA BeforeIs ==
  ASSUME NEW s \in Text, NEW t \in Text
  PROVE  Before(s, t) <=> \E n \in Nat : Precedes(s, t, n)
<1>1. Len(s) \in Nat /\ Len(t) \in Nat
  BY TextBytes
<1>2. ASSUME NEW n \in Nat, n <= Len(s), n < Len(t)
      PROVE  SubSeq(s, 1, n) = SubSeq(t, 1, n) <=> \A k \in 1..n : s[k] = t[k]
  <2>1. /\ SubSeq(s, 1, n) \in Text /\ Len(SubSeq(s, 1, n)) = n
        /\ \A k \in 1..n : SubSeq(s, 1, n)[k] = s[k]
    BY <1>2, Beginning
  <2>2. /\ SubSeq(t, 1, n) \in Text /\ Len(SubSeq(t, 1, n)) = n
        /\ \A k \in 1..n : SubSeq(t, 1, n)[k] = t[k]
    BY <1>1, <1>2, Beginning
  <2> QED BY <2>1, <2>2, SeqEqual DEF Text
<1>3. ASSUME Before(s, t) PROVE \E n \in Nat : Precedes(s, t, n)
  <2>1. PICK n \in 0..Len(s) : n < Len(t) /\ SubSeq(s, 1, n) = SubSeq(t, 1, n)
                               /\ (n < Len(s) => s[n + 1] < t[n + 1])
    BY <1>3 DEF Before
  <2>2. n \in Nat /\ n <= Len(s)
    BY <1>1
  <2>3. Precedes(s, t, n)
    BY <1>2, <2>1, <2>2 DEF Precedes
  <2> QED BY <2>2, <2>3
<1>4. ASSUME NEW n \in Nat, Precedes(s, t, n) PROVE Before(s, t)
  <2>1. n \in 0..Len(s) /\ n < Len(t) /\ SubSeq(s, 1, n) = SubSeq(t, 1, n)
        /\ (n < Len(s) => s[n + 1] < t[n + 1])
    BY <1>1, <1>2, <1>4 DEF Precedes
  <2> QED BY <2>1 DEF Before
<1> QED BY <1>3, <1>4

\* It is a strict order,
LEMMA BeforeStrict ==
  ASSUME NEW s \in Text
  PROVE  ~ Before(s, s)
<1> SUFFICES ASSUME NEW n \in Nat, Precedes(s, s, n) PROVE FALSE
  BY BeforeIs
<1>1. n < Len(s) /\ n + 1 \in 1..Len(s) /\ s[n + 1] < s[n + 1]
  BY TextBytes DEF Precedes
<1>2. s[n + 1] \in 0..255
  BY <1>1, TextBytes
<1> DEFINE c == s[n + 1]
<1>3. c \in 0..255 /\ c < c
  BY <1>1, <1>2
<1> HIDE DEF c
<1> QED BY <1>3

\* any two texts are in it,
LEMMA BeforeTotal ==
  ASSUME NEW s \in Text, NEW t \in Text, s # t
  PROVE  Before(s, t) \/ Before(t, s)
<1>1. /\ Len(s) \in Nat /\ \A k \in 1..Len(s) : s[k] \in Int
      /\ Len(t) \in Nat /\ \A k \in 1..Len(t) : t[k] \in Int
  <2>1. \A c \in 0..255 : c \in Int
    OBVIOUS
  <2> QED BY <2>1, TextBytes
<1> DEFINE D == {k \in Nat : 1 <= k /\ k <= Len(s) /\ k <= Len(t) /\ s[k] # t[k]}
<1>2. CASE D = {}
  <2>1. \A k \in Nat : 1 <= k /\ k <= Len(s) /\ k <= Len(t) => s[k] = t[k]
    BY <1>2
  <2>2. Len(s) # Len(t)
    <3> SUFFICES ASSUME Len(s) = Len(t) PROVE s = t
      OBVIOUS
    <3>1. \A k \in 1..Len(s) : s[k] = t[k]
      BY <1>1, <2>1
    <3> QED BY <3>1, SeqEqual DEF Text
  <2>3. CASE Len(s) < Len(t)
    <3>1. Precedes(s, t, Len(s))
      BY <1>1, <2>1, <2>3 DEF Precedes
    <3> QED BY <1>1, <3>1, BeforeIs
  <2>4. CASE Len(t) < Len(s)
    <3>1. Precedes(t, s, Len(t))
      BY <1>1, <2>1, <2>4 DEF Precedes
    <3> QED BY <1>1, <3>1, BeforeIs
  <2> QED BY <1>1, <2>2, <2>3, <2>4
<1>3. CASE D # {}
  <2>1. PICK m \in D : \A k \in D : m <= k
    <3>1. D \subseteq Nat
      OBVIOUS
    <3> HIDE DEF D
    <3> QED BY <1>3, <3>1, LeastNumber
  <2> DEFINE n == m - 1
  <2>2. /\ n \in Nat /\ n < Len(s) /\ n < Len(t) /\ n + 1 = m
        /\ m \in 1..Len(s) /\ m \in 1..Len(t)
    BY <1>1, <2>1
  <2>3. \A k \in 1..n : s[k] = t[k]
    <3> TAKE k \in 1..n
    <3>1. k \in Nat /\ 1 <= k /\ k <= Len(s) /\ k <= Len(t) /\ ~(m <= k)
      BY <1>1, <2>1, <2>2
    <3> QED BY <2>1, <3>1
  <2>4. s[m] < t[m] \/ t[m] < s[m]
    <3>1. s[m] # t[m] /\ s[m] \in Int /\ t[m] \in Int
      BY <1>1, <2>1, <2>2
    <3> QED BY <3>1
  <2> HIDE DEF n
  <2>5. Precedes(s, t, n) \/ Precedes(t, s, n)
    BY <1>1, <2>2, <2>3, <2>4 DEF Precedes
  <2> QED BY <2>2, <2>5, BeforeIs
<1> QED BY <1>2, <1>3

\* and it is transitive.
LEMMA BeforeTransitive ==
  ASSUME NEW s \in Text, NEW t \in Text, NEW u \in Text, Before(s, t), Before(t, u)
  PROVE  Before(s, u)
<1>1. /\ Len(s) \in Nat /\ \A k \in 1..Len(s) : s[k] \in Int
      /\ Len(t) \in Nat /\ \A k \in 1..Len(t) : t[k] \in Int
      /\ Len(u) \in Nat /\ \A k \in 1..Len(u) : u[k] \in Int
  <2>1. \A c \in 0..255 : c \in Int
    OBVIOUS
  <2> QED BY <2>1, TextBytes
<1>2. PICK n \in Nat : Precedes(s, t, n)
  BY BeforeIs
<1>3. PICK m \in Nat : Precedes(t, u, m)
  BY BeforeIs
<1>4. /\ n <= Len(s) /\ n < Len(t) /\ \A k \in 1..n : s[k] = t[k]
      /\ n < Len(s) => s[n + 1] < t[n + 1]
  BY <1>2 DEF Precedes
<1>5. /\ m <= Len(t) /\ m < Len(u) /\ \A k \in 1..m : t[k] = u[k]
      /\ m < Len(t) => t[m + 1] < u[m + 1]
  BY <1>3 DEF Precedes
<1>6. CASE n < m
  <2>1. n + 1 \in 1..m /\ n < Len(u) /\ t[n + 1] = u[n + 1]
    BY <1>1, <1>5, <1>6
  <2>2. \A k \in 1..n : s[k] = u[k]
    <3> TAKE k \in 1..n
    <3>1. k \in 1..m
      BY <1>6
    <3> QED BY <3>1, <1>4, <1>5
  <2>3. Precedes(s, u, n)
    BY <1>4, <2>1, <2>2 DEF Precedes
  <2> QED BY <2>3, BeforeIs
<1>7. CASE n = m
  <2>1. \A k \in 1..n : s[k] = u[k]
    BY <1>4, <1>5, <1>7
  <2>2. n < Len(u) /\ t[n + 1] < u[n + 1]
    BY <1>4, <1>5, <1>7
  <2>3. n < Len(s) => s[n + 1] < u[n + 1]
    <3> SUFFICES ASSUME n < Len(s) PROVE s[n + 1] < u[n + 1]
      OBVIOUS
    <3>1. n + 1 \in 1..Len(s) /\ n + 1 \in 1..Len(t) /\ n + 1 \in 1..Len(u)
      BY <1>1, <1>4, <2>2
    <3>2. s[n + 1] \in Int /\ t[n + 1] \in Int /\ u[n + 1] \in Int /\ s[n + 1] < t[n + 1]
      BY <1>1, <1>4, <3>1
    <3> QED BY <2>2, <3>2
  <2>4. Precedes(s, u, n)
    BY <1>4, <2>1, <2>2, <2>3 DEF Precedes
  <2> QED BY <2>4, BeforeIs
<1>8. CASE m < n
  <2>1. m + 1 \in 1..n /\ m < Len(t) /\ m < Len(s) /\ s[m + 1] = t[m + 1]
    BY <1>1, <1>4, <1>8
  <2>2. \A k \in 1..m : s[k] = u[k]
    <3> TAKE k \in 1..m
    <3>1. k \in 1..n
      BY <1>8
    <3> QED BY <3>1, <1>4, <1>5
  <2>3. Precedes(s, u, m)
    BY <1>1, <1>5, <2>1, <2>2 DEF Precedes
  <2> QED BY <2>3, BeforeIs
<1> QED BY <1>6, <1>7, <1>8

\* list has each key, and as many entries as there are keys.
ListsAll(list, keys) ==
  /\ list \in Seq(keys) /\ Len(list) = Cardinality(keys)
  /\ \A key \in keys : \E i \in 1..Len(list) : list[i] = key

\* Listing the keys of a finite map lists each of them once.
LEMMA InKeyOrderIs ==
  ASSUME NEW keys, IsFiniteSet(keys), keys \subseteq Ascii
  PROVE  /\ ListsAll(InKeyOrder(keys), keys)
         /\ Cardinality(keys) \in Nat /\ DOMAIN InKeyOrder(keys) = 1..Cardinality(keys)
<1> DEFINE n == Cardinality(keys)
           below(key) == {k \in keys : Before(k, key)}
           rank(key) == Cardinality(below(key))
           g == [key \in keys |-> rank(key)]
           list == InKeyOrder(keys)
<1>1. n \in Nat /\ \A key \in keys : key \in Text
  BY FS_CardinalityType, AsciiBytes
<1>2. \A key \in keys : rank(key) \in 0..(n - 1)
  <2> TAKE key \in keys
  <2>1. below(key) \in SUBSET keys /\ below(key) # keys
    BY <1>1, BeforeStrict
  <2> HIDE DEF below
  <2>2. IsFiniteSet(below(key)) /\ rank(key) <= n /\ rank(key) # n
    BY <2>1, FS_Subset
  <2>3. rank(key) \in Nat
    BY <2>2, FS_CardinalityType
  <2> QED BY <1>1, <2>2, <2>3
<1>3. ASSUME NEW a \in keys, NEW b \in keys, Before(a, b) PROVE rank(a) # rank(b)
  <2>1. below(a) \in SUBSET below(b)
    <3> SUFFICES ASSUME NEW k \in keys, Before(k, a) PROVE Before(k, b)
      OBVIOUS
    <3> QED BY <1>1, <1>3, BeforeTransitive
  <2>2. a \in below(b) /\ a \notin below(a)
    BY <1>1, <1>3, BeforeStrict
  <2>3. IsFiniteSet(below(b))
    <3>1. below(b) \in SUBSET keys
      OBVIOUS
    <3> HIDE DEF below
    <3> QED BY <3>1, FS_Subset
  <2> HIDE DEF below
  <2> QED BY <2>1, <2>2, <2>3, FS_Subset
<1>4. \A a, b \in keys : rank(a) = rank(b) => a = b
  <2> SUFFICES ASSUME NEW a \in keys, NEW b \in keys, a # b PROVE rank(a) # rank(b)
    OBVIOUS
  <2>1. Before(a, b) \/ Before(b, a)
    BY <1>1, BeforeTotal
  <2> HIDE DEF rank
  <2> QED BY <1>3, <2>1
<1> HIDE DEF rank
<1>5. g \in Injection(keys, 0..(n - 1))
  <2>1. g \in [keys -> 0..(n - 1)]
    BY <1>2
  <2> QED BY <2>1, <1>4 DEF Injection, IsInjective
<1>6. \A m \in 0..(n - 1) : \E key \in keys : rank(key) = m
  <2>1. IsFiniteSet(0..(n - 1)) /\ Cardinality(0..(n - 1)) = n
    <3>1. 0 \in Int /\ n - 1 \in Int
      BY <1>1
    <3>2. (IF 0 > n - 1 THEN 0 ELSE (n - 1) - 0 + 1) = n
      BY <1>1
    <3> HIDE DEF n
    <3> QED BY <3>1, <3>2, FS_Interval
  <2>2. g \in Surjection(keys, 0..(n - 1))
    <3> HIDE DEF g
    <3> QED BY <1>5, <2>1, FS_Injection
  <2> QED BY <2>2 DEF Surjection
<1>7. list = [m \in 1..n |-> CHOOSE key \in keys : rank(key) = m - 1]
  BY DEF InKeyOrder, rank
<1> HIDE DEF list
<1>8. \A m \in 1..n : list[m] \in keys /\ rank(list[m]) = m - 1
  <2> TAKE m \in 1..n
  <2>1. m - 1 \in 0..(n - 1)
    BY <1>1
  <2>2. \E key \in keys : rank(key) = m - 1
    BY <1>6, <2>1
  <2>3. list[m] = CHOOSE key \in keys : rank(key) = m - 1
    BY <1>7
  <2> QED BY <2>2, <2>3
<1>9. list \in [1..n -> keys] /\ DOMAIN list = 1..n
  <2>1. DOMAIN list = 1..n /\ list = [m \in 1..n |-> list[m]]
    BY <1>7
  <2> QED BY <2>1, <1>8
<1> HIDE DEF n
<1>10. list \in Seq(keys) /\ Len(list) = n
  BY <1>1, <1>9, FunctionIsSeq
<1>11. ASSUME NEW key \in keys PROVE \E i \in 1..n : list[i] = key
  <2> DEFINE i == rank(key) + 1
  <2>1. i \in 1..n /\ i - 1 = rank(key)
    BY <1>1, <1>2
  <2> HIDE DEF i
  <2>2. list[i] \in keys /\ rank(list[i]) = rank(key)
    BY <1>8, <2>1
  <2> QED BY <1>4, <2>1, <2>2
<1> QED BY <1>1, <1>9, <1>10, <1>11 DEF ListsAll, list, n

-----------------------------------------------------------------------------
(***************************************************************************)
(* Values of the service.                                                  *)
(***************************************************************************)
\* The types a property is asked for in, and those of the fields they go to.
Signatures == PlainTypes \cup {"o"}
FieldType(signature) == IF signature = "o" THEN "s" ELSE signature

\* What D-Bus delivers under a signature.
Delivers(signature, v) ==
  /\ signature \in {"s", "o"} => v \in Ascii
  /\ signature = "b" => v \in BOOLEAN
  /\ signature = "y" => v \in Below(256)
  /\ signature = "q" => v \in Below(65536)
  /\ signature \in {"u", "t"} => v \in Below(Limit)
  /\ signature \in {"n", "i", "x"} => v \in Int /\ v < Limit /\ -v < Limit
  /\ signature = "as" => v \in AsciiList
  /\ signature \in {"s", "o", "b", "y", "q", "u", "t", "n", "i", "x", "as", "d"}

\* A variant holds what its signature says.
LEMMA Delivered ==
  ASSUME NEW v \in DBusValue
  PROVE  Delivers(v[1], v[2]) /\ v = <<v[1], v[2]>>
<1> HIDE DEF Ascii, AsciiList, Below, Limit
<1>1. CASE v \in ({"s", "o"} \X Ascii)
  BY <1>1 DEF Delivers
<1>2. CASE v \in ({"b"} \X BOOLEAN)
  BY <1>2 DEF Delivers
<1>3. CASE v \in ({"y"} \X Below(256))
  BY <1>3 DEF Delivers
<1>4. CASE v \in ({"q"} \X Below(65536))
  BY <1>4 DEF Delivers
<1>5. CASE v \in ({"u", "t"} \X Below(Limit))
  BY <1>5 DEF Delivers
<1>6. CASE v \in ({"n", "i", "x"} \X {k \in Int : k < Limit /\ -k < Limit})
  BY <1>6 DEF Delivers
<1>7. CASE v \in ({"as"} \X AsciiList)
  BY <1>7 DEF Delivers
<1>8. CASE v \in ({"d"} \X {0})
  BY <1>8 DEF Delivers
<1> QED BY <1>1, <1>2, <1>3, <1>4, <1>5, <1>6, <1>7, <1>8 DEF DBusValue

\* Texts and lists of nothing.
LEMMA EmptyAscii ==
  <<>> \in Ascii /\ <<>> \in AsciiList
<1>1. <<>> \in Ascii
  BY DEF Ascii, Limit
<1>2. Joined(<<>>) = <<>>
  <2>1. <<>> \in Seq(Text)
    OBVIOUS
  <2> QED BY <2>1, JoinedIs
<1>3. <<>> \in AsciiList
  BY <1>2 DEF AsciiList, Limit
<1> QED BY <1>1, <1>3

\* Whatever the service says of an object, a property it is asked for has a value
\* that fits the field it goes to.
LEMMA PropertyFits ==
  ASSUME NEW properties, IsDictionary(properties), NEW key,
         NEW signature \in Signatures
  PROVE  FitsPlain(FieldType(signature), get_property_value(properties, key, signature))
<1> DEFINE v == get_property_value(properties, key, signature)
<1>1. CASE key \in DOMAIN properties /\ properties[key][1] = signature
  <2>1. v = properties[key][2]
    BY <1>1 DEF get_property_value
  <2>2. Delivers(signature, v)
    BY <1>1, <2>1, Delivered DEF IsDictionary
  <2> HIDE DEF v
  <2>3. v \in AsciiList => v \in Seq(Ascii) /\ Len(v) < Limit
    BY DEF AsciiList
  <2>4. FitsPlain(FieldType(signature), v)
    BY <2>2, <2>3 DEF FitsPlain, FieldType, Delivers, Signatures, PlainTypes
  <2> QED BY <2>4 DEF v
<1>2. CASE ~ (key \in DOMAIN properties /\ properties[key][1] = signature)
  <2>1. v = Default(signature)
    BY <1>2 DEF get_property_value
  <2> HIDE DEF v
  <2>2. /\ signature \in {"s", "o", "as"} => v = <<>>
        /\ signature = "b" => v = FALSE
        /\ signature \in {"y", "q", "t"} => v = 0
    <3>1. CASE signature \in {"s", "o", "as"}
      BY <2>1, <3>1 DEF Default
    <3>2. CASE signature = "b"
      BY <2>1, <3>2 DEF Default
    <3>3. CASE signature \in {"y", "q", "t"}
      <4>1. Default("y") = 0 /\ Default("q") = 0 /\ Default("t") = 0
        BY DEF Default
      <4> QED BY <2>1, <3>3, <4>1
    <3> QED BY <3>1, <3>2, <3>3 DEF Signatures, PlainTypes
  <2>3. 0 \in Below(256) /\ 0 \in Below(65536) /\ 0 \in Below(Limit)
    BY DEF Below, Limit
  <2>4. <<>> \in Ascii /\ <<>> \in Seq(Ascii) /\ Len(<<>>) < Limit
    BY EmptyAscii DEF Limit
  <2> HIDE DEF Below, Limit, Ascii
  <2>5. CASE signature \in {"s", "o"}
    <3>1. FieldType(signature) = "s" /\ v \in Ascii
      BY <2>2, <2>4, <2>5 DEF FieldType
    <3> QED BY <3>1 DEF FitsPlain, PlainTypes, v
  <2>6. CASE signature = "as"
    <3>1. FieldType(signature) = "as" /\ v \in Seq(Ascii) /\ Len(v) < Limit
      BY <2>2, <2>4, <2>6 DEF FieldType
    <3> QED BY <3>1 DEF FitsPlain, PlainTypes, v
  <2>7. CASE signature = "b"
    <3>1. FieldType(signature) = "b" /\ v \in BOOLEAN
      BY <2>2, <2>7 DEF FieldType
    <3> QED BY <3>1 DEF FitsPlain, PlainTypes, v
  <2>8. CASE signature \in {"y", "q", "t"}
    <3>1. FieldType(signature) = signature /\ v = 0
      BY <2>2, <2>8 DEF FieldType
    <3> QED BY <3>1, <2>3, <2>8 DEF FitsPlain, PlainTypes, v
  <2> QED BY <2>5, <2>6, <2>7, <2>8 DEF Signatures, PlainTypes
<1> QED BY <1>1, <1>2

\* The fields f are an object path and what is taken from properties.
TakenFrom(from, f) ==
  /\ Len(from) \in Nat /\ DOMAIN from = 1..Len(from) /\ Len(f) = Len(from) + 1
  /\ f[1] = <<"objectPath", "s">>
  /\ \A i \in 1..Len(from) :
       /\ f[i + 1] = <<from[i][1], FieldType(from[i][3])>>
       /\ from[i][3] \in Signatures /\ from[i][1] # "objectPath"
  /\ \E position : \A i \in 1..Len(from) : position[from[i][1]] = i

\* Every property of an interface is taken, under the name Dart has for it.
TakesAll(from, interface) ==
  /\ \A p \in interface : \E i \in 1..Len(from) : p = <<from[i][2], from[i][3]>>
  /\ \A i \in 1..Len(from) : DartName[from[i][2]] = from[i][1]

\* So it is for each struct that is made of properties.
LEMMA SessionTaken ==
  /\ TakenFrom(session_props_from_map, SessionTable)
  /\ TakesAll(session_props_from_map, Session1)
<1> DEFINE from == session_props_from_map
           position == [source |-> 1, destination |-> 2, channel |-> 3, psm |-> 4,
                        target |-> 5, root |-> 6]
<1>1. \A i \in 1..6 : position[from[i][1]] = i
  BY DEF session_props_from_map
<1>2. \A i \in 1..6 :
        /\ SessionTable[i + 1] = <<from[i][1], FieldType(from[i][3])>>
        /\ from[i][3] \in Signatures /\ from[i][1] # "objectPath"
  BY DEF session_props_from_map, SessionTable, FieldType, Signatures, PlainTypes
<1>3. Len(from) = 6 /\ DOMAIN from = 1..6
  BY DEF session_props_from_map
<1>4. SessionTable[1] = <<"objectPath", "s">> /\ Len(SessionTable) = 7
  BY DEF SessionTable
<1>5. \A p \in Session1 : \E i \in 1..6 : p = <<from[i][2], from[i][3]>>
  BY DEF Session1, session_props_from_map
<1>6. \A i \in 1..6 : DartName[from[i][2]] = from[i][1]
  BY DEF DartName, session_props_from_map
<1> HIDE DEF position, from
<1> QED BY <1>1, <1>2, <1>3, <1>4, <1>5, <1>6 DEF TakenFrom, TakesAll, from

\* A transfer is made of the properties of its interface,
LEMMA TransferTaken ==
  /\ TakenFrom(transfer_props_from_map, TransferTable)
  /\ TakesAll(transfer_props_from_map, Transfer1)
<1> DEFINE from == transfer_props_from_map
           position == [status |-> 1, session |-> 2, name |-> 3, type |-> 4, time |-> 5,
                        size |-> 6, transferred |-> 7, filename |-> 8]
<1>1. \A i \in 1..8 : position[from[i][1]] = i
  BY DEF transfer_props_from_map
<1>2. \A i \in 1..8 :
        /\ TransferTable[i + 1] = <<from[i][1], FieldType(from[i][3])>>
        /\ from[i][3] \in Signatures /\ from[i][1] # "objectPath"
  BY DEF transfer_props_from_map, TransferTable, FieldType, Signatures, PlainTypes
<1>3. Len(from) = 8 /\ DOMAIN from = 1..8
  BY DEF transfer_props_from_map
<1>4. TransferTable[1] = <<"objectPath", "s">> /\ Len(TransferTable) = 9
  BY DEF TransferTable
<1>5. \A p \in Transfer1 : \E i \in 1..8 : p = <<from[i][2], from[i][3]>>
  BY DEF Transfer1, transfer_props_from_map
<1>6. \A i \in 1..8 : DartName[from[i][2]] = from[i][1]
  BY DEF DartName, transfer_props_from_map
<1> HIDE DEF position, from
<1> QED BY <1>1, <1>2, <1>3, <1>4, <1>5, <1>6 DEF TakenFrom, TakesAll, from

\* so is a phonebook,
LEMMA PhonebookTaken ==
  /\ TakenFrom(phonebook_props_from_map, PhonebookTable)
  /\ TakesAll(phonebook_props_from_map, PhonebookAccess1)
<1> DEFINE from == phonebook_props_from_map
           position == [folder |-> 1, databaseIdentifier |-> 2, primaryCounter |-> 3,
                        secondaryCounter |-> 4, fixedImageSize |-> 5]
<1>1. \A i \in 1..5 : position[from[i][1]] = i
  BY DEF phonebook_props_from_map
<1>2. \A i \in 1..5 :
        /\ PhonebookTable[i + 1] = <<from[i][1], FieldType(from[i][3])>>
        /\ from[i][3] \in Signatures /\ from[i][1] # "objectPath"
  BY DEF phonebook_props_from_map, PhonebookTable, FieldType, Signatures, PlainTypes
<1>3. Len(from) = 5 /\ DOMAIN from = 1..5
  BY DEF phonebook_props_from_map
<1>4. PhonebookTable[1] = <<"objectPath", "s">> /\ Len(PhonebookTable) = 6
  BY DEF PhonebookTable
<1>5. \A p \in PhonebookAccess1 : \E i \in 1..5 : p = <<from[i][2], from[i][3]>>
  BY DEF PhonebookAccess1, phonebook_props_from_map
<1>6. \A i \in 1..5 : DartName[from[i][2]] = from[i][1]
  BY DEF DartName, phonebook_props_from_map
<1> HIDE DEF position, from
<1> QED BY <1>1, <1>2, <1>3, <1>4, <1>5, <1>6 DEF TakenFrom, TakesAll, from

\* a message
LEMMA MessageTaken ==
  /\ TakenFrom(message_props_from_map, MessageTable)
  /\ TakesAll(message_props_from_map, Interfaces["MessageProps"])
<1> DEFINE from == message_props_from_map
           position == [folder |-> 1, subject |-> 2, timestamp |-> 3, sender |-> 4,
                        senderAddress |-> 5, replyTo |-> 6, recipient |-> 7,
                        recipientAddress |-> 8, type |-> 9, size |-> 10, text |-> 11,
                        status |-> 12, attachmentSize |-> 13, priority |-> 14,
                        read |-> 15, deleted |-> 16, sent |-> 17, protected |-> 18,
                        deliveryStatus |-> 19, conversationId |-> 20,
                        conversationName |-> 21, direction |-> 22,
                        attachmentMimeTypes |-> 23]
<1>1. \A i \in 1..23 : position[from[i][1]] = i
  BY DEF message_props_from_map
<1>2. \A i \in 1..23 :
        /\ MessageTable[i + 1] = <<from[i][1], FieldType(from[i][3])>>
        /\ from[i][3] \in Signatures /\ from[i][1] # "objectPath"
  BY DEF message_props_from_map, MessageTable, FieldType, Signatures, PlainTypes
<1>3. Len(from) = 23 /\ DOMAIN from = 1..23
  BY DEF message_props_from_map
<1>4. MessageTable[1] = <<"objectPath", "s">> /\ Len(MessageTable) = 24
  BY DEF MessageTable
<1>5. \A p \in Interfaces["MessageProps"] : \E i \in 1..23 : p = <<from[i][2], from[i][3]>>
  BY DEF Interfaces, Message1Headers, Message1State, Message1Listed,
         message_props_from_map
<1>6. \A i \in 1..23 : DartName[from[i][2]] = from[i][1]
  BY DEF DartName, message_props_from_map
<1> HIDE DEF position, from
<1>7. TakesAll(from, Interfaces["MessageProps"])
  BY <1>3, <1>5, <1>6 DEF TakesAll
<1>8. Len(MessageTable) = Len(from) + 1 /\ Len(from) \in Nat
  BY <1>3, <1>4
<1>9. TakenFrom(from, MessageTable)
  BY <1>1, <1>2, <1>3, <1>4, <1>8 DEF TakenFrom
<1> QED BY <1>7, <1>9 DEF from

\* and a message access.
LEMMA AccessTaken ==
  /\ TakenFrom(message_access_props_from_map, SmallTable["MessageAccessProps"])
  /\ TakesAll(message_access_props_from_map, MessageAccess1)
<1> DEFINE from == message_access_props_from_map
           position == [supportedTypes |-> 1]
           f == <<<<"objectPath", "s">>, <<"supportedTypes", "as">>>>
<1>1. \A i \in 1..1 : position[from[i][1]] = i
  BY DEF message_access_props_from_map
<1>2. \A i \in 1..1 :
        /\ f[i + 1] = <<from[i][1], FieldType(from[i][3])>>
        /\ from[i][3] \in Signatures /\ from[i][1] # "objectPath"
  BY DEF message_access_props_from_map, FieldType, Signatures, PlainTypes
<1>3. Len(from) = 1 /\ DOMAIN from = 1..1
  BY DEF message_access_props_from_map
<1>4. f[1] = <<"objectPath", "s">> /\ Len(f) = 2
  OBVIOUS
<1>5. \A p \in MessageAccess1 : \E i \in 1..1 : p = <<from[i][2], from[i][3]>>
  BY DEF MessageAccess1, message_access_props_from_map
<1>6. \A i \in 1..1 : DartName[from[i][2]] = from[i][1]
  BY DEF DartName, message_access_props_from_map
<1>7. SmallTable["MessageAccessProps"] = f
  BY DEF SmallTable
<1> HIDE DEF position, from, f
<1> QED BY <1>1, <1>2, <1>3, <1>4, <1>5, <1>6, <1>7 DEF TakenFrom, TakesAll, from

\* Every struct of properties is.
LEMMA AllTaken ==
  /\ DOMAIN PropsFromMap = DOMAIN Interfaces
  /\ \A s \in DOMAIN PropsFromMap :
       /\ s \in Structs /\ TakenFrom(PropsFromMap[s], Fields[s])
       /\ TakesAll(PropsFromMap[s], Interfaces[s])
<1>1. DOMAIN PropsFromMap = DOMAIN Interfaces
  BY DEF PropsFromMap, Interfaces
<1>2. DOMAIN PropsFromMap = {"SessionProps", "TransferProps", "PhonebookProps",
                             "MessageProps", "MessageAccessProps"}
  BY DEF PropsFromMap
<1>3. /\ PropsFromMap["SessionProps"] = session_props_from_map
      /\ PropsFromMap["TransferProps"] = transfer_props_from_map
      /\ PropsFromMap["PhonebookProps"] = phonebook_props_from_map
      /\ PropsFromMap["MessageProps"] = message_props_from_map
      /\ PropsFromMap["MessageAccessProps"] = message_access_props_from_map
  BY DEF PropsFromMap
<1>4. /\ Interfaces["SessionProps"] = Session1 /\ Interfaces["TransferProps"] = Transfer1
      /\ Interfaces["PhonebookProps"] = PhonebookAccess1
      /\ Interfaces["MessageAccessProps"] = MessageAccess1
  BY DEF Interfaces
<1>5. Fields["MessageAccessProps"] = SmallTable["MessageAccessProps"]
  <2>1. "MessageAccessProps" \in DOMAIN SmallTable
    BY DEF SmallTable
  <2> QED BY <2>1, SmallTableIs
<1>6. DOMAIN PropsFromMap \subseteq Structs
  <2>1. "MessageAccessProps" \in DOMAIN SmallTable
    BY DEF SmallTable
  <2> QED BY <1>2, <2>1, StructsAre
<1>7. TakenFrom(PropsFromMap["SessionProps"], Fields["SessionProps"])
      /\ TakesAll(PropsFromMap["SessionProps"], Interfaces["SessionProps"])
  BY <1>3, <1>4, SessionTaken, SessionTableIs
<1>8. TakenFrom(PropsFromMap["TransferProps"], Fields["TransferProps"])
      /\ TakesAll(PropsFromMap["TransferProps"], Interfaces["TransferProps"])
  BY <1>3, <1>4, TransferTaken, TransferTableIs
<1>9. TakenFrom(PropsFromMap["PhonebookProps"], Fields["PhonebookProps"])
      /\ TakesAll(PropsFromMap["PhonebookProps"], Interfaces["PhonebookProps"])
  BY <1>3, <1>4, PhonebookTaken, PhonebookTableIs
<1>10. TakenFrom(PropsFromMap["MessageProps"], Fields["MessageProps"])
       /\ TakesAll(PropsFromMap["MessageProps"], Interfaces["MessageProps"])
  BY <1>3, MessageTaken, MessageTableIs
<1>11. TakenFrom(PropsFromMap["MessageAccessProps"], Fields["MessageAccessProps"])
       /\ TakesAll(PropsFromMap["MessageAccessProps"], Interfaces["MessageAccessProps"])
  BY <1>3, <1>4, <1>5, AccessTaken
<1> QED BY <1>1, <1>2, <1>6, <1>7, <1>8, <1>9, <1>10, <1>11

-----------------------------------------------------------------------------
(***************************************************************************)
(* Records of properties.                                                  *)
(***************************************************************************)
\* A struct of plain fields that fits as an element of a list fits by itself.
LEMMA PlainStruct ==
  ASSUME NEW s, NEW record, FitsItem(s, record)
  PROVE  FitsStruct(s, record)
<1>1. ASSUME NEW i \in 1..Len(Fields[s])
      PROVE  FitsField(Fields[s][i][2], record[Fields[s][i][1]])
  <2> DEFINE type == Fields[s][i][2]
             v == record[Fields[s][i][1]]
  <2>1. FitsPlain(type, v)
    BY DEF FitsItem
  <2> HIDE DEF type, v
  <2>2. type \in PlainTypes
    BY <2>1 DEF FitsPlain
  <2>3. type \notin ItemStructs
    BY <2>2, PlainFieldIs
  <2>4. FitsField(type, v)
    BY <2>1, <2>3 DEF FitsField
  <2> QED BY <2>4 DEF type, v
<1> QED BY <1>1 DEF FitsItem, FitsStruct

\* What a record made of properties has in its fields.
LEMMA PropsIs ==
  ASSUME NEW s \in DOMAIN PropsFromMap, NEW path, NEW properties
  PROVE  LET r == Props(s, path, properties)
             from == PropsFromMap[s]
         IN  /\ HasFields(r, Fields[s]) /\ r.objectPath = path
             /\ \A i \in 1..Len(from) :
                  r[from[i][1]] = get_property_value(properties, from[i][2], from[i][3])
<1> DEFINE r == Props(s, path, properties)
           from == PropsFromMap[s]
           f == Fields[s]
           names == {"objectPath"} \cup {from[i][1] : i \in DOMAIN from}
           source(name) == CHOOSE i \in DOMAIN from : from[i][1] = name
           value(name) == IF name = "objectPath" THEN path
                          ELSE get_property_value(properties, from[source(name)][2],
                                                  from[source(name)][3])
<1>1. TakenFrom(from, f) /\ IsTable(f)
  BY AllTaken, Tables DEF TableOf
<1>2. r = [name \in names |-> value(name)]
  BY DEF Props
<1> HIDE DEF r, from, f, source
<1>3. /\ Len(from) \in Nat /\ DOMAIN from = 1..Len(from) /\ Len(f) = Len(from) + 1
      /\ f[1] = <<"objectPath", "s">>
      /\ \A i \in 1..Len(from) : f[i + 1] = <<from[i][1], FieldType(from[i][3])>>
      /\ \A i \in 1..Len(from) : from[i][1] # "objectPath"
  BY <1>1 DEF TakenFrom
<1>4. Names(f) = names
  <2>1. ASSUME NEW name \in Names(f) PROVE name \in names
    <3>1. PICK i \in 1..Len(f) : f[i][1] = name
      BY <1>1 DEF Names, IsTable
    <3>2. CASE i = 1
      BY <3>1, <3>2, <1>3
    <3>3. CASE i # 1
      <4> DEFINE j == i - 1
      <4>1. j \in 1..Len(from) /\ j + 1 = i
        BY <3>3, <1>3
      <4> HIDE DEF j
      <4>2. f[j + 1] = <<from[j][1], FieldType(from[j][3])>>
        BY <4>1, <1>3
      <4> QED BY <3>1, <4>1, <4>2, <1>3
    <3> QED BY <3>2, <3>3
  <2>2. ASSUME NEW name \in names PROVE name \in Names(f)
    <3>1. CASE name = "objectPath"
      <4>1. 1 \in DOMAIN f
        BY <1>1, <1>3 DEF IsTable
      <4> QED BY <3>1, <4>1, <1>3 DEF Names
    <3>2. CASE name # "objectPath"
      <4>1. PICK i \in 1..Len(from) : from[i][1] = name
        BY <3>2, <1>3
      <4>2. i + 1 \in DOMAIN f /\ f[i + 1][1] = name
        BY <4>1, <1>1, <1>3 DEF IsTable
      <4> QED BY <4>2 DEF Names
    <3> QED BY <3>1, <3>2
  <2> QED BY <2>1, <2>2
<1>5. HasFields(r, f)
  <2>1. r = [name \in names |-> r[name]]
    BY <1>2
  <2> QED BY <2>1, <1>4 DEF HasFields
<1>6. r.objectPath = path
  BY <1>2
<1>7. ASSUME NEW i \in 1..Len(from) PROVE source(from[i][1]) = i
  <2>1. PICK position : \A k \in 1..Len(from) : position[from[k][1]] = k
    BY <1>1 DEF TakenFrom
  <2>2. source(from[i][1]) \in 1..Len(from) /\ from[source(from[i][1])][1] = from[i][1]
    BY <1>3 DEF source
  <2> QED BY <2>1, <2>2
<1>8. ASSUME NEW i \in 1..Len(from)
      PROVE  r[from[i][1]] = get_property_value(properties, from[i][2], from[i][3])
  <2>1. from[i][1] \in names /\ from[i][1] # "objectPath"
    BY <1>3
  <2> QED BY <2>1, <1>2, <1>7
<1> QED BY <1>5, <1>6, <1>8 DEF r, from, f

\* It fits,
LEMMA PropsFit ==
  ASSUME NEW s \in DOMAIN PropsFromMap, NEW path \in Ascii, NEW properties,
         IsDictionary(properties)
  PROVE  FitsItem(s, Props(s, path, properties))
<1> DEFINE r == Props(s, path, properties)
           from == PropsFromMap[s]
           f == Fields[s]
<1>1. TakenFrom(from, f)
  BY AllTaken
<1>2. /\ HasFields(r, f) /\ r.objectPath = path
      /\ \A i \in 1..Len(from) :
           r[from[i][1]] = get_property_value(properties, from[i][2], from[i][3])
  BY PropsIs
<1> HIDE DEF r, from, f
<1>3. ASSUME NEW k \in 1..Len(f) PROVE FitsPlain(f[k][2], r[f[k][1]])
  <2>1. CASE k = 1
    <3>1. f[k][2] = "s" /\ r[f[k][1]] = path
      BY <2>1, <1>1, <1>2 DEF TakenFrom
    <3> QED BY <3>1 DEF FitsPlain, PlainTypes
  <2>2. CASE k # 1
    <3> DEFINE i == k - 1
    <3>1. i \in 1..Len(from) /\ i + 1 = k
      BY <2>2, <1>1 DEF TakenFrom
    <3> HIDE DEF i
    <3>2. f[k] = <<from[i][1], FieldType(from[i][3])>> /\ from[i][3] \in Signatures
      BY <3>1, <1>1 DEF TakenFrom
    <3>3. r[f[k][1]] = get_property_value(properties, from[i][2], from[i][3])
      BY <3>1, <3>2, <1>2
    <3> QED BY <3>2, <3>3, PropertyFits
  <2> QED BY <2>1, <2>2
<1>4. FitsItem(s, r)
  BY <1>2, <1>3 DEF FitsItem, f
<1> QED BY <1>4 DEF r

\* and says what the service said.
LEMMA PropsAgree ==
  ASSUME NEW s \in DOMAIN PropsFromMap, NEW path, NEW properties
  PROVE  Agrees(Props(s, path, properties), s, path, properties)
<1> DEFINE r == Props(s, path, properties)
           from == PropsFromMap[s]
<1>1. /\ r.objectPath = path
      /\ \A i \in 1..Len(from) :
           r[from[i][1]] = get_property_value(properties, from[i][2], from[i][3])
  BY PropsIs
<1>2. TakesAll(from, Interfaces[s])
  BY AllTaken
<1> HIDE DEF r, from
<1>3. ASSUME NEW property \in Interfaces[s]
      PROVE  r[DartName[property[1]]] = Said(properties, property[1], property[2])
  <2>1. PICK i \in 1..Len(from) : property = <<from[i][2], from[i][3]>>
    BY <1>2 DEF TakesAll
  <2>2. property[1] = from[i][2] /\ property[2] = from[i][3]
        /\ DartName[property[1]] = from[i][1]
    BY <2>1, <1>2 DEF TakesAll
  <2>3. r[DartName[property[1]]] = get_property_value(properties, property[1], property[2])
    BY <2>2, <1>1
  <2> QED BY <2>3 DEF get_property_value, Said
<1> QED BY <1>1, <1>3 DEF Agrees, r

\* A session whose properties could not be read is one of which only the destination
\* is known.
LEMMA SessionWithoutPropsIs ==
  ASSUME NEW path, NEW destination
  PROVE  SessionWithoutProps(path, destination)
           = Props("SessionProps", path, [Destination |-> <<"s", destination>>])
<1> DEFINE none == [none \in {} |-> 0]
           known == [Destination |-> <<"s", destination>>]
           p == Props("SessionProps", path, none)
           q == Props("SessionProps", path, known)
           from == session_props_from_map
           s == SessionWithoutProps(path, destination)
<1>1. s = [p EXCEPT !.destination = destination]
  BY DEF SessionWithoutProps
<1>2. "SessionProps" \in DOMAIN PropsFromMap /\ PropsFromMap["SessionProps"] = from
  BY DEF PropsFromMap
<1>3. /\ HasFields(p, SessionTable) /\ p.objectPath = path
      /\ \A i \in 1..Len(from) :
           p[from[i][1]] = get_property_value(none, from[i][2], from[i][3])
  <2> HIDE DEF none, from
  <2> QED BY <1>2, PropsIs, SessionTableIs
<1>4. /\ HasFields(q, SessionTable) /\ q.objectPath = path
      /\ \A i \in 1..Len(from) :
           q[from[i][1]] = get_property_value(known, from[i][2], from[i][3])
  <2> HIDE DEF known, from
  <2> QED BY <1>2, PropsIs, SessionTableIs
<1>5. Len(from) = 6
  BY DEF session_props_from_map
<1> DEFINE names == {"objectPath", "source", "destination", "channel", "psm", "target",
                     "root"}
<1>6. Names(SessionTable) = names
  BY SessionTableIs DEF Names, SessionTable
<1>7. p = [name \in names |-> p[name]] /\ q = [name \in names |-> q[name]]
  BY <1>3, <1>4, <1>6 DEF HasFields
<1>8. \A key, signature : get_property_value(none, key, signature) = Default(signature)
  BY DEF get_property_value
<1>9. \A key, signature :
        get_property_value(known, key, signature) =
          IF key = "Destination" /\ signature = "s" THEN destination
          ELSE Default(signature)
  BY DEF get_property_value
<1> HIDE DEF p, q, s, none, known
<1>10. /\ p["source"] = Default("s") /\ p["channel"] = Default("y")
       /\ p["psm"] = Default("q") /\ p["target"] = Default("s")
       /\ p["root"] = Default("s") /\ p["objectPath"] = path
  <2>1. \A i \in 1..6 : p[from[i][1]] = Default(from[i][3])
    BY <1>3, <1>5, <1>8
  <2>2. /\ from[1][1] = "source" /\ from[1][3] = "s" /\ from[3][1] = "channel"
        /\ from[3][3] = "y" /\ from[4][1] = "psm" /\ from[4][3] = "q"
        /\ from[5][1] = "target" /\ from[5][3] = "s" /\ from[6][1] = "root"
        /\ from[6][3] = "s"
    BY DEF session_props_from_map
  <2> HIDE DEF from
  <2> QED BY <1>3, <2>1, <2>2
<1>11. /\ q["source"] = Default("s") /\ q["channel"] = Default("y")
       /\ q["psm"] = Default("q") /\ q["target"] = Default("s")
       /\ q["root"] = Default("s") /\ q["objectPath"] = path
       /\ q["destination"] = destination
  <2>1. \A i \in 1..6 : q[from[i][1]] =
          IF from[i][2] = "Destination" /\ from[i][3] = "s" THEN destination
          ELSE Default(from[i][3])
    BY <1>4, <1>5, <1>9
  <2>2. /\ from[1] = <<"source", "Source", "s">>
        /\ from[2] = <<"destination", "Destination", "s">>
        /\ from[3] = <<"channel", "Channel", "y">> /\ from[4] = <<"psm", "PSM", "q">>
        /\ from[5] = <<"target", "Target", "s">> /\ from[6] = <<"root", "Root", "s">>
    BY DEF session_props_from_map
  <2> HIDE DEF from
  <2> QED BY <1>4, <2>1, <2>2
<1>12. \A name \in names : s[name] = q[name]
  BY <1>1, <1>7, <1>10, <1>11
<1>13. s = [name \in names |-> s[name]]
  BY <1>1, <1>7
<1> HIDE DEF names
<1>14. s = q
  BY <1>7, <1>12, <1>13
<1> QED BY <1>14 DEF s, q, known

-----------------------------------------------------------------------------
(***************************************************************************)
(* Variants as texts.                                                      *)
(***************************************************************************)
\* A short text of bytes below 128.
LEMMA AsciiText ==
  ASSUME NEW text \in Text, \A k \in 1..Len(text) : text[k] \in 0..127,
         Len(text) < Limit
  PROVE  text \in Ascii
<1>1. Len(text) \in Nat /\ text = [k \in 1..Len(text) |-> text[k]]
  BY DEF Text
<1>2. text \in [1..Len(text) -> 0..127]
  BY <1>1
<1> DEFINE n == Len(text)
<1>3. n \in Nat /\ text \in [1..n -> 0..127]
  BY <1>1, <1>2
<1> HIDE DEF n
<1>4. text \in Seq(0..127)
  BY <1>3, FunctionIsSeq
<1> QED BY <1>4 DEF Ascii

\* A number.
LEMMA DecimalFits ==
  ASSUME NEW n \in Int, n < Limit, -n < Limit
  PROVE  Decimal(n) \in Ascii
<1> DEFINE text == Decimal(n)
<1>1. text \in Text /\ Len(text) \in Nat /\ DOMAIN text = 1..Len(text)
  BY DecimalIs, TextBytes
<1>2. \A c \in Digits : c \in 0..127
  BY DEF Digits
<1>3. CASE n >= 0
  <2>1. IsNumber(text) /\ Len(text) <= n + 1 /\ Short(n, text)
    BY <1>3, DecimalIs
  <2> HIDE DEF text
  <2>2. \A k \in 1..Len(text) : text[k] \in 0..127
    BY <1>1, <1>2, <2>1 DEF IsNumber
  <2>3. Len(text) < Limit
    <3>1. CASE n >= 10
      <4>1. Len(text) <= n - 1
        BY <2>1, <3>1 DEF Short
      <4> HIDE DEF text
      <4> QED BY <1>1, <4>1 DEF Limit
    <3>2. CASE n < 10
      BY <1>1, <2>1, <3>2 DEF Limit
    <3> QED BY <3>1, <3>2
  <2>4. text \in Ascii
    BY <1>1, <2>2, <2>3, AsciiText
  <2> QED BY <2>4 DEF text
<1>4. CASE n < 0
  <2>1. /\ text[1] = Minus /\ Len(text) <= 2 - n /\ (n <= -10 => Len(text) <= -n)
        /\ \A i \in 2..Len(text) : text[i] \in Digits
    <3>1. \A m \in Int : m < 0 =>
            /\ Decimal(m)[1] = Minus /\ Len(Decimal(m)) <= 2 - m
            /\ m <= -10 => Len(Decimal(m)) <= -m
            /\ \A i \in 2..Len(Decimal(m)) : Decimal(m)[i] \in Digits
      BY DecimalIs
    <3> QED BY <1>4, <3>1
  <2> HIDE DEF text
  <2>2. \A k \in 1..Len(text) : text[k] \in 0..127
    <3> TAKE k \in 1..Len(text)
    <3>1. CASE k = 1
      BY <2>1, <3>1 DEF Minus
    <3>2. CASE k # 1
      <4>1. k \in 2..Len(text)
        BY <1>1, <3>2
      <4> QED BY <1>2, <2>1, <4>1
    <3> QED BY <3>1, <3>2
  <2>3. Len(text) < Limit
    <3>1. CASE n <= -10
      <4>1. Len(text) <= -n
        BY <2>1, <3>1
      <4> QED BY <1>1, <4>1 DEF Limit
    <3>2. CASE n > -10
      BY <1>1, <2>1, <3>2 DEF Limit
    <3> QED BY <3>1, <3>2
  <2>4. text \in Ascii
    BY <1>1, <2>2, <2>3, AsciiText
  <2> QED BY <2>4 DEF text
<1> QED BY <1>3, <1>4

\* A list.
LEMMA JoinedFits ==
  ASSUME NEW list \in AsciiList
  PROVE  Joined(list) \in Ascii
<1> DEFINE text == Joined(list)
<1>1. list \in Seq(Text) /\ Len(text) < Limit /\ list \in Seq(Ascii)
  <2>1. list \in Seq(Ascii) /\ Len(text) < Limit
    BY DEF AsciiList
  <2>2. \A s \in Ascii : s \in Text
    BY AsciiBytes
  <2> HIDE DEF text
  <2> QED BY <2>1, <2>2
<1>2. text \in Text /\ DOMAIN text = 1..Len(text) /\ Len(text) \in Nat
  BY <1>1, JoinedIs, TextBytes
<1>3. \A i \in 1..Len(list) : \A k \in 1..Len(list[i]) : list[i][k] \in 0..127
  <2> TAKE i \in 1..Len(list)
  <2>1. list[i] \in Ascii
    BY <1>1, ElementOfSeq
  <2> QED BY <2>1, AsciiBytes
<1>4. CASE list = <<>>
  <2>1. text = <<>>
    BY <1>1, <1>4, JoinedIs
  <2> QED BY <2>1, EmptyAscii
<1>5. CASE list # <<>>
  <2>1. PICK s : Separates(s, list, text)
    BY <1>1, <1>5, JoinedIs
  <2> HIDE DEF text
  <2>2. ASSUME NEW p \in 1..Len(text) PROVE text[p] \in 0..127
    <3>1. \/ \E i \in 2..Len(list) : p = s[i]
          \/ \E i \in 1..Len(list) : \E k \in 1..Len(list[i]) : p = s[i] + k
      BY <2>1 DEF Separates
    <3>2. CASE \E i \in 2..Len(list) : p = s[i]
      BY <3>2, <2>1 DEF Separates, Comma
    <3>3. CASE \E i \in 1..Len(list) : \E k \in 1..Len(list[i]) : p = s[i] + k
      <4>1. PICK i \in 1..Len(list) : \E k \in 1..Len(list[i]) : p = s[i] + k
        BY <3>3
      <4>2. PICK k \in 1..Len(list[i]) : p = s[i] + k
        BY <4>1
      <4>3. text[p] = list[i][k]
        BY <4>2, <2>1 DEF Separates
      <4> QED BY <4>3, <1>3
    <3> QED BY <3>1, <3>2, <3>3
  <2>3. text \in Ascii
    BY <1>1, <1>2, <2>2, AsciiText DEF text
  <2> QED BY <2>3 DEF text
<1> QED BY <1>4, <1>5

\* The text of a variant fits, and stands for the variant.
LEMMA VariantText ==
  ASSUME NEW v \in DBusValue
  PROVE  variant_to_string(v) \in Ascii /\ ReadsAs(variant_to_string(v), v)
<1> DEFINE text == variant_to_string(v)
<1>1. Delivers(v[1], v[2])
  BY Delivered
<1>2. CASE v[1] \in {"s", "o"}
  <2>1. text = v[2]
    BY <1>2 DEF variant_to_string
  <2>2. v[2] \in Ascii
    BY <1>1, <1>2 DEF Delivers
  <2> QED BY <1>2, <2>1, <2>2 DEF ReadsAs
<1>3. CASE v[1] = "b"
  <2>1. text = BoolText(v[2])
    BY <1>3 DEF variant_to_string
  <2>2. ReadsAs(text, v)
    BY <1>3, <2>1 DEF ReadsAs
  <2>3. BoolText(v[2]) \in Ascii
    <3>1. TrueText \in Ascii /\ FalseText \in Ascii
      BY DEF TrueText, FalseText, Ascii, Limit
    <3> QED BY <3>1 DEF BoolText
  <2> QED BY <2>1, <2>2, <2>3
<1>4. CASE v[1] \in {"y", "q", "u", "t", "n", "i", "x"}
  <2>1. text = Decimal(v[2])
    BY <1>4 DEF variant_to_string
  <2>2. v[2] \in Int /\ v[2] < Limit /\ -v[2] < Limit
    <3>1. CASE v[1] = "y"
      BY <1>1, <3>1 DEF Delivers, Below, Limit
    <3>2. CASE v[1] = "q"
      BY <1>1, <3>2 DEF Delivers, Below, Limit
    <3>3. CASE v[1] \in {"u", "t"}
      BY <1>1, <3>3 DEF Delivers, Below, Limit
    <3>4. CASE v[1] \in {"n", "i", "x"}
      BY <1>1, <3>4 DEF Delivers
    <3> QED BY <1>4, <3>1, <3>2, <3>3, <3>4
  <2>3. text \in Ascii
    BY <2>1, <2>2, DecimalFits
  <2>4. CASE v[1] \in {"y", "q"}
    <3>1. v[2] \in Nat /\ v[2] <= 65535
      BY <1>1, <2>4 DEF Delivers, Below
    <3>2. IsNumber(text) /\ FromChars(text) = v[2]
      BY <2>1, <3>1, SmallDecimal
    <3> HIDE DEF text
    <3>3. ReadsAs(text, v)
      BY <2>4, <3>2 DEF ReadsAs
    <3> QED BY <2>3, <3>3 DEF text
  <2>5. CASE v[1] \notin {"y", "q"}
    <3>1. ReadsAs(text, v)
      BY <1>4, <2>1, <2>5 DEF ReadsAs
    <3> QED BY <2>3, <3>1
  <2> QED BY <2>4, <2>5
<1>5. CASE v[1] = "as"
  <2>1. text = Joined(v[2])
    BY <1>5 DEF variant_to_string
  <2>2. v[2] \in AsciiList
    BY <1>1, <1>5 DEF Delivers
  <2>3. Items(v[2]) => split_csv(text) = v[2]
    <3>1. \A t \in Ascii : t \in Text
      BY AsciiBytes
    <3>2. v[2] \in Seq(Text)
      BY <2>2, <3>1 DEF AsciiList
    <3> QED BY <2>1, <3>2, SplitJoined
  <2>4. ReadsAs(text, v)
    <3> HIDE DEF text
    <3> QED BY <1>5, <2>3 DEF ReadsAs
  <2> QED BY <2>1, <2>2, <2>4, JoinedFits
<1>6. CASE v[1] = "d"
  <2>1. text = Dump
    BY <1>6 DEF variant_to_string
  <2>2. Dump \in Ascii
    BY DEF Dump, Ascii, Limit
  <2>3. ReadsAs(text, v)
    BY <1>6 DEF ReadsAs
  <2> QED BY <2>1, <2>2, <2>3
<1> QED BY <1>1, <1>2, <1>3, <1>4, <1>5, <1>6 DEF Delivers
-----------------------------------------------------------------------------
(***************************************************************************)
(* What the service said becomes structs that can be written.              *)
(***************************************************************************)
\* A list of records that fit.
LEMMA Rows ==
  ASSUME NEW type \in ItemStructs, NEW n \in Nat, n < Limit, NEW v,
         v = [i \in 1..n |-> v[i]], \A i \in 1..n : FitsItem(type, v[i])
  PROVE  FitsField(type, v) /\ Len(v) = n /\ DOMAIN v = 1..n
<1> DEFINE W == {v[i] : i \in DOMAIN v}
<1>1. DOMAIN v = 1..n
  OBVIOUS
<1>2. v \in [1..n -> W]
  BY <1>1
<1> HIDE DEF W
<1>3. v \in Seq(W) /\ Len(v) = n
  BY <1>2, FunctionIsSeq
<1> QED BY <1>1, <1>3 DEF FitsField, W

\* The tables of the small structs.
LEMMA SmallFields ==
  /\ Fields["Property"] = <<<<"key", "s">>, <<"value", "s">>>>
  /\ Fields["PhonebookEntry"] = <<<<"vcard", "s">>, <<"name", "s">>>>
  /\ Fields["PhonebookEntries"] = <<<<"entries", "PhonebookEntry">>>>
  /\ Fields["MessageFolder"] = <<<<"name", "s">>>>
  /\ Fields["MessageFolders"] = <<<<"folders", "MessageFolder">>>>
  /\ Fields["Messages"] = <<<<"messages", "MessageProps">>>>
  /\ Fields["FilterFields"] = <<<<"fields", "as">>>>
  /\ Fields["TransferResult"] = <<<<"transferPath", "s">>, <<"properties", "Property">>>>
  /\ Fields["ManagedObjects"] =
       <<<<"sessions", "as">>, <<"transfers", "as">>, <<"phonebooks", "as">>,
         <<"messageAccesses", "as">>, <<"messages", "as">>>>
  /\ Fields["ObjectAdded"] = <<<<"objectPath", "s">>, <<"interfaceName", "s">>>>
  /\ Fields["ObjectRemoved"] = <<<<"objectPath", "s">>, <<"interfaceName", "s">>>>
  /\ Fields["Error"] = <<<<"objectPath", "s">>, <<"name", "s">>, <<"message", "s">>>>
  /\ Fields["Devices"] = <<<<"devices", "Device">>>>
<1>1. \A s \in DOMAIN SmallTable : Fields[s] = SmallTable[s]
  BY SmallTableIs
<1> QED BY <1>1 DEF SmallTable

\* A record of one field, of two and of three.
LEMMA OneField ==
  ASSUME NEW s, NEW a, NEW ta, Fields[s] = <<<<a, ta>>>>,
         NEW r, r = [name \in {a} |-> r[name]]
  PROVE  /\ FitsPlain(ta, r[a]) => FitsItem(s, r)
         /\ FitsField(ta, r[a]) => FitsStruct(s, r)
<1>1. Len(Fields[s]) = 1 /\ DOMAIN Fields[s] = 1..1 /\ Fields[s][1] = <<a, ta>>
  OBVIOUS
<1>2. Names(Fields[s]) = {a}
  BY <1>1 DEF Names
<1>3. HasFields(r, Fields[s])
  BY <1>2 DEF HasFields
<1> QED BY <1>1, <1>3 DEF FitsItem, FitsStruct

\* A record of two fields.
LEMMA TwoFields ==
  ASSUME NEW s, NEW a, NEW ta, NEW b, NEW tb, Fields[s] = <<<<a, ta>>, <<b, tb>>>>,
         NEW r, r = [name \in {a, b} |-> r[name]]
  PROVE  /\ FitsPlain(ta, r[a]) /\ FitsPlain(tb, r[b]) => FitsItem(s, r)
         /\ FitsField(ta, r[a]) /\ FitsField(tb, r[b]) => FitsStruct(s, r)
<1>1. /\ Len(Fields[s]) = 2 /\ DOMAIN Fields[s] = 1..2
      /\ Fields[s][1] = <<a, ta>> /\ Fields[s][2] = <<b, tb>>
  OBVIOUS
<1>2. Names(Fields[s]) = {a, b}
  BY <1>1 DEF Names
<1>3. HasFields(r, Fields[s])
  BY <1>2 DEF HasFields
<1> QED BY <1>1, <1>3 DEF FitsItem, FitsStruct

\* A record of three fields.
LEMMA ThreeFields ==
  ASSUME NEW s, NEW a, NEW ta, NEW b, NEW tb, NEW c, NEW tc,
         Fields[s] = <<<<a, ta>>, <<b, tb>>, <<c, tc>>>>,
         NEW r, r = [name \in {a, b, c} |-> r[name]],
         FitsField(ta, r[a]), FitsField(tb, r[b]), FitsField(tc, r[c])
  PROVE  FitsStruct(s, r)
<1>1. /\ Len(Fields[s]) = 3 /\ DOMAIN Fields[s] = 1..3
      /\ Fields[s][1] = <<a, ta>> /\ Fields[s][2] = <<b, tb>> /\ Fields[s][3] = <<c, tc>>
  OBVIOUS
<1>2. Names(Fields[s]) = {a, b, c}
  BY <1>1 DEF Names
<1>3. HasFields(r, Fields[s])
  BY <1>2 DEF HasFields
<1> QED BY <1>1, <1>3 DEF FitsStruct

\* A text and a list of texts as fields.
LEMMA TextField ==
  /\ \A text \in Ascii : FitsPlain("s", text) /\ FitsField("s", text)
  /\ \A list : list \in Seq(Ascii) /\ Len(list) < Limit => FitsField("as", list)
<1>1. "s" \notin ItemStructs /\ "as" \notin ItemStructs
  BY DEF ItemStructs
<1>2. \A text \in Ascii : FitsPlain("s", text)
  BY DEF FitsPlain, PlainTypes
<1>3. \A list : list \in Seq(Ascii) /\ Len(list) < Limit => FitsPlain("as", list)
  BY DEF FitsPlain, PlainTypes
<1> QED BY <1>1, <1>2, <1>3 DEF FitsField

\* The elements of the lists.
LEMMA SmallItems ==
  ASSUME NEW a \in Ascii, NEW b \in Ascii
  PROVE  /\ FitsItem("Property", [key |-> a, value |-> b])
         /\ FitsItem("PhonebookEntry", [vcard |-> a, name |-> b])
         /\ FitsItem("MessageFolder", [name |-> a])
<1>1. FitsPlain("s", a) /\ FitsPlain("s", b)
  BY TextField
<1>2. FitsItem("Property", [key |-> a, value |-> b])
  <2> DEFINE r == [key |-> a, value |-> b]
  <2>1. r = [name \in {"key", "value"} |-> r[name]] /\ r["key"] = a /\ r["value"] = b
    OBVIOUS
  <2>2. Fields["Property"] = <<<<"key", "s">>, <<"value", "s">>>>
    BY SmallFields
  <2> HIDE DEF r
  <2>3. FitsItem("Property", r)
    BY <1>1, <2>1, <2>2, TwoFields
  <2> QED BY <2>3 DEF r
<1>3. FitsItem("PhonebookEntry", [vcard |-> a, name |-> b])
  <2> DEFINE r == [vcard |-> a, name |-> b]
  <2>1. r = [name \in {"vcard", "name"} |-> r[name]] /\ r["vcard"] = a /\ r["name"] = b
    OBVIOUS
  <2>2. Fields["PhonebookEntry"] = <<<<"vcard", "s">>, <<"name", "s">>>>
    BY SmallFields
  <2> HIDE DEF r
  <2>3. FitsItem("PhonebookEntry", r)
    BY <1>1, <2>1, <2>2, TwoFields
  <2> QED BY <2>3 DEF r
<1>4. FitsItem("MessageFolder", [name |-> a])
  <2> DEFINE r == [name |-> a]
  <2>1. r = [name \in {"name"} |-> r[name]] /\ r["name"] = a
    OBVIOUS
  <2>2. Fields["MessageFolder"] = <<<<"name", "s">>>>
    BY SmallFields
  <2> HIDE DEF r
  <2>3. FitsItem("MessageFolder", r)
    BY <1>1, <2>1, <2>2, OneField
  <2> QED BY <2>3 DEF r
<1> QED BY <1>2, <1>3, <1>4

\* A device.
LEMMA DeviceItem ==
  ASSUME NEW p, IsDictionary(p)
  PROVE  /\ FitsItem("Device", device_from_map(p))
         /\ device_from_map(p).address = Address(p)
         /\ Address(p) # <<>> => Describes(device_from_map(p), p)
<1> DEFINE r == device_from_map(p)
           address == get_property_value(p, "Address", "s")
           alias == get_property_value(p, "Alias", "s")
           named == get_property_value(p, "Name", "s")
           paired == get_property_value(p, "Paired", "b")
           connected == get_property_value(p, "Connected", "b")
           uuids == get_property_value(p, "UUIDs", "as")
           name == IF alias # <<>> THEN alias ELSE IF named # <<>> THEN named ELSE address
<1>1. r = [address |-> address, name |-> name, paired |-> paired,
           connected |-> connected, uuids |-> uuids]
  BY DEF device_from_map
<1>2. /\ FitsPlain("s", address) /\ FitsPlain("s", alias) /\ FitsPlain("s", named)
      /\ FitsPlain("b", paired) /\ FitsPlain("b", connected) /\ FitsPlain("as", uuids)
  <2>1. {"s", "b", "as"} \subseteq Signatures
    BY DEF Signatures, PlainTypes
  <2>2. FieldType("s") = "s" /\ FieldType("b") = "b" /\ FieldType("as") = "as"
    BY DEF FieldType
  <2> QED BY <2>1, <2>2, PropertyFits
<1>3. /\ address = Address(p) /\ alias = Said(p, "Alias", "s")
      /\ named = Said(p, "Name", "s") /\ paired = Said(p, "Paired", "b")
      /\ connected = Said(p, "Connected", "b") /\ uuids = Said(p, "UUIDs", "as")
  BY DEF Address, get_property_value, Said
<1> DEFINE names == <<alias, named, address>>
<1> HIDE DEF address, alias, named, paired, connected, uuids, r
<1>4. FitsPlain("s", name)
  BY <1>2
<1>11. ASSUME address # <<>>
       PROVE  \E i \in 1..3 : /\ name = names[i] /\ names[i] # <<>>
                             /\ \A j \in 1..i-1 : names[j] = <<>>
  <2>1. names[1] = alias /\ names[2] = named /\ names[3] = address
    OBVIOUS
  <2>2. 1 \in 1..3 /\ 2 \in 1..3 /\ 3 \in 1..3
        /\ 1..1-1 = {} /\ 1..2-1 = {1} /\ 1..3-1 = {1, 2}
    OBVIOUS
  <2> HIDE DEF names
  <2>3. CASE alias # <<>>
    BY <2>1, <2>2, <2>3
  <2>4. CASE alias = <<>> /\ named # <<>>
    BY <2>1, <2>2, <2>4
  <2>5. CASE alias = <<>> /\ named = <<>>
    BY <2>1, <2>2, <2>5, <1>11
  <2> QED BY <2>3, <2>4, <2>5
<1> HIDE DEF name
<1>5. Fields["Device"] = DeviceTable /\ Len(DeviceTable) = 5 /\ DOMAIN DeviceTable = 1..5
  BY DeviceTableIs
<1>6. /\ DeviceTable[1] = <<"address", "s">> /\ DeviceTable[2] = <<"name", "s">>
      /\ DeviceTable[3] = <<"paired", "b">> /\ DeviceTable[4] = <<"connected", "b">>
      /\ DeviceTable[5] = <<"uuids", "as">>
  BY DEF DeviceTable
<1>7. Names(DeviceTable) = {"address", "name", "paired", "connected", "uuids"}
  BY <1>5, <1>6 DEF Names
<1>8. HasFields(r, DeviceTable)
  BY <1>1, <1>7 DEF HasFields
<1>9. \A i \in 1..5 : FitsPlain(DeviceTable[i][2], r[DeviceTable[i][1]])
  BY <1>1, <1>2, <1>4, <1>6
<1>10. FitsItem("Device", r) /\ r.address = address /\ r.name = name
  BY <1>1, <1>5, <1>8, <1>9 DEF FitsItem
<1>12. ASSUME address # <<>> PROVE Describes(r, p)
  <2>1. names = <<Said(p, "Alias", "s"), Said(p, "Name", "s"), Address(p)>>
    BY <1>3
  <2>2. /\ r.address = Address(p) /\ r.paired = Said(p, "Paired", "b")
        /\ r.connected = Said(p, "Connected", "b") /\ r.uuids = Said(p, "UUIDs", "as")
    BY <1>1, <1>3
  <2>3. \E i \in 1..3 : /\ r.name = names[i] /\ names[i] # <<>>
                        /\ \A j \in 1..i-1 : names[j] = <<>>
    BY <1>10, <1>11, <1>12
  <2> HIDE DEF names
  <2> QED BY <2>1, <2>2, <2>3 DEF Describes
<1> QED BY <1>3, <1>10, <1>12 DEF r

\* The keys of a map, or some of them, in their order.
Keys(list, keys) ==
  /\ list \in Seq(Ascii) /\ Len(list) \in Nat /\ Len(list) < Limit
  /\ DOMAIN list = 1..Len(list) /\ list = [i \in 1..Len(list) |-> list[i]]
  /\ \A i \in 1..Len(list) : list[i] \in keys /\ list[i] \in Ascii
  /\ Once(list, keys)

\* Some of the keys of a map, each once and in number below the limit.
LEMMA KeysInOrder ==
  ASSUME NEW f, IsMap(f), NEW keys \in SUBSET DOMAIN f
  PROVE  Keys(InKeyOrder(keys), keys)
<1> DEFINE list == InKeyOrder(keys)
           all == DOMAIN f
<1>1. IsFiniteSet(all) /\ all \subseteq Ascii /\ Cardinality(all) < Limit
  BY DEF IsMap
<1>2. keys \subseteq all
  OBVIOUS
<1> HIDE DEF all
<1>3. IsFiniteSet(keys) /\ Cardinality(keys) <= Cardinality(all) /\ keys \subseteq Ascii
  BY <1>1, <1>2, FS_Subset
<1>4. Cardinality(all) \in Nat
  BY <1>1, FS_CardinalityType
<1>5. ListsAll(list, keys) /\ Cardinality(keys) \in Nat
  BY <1>3, InKeyOrderIs
<1> HIDE DEF list
<1>6. list \in Seq(keys) /\ Len(list) = Cardinality(keys)
      /\ \A key \in keys : \E i \in 1..Len(list) : list[i] = key
  BY <1>5 DEF ListsAll
<1>7. /\ DOMAIN list = 1..Len(list) /\ list = [i \in 1..Len(list) |-> list[i]]
      /\ \A i \in 1..Len(list) : list[i] \in keys
  BY <1>6
<1>8. list \in Seq(Ascii)
  <2>1. list \in [1..Len(list) -> Ascii]
    BY <1>3, <1>7
  <2> QED BY <1>5, <1>6, <2>1, FunctionIsSeq
<1>9. Len(list) \in Nat /\ Len(list) < Limit
  BY <1>1, <1>3, <1>4, <1>5, <1>6 DEF Limit
<1>10. Once(list, keys)
  BY <1>6, <1>7 DEF Once
<1>11. \A i \in 1..Len(list) : list[i] \in keys /\ list[i] \in Ascii
  BY <1>3, <1>7
<1>12. Keys(list, keys)
  BY <1>7, <1>8, <1>9, <1>10, <1>11 DEF Keys
<1> QED BY <1>12 DEF list

\* A transfer's result.
TransferUnderstood(r, path, says) ==
  /\ r.transferPath = path
  /\ Once([i \in DOMAIN r.properties |-> r.properties[i].key], DOMAIN says)
  /\ \A i \in DOMAIN r.properties :
       ReadsAs(r.properties[i].value, says[r.properties[i].key])

\* It is written whatever the types of the properties.
LEMMA TransferArrives ==
  ASSUME NEW path \in Ascii, NEW says, IsMap(says), IsDictionary(says)
  PROVE  LET r == transfer_result_from_dbus(path, says)
         IN  FitsStruct("TransferResult", r) /\ TransferUnderstood(r, path, says)
<1> DEFINE r == transfer_result_from_dbus(path, says)
           keys == InKeyOrder(DOMAIN says)
           n == Len(keys)
           rows == variant_map_to_properties(says)
<1>1. Keys(keys, DOMAIN says)
  BY KeysInOrder
<1>2. rows = [i \in 1..n |-> [key |-> keys[i], value |-> variant_to_string(says[keys[i]])]]
  BY <1>1 DEF variant_map_to_properties, Keys
<1>3. r = [transferPath |-> path, properties |-> rows]
  BY DEF transfer_result_from_dbus
<1> HIDE DEF keys, rows, r
<1>4. n \in Nat /\ n < Limit
  BY <1>1 DEF Keys
<1>5. rows = [i \in 1..n |-> rows[i]]
  BY <1>2
<1>6. ASSUME NEW i \in 1..n
      PROVE  /\ rows[i].key = keys[i] /\ FitsItem("Property", rows[i])
             /\ ReadsAs(rows[i].value, says[rows[i].key])
  <2> DEFINE key == keys[i]
             text == variant_to_string(says[key])
  <2>1. key \in DOMAIN says /\ key \in Ascii
    BY <1>1 DEF Keys
  <2>2. says[key] \in DBusValue
    BY <2>1 DEF IsDictionary
  <2>3. text \in Ascii /\ ReadsAs(text, says[key])
    BY <2>2, VariantText
  <2>4. rows[i] = [key |-> key, value |-> text]
    BY <1>2
  <2> HIDE DEF key, text
  <2>5. FitsItem("Property", rows[i])
    BY <2>1, <2>3, <2>4, SmallItems
  <2>6. rows[i].key = key /\ rows[i].value = text
    BY <2>4
  <2> QED BY <2>3, <2>5, <2>6 DEF key
<1>7. "Property" \in ItemStructs
  BY DEF ItemStructs
<1> HIDE DEF n
<1>8. FitsField("Property", rows) /\ DOMAIN rows = 1..n
  BY <1>4, <1>5, <1>6, <1>7, Rows
<1>9. FitsStruct("TransferResult", r)
  <2>1. /\ r = [name \in {"transferPath", "properties"} |-> r[name]]
        /\ r["transferPath"] = path /\ r["properties"] = rows
    BY <1>3
  <2>2. Fields["TransferResult"] = <<<<"transferPath", "s">>, <<"properties", "Property">>>>
    BY SmallFields
  <2>3. FitsField("s", path)
    BY TextField
  <2> QED BY <1>8, <2>1, <2>2, <2>3, TwoFields
<1>10. TransferUnderstood(r, path, says)
  <2>1. r.transferPath = path /\ r.properties = rows
    BY <1>3
  <2>2. [i \in DOMAIN rows |-> rows[i].key] = keys
    <3>1. [i \in DOMAIN rows |-> rows[i].key] = [i \in 1..n |-> keys[i]]
      BY <1>6, <1>8
    <3>2. keys = [i \in 1..n |-> keys[i]]
      BY <1>1 DEF Keys, n
    <3> QED BY <3>1, <3>2
  <2>3. Once(keys, DOMAIN says)
    BY <1>1 DEF Keys
  <2>4. \A i \in DOMAIN rows : ReadsAs(rows[i].value, says[rows[i].key])
    BY <1>6, <1>8
  <2> QED BY <2>1, <2>2, <2>3, <2>4 DEF TransferUnderstood
<1> QED BY <1>9, <1>10 DEF r

\* The entries of a phonebook.
LEMMA EntriesArrive ==
  ASSUME NEW says \in Seq(Ascii \X Ascii), Len(says) < Limit
  PROVE  LET r == to_entries(says)
         IN  /\ FitsStruct("PhonebookEntries", r)
             /\ says = [i \in DOMAIN r.entries |->
                          <<r.entries[i].vcard, r.entries[i].name>>]
<1> DEFINE r == to_entries(says)
           n == Len(says)
           rows == [i \in 1..n |-> [vcard |-> says[i][1], name |-> says[i][2]]]
<1>1. n \in Nat /\ DOMAIN says = 1..n /\ says = [i \in 1..n |-> says[i]]
      /\ \A i \in 1..n : says[i] \in Ascii \X Ascii
  OBVIOUS
<1>2. r = [entries |-> rows]
  BY <1>1 DEF to_entries
<1>3. \A i \in 1..n : says[i][1] \in Ascii /\ says[i][2] \in Ascii
                      /\ says[i] = <<says[i][1], says[i][2]>>
  BY <1>1
<1>4. rows = [i \in 1..n |-> rows[i]] /\ n < Limit
  OBVIOUS
<1>5. \A i \in 1..n : rows[i] = [vcard |-> says[i][1], name |-> says[i][2]]
  OBVIOUS
<1> HIDE DEF n, rows, r
<1>6. ASSUME NEW i \in 1..n PROVE FitsItem("PhonebookEntry", rows[i])
  <2> DEFINE vcard == says[i][1]
             name == says[i][2]
  <2>1. vcard \in Ascii /\ name \in Ascii
    BY <1>3
  <2>2. rows[i] = [vcard |-> vcard, name |-> name]
    BY <1>5
  <2> HIDE DEF vcard, name
  <2> QED BY <2>1, <2>2, SmallItems
<1>7. "PhonebookEntry" \in ItemStructs
  BY DEF ItemStructs
<1>8. FitsField("PhonebookEntry", rows) /\ DOMAIN rows = 1..n
  BY <1>1, <1>4, <1>6, <1>7, Rows
<1>9. FitsStruct("PhonebookEntries", r)
  <2>1. r = [name \in {"entries"} |-> r[name]] /\ r["entries"] = rows
    BY <1>2
  <2>2. Fields["PhonebookEntries"] = <<<<"entries", "PhonebookEntry">>>>
    BY SmallFields
  <2> QED BY <1>8, <2>1, <2>2, OneField
<1>10. says = [i \in DOMAIN r.entries |-> <<r.entries[i].vcard, r.entries[i].name>>]
  <2>1. r.entries = rows
    BY <1>2
  <2>2. ASSUME NEW i \in 1..n PROVE <<rows[i].vcard, rows[i].name>> = says[i]
    <3>1. rows[i] = [vcard |-> says[i][1], name |-> says[i][2]]
      BY <1>5
    <3>2. rows[i].vcard = says[i][1] /\ rows[i].name = says[i][2]
      BY <3>1
    <3> QED BY <1>3, <3>2
  <2>3. [i \in DOMAIN rows |-> <<rows[i].vcard, rows[i].name>>] = [i \in 1..n |-> says[i]]
    BY <1>8, <2>2
  <2> QED BY <1>1, <2>1, <2>3
<1> QED BY <1>9, <1>10 DEF r

\* The folders of messages.
FoldersUnderstood(r, says) ==
  /\ Len(r.folders) = Len(says)
  /\ \A i \in DOMAIN r.folders :
       r.folders[i].name = Said(says[i], "Name", "s")

\* Each folder has the name the service gave it, or none.
LEMMA FoldersArrive ==
  ASSUME NEW says, says \in Seq({says[i] : i \in DOMAIN says}), Len(says) < Limit,
         \A i \in DOMAIN says : IsDictionary(says[i])
  PROVE  LET r == to_folders(says)
         IN  FitsStruct("MessageFolders", r) /\ FoldersUnderstood(r, says)
<1> DEFINE r == to_folders(says)
           n == Len(says)
           named(i) == get_property_value(says[i], "Name", "s")
           rows == [i \in 1..n |-> [name |-> named(i)]]
<1>1. n \in Nat /\ DOMAIN says = 1..n
  OBVIOUS
<1>2. r = [folders |-> rows]
  BY <1>1 DEF to_folders
<1>3. ASSUME NEW i \in 1..n
      PROVE  named(i) \in Ascii /\ named(i) = Said(says[i], "Name", "s")
  <2>1. IsDictionary(says[i])
    BY <1>1
  <2>2. "s" \in Signatures /\ FieldType("s") = "s"
    BY DEF Signatures, PlainTypes, FieldType
  <2>3. FitsPlain("s", named(i))
    BY <2>1, <2>2, PropertyFits
  <2>4. named(i) \in Ascii
    BY <2>3 DEF FitsPlain
  <2>5. named(i) = Said(says[i], "Name", "s")
    BY DEF get_property_value, Said
  <2> QED BY <2>4, <2>5
<1>4. rows = [i \in 1..n |-> rows[i]] /\ n < Limit
  OBVIOUS
<1>5. \A i \in 1..n : rows[i] = [name |-> named(i)]
  OBVIOUS
<1> HIDE DEF n, rows, r, named
<1>6. \A i \in 1..n : FitsItem("MessageFolder", rows[i])
  BY <1>3, <1>5, SmallItems
<1>7. "MessageFolder" \in ItemStructs
  BY DEF ItemStructs
<1>8. FitsField("MessageFolder", rows) /\ DOMAIN rows = 1..n /\ Len(rows) = n
  BY <1>1, <1>4, <1>6, <1>7, Rows
<1>9. FitsStruct("MessageFolders", r)
  <2>1. r = [name \in {"folders"} |-> r[name]] /\ r["folders"] = rows
    BY <1>2
  <2>2. Fields["MessageFolders"] = <<<<"folders", "MessageFolder">>>>
    BY SmallFields
  <2> QED BY <1>8, <2>1, <2>2, OneField
<1>10. FoldersUnderstood(r, says)
  <2>1. r.folders = rows
    BY <1>2
  <2>2. ASSUME NEW i \in 1..n PROVE rows[i].name = named(i)
    <3>1. rows[i] = [name |-> named(i)]
      BY <1>5
    <3> QED BY <3>1
  <2>3. \A i \in 1..n : rows[i].name = Said(says[i], "Name", "s")
    BY <1>3, <2>2
  <2>4. Len(rows) = Len(says)
    BY <1>8 DEF n
  <2> QED BY <1>8, <2>1, <2>3, <2>4 DEF FoldersUnderstood
<1> QED BY <1>9, <1>10 DEF r

\* Messages.
MessagesUnderstood(r, says) ==
  /\ Once([i \in DOMAIN r.messages |-> r.messages[i].objectPath], DOMAIN says)
  /\ \A i \in DOMAIN r.messages :
       Agrees(r.messages[i], "MessageProps", r.messages[i].objectPath,
              says[r.messages[i].objectPath])

\* Each message is listed once, with its own properties.
LEMMA MessagesArrive ==
  ASSUME NEW says, IsMap(says), \A path \in DOMAIN says : IsDictionary(says[path])
  PROVE  LET r == to_messages(says)
         IN  FitsStruct("Messages", r) /\ MessagesUnderstood(r, says)
<1> DEFINE r == to_messages(says)
           keys == InKeyOrder(DOMAIN says)
           n == Len(keys)
           rows == [i \in 1..n |-> Props("MessageProps", keys[i], says[keys[i]])]
<1>1. Keys(keys, DOMAIN says)
  BY KeysInOrder
<1>2. r = [messages |-> rows]
  BY <1>1 DEF to_messages, Keys
<1>3. rows = [i \in 1..n |-> rows[i]]
      /\ \A i \in 1..n : rows[i] = Props("MessageProps", keys[i], says[keys[i]])
  OBVIOUS
<1> HIDE DEF keys, rows, r
<1>4. n \in Nat /\ n < Limit /\ keys = [i \in 1..n |-> keys[i]]
  BY <1>1 DEF Keys
<1>5. "MessageProps" \in ItemStructs /\ "MessageProps" \in DOMAIN PropsFromMap
  BY DEF ItemStructs, PropsFromMap
<1>6. ASSUME NEW i \in 1..n
      PROVE  /\ FitsItem("MessageProps", rows[i]) /\ rows[i].objectPath = keys[i]
             /\ Agrees(rows[i], "MessageProps", keys[i], says[keys[i]])
  <2> DEFINE key == keys[i]
  <2>1. key \in DOMAIN says /\ key \in Ascii
    BY <1>1 DEF Keys
  <2>2. rows[i] = Props("MessageProps", key, says[key])
    BY <1>3
  <2> HIDE DEF key
  <2>3. IsDictionary(says[key])
    BY <2>1
  <2>4. FitsItem("MessageProps", Props("MessageProps", key, says[key]))
    BY <1>5, <2>1, <2>3, PropsFit
  <2>5. Agrees(Props("MessageProps", key, says[key]), "MessageProps", key, says[key])
    BY <1>5, PropsAgree
  <2>6. Agrees(rows[i], "MessageProps", key, says[key])
    BY <2>2, <2>5
  <2>7. rows[i].objectPath = key
    BY <2>6 DEF Agrees
  <2> QED BY <2>2, <2>4, <2>6, <2>7 DEF key
<1> HIDE DEF n
<1>7. FitsField("MessageProps", rows) /\ DOMAIN rows = 1..n
  BY <1>3, <1>4, <1>5, <1>6, Rows
<1>8. FitsStruct("Messages", r)
  <2>1. r = [name \in {"messages"} |-> r[name]] /\ r["messages"] = rows
    BY <1>2
  <2>2. Fields["Messages"] = <<<<"messages", "MessageProps">>>>
    BY SmallFields
  <2> QED BY <1>7, <2>1, <2>2, OneField
<1>9. MessagesUnderstood(r, says)
  <2>1. r.messages = rows
    BY <1>2
  <2>2. [i \in DOMAIN rows |-> rows[i].objectPath] = keys
    <3>1. [i \in DOMAIN rows |-> rows[i].objectPath] = [i \in 1..n |-> keys[i]]
      BY <1>6, <1>7
    <3> QED BY <3>1, <1>4
  <2>3. Once(keys, DOMAIN says)
    BY <1>1 DEF Keys
  <2>4. \A i \in DOMAIN rows : Agrees(rows[i], "MessageProps", rows[i].objectPath,
                                      says[rows[i].objectPath])
    BY <1>6, <1>7
  <2> QED BY <2>1, <2>2, <2>3, <2>4 DEF MessagesUnderstood
<1> QED BY <1>8, <1>9 DEF r

\* The objects of the service, by interface.
ObjectsUnderstood(r, says) ==
  \A f \in {<<"sessions", "Session1">>, <<"transfers", "Transfer1">>,
            <<"phonebooks", "PhonebookAccess1">>,
            <<"messageAccesses", "MessageAccess1">>, <<"messages", "Message1">>} :
    Once(r[f[1]], {p \in DOMAIN says : f[2] \in DOMAIN says[p]})

\* Each object is listed under each of its interfaces, once.
LEMMA ObjectsArrive ==
  ASSUME NEW says, IsMap(says)
  PROVE  LET r == get_managed_objects(says)
         IN  FitsStruct("ManagedObjects", r) /\ ObjectsUnderstood(r, says)
<1> DEFINE r == get_managed_objects(says)
           having(interface) == {p \in DOMAIN says : interface \in DOMAIN says[p]}
           with(interface) == InKeyOrder(having(interface))
           f == Fields["ManagedObjects"]
<1>1. r = [sessions |-> with("Session1"), transfers |-> with("Transfer1"),
           phonebooks |-> with("PhonebookAccess1"),
           messageAccesses |-> with("MessageAccess1"), messages |-> with("Message1")]
  BY DEF get_managed_objects
<1>2. ASSUME NEW interface
      PROVE  FitsField("as", with(interface)) /\ Once(with(interface), having(interface))
  <2> DEFINE keys == having(interface)
             list == InKeyOrder(keys)
  <2>1. keys \in SUBSET DOMAIN says
    OBVIOUS
  <2> HIDE DEF keys
  <2>2. Keys(list, keys)
    BY <2>1, KeysInOrder
  <2> HIDE DEF list
  <2>3. list \in Seq(Ascii) /\ Len(list) < Limit /\ Once(list, keys)
    BY <2>2 DEF Keys
  <2>4. FitsField("as", list)
    BY <2>3, TextField
  <2> QED BY <2>3, <2>4 DEF list, keys
<1> HIDE DEF with, having, r, f
<1>3. f = <<<<"sessions", "as">>, <<"transfers", "as">>, <<"phonebooks", "as">>,
           <<"messageAccesses", "as">>, <<"messages", "as">>>>
  BY SmallFields DEF f
<1>4. /\ Len(f) = 5 /\ DOMAIN f = 1..5
      /\ f[1] = <<"sessions", "as">> /\ f[2] = <<"transfers", "as">>
      /\ f[3] = <<"phonebooks", "as">> /\ f[4] = <<"messageAccesses", "as">>
      /\ f[5] = <<"messages", "as">>
  BY <1>3
<1>5. Names(f) = {"sessions", "transfers", "phonebooks", "messageAccesses", "messages"}
  BY <1>4 DEF Names
<1>6. HasFields(r, f)
  BY <1>1, <1>5 DEF HasFields
<1>7. /\ r["sessions"] = with("Session1") /\ r["transfers"] = with("Transfer1")
      /\ r["phonebooks"] = with("PhonebookAccess1")
      /\ r["messageAccesses"] = with("MessageAccess1") /\ r["messages"] = with("Message1")
  BY <1>1
<1>8. \A i \in 1..5 : FitsField(f[i][2], r[f[i][1]])
  BY <1>2, <1>4, <1>7
<1>9. FitsStruct("ManagedObjects", r)
  BY <1>4, <1>6, <1>8 DEF FitsStruct, f
<1>10. ObjectsUnderstood(r, says)
  BY <1>2, <1>7 DEF ObjectsUnderstood, having
<1> QED BY <1>9, <1>10 DEF r

\* The devices that have an address.
DevicesUnderstood(r, says) ==
  LET device == {p \in DOMAIN says : "Device1" \in DOMAIN says[p]}
      usable == {p \in device : Address(says[p]["Device1"]) # <<>>}
  IN  /\ Len(r.devices) = Cardinality(usable)
      /\ \A p \in usable : \E i \in DOMAIN r.devices :
           Describes(r.devices[i], says[p]["Device1"])

\* Each of them is listed, with what the service said of it.
LEMMA DevicesArrive ==
  ASSUME NEW says, IsMap(says),
         \A path \in DOMAIN says : "Device1" \in DOMAIN says[path]
           => IsDictionary(says[path]["Device1"])
  PROVE  LET r == get_devices(says)
         IN  FitsStruct("Devices", r) /\ DevicesUnderstood(r, says)
<1> DEFINE r == get_devices(says)
           device == {p \in DOMAIN says : "Device1" \in DOMAIN says[p]}
           usable == {p \in device : Address(says[p]["Device1"]) # <<>>}
           taken == {p \in DOMAIN says :
                       /\ "Device1" \in DOMAIN says[p]
                       /\ device_from_map(says[p]["Device1"]).address # <<>>}
           keys == InKeyOrder(taken)
           n == Len(keys)
           rows == [i \in 1..n |-> device_from_map(says[keys[i]]["Device1"])]
<1>1. \A p \in device :
        /\ FitsItem("Device", device_from_map(says[p]["Device1"]))
        /\ device_from_map(says[p]["Device1"]).address = Address(says[p]["Device1"])
        /\ Address(says[p]["Device1"]) # <<>>
             => Describes(device_from_map(says[p]["Device1"]), says[p]["Device1"])
  BY DeviceItem
<1>2. taken = usable
  BY <1>1
<1>3. Keys(keys, taken)
  <2>1. taken \in SUBSET DOMAIN says
    OBVIOUS
  <2> HIDE DEF taken
  <2> QED BY <2>1, KeysInOrder
<1>4. r = [devices |-> rows]
  <2>1. DOMAIN keys = 1..n
    BY <1>3 DEF Keys
  <2> QED BY <2>1, Zenon DEF get_devices
<1>5. rows = [i \in 1..n |-> rows[i]]
      /\ \A i \in 1..n : rows[i] = device_from_map(says[keys[i]]["Device1"])
  OBVIOUS
<1> HIDE DEF keys, rows, r, taken
<1>6. n \in Nat /\ n < Limit /\ DOMAIN keys = 1..n /\ Once(keys, usable)
      /\ \A i \in 1..n : keys[i] \in usable
  BY <1>2, <1>3 DEF Keys
<1>7. \A i \in 1..n : FitsItem("Device", rows[i])
  BY <1>1, <1>5, <1>6
<1>8. "Device" \in ItemStructs
  BY DEF ItemStructs
<1>9. \A i \in 1..n : keys[i] \in usable => Describes(rows[i], says[keys[i]]["Device1"])
  BY <1>1, <1>5
<1>10. Len(keys) = n
  OBVIOUS
<1> HIDE DEF n
<1>11. FitsField("Device", rows) /\ DOMAIN rows = 1..n /\ Len(rows) = n
  BY <1>5, <1>6, <1>7, <1>8, Rows
<1>12. FitsStruct("Devices", r)
  <2>1. r = [name \in {"devices"} |-> r[name]] /\ r["devices"] = rows
    BY <1>4
  <2>2. Fields["Devices"] = <<<<"devices", "Device">>>>
    BY SmallFields
  <2> QED BY <1>11, <2>1, <2>2, OneField
<1>13. DevicesUnderstood(r, says)
  <2>1. r.devices = rows
    BY <1>4
  <2> HIDE DEF usable
  <2>2. Len(rows) = Cardinality(usable)
    BY <1>6, <1>10, <1>11 DEF Once
  <2>3. ASSUME NEW p \in usable
        PROVE  \E i \in DOMAIN rows : Describes(rows[i], says[p]["Device1"])
    <3>1. PICK i \in 1..n : keys[i] = p
      BY <1>6 DEF Once
    <3>2. Describes(rows[i], says[p]["Device1"])
      BY <3>1, <1>9
    <3> QED BY <3>2, <1>11
  <2> QED BY <2>1, <2>2, <2>3 DEF DevicesUnderstood, usable
<1> QED BY <1>12, <1>13 DEF r

\* Lists of names.
LEMMA FilterFieldsFit ==
  ASSUME NEW says \in AsciiList
  PROVE  FitsStruct("FilterFields", [fields |-> says])
<1> DEFINE r == [fields |-> says]
<1>1. r = [name \in {"fields"} |-> r[name]] /\ r["fields"] = says
  OBVIOUS
<1>2. Fields["FilterFields"] = <<<<"fields", "as">>>>
  BY SmallFields
<1>3. FitsField("as", says)
  <2>1. says \in Seq(Ascii) /\ Len(says) < Limit
    BY DEF AsciiList
  <2> QED BY <2>1, TextField
<1> HIDE DEF r
<1>4. FitsStruct("FilterFields", r)
  BY <1>1, <1>2, <1>3, OneField
<1> QED BY <1>4 DEF r

\* Notices of objects, and errors.
LEMMA NoticesFit ==
  ASSUME NEW says
  PROVE  /\ \A s \in {"ObjectAdded", "ObjectRemoved"} :
              IsRecord(says, {"objectPath", "interfaceName"}) => FitsStruct(s, says)
         /\ IsRecord(says, {"objectPath", "name", "message"}) => FitsStruct("Error", says)
<1>1. ASSUME NEW s \in {"ObjectAdded", "ObjectRemoved"},
             IsRecord(says, {"objectPath", "interfaceName"})
      PROVE  FitsStruct(s, says)
  <2>1. /\ says = [name \in {"objectPath", "interfaceName"} |-> says[name]]
        /\ says["objectPath"] \in Ascii /\ says["interfaceName"] \in Ascii
    BY <1>1 DEF IsRecord
  <2>2. Fields[s] = <<<<"objectPath", "s">>, <<"interfaceName", "s">>>>
    BY SmallFields
  <2>3. FitsField("s", says["objectPath"]) /\ FitsField("s", says["interfaceName"])
    BY <2>1, TextField
  <2> QED BY <2>1, <2>2, <2>3, TwoFields
<1>2. ASSUME IsRecord(says, {"objectPath", "name", "message"})
      PROVE  FitsStruct("Error", says)
  <2>1. /\ says = [name \in {"objectPath", "name", "message"} |-> says[name]]
        /\ says["objectPath"] \in Ascii /\ says["name"] \in Ascii
        /\ says["message"] \in Ascii
    BY <1>2 DEF IsRecord
  <2>2. Fields["Error"] = <<<<"objectPath", "s">>, <<"name", "s">>, <<"message", "s">>>>
    BY SmallFields
  <2>3. /\ FitsField("s", says["objectPath"]) /\ FitsField("s", says["name"])
        /\ FitsField("s", says["message"])
    BY <2>1, TextField
  <2> QED BY <2>1, <2>2, <2>3, ThreeFields
<1> QED BY <1>1, <1>2

\* What is assumed of an answer.
Sample(a) ==
  /\ a.path \in Ascii
  /\ IF a.via = "unread" THEN a.kind = "SessionProps" /\ a.says \in Ascii
     ELSE Says(a.kind, a.says)
  /\ a.via = "event" => a.kind \in DOMAIN Discriminator

PropsKinds ==
  {"SessionProps", "TransferProps", "PhonebookProps", "MessageProps", "MessageAccessProps"}
Notices == {"ObjectAdded", "ObjectRemoved"}
ListKinds ==
  {"TransferResult", "PhonebookEntries", "MessageFolders", "Messages", "FilterFields",
   "ManagedObjects", "Devices"}

\* The kinds of answers.
LEMMA Kinds ==
  /\ DOMAIN PropsFromMap = PropsKinds /\ DOMAIN Interfaces = PropsKinds
  /\ PropsKinds \cap ListKinds = {} /\ PropsKinds \cap (Notices \cup {"Error"}) = {}
  /\ PropsKinds \cup ListKinds \cup Notices \cup {"Error"} \subseteq Structs
<1>1. DOMAIN PropsFromMap = PropsKinds /\ DOMAIN Interfaces = PropsKinds
  BY DEF PropsFromMap, Interfaces, PropsKinds
<1>2. PropsKinds \cap ListKinds = {} /\ PropsKinds \cap (Notices \cup {"Error"}) = {}
  BY DEF PropsKinds, ListKinds, Notices
<1>3. PropsKinds \cup ListKinds \cup Notices \cup {"Error"} \subseteq Structs
  BY StructsAre DEF PropsKinds, ListKinds, Notices, SmallTable
<1> QED BY <1>1, <1>2, <1>3

\* What the service says, kind by kind.
LEMMA SaysIs ==
  ASSUME NEW kind, NEW says, Says(kind, says)
  PROVE  \/ kind \in PropsKinds /\ IsDictionary(says)
         \/ kind = "TransferResult" /\ IsMap(says) /\ IsDictionary(says)
         \/ kind = "PhonebookEntries"
            /\ says \in Seq(Ascii \X Ascii) /\ Len(says) < Limit
         \/ /\ kind = "MessageFolders"
            /\ says \in Seq({says[i] : i \in DOMAIN says}) /\ Len(says) < Limit
            /\ \A i \in DOMAIN says : IsDictionary(says[i])
         \/ kind = "Messages" /\ IsMap(says)
            /\ \A path \in DOMAIN says : IsDictionary(says[path])
         \/ kind = "FilterFields" /\ says \in AsciiList
         \/ kind = "ManagedObjects" /\ IsMap(says)
         \/ kind = "Devices" /\ IsMap(says)
            /\ \A path \in DOMAIN says : "Device1" \in DOMAIN says[path]
                 => IsDictionary(says[path]["Device1"])
         \/ kind \in Notices /\ IsRecord(says, {"objectPath", "interfaceName"})
         \/ kind = "Error" /\ IsRecord(says, {"objectPath", "name", "message"})
<1>1. DOMAIN PropsFromMap = PropsKinds
  BY Kinds
<1> QED BY <1>1 DEF Says, Notices, PropsKinds

\* The struct of an answer, kind by kind.
LEMMA ToStructIs ==
  ASSUME NEW a
  PROVE  /\ a.via = "unread" /\ a.kind \in PropsKinds
              => ToStruct(a) = SessionWithoutProps(a.path, a.says)
         /\ a.via # "unread" =>
              /\ a.kind \in PropsKinds => ToStruct(a) = Props(a.kind, a.path, a.says)
              /\ a.kind = "TransferResult"
                   => ToStruct(a) = transfer_result_from_dbus(a.path, a.says)
              /\ a.kind = "PhonebookEntries" => ToStruct(a) = to_entries(a.says)
              /\ a.kind = "MessageFolders" => ToStruct(a) = to_folders(a.says)
              /\ a.kind = "Messages" => ToStruct(a) = to_messages(a.says)
              /\ a.kind = "FilterFields" => ToStruct(a) = [fields |-> a.says]
              /\ a.kind = "ManagedObjects" => ToStruct(a) = get_managed_objects(a.says)
              /\ a.kind = "Devices" => ToStruct(a) = get_devices(a.says)
              /\ a.kind \in Notices \cup {"Error"} => ToStruct(a) = a.says
<1>1. DOMAIN PropsFromMap = PropsKinds
  BY Kinds
<1> DEFINE via == a.via
           kind == a.kind
           s == ToStruct(a)
           unread == SessionWithoutProps(a.path, a.says)
           props == Props(kind, a.path, a.says)
           transfer == transfer_result_from_dbus(a.path, a.says)
           entries == to_entries(a.says)
           folders == to_folders(a.says)
           messages == to_messages(a.says)
           fields == [fields |-> a.says]
           objects == get_managed_objects(a.says)
           devices == get_devices(a.says)
           says == a.says
<1>2. s = CASE via = "unread" -> unread
            [] via # "unread" /\ kind \in PropsKinds -> props
            [] kind = "TransferResult" -> transfer
            [] kind = "PhonebookEntries" -> entries
            [] kind = "MessageFolders" -> folders
            [] kind = "Messages" -> messages
            [] kind = "FilterFields" -> fields
            [] kind = "ManagedObjects" -> objects
            [] kind = "Devices" -> devices
            [] kind \in {"ObjectAdded", "ObjectRemoved", "Error"} -> says
  BY <1>1 DEF ToStruct
<1> HIDE DEF via, kind, s, unread, props, transfer, entries, folders, messages, fields,
             objects, devices, says
<1>3. via = "unread" /\ kind \in PropsKinds => s = unread
  BY <1>2 DEF PropsKinds
<1>4. via # "unread" /\ kind \in PropsKinds => s = props
  BY <1>2 DEF PropsKinds
<1>5. via # "unread" /\ kind = "TransferResult" => s = transfer
  BY <1>2 DEF PropsKinds
<1>6. via # "unread" /\ kind = "PhonebookEntries" => s = entries
  BY <1>2 DEF PropsKinds
<1>7. via # "unread" /\ kind = "MessageFolders" => s = folders
  BY <1>2 DEF PropsKinds
<1>8. via # "unread" /\ kind = "Messages" => s = messages
  BY <1>2 DEF PropsKinds
<1>9. via # "unread" /\ kind = "FilterFields" => s = fields
  BY <1>2 DEF PropsKinds
<1>10. via # "unread" /\ kind = "ManagedObjects" => s = objects
  BY <1>2 DEF PropsKinds
<1>11. via # "unread" /\ kind = "Devices" => s = devices
  BY <1>2 DEF PropsKinds
<1>12. via # "unread" /\ kind \in {"ObjectAdded", "ObjectRemoved", "Error"} => s = says
  BY <1>2 DEF PropsKinds
<1> QED BY <1>3, <1>4, <1>5, <1>6, <1>7, <1>8, <1>9, <1>10, <1>11, <1>12
        DEF via, kind, s, unread, props, transfer, entries, folders, messages, fields,
            objects, devices, says, Notices

\* What Dart is to understand, kind by kind.
LEMMA UnderstoodIs ==
  ASSUME NEW a, NEW r
  PROVE  /\ a.via = "unread" /\ a.kind = "SessionProps" =>
              (Understood(a, r) <=> Agrees(r, "SessionProps", a.path,
                                           [Destination |-> <<"s", a.says>>]))
         /\ a.via # "unread" =>
              /\ a.kind \in PropsKinds =>
                   (Understood(a, r) <=> Agrees(r, a.kind, a.path, a.says))
              /\ a.kind = "TransferResult" =>
                   (Understood(a, r) <=> TransferUnderstood(r, a.path, a.says))
              /\ a.kind = "PhonebookEntries" =>
                   (Understood(a, r) <=>
                      a.says = [i \in DOMAIN r.entries |->
                                  <<r.entries[i].vcard, r.entries[i].name>>])
              /\ a.kind = "MessageFolders" =>
                   (Understood(a, r) <=> FoldersUnderstood(r, a.says))
              /\ a.kind = "Messages" => (Understood(a, r) <=> MessagesUnderstood(r, a.says))
              /\ a.kind = "FilterFields" => (Understood(a, r) <=> r.fields = a.says)
              /\ a.kind = "ManagedObjects" =>
                   (Understood(a, r) <=> ObjectsUnderstood(r, a.says))
              /\ a.kind = "Devices" => (Understood(a, r) <=> DevicesUnderstood(r, a.says))
              /\ a.kind \in Notices \cup {"Error"} => (Understood(a, r) <=> r = a.says)
<1>1. DOMAIN Interfaces = PropsKinds
  BY Kinds
<1> DEFINE via == a.via
           kind == a.kind
           u == Understood(a, r)
           unread == Agrees(r, "SessionProps", a.path, [Destination |-> <<"s", a.says>>])
           props == Agrees(r, kind, a.path, a.says)
           transfer == TransferUnderstood(r, a.path, a.says)
           entries == a.says = [i \in DOMAIN r.entries |->
                                  <<r.entries[i].vcard, r.entries[i].name>>]
           folders == FoldersUnderstood(r, a.says)
           messages == MessagesUnderstood(r, a.says)
           fields == r.fields = a.says
           objects == ObjectsUnderstood(r, a.says)
           devices == DevicesUnderstood(r, a.says)
           says == r = a.says
<1>2. u = CASE via = "unread" -> unread
            [] via # "unread" /\ kind \in PropsKinds -> props
            [] kind = "Messages" -> messages
            [] kind = "TransferResult" -> transfer
            [] kind = "PhonebookEntries" -> entries
            [] kind = "MessageFolders" -> folders
            [] kind = "FilterFields" -> fields
            [] kind = "ManagedObjects" -> objects
            [] kind = "Devices" -> devices
            [] kind \in {"ObjectAdded", "ObjectRemoved", "Error"} -> says
  BY <1>1 DEF Understood, MessagesUnderstood, TransferUnderstood, FoldersUnderstood,
              ObjectsUnderstood, DevicesUnderstood
<1> HIDE DEF via, kind, u, unread, props, transfer, entries, folders, messages, fields,
             objects, devices, says
<1>3. via = "unread" /\ kind = "SessionProps" => u = unread
  BY <1>2
<1>4. via # "unread" /\ kind \in PropsKinds => u = props
  BY <1>2 DEF PropsKinds
<1>5. via # "unread" /\ kind = "TransferResult" => u = transfer
  BY <1>2 DEF PropsKinds
<1>6. via # "unread" /\ kind = "PhonebookEntries" => u = entries
  BY <1>2 DEF PropsKinds
<1>7. via # "unread" /\ kind = "MessageFolders" => u = folders
  BY <1>2 DEF PropsKinds
<1>8. via # "unread" /\ kind = "Messages" => u = messages
  BY <1>2 DEF PropsKinds
<1>9. via # "unread" /\ kind = "FilterFields" => u = fields
  BY <1>2 DEF PropsKinds
<1>10. via # "unread" /\ kind = "ManagedObjects" => u = objects
  BY <1>2 DEF PropsKinds
<1>11. via # "unread" /\ kind = "Devices" => u = devices
  BY <1>2 DEF PropsKinds
<1>12. via # "unread" /\ kind \in {"ObjectAdded", "ObjectRemoved", "Error"} => u = says
  BY <1>2 DEF PropsKinds
<1> QED BY <1>3, <1>4, <1>5, <1>6, <1>7, <1>8, <1>9, <1>10, <1>11, <1>12, ZenonT(60)
        DEF via, kind, u, unread, props, transfer, entries, folders, messages, fields,
            objects, devices, says, Notices

\* The struct of an answer can be written, and says what the service said.
LEMMA AnswerStructs ==
  ASSUME NEW a, Sample(a)
  PROVE  /\ a.kind \in Structs /\ FitsStruct(a.kind, ToStruct(a))
         /\ Understood(a, ToStruct(a))
<1> DEFINE r == ToStruct(a)
<1>1. CASE a.via = "unread"
  <2> DEFINE says == [Destination |-> <<"s", a.says>>]
  <2>1. a.kind = "SessionProps" /\ a.says \in Ascii /\ a.path \in Ascii
        /\ "SessionProps" \in PropsKinds
    BY <1>1 DEF Sample, PropsKinds
  <2>2. r = Props("SessionProps", a.path, says)
    BY <1>1, <2>1, ToStructIs, SessionWithoutPropsIs
  <2>3. IsDictionary(says)
    BY <2>1 DEF IsDictionary, DBusValue
  <2>4. "SessionProps" \in DOMAIN PropsFromMap /\ "SessionProps" \in Structs
    BY <2>1, Kinds
  <2> HIDE DEF says, r
  <2>5. FitsItem("SessionProps", r) /\ Agrees(r, "SessionProps", a.path, says)
    BY <2>1, <2>2, <2>3, <2>4, PropsFit, PropsAgree
  <2>6. FitsStruct("SessionProps", r)
    BY <2>5, PlainStruct
  <2>7. Understood(a, r)
    BY <1>1, <2>1, <2>5, UnderstoodIs DEF says
  <2> QED BY <2>1, <2>4, <2>6, <2>7 DEF r
<1>2. CASE a.via # "unread"
  <2> DEFINE kind == a.kind
             says == a.says
             path == a.path
  <2>1. Says(kind, says) /\ path \in Ascii
    BY <1>2 DEF Sample
  <2>2. CASE kind \in PropsKinds /\ IsDictionary(says)
    <3>1. r = Props(kind, path, says)
      BY <1>2, <2>2, ToStructIs
    <3>2. kind \in DOMAIN PropsFromMap /\ kind \in Structs
      BY <2>2, Kinds
    <3> HIDE DEF r, kind, says, path
    <3>3. FitsItem(kind, r) /\ Agrees(r, kind, path, says)
      BY <2>1, <2>2, <3>1, <3>2, PropsFit, PropsAgree
    <3>4. FitsStruct(kind, r)
      BY <3>3, PlainStruct
    <3>5. Understood(a, r)
      BY <1>2, <2>2, <3>3, UnderstoodIs DEF kind, says, path
    <3> QED BY <3>2, <3>4, <3>5 DEF r, kind
  <2>3. CASE kind = "TransferResult" /\ IsMap(says) /\ IsDictionary(says)
    <3>1. r = transfer_result_from_dbus(path, says)
      BY <1>2, <2>3, ToStructIs
    <3> HIDE DEF r, says, path
    <3>2. FitsStruct("TransferResult", r) /\ TransferUnderstood(r, path, says)
      BY <2>1, <2>3, <3>1, TransferArrives
    <3>3. Understood(a, r)
      BY <1>2, <2>3, <3>2, UnderstoodIs DEF says, path
    <3> QED BY <2>3, <3>2, <3>3, Kinds DEF r, ListKinds
  <2>4. CASE kind = "PhonebookEntries"
             /\ says \in Seq(Ascii \X Ascii) /\ Len(says) < Limit
    <3>1. r = to_entries(says)
      BY <1>2, <2>4, ToStructIs
    <3> HIDE DEF r, says, path
    <3>2. /\ FitsStruct("PhonebookEntries", r)
          /\ says = [i \in DOMAIN r.entries |-> <<r.entries[i].vcard, r.entries[i].name>>]
      BY <2>4, <3>1, EntriesArrive
    <3>3. Understood(a, r)
      BY <1>2, <2>4, <3>2, UnderstoodIs DEF says
    <3> QED BY <2>4, <3>2, <3>3, Kinds DEF r, ListKinds
  <2>5. CASE /\ kind = "MessageFolders"
             /\ says \in Seq({says[i] : i \in DOMAIN says}) /\ Len(says) < Limit
             /\ \A i \in DOMAIN says : IsDictionary(says[i])
    <3>1. r = to_folders(says)
      BY <1>2, <2>5, ToStructIs
    <3> HIDE DEF r, says, path
    <3>2. FitsStruct("MessageFolders", r) /\ FoldersUnderstood(r, says)
      BY <2>5, <3>1, FoldersArrive
    <3>3. Understood(a, r)
      BY <1>2, <2>5, <3>2, UnderstoodIs DEF says
    <3> QED BY <2>5, <3>2, <3>3, Kinds DEF r, ListKinds
  <2>6. CASE kind = "Messages" /\ IsMap(says)
             /\ \A p \in DOMAIN says : IsDictionary(says[p])
    <3>1. r = to_messages(says)
      BY <1>2, <2>6, ToStructIs
    <3> HIDE DEF r, says, path
    <3>2. FitsStruct("Messages", r) /\ MessagesUnderstood(r, says)
      BY <2>6, <3>1, MessagesArrive
    <3>3. Understood(a, r)
      BY <1>2, <2>6, <3>2, UnderstoodIs DEF says
    <3> QED BY <2>6, <3>2, <3>3, Kinds DEF r, ListKinds
  <2>7. CASE kind = "FilterFields" /\ says \in AsciiList
    <3>1. r = [fields |-> says] /\ r.fields = says
      BY <1>2, <2>7, ToStructIs
    <3> HIDE DEF r, says, path
    <3>2. FitsStruct("FilterFields", r)
      BY <2>7, <3>1, FilterFieldsFit
    <3>3. Understood(a, r)
      BY <1>2, <2>7, <3>1, UnderstoodIs DEF says
    <3> QED BY <2>7, <3>2, <3>3, Kinds DEF r, ListKinds
  <2>8. CASE kind = "ManagedObjects" /\ IsMap(says)
    <3>1. r = get_managed_objects(says)
      BY <1>2, <2>8, ToStructIs
    <3> HIDE DEF r, says, path
    <3>2. FitsStruct("ManagedObjects", r) /\ ObjectsUnderstood(r, says)
      BY <2>8, <3>1, ObjectsArrive
    <3>3. Understood(a, r)
      BY <1>2, <2>8, <3>2, UnderstoodIs DEF says
    <3> QED BY <2>8, <3>2, <3>3, Kinds DEF r, ListKinds
  <2>9. CASE kind = "Devices" /\ IsMap(says)
             /\ \A p \in DOMAIN says : "Device1" \in DOMAIN says[p]
                  => IsDictionary(says[p]["Device1"])
    <3>1. r = get_devices(says)
      BY <1>2, <2>9, ToStructIs
    <3> HIDE DEF r, says, path
    <3>2. FitsStruct("Devices", r) /\ DevicesUnderstood(r, says)
      BY <2>9, <3>1, DevicesArrive
    <3>3. Understood(a, r)
      BY <1>2, <2>9, <3>2, UnderstoodIs DEF says
    <3> QED BY <2>9, <3>2, <3>3, Kinds DEF r, ListKinds
  <2>10. CASE kind \in Notices /\ IsRecord(says, {"objectPath", "interfaceName"})
    <3>1. r = says /\ kind \in Structs
      BY <1>2, <2>10, ToStructIs, Kinds
    <3> HIDE DEF r, says, path
    <3>2. FitsStruct(kind, r)
      BY <2>10, <3>1, NoticesFit DEF Notices
    <3>3. Understood(a, r)
      BY <1>2, <2>10, <3>1, UnderstoodIs DEF says
    <3> QED BY <3>1, <3>2, <3>3 DEF r
  <2>11. CASE kind = "Error" /\ IsRecord(says, {"objectPath", "name", "message"})
    <3>1. r = says /\ kind \in Structs
      BY <1>2, <2>11, ToStructIs, Kinds
    <3> HIDE DEF r, says, path
    <3>2. FitsStruct("Error", r)
      BY <2>11, <3>1, NoticesFit
    <3>3. Understood(a, r)
      BY <1>2, <2>11, <3>1, UnderstoodIs DEF says
    <3> QED BY <2>11, <3>1, <3>2, <3>3 DEF r
  <2> HIDE DEF r, kind, says, path
  <2>12. \/ kind \in PropsKinds /\ IsDictionary(says)
         \/ kind = "TransferResult" /\ IsMap(says) /\ IsDictionary(says)
         \/ kind = "PhonebookEntries"
            /\ says \in Seq(Ascii \X Ascii) /\ Len(says) < Limit
         \/ /\ kind = "MessageFolders"
            /\ says \in Seq({says[i] : i \in DOMAIN says}) /\ Len(says) < Limit
            /\ \A i \in DOMAIN says : IsDictionary(says[i])
         \/ kind = "Messages" /\ IsMap(says)
            /\ \A p \in DOMAIN says : IsDictionary(says[p])
         \/ kind = "FilterFields" /\ says \in AsciiList
         \/ kind = "ManagedObjects" /\ IsMap(says)
         \/ kind = "Devices" /\ IsMap(says)
            /\ \A p \in DOMAIN says : "Device1" \in DOMAIN says[p]
                 => IsDictionary(says[p]["Device1"])
         \/ kind \in Notices /\ IsRecord(says, {"objectPath", "interfaceName"})
         \/ kind = "Error" /\ IsRecord(says, {"objectPath", "name", "message"})
    BY <2>1, SaysIs
  <2> QED BY <2>2, <2>3, <2>4, <2>5, <2>6, <2>7, <2>8, <2>9, <2>10, <2>11, <2>12
<1> QED BY <1>1, <1>2

-----------------------------------------------------------------------------
(***************************************************************************)
(* Answers arrive.                                                         *)
(***************************************************************************)
\* Each type of event is told from the others by its byte.
LEMMA Discriminators ==
  \A kind \in DOMAIN Discriminator :
    /\ Discriminator[kind] \in 0..255 /\ kind \in Structs
    /\ fromDiscriminator(Discriminator[kind]) = kind
<1> DEFINE named(value) == {t \in EventTypes \cup BareEventTypes : t[1] = value}
<1>1. \A value, kind : named(value) = {<<value, kind>>} => fromDiscriminator(value) = kind
  <2> SUFFICES ASSUME NEW value, NEW kind, named(value) = {<<value, kind>>}
               PROVE  fromDiscriminator(value) = kind
    OBVIOUS
  <2>1. (CHOOSE t \in named(value) : TRUE) = <<value, kind>> /\ named(value) # {}
    OBVIOUS
  <2> QED BY <2>1 DEF fromDiscriminator
<1>2. DOMAIN Discriminator =
        {"SessionProps", "TransferProps", "PhonebookProps", "MessageProps",
         "MessageAccessProps", "Error", "ObjectAdded", "ObjectRemoved"}
  BY DEF Discriminator
<1>3. /\ Discriminator["SessionProps"] = 1 /\ Discriminator["TransferProps"] = 2
      /\ Discriminator["PhonebookProps"] = 3 /\ Discriminator["MessageProps"] = 6
      /\ Discriminator["MessageAccessProps"] = 7 /\ Discriminator["Error"] = 32
      /\ Discriminator["ObjectAdded"] = 125 /\ Discriminator["ObjectRemoved"] = 126
  BY DEF Discriminator
<1>4. /\ named(1) = {<<1, "SessionProps">>} /\ named(2) = {<<2, "TransferProps">>}
      /\ named(3) = {<<3, "PhonebookProps">>} /\ named(6) = {<<6, "MessageProps">>}
      /\ named(7) = {<<7, "MessageAccessProps">>} /\ named(32) = {<<32, "Error">>}
      /\ named(125) = {<<125, "ObjectAdded">>} /\ named(126) = {<<126, "ObjectRemoved">>}
  BY DEF EventTypes, BareEventTypes
<1> HIDE DEF named
<1>5. \A kind \in DOMAIN Discriminator :
        named(Discriminator[kind]) = {<<Discriminator[kind], kind>>}
  BY <1>2, <1>3, <1>4
<1>6. \A kind \in DOMAIN Discriminator : Discriminator[kind] \in 0..255
  BY <1>2, <1>3
<1>7. DOMAIN Discriminator \subseteq Structs
  BY <1>2, Kinds DEF PropsKinds, Notices
<1> QED BY <1>1, <1>5, <1>6, <1>7

\* What Dart reads.
Read(a, w) ==
  IF a.via = "event" THEN decodeNativeEvent(w)
  ELSE [type |-> a.kind, result |-> Decode(a.kind, w, 0)]

\* An event and an answer.
LEMMA ReadIs ==
  ASSUME NEW a, NEW w
  PROVE  /\ a.via # "event" => /\ Read(a, w).type = a.kind
                               /\ Read(a, w).result = Decode(a.kind, w, 0)
         /\ a.via = "event" /\ w = <<>> =>
              /\ Read(a, w).type = "unknown"
              /\ "unknown" \notin Structs
              /\ Read(a, w).result = Result(Len(w), <<>>)
         /\ a.via = "event" /\ w # <<>> =>
              /\ Read(a, w).type = fromDiscriminator(w[1])
              /\ fromDiscriminator(w[1]) \in Structs
                   => Read(a, w).result = Decode(fromDiscriminator(w[1]), w, 1)
              /\ fromDiscriminator(w[1]) \notin Structs
                   => Read(a, w).result = Result(Len(w), <<>>)
<1>1. "unknown" \notin Structs
  BY StructsAre DEF SmallTable
<1> QED BY <1>1 DEF Read, decodeNativeEvent

\* Reading any message makes room for few elements.
LEMMA ReadRoom ==
  ASSUME NEW a, Sample(a), NEW w \in Text
  PROVE  2 * Read(a, w).result.slots <= Len(w)
<1> DEFINE r == Read(a, w)
<1>1. a.kind \in Structs /\ Len(w) \in Nat /\ (w # <<>> => Len(w) >= 1)
  BY AnswerStructs, TextBytes
<1>2. \A at, v : Result(at, v).slots = 0
  BY DEF Result
<1>3. CASE a.via # "event"
  <2>1. r.result = Decode(a.kind, w, 0) /\ 0 \in 0..Len(w)
    BY <1>1, <1>3, ReadIs
  <2> QED BY <1>1, <2>1, DecodeRoom
<1>4. CASE a.via = "event" /\ w = <<>>
  <2>1. r.result = Result(Len(w), <<>>)
    BY <1>4, ReadIs
  <2> QED BY <1>1, <1>2, <2>1
<1>5. CASE a.via = "event" /\ w # <<>>
  <2> DEFINE type == fromDiscriminator(w[1])
  <2>1. /\ type \in Structs => r.result = Decode(type, w, 1)
        /\ type \notin Structs => r.result = Result(Len(w), <<>>)
    BY <1>5, ReadIs
  <2>2. 1 \in 0..Len(w)
    BY <1>1, <1>5
  <2> HIDE DEF type, r
  <2>3. CASE type \in Structs
    BY <2>1, <2>2, <2>3, DecodeRoom DEF r
  <2>4. CASE type \notin Structs
    BY <1>1, <1>2, <2>1, <2>4 DEF r
  <2> QED BY <2>3, <2>4
<1> QED BY <1>3, <1>4, <1>5

\* The bytes of an answer, and where its struct begins.
Start(a) == IF a.via = "event" THEN 1 ELSE 0
\* They are those of the struct, behind a byte for an event.
LEMMA PostedIs ==
  ASSUME NEW a, Sample(a)
  PROVE  LET e == Encode(a.kind, ToStruct(a))
         IN  /\ e \in Text /\ Len(e) \in Nat
             /\ Posted(a) \in Text /\ Len(Posted(a)) = Start(a) + Len(e)
             /\ \A k \in 1..Len(e) : Posted(a)[Start(a) + k] = e[k]
             /\ a.via = "event" => fromDiscriminator(Posted(a)[1]) = a.kind
<1> DEFINE e == Encode(a.kind, ToStruct(a))
<1>1. a.kind \in Structs /\ FitsStruct(a.kind, ToStruct(a))
  BY AnswerStructs
<1>2. e \in Text
  BY <1>1, StructWritten
<1> HIDE DEF e
<1>3. Len(e) \in Nat
  BY <1>2, TextBytes
<1>4. CASE a.via # "event"
  <2>1. Posted(a) = e /\ Start(a) = 0
    BY <1>4 DEF Posted, Start, e
  <2> QED BY <1>2, <1>3, <1>4, <2>1 DEF e
<1>5. CASE a.via = "event"
  <2> DEFINE c == Discriminator[a.kind]
  <2>1. Posted(a) = <<c>> \o e /\ Start(a) = 1
    BY <1>5 DEF Posted, Start, e
  <2>2. a.kind \in DOMAIN Discriminator
    BY <1>5 DEF Sample
  <2>3. c \in 0..255 /\ fromDiscriminator(c) = a.kind
    BY <2>2, Discriminators
  <2> HIDE DEF c
  <2>4. <<c>> \in Text /\ Len(<<c>>) = 1 /\ <<c>>[1] = c
    BY <2>3, OneByte
  <2>5. /\ <<c>> \o e \in Text /\ Len(<<c>> \o e) = 1 + Len(e)
        /\ \A k \in 1..1 : (<<c>> \o e)[k] = <<c>>[k]
        /\ \A k \in 1..Len(e) : (<<c>> \o e)[1 + k] = e[k]
    <3> DEFINE b == <<c>>
    <3>1. b \in Text /\ Len(b) = 1
      BY <2>4
    <3> HIDE DEF b
    <3>2. /\ b \o e \in Text /\ Len(b \o e) = Len(b) + Len(e)
          /\ \A k \in 1..Len(b) : (b \o e)[k] = b[k]
          /\ \A k \in 1..Len(e) : (b \o e)[Len(b) + k] = e[k]
      BY <1>2, <3>1, TextConcat
    <3>3. /\ b \o e \in Text /\ Len(b \o e) = 1 + Len(e)
          /\ \A k \in 1..1 : (b \o e)[k] = b[k]
          /\ \A k \in 1..Len(e) : (b \o e)[1 + k] = e[k]
      BY <3>1, <3>2
    <3> QED BY <3>3 DEF b
  <2>6. (<<c>> \o e)[1] = c
    BY <2>4, <2>5
  <2> QED BY <1>2, <1>3, <2>1, <2>3, <2>5, <2>6 DEF e
<1> QED BY <1>4, <1>5

\* A whole message is understood, by both readers.
LEMMA WholeRead ==
  ASSUME NEW a, Sample(a)
  PROVE  LET r == Read(a, Posted(a))
         IN  /\ r.type = a.kind /\ r.result.ok /\ r.result.at = Len(Posted(a))
             /\ Understood(a, r.result.value)
             /\ NativeDecode(a.kind, Posted(a), Start(a)).value = r.result.value
<1> DEFINE w == Posted(a)
           e == Encode(a.kind, ToStruct(a))
           at == Start(a)
           record == ToStruct(a)
           dart == Decode(a.kind, w, at)
           native == NativeDecode(a.kind, w, at)
<1>1. a.kind \in Structs /\ FitsStruct(a.kind, record) /\ Understood(a, record)
  BY AnswerStructs
<1>2. /\ e \in Text /\ Len(e) \in Nat /\ w \in Text /\ Len(w) = at + Len(e)
      /\ \A k \in 1..Len(e) : w[at + k] = e[k]
      /\ a.via = "event" => fromDiscriminator(w[1]) = a.kind
  BY PostedIs
<1>3. at \in 0..Len(w) /\ at \in Nat
  BY <1>2 DEF Start
<1>4. Agree(w, at, e)
  BY <1>2 DEF Agree
<1> HIDE DEF w, at, record, e
<1>5. Right(dart, w, at, e, record)
  BY <1>1, <1>2, <1>3, <1>4, DecodeRight DEF e, record
<1>6. at + Len(e) <= Len(w)
  BY <1>2, <1>3
<1>7. Right(native, w, at, e, record)
  BY <1>1, <1>2, <1>3, <1>4, <1>6, NativeDecodeRight DEF e, record
<1>8. Read(a, w).type = a.kind /\ Read(a, w).result = dart
  <2>1. CASE a.via # "event"
    <3>1. at = 0
      BY <2>1 DEF at, Start
    <3> QED BY <2>1, <3>1, ReadIs
  <2>2. CASE a.via = "event"
    <3>1. at = 1
      BY <2>2 DEF at, Start
    <3>2. w # <<>>
      BY <1>2, <3>1
    <3>3. fromDiscriminator(w[1]) = a.kind
      BY <1>2, <2>2
    <3>4. Read(a, w).type = a.kind /\ Read(a, w).result = Decode(a.kind, w, 1)
      BY <1>1, <2>2, <3>2, <3>3, ReadIs
    <3> QED BY <3>1, <3>4
  <2> QED BY <2>1, <2>2
<1> HIDE DEF dart, native
<1>9. dart.ok /\ dart.at = Len(w) /\ dart.value = record
  BY <1>2, <1>5, <1>6 DEF Right
<1>10. native.value = record
  BY <1>6, <1>7 DEF Right
<1> QED BY <1>1, <1>8, <1>9, <1>10 DEF w, at, native

\* A message that was cut short is refused.
LEMMA CutRead ==
  ASSUME NEW a, Sample(a), NEW n \in Nat, n < Len(Posted(a)),
         Read(a, SubSeq(Posted(a), 1, n)).type = a.kind
  PROVE  ~ Read(a, SubSeq(Posted(a), 1, n)).result.ok
<1> DEFINE all == Posted(a)
           w == SubSeq(all, 1, n)
           e == Encode(a.kind, ToStruct(a))
           at == Start(a)
           record == ToStruct(a)
           dart == Decode(a.kind, w, at)
<1>1. a.kind \in Structs /\ FitsStruct(a.kind, record)
  BY AnswerStructs
<1>2. /\ e \in Text /\ Len(e) \in Nat /\ all \in Text /\ Len(all) = at + Len(e)
      /\ \A k \in 1..Len(e) : all[at + k] = e[k]
      /\ a.via = "event" => fromDiscriminator(all[1]) = a.kind
  BY PostedIs
<1>3. at \in {0, 1} /\ (at = 1 <=> a.via = "event")
  BY DEF Start
<1> HIDE DEF all, at, record, e
<1>4. w \in Text /\ Len(w) = n /\ \A k \in 1..n : w[k] = all[k]
  <2>1. n <= Len(all)
    BY <1>2, <1>3 DEF all
  <2> QED BY <1>2, <2>1, Beginning
<1>5. n < at + Len(e)
  BY <1>2 DEF all
<1>6. Read(a, w).type = a.kind
  BY DEF all
<1> HIDE DEF w
<1>7. n >= at
  <2>1. SUFFICES ASSUME n < at PROVE FALSE
    BY <1>3
  <2>2. a.via = "event" /\ n = 0
    BY <1>3, <2>1
  <2>3. w = <<>>
    BY <1>4, <2>2 DEF Text
  <2>4. a.kind = "unknown" /\ "unknown" \notin Structs
    BY <1>6, <2>2, <2>3, ReadIs
  <2> QED BY <1>1, <2>4
<1>8. Agree(w, at, e)
  <2> SUFFICES ASSUME NEW k \in 1..Len(e), at + k <= Len(w) PROVE w[at + k] = e[k]
    BY DEF Agree
  <2>1. at + k \in 1..n
    BY <1>2, <1>3, <1>4
  <2> QED BY <1>2, <1>4, <2>1
<1>9. at \in 0..Len(w)
  BY <1>3, <1>4, <1>7
<1>10. Right(dart, w, at, e, record)
  BY <1>1, <1>4, <1>8, <1>9, DecodeRight DEF e, record
<1>11. Read(a, w).result = dart
  <2>1. CASE a.via # "event"
    <3>1. at = 0
      BY <1>3, <2>1
    <3> QED BY <2>1, <3>1, ReadIs
  <2>2. CASE a.via = "event"
    <3>1. at = 1
      BY <1>3, <2>2
    <3>2. w # <<>>
      BY <1>4, <1>7, <3>1
    <3>3. fromDiscriminator(w[1]) = a.kind
      BY <1>6, <2>2, <3>2, ReadIs
    <3>4. Read(a, w).result = Decode(a.kind, w, 1)
      BY <1>1, <2>2, <3>2, <3>3, ReadIs
    <3> QED BY <3>1, <3>4
  <2> QED BY <2>1, <2>2
<1> HIDE DEF dart
<1>12. ~ dart.ok
  <2>1. dart.ok <=> at + Len(e) <= Len(w)
    BY <1>10 DEF Right
  <2> QED BY <1>2, <1>3, <1>4, <1>5, <2>1
<1> QED BY <1>11, <1>12 DEF w, all

(***************************************************************************)
(* The inductive invariant of the way back: what is held is an answer of   *)
(* the service and bytes, those it became unless they were damaged, some   *)
(* of the first if they were cut, and Dart has read those very bytes.      *)
(***************************************************************************)
Answered == {"received", "received_cut", "received_changed"}
Held == {"posted", "cut", "changed"} \cup Answered
CutShort(w, all) == \E n \in Nat : n < Len(all) /\ w = SubSeq(all, 1, n)

AnswersIInv ==
  /\ received # Nothing => stage \in Answered
  /\ stage \in Held => Sample(answer) /\ wire \in Text
  /\ stage \in {"posted", "received"} => wire = Posted(answer)
  /\ stage \in {"cut", "received_cut"} => CutShort(wire, Posted(answer))
  /\ stage \in Answered => received = Read(answer, wire)

\* It holds of an answer just posted,
LEMMA AnswerKeeps ==
  ASSUME AnswersIInv, Answer PROVE AnswersIInv'
<1>1. PICK n \in DOMAIN AnswerSamples :
        /\ stage = "idle" /\ stage' = "posted"
        /\ answer' = AnswerSamples[n] /\ wire' = Posted(AnswerSamples[n])
        /\ UNCHANGED received
  BY DEF Answer
<1> DEFINE a == AnswerSamples[n]
<1>2. Sample(a)
  BY AnswerSamplesAssumption DEF Sample
<1>3. answer' = a /\ wire' = Posted(a)
  BY <1>1
<1> HIDE DEF a
<1>4. Posted(a) \in Text
  BY <1>2, PostedIs
<1>5. received' = Nothing
  BY <1>1 DEF AnswersIInv, Answered
<1> QED BY <1>1, <1>2, <1>3, <1>4, <1>5 DEF AnswersIInv, Answered, Held

\* of one that was cut
LEMMA CutKeeps ==
  ASSUME AnswersIInv, Cut PROVE AnswersIInv'
<1>1. PICK n \in 0..Len(wire) - 1 :
        /\ stage = "posted" /\ stage' = "cut" /\ wire' = SubSeq(wire, 1, n)
        /\ UNCHANGED <<answer, received>>
  BY DEF Cut
<1>2. Sample(answer) /\ wire = Posted(answer) /\ wire \in Text /\ received = Nothing
  BY <1>1 DEF AnswersIInv, Held, Answered
<1>3. n \in Nat /\ n < Len(wire) /\ n <= Len(wire)
  BY <1>2, TextBytes
<1>4. wire' \in Text
  BY <1>1, <1>2, <1>3, Beginning
<1>5. CutShort(wire', Posted(answer'))
  BY <1>1, <1>2, <1>3 DEF CutShort
<1> QED BY <1>1, <1>2, <1>4, <1>5 DEF AnswersIInv, Answered, Held

\* or changed,
LEMMA ChangeKeeps ==
  ASSUME AnswersIInv, Change PROVE AnswersIInv'
<1>1. PICK i \in DOMAIN wire, v \in RaisedTo :
        /\ stage = "posted" /\ stage' = "changed" /\ wire' = [wire EXCEPT ![i] = v]
        /\ UNCHANGED <<answer, received>>
  BY DEF Change
<1>2. Sample(answer) /\ wire \in Text /\ received = Nothing
  BY <1>1 DEF AnswersIInv, Held, Answered
<1>3. v \in 0..255
  BY AnswerSamplesAssumption
<1>4. wire' \in Text
  BY <1>1, <1>2, <1>3 DEF Text
<1> QED BY <1>1, <1>2, <1>4 DEF AnswersIInv, Answered, Held

\* and of what Dart reads.
LEMMA ReceiveKeeps ==
  ASSUME AnswersIInv, Receive PROVE AnswersIInv'
<1>1. /\ stage \in {"posted", "cut", "changed"}
      /\ stage = "posted" => stage' = "received"
      /\ stage = "cut" => stage' = "received_cut"
      /\ stage = "changed" => stage' = "received_changed"
      /\ received' = Read(answer, wire)
      /\ UNCHANGED <<answer, wire>>
  BY DEF Receive, Read
<1>2. Sample(answer) /\ wire \in Text
  BY <1>1 DEF AnswersIInv, Held
<1>3. /\ stage = "posted" => wire = Posted(answer)
      /\ stage = "cut" => CutShort(wire, Posted(answer))
  BY DEF AnswersIInv
<1>4. received' = Read(answer', wire')
  BY <1>1
<1> QED BY <1>1, <1>2, <1>3, <1>4 DEF AnswersIInv, Answered, Held

\* Every reachable state satisfies it, whatever the answers of the service.
LEMMA AnswersHeld == Spec => []AnswersIInv
<1>1. Init => AnswersIInv
  BY DEF Init, AnswersIInv, Answered, Held
<1>2. AnswersIInv /\ [Next]_vars => AnswersIInv'
  <2> SUFFICES ASSUME AnswersIInv, [Next]_vars PROVE AnswersIInv'
    OBVIOUS
  <2>1. CASE Marshal
    <3>1. stage = "idle" /\ stage' \in {"refused", "texts"} /\ received' = received
      BY <2>1 DEF Marshal, reply
    <3> QED BY <3>1 DEF AnswersIInv, Answered, Held
  <2>2. CASE Send
    <3>1. stage = "texts" /\ stage' \in {"refused", "sent"} /\ received' = received
      BY <2>2 DEF Send, reply
    <3> QED BY <3>1 DEF AnswersIInv, Answered, Held
  <2>3. CASE Answer
    BY <2>3, AnswerKeeps
  <2>4. CASE Cut
    BY <2>4, CutKeeps
  <2>5. CASE Change
    BY <2>5, ChangeKeeps
  <2>6. CASE Receive
    BY <2>6, ReceiveKeeps
  <2>7. CASE Forget
    <3>1. stage' = "idle" /\ received' = Nothing
      BY <2>7 DEF Forget
    <3> QED BY <3>1 DEF AnswersIInv, Answered, Held
  <2>8. CASE UNCHANGED vars
    BY <2>8 DEF vars, AnswersIInv
  <2> QED BY <2>1, <2>2, <2>3, <2>4, <2>5, <2>6, <2>7, <2>8 DEF Next
<1> QED BY <1>1, <1>2, PTL DEF Spec

\* Answers arrive (AnswersArrive): whatever the service says, within the
\* lengths assumed, Dart reads it from an undamaged message to the last byte
\* and as it was said, and so does the C++ decoder.
THEOREM AnswersArriveHolds == Spec => []AnswersArrive
<1>1. AnswersIInv => AnswersArrive
  <2> SUFFICES ASSUME AnswersIInv, stage = "received"
               PROVE  /\ received.type = answer.kind /\ received.result.ok
                      /\ received.result.at = Len(wire)
                      /\ Understood(answer, received.result.value)
                      /\ NativeDecode(answer.kind, wire,
                                      IF answer.via = "event" THEN 1 ELSE 0).value
                           = received.result.value
    BY DEF AnswersArrive
  <2>1. Sample(answer) /\ wire = Posted(answer) /\ received = Read(answer, wire)
    BY DEF AnswersIInv, Answered, Held
  <2>2. Start(answer) = IF answer.via = "event" THEN 1 ELSE 0
    BY DEF Start
  <2>3. LET r == Read(answer, Posted(answer))
        IN  /\ r.type = answer.kind /\ r.result.ok /\ r.result.at = Len(Posted(answer))
            /\ Understood(answer, r.result.value)
            /\ NativeDecode(answer.kind, Posted(answer), Start(answer)).value
                 = r.result.value
    BY <2>1, WholeRead
  <2> QED BY <2>1, <2>2, <2>3
<1> QED BY <1>1, AnswersHeld, PTL

\* Damage is refused (DamageRefused): no message that was cut, wherever, is
\* taken for a whole one, and no bytes make Dart make room for more elements
\* than half their number.
THEOREM DamageRefusedHolds == Spec => []DamageRefused
<1>1. AnswersIInv => DamageRefused
  <2> SUFFICES ASSUME AnswersIInv, received # Nothing
               PROVE  /\ stage = "received_cut" /\ received.type = answer.kind
                           => ~ received.result.ok
                      /\ 2 * received.result.slots <= Len(wire)
    BY DEF DamageRefused
  <2>1. stage \in Answered /\ Sample(answer) /\ wire \in Text
        /\ received = Read(answer, wire)
    BY DEF AnswersIInv, Answered, Held
  <2>2. 2 * received.result.slots <= Len(wire)
    BY <2>1, ReadRoom
  <2>3. ASSUME stage = "received_cut", received.type = answer.kind
        PROVE  ~ received.result.ok
    <3>1. PICK n \in Nat : n < Len(Posted(answer)) /\ wire = SubSeq(Posted(answer), 1, n)
      BY <2>3 DEF AnswersIInv, CutShort
    <3>2. Read(answer, SubSeq(Posted(answer), 1, n)).type = answer.kind
      BY <2>1, <2>3, <3>1
    <3>3. ~ Read(answer, SubSeq(Posted(answer), 1, n)).result.ok
      BY <2>1, <3>1, <3>2, CutRead
    <3> QED BY <2>1, <3>1, <3>3
  <2> QED BY <2>2, <2>3
<1> QED BY <1>1, AnswersHeld, PTL


=============================================================================
