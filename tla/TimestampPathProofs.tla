------------------------ MODULE TimestampPathProofs -------------------------
(***************************************************************************)
(* The properties of TimestampPath, for every width of the cut, every unit *)
(* and every range of times the assumptions of Timestamps allow.           *)
(***************************************************************************)
EXTENDS TimestampPath, TimestampLemmas

-----------------------------------------------------------------------------
(***************************************************************************)
(* The cut of the decimal text.  Digits and Spelled are recursive          *)
(* functions: that they satisfy their equations is proved first.           *)
(***************************************************************************)

\* Induction on naturals from all smaller ones, for a set.
LEMMA StrongSetInduction ==
  ASSUME NEW S, \A n \in Nat : (\A m \in 0 .. n - 1 : m \in S) => n \in S
  PROVE  Nat \subseteq S
<1> SUFFICES ASSUME Nat \ S # {} PROVE FALSE
  OBVIOUS
<1>1. PICK x \in Nat \ S : \A y \in Nat \ S : x <= y
  BY LeastNat
<1>2. \A m \in 0 .. x - 1 : m \in S
  BY <1>1
<1> QED BY <1>1, <1>2

\* One step of Digits, with f for the digits of the tenth.
DigitsStep(f, n) == IF n < 10 THEN <<n>> ELSE Append(f[n \div 10], n % 10)

\* There is a function of the digits of the numbers up to any bound.
LEMMA DigitsExist ==
  ASSUME NEW k \in Nat
  PROVE  \E f : f = [n \in 0 .. k |-> DigitsStep(f, n)]
<1> DEFINE S == {j \in Nat : \E f : f = [n \in 0 .. j |-> DigitsStep(f, n)]}
<1>1. 0 \in S
  <2> DEFINE f == [n \in 0 .. 0 |-> <<n>>]
  <2>1. \A n \in 0 .. 0 : DigitsStep(f, n) = <<n>>
    BY DEF DigitsStep
  <2>2. f = [n \in 0 .. 0 |-> DigitsStep(f, n)]
    BY <2>1, Zenon
  <2> QED BY <2>2
<1>2. ASSUME NEW j \in Nat, j \in S PROVE j + 1 \in S
  <2>1. PICK f : f = [n \in 0 .. j |-> DigitsStep(f, n)]
    BY <1>2, Zenon
  <2> DEFINE g == [n \in 0 .. j + 1 |-> IF n <= j THEN f[n] ELSE DigitsStep(f, n)]
  <2>2. ASSUME NEW n \in 0 .. j + 1 PROVE g[n] = DigitsStep(g, n)
    <3>1. n >= 10 => n \div 10 \in 0 .. j
      OBVIOUS
    <3>2. n >= 10 => g[n \div 10] = f[n \div 10]
      BY <3>1
    <3>3. DigitsStep(g, n) = DigitsStep(f, n)
      <4> HIDE DEF g
      <4> QED BY <3>2 DEF DigitsStep
    <3>4. n <= j => f[n] = DigitsStep(f, n)
      <4>1. n <= j => n \in 0 .. j
        OBVIOUS
      <4> QED BY <2>1, <4>1, Zenon
    <3>5. g[n] = IF n <= j THEN f[n] ELSE DigitsStep(f, n)
      BY Zenon
    <3> QED BY <3>3, <3>4, <3>5, Zenon
  <2>3. g = [n \in 0 .. j + 1 |-> g[n]]
    BY Zenon
  <2> HIDE DEF g
  <2>4. g = [n \in 0 .. j + 1 |-> DigitsStep(g, n)]
    BY <2>2, <2>3, Zenon
  <2> QED BY <2>4
<1>3. Nat \subseteq S
  <2> HIDE DEF S
  <2> QED BY <1>1, <1>2, NatSetInduction
<1> QED BY <1>3

\* So Digits satisfies its equation.
LEMMA DigitsDef ==
  ASSUME NEW n \in Naturals64
  PROVE  Digits[n] = DigitsStep(Digits, n)
<1>1. Pow10[MaxDigits] - 1 \in Nat
  BY WidthAssumption, Pow10Assumption
<1>2. \E f : f = [m \in Naturals64 |-> DigitsStep(f, m)]
  BY <1>1, DigitsExist, Zenon DEF Naturals64
<1>3. Digits = [m \in Naturals64 |-> DigitsStep(Digits, m)]
  BY <1>2, Zenon DEF Digits, DigitsStep
<1> QED BY <1>3, Zenon

\* The digits of a number of two digits or more.
LEMMA DigitsOfLonger ==
  ASSUME NEW n \in Naturals64, n >= 10
  PROVE  Digits[n] = Append(Digits[n \div 10], n % 10)
<1>1. ~(n < 10)
  BY DEF Naturals64
<1> QED BY <1>1, DigitsDef, Zenon DEF DigitsStep

\* Numbers below ten have one digit.
LEMMA OneDigit ==
  ASSUME NEW n \in Naturals64, n < 10
  PROVE  NumDigits(n) = 1
<1>1. 1 \in 1 .. MaxDigits /\ Pow10[1] = 10
  BY WidthAssumption, Pow10Assumption
<1>2. HasDigits(n, 1)
  BY <1>1 DEF HasDigits
<1> QED BY <1>1, <1>2, NumDigitsUnique

\* A longer number has one digit more than its tenth.
LEMMA TenthDigits ==
  ASSUME NEW n \in Naturals64, n >= 10
  PROVE  /\ n \div 10 \in Naturals64 /\ n \div 10 < n
         /\ n % 10 \in 0 .. 9
         /\ n = 10 * (n \div 10) + (n % 10)
         /\ NumDigits(n) = NumDigits(n \div 10) + 1
<1> DEFINE d == NumDigits(n)
           q == n \div 10
<1>1. d \in 1 .. MaxDigits /\ HasDigits(n, d)
  BY NumDigitsIs
<1> HIDE DEF d
<1>2. /\ n \in Nat /\ q \in Nat /\ q < n /\ n % 10 \in 0 .. 9
      /\ n = 10 * q + (n % 10)
  BY DEF Naturals64
<1>3. q \in Naturals64
  BY <1>2, WidthAssumption, Pow10Assumption DEF Naturals64
<1>4. Pow10[1] = 10 /\ Pow10[0] = 1
  BY WidthAssumption, Pow10Assumption
<1>5. d # 1
  BY <1>1, <1>2, <1>4 DEF HasDigits
<1>6. /\ d - 1 \in 1 .. MaxDigits /\ d - 2 \in 0 .. MaxDigits
      /\ d \in 1 .. MaxDigits /\ (d - 1) - 1 = d - 2
  BY <1>1, <1>5, WidthAssumption
<1>7. Pow10[d] = 10 * Pow10[d - 1] /\ Pow10[d - 1] = 10 * Pow10[d - 2]
  BY <1>6, Pow10Assumption
<1>8. Pow10[d - 1] \in Nat /\ Pow10[d - 2] \in Nat
  BY <1>6, Pow10Assumption
<1>9. Pow10[d - 1] <= n /\ n < Pow10[d]
  BY <1>1, <1>5 DEF HasDigits
<1>10. q < Pow10[d - 1] /\ Pow10[d - 2] <= q
  BY <1>2, <1>7, <1>8, <1>9
<1>11. HasDigits(q, d - 1)
  BY <1>6, <1>10 DEF HasDigits
<1>12. NumDigits(q) = d - 1
  BY <1>3, <1>6, <1>11, NumDigitsUnique
<1> QED BY <1>2, <1>3, <1>6, <1>12 DEF d

\* The text of a number has as many characters as the number has digits.
LEMMA DigitsText ==
  ASSUME NEW n \in Naturals64
  PROVE  Digits[n] \in Seq(0 .. 9) /\ Len(Digits[n]) = NumDigits(n)
<1> DEFINE S == {m \in Nat : m \in Naturals64 =>
                   Digits[m] \in Seq(0 .. 9) /\ Len(Digits[m]) = NumDigits(m)}
<1>1. ASSUME NEW m \in Nat, \A j \in 0 .. m - 1 : j \in S PROVE m \in S
  <2> SUFFICES ASSUME m \in Naturals64
               PROVE  Digits[m] \in Seq(0 .. 9) /\ Len(Digits[m]) = NumDigits(m)
    OBVIOUS
  <2>1. CASE m < 10
    <3>1. Digits[m] = <<m>>
      BY <2>1, DigitsDef DEF DigitsStep
    <3> QED BY <2>1, <3>1, OneDigit
  <2>2. CASE m >= 10
    <3>1. Digits[m] = Append(Digits[m \div 10], m % 10)
      BY <2>2, DigitsOfLonger
    <3>2. /\ m \div 10 \in Naturals64 /\ m \div 10 < m /\ m % 10 \in 0 .. 9
          /\ NumDigits(m) = NumDigits(m \div 10) + 1
      BY <2>2, TenthDigits
    <3>3. m \div 10 \in 0 .. m - 1
      BY <3>2 DEF Naturals64
    <3>4. Digits[m \div 10] \in Seq(0 .. 9) /\ Len(Digits[m \div 10]) = NumDigits(m \div 10)
      BY <1>1, <3>2, <3>3
    <3> QED BY <3>1, <3>2, <3>4
  <2> QED BY <2>1, <2>2
<1>2. Nat \subseteq S
  <2> HIDE DEF S
  <2> QED BY <1>1, StrongSetInduction
<1> QED BY <1>2 DEF Naturals64

\* Dividing by ten and then by c is dividing by 10 * c.
LEMMA DivisionTwice ==
  ASSUME NEW a \in Nat, NEW c \in Nat \ {0}
  PROVE  (a \div 10) \div c = a \div (10 * c)
<1> DEFINE b == a \div 10
           q == b \div c
           r == b - q * c
           t == a - 10 * b
<1>1. b \in Nat /\ t \in 0 .. 9
  OBVIOUS
<1> HIDE DEF b
<1>2. q \in Nat /\ r \in 0 .. c - 1
  BY <1>1, DivisionBounds
<1>3. a = q * (10 * c) + (10 * r + t) /\ 10 * r + t \in 0 .. (10 * c) - 1
  <2>1. b = q * c + r
    BY <1>1, <1>2
  <2> HIDE DEF q, r
  <2>2. q * (10 * c) = 10 * (q * c)
    BY <1>2
  <2>3. a = 10 * b + t
    BY <1>1
  <2> HIDE DEF t
  <2> QED BY <1>1, <1>2, <2>1, <2>2, <2>3
<1> HIDE DEF q, r, t
<1>4. a \div (10 * c) = q
  BY <1>2, <1>3, DivisionExact
<1> QED BY <1>4 DEF q, b

\* The first k digits of a longer number are those of its tenth.
LEMMA LeadingTenth ==
  ASSUME NEW n \in Naturals64, NEW k \in 1 .. MaxDigits, k < NumDigits(n)
  PROVE  n >= 10 /\ Leading(n, k) = Leading(n \div 10, k)
<1>1. n >= 10
  BY OneDigit, WidthAssumption DEF Naturals64
<1>2. /\ n \div 10 \in Naturals64 /\ NumDigits(n) = NumDigits(n \div 10) + 1
      /\ NumDigits(n) \in 1 .. MaxDigits
  BY <1>1, TenthDigits, NumDigitsIs
<1> DEFINE e == NumDigits(n \div 10)
<1>3. e \in Nat /\ k <= e /\ e + 1 <= MaxDigits /\ MaxDigits \in Nat
  BY <1>2, WidthAssumption, NumDigitsIs
<1>4. Leading(n, k) = n \div Pow10[e + 1 - k]
  BY <1>2, <1>3 DEF Leading
<1> HIDE DEF e
<1>5. CASE k = e
  <2>1. Pow10[e + 1 - k] = 10
    BY <1>3, <1>5, WidthAssumption, Pow10Assumption
  <2> QED BY <1>1, <1>4, <1>5, <2>1 DEF Leading, e
<1>6. CASE k < e
  <2>1. e + 1 - k \in 1 .. MaxDigits /\ (e + 1 - k) - 1 = e - k /\ e - k \in 0 .. MaxDigits
    BY <1>3, <1>6
  <2>2. Pow10[e + 1 - k] = 10 * Pow10[e - k] /\ Pow10[e - k] \in Nat \ {0}
    BY <2>1, Pow10Assumption
  <2>3. (n \div 10) \div Pow10[e - k] = n \div (10 * Pow10[e - k])
    BY <2>2, DivisionTwice DEF Naturals64
  <2>4. Leading(n \div 10, k) = (n \div 10) \div Pow10[e - k]
    BY <1>3, <1>6 DEF Leading, e
  <2> QED BY <1>1, <1>4, <2>2, <2>3, <2>4
<1> QED BY <1>3, <1>5, <1>6

\* The first characters of the text are the text of the leading digits.
LEMMA PrefixIsLeading ==
  ASSUME NEW n \in Naturals64, NEW k \in 1 .. MaxDigits, k <= NumDigits(n)
  PROVE  Leading(n, k) \in Naturals64 /\ SubSeq(Digits[n], 1, k) = Digits[Leading(n, k)]
<1> DEFINE S == {m \in Nat : m \in Naturals64 /\ k <= NumDigits(m) =>
                   /\ Leading(m, k) \in Naturals64
                   /\ SubSeq(Digits[m], 1, k) = Digits[Leading(m, k)]}
<1>1. ASSUME NEW m \in Nat, \A j \in 0 .. m - 1 : j \in S PROVE m \in S
  <2> SUFFICES ASSUME m \in Naturals64, k <= NumDigits(m)
               PROVE  /\ Leading(m, k) \in Naturals64
                      /\ SubSeq(Digits[m], 1, k) = Digits[Leading(m, k)]
    OBVIOUS
  <2>0. NumDigits(m) \in 1 .. MaxDigits
    BY NumDigitsIs
  <2>1. CASE k = NumDigits(m)
    <3>1. Leading(m, k) = m
      BY <2>0, <2>1 DEF Leading
    <3>2. SubSeq(Digits[m], 1, k) = Digits[m]
      BY <2>1, DigitsText
    <3> QED BY <3>1, <3>2
  <2>2. CASE k < NumDigits(m)
    <3>1. m >= 10 /\ Leading(m, k) = Leading(m \div 10, k)
      BY <2>2, LeadingTenth
    <3>2. /\ m \div 10 \in Naturals64 /\ m \div 10 < m /\ m % 10 \in 0 .. 9
          /\ NumDigits(m) = NumDigits(m \div 10) + 1
      BY <3>1, TenthDigits
    <3>3. m \div 10 \in 0 .. m - 1 /\ k <= NumDigits(m \div 10)
      <4>1. NumDigits(m \div 10) \in Nat
        BY <3>2, NumDigitsIs
      <4> QED BY <2>2, <3>2, <4>1 DEF Naturals64
    <3>4. /\ Leading(m \div 10, k) \in Naturals64
          /\ SubSeq(Digits[m \div 10], 1, k) = Digits[Leading(m \div 10, k)]
      BY <1>1, <3>2, <3>3
    <3>5. SubSeq(Digits[m], 1, k) = SubSeq(Digits[m \div 10], 1, k)
      <4> DEFINE s == Digits[m \div 10]
                 x == m % 10
      <4>1. Digits[m] = Append(s, x)
        BY <3>1, DigitsOfLonger
      <4>2. s \in Seq(0 .. 9) /\ k <= Len(s) /\ x \in 0 .. 9
        BY <3>2, <3>3, DigitsText
      <4> HIDE DEF s, x
      <4>3. SubSeq(Append(s, x), 1, k) = SubSeq(s, 1, k)
        BY <4>2
      <4> QED BY <4>1, <4>3 DEF s
    <3> QED BY <3>1, <3>4, <3>5
  <2> QED BY <2>0, <2>1, <2>2
<1>2. Nat \subseteq S
  <2> HIDE DEF S
  <2> QED BY <1>1, StrongSetInduction
<1> QED BY <1>2 DEF Naturals64

-----------------------------------------------------------------------------
\* One step of reading s, with f for what came before.
ReadStep(s, f, i) == IF i = 0 THEN 0 ELSE 10 * f[i - 1] + s[i]
Reading(s, k) == CHOOSE f : f = [i \in 0 .. k |-> ReadStep(s, f, i)]

\* Reading is defined, for every number of characters.
LEMMA ReadingDef ==
  ASSUME NEW s, NEW k \in Nat
  PROVE  /\ Reading(s, k) = [i \in 0 .. k |-> Reading(s, k)[i]]
         /\ \A i \in 0 .. k : Reading(s, k)[i] = ReadStep(s, Reading(s, k), i)
<1> DEFINE S == {j \in Nat : \E f : f = [i \in 0 .. j |-> ReadStep(s, f, i)]}
<1>1. 0 \in S
  <2> DEFINE f == [i \in 0 .. 0 |-> 0]
  <2>1. \A i \in 0 .. 0 : ReadStep(s, f, i) = 0
    BY DEF ReadStep
  <2>2. f = [i \in 0 .. 0 |-> ReadStep(s, f, i)]
    BY <2>1, Zenon
  <2> QED BY <2>2
<1>2. ASSUME NEW j \in Nat, j \in S PROVE j + 1 \in S
  <2>1. PICK f : f = [i \in 0 .. j |-> ReadStep(s, f, i)]
    BY <1>2, Zenon
  <2> DEFINE g == [i \in 0 .. j + 1 |-> IF i <= j THEN f[i] ELSE ReadStep(s, f, i)]
  <2>2. ASSUME NEW i \in 0 .. j + 1 PROVE g[i] = ReadStep(s, g, i)
    <3>1. i # 0 => i - 1 \in 0 .. j
      OBVIOUS
    <3>2. i # 0 => g[i - 1] = f[i - 1]
      BY <3>1
    <3>3. ReadStep(s, g, i) = ReadStep(s, f, i)
      <4> HIDE DEF g
      <4> QED BY <3>2, Zenon DEF ReadStep
    <3>4. i <= j => f[i] = ReadStep(s, f, i)
      <4>1. i <= j => i \in 0 .. j
        OBVIOUS
      <4> QED BY <2>1, <4>1, Zenon
    <3>5. g[i] = IF i <= j THEN f[i] ELSE ReadStep(s, f, i)
      BY Zenon
    <3> QED BY <3>3, <3>4, <3>5, Zenon
  <2>3. g = [i \in 0 .. j + 1 |-> g[i]]
    BY Zenon
  <2> HIDE DEF g
  <2>4. g = [i \in 0 .. j + 1 |-> ReadStep(s, g, i)]
    BY <2>2, <2>3, Zenon
  <2> QED BY <2>4
<1>3. Nat \subseteq S
  <2> HIDE DEF S
  <2> QED BY <1>1, <1>2, NatSetInduction
<1>4. \E f : f = [i \in 0 .. k |-> ReadStep(s, f, i)]
  BY <1>3
<1>5. Reading(s, k) = [i \in 0 .. k |-> ReadStep(s, Reading(s, k), i)]
  BY <1>4, Zenon DEF Reading
<1> QED BY <1>5, Zenon

\* Reading s and reading the characters after s start in the same way.
LEMMA ReadingAgrees ==
  ASSUME NEW s, NEW t, NEW k \in Nat, \A i \in 1 .. k : t[i] = s[i]
  PROVE  \A i \in 0 .. k : Reading(t, k + 1)[i] = Reading(s, k)[i]
<1> DEFINE S == {j \in Nat : j <= k => Reading(t, k + 1)[j] = Reading(s, k)[j]}
<1>1. 0 \in S
  BY ReadingDef DEF ReadStep
<1>2. ASSUME NEW j \in Nat, j \in S PROVE j + 1 \in S
  <2> SUFFICES ASSUME j + 1 <= k PROVE Reading(t, k + 1)[j + 1] = Reading(s, k)[j + 1]
    OBVIOUS
  <2>1. /\ j + 1 \in 0 .. k /\ j + 1 \in 0 .. k + 1 /\ j + 1 \in 1 .. k /\ j <= k
        /\ (j + 1) - 1 = j /\ j + 1 # 0 /\ k + 1 \in Nat
    OBVIOUS
  <2>2. Reading(t, k + 1)[j + 1] = ReadStep(t, Reading(t, k + 1), j + 1)
    BY <2>1, ReadingDef
  <2>3. Reading(s, k)[j + 1] = ReadStep(s, Reading(s, k), j + 1)
    BY <2>1, ReadingDef
  <2>4. Reading(t, k + 1)[j] = Reading(s, k)[j]
    BY <1>2, <2>1
  <2>5. t[j + 1] = s[j + 1]
    BY <2>1
  <2> QED BY <2>1, <2>2, <2>3, <2>4, <2>5 DEF ReadStep
<1>3. Nat \subseteq S
  <2> HIDE DEF S
  <2> QED BY <1>1, <1>2, NatSetInduction
<1> QED BY <1>3

\* Spelled reads to the end.
LEMMA SpelledIs ==
  ASSUME NEW s
  PROVE  Spelled(s) = Reading(s, Len(s))[Len(s)]
BY Zenon DEF Spelled, Reading, ReadStep

\* A further digit multiplies what was spelled by ten and is added.
LEMMA SpelledAppend ==
  ASSUME NEW s \in Seq(0 .. 9), NEW x \in 0 .. 9
  PROVE  Spelled(Append(s, x)) = 10 * Spelled(s) + x
<1> DEFINE t == Append(s, x)
           k == Len(s)
<1>1. /\ k \in Nat /\ Len(t) = k + 1 /\ t[k + 1] = x
      /\ \A i \in 1 .. k : t[i] = s[i]
  OBVIOUS
<1> HIDE DEF t
<1>2. Spelled(t) = Reading(t, k + 1)[k + 1] /\ Spelled(s) = Reading(s, k)[k]
  BY <1>1, SpelledIs
<1> HIDE DEF k
<1>3. Reading(t, k + 1)[k + 1] = 10 * Reading(t, k + 1)[k] + x
  <2>1. k + 1 \in Nat /\ k + 1 \in 0 .. k + 1 /\ k + 1 # 0 /\ (k + 1) - 1 = k
    BY <1>1
  <2>2. Reading(t, k + 1)[k + 1] = ReadStep(t, Reading(t, k + 1), k + 1)
    BY <2>1, ReadingDef
  <2> QED BY <1>1, <2>1, <2>2 DEF ReadStep
<1>4. Reading(t, k + 1)[k] = Reading(s, k)[k]
  <2>1. k \in 0 .. k
    BY <1>1
  <2>2. \A i \in 0 .. k : Reading(t, k + 1)[i] = Reading(s, k)[i]
    BY <1>1, ReadingAgrees
  <2> QED BY <2>1, <2>2, Zenon
<1> QED BY <1>2, <1>3, <1>4 DEF t

\* One digit spells itself.
LEMMA SpelledOne ==
  ASSUME NEW x \in 0 .. 9
  PROVE  Spelled(<<x>>) = x
<1> DEFINE s == << >>
<1>1. s \in Seq(0 .. 9) /\ Append(s, x) = <<x>> /\ Len(s) = 0
  OBVIOUS
<1> HIDE DEF s
<1>2. Spelled(s) = Reading(s, 0)[0]
  BY <1>1, SpelledIs
<1>3. Reading(s, 0)[0] = 0
  BY ReadingDef DEF ReadStep
<1>4. Spelled(<<x>>) = 10 * Spelled(s) + x
  BY <1>1, SpelledAppend
<1> QED BY <1>2, <1>3, <1>4

\* The text of a number spells it.
LEMMA SpelledDigits ==
  ASSUME NEW n \in Naturals64
  PROVE  Spelled(Digits[n]) = n
<1> DEFINE S == {m \in Nat : m \in Naturals64 => Spelled(Digits[m]) = m}
<1>1. ASSUME NEW m \in Nat, \A j \in 0 .. m - 1 : j \in S PROVE m \in S
  <2> SUFFICES ASSUME m \in Naturals64 PROVE Spelled(Digits[m]) = m
    OBVIOUS
  <2>1. CASE m < 10
    <3>1. Digits[m] = <<m>>
      BY <2>1, DigitsDef DEF DigitsStep
    <3> QED BY <2>1, <3>1, SpelledOne
  <2>2. CASE m >= 10
    <3>1. Digits[m] = Append(Digits[m \div 10], m % 10)
      BY <2>2, DigitsOfLonger
    <3>2. /\ m \div 10 \in Naturals64 /\ m \div 10 < m /\ m % 10 \in 0 .. 9
          /\ m = 10 * (m \div 10) + (m % 10)
      BY <2>2, TenthDigits
    <3>3. m \div 10 \in 0 .. m - 1
      BY <3>2 DEF Naturals64
    <3>4. Spelled(Digits[m \div 10]) = m \div 10
      BY <1>1, <3>2, <3>3
    <3>5. Spelled(Digits[m]) = 10 * Spelled(Digits[m \div 10]) + (m % 10)
      BY <3>1, <3>2, DigitsText, SpelledAppend
    <3> QED BY <3>2, <3>4, <3>5
  <2> QED BY <2>1, <2>2
<1>2. Nat \subseteq S
  <2> HIDE DEF S
  <2> QED BY <1>1, StrongSetInduction
<1> QED BY <1>2 DEF Naturals64

\* The first w characters of the digits of n are digits and spell Leading(n, w).
LEMMA CutSpells ==
  ASSUME NEW n \in Naturals64, NEW w \in 1 .. MaxDigits
  PROVE  LET d == Digits[n]
             text == IF Len(d) > w THEN SubSeq(d, 1, w) ELSE d
         IN  text \in Seq(0 .. 9) /\ Len(text) > 0 /\ Spelled(text) = Leading(n, w)
<1> DEFINE d == Digits[n]
           text == IF Len(d) > w THEN SubSeq(d, 1, w) ELSE d
<1>1. d \in Seq(0 .. 9) /\ Len(d) = NumDigits(n) /\ NumDigits(n) \in 1 .. MaxDigits
  BY DigitsText, NumDigitsIs
<1>2. CASE Len(d) > w
  <2>1. /\ Leading(n, w) \in Naturals64
        /\ SubSeq(d, 1, w) = Digits[Leading(n, w)]
    BY <1>1, <1>2, PrefixIsLeading
  <2>2. text = Digits[Leading(n, w)]
    BY <1>2, <2>1
  <2>3. /\ text \in Seq(0 .. 9) /\ Len(text) > 0
    BY <2>1, <2>2, DigitsText, NumDigitsIs
  <2> QED BY <2>1, <2>2, <2>3, SpelledDigits
<1>3. CASE ~(Len(d) > w)
  <2>1. Leading(n, w) = n
    BY <1>1, <1>3 DEF Leading
  <2> QED BY <1>1, <1>3, <2>1, SpelledDigits
<1> QED BY <1>2, <1>3

\* What the code makes of the text of a timestamp is what TruncTimestamp says.
LEMMA CutAndParse ==
  ASSUME NEW t \in Int64
  PROVE  LET text == FirstChars(FormatInt(t))
         IN  ~ParseFails(text) /\ ParseInt(text) = TruncTimestamp(t)
<1> DEFINE text == FirstChars(FormatInt(t))
<1>0. Width \in 1 .. MaxDigits /\ Width - 1 \in 1 .. MaxDigits /\ Pow10[MaxDigits] \in Nat
  BY WidthAssumption, Pow10Assumption
<1>1. CASE t >= 0
  <2>1. t \in Naturals64
    BY <1>0, <1>1 DEF Int64, Naturals64
  <2>2. text = IF Len(Digits[t]) > Width THEN SubSeq(Digits[t], 1, Width) ELSE Digits[t]
    BY <1>1, <2>1 DEF FirstChars, FormatInt, Naturals64
  <2>3. text \in Seq(0 .. 9) /\ Len(text) > 0 /\ Spelled(text) = Leading(t, Width)
    BY <1>0, <2>1, <2>2, CutSpells
  <2> HIDE DEF text
  <2>4. Head(text) \in 0 .. 9 /\ text[1] = Head(text) /\ text # << >>
    BY <2>3
  <2>5. text # <<Minus>> /\ Head(text) # Minus
    BY <2>4 DEF Minus
  <2> QED BY <1>1, <2>3, <2>4, <2>5 DEF text, ParseFails, ParseInt, TruncTimestamp
<1>2. CASE t < 0
  <2> DEFINE n == -t
             d == Digits[n]
             rest == IF Len(d) > Width - 1 THEN SubSeq(d, 1, Width - 1) ELSE d
  <2>1. n \in Naturals64
    BY <1>0, <1>2 DEF Int64, Naturals64
  <2>2. rest \in Seq(0 .. 9) /\ Len(rest) > 0 /\ Spelled(rest) = Leading(n, Width - 1)
    BY <1>0, <2>1, CutSpells
  <2>3. d \in Seq(0 .. 9)
    BY <2>1, DigitsText
  <2>4. text = FirstChars(<<Minus>> \o d)
    BY <1>2 DEF FormatInt, Int64
  <2> HIDE DEF d, text, n
  <2>5. text = <<Minus>> \o rest
    <3>1. Len(<<Minus>> \o d) = Len(d) + 1 /\ Len(d) \in Nat
      BY <2>3 DEF Minus
    <3>2. CASE Len(d) > Width - 1
      <4>1. SubSeq(<<Minus>> \o d, 1, Width) = <<Minus>> \o SubSeq(d, 1, Width - 1)
        BY <1>0, <2>3, <3>2 DEF Minus
      <4> QED BY <1>0, <2>4, <3>1, <3>2, <4>1 DEF FirstChars
    <3>3. CASE ~(Len(d) > Width - 1)
      BY <1>0, <2>4, <3>1, <3>3 DEF FirstChars
    <3> QED BY <3>2, <3>3
  <2> HIDE DEF rest
  <2>6. Head(text) = Minus /\ Tail(text) = rest /\ Len(text) > 1
    BY <2>2, <2>5 DEF Minus
  <2>7. ~ParseFails(text)
    BY <2>6 DEF ParseFails
  <2>8. ParseInt(text) = -Leading(n, Width - 1)
    BY <2>2, <2>6, Zenon DEF ParseInt
  <2>9. TruncTimestamp(t) = -Leading(n, Width - 1)
    <3>1. ~(t >= 0)
      BY <1>2 DEF Int64
    <3> QED BY <3>1, Zenon DEF TruncTimestamp, n
  <2> QED BY <2>7, <2>8, <2>9, Zenon DEF text
<1> QED BY <1>1, <1>2 DEF Int64

-----------------------------------------------------------------------------
\* The representation at every stage, as a function of the event timestamp.
IInv ==
  /\ TypeOK
  /\ stage = "event" => val = ts
  /\ stage = "seconds" => val = TruncTimestamp(ts)
  /\ stage \in {"wire", "stored"} => CheckTime(UnixNano(TruncTimestamp(ts)))
  /\ stage = "wire" => val = WireTime(TruncTimestamp(ts), precision)
  /\ stage = "stored" => val = RoundTrip(TruncTimestamp(ts), precision)
  /\ stage # "rejected"

\* The initial states satisfy the invariant.
LEMMA InitIInv == Init => IInv
BY StampsAssumption DEF Init, IInv, TypeOK, Int64

\* Every conversion preserves it.
LEMMA NextIInv == IInv /\ [Next]_vars => IInv'
<1> SUFFICES ASSUME IInv, [Next]_vars PROVE IInv'
  OBVIOUS
<1> USE DEF IInv, TypeOK
<1>0. TruncTimestamp(ts) \in Int
  BY TruncTimestampType
<1>1. CASE ToSeconds
  BY <1>0, <1>1 DEF ToSeconds
<1>2. CASE Refuse
  BY <1>2 DEF Refuse
<1>3. CASE ToWire
  <2>1. WireTime(TruncTimestamp(ts), precision) \in Int
    BY <1>0, RoundTripBounds
  <2> QED BY <1>3, <2>1 DEF ToWire
<1>4. CASE ToStore
  <2>1. val' = RoundTrip(TruncTimestamp(ts), precision)
    BY <1>4 DEF ToStore, RoundTrip
  <2>2. CheckTime(UnixNano(TruncTimestamp(ts)))
    BY <1>4 DEF ToStore
  <2>3. CheckTime(val') /\ val' \in Int
    BY <1>0, <2>1, <2>2, RoundTripInRange, RoundTripBounds
  <2> QED BY <1>4, <2>1, <2>2, <2>3 DEF ToStore
<1>5. CASE UNCHANGED vars
  BY <1>5 DEF vars
<1> QED BY <1>1, <1>2, <1>3, <1>4, <1>5 DEF Next

\* IInv is an invariant of the timestamp's path.
THEOREM InductiveInvariant == Spec => []IInv
BY InitIInv, NextIInv, PTL DEF Spec

\* The values of the path are typed.
THEOREM TypeCorrect == Spec => []TypeOK
<1>1. IInv => TypeOK  BY DEF IInv
<1> QED BY <1>1, InductiveInvariant, PTL

\* The server never rejects a time the client accepted.
THEOREM AcceptedIsStorableHolds == Spec => []AcceptedIsStorable
<1>1. IInv => AcceptedIsStorable  BY DEF IInv, AcceptedIsStorable
<1> QED BY <1>1, InductiveInvariant, PTL

\* The stored time is the handler's second, moved toward the epoch by less
\* than a unit of the precision, and exact when the unit divides a second.
THEOREM StoredAtSecondHolds == Spec => []StoredAtSecond
<1>1. IInv => StoredAtSecond
  <2> SUFFICES ASSUME IInv, stage = "stored" PROVE StoredAtSecond
    BY DEF StoredAtSecond
  <2> DEFINE t == TruncTimestamp(ts)
             unit == GetPrecisionMultiplier(precision)
  <2>1. t \in Int /\ val = RoundTrip(t, precision)
    BY TruncTimestampType DEF IInv, TypeOK
  <2> HIDE DEF t
  <2>2. Second % unit = 0 => val = UnixNano(t)
    BY <2>1, RoundTripExact
  <2>3. /\ UnixNano(t) >= 0 => UnixNano(t) - unit < val /\ val <= UnixNano(t)
        /\ UnixNano(t) <= 0 => UnixNano(t) <= val /\ val < UnixNano(t) + unit
    BY <2>1, RoundTripBounds
  <2> QED BY <2>2, <2>3 DEF StoredAtSecond, t
<1> QED BY <1>1, InductiveInvariant, PTL

\* Formatting a timestamp, keeping the first characters and parsing them is the
\* division of TruncTimestamp, for any width, and the parse never fails.
THEOREM CutIsDivisionHolds == Spec => []CutIsDivision
<1>1. IInv => CutIsDivision
  <2> SUFFICES ASSUME IInv, stage = "seconds" PROVE CutIsDivision
    BY DEF CutIsDivision
  <2>1. ts \in Int64 /\ val = TruncTimestamp(ts)
    BY DEF IInv, TypeOK
  <2> QED BY <2>1, CutAndParse, Zenon DEF CutIsDivision
<1> QED BY <1>1, InductiveInvariant, PTL

\* A timestamp in a finer unit is read as the second it lies in.
THEOREM FinerUnitsFoldHolds == Spec => []FinerUnitsFold
<1>1. IInv => FinerUnitsFold
  <2> SUFFICES ASSUME IInv, stage = "seconds",
                      NEW k \in 0 .. MaxDigits - Width,
                      Pow10[Width - 1 + k] <= ts, ts < Pow10[Width + k]
               PROVE  val = ts \div Pow10[k]
    BY DEF FinerUnitsFold
  <2>1. /\ k \in 0 .. MaxDigits /\ Width \in 1 .. MaxDigits /\ Width + k <= MaxDigits
        /\ Width - 1 + k \in 0 .. MaxDigits /\ Width - 1 + k = (Width + k) - 1
    BY WidthAssumption
  <2>2. Pow10[Width - 1 + k] \in Nat \ {0} /\ Pow10[MaxDigits] \in Nat
    BY <2>1, WidthAssumption, Pow10Assumption
  <2>3. ts >= 0 /\ ts \in Naturals64
    BY <2>2 DEF IInv, TypeOK, Int64, Naturals64
  <2>4. HasDigits(ts, Width + k)
    BY <2>1 DEF HasDigits
  <2>5. Leading(ts, Width) = ts \div Pow10[k]
    BY <2>1, <2>3, <2>4, LeadingFolds
  <2> QED BY <2>3, <2>5 DEF IInv, TruncTimestamp
<1> QED BY <1>1, InductiveInvariant, PTL
=============================================================================
