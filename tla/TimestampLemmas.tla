-------------------------- MODULE TimestampLemmas ---------------------------
(***************************************************************************)
(* Facts about the operators of Timestamps: powers of ten, the number of   *)
(* digits, the cut of a timestamp, and the division and multiplication by  *)
(* the precision.  Induction over the exponents goes through the least     *)
(* element of a set of naturals.                                           *)
(***************************************************************************)
EXTENDS Timestamps, WellFoundedInduction, TLAPS

\* Every non-empty set of naturals has a least element.
LEMMA LeastNat ==
  ASSUME NEW T, T \subseteq Nat, T # {}
  PROVE  \E x \in T : \A y \in T : x <= y
<1> DEFINE R == OpToRel(<, Nat)
<1>1. IsWellFoundedOn(R, Nat)
  BY NatLessThanWellFounded, Zenon
<1>2. \E x \in T : \A y \in T : ~(<<y, x>> \in R)
  <2> HIDE DEF R
  <2> QED BY <1>1, WFMin, Zenon
<1>3. PICK x \in T : \A y \in T : ~(<<y, x>> \in R)
  BY <1>2, Zenon
<1>4. ASSUME NEW y \in T PROVE x <= y
  <2>1. ~(<<y, x>> \in R)  BY <1>3, Zenon
  <2>2. <<y, x>> \in Nat \X Nat  OBVIOUS
  <2>3. ~(y < x)  BY <2>1, <2>2, Zenon DEF OpToRel
  <2> QED BY <2>3
<1> QED BY <1>4

\* Induction on naturals, for a set rather than a predicate.
LEMMA NatSetInduction ==
  ASSUME NEW S, 0 \in S, \A n \in Nat : n \in S => n + 1 \in S
  PROVE  Nat \subseteq S
<1> SUFFICES ASSUME Nat \ S # {} PROVE FALSE
  OBVIOUS
<1>1. PICK x \in Nat \ S : \A y \in Nat \ S : x <= y
  BY LeastNat
<1>2. x # 0
  OBVIOUS
<1>3. x - 1 \in Nat /\ x - 1 \in S
  BY <1>1, <1>2
<1> QED BY <1>3

-----------------------------------------------------------------------------
\* Powers of ten grow with the exponent.
LEMMA Pow10Monotone ==
  ASSUME NEW c \in 0 .. MaxDigits, NEW d \in 0 .. MaxDigits, c < d
  PROVE  Pow10[c] < Pow10[d]
<1> DEFINE S == {n \in Nat : n <= MaxDigits =>
                   \A m \in 0 .. MaxDigits : m < n => Pow10[m] < Pow10[n]}
<1>1. 0 \in S
  OBVIOUS
<1>2. ASSUME NEW n \in Nat, n \in S PROVE n + 1 \in S
  <2>1. SUFFICES ASSUME n + 1 <= MaxDigits, NEW m \in 0 .. MaxDigits, m < n + 1
                 PROVE  Pow10[m] < Pow10[n + 1]
    OBVIOUS
  <2>2. n \in 0 .. MaxDigits /\ n + 1 \in 1 .. MaxDigits /\ (n + 1) - 1 = n
    BY <2>1, WidthAssumption
  <2>3. Pow10[n + 1] = 10 * Pow10[n] /\ Pow10[n] \in Nat \ {0}
    BY <2>2, Pow10Assumption
  <2>4. m = n \/ Pow10[m] < Pow10[n]
    BY <1>2, <2>1, <2>2
  <2>5. Pow10[m] \in Nat
    BY <2>1, Pow10Assumption
  <2> QED BY <2>3, <2>4, <2>5
<1>3. Nat \subseteq S
  <2> HIDE DEF S
  <2> QED BY <1>1, <1>2, NatSetInduction
<1>4. d \in S
  BY <1>3
<1> QED BY <1>4

\* 10^(c+d) = 10^c * 10^d.
LEMMA Pow10Sum ==
  ASSUME NEW c \in 0 .. MaxDigits, NEW d \in 0 .. MaxDigits, c + d <= MaxDigits
  PROVE  Pow10[c + d] = Pow10[c] * Pow10[d]
<1> DEFINE S == {n \in Nat : c + n <= MaxDigits => Pow10[c + n] = Pow10[c] * Pow10[n]}
<1>0. Pow10[c] \in Nat
  BY Pow10Assumption
<1>1. 0 \in S
  BY <1>0, Pow10Assumption
<1>2. ASSUME NEW n \in Nat, n \in S PROVE n + 1 \in S
  <2>1. SUFFICES ASSUME c + (n + 1) <= MaxDigits
                 PROVE  Pow10[c + (n + 1)] = Pow10[c] * Pow10[n + 1]
    OBVIOUS
  <2>2. /\ n + 1 \in 1 .. MaxDigits /\ (n + 1) - 1 = n
        /\ c + n + 1 \in 1 .. MaxDigits /\ (c + n + 1) - 1 = c + n
        /\ c + (n + 1) = c + n + 1
        /\ n \in 0 .. MaxDigits
    BY <2>1, WidthAssumption
  <2>3. Pow10[n + 1] = 10 * Pow10[n] /\ Pow10[c + n + 1] = 10 * Pow10[c + n]
    BY <2>2, Pow10Assumption
  <2>4. Pow10[c + n] = Pow10[c] * Pow10[n]
    BY <1>2, <2>1, <2>2, WidthAssumption
  <2>5. Pow10[n] \in Nat
    BY <2>2, Pow10Assumption
  <2>6. 10 * (Pow10[c] * Pow10[n]) = Pow10[c] * (10 * Pow10[n])
    BY <1>0, <2>5
  <2> QED BY <2>2, <2>3, <2>4, <2>6
<1>3. Nat \subseteq S
  <2> HIDE DEF S
  <2> QED BY <1>1, <1>2, NatSetInduction
<1>4. d \in S
  BY <1>3
<1> QED BY <1>4

-----------------------------------------------------------------------------
\* d is the number of digits of n.
HasDigits(n, d) == n < Pow10[d] /\ (d = 1 \/ Pow10[d - 1] <= n)

\* A natural of at most MaxDigits digits has a number of digits.
LEMMA NumDigitsIs ==
  ASSUME NEW n \in Naturals64
  PROVE  NumDigits(n) \in 1 .. MaxDigits /\ HasDigits(n, NumDigits(n))
<1> DEFINE T == {d \in 1 .. MaxDigits : n < Pow10[d]}
<1>0. /\ MaxDigits \in 1 .. MaxDigits /\ 1 .. MaxDigits \subseteq Nat
      /\ Pow10[MaxDigits] \in Nat
  BY WidthAssumption, Pow10Assumption
<1>1. MaxDigits \in T /\ T \subseteq Nat
  BY <1>0 DEF Naturals64
<1>2. PICK d \in T : \A e \in T : d <= e
  <2> HIDE DEF T
  <2> QED BY <1>1, LeastNat
<1>3. d = 1 \/ Pow10[d - 1] <= n
  <2>1. SUFFICES ASSUME d # 1 PROVE Pow10[d - 1] <= n
    OBVIOUS
  <2>2. d - 1 \in 1 .. MaxDigits /\ d - 1 < d
    BY <2>1, WidthAssumption
  <2>3. d - 1 \notin T
    BY <1>2, <2>2
  <2>4. Pow10[d - 1] \in Nat
    BY <2>2, Pow10Assumption
  <2> QED BY <2>2, <2>3, <2>4 DEF Naturals64
<1>4. \E e \in 1 .. MaxDigits : n < Pow10[e] /\ (e = 1 \/ Pow10[e - 1] <= n)
  BY <1>3
<1> QED BY <1>4 DEF NumDigits, HasDigits

\* It has only one.
LEMMA NumDigitsUnique ==
  ASSUME NEW n \in Naturals64, NEW d \in 1 .. MaxDigits, HasDigits(n, d)
  PROVE  NumDigits(n) = d
<1> DEFINE e == NumDigits(n)
<1>1. e \in 1 .. MaxDigits /\ HasDigits(n, e)
  BY NumDigitsIs
<1> HIDE DEF e
<1>2. n \in Nat /\ d - 1 \in 0 .. MaxDigits /\ e - 1 \in 0 .. MaxDigits
  BY <1>1, WidthAssumption DEF Naturals64
<1>3. /\ Pow10[d] \in Nat /\ Pow10[e] \in Nat
      /\ Pow10[d - 1] \in Nat /\ Pow10[e - 1] \in Nat
  BY SMTT(30), <1>1, <1>2, Pow10Assumption
<1>4. ~(e < d)
  <2>1. SUFFICES ASSUME e < d PROVE FALSE
    OBVIOUS
  <2>2. Pow10[d - 1] <= n /\ n < Pow10[e]
    BY <1>1, <2>1 DEF HasDigits
  <2>3. e = d - 1 \/ Pow10[e] < Pow10[d - 1]
    BY <1>1, <1>2, <2>1, Pow10Monotone
  <2> QED BY <1>2, <1>3, <2>2, <2>3
<1>5. ~(d < e)
  <2>1. SUFFICES ASSUME d < e PROVE FALSE
    OBVIOUS
  <2>2. Pow10[e - 1] <= n /\ n < Pow10[d]
    BY <1>1, <2>1 DEF HasDigits
  <2>3. d = e - 1 \/ Pow10[d] < Pow10[e - 1]
    BY <1>1, <1>2, <2>1, Pow10Monotone
  <2> QED BY <1>2, <1>3, <2>2, <2>3
<1> QED BY <1>1, <1>4, <1>5 DEF e

-----------------------------------------------------------------------------
\* Euclidean division by a positive number.
LEMMA DivisionBounds ==
  ASSUME NEW a \in Nat, NEW b \in Nat \ {0}
  PROVE  /\ a \div b \in Nat
         /\ (a \div b) * b <= a
         /\ a < (a \div b) * b + b
OBVIOUS

\* Division undoes multiplication.
LEMMA DivisionExact ==
  ASSUME NEW q \in Nat, NEW b \in Nat \ {0}, NEW r \in 0 .. b - 1
  PROVE  (q * b + r) \div b = q
OBVIOUS

\* Cutting a number of w+k digits to its first w divides it by 10^k.
LEMMA LeadingFolds ==
  ASSUME NEW w \in 1 .. MaxDigits, NEW k \in 0 .. MaxDigits, w + k <= MaxDigits,
         NEW n \in Naturals64, HasDigits(n, w + k)
  PROVE  Leading(n, w) = n \div Pow10[k]
<1>1. NumDigits(n) = w + k
  BY NumDigitsUnique, WidthAssumption
<1>2. CASE k = 0
  BY <1>1, <1>2, Pow10Assumption DEF Leading, Naturals64
<1>3. CASE k > 0
  BY <1>1, <1>3 DEF Leading
<1> QED BY <1>2, <1>3

\* A cut number is a natural.
LEMMA LeadingType ==
  ASSUME NEW w \in 1 .. MaxDigits, NEW n \in Naturals64
  PROVE  Leading(n, w) \in Nat
<1>1. NumDigits(n) \in 1 .. MaxDigits
  BY NumDigitsIs
<1>2. CASE NumDigits(n) <= w
  BY <1>2 DEF Leading, Naturals64
<1>3. CASE ~(NumDigits(n) <= w)
  <2>1. NumDigits(n) - w \in 0 .. MaxDigits
    BY <1>1, <1>3, WidthAssumption
  <2>2. Pow10[NumDigits(n) - w] \in Nat \ {0}
    BY <2>1, Pow10Assumption
  <2> QED BY <1>3, <2>2, DivisionBounds DEF Leading, Naturals64
<1> QED BY <1>2, <1>3

\* The handler's seconds are an integer.
LEMMA TruncTimestampType ==
  ASSUME NEW ts \in Int64
  PROVE  TruncTimestamp(ts) \in Int
<1>0. Pow10[MaxDigits] \in Nat
  BY WidthAssumption, Pow10Assumption
<1>1. CASE ts >= 0
  <2>1. ts \in Naturals64 /\ Width \in 1 .. MaxDigits
    BY <1>0, <1>1, WidthAssumption DEF Int64, Naturals64
  <2> QED BY <1>1, <2>1, LeadingType DEF TruncTimestamp
<1>2. CASE ~(ts >= 0)
  <2>1. -ts \in Naturals64 /\ Width - 1 \in 1 .. MaxDigits
    BY <1>0, <1>2, WidthAssumption DEF Int64, Naturals64
  <2>2. Leading(-ts, Width - 1) \in Nat
    BY <2>1, LeadingType
  <2> QED BY <1>2, <2>2 DEF TruncTimestamp
<1> QED BY <1>1, <1>2

-----------------------------------------------------------------------------
\* Every precision stands for a positive number of nanoseconds.
LEMMA MultiplierType ==
  ASSUME NEW p
  PROVE  GetPrecisionMultiplier(p) \in Nat \ {0}
BY UnitAssumption DEF GetPrecisionMultiplier

\* Go's division moves a number toward zero by less than the divisor.
LEMMA QuoBounds ==
  ASSUME NEW a \in Int, NEW b \in Nat \ {0}
  PROVE  /\ Quo(a, b) \in Int
         /\ a >= 0 => a - b < Quo(a, b) * b /\ Quo(a, b) * b <= a
         /\ a <= 0 => a <= Quo(a, b) * b /\ Quo(a, b) * b < a + b
<1>1. CASE a >= 0
  <2>1. /\ a \div b \in Nat
        /\ (a \div b) * b <= a
        /\ a < (a \div b) * b + b
    BY <1>1, DivisionBounds
  <2>2. Quo(a, b) = a \div b
    BY <1>1 DEF Quo
  <2>3. (a \div b) * b >= 0
    BY <2>1
  <2> QED BY <2>1, <2>2, <2>3, <1>1
<1>2. CASE a < 0
  <2> DEFINE q == (-a) \div b
  <2>1. /\ q \in Nat
        /\ q * b <= -a
        /\ -a < q * b + b
    BY <1>2, DivisionBounds
  <2>2. Quo(a, b) = -q
    BY <1>2 DEF Quo
  <2> HIDE DEF q
  <2>3. (-q) * b = -(q * b) /\ q * b \in Nat
    BY <2>1
  <2> QED BY <2>1, <2>2, <2>3, <1>2
<1> QED BY <1>1, <1>2

\* A multiple of the divisor is not moved.
LEMMA QuoExact ==
  ASSUME NEW q \in Int, NEW b \in Nat \ {0}
  PROVE  Quo(q * b, b) = q
<1>1. CASE q >= 0
  <2>1. q * b >= 0 /\ q \in Nat
    BY <1>1
  <2>2. (q * b + 0) \div b = q
    BY <2>1, DivisionExact
  <2> QED BY <2>1, <2>2 DEF Quo
<1>2. CASE q < 0
  <2>1. -q \in Nat /\ -(q * b) = (-q) * b /\ ~(q * b >= 0)
    BY <1>2
  <2>2. ((-q) * b + 0) \div b = -q
    BY <2>1, DivisionExact
  <2>3. (-(q * b)) \div b = -q
    BY <2>1, <2>2
  <2> QED BY <2>1, <2>3 DEF Quo
<1> QED BY <1>1, <1>2

\* What the server makes of the integer the client wrote for second t.
RoundTrip(t, p) == SafeCalcTime(WireTime(t, p), p)

\* The round trip moves a second toward the epoch by less than one unit of
\* the precision.
LEMMA RoundTripBounds ==
  ASSUME NEW t \in Int, NEW p
  PROVE  /\ RoundTrip(t, p) \in Int
         /\ WireTime(t, p) \in Int
         /\ UnixNano(t) >= 0 =>
              /\ UnixNano(t) - GetPrecisionMultiplier(p) < RoundTrip(t, p)
              /\ RoundTrip(t, p) <= UnixNano(t)
         /\ UnixNano(t) <= 0 =>
              /\ UnixNano(t) <= RoundTrip(t, p)
              /\ RoundTrip(t, p) < UnixNano(t) + GetPrecisionMultiplier(p)
<1> DEFINE a == UnixNano(t)
           b == GetPrecisionMultiplier(p)
<1>1. a \in Int /\ b \in Nat \ {0}
  BY UnitAssumption, MultiplierType DEF UnixNano
<1>2. RoundTrip(t, p) = Quo(a, b) * b /\ WireTime(t, p) = Quo(a, b)
  BY DEF RoundTrip, SafeCalcTime, WireTime
<1> HIDE DEF a, b
<1>3. /\ Quo(a, b) \in Int
      /\ a >= 0 => a - b < Quo(a, b) * b /\ Quo(a, b) * b <= a
      /\ a <= 0 => a <= Quo(a, b) * b /\ Quo(a, b) * b < a + b
  BY <1>1, QuoBounds
<1>4. Quo(a, b) * b \in Int
  BY <1>1, <1>3
<1> QED BY <1>2, <1>3, <1>4 DEF a, b

\* It does not move it at all when the unit divides a second.
LEMMA RoundTripExact ==
  ASSUME NEW t \in Int, NEW p, Second % GetPrecisionMultiplier(p) = 0
  PROVE  RoundTrip(t, p) = UnixNano(t)
<1> DEFINE b == GetPrecisionMultiplier(p)
           k == Second \div b
<1>1. b \in Nat \ {0} /\ Second \in Nat \ {0}
  BY UnitAssumption, MultiplierType
<1>2. k \in Nat /\ Second = k * b
  <2> HIDE DEF b
  <2>1. Second % b = 0
    BY DEF b
  <2> QED BY <1>1, <2>1
<1> HIDE DEF k
<1>3. t * k \in Int /\ UnixNano(t) = (t * k) * b
  <2> HIDE DEF b
  <2>1. t * (k * b) = (t * k) * b
    BY <1>1, <1>2
  <2> QED BY <1>1, <1>2, <2>1 DEF UnixNano
<1>4. Quo((t * k) * b, b) = t * k
  <2> HIDE DEF b
  <2> QED BY <1>1, <1>3, QuoExact
<1> QED BY <1>3, <1>4 DEF RoundTrip, SafeCalcTime, WireTime

\* A second the client's range check accepts comes back in range.
LEMMA RoundTripInRange ==
  ASSUME NEW t \in Int, NEW p, CheckTime(UnixNano(t))
  PROVE  CheckTime(RoundTrip(t, p))
<1>1. UnixNano(t) \in Int
  BY UnitAssumption DEF UnixNano
<1>2. /\ RoundTrip(t, p) \in Int
      /\ GetPrecisionMultiplier(p) \in Nat
      /\ UnixNano(t) >= 0 =>
           /\ UnixNano(t) - GetPrecisionMultiplier(p) < RoundTrip(t, p)
           /\ RoundTrip(t, p) <= UnixNano(t)
      /\ UnixNano(t) <= 0 =>
           /\ UnixNano(t) <= RoundTrip(t, p)
           /\ RoundTrip(t, p) < UnixNano(t) + GetPrecisionMultiplier(p)
  BY RoundTripBounds, MultiplierType
<1>3. UnixNano(t) >= 0 => RoundTrip(t, p) >= 0
  <2>1. SUFFICES ASSUME UnixNano(t) >= 0 PROVE RoundTrip(t, p) >= 0
    OBVIOUS
  <2>2. UnixNano(t) \in Nat /\ GetPrecisionMultiplier(p) \in Nat \ {0}
    BY <1>1, <2>1, MultiplierType
  <2>3. Quo(UnixNano(t), GetPrecisionMultiplier(p)) \in Nat
    BY <2>2, DivisionBounds DEF Quo
  <2> QED BY <2>2, <2>3 DEF RoundTrip, SafeCalcTime, WireTime
<1>4. UnixNano(t) <= 0 => RoundTrip(t, p) <= 0
  <2>1. SUFFICES ASSUME UnixNano(t) < 0 PROVE RoundTrip(t, p) <= 0
    BY <1>1, <1>2, <1>3
  <2> DEFINE b == GetPrecisionMultiplier(p)
             q == (-UnixNano(t)) \div b
  <2>2. -UnixNano(t) \in Nat /\ b \in Nat \ {0}
    BY <1>1, <2>1, MultiplierType
  <2> HIDE DEF b
  <2>3. q \in Nat
    BY <2>2, DivisionBounds
  <2>4. RoundTrip(t, p) = (-q) * b
    BY <1>1, <2>1 DEF RoundTrip, SafeCalcTime, WireTime, Quo, b
  <2> HIDE DEF q
  <2> QED BY <2>2, <2>3, <2>4
<1> QED BY <1>1, <1>2, <1>3, <1>4, NanoTimeAssumption DEF CheckTime
=============================================================================
