----------------------------- MODULE Timestamps -----------------------------
(***************************************************************************)
(* Every conversion the timestamp of a metric point goes through, from the *)
(* int64 of the Sensu event to the nanosecond InfluxDB stores it at:       *)
(*                                                                         *)
(*    event ts --TruncTimestamp--> seconds --UnixNano--> ns                *)
(*       --WireTime (client, by precision)--> integer on the wire          *)
(*       --SafeCalcTime (server, by precision)--> ns                       *)
(*                                                                         *)
(* The decimal text the handler cuts is not built: its length is the       *)
(* number of digits of the integer and cutting it is a division by a power *)
(* of ten.  Module DigitStrings holds the literal translation.             *)
(***************************************************************************)
EXTENDS Integers

CONSTANTS
  Width,        \* characters of the decimal text that are kept (10)
  MaxDigits,    \* decimal digits of the largest int64 (19)
  Pow10,        \* Pow10[d] is 10^d, for d in 0..MaxDigits
  Second,       \* nanoseconds in a second (10^9), and in the other
  Millisecond,  \* units a precision can name; a nanosecond is 1
  Microsecond,
  Minute,
  Hour,
  MinNanoTime,  \* the least and the greatest nanosecond InfluxDB accepts
  MaxNanoTime

ASSUME WidthAssumption ==
  /\ MaxDigits \in Nat
  /\ Width \in 2 .. MaxDigits

ASSUME Pow10Assumption ==
  /\ Pow10 \in [0 .. MaxDigits -> Nat \ {0}]
  /\ Pow10[0] = 1
  /\ \A d \in 1 .. MaxDigits : Pow10[d] = 10 * Pow10[d - 1]

ASSUME UnitAssumption ==
  /\ {Second, Millisecond, Microsecond, Minute, Hour} \subseteq Nat \ {0}
  /\ Second % Millisecond = 0
  /\ Second % Microsecond = 0

ASSUME NanoTimeAssumption ==
  /\ MinNanoTime \in Int
  /\ MaxNanoTime \in Int
  /\ MinNanoTime <= 0
  /\ 0 <= MaxNanoTime

-----------------------------------------------------------------------------
\* The handler's reading of a metric timestamp.

\* The timestamps an event can carry: integers of at most MaxDigits digits.
Int64 == (1 - Pow10[MaxDigits]) .. (Pow10[MaxDigits] - 1)
Naturals64 == 0 .. (Pow10[MaxDigits] - 1)

\* Length of the decimal text of n \in Nat.
NumDigits(n) ==
  CHOOSE d \in 1 .. MaxDigits : n < Pow10[d] /\ (d = 1 \/ Pow10[d - 1] <= n)

\* Mutant: a number one digit too long is kept whole.
LaxLeading(n, k) ==
  IF NumDigits(n) <= k + 1 THEN n ELSE n \div Pow10[NumDigits(n) - k]

\* The number the first k digits of n \in Nat spell.
Leading(n, k) ==
  IF NumDigits(n) <= k THEN n ELSE n \div Pow10[NumDigits(n) - k]

\* Mutant: the sign does not count as a character.
SignlessTrunc(ts) ==
  IF ts >= 0 THEN Leading(ts, Width) ELSE -Leading(-ts, Width)

\* FormatInt, cut to Width characters, ParseInt.  The sign of a negative
\* timestamp is one of the characters.
TruncTimestamp(ts) ==
  IF ts >= 0 THEN Leading(ts, Width) ELSE -Leading(-ts, Width - 1)

-----------------------------------------------------------------------------
\* The client's and the server's conversions.

\* The names time.ParseDuration takes after the digit 1 ("0s" stands for the
\* ones that begin with a digit), and some it does not.
Durations == {"ns", "us", "ms", "s", "m", "h", "0s"}

\* Precision of the batch: an empty flag means nanoseconds.
BatchPrecision(precision) == IF precision = "" THEN "ns" ELSE precision

\* Any name the switch does not list counts nanoseconds: "us" does.
GetPrecisionMultiplier(precision) ==
  CASE precision = "u"  -> Microsecond
    [] precision = "ms" -> Millisecond
    [] precision = "s"  -> Second
    [] precision = "m"  -> Minute
    [] precision = "h"  -> Hour
    [] OTHER            -> 1

\* Mutants: division rounding up, and rounding down.
CeilQuo(a, b) == IF a % b = 0 THEN a \div b ELSE (a \div b) + 1
FloorQuo(a, b) == a \div b

\* Go's integer division truncates toward zero.
Quo(a, b) == IF a >= 0 THEN a \div b ELSE -((-a) \div b)

\* time.Unix(t, 0).UnixNano()
UnixNano(t) == t * Second

CheckTime(ns) == MinNanoTime <= ns /\ ns <= MaxNanoTime

\* The integer PrecisionString puts at the end of a line.
WireTime(t, precision) == Quo(UnixNano(t), GetPrecisionMultiplier(precision))

\* A product outside int64 is also outside MinNanoTime..MaxNanoTime, so the
\* overflow test of safeSignedMult and CheckTime reject the same timestamps
\* as CheckTime alone on the exact product.
SafeCalcTime(w, precision) == w * GetPrecisionMultiplier(precision)
=============================================================================
