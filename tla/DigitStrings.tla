---------------------------- MODULE DigitStrings ----------------------------
(***************************************************************************)
(* The timestamp conversion of sendMetrics as the code spells it: format   *)
(* the integer in base ten, keep the first Width characters, parse the     *)
(* text.  A text is a sequence of characters: digits 0..9 and Minus.       *)
(* The reference definition that TruncTimestamp is compared with.          *)
(***************************************************************************)
EXTENDS Timestamps, Sequences

Minus == 10

\* The digits of a natural, which follow those of its tenth.
Digits[n \in Naturals64] ==
  IF n < 10 THEN <<n>> ELSE Append(Digits[n \div 10], n % 10)

\* The number that digits spell, read from left to right.
Spelled(s) ==
  LET read[i \in 0 .. Len(s)] == IF i = 0 THEN 0 ELSE 10 * read[i - 1] + s[i]
  IN  read[Len(s)]

FormatInt(n) == IF n < 0 THEN <<Minus>> \o Digits[-n] ELSE Digits[n]

\* stringTimestamp[:10] of a longer text.
FirstChars(s) == IF Len(s) > Width THEN SubSeq(s, 1, Width) ELSE s

\* ParseInt fails on an empty text and on a sign with nothing after it.
ParseFails(s) == s = << >> \/ s = <<Minus>>

ParseInt(s) == IF Head(s) = Minus THEN -Spelled(Tail(s)) ELSE Spelled(s)
=============================================================================
