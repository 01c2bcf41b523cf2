-------------------------- MODULE MCTimestampPath ---------------------------
(* A scaled-down clock for TLC, whose integers have 32 bits: texts are cut *)
(* to three characters instead of ten, a second has twelve ticks, and the  *)
(* largest representable tick lies between 10^(Width-1) and 10^Width       *)
(* seconds, as in the code.                                                *)
EXTENDS TimestampPath

MCPow10 == [d \in 0 .. 5 |-> 10 ^ d]
MCMin == -11069
MCMax == 11069
\* Every number of one to four digits and of either sign, and a stretch
\* around the five-digit boundary.
MCStamps == (-1200 .. 1200) \cup (9980 .. 10020) \cup (-10020 .. -9980)
              \cup {92229, 92230, 92249, 92250, 92260, 99999, -99999}
MCPrecisions == {"", "s", "ms", "us", "m", "h", "0s", "u", "d"}
\* A few of them, for a counterexample that can be read.
MCFewStamps == {-123, 0, 7, 123, 1234, 12345}
=============================================================================
