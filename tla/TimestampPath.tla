--------------------------- MODULE TimestampPath ----------------------------
(***************************************************************************)
(* One metric timestamp on its way from the event to the database, one     *)
(* conversion per step: the handler's cut to seconds, the client's range   *)
(* check and division by the precision, the server's multiplication and    *)
(* range check.                                                            *)
(***************************************************************************)
EXTENDS DigitStrings

CONSTANTS
  Stamps,      \* the event timestamps considered
  Precisions   \* the values of --precision considered

ASSUME StampsAssumption == Stamps \subseteq Int64

VARIABLES
  ts,          \* MetricPoint.Timestamp
  precision,   \* BatchPoints.Precision(), the query parameter as well
  stage,       \* how far the timestamp has come
  val          \* its representation at that stage

vars == <<ts, precision, stage, val>>

Init ==
  /\ ts \in Stamps
  /\ precision \in {BatchPrecision(p) : p \in Precisions} \cap Durations
  /\ stage = "event"
  /\ val = ts

ToSeconds ==
  /\ stage = "event"
  /\ stage' = "seconds"
  /\ val' = TruncTimestamp(val)
  /\ UNCHANGED <<ts, precision>>

\* client.NewPoint refuses a time outside the range: the handler gives up.
Refuse ==
  /\ stage = "seconds"
  /\ ~CheckTime(UnixNano(val))
  /\ stage' = "refused"
  /\ UNCHANGED <<ts, precision, val>>

ToWire ==
  /\ stage = "seconds"
  /\ CheckTime(UnixNano(val))
  /\ stage' = "wire"
  /\ val' = WireTime(val, precision)
  /\ UNCHANGED <<ts, precision>>

ToStore ==
  /\ stage = "wire"
  /\ val' = SafeCalcTime(val, precision)
  /\ stage' = IF CheckTime(val') THEN "stored" ELSE "rejected"
  /\ UNCHANGED <<ts, precision>>

Next == ToSeconds \/ Refuse \/ ToWire \/ ToStore

Spec == Init /\ [][Next]_vars

-----------------------------------------------------------------------------
TypeOK ==
  /\ ts \in Int64
  /\ precision \in Durations
  /\ stage \in {"event", "seconds", "refused", "wire", "stored", "rejected"}
  /\ val \in Int

\* Cutting the decimal text to Width characters and parsing it again (main.go
\* 157-164) is the division TruncTimestamp makes, and the parse never fails,
\* so the early return on its error is dead code.
CutIsDivision ==
  stage = "seconds" =>
    LET text == FirstChars(FormatInt(ts))
    IN  ~ParseFails(text) /\ val = ParseInt(text)

\* A timestamp the client's range check let through is never rejected by the
\* server: dividing by the precision and multiplying again stays in range.
AcceptedIsStorable == stage # "rejected"

\* What is stored is the second the handler computed, moved toward the epoch
\* by less than one unit of the precision, and not moved at all when the unit
\* divides a second.
StoredAtSecond ==
  stage = "stored" =>
    LET want == UnixNano(TruncTimestamp(ts))
        unit == GetPrecisionMultiplier(precision)
    IN  /\ want >= 0 => want - unit < val /\ val <= want
        /\ want <= 0 => want <= val /\ val < want + unit
        /\ Second % unit = 0 => val = want

\* A timestamp in a finer unit (its leading Width digits are seconds, k more
\* digits follow, as in the nanosecond timestamps of the StatsD server) is
\* read as the second it lies in.
FinerUnitsFold ==
  stage = "seconds" =>
    \A k \in 0 .. MaxDigits - Width :
      (Pow10[Width - 1 + k] <= ts /\ ts < Pow10[Width + k])
        => val = ts \div Pow10[k]

\* "Timestamp translating supports 10 digit int64 timestamps": a timestamp of
\* Width digits is translated to itself.
TenDigitsKept ==
  stage = "seconds" =>
    \A n \in {ts, -ts} \cap Nat : NumDigits(n) = Width => val = ts
=============================================================================
