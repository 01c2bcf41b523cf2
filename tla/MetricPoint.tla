---------------------------- MODULE MetricPoint -----------------------------
(***************************************************************************)
(* A metric point in its successive forms: the point of a Sensu event, the *)
(* point the handler builds from it (name split, timestamp cut, entity     *)
(* tag added), the line the InfluxDB client writes for it, and the cell    *)
(* (measurement, tag set, time, field) the server stores its value in.     *)
(*                                                                         *)
(* A metric name is the non-empty sequence of its dot-separated segments,  *)
(* which is what strings.Split returns.  Names are opaque strings; the     *)
(* ones the code tells apart are "", "value", "time",                      *)
(* "sensu_entity_name" and the members of the constants below.             *)
(***************************************************************************)
EXTENDS Timestamps, Sequences

CONSTANTS
  Null,          \* a JSON null in the list of points or of tags
  CommentNames,  \* segments whose first character is '#'
  LongNames,     \* strings too long for a series key (MaxKeyLength)
  Conflicts,     \* <<measurement, field>> pairs stored with another type
  GroupDuration  \* nanoseconds a shard group spans

ASSUME GroupAssumption == GroupDuration \in Nat \ {0}

-----------------------------------------------------------------------------
\* The loop body of sendMetrics.

\* tags["sensu_entity_name"] is set first, then every tag of the point in
\* order: the last tag with a name wins, over the entity's name too.
TagMap(tags, entity) ==
  LET Named(k) == {i \in DOMAIN tags : tags[i].name = k}
  IN  [k \in {"sensu_entity_name"} \cup {tags[i].name : i \in DOMAIN tags} |->
         IF Named(k) = {} THEN entity
         ELSE tags[CHOOSE i \in Named(k) : \A j \in Named(k) : j <= i].value]

\* The arguments of client.NewPoint.
Translate(point, entity) ==
  [meas  |-> Head(point.name),
   field |-> IF Len(point.name) > 1 THEN Tail(point.name) ELSE <<"value">>,
   tags  |-> TagMap(point.tags, entity),
   time  |-> TruncTimestamp(point.ts),
   val   |-> point.value]

\* Reading a field of a null point or of a null tag.
Dereferences(point) ==
  point # Null => \E i \in DOMAIN point.tags : point.tags[i] = Null

-----------------------------------------------------------------------------
\* The client's checks and the line it writes.

TooLong(pt) ==
  \/ pt.meas \in LongNames
  \/ \E i \in DOMAIN pt.field : pt.field[i] \in LongNames
  \/ \E k \in DOMAIN pt.tags : k \in LongNames \/ pt.tags[k] \in LongNames

\* models.NewPoint accepts the point.  The text of a field is empty when its
\* only segment is.
NewPointOK(pt) ==
  /\ CheckTime(UnixNano(pt.time))
  /\ pt.field # <<"">>
  /\ ~TooLong(pt)

\* Tags with an empty value are left out of the series key.
HashKey(tags) == [k \in {j \in DOMAIN tags : tags[j] # ""} |-> tags[k]]

PrecisionString(pt, precision) ==
  [meas  |-> pt.meas,
   field |-> pt.field,
   tags  |-> HashKey(pt.tags),
   time  |-> WireTime(pt.time, precision),
   val   |-> pt.val]

-----------------------------------------------------------------------------
\* What the server makes of a line.

\* A line that begins with '#' is skipped.
IsComment(line) == line.meas \in CommentNames

\* parsePoint accepts the line: a measurement, no empty tag key, a time in
\* range.
Parses(line, precision) ==
  /\ line.meas # ""
  /\ "" \notin DOMAIN line.tags
  /\ CheckTime(SafeCalcTime(line.time, precision))

Cell(db, line, precision) ==
  [db    |-> db,
   meas  |-> line.meas,
   tags  |-> line.tags,
   field |-> line.field,
   time  |-> SafeCalcTime(line.time, precision)]

\* A shard refuses a point with a tag or a lone field called time, and a
\* field the measurement already has with another type.
Refused(line) ==
  \/ "time" \in DOMAIN line.tags
  \/ line.field = <<"time">>
  \/ <<line.meas, line.field>> \in Conflicts

\* The shard group of a time, counted from 1970 (the code counts from year 1,
\* which only shifts the boundaries).
GroupOf(ns) == ns \div GroupDuration
Groups == {GroupOf(ns) : ns \in MinNanoTime .. MaxNanoTime}
=============================================================================
