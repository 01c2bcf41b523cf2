-------------------------- MODULE MCHandlerSystem ---------------------------
(* Instances of HandlerSystem for TLC.  The clock is scaled down: two      *)
(* characters of a timestamp are kept, a second has four ticks, times up   *)
(* to 92 seconds are representable, and a shard group spans 50 seconds.    *)
EXTENDS HandlerSystem, TLC

MCPow10 == [d \in 0 .. 4 |-> 10 ^ d]
MCMin == -370
MCMax == 370

NoTags == << >>
Tag(n, v) == [name |-> n, value |-> v]
Point(n, t, v) == [name |-> n, tags |-> NoTags, ts |-> t, value |-> v]
Tagged(n, tags, t, v) == [Point(n, t, v) EXCEPT !.tags = tags]

EventWith(points) ==
  [entity |-> "e1", check |-> "none", points |-> points, named |-> FALSE]

Send(points) ==
  [badFlag |-> FALSE, help |-> FALSE, args |-> 0, db |-> "sensu",
   addr |-> Null, addrEnv |-> "", user |-> Null, userEnv |-> "bob",
   precision |-> Null, stdin |-> "event", event |-> EventWith(points)]

One == <<Point(<<"cpu", "idle">>, 11, 1)>>
Base == Send(One)
WithEvent(e) == [Base EXCEPT !.event = e]

\* Command lines and inputs that never reach the network.
MCUsage ==
  {[Base EXCEPT !.badFlag = TRUE],
   [Base EXCEPT !.badFlag = TRUE, !.help = TRUE],
   [Base EXCEPT !.help = TRUE, !.db = Null],
   [Base EXCEPT !.db = Null],
   [Base EXCEPT !.args = 1],
   [Base EXCEPT !.stdin = "ioerr"],
   [Base EXCEPT !.stdin = "garbage"],
   [Base EXCEPT !.addr = "ftp://host"],
   [Base EXCEPT !.addr = "ftp://host", !.addrEnv = "http://influx"],
   [Base EXCEPT !.precision = "u"],
   WithEvent([EventWith(One) EXCEPT !.entity = Null]),
   WithEvent([EventWith(One) EXCEPT !.entity = ""]),
   WithEvent([EventWith(One) EXCEPT !.check = "invalid"]),
   WithEvent([EventWith(One) EXCEPT !.named = TRUE]),
   WithEvent([EventWith(Null) EXCEPT !.check = "valid"]),
   WithEvent(EventWith(Null))}

\* Requests the server refuses as a whole, or that reach another address.
MCRefused ==
  {[Base EXCEPT !.db = ""], [Base EXCEPT !.db = "nosuch"],
   [Base EXCEPT !.user = ""], [Base EXCEPT !.user = "eve"],
   [Base EXCEPT !.user = "guest"],
   [Base EXCEPT !.addrEnv = "http://elsewhere"],
   Send(<<One[1], One[1], One[1], One[1]>>)}

\* Batches that exercise every check of a point, alone and behind a good one.
MCOddPoints ==
  {Point(<<"cpu", "">>, 11, 2), Point(<<"">>, 11, 2), Point(<<"cpu", "", "">>, 11, 2),
   Point(<<"#cpu">>, 11, 2), Point(<<"longname">>, 11, 2),
   Point(<<"cpu", "time">>, 11, 2), Point(<<"disk", "used">>, 11, 2),
   Point(<<"cpu">>, 99, 2), Point(<<"cpu">>, -14, 2), Point(<<"cpu">>, 1199, 2),
   Tagged(<<"cpu">>, <<Tag("", "x")>>, 11, 2),
   Tagged(<<"cpu">>, <<Tag("time", "x")>>, 11, 2),
   Tagged(<<"cpu">>, <<Tag("sensu_entity_name", "")>>, 11, 2),
   Tagged(<<"cpu">>, <<Tag("a", "x"), Tag("a", "y")>>, 11, 2),
   Tagged(<<"cpu">>, <<Null>>, 11, 2),
   Null}

MCBatches ==
  {Send(<< >>)} \cup {Send(<<pt>>) : pt \in MCOddPoints}
    \cup {Send(<<One[1], pt>>) : pt \in MCOddPoints}
    \cup {Send(<<pt, One[1]>>) : pt \in MCOddPoints}
    \* "cpu" and "cpu.value" name one field; timestamps in one second too.
    \cup {Send(<<Point(<<"cpu">>, 11, 1), Point(<<"cpu", "value">>, 1105, 2)>>),
          [Send(<<Point(<<"cpu">>, 11, 1), Point(<<"cpu">>, 10, 2)>>)
             EXCEPT !.precision = "m"],
          [Send(<<Point(<<"cpu">>, 11, 1), Point(<<"cpu">>, 70, 2)>>)
             EXCEPT !.precision = ""]}

MCSingle == MCUsage \cup MCRefused \cup MCBatches

\* Two processes: points in two shard groups, a point in both events, two
\* points for one cell, a point behind the retention policy.
MCPair ==
  {Send(<<Point(<<"cpu">>, 11, 1), Point(<<"cpu">>, 70, 1)>>),
   Send(<<Point(<<"cpu">>, 11, 2), Point(<<"cpu", "value">>, 1105, 3)>>),
   Send(<<Point(<<"cpu", "time">>, 70, 2), Point(<<"cpu">>, 11, 2)>>),
   Send(<<Point(<<"#cpu">>, 11, 2), Point(<<"cpu">>, 70, 2)>>)}

MCComment == {Send(<<Point(<<"#cpu">>, 11, 1)>>), Base}

MCConflicts == {<<"disk", <<"used">>>>}

MCRetention == {MCMin, 44, 250}

Perms == Permutations(Procs)
=============================================================================
