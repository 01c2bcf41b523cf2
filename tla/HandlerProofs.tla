--------------------------- MODULE HandlerProofs ----------------------------
(***************************************************************************)
(* Safety of HandlerSystem for any number of processes, any invocations,   *)
(* any retention policy and any division of time into shard groups: the    *)
(* inductive invariant, the steps of the handler process, of the network   *)
(* and of the server that preserve it, that exit code 0 means stored, and  *)
(* what the system does to the values in the database.                     *)
(***************************************************************************)
EXTENDS HandlerSystem, TimestampLemmas

-----------------------------------------------------------------------------
\* The inductive invariant.

Good(p, i) ==
  /\ ~Dereferences(Points(p)[i])
  /\ NewPointOK(Translate(Points(p)[i], Event(p).entity))

\* The points added so far are the first points of the event, all accepted.
BatchOK(p) ==
  /\ Len(bp[p]) <= Len(Points(p))
  /\ \A i \in 1 .. Len(bp[p]) :
       bp[p][i] = Translate(Points(p)[i], Event(p).entity) /\ Good(p, i)

\* A request on the wire is the translation of the whole event.
Faithful(p) ==
  /\ Accepts(inv[p])
  /\ msg[p].db = inv[p].db
  /\ msg[p].precision = Precision(p)
  /\ msg[p].body = [i \in DOMAIN Points(p) |-> LineOf(p, i)]
  /\ \A i \in DOMAIN Points(p) : Good(p, i)

HandlerInv(p) ==
  /\ pc[p] \in {"client", "loop", "await"} => Accepts(inv[p])
  /\ pc[p] \in {"execute", "run", "client"} => bp[p] = << >>
  /\ pc[p] = "loop" => BatchOK(p)
  /\ pc[p] \in {"execute", "run", "client", "loop"} => net[p] = "none"
  /\ net[p] # "none" => Faithful(p)
  /\ exit[p] = "ok" => resp[p] = 204

\* The cells of the request's points of group g.
GroupCells(p, g) == {CellAt(msg[p], i) : i \in InGroup(msg[p], g)}

ServerInv(p) ==
  /\ net[p] # "taken" => srv[p] = "idle" /\ \A g \in Groups : goro[p][g] = "idle"
  /\ srv[p] # "answered" => resp[p] = 0
  /\ srv[p] = "idle" => \A g \in Groups : goro[p][g] = "idle"
  /\ \A g \in Groups :
       goro[p][g] \in {"ok", "received"} => GroupCells(p, g) \subseteq DOMAIN db
  /\ resp[p] = 204 =>
       /\ \A i \in Lines(msg[p]) :
            \E g \in Groups : i \in InGroup(msg[p], g) /\ goro[p][g] = "received"
       /\ \A g \in Groups : goro[p][g] \in {"idle", "received"}

IInv == TypeOK /\ \A p \in Procs : HandlerInv(p) /\ ServerInv(p)

-----------------------------------------------------------------------------
\* Lemmas about the operators.

\* Writing points adds their cells and removes none.
LEMMA ApplyDomain ==
  ASSUME NEW d, NEW r, NEW I
  PROVE  /\ DOMAIN d \subseteq DOMAIN Apply(d, r, I)
         /\ \A i \in I : CellAt(r, i) \in DOMAIN Apply(d, r, I)
         /\ Apply(d, r, I) = [c \in DOMAIN Apply(d, r, I) |-> Apply(d, r, I)[c]]
BY DEF Apply

\* The points of an accepted event are a list, of int64 timestamps.
LEMMA PointsAreList ==
  ASSUME NEW p \in Procs, inv \in [Procs -> Invocations], Accepts(inv[p])
  PROVE  /\ Points(p) \in Seq({Points(p)[i] : i \in DOMAIN Points(p)})
         /\ \A i \in DOMAIN Points(p) : Points(p)[i] # Null => Points(p)[i].ts \in Int64
BY InvocationsAssumption, Zenon DEF Accepts, HasMetrics, Points, Event

\* What the event determines is fixed for the life of a process.
LEMMA EventFrame ==
  ASSUME inv' = inv, NEW q
  PROVE  /\ Points(q)' = Points(q)
         /\ Event(q)' = Event(q)
         /\ Precision(q)' = Precision(q)
         /\ Batched(q)' = Batched(q)
         /\ \A i : LineOf(q, i)' = LineOf(q, i)
         /\ \A i : Good(q, i)' <=> Good(q, i)
         /\ \A i : CellOf(q, i)' = CellOf(q, i)
BY Zenon DEF Points, Event, Precision, Batched, LineOf, Good, CellOf

\* A step that leaves a process and its exchange alone keeps its invariant.
LEMMA HandlerFrame ==
  ASSUME NEW q, HandlerInv(q), inv' = inv,
         pc'[q] = pc[q], bp'[q] = bp[q], exit'[q] = exit[q],
         net'[q] = net[q], msg'[q] = msg[q], resp'[q] = resp[q]
  PROVE  HandlerInv(q)'
BY EventFrame DEF HandlerInv, BatchOK, Faithful

\* A step that leaves a request alone and keeps every cell keeps the server's
\* invariant for it.
LEMMA ServerFrame ==
  ASSUME NEW q, ServerInv(q),
         net'[q] = net[q], msg'[q] = msg[q], resp'[q] = resp[q],
         srv'[q] = srv[q], goro'[q] = goro[q],
         DOMAIN db \subseteq DOMAIN db'
  PROVE  ServerInv(q)'
BY DEF ServerInv, GroupCells

\* Every parsed point falls into one of the shard groups.
LEMMA ParsedInGroups ==
  ASSUME NEW p \in Procs, inv \in [Procs -> Invocations], Faithful(p),
         NEW i \in Parsed(msg[p])
  PROVE  GroupOf(CellAt(msg[p], i).time) \in Groups
<1>1. i \in DOMAIN Points(p) /\ msg[p].body[i] = LineOf(p, i)
  BY Zenon DEF Parsed, Lines, Faithful
<1>2. Points(p)[i].ts \in Int64
  BY <1>1, PointsAreList, Zenon DEF Faithful, Good, Dereferences
<1> DEFINE t == TruncTimestamp(Points(p)[i].ts)
<1>3. t \in Int
  BY Zenon, <1>2, TruncTimestampType
<1>4. LineOf(p, i).time = WireTime(t, Precision(p))
  BY Zenon DEF LineOf, PrecisionString, Translate
<1> HIDE DEF t
<1>5. CellAt(msg[p], i).time = RoundTrip(t, Precision(p))
  BY Zenon, <1>1, <1>4 DEF CellAt, Cell, Faithful, RoundTrip
<1>6. RoundTrip(t, Precision(p)) \in Int
  BY Zenon, <1>3, RoundTripBounds
<1>7. CheckTime(RoundTrip(t, Precision(p)))
  BY Zenon, <1>1, <1>4 DEF Parsed, Parses, Faithful, RoundTrip
<1>8. CellAt(msg[p], i).time \in MinNanoTime .. MaxNanoTime
  BY <1>5, <1>6, <1>7, NanoTimeAssumption DEF CheckTime
<1> QED BY Zenon, <1>8 DEF Groups

\* A step on behalf of p only has to be examined for p.
LEMMA OneProcess ==
  ASSUME IInv, NEW p \in Procs, inv' = inv,
         \A q \in Procs \ {p} :
           /\ pc'[q] = pc[q] /\ bp'[q] = bp[q] /\ exit'[q] = exit[q]
           /\ net'[q] = net[q] /\ msg'[q] = msg[q] /\ resp'[q] = resp[q]
           /\ srv'[q] = srv[q] /\ goro'[q] = goro[q],
         DOMAIN db \subseteq DOMAIN db',
         TypeOK', HandlerInv(p)', ServerInv(p)'
  PROVE  IInv'
<1>1. ASSUME NEW q \in Procs PROVE HandlerInv(q)' /\ ServerInv(q)'
  <2>1. CASE q = p
    BY Zenon, <2>1
  <2>2. CASE q # p
    BY Zenon, <2>2, HandlerFrame, ServerFrame DEF IInv
  <2> QED BY Zenon, <2>1, <2>2
<1> QED BY Zenon, <1>1 DEF IInv

-----------------------------------------------------------------------------
\* The steps of the handler process.

\* Every way out of the program.
LEMMA ExitStep ==
  ASSUME IInv, NEW p \in Procs, NEW code \in {"help", "ok", "error", "panic", "killed"},
         Exit(p, code), code = "ok" => resp[p] = 204,
         UNCHANGED wireVars, UNCHANGED serverVars
  PROVE  IInv'
<1> USE DEF Exit, wireVars, serverVars
<1>1. TypeOK'
  BY EventFrame DEF IInv, TypeOK
<1>2. HandlerInv(p)'
  BY EventFrame DEF IInv, TypeOK, HandlerInv, Faithful
<1>3. ServerInv(p)'
  BY Zenon, ServerFrame DEF IInv
<1> QED BY Zenon, <1>1, <1>2, <1>3, OneProcess DEF IInv, TypeOK

\* Execute, Run and NewClient: the steps that only advance.
LEMMA AdvanceStep ==
  ASSUME IInv, NEW p \in Procs, NEW from, NEW to, Goto(p, from, to),
         <<from, to>> \in {<<"execute", "run">>, <<"run", "client">>, <<"client", "loop">>},
         to = "client" => Accepts(inv[p]),
         UNCHANGED bp, UNCHANGED wireVars, UNCHANGED serverVars
  PROVE  IInv'
<1> USE DEF Goto, wireVars, serverVars
<1>1. TypeOK'
  BY EventFrame DEF IInv, TypeOK
<1>2. HandlerInv(p)'
  <2>1. /\ pc'[p] = to /\ pc[p] = from
        /\ to # "loop" => from # "client"
        /\ to = "loop" => from = "client"
        /\ from \in {"execute", "run", "client"} /\ to \in {"run", "client", "loop"}
    BY Zenon DEF IInv, TypeOK
  <2>2. to \in {"client", "loop", "await"} => Accepts(inv[p])
    BY Zenon, <2>1 DEF IInv, HandlerInv
  <2>3. bp[p] = << >> /\ net[p] = "none"
    BY <2>1 DEF IInv, HandlerInv
  <2>4. to = "loop" => BatchOK(p)'
    <3> SUFFICES ASSUME to = "loop" PROVE BatchOK(p)'
      BY Zenon
    <3>1. Len(Points(p)) \in Nat
      BY <2>2, PointsAreList DEF IInv, TypeOK
    <3> QED BY <2>3, <3>1, EventFrame DEF BatchOK
  <2> QED BY Zenon, <2>1, <2>2, <2>3, <2>4 DEF IInv, HandlerInv
<1>3. ServerInv(p)'
  BY Zenon, ServerFrame DEF IInv
<1> QED BY <1>1, <1>2, <1>3, OneProcess DEF IInv, TypeOK

\* The batch is a list of translated points, also when it is empty.
LEMMA BatchIsList ==
  ASSUME TypeOK, NEW p \in Procs
  PROVE  bp[p] \in Seq(Batched(p))
<1>1. CASE bp[p] = << >>
  <2>1. << >> \in Seq(Batched(p))
    OBVIOUS
  <2> QED BY Zenon, <1>1, <2>1
<1>2. CASE bp[p] # << >>
  BY Zenon, <1>2 DEF TypeOK
<1> QED BY Zenon, <1>1, <1>2

\* Adding a point extends the prefix of the event that has been translated.
LEMMA AddPointStep ==
  ASSUME IInv, NEW p \in Procs, AddPoint(p), UNCHANGED serverVars
  PROVE  IInv'
<1> USE DEF Goto, wireVars, serverVars
<1> DEFINE n == Len(bp[p])
           pt == Translate(Points(p)[n + 1], Event(p).entity)
<1>1. /\ pc[p] = "loop" /\ pc'[p] = "loop" /\ inv' = inv
      /\ n < Len(Points(p)) /\ Good(p, n + 1)
      /\ bp' = [bp EXCEPT ![p] = Append(bp[p], pt)]
  BY Zenon DEF AddPoint, NextPoint, Good, IInv, TypeOK
<1>2. Accepts(inv[p]) /\ BatchOK(p) /\ net[p] = "none"
  BY Zenon, <1>1 DEF IInv, HandlerInv
<1>3. Points(p) \in Seq({Points(p)[i] : i \in DOMAIN Points(p)})
  BY Zenon, <1>2, PointsAreList DEF IInv, TypeOK
<1>4. bp[p] \in Seq(Batched(p))
  BY Zenon, BatchIsList DEF IInv
<1>5. n \in Nat /\ n + 1 \in DOMAIN Points(p)
  BY <1>1, <1>3, <1>4
<1>6. pt \in Batched(p)
  BY Zenon, <1>1, <1>5 DEF Batched, Good
<1> HIDE DEF pt
<1>7. /\ bp'[p] = Append(bp[p], pt) /\ DOMAIN bp' = Procs
      /\ \A q \in Procs \ {p} : bp'[q] = bp[q]
  BY Zenon, <1>1 DEF IInv, TypeOK
<1>8. TypeOK'
  <2>1. \A q \in Procs : bp'[q] # << >> => bp'[q] \in Seq(Batched(q))
    <3>1. Append(bp[p], pt) \in Seq(Batched(p))
      BY <1>4, <1>6
    <3>2. \A q \in Procs \ {p} : bp[q] # << >> => bp[q] \in Seq(Batched(q))
      BY Zenon DEF IInv, TypeOK
    <3> QED BY <3>1, <3>2, <1>7, Zenon
  <2> QED BY <2>1, <1>7, EventFrame DEF AddPoint, IInv, TypeOK
<1>9. BatchOK(p)'
  <2>1. Len(bp'[p]) = n + 1 /\ bp'[p][n + 1] = pt
    BY <1>4, <1>6, <1>7
  <2>2. \A i \in 1 .. n : bp'[p][i] = bp[p][i]
    BY <1>4, <1>6, <1>7
  <2>3. \A i \in 1 .. n + 1 : i \in 1 .. n \/ i = n + 1
    BY <1>5
  <2>4. n + 1 <= Len(Points(p))
    BY <1>3, <1>5
  <2> QED BY Zenon, <1>1, <1>2, <2>1, <2>2, <2>3, <2>4, EventFrame DEF BatchOK, pt
<1>10. HandlerInv(p)'
  BY Zenon, <1>1, <1>2, <1>9 DEF AddPoint, IInv, HandlerInv
<1>11. ServerInv(p)'
  BY Zenon, ServerFrame DEF AddPoint, IInv
<1> QED BY <1>7, <1>8, <1>10, <1>11, OneProcess, Zenon DEF AddPoint, IInv, TypeOK

\* The request is the translation of the whole event, since the loop is over.
LEMMA WriteStep ==
  ASSUME IInv, NEW p \in Procs, Write(p), UNCHANGED serverVars
  PROVE  IInv'
<1> USE DEF Goto, serverVars
<1>1. /\ pc[p] = "loop" /\ pc'[p] = "await" /\ inv' = inv
      /\ msg'[p] = Request(p) /\ net'[p] \in {"sent", "lost"}
      /\ Len(bp[p]) = Len(Points(p))
  BY Zenon DEF Write, IInv, TypeOK
<1>2. Accepts(inv[p]) /\ BatchOK(p) /\ net[p] = "none"
  BY Zenon, <1>1 DEF IInv, HandlerInv
<1>3. Points(p) \in Seq({Points(p)[i] : i \in DOMAIN Points(p)})
  BY Zenon, <1>2, PointsAreList DEF IInv, TypeOK
<1>4. bp[p] \in Seq(Batched(p))
  BY Zenon, BatchIsList DEF IInv
<1>5. DOMAIN bp[p] = DOMAIN Points(p) /\ DOMAIN bp[p] = 1 .. Len(bp[p])
  BY <1>1, <1>3, <1>4
<1>6. TypeOK'
  BY EventFrame DEF Write, IInv, TypeOK
<1>7. \A i \in DOMAIN Points(p) :
        Good(p, i) /\ PrecisionString(bp[p][i], Precision(p)) = LineOf(p, i)
  BY Zenon, <1>2, <1>5 DEF BatchOK, LineOf
<1>8. /\ Request(p).db = inv[p].db
      /\ Request(p).precision = Precision(p)
      /\ Request(p).body = [i \in DOMAIN Points(p) |-> LineOf(p, i)]
  BY Zenon, <1>5, <1>7 DEF Request
<1>9. Faithful(p)'
  BY Zenon, <1>1, <1>2, <1>7, <1>8, EventFrame DEF Faithful
<1>10. HandlerInv(p)'
  BY Zenon, <1>1, <1>2, <1>9 DEF Write, IInv, HandlerInv
<1>11. ServerInv(p)'
  BY SMTT(30), <1>1, <1>2 DEF Write, IInv, ServerInv
<1> QED BY Zenon, <1>6, <1>10, <1>11, OneProcess DEF Write, IInv, TypeOK

-----------------------------------------------------------------------------
\* The steps of the network and of the server.

\* The status codes of the checks before the write.
LEMMA RefusalType ==
  ASSUME NEW r
  PROVE  RefusalCode(r) \in {0, 400, 401, 403, 404, 413}
BY DEF RefusalCode

\* A request that is lost never reaches the server.
LEMMA LoseStep ==
  ASSUME IInv, NEW p \in Procs, Lost(p)
  PROVE  IInv'
<1> USE DEF Lost, Lose, handlerVars, serverVars
<1>1. TypeOK'
  BY EventFrame DEF IInv, TypeOK
<1>2. HandlerInv(p)'
  BY EventFrame DEF IInv, TypeOK, HandlerInv, BatchOK, Faithful
<1>3. ServerInv(p)'
  BY DEF IInv, TypeOK, ServerInv
<1> QED BY Zenon, <1>1, <1>2, <1>3, OneProcess DEF IInv, TypeOK

\* RefuseWrite and MapShardsFails.
LEMMA RefuseStep ==
  ASSUME IInv, NEW p \in Procs, NEW code \in {400, 401, 403, 404, 413, 500},
         Take(p), Answer(p, code), UNCHANGED goro, UNCHANGED handlerVars
  PROVE  IInv'
<1> USE DEF Take, Answer, handlerVars
<1>1. TypeOK'
  BY EventFrame DEF IInv, TypeOK
<1>2. HandlerInv(p)'
  <2>1. exit[p] # "ok"
    BY SMTT(30) DEF IInv, HandlerInv, ServerInv
  <2> QED BY <2>1, EventFrame DEF IInv, TypeOK, HandlerInv, BatchOK, Faithful
<1>3. ServerInv(p)'
  BY DEF IInv, TypeOK, ServerInv
<1> QED BY <1>1, <1>2, <1>3, OneProcess DEF IInv, TypeOK

\* The goroutines start with nothing reported.
LEMMA StartWriteStep ==
  ASSUME IInv, NEW p \in Procs, StartWrite(p), UNCHANGED handlerVars
  PROVE  IInv'
<1> USE DEF Take, handlerVars
<1>1. PICK gs \in [Groups -> {"run", "idle"}] : goro' = [goro EXCEPT ![p] = gs]
  BY Zenon DEF StartWrite
<1>2. TypeOK'
  BY <1>1, EventFrame DEF StartWrite, IInv, TypeOK, GoStates
<1>3. HandlerInv(p)'
  BY EventFrame DEF StartWrite, IInv, TypeOK, HandlerInv, BatchOK, Faithful
<1>4. ServerInv(p)'
  <2>1. resp'[p] = 0 /\ net'[p] = "taken" /\ srv'[p] = "writing"
    BY SMTT(20) DEF StartWrite, IInv, TypeOK, ServerInv
  <2>2. \A g \in Groups : goro'[p][g] \in {"run", "idle"}
    BY Zenon, <1>1 DEF IInv, TypeOK
  <2> QED BY <2>1, <2>2 DEF ServerInv
<1> QED BY SMTT(30), <1>1, <1>2, <1>3, <1>4, OneProcess DEF StartWrite, IInv, TypeOK

\* A goroutine that is running belongs to a request that is not answered 204.
LEMMA RunningIsTaken ==
  ASSUME IInv, NEW p \in Procs, NEW g \in Groups, Running(p, g)
  PROVE  net[p] = "taken" /\ srv[p] # "idle" /\ resp[p] # 204 /\ exit[p] # "ok" /\ Faithful(p)
BY DEF IInv, ServerInv, HandlerInv, Running

\* A goroutine that reports success has stored every cell of its group.
LEMMA ShardWriteStep ==
  ASSUME IInv, NEW p \in Procs, NEW g \in Groups, ShardStep(p, g)
  PROVE  IInv'
<1>1. Running(p, g)
  BY Zenon DEF ShardStep, WriteShard, WriteToShard, CreateShardFails, WriteToShardFails, Running
<1>2. PICK state \in {"retry", "ok", "partial", "failed"} :
        /\ GoTo(p, g, state)
        /\ DOMAIN db \subseteq DOMAIN db' /\ db' = [c \in DOMAIN db' |-> db'[c]]
        /\ state = "ok" => GroupCells(p, g) \subseteq DOMAIN db'
  <2>1. CASE WriteToShard(p, g)
    <3> DEFINE taken == {i \in InGroup(msg[p], g) : ~Refused(msg[p].body[i])}
               state == IF taken = InGroup(msg[p], g) THEN "ok" ELSE "partial"
    <3>1. db' = Apply(db, msg[p], taken) /\ GoTo(p, g, state)
      BY Zenon, <2>1 DEF WriteToShard
    <3>2. state = "ok" => taken = InGroup(msg[p], g)
      BY Zenon
    <3>3. state \in {"ok", "partial"}
      BY Zenon
    <3> HIDE DEF taken, state
    <3>4. DOMAIN db \subseteq DOMAIN db' /\ \A i \in taken : CellAt(msg[p], i) \in DOMAIN db'
      BY Zenon, <3>1, ApplyDomain
    <3>5. db' = [c \in DOMAIN db' |-> db'[c]]
      BY Zenon, <3>1, ApplyDomain
    <3>6. state = "ok" => GroupCells(p, g) \subseteq DOMAIN db'
      BY Zenon, <3>2, <3>4 DEF GroupCells
    <3>7. DOMAIN db \subseteq DOMAIN db'
      BY Zenon, <3>4
    <3> QED BY <3>1, <3>3, <3>5, <3>6, <3>7, Zenon
  <2>2. CASE CreateShardFails(p, g)
    <3>1. PICK result \in {"partial", "failed"} : GoTo(p, g, result)
      BY Zenon, <2>2 DEF CreateShardFails
    <3>2. db' = db /\ db = [c \in DOMAIN db |-> db[c]]
      BY Zenon, <2>2 DEF CreateShardFails, IInv, TypeOK
    <3>3. db' = [c \in DOMAIN db' |-> db'[c]]
      BY Zenon, <3>2
    <3>4. result # "ok" /\ result \in {"retry", "ok", "partial", "failed"}
      BY Zenon
    <3> QED BY <3>1, <3>2, <3>3, <3>4, Zenon
  <2>3. CASE WriteToShardFails(p, g)
    <3>1. PICK I : db' = Apply(db, msg[p], I)
      BY Zenon, <2>3 DEF WriteToShardFails
    <3>2. PICK result \in {"retry", "failed"} : GoTo(p, g, result)
      BY Zenon, <2>3 DEF WriteToShardFails
    <3>3. DOMAIN db \subseteq DOMAIN db'
      BY Zenon, <3>1, ApplyDomain
    <3>4. db' = [c \in DOMAIN db' |-> db'[c]]
      BY Zenon, <3>1, ApplyDomain
    <3>5. result # "ok" /\ result \in {"retry", "ok", "partial", "failed"}
      BY Zenon
    <3> QED BY <3>2, <3>3, <3>4, <3>5, Zenon
  <2> QED BY Zenon, <2>1, <2>2, <2>3 DEF ShardStep, WriteShard
<1>3. /\ goro' = [goro EXCEPT ![p][g] = state]
      /\ UNCHANGED <<pc, inv, bp, exit, net, msg, resp, srv>>
  BY Zenon, <1>2 DEF ShardStep, GoTo, handlerVars, wireVars
<1>4. /\ goro' \in [Procs -> [Groups -> GoStates]]
      /\ goro'[p][g] = state
      /\ \A h \in Groups \ {g} : goro'[p][h] = goro[p][h]
      /\ \A q \in Procs \ {p} : goro'[q] = goro[q]
  BY <1>3 DEF IInv, TypeOK, GoStates
<1>5. TypeOK'
  BY <1>2, <1>3, <1>4, EventFrame DEF IInv, TypeOK
<1>6. HandlerInv(p)'
  BY Zenon, <1>3, HandlerFrame DEF IInv
<1>7. ServerInv(p)'
  <2>1. \A h \in Groups :
          goro'[p][h] \in {"ok", "received"} => GroupCells(p, h)' \subseteq DOMAIN db'
    <3> TAKE h \in Groups
    <3>1. GroupCells(p, h)' = GroupCells(p, h)
      BY Zenon, <1>3 DEF GroupCells
    <3>2. CASE h = g
      BY Zenon, <3>1, <3>2, <1>2, <1>4
    <3>3. CASE h # g
      <4>1. goro'[p][h] = goro[p][h]
        BY Zenon, <3>3, <1>4
      <4>2. goro[p][h] \in {"ok", "received"} => GroupCells(p, h) \subseteq DOMAIN db
        BY Zenon DEF IInv, ServerInv
      <4> QED BY Zenon, <3>1, <4>1, <4>2, <1>2
    <3> QED BY Zenon, <3>2, <3>3
  <2> QED BY Zenon, <2>1, <1>1, <1>3, RunningIsTaken DEF IInv, ServerInv
<1> QED BY Zenon, <1>2, <1>3, <1>4, <1>5, <1>6, <1>7, OneProcess

\* Receiving a result moves it from the channel and changes nothing else.
LEMMA ReceiveStep ==
  ASSUME IInv, NEW p \in Procs, NEW g \in Groups, Receive(p, g), UNCHANGED handlerVars
  PROVE  IInv'
<1> USE DEF Receive, handlerVars, wireVars
<1>1. /\ goro' \in [Procs -> [Groups -> GoStates]]
      /\ goro[p][g] = "ok" /\ goro'[p][g] = "received"
      /\ \A h \in Groups \ {g} : goro'[p][h] = goro[p][h]
      /\ \A q \in Procs \ {p} : goro'[q] = goro[q]
  BY DEF IInv, TypeOK, GoStates
<1>2. TypeOK'
  BY <1>1, EventFrame DEF IInv, TypeOK
<1>3. HandlerInv(p)'
  BY Zenon, HandlerFrame DEF IInv
<1>4. ServerInv(p)'
  <2>1. net[p] = "taken" /\ resp[p] # 204
    BY Zenon, <1>1 DEF IInv, ServerInv
  <2>2. ASSUME NEW h \in Groups, goro'[p][h] \in {"ok", "received"}
        PROVE  GroupCells(p, h)' \subseteq DOMAIN db'
    <3>1. goro[p][h] \in {"ok", "received"}
      BY Zenon, <1>1, <2>2
    <3>2. GroupCells(p, h)' = GroupCells(p, h)
      BY Zenon DEF GroupCells
    <3> QED BY <3>1, <3>2 DEF IInv, ServerInv
  <2> QED BY Zenon, <2>1, <2>2 DEF IInv, ServerInv
<1> QED BY Zenon, <1>1, <1>2, <1>3, <1>4, OneProcess DEF IInv, TypeOK

\* The answers after the writes have begun.  Only the last kind is 204, and
\* then every line has parsed and every group's write was received.
LEMMA AnswerStep ==
  ASSUME IInv, NEW p \in Procs, NEW code \in {204, 400, 500},
         srv[p] = "writing", Answer(p, code),
         UNCHANGED <<goro, db, net, msg>>, UNCHANGED handlerVars,
         code = 204 => /\ Complete(msg[p], goro[p])
                       /\ \A g \in Groups : goro[p][g] \in {"idle", "received"}
  PROVE  IInv'
<1>1. net[p] = "taken" /\ resp[p] = 0 /\ Faithful(p) /\ exit[p] # "ok"
  <2>1. HandlerInv(p) /\ ServerInv(p)
    BY Zenon DEF IInv
  <2>2. net[p] = "taken" /\ resp[p] = 0
    BY Zenon, <2>1 DEF ServerInv
  <2>3. Faithful(p)
    BY Zenon, <2>1, <2>2 DEF HandlerInv
  <2>4. 0 # 204
    OBVIOUS
  <2>5. exit[p] # "ok"
    BY Zenon, <2>1, <2>2, <2>4 DEF HandlerInv
  <2> QED BY Zenon, <2>2, <2>3, <2>5
<1> USE DEF Answer, handlerVars
<1>2. TypeOK'
  BY EventFrame DEF IInv, TypeOK
<1>3. HandlerInv(p)'
  BY <1>1, EventFrame DEF IInv, TypeOK, HandlerInv, BatchOK, Faithful
<1>4. code = 204 => \A i \in Lines(msg[p]) :
        \E g \in Groups : i \in InGroup(msg[p], g) /\ goro[p][g] = "received"
  <2> SUFFICES ASSUME code = 204, NEW i \in Lines(msg[p])
               PROVE  \E g \in Groups : i \in InGroup(msg[p], g) /\ goro[p][g] = "received"
    BY Zenon
  <2> DEFINE g == GroupOf(CellAt(msg[p], i).time)
  <2>1. i \in Parsed(msg[p])
    BY DEF Complete
  <2>2. goro[p][g] # "idle"
    BY <2>1 DEF Complete
  <2>3. inv \in [Procs -> Invocations]
    BY Zenon DEF IInv, TypeOK
  <2>4. g \in Groups
    BY SMTT(30), <1>1, <2>1, <2>3, ParsedInGroups
  <2>5. i \in InGroup(msg[p], g)
    BY Zenon, <2>1 DEF InGroup
  <2> HIDE DEF g
  <2>6. goro[p][g] = "received"
    BY Zenon, <2>2, <2>4
  <2> QED BY Zenon, <2>4, <2>5, <2>6
<1>5. ServerInv(p)'
  <2>1. srv'[p] = "answered" /\ resp'[p] = code
    BY DEF IInv, TypeOK
  <2> QED BY SMTT(30), <2>1, <1>1, <1>4 DEF IInv, ServerInv, GroupCells
<1> QED BY SMTT(30), <1>2, <1>3, <1>5, OneProcess DEF IInv, TypeOK

-----------------------------------------------------------------------------
\* The inductive invariant holds.

\* No process has begun and the database is empty.
LEMMA InitIInv == Init => IInv
<1> SUFFICES ASSUME Init PROVE IInv
  BY Zenon
<1> USE DEF Init, HandlerInit, WireInit, ServerInit
<1>1. TypeOK
  BY DEF TypeOK, GoStates
<1>2. ASSUME NEW p \in Procs PROVE HandlerInv(p) /\ ServerInv(p)
  BY DEF HandlerInv, ServerInv
<1> QED BY Zenon, <1>1, <1>2 DEF IInv

\* One case per action.
LEMMA NextIInv == IInv /\ [Next]_vars => IInv'
<1> SUFFICES ASSUME IInv, [Next]_vars PROVE IInv'
  BY Zenon
<1>1. CASE UNCHANGED vars
  <2> USE <1>1 DEF vars, handlerVars, wireVars, serverVars
  <2>1. TypeOK'
    BY EventFrame, SMTT(20) DEF IInv, TypeOK
  <2>2. ASSUME NEW q \in Procs PROVE HandlerInv(q)' /\ ServerInv(q)'
    BY Zenon, HandlerFrame, ServerFrame DEF IInv
  <2> QED BY Zenon, <2>1, <2>2 DEF IInv
<1>2. ASSUME NEW p \in Procs, ProcessStep(p) PROVE IInv'
  <2>1. UNCHANGED serverVars
    BY Zenon, <1>2 DEF ProcessStep
  <2>2. CASE Help(p)
    BY Zenon, <2>1, <2>2, ExitStep DEF Help
  <2>3. CASE BadUsage(p)
    BY Zenon, <2>1, <2>3, ExitStep DEF BadUsage
  <2>4. CASE Execute(p)
    BY Zenon, <2>1, <2>4, AdvanceStep DEF Execute
  <2>5. CASE RunRejects(p)
    BY Zenon, <2>1, <2>5, ExitStep DEF RunRejects
  <2>6. CASE Run(p)
    BY Zenon, <2>1, <2>6, AdvanceStep DEF Run
  <2>7. CASE NewClientFails(p)
    BY Zenon, <2>1, <2>7, ExitStep DEF NewClientFails
  <2>8. CASE NewClient(p)
    BY Zenon, <2>1, <2>8, AdvanceStep DEF NewClient
  <2>9. CASE PointPanics(p)
    BY Zenon, <2>1, <2>9, ExitStep DEF PointPanics
  <2>10. CASE PointFails(p)
    BY Zenon, <2>1, <2>10, ExitStep DEF PointFails
  <2>11. CASE AddPoint(p)
    BY Zenon, <2>1, <2>11, AddPointStep
  <2>12. CASE Write(p)
    BY Zenon, <2>1, <2>12, WriteStep
  <2>13. CASE Answered(p)
    <3>1. ExitCode(resp[p]) \in {"ok", "error"}
      BY Zenon DEF ExitCode
    <3>2. ExitCode(resp[p]) = "ok" => resp[p] = 204
      BY SMTT(20) DEF ExitCode, IInv, TypeOK
    <3> QED BY <2>1, <2>13, <3>1, <3>2, ExitStep DEF Answered
  <2> QED BY Zenon, <1>2, <2>2, <2>3, <2>4, <2>5, <2>6, <2>7, <2>8, <2>9, <2>10, <2>11,
             <2>12, <2>13 DEF ProcessStep, Step
<1>3. ASSUME NEW p \in Procs, ConnBreaks(p) PROVE IInv'
  BY Zenon, <1>3, ExitStep DEF ConnBreaks, ConnError
<1>4. ASSUME NEW p \in Procs, Killed(p) PROVE IInv'
  BY Zenon, <1>4, ExitStep DEF Killed, Kill
<1>5. ASSUME NEW p \in Procs, Lost(p) PROVE IInv'
  BY Zenon, <1>5, LoseStep
<1>6. ASSUME NEW p \in Procs, ServerStep(p) PROVE IInv'
  <2>1. UNCHANGED handlerVars
    BY Zenon, <1>6 DEF ServerStep
  <2>2. CASE RefuseWrite(p)
    BY <2>1, <2>2, RefusalType, RefuseStep DEF RefuseWrite
  <2>3. CASE StartWrite(p)
    BY Zenon, <2>1, <2>3, StartWriteStep
  <2>4. CASE AllReceived(p)
    <3> DEFINE code == IF Complete(msg[p], goro[p]) THEN 204 ELSE 400
    <3>1. code \in {204, 400, 500} /\ (code = 204 => Complete(msg[p], goro[p]))
      OBVIOUS
    <3>2. srv[p] = "writing" /\ Answer(p, code) /\ UNCHANGED <<goro, db, net, msg>>
      BY Zenon, <2>4 DEF AllReceived
    <3>3. \A g \in Groups : goro[p][g] \in {"idle", "received"}
      BY Zenon, <2>4 DEF AllReceived
    <3> HIDE DEF code
    <3> QED BY <2>1, <3>1, <3>2, <3>3, AnswerStep
  <2>5. CASE Abandon(p)
    BY <2>1, <2>5, AnswerStep DEF Abandon
  <2>6. ASSUME NEW g \in Groups, Receive(p, g) PROVE IInv'
    BY Zenon, <2>1, <2>6, ReceiveStep
  <2>7. ASSUME NEW g \in Groups, ReceiveError(p, g) PROVE IInv'
    BY SMTT(30), <2>1, <2>7, AnswerStep DEF ReceiveError
  <2> QED BY Zenon, <1>6, <2>2, <2>3, <2>4, <2>5, <2>6, <2>7 DEF ServerStep, ServeHTTP
<1>7. ASSUME NEW p \in Procs, ServerTrouble(p) PROVE IInv'
  BY <1>7, RefuseStep DEF ServerTrouble, MapShardsFails
<1>8. ASSUME NEW p \in Procs, NEW g \in Groups, ShardStep(p, g) PROVE IInv'
  BY Zenon, <1>8, ShardWriteStep
<1> QED BY Zenon, <1>1, <1>2, <1>3, <1>4, <1>5, <1>6, <1>7, <1>8 DEF Next

\* IInv is an invariant of the composed system.
THEOREM InductiveInvariant == Spec => []IInv
BY InitIInv, NextIInv, PTL DEF Spec

\* The state of the processes, the exchanges and the server keeps its type.
THEOREM TypeCorrect == Spec => []TypeOK
<1>1. IInv => TypeOK
  BY Zenon DEF IInv
<1> QED BY <1>1, InductiveInvariant, PTL

\* In a request that is answered 204 every line that is not a comment is in
\* one of the groups that were written, and is a point of the event.
LEMMA AckedLines ==
  ASSUME IInv, NEW p \in Procs, exit[p] = "ok"
  PROVE  /\ Faithful(p) /\ net[p] = "taken"
         /\ \A i \in DOMAIN Points(p) : CellAt(msg[p], i) = CellOf(p, i)
         /\ \A i \in DOMAIN Points(p) :
              ~IsComment(LineOf(p, i)) =>
                \E g \in Groups : i \in InGroup(msg[p], g) /\ goro[p][g] = "received"
<1>1. resp[p] = 204
  BY Zenon DEF IInv, HandlerInv
<1>2. net[p] = "taken" /\ Faithful(p)
  BY SMTT(30), <1>1 DEF IInv, HandlerInv, ServerInv
<1>3. \A i \in DOMAIN Points(p) : CellAt(msg[p], i) = CellOf(p, i)
  BY Zenon, <1>2 DEF Faithful, CellAt, CellOf
<1>4. ASSUME NEW i \in DOMAIN Points(p), ~IsComment(LineOf(p, i))
      PROVE  \E g \in Groups : i \in InGroup(msg[p], g) /\ goro[p][g] = "received"
  <2>1. i \in Lines(msg[p])
    BY Zenon, <1>2, <1>4 DEF Faithful, Lines
  <2> QED BY SMTT(30), <1>1, <2>1 DEF IInv, ServerInv
<1> QED BY Zenon, <1>2, <1>3, <1>4

\* Exit code 0 means stored: whatever the interleaving of processes, shard
\* goroutines, timeouts and failures, a handler that exits with success has
\* every point that is not a comment line in the database.
THEOREM AckedStoredHolds == Spec => []AckedStored
<1>1. IInv => AckedStored
  <2> SUFFICES ASSUME IInv, NEW p \in Procs, exit[p] = "ok", NEW i \in DOMAIN Points(p),
                      ~IsComment(LineOf(p, i))
               PROVE  CellOf(p, i) \in DOMAIN db
    BY Zenon DEF AckedStored
  <2>1. PICK g \in Groups : i \in InGroup(msg[p], g) /\ goro[p][g] = "received"
    BY Zenon, AckedLines
  <2>2. CellAt(msg[p], i) \in GroupCells(p, g)
    BY Zenon, <2>1 DEF GroupCells
  <2>3. GroupCells(p, g) \subseteq DOMAIN db
    BY Zenon, <2>1 DEF IInv, ServerInv
  <2> QED BY SMTT(30), <2>2, <2>3, AckedLines
<1> QED BY <1>1, InductiveInvariant, PTL

-----------------------------------------------------------------------------
\* The values in the database.

\* The largest of some of the numbers 1 to n.
LEMMA LargestIndex ==
  ASSUME NEW n \in Nat, NEW S, \A i \in S : i \in 1 .. n, S # {}
  PROVE  \E i \in S : \A j \in S : j <= i
<1> DEFINE T == {n - i : i \in S}
<1>1. T \subseteq Nat /\ T # {}
  OBVIOUS
<1>2. PICK m \in T : \A k \in T : m <= k
  BY <1>1, LeastNat, Zenon
<1>3. PICK i \in S : m = n - i
  BY Zenon, <1>2
<1>4. \A j \in S : n - i <= n - j
  BY Zenon, <1>2, <1>3
<1>5. \A j \in S : i \in Int /\ j \in Int
  OBVIOUS
<1> QED BY <1>4, <1>5

\* A cell keeps its value or gets the one of its last point.
LEMMA ApplyAt ==
  ASSUME NEW d, NEW r, NEW I, \E n \in Nat : \A i \in I : i \in 1 .. n,
         NEW c \in DOMAIN Apply(d, r, I)
  PROVE  \/ /\ \A i \in I : CellAt(r, i) # c
            /\ c \in DOMAIN d /\ Apply(d, r, I)[c] = d[c]
         \/ \E i \in I : /\ CellAt(r, i) = c
                         /\ \A j \in I : CellAt(r, j) = c => j <= i
                         /\ Apply(d, r, I)[c] = r.body[i].val
<1> PICK n \in Nat : \A i \in I : i \in 1 .. n
  BY Zenon
<1> DEFINE At == {i \in I : CellAt(r, i) = c}
           cells == {CellAt(r, i) : i \in I}
           last == CHOOSE i \in At : \A j \in At : j <= i
<1>1. /\ c \in DOMAIN d \cup cells
      /\ c \in cells => Apply(d, r, I)[c] = r.body[last].val
      /\ c \notin cells => Apply(d, r, I)[c] = d[c]
  BY Zenon DEF Apply
<1>2. CASE c \notin cells
  BY Zenon, <1>1, <1>2
<1>3. CASE c \in cells
  <2>1. At # {} /\ \A i \in At : i \in 1 .. n
    BY Zenon, <1>3
  <2>2. last \in At /\ \A j \in At : j <= last
    <3> HIDE DEF At
    <3> QED BY Zenon, <2>1, LargestIndex
  <2> HIDE DEF last
  <2>3. last \in I /\ CellAt(r, last) = c /\ \A j \in I : CellAt(r, j) = c => j <= last
    BY Zenon, <2>2
  <2> QED BY Zenon, <1>1, <1>3, <2>3
<1> QED BY Zenon, <1>2, <1>3

\* What a step does to the database: nothing, or one goroutine writes some
\* of the points of its group, all of them when it reports success.
LEMMA DatabaseStep ==
  ASSUME IInv, [Next]_vars
  PROVE  \/ db' = db
         \/ \E p \in Procs, g \in Groups :
              /\ Running(p, g) /\ ShardStep(p, g)
              /\ \E I \in SUBSET InGroup(msg[p], g) :
                   /\ db' = Apply(db, msg[p], I)
                   /\ goro'[p][g] = "ok" => I = InGroup(msg[p], g)
<1>1. CASE UNCHANGED vars
  BY Zenon, <1>1 DEF vars, serverVars
<1>2. ASSUME NEW p \in Procs, ProcessStep(p) \/ ConnBreaks(p) \/ Killed(p) \/ Lost(p)
      PROVE  db' = db
  BY Zenon, <1>2 DEF ProcessStep, ConnBreaks, Killed, Lost, serverVars
<1>3. ASSUME NEW p \in Procs, ServerStep(p) \/ ServerTrouble(p)
      PROVE  db' = db
  BY Zenon, <1>3 DEF ServerStep, ServerTrouble, ServeHTTP, RefuseWrite, StartWrite, AllReceived,
              Abandon, Receive, ReceiveError, MapShardsFails, Take
<1>4. ASSUME NEW p \in Procs, NEW g \in Groups, ShardStep(p, g), db' # db
      PROVE  /\ Running(p, g)
             /\ \E I \in SUBSET InGroup(msg[p], g) :
                  /\ db' = Apply(db, msg[p], I)
                  /\ goro'[p][g] = "ok" => I = InGroup(msg[p], g)
  <2>1. CASE WriteToShard(p, g)
    <3> DEFINE taken == {i \in InGroup(msg[p], g) : ~Refused(msg[p].body[i])}
    <3>1. Running(p, g) /\ db' = Apply(db, msg[p], taken)
      BY Zenon, <2>1 DEF WriteToShard
    <3>2. goro'[p][g] = "ok" => taken = InGroup(msg[p], g)
      BY <2>1 DEF WriteToShard, GoTo, IInv, TypeOK
    <3> QED BY Zenon, <3>1, <3>2
  <2>2. CASE CreateShardFails(p, g)
    BY Zenon, <1>4, <2>2 DEF CreateShardFails
  <2>3. CASE WriteToShardFails(p, g)
    <3>1. PICK I \in SUBSET InGroup(msg[p], g) : db' = Apply(db, msg[p], I)
      BY Zenon, <2>3 DEF WriteToShardFails
    <3>2. Running(p, g) /\ goro'[p][g] # "ok"
      BY <2>3 DEF WriteToShardFails, GoTo, IInv, TypeOK
    <3> QED BY Zenon, <3>1, <3>2
  <2> QED BY Zenon, <1>4, <2>1, <2>2, <2>3 DEF ShardStep, WriteShard
<1> QED BY Zenon, <1>1, <1>2, <1>3, <1>4 DEF Next

\* A request once written stays the same, and one once taken stays taken.
LEMMA ExchangeStep ==
  ASSUME IInv, [Next]_vars
  PROVE  /\ inv' = inv
         /\ \A q \in Procs : net[q] # "none" => net'[q] # "none" /\ msg'[q] = msg[q]
         /\ \A q \in Procs : net[q] = "taken" => net'[q] = "taken"
<1>1. CASE UNCHANGED vars
  BY Zenon, <1>1 DEF vars, handlerVars, wireVars
<1>2. ASSUME NEW p \in Procs, ProcessStep(p) \/ ConnBreaks(p) \/ Killed(p)
      PROVE  inv' = inv /\ (Write(p) \/ UNCHANGED wireVars)
  BY Zenon, <1>2 DEF ProcessStep, Step, ConnBreaks, ConnError, Killed, Kill, Help, BadUsage, Execute,
              RunRejects, Run, NewClientFails, NewClient, PointPanics, PointFails, AddPoint,
              Write, Answered, Exit, Goto
<1>3. ASSUME NEW p \in Procs, Write(p)
      PROVE  net[p] = "none" /\ \A q \in Procs \ {p} : net'[q] = net[q] /\ msg'[q] = msg[q]
  BY Zenon, <1>3 DEF Write, Goto, IInv, TypeOK, HandlerInv
<1>4. ASSUME NEW p \in Procs, Lost(p) \/ ServerStep(p) \/ ServerTrouble(p)
      PROVE  /\ inv' = inv /\ msg' = msg
             /\ \/ net' = net
                \/ net[p] = "sent" /\ \E s \in {"lost", "taken"} : net' = [net EXCEPT ![p] = s]
  BY Zenon, <1>4 DEF Lost, Lose, ServerStep, ServerTrouble, ServeHTTP, RefuseWrite, StartWrite,
              AllReceived, Abandon, Receive, ReceiveError, MapShardsFails, Take, handlerVars,
              wireVars
<1>5. ASSUME NEW p \in Procs, NEW g \in Groups, ShardStep(p, g)
      PROVE  inv' = inv /\ msg' = msg /\ net' = net
  BY Zenon, <1>5 DEF ShardStep, WriteShard, WriteToShard, CreateShardFails, WriteToShardFails, GoTo,
              handlerVars, wireVars
<1>6. CASE \E p \in Procs : ProcessStep(p) \/ ConnBreaks(p) \/ Killed(p)
  BY Zenon, <1>2, <1>3, <1>6 DEF wireVars
<1>7. CASE \E p \in Procs : Lost(p) \/ ServerStep(p) \/ ServerTrouble(p)
  BY <1>4, <1>7 DEF IInv, TypeOK
<1>8. CASE \E p \in Procs, g \in Groups : ShardStep(p, g)
  BY Zenon, <1>5, <1>8
<1> QED BY Zenon, <1>1, <1>6, <1>7, <1>8 DEF Next

\* What the points of a taken request are.
LEMMA RequestPoints ==
  ASSUME IInv, NEW p \in Procs, Faithful(p), NEW g
  PROVE  /\ Len(Points(p)) \in Nat
         /\ \A i \in InGroup(msg[p], g) :
              /\ i \in DOMAIN Points(p) /\ i \in 1 .. Len(Points(p))
              /\ CellAt(msg[p], i) = CellOf(p, i)
              /\ GroupOf(CellOf(p, i).time) = g
              /\ msg[p].body[i].val = Points(p)[i].value
<1>1. Points(p) \in Seq({Points(p)[i] : i \in DOMAIN Points(p)})
  BY Zenon, PointsAreList DEF Faithful, IInv, TypeOK
<1>2. Len(Points(p)) \in Nat /\ DOMAIN Points(p) = 1 .. Len(Points(p))
  BY <1>1
<1>3. ASSUME NEW i \in InGroup(msg[p], g)
      PROVE  /\ i \in DOMAIN Points(p) /\ msg[p].body[i] = LineOf(p, i)
             /\ CellAt(msg[p], i) = CellOf(p, i)
             /\ GroupOf(CellOf(p, i).time) = g
  BY Zenon, <1>3 DEF InGroup, Parsed, Lines, Faithful, CellAt, CellOf
<1>4. ASSUME NEW i PROVE LineOf(p, i).val = Points(p)[i].value
  BY Zenon DEF LineOf, PrecisionString, Translate
<1> QED BY Zenon, <1>2, <1>3, <1>4

\* What a step does to one cell: it stays, or gets the value of a point of a
\* request that is being written.
LEMMA CellStep ==
  ASSUME IInv, [Next]_vars, NEW c \in DOMAIN db'
  PROVE  \/ c \in DOMAIN db /\ db'[c] = db[c]
         \/ \E p \in Procs, g \in Groups :
              /\ Running(p, g)
              /\ \E i \in InGroup(msg[p], g) :
                   CellOf(p, i) = c /\ db'[c] = Points(p)[i].value
<1>1. CASE db' = db
  BY Zenon, <1>1
<1>2. CASE db' # db
  <2>1. PICK p \in Procs, g \in Groups :
          /\ Running(p, g)
          /\ \E I \in SUBSET InGroup(msg[p], g) : db' = Apply(db, msg[p], I)
    BY Zenon, <1>2, DatabaseStep
  <2>2. PICK I \in SUBSET InGroup(msg[p], g) : db' = Apply(db, msg[p], I)
    BY Zenon, <2>1
  <2>3. Faithful(p)
    BY Zenon, <2>1, RunningIsTaken
  <2>4. Len(Points(p)) \in Nat /\ \A i \in I : i \in 1 .. Len(Points(p))
    BY Zenon, <2>3, RequestPoints
  <2>5. \/ c \in DOMAIN db /\ Apply(db, msg[p], I)[c] = db[c]
        \/ \E i \in I : CellAt(msg[p], i) = c /\ Apply(db, msg[p], I)[c] = msg[p].body[i].val
    <3>1. c \in DOMAIN Apply(db, msg[p], I)
      BY Zenon, <2>2
    <3>2. \E n \in Nat : \A i \in I : i \in 1 .. n
      BY Zenon, <2>4
    <3> QED BY SMTT(30), <3>1, <3>2, ApplyAt
  <2>6. \A i \in I : /\ CellAt(msg[p], i) = CellOf(p, i)
                     /\ msg[p].body[i].val = Points(p)[i].value
    BY Zenon, <2>3, RequestPoints
  <2> QED BY Zenon, <2>1, <2>2, <2>5, <2>6
<1> QED BY Zenon, <1>1, <1>2

\* Nothing is stored but points of accepted events, each in its cell with its
\* value; an event the handler refuses or panics on leaves no trace.
THEOREM ProvenanceHolds == Spec => []Provenance
<1> DEFINE Source(p, c, v) ==
             /\ net[p] = "taken" /\ Accepts(inv[p])
             /\ \A i \in DOMAIN Points(p) : Good(p, i)
             /\ \E i \in DOMAIN Points(p) : CellOf(p, i) = c /\ Points(p)[i].value = v
<1>1. Provenance <=> \A c \in DOMAIN db : \E p \in Procs : Source(p, c, db[c])
  BY Zenon DEF Provenance, Good
<1>2. Provenance' <=> \A c \in DOMAIN db' : \E p \in Procs : Source(p, c, db[c])'
  BY Zenon DEF Provenance, Good
<1>3. Init => Provenance
  BY SMTT(30) DEF Init, ServerInit, Provenance
<1>4. IInv /\ Provenance /\ [Next]_vars => Provenance'
  <2> SUFFICES ASSUME IInv, Provenance, [Next]_vars, NEW c \in DOMAIN db'
               PROVE  \E p \in Procs : Source(p, c, db[c])'
    BY Zenon, <1>2
  <2>1. ASSUME NEW p \in Procs, Source(p, c, db'[c]) PROVE Source(p, c, db[c])'
    BY Zenon, <2>1, ExchangeStep, EventFrame
  <2>2. CASE c \in DOMAIN db /\ db'[c] = db[c]
    <3>1. PICK p \in Procs : Source(p, c, db'[c])
      BY SMTT(30), <1>1, <2>2
    <3> HIDE DEF Source
    <3> QED BY Zenon, <2>1, <3>1
  <2>3. ASSUME NEW p \in Procs, NEW g \in Groups, Running(p, g), NEW i \in InGroup(msg[p], g),
               CellOf(p, i) = c, db'[c] = Points(p)[i].value
        PROVE  Source(p, c, db'[c])
    <3>1. net[p] = "taken" /\ Faithful(p)
      BY Zenon, <2>3, RunningIsTaken
    <3>2. i \in DOMAIN Points(p)
      BY Zenon, <3>1, RequestPoints
    <3> QED BY Zenon, <2>3, <3>1, <3>2 DEF Faithful
  <2> HIDE DEF Source
  <2> QED BY Zenon, <2>1, <2>2, <2>3, CellStep
<1> QED BY <1>3, <1>4, InductiveInvariant, PTL DEF Spec

\* No cell is lost, and a handler's success is the end of its writes: what
\* changes a cell is a request that has not been answered 204.
THEOREM AckIsFinalHolds == Spec => AckIsFinal
<1>1. ASSUME IInv, [Next]_vars, NEW c \in DOMAIN db
      PROVE  /\ c \in DOMAIN db'
             /\ db'[c] # db[c] =>
                  \E p \in Procs :
                    /\ exit[p] # "ok" /\ resp[p] # 204
                    /\ net[p] = "taken"
                    /\ \E i \in DOMAIN Points(p) : CellOf(p, i) = c
  <2>1. c \in DOMAIN db'
    BY <1>1, DatabaseStep, ApplyDomain
  <2>2. ASSUME db'[c] # db[c]
        PROVE  \E p \in Procs :
                 /\ exit[p] # "ok" /\ resp[p] # 204
                 /\ net[p] = "taken"
                 /\ \E i \in DOMAIN Points(p) : CellOf(p, i) = c
    <3>1. PICK p \in Procs, g \in Groups :
            Running(p, g) /\ \E i \in InGroup(msg[p], g) : CellOf(p, i) = c
      BY Zenon, <1>1, <2>1, <2>2, CellStep
    <3>2. /\ exit[p] # "ok" /\ resp[p] # 204 /\ net[p] = "taken" /\ Faithful(p)
      BY <1>1, <3>1, RunningIsTaken
    <3>3. \E i \in DOMAIN Points(p) : CellOf(p, i) = c
      BY Zenon, <1>1, <3>1, <3>2, RequestPoints
    <3> QED BY Zenon, <3>2, <3>3
  <2> QED BY Zenon, <2>1, <2>2
<1>2. IInv /\ [Next]_vars =>
        [\A c \in DOMAIN db :
           /\ c \in DOMAIN db'
           /\ db'[c] # db[c] =>
                \E p \in Procs :
                  /\ exit[p] # "ok" /\ resp[p] # 204
                  /\ net[p] = "taken"
                  /\ \E i \in DOMAIN Points(p) : CellOf(p, i) = c]_db
  BY Zenon, <1>1
<1> QED BY <1>2, InductiveInvariant, PTL DEF Spec, AckIsFinal

-----------------------------------------------------------------------------
\* The last of several points for a cell.

Latest(p, i) == \A j \in DOMAIN Points(p) : j > i => CellOf(p, j) # CellOf(p, i)

OnlyWriter(p, i) ==
  \A q \in Procs \ {p} :
    net[q] # "none" => \A j \in DOMAIN Points(q) : CellOf(q, j) # CellOf(p, i)

\* A group that has been written without error holds its last values: the
\* other groups of the request have other cells, and a goroutine that has
\* reported is not running again.
LastInv ==
  \A p \in Procs : \A g \in Groups :
    goro[p][g] \in {"ok", "received"} =>
      \A i \in InGroup(msg[p], g) :
        Latest(p, i) /\ OnlyWriter(p, i) => db[CellOf(p, i)] = Points(p)[i].value

\* A goroutine that reports success has just written its whole group.
LEMMA SuccessStep ==
  ASSUME IInv, [Next]_vars, NEW p \in Procs, NEW g \in Groups,
         goro'[p][g] \in {"ok", "received"}
  PROVE  \/ goro[p][g] \in {"ok", "received"}
         \/ Running(p, g) /\ db' = Apply(db, msg[p], InGroup(msg[p], g))
<1>1. CASE UNCHANGED vars
  BY Zenon, <1>1 DEF vars, serverVars
<1>2. ASSUME NEW q \in Procs, ProcessStep(q) \/ ConnBreaks(q) \/ Killed(q) \/ Lost(q)
      PROVE  goro' = goro
  BY Zenon, <1>2 DEF ProcessStep, ConnBreaks, Killed, Lost, serverVars
<1>3. ASSUME NEW q \in Procs, ServerStep(q) \/ ServerTrouble(q)
      PROVE  goro[p][g] \in {"ok", "received"}
  <2>1. CASE StartWrite(q)
    BY <2>1 DEF StartWrite, IInv, TypeOK
  <2>2. ASSUME NEW h \in Groups, Receive(q, h) PROVE goro[p][g] \in {"ok", "received"}
    BY <2>2 DEF Receive, IInv, TypeOK
  <2>3. CASE goro' = goro
    BY Zenon, <2>3
  <2> QED BY Zenon, <1>3, <2>1, <2>2, <2>3 DEF ServerStep, ServerTrouble, ServeHTTP, RefuseWrite,
             AllReceived, Abandon, ReceiveError, MapShardsFails
<1>4. ASSUME NEW q \in Procs, NEW h \in Groups, ShardStep(q, h),
             goro[p][g] \notin {"ok", "received"}
      PROVE  Running(p, g) /\ db' = Apply(db, msg[p], InGroup(msg[p], g))
  <2>1. CASE WriteToShard(q, h)
    <3> DEFINE taken == {i \in InGroup(msg[q], h) : ~Refused(msg[q].body[i])}
    <3>1. Running(q, h) /\ db' = Apply(db, msg[q], taken)
      BY Zenon, <2>1 DEF WriteToShard
    <3>2. q = p /\ h = g /\ taken = InGroup(msg[q], h)
      BY SMTT(30), <1>4, <2>1 DEF WriteToShard, GoTo, IInv, TypeOK
    <3> QED BY Zenon, <3>1, <3>2
  <2>2. CASE CreateShardFails(q, h)
    BY <1>4, <2>2 DEF CreateShardFails, GoTo, IInv, TypeOK
  <2>3. CASE WriteToShardFails(q, h)
    BY <1>4, <2>3 DEF WriteToShardFails, GoTo, IInv, TypeOK
  <2> QED BY Zenon, <1>4, <2>1, <2>2, <2>3 DEF ShardStep, WriteShard
<1> QED BY Zenon, <1>1, <1>2, <1>3, <1>4 DEF Next

\* LastInv is preserved: a step either leaves the cell alone or is the write
\* of the whole group.
LEMMA LastStep == IInv /\ LastInv /\ [Next]_vars => LastInv'
<1> SUFFICES ASSUME IInv, LastInv, [Next]_vars, NEW p \in Procs, NEW g \in Groups,
                    goro'[p][g] \in {"ok", "received"},
                    NEW i \in InGroup(msg[p], g)', Latest(p, i)', OnlyWriter(p, i)'
             PROVE  db'[CellOf(p, i)'] = Points(p)[i].value'
  BY Zenon DEF LastInv
<1>1. net[p] = "taken" /\ Faithful(p)
  <2>1. goro[p][g] \in {"ok", "received"} \/ Running(p, g)
    BY Zenon, SuccessStep
  <2> QED BY ZenonT(30), <2>1, RunningIsTaken DEF IInv, ServerInv, HandlerInv
<1>2. inv' = inv /\ msg'[p] = msg[p]
  BY Zenon, <1>1, ExchangeStep
<1>3. i \in InGroup(msg[p], g)
  BY Zenon, <1>2
<1> DEFINE c == CellOf(p, i)
           v == Points(p)[i].value
<1>4. CellOf(p, i)' = c /\ Points(p)[i].value' = v
  BY Zenon, <1>2, EventFrame
<1>5. Latest(p, i)
  BY Zenon, <1>2, EventFrame DEF Latest
<1>6. OnlyWriter(p, i)
  BY SMTT(30), <1>2, ExchangeStep, EventFrame DEF OnlyWriter
<1>7. i \in DOMAIN Points(p) /\ CellAt(msg[p], i) = c /\ GroupOf(c.time) = g
  <2>1. \A k \in InGroup(msg[p], g) :
          /\ k \in DOMAIN Points(p) /\ CellAt(msg[p], k) = CellOf(p, k)
          /\ GroupOf(CellOf(p, k).time) = g
    BY <1>1, RequestPoints, Zenon
  <2> QED BY <1>3, <2>1, Zenon
<1>8. CASE goro[p][g] \in {"ok", "received"}
  <2>1. db[c] = v
    BY Zenon, <1>3, <1>5, <1>6, <1>8 DEF LastInv
  <2>2. c \in DOMAIN db
    <3>1. c \in GroupCells(p, g)
      BY Zenon, <1>3, <1>7 DEF GroupCells
    <3> QED BY Zenon, <1>8, <3>1 DEF IInv, ServerInv
  <2>3. c \in DOMAIN db'
    BY <2>2, DatabaseStep, ApplyDomain, SMTT(20)
  <2>4. ASSUME NEW q \in Procs, NEW h \in Groups, Running(q, h), NEW j \in InGroup(msg[q], h),
               CellOf(q, j) = c
        PROVE  FALSE
    <3>1. net[q] = "taken" /\ Faithful(q)
      BY Zenon, <2>4, RunningIsTaken
    <3>2. j \in DOMAIN Points(q) /\ GroupOf(CellOf(q, j).time) = h
      BY Zenon, <3>1, RequestPoints
    <3>3. CASE q = p
      BY Zenon, <1>7, <1>8, <2>4, <3>2, <3>3 DEF Running
    <3>4. CASE q # p
      BY Zenon, <1>6, <2>4, <3>1, <3>2, <3>4 DEF OnlyWriter
    <3> QED BY Zenon, <3>3, <3>4
  <2> HIDE DEF c, v
  <2>5. db'[c] = db[c]
    BY Zenon, <2>3, <2>4, CellStep
  <2> QED BY Zenon, <1>4, <2>1, <2>5
<1>9. CASE goro[p][g] \notin {"ok", "received"}
  <2> DEFINE I == InGroup(msg[p], g)
  <2>1. db' = Apply(db, msg[p], I)
    BY Zenon, <1>9, SuccessStep
  <2>2. \E n \in Nat : \A k \in I : k \in 1 .. n
    BY Zenon, <1>1, RequestPoints
  <2>3. \A k \in I : /\ k \in DOMAIN Points(p) /\ k \in Nat
                     /\ CellAt(msg[p], k) = CellOf(p, k)
                     /\ msg[p].body[k].val = Points(p)[k].value
    <3> TAKE k \in I
    <3>1. /\ k \in DOMAIN Points(p) /\ k \in 1 .. Len(Points(p)) /\ Len(Points(p)) \in Nat
          /\ CellAt(msg[p], k) = CellOf(p, k)
          /\ msg[p].body[k].val = Points(p)[k].value
      BY <1>1, RequestPoints, Zenon
    <3> QED BY SMTT(30), <3>1
  <2> HIDE DEF I
  <2>4. i \in I
    BY Zenon, <1>3 DEF I
  <2>5. c \in DOMAIN Apply(db, msg[p], I)
    BY Zenon, <1>7, <2>4, ApplyDomain
  <2>6. PICK k \in I : /\ CellAt(msg[p], k) = c
                       /\ \A j \in I : CellAt(msg[p], j) = c => j <= k
                       /\ Apply(db, msg[p], I)[c] = msg[p].body[k].val
    <3> HIDE DEF c
    <3>1. CellAt(msg[p], i) = c
      BY Zenon, <1>7
    <3>2. \/ \A k \in I : CellAt(msg[p], k) # c
          \/ \E k \in I : /\ CellAt(msg[p], k) = c
                         /\ \A j \in I : CellAt(msg[p], j) = c => j <= k
                         /\ Apply(db, msg[p], I)[c] = msg[p].body[k].val
      BY SMTT(30), <2>2, <2>5, ApplyAt
    <3> QED BY Zenon, <3>1, <3>2, <2>4
  <2>7. i <= k /\ ~(k > i)
    BY Zenon, <1>5, <1>7, <2>3, <2>4, <2>6 DEF Latest
  <2>8. k = i
    <3>1. k \in Nat /\ i \in Nat
      BY Zenon, <2>3, <2>4
    <3> QED BY <3>1, <2>7
  <2> QED BY Zenon, <1>4, <2>1, <2>3, <2>6, <2>8
<1> QED BY Zenon, <1>8, <1>9

\* A successful handler's last point for a cell is what is read back, unless
\* another process has written to the same cell: repeated shard writes,
\* abandoned requests of other processes and the order in which shards finish
\* do not matter.
THEOREM LastPointWinsHolds == Spec => []LastPointWins
<1>1. Init => LastInv
  BY Zenon DEF Init, ServerInit, LastInv
<1>2. IInv /\ LastInv => LastPointWins
  <2> SUFFICES ASSUME IInv, LastInv, NEW p \in Procs, exit[p] = "ok",
                      NEW i \in DOMAIN Points(p), ~IsComment(LineOf(p, i)),
                      Latest(p, i), OnlyWriter(p, i)
               PROVE  db[CellOf(p, i)] = Points(p)[i].value
    BY Zenon DEF LastPointWins, Latest, OnlyWriter
  <2>1. PICK g \in Groups : i \in InGroup(msg[p], g) /\ goro[p][g] = "received"
    BY Zenon, AckedLines
  <2> QED BY Zenon, <2>1 DEF LastInv
<1> QED BY <1>1, <1>2, LastStep, InductiveInvariant, PTL DEF Spec
=============================================================================
