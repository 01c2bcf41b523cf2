--------------------------- MODULE HandlerSystem ----------------------------
(***************************************************************************)
(* The handler processes, the network and InfluxDB together, and what an   *)
(* operator relies on: what the exit code of a handler says about the      *)
(* database.                                                               *)
(***************************************************************************)
EXTENDS SensuHandler, InfluxServer

vars == <<handlerVars, wireVars, serverVars>>

Init == HandlerInit /\ WireInit /\ ServerInit

ProcessStep(p) == Step(p) /\ UNCHANGED serverVars
ConnBreaks(p) == ConnError(p) /\ UNCHANGED serverVars
Killed(p) == Kill(p) /\ UNCHANGED serverVars
Lost(p) == Lose(p) /\ UNCHANGED <<handlerVars, serverVars>>
ServerStep(p) == ServeHTTP(p) /\ UNCHANGED handlerVars
ServerTrouble(p) == MapShardsFails(p) /\ UNCHANGED handlerVars
ShardStep(p, g) == WriteShard(p, g) /\ UNCHANGED handlerVars

Next ==
  \E p \in Procs :
    \/ ProcessStep(p) \/ ConnBreaks(p) \/ Killed(p)
    \/ Lost(p)
    \/ ServerStep(p) \/ ServerTrouble(p)
    \/ \E g \in Groups : ShardStep(p, g)

Spec == Init /\ [][Next]_vars

\* The kernel schedules a process that can run; the server reads requests,
\* its write timer fires; a connection that failed reports an error.  No
\* shard write is assumed to end, no kill is assumed to come.
Fairness ==
  \A p \in Procs :
    /\ WF_vars(ProcessStep(p))
    /\ WF_vars(ServerStep(p))
    /\ WF_vars(net[p] = "lost" /\ ConnBreaks(p))

FairSpec == Spec /\ Fairness

-----------------------------------------------------------------------------
\* The points of a process's event, straight from the event.

LineOf(p, i) ==
  PrecisionString(Translate(Points(p)[i], Event(p).entity), Precision(p))

CellOf(p, i) == Cell(inv[p].db, LineOf(p, i), Precision(p))

\* Every line process p could write, for the type of the batch.
Batched(p) ==
  {Translate(Points(p)[i], Event(p).entity) :
     i \in {j \in DOMAIN Points(p) : ~Dereferences(Points(p)[j])}}

TypeOK ==
  /\ pc \in [Procs -> {"execute", "run", "client", "loop", "await", "exited"}]
  /\ inv \in [Procs -> Invocations]
  /\ exit \in [Procs -> {"none", "help", "ok", "error", "panic", "killed"}]
  /\ net \in [Procs -> {"none", "sent", "taken", "lost"}]
  /\ resp \in [Procs -> {0, 204, 400, 401, 403, 404, 413, 500}]
  /\ srv \in [Procs -> {"idle", "writing", "answered"}]
  /\ goro \in [Procs -> [Groups -> GoStates]]
  /\ db = [c \in DOMAIN db |-> db[c]]
  /\ DOMAIN bp = Procs
  /\ \A p \in Procs : bp[p] # << >> => bp[p] \in Seq(Batched(p))
  /\ DOMAIN msg = Procs

\* A handler that exits with success has stored every point of its event
\* whose line is not a comment: no refused, dropped, unparsed or unfinished
\* write hides behind exit code 0, and nobody removes the cell afterwards.
AckedStored ==
  \A p \in Procs :
    exit[p] = "ok" =>
      \A i \in DOMAIN Points(p) :
        ~IsComment(LineOf(p, i)) => CellOf(p, i) \in DOMAIN db

\* When the event of a successful handler has several points for one cell and
\* no other process wrote that cell, the value read back is the one of the
\* last of them, repeated shard writes notwithstanding.
LastPointWins ==
  \A p \in Procs :
    exit[p] = "ok" =>
      \A i \in DOMAIN Points(p) :
        (/\ ~IsComment(LineOf(p, i))
         /\ \A j \in DOMAIN Points(p) : j > i => CellOf(p, j) # CellOf(p, i)
         /\ \A q \in Procs \ {p} :
              net[q] # "none" => \A j \in DOMAIN Points(q) : CellOf(q, j) # CellOf(p, i))
          => db[CellOf(p, i)] = Points(p)[i].value

\* Everything in the database was put there for a point of an accepted event
\* all of whose points the client accepted: one bad point keeps the whole
\* event out.
Provenance ==
  \A c \in DOMAIN db :
    \E p \in Procs :
      /\ net[p] = "taken"
      /\ Accepts(inv[p])
      /\ \A i \in DOMAIN Points(p) :
           ~Dereferences(Points(p)[i]) /\ NewPointOK(Translate(Points(p)[i], Event(p).entity))
      /\ \E i \in DOMAIN Points(p) :
           CellOf(p, i) = c /\ Points(p)[i].value = db[c]

\* No cell disappears, and a cell's value changes only on behalf of a request
\* that has not been acknowledged: once its handler has exited with success,
\* a request never touches the database again.  (After a timeout or an error
\* it may.)
AckIsFinal ==
  [][\A c \in DOMAIN db :
       /\ c \in DOMAIN db'
       /\ db'[c] # db[c] =>
            \E p \in Procs :
              /\ exit[p] # "ok" /\ resp[p] # 204
              /\ net[p] = "taken"
              /\ \E i \in DOMAIN Points(p) : CellOf(p, i) = c]_db

\* Every handler process ends, whatever becomes of its request: a shard write
\* that hangs is cut short by the server's write timeout.
EveryProcessExits == \A p \in Procs : <>(pc[p] = "exited")

\* "this handler will populate them into your InfluxDB": a handler that exits
\* with success has stored every metric point of its event.
EveryPointStored ==
  \A p \in Procs :
    exit[p] = "ok" => \A i \in DOMAIN Points(p) : CellOf(p, i) \in DOMAIN db
=============================================================================
