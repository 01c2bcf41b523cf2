---------------------------- MODULE SensuHandler ----------------------------
(***************************************************************************)
(* The processes of sensu-influxdb-handler (main.go).  Sensu starts one    *)
(* per event; each parses its flags, reads an event, builds a batch with   *)
(* one point per metric point, writes it with a single POST and exits.     *)
(* Closing the HTTP client (twice, on the successful path) only drops idle *)
(* connections and is no step of the model.                                *)
(***************************************************************************)
EXTENDS MetricPoint, Wire

CONSTANTS
  Invocations,  \* the command lines, environments and inputs considered
  BadAddrs,     \* addresses NewHTTPClient refuses
  DefaultAddr,  \* http://localhost:8086
  ServerAddr    \* where InfluxDB listens

\* The points of an event are a list, of int64 timestamps.
ASSUME InvocationsAssumption ==
  \A v \in Invocations :
    v.event.points # Null =>
      LET points == v.event.points
      IN  /\ points \in Seq({points[i] : i \in DOMAIN points})
          /\ \A i \in DOMAIN points : points[i] # Null => points[i].ts \in Int64

VARIABLES
  pc,    \* pc[p]: the next step of process p
  inv,   \* inv[p]: what p was started with
  bp,    \* bp[p]: the points added to the batch so far
  exit   \* exit[p]: how p ended

handlerVars == <<pc, inv, bp, exit>>

\* The value of a flag: the one given, or its default, which for the
\* address and the user is read from the environment.
Flag(given, default) == IF given = Null THEN default ELSE given

Event(p) == inv[p].event
Points(p) == Event(p).points
Precision(p) == BatchPrecision(Flag(inv[p].precision, "s"))

Addr(p) ==
  LET a == Flag(inv[p].addr, inv[p].addrEnv)
  IN  IF a = "" THEN DefaultAddr ELSE a

User(p) == Flag(inv[p].user, inv[p].userEnv)

\* Event.Validate.  An entity that does not validate is the one named "".
\* Metrics.Validate accepts everything, null points included.
Valid(e) ==
  /\ e.entity # Null
  /\ e.check # "none" \/ e.points # Null
  /\ e.entity # ""
  /\ e.check # "invalid"
  /\ ~e.named

HasMetrics(e) == e.points # Null

-----------------------------------------------------------------------------
HandlerInit ==
  /\ pc = [p \in Procs |-> "execute"]
  /\ inv \in [Procs -> Invocations]
  /\ bp = [p \in Procs |-> << >>]
  /\ exit = [p \in Procs |-> "none"]

Goto(p, from, to) ==
  /\ pc[p] = from
  /\ pc' = [pc EXCEPT ![p] = to]
  /\ UNCHANGED <<inv, exit>>

Exit(p, code) ==
  /\ pc' = [pc EXCEPT ![p] = "exited"]
  /\ exit' = [exit EXCEPT ![p] = code]
  /\ UNCHANGED <<inv, bp>>

\* cobra: a flag that does not parse fails before help is looked at; a
\* required flag only has to be present.
FlagsOK(i) == ~i.badFlag /\ i.db # Null

\* --help prints the usage and ends the program with success.
Help(p) ==
  /\ pc[p] = "execute"
  /\ ~inv[p].badFlag
  /\ inv[p].help
  /\ Exit(p, "help")
  /\ UNCHANGED wireVars

BadUsage(p) ==
  /\ pc[p] = "execute"
  /\ ~FlagsOK(inv[p])
  /\ inv[p].badFlag \/ ~inv[p].help
  /\ Exit(p, "error")
  /\ UNCHANGED wireVars

Execute(p) ==
  /\ Goto(p, "execute", "run")
  /\ FlagsOK(inv[p])
  /\ ~inv[p].help
  /\ UNCHANGED <<bp, wireVars>>

\* run: an argument, an input that cannot be read or is not an event, an
\* invalid event or one without metrics ends the program.
Accepts(i) ==
  /\ i.args = 0
  /\ i.stdin = "event"
  /\ Valid(i.event)
  /\ HasMetrics(i.event)

RunRejects(p) ==
  /\ pc[p] = "run"
  /\ ~Accepts(inv[p])
  /\ Exit(p, "error")
  /\ UNCHANGED wireVars

Run(p) ==
  /\ Goto(p, "run", "client")
  /\ Accepts(inv[p])
  /\ UNCHANGED <<bp, wireVars>>

\* sendMetrics: the client and the batch.
ClientOK(p) == Addr(p) \notin BadAddrs /\ Precision(p) \in Durations

NewClientFails(p) ==
  /\ pc[p] = "client"
  /\ ~ClientOK(p)
  /\ Exit(p, "error")
  /\ UNCHANGED wireVars

NewClient(p) ==
  /\ Goto(p, "client", "loop")
  /\ ClientOK(p)
  /\ UNCHANGED <<bp, wireVars>>

\* The loop over the event's points; the next one is point Len(bp) + 1.
NextPoint(p) == Points(p)[Len(bp[p]) + 1]

PointPanics(p) ==
  /\ pc[p] = "loop"
  /\ Len(bp[p]) < Len(Points(p))
  /\ Dereferences(NextPoint(p))
  /\ Exit(p, "panic")
  /\ UNCHANGED wireVars

\* Mutant: the query does not name the precision.
RequestWithoutPrecision(p) ==
  [db        |-> inv[p].db,
   user      |-> User(p),
   precision |-> "ns",
   body      |-> [i \in DOMAIN bp[p] |-> PrecisionString(bp[p][i], Precision(p))]]

\* The request client.Write makes: the lines of the batch, in order, and the
\* query.
Request(p) ==
  [db        |-> inv[p].db,
   user      |-> User(p),
   precision |-> Precision(p),
   body      |-> [i \in DOMAIN bp[p] |-> PrecisionString(bp[p][i], Precision(p))]]

\* Mutant: a bad point ends the loop, and what was added is written.
BreakOnBadPoint(p) ==
  /\ Goto(p, "loop", "await")
  /\ Len(bp[p]) < Len(Points(p))
  /\ ~Dereferences(NextPoint(p))
  /\ ~NewPointOK(Translate(NextPoint(p), Event(p).entity))
  /\ msg' = [msg EXCEPT ![p] = Request(p)]
  /\ net' = [net EXCEPT ![p] = "sent"]
  /\ UNCHANGED <<bp, resp>>

\* One bad point abandons the batch, the points already added included.
PointFails(p) ==
  /\ pc[p] = "loop"
  /\ Len(bp[p]) < Len(Points(p))
  /\ ~Dereferences(NextPoint(p))
  /\ ~NewPointOK(Translate(NextPoint(p), Event(p).entity))
  /\ Exit(p, "error")
  /\ UNCHANGED wireVars

AddPoint(p) ==
  /\ Goto(p, "loop", "loop")
  /\ Len(bp[p]) < Len(Points(p))
  /\ ~Dereferences(NextPoint(p))
  /\ LET pt == Translate(NextPoint(p), Event(p).entity)
     IN  /\ NewPointOK(pt)
         /\ bp' = [bp EXCEPT ![p] = Append(@, pt)]
  /\ UNCHANGED wireVars

\* client.Write.
Write(p) ==
  /\ Goto(p, "loop", "await")
  /\ Len(bp[p]) = Len(Points(p))
  /\ msg' = [msg EXCEPT ![p] = Request(p)]
  /\ net' = [net EXCEPT ![p] = IF Addr(p) = ServerAddr THEN "sent" ELSE "lost"]
  /\ UNCHANGED <<bp, resp>>

\* Mutant: only the server's own failures are errors.
LaxExitCode(status) == IF status < 500 THEN "ok" ELSE "error"

ExitCode(status) == IF status \in {200, 204} THEN "ok" ELSE "error"

Answered(p) ==
  /\ pc[p] = "await"
  /\ resp[p] # 0
  /\ Exit(p, ExitCode(resp[p]))
  /\ UNCHANGED wireVars

\* The connection is refused, or breaks before the answer is read in full;
\* the request may have reached the server all the same.
ConnError(p) ==
  /\ pc[p] = "await"
  /\ Exit(p, "error")
  /\ UNCHANGED wireVars

\* Sensu's command executor kills the process when the handler's timeout
\* expires, wherever the process is.
Kill(p) ==
  /\ pc[p] # "exited"
  /\ Exit(p, "killed")
  /\ UNCHANGED wireVars

\* The steps the process takes by itself.
Step(p) ==
  \/ Help(p) \/ BadUsage(p) \/ Execute(p)
  \/ RunRejects(p) \/ Run(p)
  \/ NewClientFails(p) \/ NewClient(p)
  \/ PointPanics(p) \/ PointFails(p) \/ AddPoint(p)
  \/ Write(p) \/ Answered(p)
=============================================================================
