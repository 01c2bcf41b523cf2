---------------------------- MODULE InfluxServer ----------------------------
(***************************************************************************)
(* The write path of InfluxDB that answers the handler's POST: the HTTP    *)
(* handler (authentication, checks of the request, parsing of the lines),  *)
(* the points writer (one goroutine per shard, the first error or the      *)
(* write timeout decides the answer) and the shard (which points it takes).*)
(* A retention policy has one shard per shard group.                       *)
(*                                                                         *)
(* Deleting data (retention enforcement, DROP, DELETE) is left out.        *)
(***************************************************************************)
EXTENDS MetricPoint, Wire

CONSTANTS
  Databases,       \* the databases that exist
  AuthEnabled,     \* [http] auth-enabled
  Authenticated,   \* users whose credentials the server accepts
  Writers,         \* users with the WRITE privilege
  MaxBodySize,     \* in lines; 0 is no limit
  RetentionStarts  \* values of now - rp.Duration while requests are served

VARIABLES
  srv,    \* srv[p]: "idle", "writing" or "answered", for p's request
  goro,   \* goro[p][g]: the goroutine writing p's points of shard group g
  db      \* the value of every cell that can be read back

serverVars == <<srv, goro, db>>

\* "retry" is a goroutine whose first attempt failed; "ok", "partial" and
\* "failed" are results in the channel, "received" a nil error taken from it.
GoStates == {"idle", "run", "retry", "ok", "partial", "failed", "received"}

ServerInit ==
  /\ srv = [p \in Procs |-> "idle"]
  /\ goro = [p \in Procs |-> [g \in Groups |-> "idle"]]
  /\ db = << >>

-----------------------------------------------------------------------------
\* The parsed points of a request, as indices of its body.

Lines(r) == {i \in DOMAIN r.body : ~IsComment(r.body[i])}
Parsed(r) == {i \in Lines(r) : Parses(r.body[i], r.precision)}
CellAt(r, i) == Cell(r.db, r.body[i], r.precision)
InGroup(r, g) == {i \in Parsed(r) : GroupOf(CellAt(r, i).time) = g}

\* Mutant: the first of several points for one cell stays.
ApplyFirst(d, r, I) ==
  LET cells == {CellAt(r, i) : i \in I}
      At(c) == {i \in I : CellAt(r, i) = c}
  IN  [c \in DOMAIN d \cup cells |->
         IF c \in cells
         THEN r.body[CHOOSE i \in At(c) : \A j \in At(c) : i <= j].val
         ELSE d[c]]

\* The engine writes the points in order, so the last of several points for
\* one cell stays.
Apply(d, r, I) ==
  LET cells == {CellAt(r, i) : i \in I}
      At(c) == {i \in I : CellAt(r, i) = c}
  IN  [c \in DOMAIN d \cup cells |->
         IF c \in cells
         THEN r.body[CHOOSE i \in At(c) : \A j \in At(c) : j <= i].val
         ELSE d[c]]

-----------------------------------------------------------------------------
\* authenticate and the checks of serveWrite, in their order; 0 when the
\* request passes them.
RefusalCode(r) ==
  CASE AuthEnabled /\ r.user \notin Authenticated       -> 401
    [] r.db = ""                                        -> 400
    [] r.db \notin Databases                            -> 404
    [] AuthEnabled /\ r.user \notin Writers             -> 403
    [] MaxBodySize > 0 /\ Len(r.body) > MaxBodySize     -> 413
    [] Parsed(r) = {} /\ Lines(r) # {}                  -> 400
    [] OTHER                                            -> 0

Answer(p, code) ==
  /\ resp' = [resp EXCEPT ![p] = code]
  /\ srv' = [srv EXCEPT ![p] = "answered"]

Take(p) ==
  /\ net[p] = "sent"
  /\ net' = [net EXCEPT ![p] = "taken"]
  /\ UNCHANGED <<msg, db>>

RefuseWrite(p) ==
  /\ Take(p)
  /\ RefusalCode(msg[p]) # 0
  /\ Answer(p, RefusalCode(msg[p]))
  /\ UNCHANGED goro

\* The retention policy is gone or no shard group can be created.
MapShardsFails(p) ==
  /\ Take(p)
  /\ RefusalCode(msg[p]) = 0
  /\ Answer(p, 500)
  /\ UNCHANGED goro

\* MapShards creates a shard group for every point inside the retention
\* policy; a point outside it is still mapped when its group is among them.
MapShards(r, min) ==
  {GroupOf(CellAt(r, i).time) : i \in {j \in Parsed(r) : CellAt(r, j).time >= min}}

StartWrite(p) ==
  /\ Take(p)
  /\ RefusalCode(msg[p]) = 0
  /\ \E min \in RetentionStarts :
       goro' = [goro EXCEPT ![p] =
                 [g \in Groups |->
                    IF g \in MapShards(msg[p], min) THEN "run" ELSE "idle"]]
  /\ srv' = [srv EXCEPT ![p] = "writing"]
  /\ UNCHANGED resp

-----------------------------------------------------------------------------
\* The goroutine of a shard.

GoTo(p, g, state) ==
  /\ goro' = [goro EXCEPT ![p][g] = state]
  /\ UNCHANGED <<srv, wireVars>>

\* Mutant: the retry does not stop at success.
RunningOn(p, g) == goro[p][g] \in {"run", "retry", "received"}

Running(p, g) == goro[p][g] \in {"run", "retry"}

\* Shard.WritePoints: refused points are dropped and reported, the rest is
\* written.
WriteToShard(p, g) ==
  LET I == InGroup(msg[p], g)
      taken == {i \in I : ~Refused(msg[p].body[i])}
  IN  /\ Running(p, g)
      /\ db' = Apply(db, msg[p], taken)
      /\ GoTo(p, g, IF taken = I THEN "ok" ELSE "partial")

\* The shard does not exist in the store and cannot be created: nothing is
\* written.  A shard that is being deleted counts as a partial write.
CreateShardFails(p, g) ==
  /\ goro[p][g] = "run"
  /\ \E result \in {"partial", "failed"} : GoTo(p, g, result)
  /\ UNCHANGED db

\* Any other error, with the points that had reached the cache before it (none
\* when the shard had to be created first); the first attempt is repeated.
WriteToShardFails(p, g) ==
  /\ Running(p, g)
  /\ \E I \in SUBSET {i \in InGroup(msg[p], g) : ~Refused(msg[p].body[i])} :
       db' = Apply(db, msg[p], I)
  /\ GoTo(p, g, IF goro[p][g] = "run" THEN "retry" ELSE "failed")

-----------------------------------------------------------------------------
\* WritePointsPrivileged waits for the goroutines, and serveWrite answers.

Receive(p, g) ==
  /\ srv[p] = "writing"
  /\ goro[p][g] = "ok"
  /\ goro' = [goro EXCEPT ![p][g] = "received"]
  /\ UNCHANGED <<srv, db, wireVars>>

\* The first error is the answer; the other goroutines go on.
ReceiveError(p, g) ==
  /\ srv[p] = "writing"
  /\ goro[p][g] \in {"partial", "failed"}
  /\ Answer(p, IF goro[p][g] = "partial" THEN 400 ELSE 500)
  /\ UNCHANGED <<goro, db, net, msg>>

\* Mutant: the timer is only looked at between results.
AbandonLate(p) ==
  /\ srv[p] = "writing"
  /\ \E g \in Groups : goro[p][g] \notin {"idle", "received"}
  /\ \A g \in Groups : goro[p][g] \notin {"run", "retry"}
  /\ Answer(p, 500)
  /\ UNCHANGED <<goro, db, net, msg>>

\* The write timeout, or the server closing.
Abandon(p) ==
  /\ srv[p] = "writing"
  /\ \E g \in Groups : goro[p][g] \notin {"idle", "received"}
  /\ Answer(p, 500)
  /\ UNCHANGED <<goro, db, net, msg>>

\* A line that did not parse or a point outside the retention policy turns
\* the answer into a partial-write error.
Complete(r, gs) ==
  Parsed(r) = Lines(r) /\ \A i \in Parsed(r) : gs[GroupOf(CellAt(r, i).time)] # "idle"

\* Mutant: the first result decides.
FirstReceived(p) ==
  /\ srv[p] = "writing"
  /\ \E g \in Groups : goro[p][g] = "received"
  /\ Answer(p, IF Complete(msg[p], goro[p]) THEN 204 ELSE 400)
  /\ UNCHANGED <<goro, db, net, msg>>

AllReceived(p) ==
  /\ srv[p] = "writing"
  /\ \A g \in Groups : goro[p][g] \in {"idle", "received"}
  /\ Answer(p, IF Complete(msg[p], goro[p]) THEN 204 ELSE 400)
  /\ UNCHANGED <<goro, db, net, msg>>

ServeHTTP(p) ==
  \/ RefuseWrite(p) \/ StartWrite(p) \/ AllReceived(p) \/ Abandon(p)
  \/ \E g \in Groups : Receive(p, g) \/ ReceiveError(p, g)

WriteShard(p, g) ==
  WriteToShard(p, g) \/ CreateShardFails(p, g) \/ WriteToShardFails(p, g)
=============================================================================
