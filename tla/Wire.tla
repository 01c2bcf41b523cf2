-------------------------------- MODULE Wire --------------------------------
(***************************************************************************)
(* The HTTP exchange between a handler process and InfluxDB.  A process    *)
(* makes one POST on a fresh connection and net/http does not repeat it,   *)
(* so the exchange is indexed by the process.                              *)
(***************************************************************************)
CONSTANTS
  Procs,   \* the handler processes
  NoMsg    \* no request has been written

VARIABLES
  net,     \* net[p]: "none", "sent", "taken" by the server, or "lost"
  msg,     \* msg[p]: the request, NoMsg before it is written
  resp     \* resp[p]: the status code of the answer, 0 before there is one

wireVars == <<net, msg, resp>>

WireInit ==
  /\ net = [p \in Procs |-> "none"]
  /\ msg = [p \in Procs |-> NoMsg]
  /\ resp = [p \in Procs |-> 0]

\* The connection fails before the server has the request.
Lose(p) ==
  /\ net[p] = "sent"
  /\ net' = [net EXCEPT ![p] = "lost"]
  /\ UNCHANGED <<msg, resp>>
=============================================================================
