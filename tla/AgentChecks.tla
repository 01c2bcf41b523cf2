----------------------------- MODULE AgentChecks ----------------------------
(***************************************************************************)
(* Check requests in the agent (sensu-go agent/check_handler.go, hook.go,  *)
(* agent.go): every message is handled by a goroutine of its own, which    *)
(* refuses a check that the map inProgress holds and otherwise starts a    *)
(* goroutine that puts it there, runs the command and perhaps a hook, puts *)
(* the event into sendq and takes the check out of the map.                *)
(***************************************************************************)
EXTENDS CommandExecute, Sequences

CONSTANTS
  Requests,
  Key,         \* Key[r]: checkKey(r), the check's name and proxy entity
  Unencodable, \* requests whose event json.Marshal refuses (a metric is NaN)
  QueueCap,    \* capacity of sendq
  Overlapping  \* two requests of one check may be handled at the same time

\* The commands a request runs.
Parts == {"check", "hook"}

ASSUME RequestsAssumption == Executions = Requests \X Parts
ASSUME OverlappingAssumption == Overlapping \in BOOLEAN
ASSUME QueueAssumption == QueueCap \in Nat \ {0}

VARIABLES
  rpc,    \* rpc[r]: where the goroutines of request r are
  sendq,  \* requests whose event waits to be sent
  sent    \* requests whose event was given to the connection

agentVars == <<rpc, sendq, sent>>
vars == <<execVars, agentVars>>

Init ==
  /\ ExecInit
  /\ rpc = [r \in Requests |-> "new"]
  /\ sendq = << >>
  /\ sent = {}

Request(r, from, to) ==
  /\ ~panicked
  /\ rpc[r] = from
  /\ rpc' = [rpc EXCEPT ![r] = to]

Undisturbed(r) ==
  Overlapping \/ \A q \in Requests : Key[q] = Key[r] => rpc[q] # "add"

-----------------------------------------------------------------------------
\* Mutant: the map is not looked at.
HandleAnyCheck(r) ==
  /\ Undisturbed(r)
  /\ \/ Request(r, "new", "add")
     \/ Request(r, "new", "reject")
     \/ Request(r, "new", "refused")
  /\ UNCHANGED <<sendq, sent, execVars>>

\* handleCheck: refused, invalid, or scheduled.
HandleCheck(r) ==
  /\ Undisturbed(r)
  /\ IF Key[r] \in inProgress
     THEN Request(r, "new", "refused")
     ELSE Request(r, "new", "add") \/ Request(r, "new", "reject")
  /\ UNCHANGED <<sendq, sent, execVars>>

\* executeCheck begins.
AddInProgress(r) ==
  /\ Request(r, "add", "prepare")
  /\ inProgress' = inProgress \cup {Key[r]}
  /\ UNCHANGED <<epc, cancelled, timer, proc, kids, exit, result, panicked, sendq, sent>>

\* Token substitution, assets or marshalling fail: the event says so.
PrepareFails(r) ==
  /\ Request(r, "prepare", "send")
  /\ UNCHANGED <<sendq, sent, execVars>>

RunCheck(r) ==
  /\ Request(r, "prepare", "check")
  /\ Begin(<<r, "check">>)
  /\ UNCHANGED <<sendq, sent>>

Ended(r, part) == epc[<<r, part>>] = "done"

\* Without a response, its Duration is read all the same.
ResponseIsNil(r) ==
  /\ \E part \in Parts :
       /\ Request(r, part, part)
       /\ Ended(r, part)
       /\ result[<<r, part>>] = Failed
  /\ panicked' = TRUE
  /\ UNCHANGED <<epc, cancelled, timer, proc, kids, exit, result, inProgress, sendq, sent>>

\* ExecuteHooks, when the status asks for a hook.
RunHook(r) ==
  /\ Ended(r, "check")
  /\ result[<<r, "check">>] # Failed
  /\ Request(r, "check", "hook")
  /\ Begin(<<r, "hook">>)
  /\ UNCHANGED <<sendq, sent>>

\* Mutant: a check that timed out is not reported.
ReportFinished(r) ==
  /\ \E part \in Parts :
       /\ Request(r, part, "send")
       /\ Ended(r, part)
       /\ result[<<r, part>>] \notin {Failed, TimedOut}
  /\ UNCHANGED <<sendq, sent, execVars>>

\* The event is made; one that cannot be encoded is logged and dropped.
ReportCheck(r) ==
  /\ \E part \in Parts :
       /\ Request(r, part, IF r \in Unencodable THEN "remove" ELSE "send")
       /\ Ended(r, part)
       /\ result[<<r, part>>] # Failed
  /\ UNCHANGED <<sendq, sent, execVars>>

\* sendMessage blocks while sendq is full.
SendMessage(r) ==
  /\ Len(sendq) < QueueCap
  /\ Request(r, "send", "remove") \/ Request(r, "reject", "done")
  /\ sendq' = Append(sendq, r)
  /\ UNCHANGED <<sent, execVars>>

\* Mutant: the deferred removal is missing.
KeepInProgress(r) ==
  /\ Request(r, "remove", "done")
  /\ UNCHANGED <<sendq, sent, execVars>>

\* The deferred removeInProgress.
RemoveInProgress(r) ==
  /\ Request(r, "remove", "done")
  /\ inProgress' = inProgress \ {Key[r]}
  /\ UNCHANGED <<epc, cancelled, timer, proc, kids, exit, result, panicked, sendq, sent>>

\* sendLoop, on a connection that works.
SendLoop ==
  /\ ~panicked
  /\ sendq # << >>
  /\ sent' = sent \cup {Head(sendq)}
  /\ sendq' = Tail(sendq)
  /\ UNCHANGED <<rpc, execVars>>

-----------------------------------------------------------------------------
ExecuteCheck(r) ==
  \/ AddInProgress(r) \/ PrepareFails(r) \/ RunCheck(r) \/ ResponseIsNil(r) \/ RunHook(r)
  \/ ReportCheck(r) \/ SendMessage(r) \/ RemoveInProgress(r)

Next ==
  \/ \E r \in Requests : HandleCheck(r) \/ ExecuteCheck(r)
  \/ SendLoop
  \/ /\ \E e \in Executions :
          ExecuteStep(e) \/ TimerStep(e) \/ ProcessStep(e) \/ WatcherKills(e)
     /\ UNCHANGED agentVars

Spec == Init /\ [][Next]_vars

\* Goroutines and the timer are scheduled and the connection works; what a
\* command does is up to it.
Fairness ==
  /\ \A r \in Requests : WF_vars(ExecuteCheck(r))
  /\ \A e \in Executions :
       /\ WF_vars(ExecuteStep(e) /\ UNCHANGED agentVars)
       /\ WF_vars(TimerStep(e) /\ UNCHANGED agentVars)
       /\ WF_vars(WatcherKills(e) /\ UNCHANGED agentVars)
  /\ WF_vars(SendLoop)

FairSpec == Spec /\ Fairness

-----------------------------------------------------------------------------
TypeOK ==
  /\ ExecTypeOK
  /\ rpc \in [Requests -> {"new", "refused", "reject", "add", "prepare", "check", "hook",
                           "send", "remove", "done"}]
  /\ inProgress \subseteq {Key[r] : r \in Requests}
  /\ sendq \in Seq(Requests)
  /\ sent \subseteq Requests

Running(r) == rpc[r] \in {"check", "hook"}

\* No execution was struck from the map while it ran.
NoEscape == \A e \in Executions : timer[e] # "escaped"

\* A check is not executed while it is already in progress, its hooks
\* included, unless the timer of an execution found no process to kill and
\* took the check out of the map.
OneAtATime ==
  NoEscape =>
    \A q, r \in Requests : q # r /\ Key[q] = Key[r] => ~(Running(q) /\ Running(r))

\* The requests whose check is being executed.
Active == {r \in Requests : rpc[r] \in {"prepare", "check", "hook", "send", "remove"}}

\* Up to such an escape the map holds a check exactly as long as a goroutine
\* executes it, whichever way the execution ends.
InProgressIsTrue == NoEscape /\ ~panicked => inProgress = {Key[r] : r \in Active}

\* Every check that was scheduled leads to an event that is sent, however
\* its command behaves, although sendq may be full, and whatever becomes of
\* other checks, provided that its commands have timeouts and keep their
\* descendants, and that the event can be encoded.
EventIsSent ==
  \A r \in {q \in Requests \ Unencodable : {q} \X Parts \subseteq Timed} :
    rpc[r] = "add" ~>
      \/ r \in sent \/ panicked
      \/ \E part \in Parts : kids[<<r, part>>] = "escaped"
=============================================================================
