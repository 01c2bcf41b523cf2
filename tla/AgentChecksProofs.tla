-------------------------- MODULE AgentChecksProofs --------------------------
(***************************************************************************)
(* Proofs about AgentChecks and the executions of its commands: what an    *)
(* execution reports is true whatever the environment does, and without    *)
(* overlapping requests a check runs once at a time until one is escaped.  *)
(***************************************************************************)
EXTENDS AgentChecks, TLAPS

\* How the goroutines of one execution and its process are related.
Consistent(e) ==
  /\ epc[e] \in {"idle", "start"} => proc[e] = "none"
  /\ epc[e] = "wait" => proc[e] \in {"running", "dead"}
  /\ epc[e] \in {"pipe", "stop", "status"} => proc[e] = "reaped"
  /\ epc[e] = "done" => proc[e] \in {"none", "reaped"}
  /\ epc[e] # "done" => result[e] = "none"
  /\ epc[e] = "idle" => timer[e] = "off"
  /\ epc[e] \in {"stop", "status"} => kids[e] = "none"
  /\ kids[e] # "none" => proc[e] # "none"
  /\ exit[e] = Killed => cancelled[e]
  /\ cancelled[e] /\ epc[e] # "done" => timer[e] \in {"kill", "escape", "over", "escaped"}
  /\ timer[e] \in {"kill", "escape"} => cancelled[e]

\* What the result of one execution says.
Truthful(e) ==
  /\ result[e] # Killed
  /\ result[e] = TimedOut => timer[e] \in {"kill", "escape", "over", "escaped"}
  /\ result[e] \in ExitCodes => exit[e] = result[e] /\ proc[e] = "reaped"

ExecInv == \A e \in Executions : Consistent(e) /\ Truthful(e)

\* A step of the goroutines or the process of one execution.
ExecNext(e) == ExecuteStep(e) \/ TimerStep(e) \/ ProcessStep(e) \/ WatcherKills(e) \/ Begin(e)

\* Every step on an execution keeps the types of its variables.
LEMMA ExecTypeStep ==
  ASSUME ExecTypeOK, NEW e \in Executions, ExecNext(e)
  PROVE  ExecTypeOK'
<1> USE DEF ExecTypeOK, ExitCodes, Killed, Failed, TimedOut
<1>1. CASE Begin(e)
  BY Zenon, <1>1 DEF Begin, Goes
<1>2. CASE StartFails(e)
  BY Zenon, <1>2 DEF StartFails, Goes, Stopped
<1>7. CASE Start(e)
  <2>1. PICK k \in {"none", "group", "escaped"} : kids' = [kids EXCEPT ![e] = k]
    BY Zenon, <1>7 DEF Start
  <2> QED
    BY Zenon, <1>7, <2>1 DEF Start, Goes
<1>3. CASE Reap(e) \/ WaitReturns(e) \/ StopTimer(e)
  BY ZenonT(30), <1>3 DEF Reap, WaitReturns, StopTimer, Goes, Stopped
<1>8. CASE Finish(e)
  BY Zenon, <1>8 DEF Finish, Goes
<1>4. CASE TimerFires(e) \/ CancelContext(e) \/ EscapeZombie(e)
  BY ZenonT(30), <1>4 DEF TimerFires, CancelContext, EscapeZombie, Timer
<1>5. CASE KillGroup(e) \/ KillFails(e) \/ KillPanics(e)
  BY ZenonT(30), <1>5 DEF KillGroup, KillFails, KillPanics, Timer, Signalled
<1>6. CASE ProcessStep(e) \/ WatcherKills(e)
  BY <1>6 DEF ProcessStep, Exits, KidsExit, WatcherKills, Signalled
<1> QED
  BY Zenon, <1>1, <1>2, <1>3, <1>4, <1>5, <1>6, <1>7, <1>8 DEF ExecNext, ExecuteStep, TimerStep

\* A step on an execution keeps the relation between its parts.
LEMMA ExecSelfStep ==
  ASSUME ExecTypeOK, NEW e \in Executions, Consistent(e), Truthful(e), ExecNext(e)
  PROVE  Consistent(e)' /\ Truthful(e)'
<1> USE DEF ExecTypeOK, Consistent, Truthful, ExitCodes, Killed, Failed, TimedOut
<1>1. CASE Begin(e)
  BY Zenon, <1>1 DEF Begin, Goes
<1>2. CASE StartFails(e)
  BY Zenon, <1>2 DEF StartFails, Goes, Stopped
<1>3. CASE Start(e)
  BY Zenon, <1>3 DEF Start, Goes
<1>4. CASE Reap(e) \/ WaitReturns(e)
  BY Zenon, <1>4 DEF Reap, WaitReturns, Goes
<1>5. CASE StopTimer(e)
  BY Zenon, <1>5 DEF StopTimer, Goes, Stopped
<1>6. CASE Finish(e)
  BY Zenon, <1>6 DEF Finish, Goes
<1>7. CASE TimerFires(e) \/ CancelContext(e) \/ EscapeZombie(e)
  BY Zenon, <1>7 DEF TimerFires, CancelContext, EscapeZombie, Timer
<1>8. CASE KillGroup(e)
  BY Zenon, <1>8 DEF KillGroup, Timer, Signalled
<1>9. CASE KillFails(e) \/ KillPanics(e)
  BY Zenon, <1>9 DEF KillFails, KillPanics, Timer
<1>10. CASE Exits(e) \/ KidsExit(e)
  BY <1>10 DEF Exits, KidsExit
<1>11. CASE WatcherKills(e)
  BY Zenon, <1>11 DEF WatcherKills, Signalled
<1> QED
  BY Zenon, <1>1, <1>2, <1>3, <1>4, <1>5, <1>6, <1>7, <1>8, <1>9, <1>10, <1>11
     DEF ExecNext, ExecuteStep, TimerStep, ProcessStep

\* What a step on one execution does not touch.
Same(e) ==
  /\ epc'[e] = epc[e] /\ cancelled'[e] = cancelled[e] /\ timer'[e] = timer[e]
  /\ proc'[e] = proc[e] /\ kids'[e] = kids[e] /\ exit'[e] = exit[e]
  /\ result'[e] = result[e]

\* It leaves the other executions alone.
LEMMA ExecOthers ==
  ASSUME ExecTypeOK, NEW e \in Executions, ExecNext(e), NEW d \in Executions, d # e
  PROVE  Same(d)
<1> USE DEF ExecTypeOK, Same
<1>1. CASE Begin(e)
  BY Zenon, <1>1 DEF Begin, Goes
<1>2. CASE StartFails(e) \/ Start(e)
  BY ZenonT(30), <1>2 DEF StartFails, Start, Goes, Stopped
<1>3. CASE Reap(e) \/ WaitReturns(e) \/ StopTimer(e)
  BY Zenon, <1>3 DEF Reap, WaitReturns, StopTimer, Goes, Stopped
<1>8. CASE Finish(e)
  BY Zenon, <1>8 DEF Finish, Goes
<1>4. CASE TimerFires(e) \/ CancelContext(e) \/ EscapeZombie(e)
  BY Zenon, <1>4 DEF TimerFires, CancelContext, EscapeZombie, Timer
<1>5. CASE KillGroup(e) \/ KillFails(e) \/ KillPanics(e)
  BY Zenon, <1>5 DEF KillGroup, KillFails, KillPanics, Timer, Signalled
<1>6. CASE ProcessStep(e) \/ WatcherKills(e)
  BY Zenon, <1>6 DEF ProcessStep, Exits, KidsExit, WatcherKills, Signalled
<1> QED
  BY Zenon, <1>1, <1>2, <1>3, <1>4, <1>5, <1>6, <1>8 DEF ExecNext, ExecuteStep, TimerStep

\* A step on one execution keeps the relations of all.
LEMMA ExecInvStep ==
  ASSUME ExecTypeOK, ExecInv, NEW e \in Executions, ExecNext(e)
  PROVE  ExecInv'
<1>1. Consistent(e)' /\ Truthful(e)'
  BY Zenon, ExecSelfStep DEF ExecInv
<1>2. ASSUME NEW d \in Executions, d # e PROVE Consistent(d)' /\ Truthful(d)'
  <2>1. Same(d)
    BY Zenon, <1>2, ExecOthers
  <2> QED
    BY Zenon, <2>1 DEF ExecInv, Consistent, Truthful, Same
<1> QED
  BY Zenon, <1>1, <1>2 DEF ExecInv

-----------------------------------------------------------------------------
ExecSame == UNCHANGED <<epc, cancelled, timer, proc, kids, exit, result>>

\* A step of the agent leaves the executions alone or is one on an execution.
LEMMA StepOfExecution ==
  ASSUME [Next]_vars
  PROVE  ExecSame \/ \E e \in Executions : ExecNext(e)
<1> USE DEF ExecSame
<1>1. ASSUME NEW r \in Requests, HandleCheck(r) PROVE ExecSame
  BY Zenon, <1>1 DEF HandleCheck, execVars
<1>2. ASSUME NEW r \in Requests, RunCheck(r) \/ RunHook(r)
      PROVE  \E e \in Executions : ExecNext(e)
  BY Zenon, <1>2, RequestsAssumption DEF RunCheck, RunHook, ExecNext, Parts
<1>3. ASSUME NEW r \in Requests,
             AddInProgress(r) \/ PrepareFails(r) \/ ResponseIsNil(r) \/ ReportCheck(r)
               \/ SendMessage(r) \/ RemoveInProgress(r)
      PROVE  ExecSame
  BY Zenon, <1>3 DEF AddInProgress, PrepareFails, ResponseIsNil, ReportCheck, SendMessage,
              RemoveInProgress, execVars
<1>4. CASE SendLoop \/ UNCHANGED vars
  BY Zenon, <1>4 DEF SendLoop, vars, execVars
<1> QED
  BY Zenon, <1>1, <1>2, <1>3, <1>4 DEF Next, ExecuteCheck, ExecNext

\* Where the goroutines of a request can be.
States == {"new", "refused", "reject", "add", "prepare", "check", "hook", "send", "remove",
           "done"}

\* The part of TypeOK about the agent's own variables.
AgentType ==
  /\ rpc \in [Requests -> States]
  /\ sendq \in Seq(Requests)
  /\ sent \subseteq Requests
  /\ panicked \in BOOLEAN

\* Every step keeps the types of the agent's variables.
LEMMA AgentTypeStep ==
  ASSUME TypeOK, [Next]_vars
  PROVE  AgentType'
<1> USE DEF TypeOK, ExecTypeOK, AgentType, States
<1>0. ASSUME NEW r \in Requests,
             NEW a \in States, NEW b \in States, Request(r, a, b), UNCHANGED <<sendq, sent>>,
             panicked' \in BOOLEAN
      PROVE  AgentType'
  BY Zenon, <1>0 DEF Request
<1>1. ASSUME NEW r \in Requests, HandleCheck(r) PROVE AgentType'
  BY Zenon, <1>0, <1>1 DEF HandleCheck, execVars
<1>2. ASSUME NEW r \in Requests, RunCheck(r) \/ RunHook(r) PROVE AgentType'
  BY Zenon, <1>0, <1>2 DEF RunCheck, RunHook, Begin
<1>3. ASSUME NEW r \in Requests, AddInProgress(r) \/ PrepareFails(r) \/ RemoveInProgress(r)
      PROVE  AgentType'
  BY Zenon, <1>0, <1>3 DEF AddInProgress, PrepareFails, RemoveInProgress, execVars
<1>4. ASSUME NEW r \in Requests, ResponseIsNil(r) \/ ReportCheck(r) PROVE AgentType'
  BY ZenonT(30), <1>0, <1>4 DEF ResponseIsNil, ReportCheck, Parts, execVars
<1>5. ASSUME NEW r \in Requests, SendMessage(r) PROVE AgentType'
  BY <1>5 DEF SendMessage, Request, execVars
<1>6. CASE SendLoop
  <2>1. Head(sendq) \in Requests /\ Tail(sendq) \in Seq(Requests)
    BY <1>6 DEF SendLoop
  <2> QED
    BY Zenon, <1>6, <2>1 DEF SendLoop, execVars
<1>7. CASE UNCHANGED vars
  BY Zenon, <1>7 DEF vars, agentVars, execVars
<1>8. ASSUME NEW e \in Executions, ExecuteStep(e) \/ TimerStep(e), UNCHANGED agentVars
      PROVE  AgentType'
  BY Zenon, <1>8 DEF agentVars, ExecuteStep, StartFails, Start, Reap, WaitReturns, StopTimer,
              Finish, TimerStep, TimerFires, CancelContext, KillGroup, KillFails, KillPanics,
              EscapeZombie
<1>9. ASSUME NEW e \in Executions, ProcessStep(e) \/ WatcherKills(e), UNCHANGED agentVars
      PROVE  AgentType'
  BY Zenon, <1>9 DEF agentVars, ProcessStep, Exits, KidsExit, WatcherKills
<1> QED
  BY Zenon, <1>1, <1>2, <1>3, <1>4, <1>5, <1>6, <1>7, <1>8, <1>9 DEF Next, ExecuteCheck

\* What a step does to the map.
LEMMA MapStep ==
  ASSUME [Next]_vars
  PROVE  \/ inProgress' = inProgress
         \/ \E r \in Requests : AddInProgress(r) \/ RemoveInProgress(r)
         \/ \E e \in Executions : EscapeZombie(e) /\ UNCHANGED agentVars
<1>1. ASSUME NEW r \in Requests,
             HandleCheck(r) \/ PrepareFails(r) \/ ResponseIsNil(r) \/ ReportCheck(r)
               \/ SendMessage(r) \/ RunCheck(r) \/ RunHook(r)
      PROVE  inProgress' = inProgress
  BY Zenon, <1>1 DEF HandleCheck, PrepareFails, ResponseIsNil, ReportCheck, SendMessage, RunCheck,
              RunHook, Begin, execVars
<1>2. ASSUME NEW e \in Executions, ExecuteStep(e) \/ ProcessStep(e) \/ WatcherKills(e)
      PROVE  inProgress' = inProgress
  BY Zenon, <1>2 DEF ExecuteStep, StartFails, Start, Reap, WaitReturns, StopTimer, Finish,
              ProcessStep, Exits, KidsExit, WatcherKills
<1>3. ASSUME NEW e \in Executions, TimerStep(e)
      PROVE  inProgress' = inProgress \/ EscapeZombie(e)
  BY Zenon, <1>3 DEF TimerStep, TimerFires, CancelContext, KillGroup, KillFails, KillPanics
<1>4. CASE SendLoop \/ UNCHANGED vars
  BY Zenon, <1>4 DEF SendLoop, vars, execVars
<1> QED
  BY Zenon, <1>1, <1>2, <1>3, <1>4 DEF Next, ExecuteCheck
\* Without a change to the panic flag, another step leaves all types alone.
LEMMA SameTypes ==
  ASSUME ExecTypeOK, ExecSame, panicked' \in BOOLEAN
  PROVE  ExecTypeOK'
BY Zenon DEF ExecTypeOK, ExecSame

\* TypeOK and ExecInv together are inductive.
Inv == TypeOK /\ ExecInv

\* The invariant holds before the first request.
LEMMA InitInv == Init => Inv
<1> SUFFICES ASSUME Init PROVE Inv
  BY Zenon
<1> USE DEF Init, ExecInit
<1>1. ExecTypeOK
  BY Zenon DEF ExecTypeOK, ExitCodes
<1>2. TypeOK
  BY <1>1 DEF TypeOK
<1>3. ExecInv
  BY Zenon DEF ExecInv, Consistent, Truthful, ExitCodes, Killed, Failed, TimedOut
<1> QED
  BY Zenon, <1>2, <1>3 DEF Inv

\* Every step of the agent and of its commands keeps the invariant.
LEMMA InvStep ==
  ASSUME Inv, [Next]_vars
  PROVE  Inv'
<1> USE DEF Inv
<1>1. AgentType'
  BY Zenon, AgentTypeStep
<1>2. ExecTypeOK' /\ ExecInv'
  <2>1. CASE ExecSame
    <3>1. ExecTypeOK'
      BY Zenon, <1>1, <2>1, SameTypes DEF TypeOK, AgentType
    <3> QED
      BY Zenon, <2>1, <3>1 DEF ExecSame, ExecInv, Consistent, Truthful
  <2>2. ASSUME NEW e \in Executions, ExecNext(e) PROVE ExecTypeOK' /\ ExecInv'
    BY Zenon, <2>2, ExecTypeStep, ExecInvStep DEF TypeOK
  <2> QED
    BY Zenon, <2>1, <2>2, StepOfExecution
<1>3. inProgress' \subseteq {Key[r] : r \in Requests}
  <2>1. inProgress \subseteq {Key[r] : r \in Requests}
    BY Zenon DEF TypeOK
  <2>2. ASSUME NEW r \in Requests, AddInProgress(r) \/ RemoveInProgress(r)
        PROVE  inProgress' \subseteq inProgress \cup {Key[r]}
    BY Zenon, <2>2 DEF AddInProgress, RemoveInProgress
  <2>3. ASSUME NEW e \in Executions, EscapeZombie(e) PROVE inProgress' \subseteq inProgress
    BY Zenon, <2>3 DEF EscapeZombie
  <2> QED
    BY Zenon, <2>1, <2>2, <2>3, MapStep
<1> QED
  BY Zenon, <1>1, <1>2, <1>3 DEF TypeOK, AgentType, States

\* The invariant holds in every state.
LEMMA Invariance == Spec => []Inv
<1>1. Inv /\ [Next]_vars => Inv'
  BY Zenon, InvStep
<1> QED
  BY <1>1, InitInv, PTL DEF Spec

\* The agent's variables keep their types, for any requests and faults.
THEOREM AgentTypes == Spec => []TypeOK
<1>1. Inv => TypeOK
  BY Zenon DEF Inv
<1> QED
  BY <1>1, Invariance, PTL

\* Execute never reports the status that its own kill left behind, for any
\* number of executions and whatever order its goroutines run in.
THEOREM KilledAreTimeouts == Spec => []KilledIsTimeout
<1>1. Inv => KilledIsTimeout
  BY Zenon DEF Inv, ExecInv, Truthful, KilledIsTimeout
<1> QED
  BY <1>1, Invariance, PTL

\* Execute reports a timeout only after the timer has fired, and otherwise
\* the status with which the process ended.
THEOREM ReportsAreTrue == Spec => []ReportIsTrue
<1>1. Inv => ReportIsTrue
  BY Zenon DEF Inv, ExecInv, Truthful, ReportIsTrue
<1> QED
  BY <1>1, Invariance, PTL

-----------------------------------------------------------------------------
(***************************************************************************)
(* Without overlapping requests a check is put into the map before the     *)
(* next request for it is looked at, and until an execution escapes only   *)
(* the goroutine that put it there takes it out.                           *)
(***************************************************************************)

\* An escape is never undone.
LEMMA EscapeStep ==
  ASSUME Inv, [Next]_vars, NoEscape'
  PROVE  NoEscape /\ \A e \in Executions : ~EscapeZombie(e)
<1>1. ASSUME NEW e \in Executions, EscapeZombie(e) PROVE FALSE
  BY Zenon, <1>1 DEF EscapeZombie, Timer, NoEscape, Inv, TypeOK, ExecTypeOK
<1>2. CASE ExecSame
  BY Zenon, <1>1, <1>2 DEF ExecSame, NoEscape
<1>3. ASSUME NEW e \in Executions, ExecNext(e) PROVE NoEscape
  <2>1. ExecTypeOK /\ Consistent(e)
    BY Zenon DEF Inv, TypeOK, ExecInv
  <2>2. \A d \in Executions : d # e => timer[d] # "escaped"
    BY Zenon, <1>3, <2>1, ExecOthers DEF NoEscape, Same
  <2>3. timer[e] # "escaped"
    <3>1. timer \in [Executions -> {"off", "armed", "cancel", "kill", "escape", "over",
                                    "escaped"}]
      BY Zenon, <2>1 DEF ExecTypeOK
    <3>2. CASE ExecuteStep(e)
      BY Zenon, <3>1, <3>2 DEF NoEscape, ExecuteStep, StartFails, Start, Reap, WaitReturns,
                        StopTimer, Finish, Stopped
    <3>3. CASE TimerStep(e)
      BY Zenon, <3>1, <3>3 DEF TimerStep, TimerFires, CancelContext, KillGroup, KillFails,
                        KillPanics, EscapeZombie, Timer
    <3>4. CASE ProcessStep(e) \/ WatcherKills(e)
      BY Zenon, <3>4 DEF NoEscape, ProcessStep, Exits, KidsExit, WatcherKills
    <3>5. CASE Begin(e)
      BY Zenon, <2>1, <3>5 DEF Begin, Goes, Consistent
    <3> QED
      BY Zenon, <1>3, <3>2, <3>3, <3>4, <3>5 DEF ExecNext
  <2> QED
    BY Zenon, <2>2, <2>3 DEF NoEscape
<1> QED
  BY Zenon, <1>1, <1>2, <1>3, StepOfExecution

\* Of the requests for a check, one at most is scheduled or executed.
Sole ==
  \A q, r \in Requests :
    q # r /\ Key[q] = Key[r] =>
      ~((rpc[q] = "add" \/ q \in Active) /\ (rpc[r] = "add" \/ r \in Active))

\* The map is that of the active requests.
MapMatches == ~panicked => inProgress = {Key[r] : r \in Active}

\* The inductive invariant behind OneAtATime and InProgressIsTrue.
ChecksInv == Inv /\ (NoEscape => Sole /\ MapMatches)

\* The request moves while it is executed, without touching the map.
LEMMA MovesOn ==
  ASSUME Inv, Sole, MapMatches, NEW r \in Requests, NEW b \in States,
         rpc' = [rpc EXCEPT ![r] = b], UNCHANGED <<inProgress, panicked>>,
         r \in Active <=> b \in {"prepare", "check", "hook", "send", "remove"},
         b # "add"
  PROVE  Sole' /\ MapMatches'
<1>1. rpc \in [Requests -> States]
  BY Zenon DEF Inv, TypeOK, States
<1>2. \A q \in Requests : /\ q \in Active' <=> q \in Active
                          /\ rpc'[q] = "add" => rpc[q] = "add"
  BY Zenon, <1>1 DEF Active
<1>3. Sole'
  BY Zenon, <1>2 DEF Sole
<1>4. MapMatches'
  <2>1. Active' = Active
    BY Zenon, <1>2 DEF Active
  <2> QED
    BY Zenon, <2>1 DEF MapMatches, Active
<1> QED
  BY Zenon, <1>3, <1>4

\* A request that finds its check absent from the map is the only one.
LEMMA ScheduleStep ==
  ASSUME Overlapping = FALSE, Inv, Sole, MapMatches, NEW r \in Requests, HandleCheck(r)
  PROVE  Sole' /\ MapMatches'
<1>1. rpc \in [Requests -> States] /\ UNCHANGED <<inProgress, panicked>>
  BY Zenon DEF Inv, TypeOK, States, HandleCheck, execVars
<1>2. ASSUME NEW b \in {"refused", "reject"}, Request(r, "new", b)
      PROVE  Sole' /\ MapMatches'
  BY Zenon, <1>1, <1>2, MovesOn DEF Request, Active, States
<1>3. CASE Request(r, "new", "add")
  <2>1. ~panicked /\ rpc[r] = "new" /\ rpc' = [rpc EXCEPT ![r] = "add"]
    BY Zenon, <1>3 DEF Request
  <2>2. Key[r] \notin inProgress
    BY Zenon, <1>1, <1>3, <2>1 DEF HandleCheck, Request
  <2>3. \A q \in Requests : Key[q] = Key[r] => rpc[q] # "add" /\ q \notin Active
    BY Zenon, <2>1, <2>2 DEF HandleCheck, Undisturbed, MapMatches, Active
  <2>4. \A q \in Requests : q # r => rpc'[q] = rpc[q]
    BY Zenon, <1>1, <2>1
  <2>5. Sole'
    BY Zenon, <2>3, <2>4 DEF Sole, Active
  <2>6. Active' = Active
    BY Zenon, <1>1, <2>1 DEF Active
  <2>7. MapMatches'
    BY Zenon, <1>1, <2>6 DEF MapMatches, Active
  <2> QED
    BY Zenon, <2>5, <2>7
<1> QED
  BY Zenon, <1>2, <1>3 DEF HandleCheck

\* The entry into the map of a check that is scheduled.
LEMMA EnterStep ==
  ASSUME Inv, Sole, MapMatches, NEW r \in Requests, AddInProgress(r)
  PROVE  Sole' /\ MapMatches'
<1>1. /\ rpc \in [Requests -> States]
      /\ ~panicked /\ rpc[r] = "add" /\ rpc' = [rpc EXCEPT ![r] = "prepare"]
      /\ inProgress' = inProgress \cup {Key[r]}
  BY Zenon DEF Inv, TypeOK, States, AddInProgress, Request
<1>2. Sole'
  BY Zenon, <1>1 DEF Sole, Active
<1>3. Active' = Active \cup {r}
  BY Zenon, <1>1 DEF Active
<1>4. MapMatches'
  BY Zenon, <1>1, <1>3 DEF MapMatches, Active
<1> QED
  BY Zenon, <1>2, <1>4

\* The removal, of an entry that no other request relies on.
LEMMA LeaveStep ==
  ASSUME Inv, Sole, MapMatches, NEW r \in Requests, RemoveInProgress(r)
  PROVE  Sole' /\ MapMatches'
<1>1. /\ rpc \in [Requests -> States]
      /\ ~panicked /\ rpc[r] = "remove" /\ rpc' = [rpc EXCEPT ![r] = "done"]
      /\ inProgress' = inProgress \ {Key[r]}
  BY Zenon DEF Inv, TypeOK, States, RemoveInProgress, Request
<1>2. Sole'
  BY Zenon, <1>1 DEF Sole, Active
<1>3. Active' = Active \ {r}
  BY Zenon, <1>1 DEF Active
<1>4. \A q \in Requests : q # r /\ q \in Active => Key[q] # Key[r]
  BY Zenon, <1>1 DEF Sole, Active
<1>5. MapMatches'
  BY <1>1, <1>3, <1>4 DEF MapMatches, Active
<1> QED
  BY Zenon, <1>2, <1>5

\* Steps that leave the agent's own program counters alone.
LEMMA ElsewhereStep ==
  ASSUME Sole, MapMatches, UNCHANGED <<rpc, inProgress>>, panicked => panicked'
  PROVE  Sole' /\ MapMatches'
BY Zenon DEF Sole, MapMatches, Active

\* Every step keeps the map true and the executions of a check apart.
LEMMA ChecksStep ==
  ASSUME Overlapping = FALSE, ChecksInv, [Next]_vars
  PROVE  ChecksInv'
<1>1. Inv /\ Inv'
  BY Zenon, InvStep DEF ChecksInv
<1> SUFFICES ASSUME NoEscape' PROVE Sole' /\ MapMatches'
  BY Zenon, <1>1 DEF ChecksInv
<1>0. /\ Sole /\ MapMatches
      /\ \A e \in Executions : ~EscapeZombie(e)
  BY Zenon, <1>1, EscapeStep DEF ChecksInv
<1> USE <1>0, <1>1
<1>2. ASSUME NEW r \in Requests, HandleCheck(r) PROVE Sole' /\ MapMatches'
  BY Zenon, <1>2, ScheduleStep
<1>3. ASSUME NEW r \in Requests, AddInProgress(r) \/ RemoveInProgress(r)
      PROVE  Sole' /\ MapMatches'
  BY Zenon, <1>3, EnterStep, LeaveStep
<1>4. ASSUME NEW r \in Requests, PrepareFails(r) \/ SendMessage(r)
      PROVE  Sole' /\ MapMatches'
  BY Zenon, <1>4, MovesOn DEF PrepareFails, SendMessage, Request, execVars, Active, States
<1>5. ASSUME NEW r \in Requests, RunCheck(r) \/ RunHook(r) PROVE Sole' /\ MapMatches'
  BY Zenon, <1>5, MovesOn DEF RunCheck, RunHook, Begin, Request, Active, States
<1>6. ASSUME NEW r \in Requests, ReportCheck(r) PROVE Sole' /\ MapMatches'
  BY Zenon, <1>6, MovesOn DEF ReportCheck, Request, Parts, execVars, Active, States
<1>7. ASSUME NEW r \in Requests, ResponseIsNil(r) PROVE Sole' /\ MapMatches'
  <2>1. UNCHANGED inProgress /\ rpc' = rpc /\ panicked'
    BY Zenon, <1>7 DEF ResponseIsNil, Request, Inv, TypeOK
  <2> QED
    BY Zenon, <2>1, ElsewhereStep
<1>8. ASSUME SendLoop \/ UNCHANGED vars PROVE Sole' /\ MapMatches'
  BY <1>8, ElsewhereStep DEF SendLoop, vars, agentVars, execVars
<1>9. ASSUME NEW e \in Executions,
             ExecuteStep(e) \/ TimerStep(e) \/ ProcessStep(e) \/ WatcherKills(e),
             UNCHANGED agentVars
      PROVE  Sole' /\ MapMatches'
  <2>1. UNCHANGED rpc
    BY Zenon, <1>9 DEF agentVars
  <2> SUFFICES UNCHANGED inProgress /\ (panicked' = panicked \/ panicked' = TRUE)
    BY <2>1, ElsewhereStep
  <2>2. ~EscapeZombie(e)
    BY Zenon
  <2>3. CASE ExecuteStep(e)
    BY <2>3, Zenon DEF ExecuteStep, StartFails, Start, Reap, WaitReturns, StopTimer, Finish
  <2>4. CASE TimerStep(e)
    BY <2>2, <2>4, Zenon DEF TimerStep, TimerFires, CancelContext, KillGroup, KillFails,
                             KillPanics
  <2>5. CASE ProcessStep(e) \/ WatcherKills(e)
    BY <2>5, Zenon DEF ProcessStep, Exits, KidsExit, WatcherKills
  <2> QED
    BY Zenon, <1>9, <2>3, <2>4, <2>5
<1>10. Sole' /\ MapMatches'
  <2>1. ASSUME NEW r \in Requests, ExecuteCheck(r) PROVE Sole' /\ MapMatches'
    BY Zenon, <2>1, <1>3, <1>4, <1>5, <1>6, <1>7 DEF ExecuteCheck
  <2>2. CASE UNCHANGED vars
    BY Zenon, <2>2, <1>8
  <2>3. CASE Next
    BY Zenon, <2>1, <2>3, <1>2, <1>8, <1>9 DEF Next
  <2> QED
    BY Zenon, <2>2, <2>3
<1> QED
  BY Zenon, <1>10

\* The strengthened invariant holds in every state.
LEMMA ChecksInvariance ==
  ASSUME Overlapping = FALSE
  PROVE  Spec => []ChecksInv
<1>1. Init => ChecksInv
  <2> SUFFICES ASSUME Init PROVE ChecksInv
    BY Zenon
  <2>1. Inv
    BY Zenon, InitInv
  <2>2. Sole /\ MapMatches
    BY Zenon DEF Init, ExecInit, Sole, MapMatches, Active
  <2> QED
    BY Zenon, <2>1, <2>2 DEF ChecksInv
<1>2. ChecksInv /\ [Next]_vars => ChecksInv'
  BY Zenon, ChecksStep
<1> QED
  BY <1>1, <1>2, PTL DEF Spec

\* A check and its hooks never run twice at the same time, for any number
\* of requests and checks and whatever the environment does, until an
\* execution escapes from the map; no request is to be handled between
\* another one's look at the map and its entry into it.
THEOREM ChecksRunAlone ==
  ASSUME Overlapping = FALSE
  PROVE  Spec => []OneAtATime
<1>1. ChecksInv => OneAtATime
  BY Zenon DEF ChecksInv, Sole, Active, OneAtATime, Running
<1> QED
  BY <1>1, ChecksInvariance, PTL

\* The map inProgress holds exactly the checks being executed until then.
THEOREM MapIsTrue ==
  ASSUME Overlapping = FALSE
  PROVE  Spec => []InProgressIsTrue
<1>1. ChecksInv => InProgressIsTrue
  BY Zenon DEF ChecksInv, MapMatches, InProgressIsTrue
<1> QED
  BY <1>1, ChecksInvariance, PTL
=============================================================================
