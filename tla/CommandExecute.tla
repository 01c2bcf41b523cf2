--------------------------- MODULE CommandExecute ---------------------------
(***************************************************************************)
(* Running a command with a timeout (sensu-go command/command.go Execute,  *)
(* command/proc_unix.go), as the agent does for checks and hooks and the   *)
(* backend for handlers and mutators.  Three goroutines share an execution:*)
(* Execute itself, the function of its timer, and the one with which       *)
(* os/exec kills the process of a cancelled context.  The process is a     *)
(* shell leading its own group; descendants of it may hold the output pipe,*)
(* inside the group or in a session of their own, and Wait waits for them. *)
(***************************************************************************)
EXTENDS Integers, FiniteSets

CONSTANTS
  Executions,
  Timed,        \* the executions with Timeout # 0
  NameOf,       \* NameOf[e]: Name of its ExecutionRequest
  ExecFaults    \* what the environment may do, a subset of AllExecFaults

\* "fork fails": cmd.Start returns an error.
\* "slow start": the timeout passes before cmd.Start has forked.
\* "slow timer": others run between the firing of the timer and the end of
\* its function.
\* "daemon": a descendant leaves the process group and keeps the pipe.
AllExecFaults == {"fork fails", "slow start", "slow timer", "daemon"}

ASSUME ExecFaultsAssumption == ExecFaults \subseteq AllExecFaults
ASSUME TimedAssumption == Timed \subseteq Executions

VARIABLES
  epc,         \* epc[e]: where Execute is
  cancelled,   \* cancelled[e]: ctx.Err() is context.Canceled
  timer,       \* timer[e]: "off", "armed", where its function is, "over", "escaped"
  proc,        \* proc[e]: "none", "running", "dead" (a zombie), "reaped"
  kids,        \* kids[e]: descendants on the pipe: "none", "group", "escaped"
  exit,        \* exit[e]: how the process ended
  result,      \* result[e]: what Execute returned
  inProgress,  \* the keys of the map InProgress
  panicked     \* a nil pointer was dereferenced: the program is gone

execVars == <<epc, cancelled, timer, proc, kids, exit, result, inProgress, panicked>>

\* Exit statuses; ExitStatus() of a signalled process is -1.
ExitCodes == {"zero", "non-zero"}
Killed == "signalled"
Failed == "error"
TimedOut == "timeout"

ExecInit ==
  /\ epc = [e \in Executions |-> "idle"]
  /\ cancelled = [e \in Executions |-> FALSE]
  /\ timer = [e \in Executions |-> "off"]
  /\ proc = [e \in Executions |-> "none"]
  /\ kids = [e \in Executions |-> "none"]
  /\ exit = [e \in Executions |-> "none"]
  /\ result = [e \in Executions |-> "none"]
  /\ inProgress = {}
  /\ panicked = FALSE

\* Without a slow timer, its function runs undisturbed.
TimerIdle(e) ==
  "slow timer" \in ExecFaults \/ timer[e] \in {"off", "armed", "over", "escaped"}

Goes(e, from, to) ==
  /\ ~panicked
  /\ TimerIdle(e)
  /\ epc[e] = from
  /\ epc' = [epc EXCEPT ![e] = to]

-----------------------------------------------------------------------------
\* Execute.

\* The context is made and the timer started.
Begin(e) ==
  /\ Goes(e, "idle", "start")
  /\ timer' = [timer EXCEPT ![e] = IF e \in Timed THEN "armed" ELSE "off"]
  /\ UNCHANGED <<cancelled, proc, kids, exit, result, inProgress, panicked>>

Stopped(e) == [timer EXCEPT ![e] = IF @ = "armed" THEN "off" ELSE @]

\* cmd.Start fails at once when the context is cancelled; the deferred calls
\* stop the timer and cancel the context.
StartFails(e) ==
  /\ cancelled[e] \/ "fork fails" \in ExecFaults
  /\ Goes(e, "start", "done")
  /\ result' = [result EXCEPT ![e] = Failed]
  /\ timer' = Stopped(e)
  /\ cancelled' = [cancelled EXCEPT ![e] = TRUE]
  /\ UNCHANGED <<proc, kids, exit, inProgress, panicked>>

Start(e) ==
  /\ ~cancelled[e]
  /\ Goes(e, "start", "wait")
  /\ proc' = [proc EXCEPT ![e] = "running"]
  /\ \E k \in {"none", "group"} \cup (IF "daemon" \in ExecFaults THEN {"escaped"} ELSE {}) :
       kids' = [kids EXCEPT ![e] = k]
  /\ UNCHANGED <<cancelled, timer, exit, result, inProgress, panicked>>

\* cmd.Wait: the process is reaped, then the pipe read to its end.
Reap(e) ==
  /\ proc[e] = "dead"
  /\ Goes(e, "wait", "pipe")
  /\ proc' = [proc EXCEPT ![e] = "reaped"]
  /\ UNCHANGED <<cancelled, timer, kids, exit, result, inProgress, panicked>>

WaitReturns(e) ==
  /\ kids[e] = "none"
  /\ Goes(e, "pipe", "stop")
  /\ UNCHANGED <<cancelled, timer, proc, kids, exit, result, inProgress, panicked>>

StopTimer(e) ==
  /\ Goes(e, "stop", "status")
  /\ timer' = Stopped(e)
  /\ UNCHANGED <<cancelled, proc, kids, exit, result, inProgress, panicked>>

\* Mutant: the context is released as soon as the command has ended.
ReleaseFirst(e) ==
  /\ Goes(e, "status", "done")
  /\ result' = [result EXCEPT ![e] = TimedOut]
  /\ cancelled' = [cancelled EXCEPT ![e] = TRUE]
  /\ UNCHANGED <<timer, proc, kids, exit, inProgress, panicked>>

\* Mutant: an exit status goes before a timeout.
StatusBeforeTimeout(e) ==
  /\ Goes(e, "status", "done")
  /\ result' = [result EXCEPT ![e] = exit[e]]
  /\ cancelled' = [cancelled EXCEPT ![e] = TRUE]
  /\ UNCHANGED <<timer, proc, kids, exit, inProgress, panicked>>

\* The response; the deferred calls cancel the context.
Finish(e) ==
  /\ Goes(e, "status", "done")
  /\ result' = [result EXCEPT ![e] = IF cancelled[e] THEN TimedOut ELSE exit[e]]
  /\ cancelled' = [cancelled EXCEPT ![e] = TRUE]
  /\ UNCHANGED <<timer, proc, kids, exit, inProgress, panicked>>

-----------------------------------------------------------------------------
\* The timer's function.

Timer(e, from, to) ==
  /\ ~panicked
  /\ timer[e] = from
  /\ timer' = [timer EXCEPT ![e] = to]

TimerFires(e) ==
  /\ epc[e] = "start" => "slow start" \in ExecFaults
  /\ epc[e] \notin {"start", "wait"} /\ kids[e] = "none" => "slow timer" \in ExecFaults
  /\ Timer(e, "armed", "cancel")
  /\ UNCHANGED <<epc, cancelled, proc, kids, exit, result, inProgress, panicked>>

\* timeout()
CancelContext(e) ==
  /\ Timer(e, "cancel", "kill")
  /\ cancelled' = [cancelled EXCEPT ![e] = TRUE]
  /\ UNCHANGED <<epc, proc, kids, exit, result, inProgress, panicked>>

\* A signal to the process; a zombie stays as it is.
Signalled(e) ==
  /\ proc' = [proc EXCEPT ![e] = IF @ = "running" THEN "dead" ELSE @]
  /\ exit' = [exit EXCEPT ![e] = IF proc[e] = "running" THEN Killed ELSE @]

HasGroup(e) == proc[e] \in {"running", "dead"} \/ kids[e] = "group"

\* Mutant: the signal goes to the process, not to its group.
KillLeaderOnly(e) ==
  /\ proc[e] # "none" /\ HasGroup(e)
  /\ Timer(e, "kill", "over")
  /\ Signalled(e)
  /\ UNCHANGED <<epc, cancelled, kids, result, inProgress, panicked>>

\* KillProcess: the whole group; a zombie still counts as a member.
KillGroup(e) ==
  /\ proc[e] # "none" /\ HasGroup(e)
  /\ Timer(e, "kill", "over")
  /\ Signalled(e)
  /\ kids' = [kids EXCEPT ![e] = IF @ = "group" THEN "none" ELSE @]
  /\ UNCHANGED <<epc, cancelled, result, inProgress, panicked>>

\* ESRCH: there is no such group any more.
KillFails(e) ==
  /\ proc[e] # "none" /\ ~HasGroup(e)
  /\ Timer(e, "kill", "escape")
  /\ UNCHANGED <<epc, cancelled, proc, kids, exit, result, inProgress, panicked>>

\* cmd.Process is nil.
KillPanics(e) ==
  /\ proc[e] = "none"
  /\ Timer(e, "kill", "over")
  /\ panicked' = TRUE
  /\ UNCHANGED <<epc, cancelled, proc, kids, exit, result, inProgress>>

EscapeZombie(e) ==
  /\ Timer(e, "escape", "escaped")
  /\ inProgress' = inProgress \ {NameOf[e]}
  /\ UNCHANGED <<epc, cancelled, proc, kids, exit, result, panicked>>

-----------------------------------------------------------------------------
\* The process, its descendants, and the goroutine of os/exec that kills the
\* process, not the group, when the context is cancelled.

Exits(e) ==
  /\ ~panicked
  /\ TimerIdle(e)
  /\ proc[e] = "running"
  /\ proc' = [proc EXCEPT ![e] = "dead"]
  /\ \E code \in ExitCodes : exit' = [exit EXCEPT ![e] = code]
  /\ UNCHANGED <<epc, cancelled, timer, kids, result, inProgress, panicked>>

KidsExit(e) ==
  /\ ~panicked
  /\ TimerIdle(e)
  /\ kids[e] # "none"
  /\ kids' = [kids EXCEPT ![e] = "none"]
  /\ UNCHANGED <<epc, cancelled, timer, proc, exit, result, inProgress, panicked>>

WatcherKills(e) ==
  /\ ~panicked
  /\ TimerIdle(e)
  /\ cancelled[e]
  /\ proc[e] = "running"
  /\ Signalled(e)
  /\ UNCHANGED <<epc, cancelled, timer, kids, result, inProgress, panicked>>

-----------------------------------------------------------------------------
ExecuteStep(e) ==
  \/ StartFails(e) \/ Start(e) \/ Reap(e) \/ WaitReturns(e) \/ StopTimer(e) \/ Finish(e)

TimerStep(e) ==
  \/ TimerFires(e) \/ CancelContext(e) \/ KillGroup(e) \/ KillFails(e) \/ KillPanics(e)
  \/ EscapeZombie(e)

ProcessStep(e) == Exits(e) \/ KidsExit(e)

ExecTypeOK ==
  /\ epc \in [Executions -> {"idle", "start", "wait", "pipe", "stop", "status", "done"}]
  /\ cancelled \in [Executions -> BOOLEAN]
  /\ timer \in [Executions -> {"off", "armed", "cancel", "kill", "escape", "over",
                            "escaped"}]
  /\ proc \in [Executions -> {"none", "running", "dead", "reaped"}]
  /\ kids \in [Executions -> {"none", "group", "escaped"}]
  /\ exit \in [Executions -> ExitCodes \cup {"none", Killed}]
  /\ result \in [Executions -> ExitCodes \cup {"none", Killed, Failed, TimedOut}]
  /\ panicked \in BOOLEAN

\* A command that the executor killed is reported as timed out and never by
\* the status the signal left, though Execute may see the process end before
\* the timer's function has returned.
KilledIsTimeout == \A e \in Executions : result[e] # Killed

\* A command is reported as timed out only if its timeout has passed; any
\* other report is the exit status of its process.
ReportIsTrue ==
  \A e \in Executions :
    /\ result[e] = TimedOut => timer[e] \in {"kill", "escape", "over", "escaped"}
    /\ result[e] \in ExitCodes => exit[e] = result[e]

\* A command with a timeout comes to an end whatever it does, with all the
\* descendants in its group, unless one of them has left it with the pipe (or
\* the whole program is gone).
ExecutionEnds ==
  \A e \in Timed :
    epc[e] = "start" ~> (epc[e] = "done" \/ kids[e] = "escaped" \/ panicked)
=============================================================================
