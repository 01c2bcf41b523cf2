---------------------------- MODULE MCAgentChecks ---------------------------
(***************************************************************************)
(* Instances of AgentChecks.                                               *)
(***************************************************************************)
EXTENDS AgentChecks, TLC

MCExecutions == Requests \X Parts

\* All requests are for one check.
OneKey == [r \in Requests |-> "check"]
CheckName == [e \in MCExecutions |-> "check"]

\* One request has timeouts on its check and its hook, the others have none.
FirstRequest == {CHOOSE r \in Requests : TRUE} \X Parts
=============================================================================
