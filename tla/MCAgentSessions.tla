--------------------------- MODULE MCAgentSessions --------------------------
(***************************************************************************)
(* Instances of AgentSessions.                                             *)
(***************************************************************************)
EXTENDS AgentSessions

CONSTANTS t1, t2

AllTopics == <<t1, t2>>

\* Steady sessions subscribe to the first topic, the others to every topic.
MCSubscriptions ==
  [s \in Subscribers |-> IF s \in Steady THEN <<AllTopics[1]>> ELSE AllTopics]

\* Sessions of different agents.
OwnName == [s \in Subscribers |-> s]

CapOne == [s \in Subscribers |-> 1]
=============================================================================
