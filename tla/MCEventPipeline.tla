--------------------------- MODULE MCEventPipeline --------------------------
(***************************************************************************)
(* Instances of EventPipeline.                                             *)
(***************************************************************************)
EXTENDS EventPipeline

MCPublishers == Sources \cup Callbacks \cup EventdCount
OwnName == [s \in Subscribers |-> s]
CapOne == [s \in Subscribers |-> 1]
=============================================================================
