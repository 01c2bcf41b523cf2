---------------------------- MODULE MCTsmEngine -----------------------------
(* Instances of TsmEngine for TLC. *)
EXTENDS TsmEngine
=============================================================================
