----------------------------- MODULE PointStore -----------------------------
(***************************************************************************)
(* What a shard promises about the batches written to it, whatever it does *)
(* inside: while it is up no batch disappears from view, and what it has   *)
(* acknowledged is in view again after every restart.  A batch it was      *)
(* offered and did not acknowledge may be there or not.                    *)
(***************************************************************************)
CONSTANT Writes

VARIABLES
  up,
  offered,  \* the batches some caller has begun to write
  visible,  \* the batches a query could return
  acked     \* the batches whose writing was acknowledged

vars == <<up, offered, visible, acked>>

Init ==
  /\ up = TRUE
  /\ offered = {}
  /\ visible = {}
  /\ acked = {}

Offer(w) ==
  /\ up
  /\ offered' = offered \cup {w}
  /\ UNCHANGED <<up, visible, acked>>

Show(w) ==
  /\ up
  /\ w \in offered
  /\ visible' = visible \cup {w}
  /\ UNCHANGED <<up, offered, acked>>

Ack(w) ==
  /\ up
  /\ w \in visible
  /\ acked' = acked \cup {w}
  /\ UNCHANGED <<up, offered, visible>>

Stop ==
  /\ up
  /\ up' = FALSE
  /\ visible' = {}
  /\ UNCHANGED <<offered, acked>>

Restart ==
  /\ ~up
  /\ up' = TRUE
  /\ visible' \in SUBSET offered
  /\ acked \subseteq visible'
  /\ UNCHANGED <<offered, acked>>

Next ==
  \/ \E w \in Writes : Offer(w) \/ Show(w) \/ Ack(w)
  \/ Stop \/ Restart

Spec == Init /\ [][Next]_vars
=============================================================================
