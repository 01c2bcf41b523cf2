------------------------------ MODULE WizardBus -----------------------------
(***************************************************************************)
(* The message bus of the sensu backend (backend/messaging/wizard_bus.go,  *)
(* wizard_topic.go).  A topic name leads to a topic object, which binds    *)
(* consumer names to the channels of their subscribers.  Publish runs in   *)
(* the publisher's goroutine: it looks the object up, copies its bindings  *)
(* and then sends to one channel after the other, holding no lock.  The    *)
(* modules that extend this one say who publishes, who subscribes and who  *)
(* reads the channels.                                                     *)
(***************************************************************************)
EXTENDS Integers, Sequences, FiniteSets, Functions

CONSTANTS
  Topics,        \* names of topics
  Publishers,    \* goroutines that call Publish
  Subscribers,   \* the owners of the receiving channels
  ConsumerName,  \* ConsumerName[s]: the name s subscribes under
  ChanCap,       \* ChanCap[s]: capacity of the channel of s
  MaxTopics      \* bound on the topic objects made in a behaviour

ASSUME MaxTopicsAssumption == MaxTopics \in Nat

VARIABLES
  busStop,   \* where the bus's Stop is: "no", "closing", "done"
  topics,    \* topics[t]: the object under that name, 0 when there is none
  created,   \* number of topic objects made; objects are 1..created
  bindings,  \* bindings[g]: subscribers by consumer name
  done,      \* objects whose done channel is closed
  leaked,    \* objects whose mutex is never unlocked again
  topicsMu,  \* the bus's own mutex is held
  pub,       \* pub[p]: the call of Publish that p is in
  sub,       \* sub[s]: the call of Subscribe that s is in
  chan,      \* chan[s]: messages in the channel of s
  closed,    \* subscribers whose channel is closed
  panicked   \* a goroutine panicked: the process is gone

busVars == <<busStop, topics, created, bindings, done, leaked, topicsMu, pub,
             sub, chan, closed, panicked>>

Returned == [pc |-> "idle"]

\* WizardBus.running, which Stop clears first.
running == busStop = "no"

BusInit ==
  /\ busStop = "no"
  /\ topics = [t \in Topics |-> 0]
  /\ created = 0
  /\ bindings = [g \in 1 .. MaxTopics |-> << >>]
  /\ done = {} /\ leaked = {} /\ closed = {}
  /\ topicsMu = FALSE
  /\ pub = [p \in Publishers |-> Returned]
  /\ sub = [s \in Subscribers |-> Returned]
  /\ chan = [s \in Subscribers |-> << >>]
  /\ panicked = FALSE

-----------------------------------------------------------------------------
(***************************************************************************)
(* Publish and wizardTopic.Send.                                           *)
(***************************************************************************)

\* Publish reads running; a stopped bus refuses the message.
Publish(p, t, m) ==
  /\ ~panicked
  /\ pub[p].pc = "idle"
  /\ pub' = [pub EXCEPT ![p] =
               IF running THEN [pc |-> "lookup", topic |-> t, msg |-> m]
                          ELSE Returned]
  /\ UNCHANGED <<busStop, topics, created, bindings, done, leaked, topicsMu,
                 sub, chan, closed, panicked>>

\* The object is read under topicsMu; without one Publish is a no-op.
LookUp(p) ==
  /\ ~panicked
  /\ pub[p].pc = "lookup" /\ ~topicsMu
  /\ LET g == topics[pub[p].topic]
     IN pub' = [pub EXCEPT ![p] =
                  IF g = 0 THEN Returned
                  ELSE [pc |-> "copy", object |-> g, msg |-> pub[p].msg]]
  /\ UNCHANGED <<busStop, topics, created, bindings, done, leaked, topicsMu,
                 sub, chan, closed, panicked>>

\* The orders in which a map may yield its elements.
Orders(S) == Bijection(1 .. Cardinality(S), S)

\* Send copies the bindings, in the order the map yields them.
CopyBindings(p) ==
  /\ ~panicked
  /\ pub[p].pc = "copy" /\ pub[p].object \notin leaked
  /\ \E order \in Orders(Range(bindings[pub[p].object])) :
       pub' = [pub EXCEPT ![p] =
                 IF order = << >> THEN Returned
                 ELSE [pc |-> "send", object |-> pub[p].object,
                       msg |-> pub[p].msg, to |-> order]]
  /\ UNCHANGED <<busStop, topics, created, bindings, done, leaked, topicsMu,
                 sub, chan, closed, panicked>>

Receiver(p) == Head(pub[p].to)

\* The call after its first subscriber has been served.
Advanced(call) ==
  IF Len(call.to) = 1 THEN Returned ELSE [call EXCEPT !.to = Tail(call.to)]

\* Mutant: Send returns once a subscriber has the message.
DeliverToFirst(p) ==
  /\ ~panicked
  /\ pub[p].pc = "send" /\ Receiver(p) \notin closed
  /\ Len(chan[Receiver(p)]) < ChanCap[Receiver(p)]
  /\ chan' = [chan EXCEPT ![Receiver(p)] = Append(@, pub[p].msg)]
  /\ pub' = [pub EXCEPT ![p] = Returned]
  /\ UNCHANGED <<busStop, topics, created, bindings, done, leaked, topicsMu,
                 sub, closed, panicked>>

\* Mutant: after a send the loop starts over with the same subscriber.
DeliverAgain(p) ==
  /\ ~panicked
  /\ pub[p].pc = "send" /\ Receiver(p) \notin closed
  /\ Len(chan[Receiver(p)]) < ChanCap[Receiver(p)]
  /\ chan' = [chan EXCEPT ![Receiver(p)] = Append(@, pub[p].msg)]
  /\ UNCHANGED <<busStop, topics, created, bindings, done, leaked, topicsMu,
                 pub, sub, closed, panicked>>

\* The select of Send: the channel takes the message,
Deliver(p) ==
  /\ ~panicked
  /\ pub[p].pc = "send" /\ Receiver(p) \notin closed
  /\ Len(chan[Receiver(p)]) < ChanCap[Receiver(p)]
  /\ chan' = [chan EXCEPT ![Receiver(p)] = Append(@, pub[p].msg)]
  /\ pub' = [pub EXCEPT ![p] = Advanced(@)]
  /\ UNCHANGED <<busStop, topics, created, bindings, done, leaked, topicsMu,
                 sub, closed, panicked>>

\* or is closed, and sending to it panics,
DeliverPanics(p) ==
  /\ ~panicked
  /\ pub[p].pc = "send" /\ Receiver(p) \in closed
  /\ panicked' = TRUE
  /\ UNCHANGED <<busStop, topics, created, bindings, done, leaked, topicsMu,
                 pub, sub, chan, closed>>

\* or the topic is done, and Send returns without its other subscribers.
Abandon(p) ==
  /\ ~panicked
  /\ pub[p].pc = "send" /\ pub[p].object \in done
  /\ pub' = [pub EXCEPT ![p] = Returned]
  /\ UNCHANGED <<busStop, topics, created, bindings, done, leaked, topicsMu,
                 sub, chan, closed, panicked>>

PublishStep(p) ==
  \/ LookUp(p)
  \/ CopyBindings(p)
  \/ Deliver(p)
  \/ DeliverPanics(p)
  \/ Abandon(p)

-----------------------------------------------------------------------------
(***************************************************************************)
(* Subscribe and unsubscribe.                                              *)
(***************************************************************************)

\* Subscribe reads running,
Subscribe(s, t) ==
  /\ ~panicked
  /\ running /\ sub[s].pc = "idle"
  /\ sub' = [sub EXCEPT ![s] = [pc |-> "find", topic |-> t]]
  /\ UNCHANGED <<busStop, topics, created, bindings, done, leaked, topicsMu,
                 pub, chan, closed, panicked>>

\* takes topicsMu and finds the object, or makes one for a missing or a
\* closed object,
FindTopic(s) ==
  /\ ~panicked
  /\ sub[s].pc = "find" /\ ~topicsMu
  /\ LET t == sub[s].topic
         fresh == topics[t] = 0 \/ topics[t] \in done
         g == IF fresh THEN created + 1 ELSE topics[t]
     IN /\ g <= MaxTopics
        /\ created' = IF fresh THEN g ELSE created
        /\ topics' = [topics EXCEPT ![t] = g]
        /\ sub' = [sub EXCEPT ![s] = [pc |-> "bind", object |-> g]]
  /\ topicsMu' = TRUE
  /\ UNCHANGED <<busStop, bindings, done, leaked, pub, chan, closed, panicked>>

\* and binds the consumer's name to the subscriber.
BindConsumer(s) ==
  /\ ~panicked
  /\ sub[s].pc = "bind" /\ sub[s].object \notin leaked
  /\ bindings' = [bindings EXCEPT ![sub[s].object] =
                    [n \in DOMAIN @ \cup {ConsumerName[s]} |->
                       IF n = ConsumerName[s] THEN s ELSE @[n]]]
  /\ sub' = [sub EXCEPT ![s] = Returned]
  /\ topicsMu' = FALSE
  /\ UNCHANGED <<busStop, topics, created, done, leaked, pub, chan, closed,
                 panicked>>

Unbound(b, name) == [n \in DOMAIN b \ {name} |-> b[n]]

\* Mutant: every unsubscription closes the topic.
UnsubscribeCloses(s, g) ==
  /\ ~panicked
  /\ g \notin leaked
  /\ bindings' = [bindings EXCEPT ![g] = Unbound(@, ConsumerName[s])]
  /\ done' = done \cup {g}
  /\ UNCHANGED <<busStop, topics, created, leaked, topicsMu, pub, sub, chan,
                 closed, panicked>>

\* unsubscribe deletes what is bound to the name; the last one closes done.
Unsubscribe(s, g) ==
  /\ ~panicked
  /\ g \notin leaked
  /\ bindings' = [bindings EXCEPT ![g] = Unbound(@, ConsumerName[s])]
  /\ done' = IF DOMAIN bindings'[g] = {} THEN done \cup {g} ELSE done
  /\ UNCHANGED <<busStop, topics, created, leaked, topicsMu, pub, sub, chan,
                 closed, panicked>>

\* A subscriber closes its own channel.
CloseChannel(s) ==
  /\ ~panicked
  /\ closed' = closed \cup {s}
  /\ UNCHANGED <<busStop, topics, created, bindings, done, leaked, topicsMu,
                 pub, sub, chan, panicked>>

-----------------------------------------------------------------------------
(***************************************************************************)
(* WizardBus.Stop: running is cleared, then every object in the map is     *)
(* closed under topicsMu.  Close returns early, with the object's mutex    *)
(* locked, when the object is closed already.                              *)
(***************************************************************************)
StopRunning ==
  /\ ~panicked
  /\ busStop = "no" /\ busStop' = "closing"
  /\ UNCHANGED <<topics, created, bindings, done, leaked, topicsMu, pub, sub,
                 chan, closed, panicked>>

CloseTopics ==
  /\ ~panicked
  /\ busStop = "closing" /\ ~topicsMu
  /\ busStop' = "done"
  /\ LET objects == Range(topics) \ {0}
     IN /\ done' = done \cup objects
        /\ leaked' = leaked \cup (objects \cap done)
        /\ bindings' = [g \in DOMAIN bindings |->
                          IF g \in objects \ done THEN << >> ELSE bindings[g]]
  /\ UNCHANGED <<topics, created, topicsMu, pub, sub, chan, closed, panicked>>

-----------------------------------------------------------------------------
\* What the bus's variables hold.
BusTypeOK ==
  /\ busStop \in {"no", "closing", "done"}
  /\ topicsMu \in BOOLEAN /\ panicked \in BOOLEAN
  /\ created \in 0 .. MaxTopics
  /\ topics \in [Topics -> 0 .. created]
  /\ done \subseteq 1 .. created /\ leaked \subseteq done
  /\ closed \subseteq Subscribers
  /\ \A g \in 1 .. MaxTopics : \A n \in DOMAIN bindings[g] :
       /\ bindings[g][n] \in Subscribers
       /\ ConsumerName[bindings[g][n]] = n
  /\ \A p \in Publishers : pub[p].pc \in {"idle", "lookup", "copy", "send"}
  /\ \A s \in Subscribers :
       /\ sub[s].pc \in {"idle", "find", "bind"}
       /\ Len(chan[s]) <= ChanCap[s]
=============================================================================
