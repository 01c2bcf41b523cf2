---------------------------- MODULE EventPipeline ---------------------------
(***************************************************************************)
(* The way of an event through the sensu backend, and the backend's        *)
(* shutdown (backend/eventd/eventd.go, pipelined/pipelined.go and          *)
(* handle.go, backend.go).  Agent sessions and API requests publish events *)
(* to the topic "raw"; the handlers of eventd take them, store those that  *)
(* carry a check and publish them to "event"; the pipelines of pipelined   *)
(* take them from there and run the event's handlers.  Callbacks of the    *)
(* liveness switches publish to "event" directly.  On shutdown eventd is   *)
(* stopped, then pipelined, then the bus; nobody waits for the sessions.   *)
(* Behaviours begin when the daemons have been started.                    *)
(***************************************************************************)
EXTENDS WizardBus

CONSTANTS
  Sources,     \* goroutines that publish one event each to "raw"
  Callbacks,   \* goroutines that publish one event each to "event"
  EventdCount, PipelineCount,  \* the goroutines of the two daemons
  Metrics,     \* the events that carry no check
  Handlers,    \* the expanded handlers of every event
  Hanging,     \* handlers that may never return
  Stops        \* the backend is stopped in some behaviours

ASSUME MetricsAssumption == Metrics \subseteq Sources
ASSUME HangingAssumption == Hanging \subseteq Handlers
ASSUME PublishersAssumption ==
  /\ Publishers = Sources \cup Callbacks \cup EventdCount
  /\ Sources \cap Callbacks = {}
  /\ (Sources \cup Callbacks) \cap EventdCount = {}
ASSUME HandlerCountAssumption == EventdCount # {}

\* The daemons on the bus, the names they subscribe under and their topics.
ASSUME DaemonsAssumption ==
  /\ Topics = {"raw", "event"} /\ MaxTopics = 2
  /\ Subscribers = {"eventd", "pipelined"}
  /\ ConsumerName = [s \in Subscribers |-> s]
  /\ ChanCap \in [Subscribers -> Nat]

VARIABLES
  begun,      \* sources and callbacks that have called Publish
  accepted,   \* events that have been in the channel of eventd
  stored,     \* events in the event store
  ew,         \* ew[w]: a goroutine of eventd
  pw,         \* pw[v]: a goroutine of pipelined
  fate,       \* fate[e]: "open", "failed" in eventd, or "handled"
  shutdown    \* where the backend's stop group is

pipeVars == <<begun, accepted, stored, ew, pw, fate, shutdown>>
vars == <<busVars, pipeVars>>

Events == Sources \cup Callbacks
Select == [pc |-> "select"]
Ended == [pc |-> "ended"]

\* Run has started the bus, pipelined and eventd: both are subscribed.
Init ==
  /\ busStop = "no"
  /\ topics = [t \in Topics |-> IF t = "raw" THEN 1 ELSE 2]
  /\ created = 2
  /\ bindings = <<[n \in {"eventd"} |-> n], [n \in {"pipelined"} |-> n]>>
  /\ done = {} /\ leaked = {} /\ closed = {}
  /\ topicsMu = FALSE /\ panicked = FALSE
  /\ pub = [p \in Publishers |-> Returned]
  /\ sub = [s \in Subscribers |-> Returned]
  /\ chan = [s \in Subscribers |-> << >>]
  /\ begun = {} /\ accepted = {} /\ stored = {}
  /\ ew = [w \in EventdCount |-> Select]
  /\ pw = [v \in PipelineCount |-> Select]
  /\ fate = [e \in Events |-> "open"]
  /\ shutdown = "no"

-----------------------------------------------------------------------------
\* Session.handleEvent, the API's event actions, a callback: one Publish.
Emit(e) ==
  /\ e \notin begun
  /\ begun' = begun \cup {e}
  /\ Publish(e, IF e \in Sources THEN "raw" ELSE "event", e)
  /\ UNCHANGED <<accepted, stored, ew, pw, fate, shutdown>>

PublishGoesOn(p) ==
  /\ PublishStep(p)
  /\ accepted' = accepted \cup Range(chan'["eventd"])
  /\ UNCHANGED <<begun, stored, ew, pw, fate, shutdown>>

-----------------------------------------------------------------------------
(***************************************************************************)
(* A goroutine of eventd.                                                  *)
(***************************************************************************)
Take(s) ==
  /\ ~panicked
  /\ chan[s] # << >>
  /\ chan' = [chan EXCEPT ![s] = Tail(@)]
  /\ UNCHANGED <<busStop, topics, created, bindings, done, leaked, topicsMu,
                 pub, sub, closed, panicked>>

EventdTakes(w) ==
  /\ ew[w].pc = "select"
  /\ Take("eventd")
  /\ ew' = [ew EXCEPT ![w] = [pc |-> "handle", event |-> Head(chan["eventd"])]]
  /\ UNCHANGED <<begun, accepted, stored, pw, fate, shutdown>>

\* Mutant: events without a check are stored, too.
EventdStoresAll(w) ==
  /\ ~panicked
  /\ ew[w].pc = "handle"
  /\ stored' = stored \cup {ew[w].event}
  /\ ew' = [ew EXCEPT ![w].pc = "stored"]
  /\ UNCHANGED <<busVars, begun, accepted, pw, fate, shutdown>>

\* handleMessage: the store is updated; an event without a check skips it.
EventdStores(w) ==
  /\ ~panicked
  /\ ew[w].pc = "handle" /\ ew[w].event \notin Metrics
  /\ stored' = stored \cup {ew[w].event}
  /\ ew' = [ew EXCEPT ![w].pc = "stored"]
  /\ UNCHANGED <<busVars, begun, accepted, pw, fate, shutdown>>

\* handleMessage fails: the event is invalid, or the store or the liveness
\* switch of a check event refuses; the error is logged.
EventdFails(w) ==
  /\ ~panicked
  /\ ew[w].pc \in {"handle", "stored"}
  /\ fate' = [fate EXCEPT ![ew[w].event] = "failed"]
  /\ ew' = [ew EXCEPT ![w] = Select]
  /\ UNCHANGED <<busVars, begun, accepted, stored, pw, shutdown>>

EventdPublishes(w) ==
  /\ \/ ew[w].pc = "stored"
     \/ ew[w].pc = "handle" /\ ew[w].event \in Metrics
  /\ Publish(w, "event", ew[w].event)
  /\ ew' = [ew EXCEPT ![w] = [pc |-> "publish"]]
  /\ UNCHANGED <<begun, accepted, stored, pw, fate, shutdown>>

EventdReturns(w) ==
  /\ ~panicked
  /\ ew[w].pc = "publish" /\ pub[w].pc = "idle"
  /\ ew' = [ew EXCEPT ![w] = Select]
  /\ UNCHANGED <<busVars, begun, accepted, stored, pw, fate, shutdown>>

\* Mutant: a closed channel ends the goroutine at once.
EventdLeaves(w) ==
  /\ ~panicked
  /\ ew[w].pc = "select" /\ "eventd" \in closed
  /\ ew' = [ew EXCEPT ![w] = Ended]
  /\ UNCHANGED <<busVars, begun, accepted, stored, pw, fate, shutdown>>

\* The channel is closed and drained, in whichever case of the select.
EventdEnds(w) ==
  /\ ~panicked
  /\ ew[w].pc = "select" /\ "eventd" \in closed /\ chan["eventd"] = << >>
  /\ ew' = [ew EXCEPT ![w] = Ended]
  /\ UNCHANGED <<busVars, begun, accepted, stored, pw, fate, shutdown>>

-----------------------------------------------------------------------------
(***************************************************************************)
(* A goroutine of pipelined: handleEvent goes through the event's handlers *)
(* in the order of a map.                                                  *)
(***************************************************************************)
PipeTakes(v) ==
  /\ pw[v].pc = "select"
  /\ Take("pipelined")
  /\ pw' = [pw EXCEPT ![v] = [pc |-> "handle", event |-> Head(chan["pipelined"]),
                              todo |-> Handlers]]
  /\ UNCHANGED <<begun, accepted, stored, ew, fate, shutdown>>

\* The handler's filters deny the event, or its mutator fails,
PipeSkips(v) ==
  /\ ~panicked
  /\ pw[v].pc = "handle"
  /\ \E h \in pw[v].todo : pw' = [pw EXCEPT ![v].todo = @ \ {h}]
  /\ UNCHANGED <<busVars, begun, accepted, stored, ew, fate, shutdown>>

\* or it runs,
PipeRuns(v) ==
  /\ ~panicked
  /\ pw[v].pc = "handle"
  /\ \E h \in pw[v].todo :
       pw' = [pw EXCEPT ![v] = [pc |-> "run", event |-> pw[v].event,
                                todo |-> pw[v].todo \ {h}, handler |-> h]]
  /\ UNCHANGED <<busVars, begun, accepted, stored, ew, fate, shutdown>>

\* and returns, with an error or without one.
PipeReturns(v) ==
  /\ ~panicked
  /\ pw[v].pc = "run" /\ pw[v].handler \notin Hanging
  /\ pw' = [pw EXCEPT ![v] = [pc |-> "handle", event |-> pw[v].event,
                              todo |-> pw[v].todo]]
  /\ UNCHANGED <<busVars, begun, accepted, stored, ew, fate, shutdown>>

\* Mutant: the goroutine returns with handleEvent.
PipeHandlesOne(v) ==
  /\ ~panicked
  /\ pw[v].pc = "handle" /\ pw[v].todo = {}
  /\ fate' = [fate EXCEPT ![pw[v].event] = "handled"]
  /\ pw' = [pw EXCEPT ![v] = Ended]
  /\ UNCHANGED <<busVars, begun, accepted, stored, ew, shutdown>>

PipeHandled(v) ==
  /\ ~panicked
  /\ pw[v].pc = "handle" /\ pw[v].todo = {}
  /\ fate' = [fate EXCEPT ![pw[v].event] = "handled"]
  /\ pw' = [pw EXCEPT ![v] = Select]
  /\ UNCHANGED <<busVars, begun, accepted, stored, ew, shutdown>>

\* The select may prefer stopping to the events in the channel.
PipeEnds(v) ==
  /\ ~panicked
  /\ pw[v].pc = "select" /\ shutdown = "pipelined wait"
  /\ pw' = [pw EXCEPT ![v] = Ended]
  /\ UNCHANGED <<busVars, begun, accepted, stored, ew, fate, shutdown>>

-----------------------------------------------------------------------------
(***************************************************************************)
(* stopGroup.Stop: eventd, pipelined and the bus, one after the other.     *)
(***************************************************************************)
Stopping(from, to) ==
  /\ ~panicked
  /\ shutdown = from
  /\ shutdown' = to
  /\ UNCHANGED <<begun, accepted, stored, ew, pw, fate>>

StopBegins == Stops /\ Stopping("no", "eventd cancel") /\ UNCHANGED busVars

\* Eventd.Stop
EventdCancels ==
  Stopping("eventd cancel", "eventd close") /\ Unsubscribe("eventd", 1)

\* Mutant: Stop closes shutdownChan and leaves the channel open.
EventdStaysOpen ==
  Stopping("eventd close", "eventd wait") /\ UNCHANGED busVars

EventdCloses ==
  Stopping("eventd close", "eventd wait") /\ CloseChannel("eventd")

\* Mutant: Stop does not wait for the goroutines.
EventdRushes ==
  Stopping("eventd wait", "pipelined stop") /\ UNCHANGED busVars

EventdWaits ==
  /\ \A w \in EventdCount : ew[w].pc = "ended"
  /\ Stopping("eventd wait", "pipelined stop") /\ UNCHANGED busVars

\* Pipelined.Stop
PipelinedStops == Stopping("pipelined stop", "pipelined wait") /\ UNCHANGED busVars

PipelinedWaits ==
  /\ \A v \in PipelineCount : pw[v].pc = "ended"
  /\ Stopping("pipelined wait", "pipelined cancel") /\ UNCHANGED busVars

PipelinedCancels ==
  Stopping("pipelined cancel", "pipelined close") /\ Unsubscribe("pipelined", 2)

PipelinedCloses == Stopping("pipelined close", "bus") /\ CloseChannel("pipelined")

\* WizardBus.Stop
BusStops == Stopping("bus", "bus close") /\ StopRunning
BusCloses == Stopping("bus close", "done") /\ CloseTopics

StopStep ==
  \/ EventdCancels \/ EventdCloses \/ EventdWaits
  \/ PipelinedStops \/ PipelinedWaits \/ PipelinedCancels \/ PipelinedCloses
  \/ BusStops \/ BusCloses

-----------------------------------------------------------------------------
EventdStep(w) ==
  \/ EventdTakes(w) \/ EventdStores(w) \/ EventdFails(w)
  \/ EventdPublishes(w) \/ PublishGoesOn(w) \/ EventdReturns(w) \/ EventdEnds(w)

PipeStep(v) ==
  \/ PipeTakes(v) \/ PipeSkips(v) \/ PipeRuns(v) \/ PipeReturns(v)
  \/ PipeHandled(v) \/ PipeEnds(v)

Next ==
  \/ \E e \in Events : Emit(e) \/ PublishGoesOn(e)
  \/ \E w \in EventdCount : EventdStep(w)
  \/ \E v \in PipelineCount : PipeStep(v)
  \/ StopBegins \/ StopStep

Spec == Init /\ [][Next]_vars

(***************************************************************************)
(* Every goroutine that has begun runs when it can.  That a handler        *)
(* outside Hanging returns is the timeout of the command it runs.          *)
(***************************************************************************)
Fairness ==
  /\ \A e \in Events : WF_vars(PublishGoesOn(e))
  /\ \A w \in EventdCount : WF_vars(EventdStep(w))
  /\ \A v \in PipelineCount : WF_vars(PipeStep(v))
  /\ WF_vars(StopStep)

FairSpec == Spec /\ Fairness

-----------------------------------------------------------------------------
\* What the variables hold.
TypeOK ==
  /\ BusTypeOK
  /\ accepted \subseteq begun \cap Sources /\ stored \subseteq accepted \ Metrics
  /\ \A w \in EventdCount :
       ew[w].pc \in {"select", "handle", "stored", "publish", "ended"}
  /\ \A v \in PipelineCount : pw[v].pc \in {"select", "handle", "run", "ended"}
  /\ fate \in [Events -> {"open", "failed", "handled"}]

InEventd(w, e) ==
  \/ ew[w].pc \in {"handle", "stored"} /\ ew[w].event = e
  \/ pub[w].pc # "idle" /\ pub[w].msg = e

InPipelined(v, e) == pw[v].pc \in {"handle", "run"} /\ pw[v].event = e

\* The places where an event is.
Places(e) ==
  (UNION {{<<s, i>> : i \in {j \in DOMAIN chan[s] : chan[s][j] = e}} :
            s \in Subscribers})
    \cup {<<"eventd goroutine", w>> : w \in {x \in EventdCount : InEventd(x, e)}}
    \cup {<<"pipeline", v>> : v \in {x \in PipelineCount : InPipelined(x, e)}}
    \cup (IF fate[e] = "open" THEN {} ELSE {<<"ended", fate[e]>>})

\* An event that eventd's channel took is at any time in exactly one place:
\* a channel, a goroutine of eventd or pipelined, or its end.  Nothing the
\* bus, the two daemons or their shutdown does drops or repeats it.
Accounted == \A e \in accepted : Cardinality(Places(e)) = 1

\* When eventd has stopped, it has passed on every event it took: none is
\* left in its channel or in its goroutines.
Drained ==
  shutdown \notin {"no", "eventd cancel", "eventd close", "eventd wait"} =>
    \A e \in accepted :
      \/ fate[e] # "open"
      \/ e \in Range(chan["pipelined"])
      \/ \E v \in PipelineCount : InPipelined(v, e)

\* Every event that eventd's channel took ends: eventd fails on it or all its
\* handlers are through with it.  A shutdown can leave it behind in one place
\* only, the channel of pipelined.
EventEnds ==
  \A e \in Sources :
    e \in accepted ~>
      \/ fate[e] # "open" \/ panicked
      \/ shutdown = "done" /\ e \in Range(chan["pipelined"])

\* The backend's shutdown ends, however full the channels are, unless a
\* goroutine that still publishes meets a closed channel.
ShutdownEnds == shutdown # "no" ~> (shutdown = "done" \/ panicked)

\* A Publish that waits for a subscriber returns, before, during and after a
\* shutdown, as long as handlers return.
PublishReturns ==
  \A p \in Publishers : pub[p].pc = "send" ~> (pub[p].pc = "idle" \/ panicked)
=============================================================================
