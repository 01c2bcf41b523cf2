---------------------------- MODULE AgentSessions ---------------------------
(***************************************************************************)
(* The sessions of agentd on the message bus (backend/agentd/session.go):  *)
(* check requests that schedulers publish to the topic of a subscription   *)
(* go through the session's checkChannel, subPump, sendq and sendPump to   *)
(* the agent.  Start subscribes the session, the end of recvPump stops it. *)
(* A scheduler (backend/schedulerd/executor.go) publishes its requests one *)
(* after the other, each to all the subscriptions of the check.            *)
(***************************************************************************)
EXTENDS WizardBus

CONSTANTS
  SubscriptionsOf,  \* SubscriptionsOf[s]: the topics of session s, in order
  CheckTopics,      \* the topics of every check, in order
  MaxRequests,      \* requests a scheduler publishes
  SendqCap,         \* capacity of sendq
  Steady,           \* sessions that connect first and stay connected
  BusStops          \* the bus is stopped in some behaviours

ASSUME SessionsAssumption == IsFiniteSet(Subscribers) /\ Steady \subseteq Subscribers
ASSUME BusStopsAssumption == BusStops \in BOOLEAN
ASSUME SubscriptionsAssumption ==
  SubscriptionsOf \in [Subscribers -> Seq(Topics)] /\ CheckTopics \in Seq(Topics)
ASSUME CapacitiesAssumption ==
  ChanCap \in [Subscribers -> Nat] /\ SendqCap \in Nat /\ MaxRequests \in Nat

VARIABLES
  left,        \* left[p]: [n |-> the request's number, to |-> its topics]
  start,       \* start[s]: where the goroutine of Start is
  remaining,   \* remaining[s]: topics that Start has still to subscribe to
  subscribed,  \* subscribed[s]: the channel subscriptions
  subsClosed,  \* sessions whose channel subscriptions is closed
  recvPump, subPump, sendPump,
  held,        \* held[s]: what subPump took and has not put into sendq
  sendq,
  conn,        \* sessions whose connection is up
  stopping,    \* sessions whose channel stopping is closed
  stop,        \* stop[s]: where the call of Stop is
  got          \* got[s]: what was given to the agent's connection

sessionVars == <<left, start, remaining, subscribed, subsClosed, recvPump,
                 subPump, sendPump, held, sendq, conn, stopping, stop, got>>
vars == <<busVars, sessionVars>>

Init ==
  /\ BusInit
  /\ left = [p \in Publishers |-> [n |-> 0, to |-> << >>]]
  /\ start = [s \in Subscribers |-> "new"]
  /\ remaining = SubscriptionsOf
  /\ subscribed = [s \in Subscribers |-> << >>]
  /\ recvPump = [s \in Subscribers |-> "off"]
  /\ subPump = [s \in Subscribers |-> "off"]
  /\ sendPump = [s \in Subscribers |-> "off"]
  /\ held = [s \in Subscribers |-> << >>]
  /\ sendq = [s \in Subscribers |-> << >>]
  /\ conn = {} /\ stopping = {} /\ subsClosed = {}
  /\ stop = [s \in Subscribers |-> "none"]
  /\ got = [s \in Subscribers |-> << >>]

-----------------------------------------------------------------------------
(***************************************************************************)
(* Schedulers.                                                             *)
(***************************************************************************)

\* The next request of scheduler p,
BuildRequest(p) ==
  /\ ~panicked
  /\ pub[p].pc = "idle" /\ left[p].to = << >> /\ left[p].n < MaxRequests
  /\ left' = [left EXCEPT ![p] = [n |-> left[p].n + 1, to |-> CheckTopics]]
  /\ UNCHANGED <<busVars, start, remaining, subscribed, subsClosed, recvPump,
                 subPump, sendPump, held, sendq, conn, stopping, stop, got>>

\* published to its next subscription.
Execute(p) ==
  /\ left[p].to # << >>
  /\ Publish(p, Head(left[p].to), <<p, left[p].n>>)
  /\ left' = [left EXCEPT ![p].to = Tail(@)]
  /\ UNCHANGED <<start, remaining, subscribed, subsClosed, recvPump, subPump,
                 sendPump, held, sendq, conn, stopping, stop, got>>

PublishGoesOn(p) == PublishStep(p) /\ UNCHANGED sessionVars

-----------------------------------------------------------------------------
(***************************************************************************)
(* Session.Start, run by the handler of the websocket request.             *)
(***************************************************************************)
Connect(s) ==
  /\ ~panicked
  /\ start[s] = "new"
  /\ s \in Steady \/ \A q \in Steady : start[q] = "started"
  /\ start' = [start EXCEPT ![s] = "subscribing"]
  /\ recvPump' = [recvPump EXCEPT ![s] = "receive"]
  /\ subPump' = [subPump EXCEPT ![s] = "select"]
  /\ sendPump' = [sendPump EXCEPT ![s] = "select"]
  /\ conn' = conn \cup {s}
  /\ UNCHANGED <<busVars, left, remaining, subscribed, subsClosed, held, sendq,
                 stopping, stop, got>>

StartSubscribes(s) ==
  /\ start[s] = "subscribing" /\ remaining[s] # << >>
  /\ Subscribe(s, Head(remaining[s]))
  /\ remaining' = [remaining EXCEPT ![s] = Tail(@)]
  /\ UNCHANGED <<left, start, subscribed, subsClosed, recvPump, subPump,
                 sendPump, held, sendq, conn, stopping, stop, got>>

StartFinds(s) == FindTopic(s) /\ UNCHANGED sessionVars

\* The subscription goes into the channel that Stop reads.
StartBinds(s) ==
  /\ BindConsumer(s)
  /\ subscribed' = [subscribed EXCEPT ![s] = Append(@, sub[s].object)]
  /\ UNCHANGED <<left, start, remaining, subsClosed, recvPump, subPump,
                 sendPump, held, sendq, conn, stopping, stop, got>>

\* Mutant: the channel subscriptions is left open.
StartEndsOpen(s) ==
  /\ ~panicked
  /\ start[s] = "subscribing" /\ remaining[s] = << >> /\ sub[s].pc = "idle"
  /\ start' = [start EXCEPT ![s] = "started"]
  /\ UNCHANGED <<busVars, left, remaining, subscribed, subsClosed, recvPump,
                 subPump, sendPump, held, sendq, conn, stopping, stop, got>>

StartEnds(s) ==
  /\ ~panicked
  /\ start[s] = "subscribing" /\ remaining[s] = << >> /\ sub[s].pc = "idle"
  /\ start' = [start EXCEPT ![s] = "started"]
  /\ subsClosed' = subsClosed \cup {s}
  /\ UNCHANGED <<busVars, left, remaining, subscribed, recvPump, subPump,
                 sendPump, held, sendq, conn, stopping, stop, got>>

\* Stop closes stopping first; closing it twice panics.
CallStop(s) ==
  /\ ~panicked
  /\ panicked' = (s \in stopping)
  /\ stopping' = stopping \cup {s}
  /\ stop' = [stop EXCEPT ![s] = IF s \in stopping THEN @ ELSE "wait"]
  /\ UNCHANGED <<busStop, topics, created, bindings, done, leaked, topicsMu,
                 pub, sub, chan, closed>>

\* Subscribe refuses: Start returns the error and its defer calls Stop.
StartFails(s) ==
  /\ start[s] = "subscribing" /\ remaining[s] # << >> /\ sub[s].pc = "idle"
  /\ ~running
  /\ CallStop(s)
  /\ start' = [start EXCEPT ![s] = "failed"]
  /\ UNCHANGED <<left, remaining, subscribed, subsClosed, recvPump, subPump,
                 sendPump, held, sendq, conn, got>>

-----------------------------------------------------------------------------
(***************************************************************************)
(* The pumps.                                                              *)
(***************************************************************************)
Pump(pump, s, from, to) ==
  /\ ~panicked
  /\ pump[s] = from
  /\ pump' = [pump EXCEPT ![s] = to]

\* The connection is lost (external).
Disconnect(s) ==
  /\ ~panicked
  /\ s \in conn \ Steady
  /\ conn' = conn \ {s}
  /\ UNCHANGED <<busVars, left, start, remaining, subscribed, subsClosed,
                 recvPump, subPump, sendPump, held, sendq, stopping, stop, got>>

\* Receive fails, or returns and stopping is seen; the defer calls wg.Done,
RecvExits(s) ==
  /\ s \notin conn \/ s \in stopping
  /\ Pump(recvPump, s, "receive", "exited")
  /\ UNCHANGED <<busVars, left, start, remaining, subscribed, subsClosed,
                 subPump, sendPump, held, sendq, conn, stopping, stop, got>>

\* looks whether somebody else is stopping the session,
RecvLooks(s) ==
  /\ Pump(recvPump, s, "exited", IF s \in stopping THEN "ended" ELSE "stop")
  /\ UNCHANGED <<busVars, left, start, remaining, subscribed, subsClosed,
                 subPump, sendPump, held, sendq, conn, stopping, stop, got>>

\* and stops it.
RecvStops(s) ==
  /\ Pump(recvPump, s, "stop", "ended")
  /\ CallStop(s)
  /\ UNCHANGED <<left, start, remaining, subscribed, subsClosed, subPump,
                 sendPump, held, sendq, conn, got>>

SubTakes(s) ==
  /\ chan[s] # << >>
  /\ Pump(subPump, s, "select", "push")
  /\ held' = [held EXCEPT ![s] = <<Head(chan[s])>>]
  /\ chan' = [chan EXCEPT ![s] = Tail(@)]
  /\ UNCHANGED <<busStop, topics, created, bindings, done, leaked, topicsMu,
                 pub, sub, closed, panicked, left, start, remaining, subscribed,
                 subsClosed, recvPump, sendPump, sendq, conn, stopping, stop,
                 got>>

\* Mutant: the pump goes on to its select with the message in hand.
SubKeeps(s) ==
  /\ Len(sendq[s]) < SendqCap
  /\ Pump(subPump, s, "push", "select")
  /\ sendq' = [sendq EXCEPT ![s] = @ \o held[s]]
  /\ UNCHANGED <<busVars, left, start, remaining, subscribed, subsClosed,
                 recvPump, sendPump, held, conn, stopping, stop, got>>

\* The send to sendq is no select: it waits, stopping or not.
SubPushes(s) ==
  /\ Len(sendq[s]) < SendqCap
  /\ Pump(subPump, s, "push", "select")
  /\ sendq' = [sendq EXCEPT ![s] = @ \o held[s]]
  /\ held' = [held EXCEPT ![s] = << >>]
  /\ UNCHANGED <<busVars, left, start, remaining, subscribed, subsClosed,
                 recvPump, sendPump, conn, stopping, stop, got>>

SubEnds(s) ==
  /\ s \in stopping
  /\ Pump(subPump, s, "select", "ended")
  /\ UNCHANGED <<busVars, left, start, remaining, subscribed, subsClosed,
                 recvPump, sendPump, held, sendq, conn, stopping, stop, got>>

\* conn.Send ends sendPump when the connection is lost.
SendTakes(s) ==
  /\ sendq[s] # << >>
  /\ Pump(sendPump, s, "select", IF s \in conn THEN "select" ELSE "ended")
  /\ got' = [got EXCEPT ![s] = IF s \in conn THEN Append(@, Head(sendq[s])) ELSE @]
  /\ sendq' = [sendq EXCEPT ![s] = Tail(@)]
  /\ UNCHANGED <<busVars, left, start, remaining, subscribed, subsClosed,
                 recvPump, subPump, held, conn, stopping, stop>>

SendEnds(s) ==
  /\ s \in stopping
  /\ Pump(sendPump, s, "select", "ended")
  /\ UNCHANGED <<busVars, left, start, remaining, subscribed, subsClosed,
                 recvPump, subPump, held, sendq, conn, stopping, stop, got>>

-----------------------------------------------------------------------------
(***************************************************************************)
(* Session.Stop: wait for the pumps, cancel the subscriptions until their  *)
(* channel is closed and empty, close checkChannel.  Taking the agent out  *)
(* of its rings is left out.                                               *)
(***************************************************************************)
StopWaits(s) ==
  /\ recvPump[s] \in {"exited", "stop", "ended"}
  /\ subPump[s] = "ended" /\ sendPump[s] = "ended"
  /\ Pump(stop, s, "wait", "cancel")
  /\ UNCHANGED <<busVars, left, start, remaining, subscribed, subsClosed,
                 recvPump, subPump, sendPump, held, sendq, conn, stopping, got>>

StopCancels(s) ==
  /\ stop[s] = "cancel" /\ subscribed[s] # << >>
  /\ Unsubscribe(s, Head(subscribed[s]))
  /\ subscribed' = [subscribed EXCEPT ![s] = Tail(@)]
  /\ UNCHANGED <<left, start, remaining, subsClosed, recvPump, subPump,
                 sendPump, held, sendq, conn, stopping, stop, got>>

StopCloses(s) ==
  /\ subscribed[s] = << >> /\ s \in subsClosed
  /\ Pump(stop, s, "cancel", "done")
  /\ CloseChannel(s)
  /\ UNCHANGED <<left, start, remaining, subscribed, subsClosed, recvPump,
                 subPump, sendPump, held, sendq, conn, stopping, got>>

BusStop ==
  /\ BusStops
  /\ StopRunning \/ CloseTopics
  /\ UNCHANGED sessionVars

-----------------------------------------------------------------------------
Scheduler(p) == BuildRequest(p) \/ Execute(p) \/ PublishGoesOn(p)

StartStep(s) ==
  \/ StartSubscribes(s)
  \/ StartFinds(s)
  \/ StartBinds(s)
  \/ StartEnds(s)
  \/ StartFails(s)

RecvStep(s) == RecvExits(s) \/ RecvLooks(s) \/ RecvStops(s)
SubStep(s) == SubTakes(s) \/ SubPushes(s) \/ SubEnds(s)
SendStep(s) == SendTakes(s) \/ SendEnds(s)
StopStep(s) == StopWaits(s) \/ StopCancels(s) \/ StopCloses(s)

Next ==
  \/ BusStop
  \/ \E p \in Publishers : Scheduler(p)
  \/ \E s \in Subscribers :
       \/ Connect(s) \/ Disconnect(s)
       \/ StartStep(s) \/ RecvStep(s) \/ SubStep(s) \/ SendStep(s)
       \/ StopStep(s)

Spec == Init /\ [][Next]_vars

(***************************************************************************)
(* Every goroutine runs when it can.  A select between a message and       *)
(* stopping may prefer either, so weak fairness is per goroutine.          *)
(***************************************************************************)
Fairness ==
  /\ \A p \in Publishers : WF_vars(Scheduler(p))
  /\ \A s \in Subscribers :
       /\ WF_vars(StartStep(s)) /\ WF_vars(RecvStep(s)) /\ WF_vars(SubStep(s))
       /\ WF_vars(SendStep(s)) /\ WF_vars(StopStep(s))

FairSpec == Spec /\ Fairness

-----------------------------------------------------------------------------
\* What the variables hold.
TypeOK ==
  /\ BusTypeOK
  /\ conn \subseteq Subscribers /\ stopping \subseteq Subscribers
  /\ \A s \in Subscribers :
       /\ Len(sendq[s]) <= SendqCap
       /\ (held[s] # << >>) = (subPump[s] = "push")
       /\ (stop[s] = "none") = (s \notin stopping)

\* As long as the bus runs, a session that Start has subscribed and nobody
\* has begun to stop is bound, under its name, to the open object that
\* Publish finds for each of its subscriptions, whatever other sessions
\* subscribe and cancel meanwhile.
SessionBound ==
  \A s \in Subscribers : start[s] = "started" /\ s \notin stopping /\ running =>
    \A t \in Range(SubscriptionsOf[s]) :
      LET g == topics[t]
      IN /\ g # 0 /\ g \notin done
         /\ ConsumerName[s] \in DOMAIN bindings[g]
         /\ bindings[g][ConsumerName[s]] = s

\* What has reached session s, from the agent back to the bus.
Path(s) == got[s] \o sendq[s] \o held[s] \o chan[s]

\* The publications of a request that are meant for session s.
Meant(s) == {k \in DOMAIN CheckTopics : CheckTopics[k] \in Range(SubscriptionsOf[s])}

\* The requests of one scheduler reach a session in the order in which they
\* were published, and none reaches it more often than it was published to
\* a subscription of the session: neither the bus nor the pumps reorder or
\* repeat a request.
InOrder ==
  \A s \in Subscribers, p \in Publishers :
    LET path == Path(s)
        mine == {i \in DOMAIN path : path[i][1] = p}
    IN /\ \A i, j \in mine : i < j => path[i][2] <= path[j][2]
       /\ \A m \in {path[i] : i \in mine} :
            Cardinality({i \in mine : path[i] = m}) <= Cardinality(Meant(s))

\* A request that is published once a steady session has started is given
\* to the connection of that session's agent, however the other sessions
\* come and go, as long as the bus runs and no send has panicked.
Relayed ==
  \A p \in Publishers, s \in Steady, n \in 1 .. MaxRequests :
    /\ start[s] = "started"
    /\ pub[p].pc = "lookup" /\ pub[p].msg = <<p, n>>
    /\ pub[p].topic \in Range(SubscriptionsOf[s])
    ~> <<p, n>> \in Range(got[s]) \/ ~running \/ panicked

\* subPump waits for room in a sendq that sendPump will not read again.
Stuck(s) == subPump[s] = "push" /\ Len(sendq[s]) = SendqCap /\ sendPump[s] = "ended"

\* While the bus runs, a Stop that has begun waits for its pumps, cancels all
\* its subscriptions and ends; only a subPump that holds a request when
\* sendq is full and sendPump has gone keeps it.  Steady sessions have no Stop
\* before the bus has.
SessionStops ==
  \A s \in Subscribers \ Steady :
    s \in stopping ~> (stop[s] = "done" \/ Stuck(s) \/ ~running \/ panicked)
=============================================================================
