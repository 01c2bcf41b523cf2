------------------------- MODULE EventPipelineProofs ------------------------
(***************************************************************************)
(* What is proved of EventPipeline, for any number of sources, callbacks   *)
(* and goroutines and any capacity of the channels: the types, that an     *)
(* accepted event is in one place, and that eventd drains on shutdown.     *)
(***************************************************************************)
EXTENDS EventPipeline, SequenceTheorems, TLAPS

-----------------------------------------------------------------------------
(***************************************************************************)
(* The inductive invariant.                                                *)
(***************************************************************************)

\* The phases of the shutdown up to the one in which something goes down.
BeforeClose == {"no", "eventd cancel", "eventd close"}
EventdUp == BeforeClose \cup {"eventd wait"}
PipelinedUp ==
  EventdUp \cup {"pipelined stop", "pipelined wait", "pipelined cancel"}
BusUp == PipelinedUp \cup {"pipelined close", "bus"}
Phases == BusUp \cup {"bus close", "done"}

\* Each topic object has one consumer at most, its daemon.
Daemon(g) == IF g = 1 THEN "eventd" ELSE "pipelined"

\* What the calls and the goroutines hold.
Calls ==
  {Returned}
    \cup [pc : {"lookup"}, topic : Topics, msg : Events]
    \cup [pc : {"copy"}, object : 1 .. 2, msg : Events]
    \cup [pc : {"send"}, object : 1 .. 2, msg : Events,
          to : {<<"eventd">>, <<"pipelined">>}]
EventdStates ==
  {Select, Ended, [pc |-> "publish"]} \cup [pc : {"handle", "stored"}, event : Sources]
PipeStates ==
  {Select, Ended}
    \cup [pc : {"handle"}, event : Events, todo : SUBSET Handlers]
    \cup [pc : {"run"}, event : Events, todo : SUBSET Handlers, handler : Handlers]

Types ==
  /\ busStop \in {"no", "closing", "done"} /\ panicked \in BOOLEAN
  /\ topics = [t \in Topics |-> IF t = "raw" THEN 1 ELSE 2] /\ created = 2
  /\ topicsMu = FALSE /\ sub = [s \in Subscribers |-> Returned]
  /\ done \subseteq 1 .. 2 /\ leaked \subseteq done /\ closed \subseteq Subscribers
  /\ DOMAIN bindings = 1 .. 2
  /\ \A g \in 1 .. 2 : /\ DOMAIN bindings[g] \subseteq {Daemon(g)}
                       /\ \A n \in DOMAIN bindings[g] : bindings[g][n] = n
  /\ pub \in [Publishers -> Calls]
  /\ chan \in [Subscribers -> Seq(Events)]
  /\ \A s \in Subscribers : Len(chan[s]) <= ChanCap[s]
  /\ begun \subseteq Events /\ accepted \subseteq begun \cap Sources
  /\ stored \subseteq accepted \ Metrics
  /\ ew \in [EventdCount -> EventdStates] /\ pw \in [PipelineCount -> PipeStates]
  /\ fate \in [Events -> {"open", "failed", "handled"}]
  /\ shutdown \in Phases

\* How far the shutdown is, and what has gone down.  No goroutine of eventd
\* is left when pipelined begins to stop.
PhaseInv ==
  /\ busStop = "no" <=> shutdown \in BusUp
  /\ "eventd" \in closed <=> shutdown \notin BeforeClose
  /\ shutdown \in PipelinedUp =>
       2 \notin done /\ "pipelined" \in DOMAIN bindings[2]
  /\ shutdown \notin EventdUp => \A w \in EventdCount : ew[w].pc = "ended"
  /\ \A w \in EventdCount :
       ew[w].pc = "ended" => "eventd" \in closed /\ chan["eventd"] = << >>

\* The object that a call of Publish is about.
Towards(p, g) ==
  /\ pub[p].pc = "lookup" => topics[pub[p].topic] = g
  /\ pub[p].pc \in {"copy", "send"} => pub[p].object = g

CallInv ==
  /\ \A p \in Publishers :
       pub[p].pc = "send" => pub[p].to = <<Daemon(pub[p].object)>>
  /\ \A e \in Events :
       pub[e].pc # "idle" =>
         /\ e \in begun \ accepted /\ pub[e].msg = e
         /\ Towards(e, IF e \in Sources THEN 1 ELSE 2)
  /\ \A w \in EventdCount :
       pub[w].pc # "idle" =>
         /\ ew[w].pc = "publish" /\ pub[w].msg \in accepted
         /\ Towards(w, 2)

\* Where an event is: the channels, the goroutines of eventd and those of
\* pipelined that have it, and whether it has ended.
InChannel(s, e) == e \in Range(chan[s])
At(cs, ws, vs, f, e) ==
  /\ \A s \in Subscribers : InChannel(s, e) <=> s \in cs
  /\ \A w \in EventdCount : InEventd(w, e) <=> w \in ws
  /\ \A v \in PipelineCount : InPipelined(v, e) <=> v \in vs
  /\ fate[e] # "open" <=> f

Nowhere(e) == At({}, {}, {}, FALSE, e)
Somewhere(e) ==
  \/ \E s \in Subscribers : At({s}, {}, {}, FALSE, e)
  \/ \E w \in EventdCount : At({}, {w}, {}, FALSE, e)
  \/ \E v \in PipelineCount : At({}, {}, {v}, FALSE, e)
  \/ At({}, {}, {}, TRUE, e)

\* An event is in a channel once.
Once(s, e) ==
  \A i, j \in DOMAIN chan[s] : chan[s][i] = e /\ chan[s][j] = e => i = j

PlaceInv ==
  /\ \A e \in accepted : Somewhere(e)
  /\ \A e \in Sources \ accepted : Nowhere(e)
  /\ \A s \in Subscribers : \A e \in Sources : Once(s, e)
  /\ Range(chan["eventd"]) \subseteq accepted

Inv == Types /\ PhaseInv /\ CallInv /\ PlaceInv

-----------------------------------------------------------------------------
(***************************************************************************)
(* Lemmas about sequences.                                                 *)
(***************************************************************************)

\* Appending to a channel adds the message to what it holds.
LEMMA AppendRange ==
  ASSUME NEW S, NEW q \in Seq(S), NEW m \in S
  PROVE  /\ Append(q, m) \in Seq(S) /\ Len(Append(q, m)) = Len(q) + 1
         /\ Range(Append(q, m)) = Range(q) \cup {m}
<1>1. /\ Append(q, m) \in Seq(S) /\ Len(Append(q, m)) = Len(q) + 1
      /\ \A i \in 1 .. Len(q) : Append(q, m)[i] = q[i]
      /\ Append(q, m)[Len(q) + 1] = m
  BY AppendProperties
<1>2. DOMAIN q = 1 .. Len(q) /\ DOMAIN Append(q, m) = 1 .. (Len(q) + 1) /\ Len(q) \in Nat
  BY Zenon, <1>1, LenProperties
<1> QED
  BY <1>1, <1>2 DEF Range

\* Taking from a channel removes its head.
LEMMA TailRange ==
  ASSUME NEW S, NEW q \in Seq(S), q # << >>
  PROVE  /\ Head(q) \in S /\ Tail(q) \in Seq(S) /\ Len(Tail(q)) <= Len(q)
         /\ Range(q) = Range(Tail(q)) \cup {Head(q)}
         /\ Head(q) \in Range(q)
         /\ (\A i, j \in DOMAIN q : q[i] = Head(q) /\ q[j] = Head(q) => i = j)
              => Head(q) \notin Range(Tail(q))
<1>1. /\ Head(q) \in S /\ Tail(q) \in Seq(S) /\ Len(Tail(q)) = Len(q) - 1
      /\ \A i \in 1 .. Len(Tail(q)) : Tail(q)[i] = q[i + 1]
  BY Zenon, HeadTailProperties
<1>2. /\ DOMAIN q = 1 .. Len(q) /\ Len(q) \in Nat /\ Len(q) # 0
      /\ DOMAIN Tail(q) = 1 .. (Len(q) - 1) /\ Head(q) = q[1]
  BY <1>1, LenProperties, EmptySeq
<1>3. \A x : x \in Range(q) => x \in Range(Tail(q)) \/ x = Head(q)
  <2> TAKE x
  <2> HAVE x \in Range(q)
  <2>1. PICK i \in 1 .. Len(q) : q[i] = x
    BY Zenon, <1>2 DEF Range
  <2>2. CASE i = 1
    BY Zenon, <2>1, <2>2, <1>2
  <2>3. CASE i # 1
    <3>1. i - 1 \in 1 .. (Len(q) - 1) /\ Tail(q)[i - 1] = q[i]
      BY <1>1, <1>2, <2>3
    <3> QED
      BY Zenon, <3>1, <2>1, <1>2 DEF Range
  <2> QED
    BY Zenon, <2>2, <2>3
<1>4. \A x : x \in Range(Tail(q)) => \E i \in 2 .. Len(q) : q[i] = x
  BY <1>1, <1>2 DEF Range
<1>5. Head(q) \in Range(q)
  BY <1>2 DEF Range
<1>6. \A x : x \in Range(Tail(q)) => x \in Range(q)
  BY <1>2, <1>4 DEF Range
<1> QED
  BY <1>1, <1>2, <1>3, <1>4, <1>5, <1>6

\* Nothing occurs twice in a channel that did not before, when its head is
\* taken,
LEMMA TailOnce ==
  ASSUME NEW S, NEW q \in Seq(S), q # << >>, NEW e,
         \A i, j \in DOMAIN q : q[i] = e /\ q[j] = e => i = j
  PROVE  \A i, j \in DOMAIN Tail(q) : Tail(q)[i] = e /\ Tail(q)[j] = e => i = j
<1>1. /\ Tail(q) \in Seq(S) /\ Len(Tail(q)) = Len(q) - 1
      /\ \A i \in 1 .. Len(Tail(q)) : Tail(q)[i] = q[i + 1]
  BY Zenon, HeadTailProperties
<1>2. /\ DOMAIN q = 1 .. Len(q) /\ Len(q) \in Nat
      /\ DOMAIN Tail(q) = 1 .. (Len(q) - 1)
  BY Zenon, <1>1, LenProperties
<1> TAKE i, j \in DOMAIN Tail(q)
<1> HAVE Tail(q)[i] = e /\ Tail(q)[j] = e
<1>3. i + 1 \in DOMAIN q /\ j + 1 \in DOMAIN q /\ q[i + 1] = e /\ q[j + 1] = e
  BY <1>1, <1>2
<1>4. i + 1 = j + 1
  BY Zenon, <1>3
<1> QED
  BY <1>4, <1>2

\* and when a message is appended that was not in it.
LEMMA AppendOnce ==
  ASSUME NEW S, NEW q \in Seq(S), NEW m \in S, NEW e, e = m => e \notin Range(q),
         \A i, j \in DOMAIN q : q[i] = e /\ q[j] = e => i = j
  PROVE  \A i, j \in DOMAIN Append(q, m) :
           Append(q, m)[i] = e /\ Append(q, m)[j] = e => i = j
<1>1. /\ Append(q, m) \in Seq(S) /\ Len(Append(q, m)) = Len(q) + 1
      /\ \A i \in 1 .. Len(q) : Append(q, m)[i] = q[i]
      /\ Append(q, m)[Len(q) + 1] = m
  BY AppendProperties
<1>2. DOMAIN q = 1 .. Len(q) /\ DOMAIN Append(q, m) = 1 .. (Len(q) + 1) /\ Len(q) \in Nat
  BY Zenon, <1>1, LenProperties
<1> TAKE i, j \in DOMAIN Append(q, m)
<1> HAVE Append(q, m)[i] = e /\ Append(q, m)[j] = e
<1>3. CASE i \in 1 .. Len(q) /\ j \in 1 .. Len(q)
  BY Zenon, <1>1, <1>2, <1>3
<1>4. CASE i = Len(q) + 1 /\ j = Len(q) + 1
  BY Zenon, <1>4
<1>5. CASE i # j /\ (i = Len(q) + 1 \/ j = Len(q) + 1)
  <2>1. e = m
    BY Zenon, <1>1, <1>5
  <2>2. PICK k \in 1 .. Len(q) : Append(q, m)[k] = e
    BY <1>2, <1>5
  <2>3. e \in Range(q)
    BY Zenon, <2>2, <1>1, <1>2 DEF Range
  <2> QED
    BY Zenon, <2>1, <2>3
<1> QED
  BY <1>2, <1>3, <1>4, <1>5

-----------------------------------------------------------------------------
(***************************************************************************)
(* Lemmas about places.                                                    *)
(***************************************************************************)

\* A step leaves an event where it is.
SamePlace(e) ==
  /\ \A s \in Subscribers : InChannel(s, e)' <=> InChannel(s, e)
  /\ \A w \in EventdCount : InEventd(w, e)' <=> InEventd(w, e)
  /\ \A v \in PipelineCount : InPipelined(v, e)' <=> InPipelined(v, e)
  /\ fate'[e] = fate[e]

\* An event that stays in the same place is still somewhere, or still nowhere.
LEMMA SamePlaceStays ==
  ASSUME NEW e, SamePlace(e)
  PROVE  (Somewhere(e) => Somewhere(e)') /\ (Nowhere(e) => Nowhere(e)')
<1>1. \A cs, ws, vs, f : At(cs, ws, vs, f, e) => At(cs, ws, vs, f, e)'
  BY Zenon DEF SamePlace, At
<1> QED
  BY Zenon, <1>1 DEF Somewhere, Nowhere

\* The steps that move no event,
LEMMA PlacesKept ==
  ASSUME Types, PlaceInv, accepted' = accepted, chan' = chan,
         \A e \in Sources : SamePlace(e)
  PROVE  PlaceInv'
<1>1. accepted \subseteq Sources
  BY Zenon DEF Types
<1>2. \A e \in Sources : (Somewhere(e) => Somewhere(e)') /\ (Nowhere(e) => Nowhere(e)')
  BY Zenon, SamePlaceStays
<1> QED
  BY <1>1, <1>2 DEF PlaceInv, Once

\* and those that move one.
LEMMA PlacesMoved ==
  ASSUME Types, PlaceInv, NEW m \in Sources,
         accepted' = accepted \cup {m}, Somewhere(m)',
         \A e \in Sources \ {m} : SamePlace(e),
         \A s \in Subscribers : \A e \in Sources : Once(s, e)',
         Range(chan'["eventd"]) \subseteq accepted'
  PROVE  PlaceInv'
<1>1. accepted \subseteq Sources
  BY Zenon DEF Types
<1>2. \A e \in Sources \ {m} :
        (Somewhere(e) => Somewhere(e)') /\ (Nowhere(e) => Nowhere(e)')
  BY Zenon, SamePlaceStays
<1> QED
  BY Zenon, <1>1, <1>2 DEF PlaceInv

\* An event that a goroutine of eventd or a channel has is an accepted one,
\* and it is nowhere else.
LEMMA HeldIsAccepted ==
  ASSUME Types, PlaceInv, NEW m \in Sources
  PROVE  /\ \A s \in Subscribers :
              InChannel(s, m) => m \in accepted /\ At({s}, {}, {}, FALSE, m)
         /\ \A w \in EventdCount :
              InEventd(w, m) => m \in accepted /\ At({}, {w}, {}, FALSE, m)
         /\ \A v \in PipelineCount :
              InPipelined(v, m) => m \in accepted /\ At({}, {}, {v}, FALSE, m)
<1>1. m \notin accepted => Nowhere(m)
  BY Zenon DEF PlaceInv
<1>2. m \in accepted => Somewhere(m)
  BY Zenon DEF PlaceInv
<1>3. \A s \in Subscribers :
        InChannel(s, m) => m \in accepted /\ At({s}, {}, {}, FALSE, m)
  BY Zenon, <1>1, <1>2 DEF Nowhere, Somewhere, At
<1>4. \A w \in EventdCount :
        InEventd(w, m) => m \in accepted /\ At({}, {w}, {}, FALSE, m)
  BY Zenon, <1>1, <1>2 DEF Nowhere, Somewhere, At
<1>5. \A v \in PipelineCount :
        InPipelined(v, m) => m \in accepted /\ At({}, {}, {v}, FALSE, m)
  BY Zenon, <1>1, <1>2 DEF Nowhere, Somewhere, At
<1> QED
  BY Zenon, <1>3, <1>4, <1>5

-----------------------------------------------------------------------------
(***************************************************************************)
(* Every step preserves the invariant.                                     *)
(***************************************************************************)
\* The daemons start with empty channels and idle goroutines.
LEMMA InitInv == Init => Inv
<1> SUFFICES ASSUME Init PROVE Inv
  BY Zenon
<1> USE DEF Init
<1>1. Types
  <2>1. \A s \in Subscribers : chan[s] = << >> /\ chan[s] \in Seq(Events) /\ Len(chan[s]) = 0
    BY Zenon, EmptySeq
  <2>2. \A s \in Subscribers : ChanCap[s] \in Nat
    BY Zenon, DaemonsAssumption
  <2>3. chan \in [Subscribers -> Seq(Events)] /\ \A s \in Subscribers : Len(chan[s]) <= ChanCap[s]
    BY <2>1, <2>2
  <2>4. /\ DOMAIN bindings = 1 .. 2
        /\ \A g \in 1 .. 2 : /\ DOMAIN bindings[g] \subseteq {Daemon(g)}
                             /\ \A n \in DOMAIN bindings[g] : bindings[g][n] = n
    BY DEF Daemon
  <2>5. pub \in [Publishers -> Calls]
    BY Zenon DEF Calls
  <2>6. ew \in [EventdCount -> EventdStates] /\ pw \in [PipelineCount -> PipeStates]
    BY Zenon DEF EventdStates, PipeStates
  <2> QED
    BY Zenon, <2>3, <2>4, <2>5, <2>6
    DEF Types, Phases, BusUp, PipelinedUp, EventdUp, BeforeClose
<1>2. PhaseInv
  BY Zenon DEF PhaseInv, BusUp, PipelinedUp, EventdUp, BeforeClose, Select
<1>3. CallInv
  BY Zenon, PublishersAssumption DEF CallInv, Events, Returned
<1>4. PlaceInv
  <2>1. \A s \in Subscribers : Range(chan[s]) = {} /\ DOMAIN chan[s] = {}
    BY DEF Range
  <2>2. \A e \in Sources : Nowhere(e)
    BY Zenon, <2>1, PublishersAssumption
    DEF Nowhere, At, InChannel, InEventd, InPipelined, Events, Select, Returned
  <2> QED
    BY Zenon, <2>1, <2>2, DaemonsAssumption DEF PlaceInv, Once
<1> QED
  BY Zenon, <1>1, <1>2, <1>3, <1>4 DEF Inv

\* A goroutine that is in a call of Publish is not through: eventd has not
\* stopped, so that its topic is open and bound to pipelined.
LEMMA PublishingIsUp ==
  ASSUME Inv, NEW w \in EventdCount, ew[w].pc # "ended"
  PROVE  shutdown \in EventdUp /\ 2 \notin done /\ "pipelined" \in DOMAIN bindings[2]
BY Zenon DEF Inv, PhaseInv, PipelinedUp

\* The steps of a call of Publish that keep the message,
LEMMA CallMoves ==
  ASSUME Inv, NEW p \in Publishers, NEW c \in Calls,
         pub[p].pc # "idle", c.pc # "idle", c.msg = pub[p].msg,
         c.pc = "send" => c.to = <<Daemon(c.object)>>,
         pub' = [pub EXCEPT ![p] = c],
         \A g : Towards(p, g) => Towards(p, g)',
         UNCHANGED <<busStop, topics, created, bindings, done, leaked, topicsMu,
                     sub, chan, closed, panicked, pipeVars>>
  PROVE  Inv'
<1> USE DEF pipeVars
<1>0. p \in DOMAIN pub /\ pub'[p] = c /\ \A q \in Publishers : q # p => pub'[q] = pub[q]
  BY Zenon DEF Inv, Types
<1>1. Types'
  BY Zenon DEF Inv, Types
<1>2. PhaseInv'
  BY Zenon DEF Inv, PhaseInv
<1>3. CallInv'
  <2>1. \A q \in Publishers : pub'[q].pc = "send" => pub'[q].to = <<Daemon(pub'[q].object)>>
    BY <1>0 DEF Inv, CallInv
  <2>2. \A q \in Publishers : \A g : Towards(q, g) => Towards(q, g)'
    BY Zenon, <1>0 DEF Towards
  <2>3. \A q \in Publishers : /\ pub'[q].pc # "idle" <=> pub[q].pc # "idle"
                              /\ pub[q].pc # "idle" => pub'[q].msg = pub[q].msg
    BY Zenon, <1>0
  <2> QED
    BY <2>1, <2>2, <2>3, PublishersAssumption DEF Inv, CallInv, Events
<1>4. PlaceInv'
  <2>1. \A e \in Sources : SamePlace(e)
    BY Zenon, <1>0, PublishersAssumption DEF SamePlace, InChannel, InEventd, InPipelined
  <2> QED
    BY Zenon, <2>1, PlacesKept DEF Inv
<1> QED
  BY Zenon, <1>1, <1>2, <1>3, <1>4 DEF Inv

\* and a source or callback that returns without having sent it.
LEMMA CallReturns ==
  ASSUME Inv, NEW p \in Events,
         pub' = [pub EXCEPT ![p] = Returned],
         UNCHANGED <<busStop, topics, created, bindings, done, leaked, topicsMu,
                     sub, chan, closed, panicked, pipeVars>>
  PROVE  Inv'
<1> USE DEF pipeVars
<1>0. /\ p \in Publishers /\ p \notin EventdCount
      /\ p \in DOMAIN pub /\ pub'[p] = Returned
      /\ \A q \in Publishers : q # p => pub'[q] = pub[q]
  BY Zenon, PublishersAssumption DEF Inv, Types, Events
<1>1. Types'
  BY Zenon, <1>0 DEF Inv, Types, Calls
<1>2. PhaseInv'
  BY Zenon DEF Inv, PhaseInv
<1>3. CallInv'
  <2>1. \A q \in Publishers : pub'[q].pc = "send" => pub'[q].to = <<Daemon(pub'[q].object)>>
    BY Zenon, <1>0 DEF Inv, CallInv, Returned
  <2>2. \A q \in Publishers : pub'[q].pc # "idle" => q # p /\ pub'[q] = pub[q]
    BY Zenon, <1>0 DEF Returned
  <2>3. \A q \in Publishers : \A g : q # p => (Towards(q, g) => Towards(q, g)')
    BY Zenon, <1>0 DEF Towards
  <2> QED
    BY <2>1, <2>2, <2>3, PublishersAssumption DEF Inv, CallInv, Events
<1>4. PlaceInv'
  <2>1. \A e \in Sources : SamePlace(e)
    BY Zenon, <1>0, PublishersAssumption DEF SamePlace, InChannel, InEventd, InPipelined
  <2> QED
    BY Zenon, <2>1, PlacesKept DEF Inv
<1> QED
  BY Zenon, <1>1, <1>2, <1>3, <1>4 DEF Inv

\* What the fields of a call are.
LEMMA CallFields ==
  ASSUME NEW c \in Calls
  PROVE  /\ c.pc \in {"idle", "lookup", "copy", "send"}
         /\ c.pc # "idle" => c.msg \in Events
         /\ c.pc = "lookup" => c.topic \in Topics
         /\ c.pc \in {"copy", "send"} => c.object \in 1 .. 2
BY DEF Calls, Returned

\* Publish finds the object of its topic under the bus's lock.
LEMMA LookUpInv ==
  ASSUME Inv, NEW p \in Publishers, LookUp(p), PublishGoesOn(p)
  PROVE  Inv'
<1>1. UNCHANGED <<busStop, topics, created, bindings, done, leaked, topicsMu,
                  sub, chan, closed, panicked, pipeVars>>
  BY Zenon DEF LookUp, PublishGoesOn, pipeVars, Inv, PlaceInv
<1>2. pub[p] \in Calls /\ pub[p].topic \in Topics /\ pub[p].msg \in Events /\ pub[p].pc = "lookup"
  BY Zenon, CallFields DEF LookUp, Inv, Types
<1> DEFINE g == topics[pub[p].topic]
           c == [pc |-> "copy", object |-> g, msg |-> pub[p].msg]
<1>3. g \in 1 .. 2
  BY <1>2 DEF Inv, Types
<1>4. pub' = [pub EXCEPT ![p] = c]
  <2>1. g # 0
    BY <1>3
  <2>2. pub' = [pub EXCEPT ![p] = IF g = 0 THEN Returned ELSE c]
    BY Zenon DEF LookUp
  <2> QED
    BY Zenon, <2>1, <2>2
<1>5. c \in Calls
  BY Zenon, <1>2, <1>3 DEF Calls
<1>6. \A h : Towards(p, h) => Towards(p, h)'
  BY Zenon, <1>2, <1>4 DEF Towards, Inv, Types
<1> HIDE DEF g
<1>7. c.pc = "copy" /\ c.msg = pub[p].msg
  BY Zenon
<1> HIDE DEF c
<1> QED
  BY Zenon, <1>1, <1>2, <1>4, <1>5, <1>6, <1>7, CallMoves

\* Send returns when the topic is done.
LEMMA AbandonInv ==
  ASSUME Inv, NEW p \in Publishers, Abandon(p), PublishGoesOn(p)
  PROVE  Inv'
<1>1. /\ UNCHANGED <<busStop, topics, created, bindings, done, leaked, topicsMu,
                     sub, chan, closed, panicked, pipeVars>>
      /\ pub' = [pub EXCEPT ![p] = Returned]
      /\ pub[p].pc = "send" /\ pub[p].object \in done
  BY Zenon DEF Abandon, PublishGoesOn, pipeVars, Inv, PlaceInv
<1>2. p \notin EventdCount
  <2> SUFFICES ASSUME p \in EventdCount PROVE FALSE
    BY Zenon
  <2>1. ew[p].pc = "publish" /\ pub[p].object = 2
    BY Zenon, <1>1 DEF Inv, CallInv, Towards
  <2> QED
    BY Zenon, <2>1, <1>1, PublishingIsUp
<1>3. p \in Events
  BY Zenon, <1>2, PublishersAssumption DEF Events
<1> QED
  BY Zenon, <1>1, <1>3, CallReturns

\* A send on a closed channel panics and returns.
LEMMA DeliverPanicsInv ==
  ASSUME Inv, NEW p \in Publishers, DeliverPanics(p), PublishGoesOn(p)
  PROVE  Inv'
<1>1. /\ UNCHANGED <<busStop, topics, created, bindings, done, leaked, topicsMu,
                     sub, chan, closed, pub, pipeVars>>
      /\ panicked' = TRUE
  BY Zenon DEF DeliverPanics, PublishGoesOn, pipeVars, Inv, PlaceInv
<1> USE <1>1 DEF pipeVars
<1>2. Types'
  BY Zenon DEF Inv, Types
<1>3. PhaseInv'
  BY Zenon DEF Inv, PhaseInv
<1>4. CallInv'
  BY Zenon DEF Inv, CallInv, Towards
<1>5. PlaceInv'
  <2>1. \A e \in Sources : SamePlace(e)
    BY Zenon DEF SamePlace, InChannel, InEventd, InPipelined
  <2> QED
    BY Zenon, <2>1, PlacesKept DEF Inv
<1> QED
  BY Zenon, <1>2, <1>3, <1>4, <1>5 DEF Inv

\* The channel of a daemon takes a message: that of a source ends up in the
\* channel of eventd, those of callbacks and goroutines of eventd in that of
\* pipelined.
LEMMA DeliverInv ==
  ASSUME Inv, NEW p \in Publishers, Deliver(p), PublishGoesOn(p)
  PROVE  Inv'
<1>0. PICK m, r : m = pub[p].msg /\ r = Daemon(pub[p].object)
  BY Zenon
<1>1. /\ pub[p] \in Calls /\ pub[p].object \in 1 .. 2 /\ m \in Events
      /\ pub[p].pc = "send" /\ pub[p].to = <<r>>
  BY Zenon, <1>0, CallFields DEF Deliver, Inv, Types, CallInv
<1>2. r \in Subscribers /\ Receiver(p) = r /\ Advanced(pub[p]) = Returned
  BY <1>0, <1>1, DaemonsAssumption DEF Daemon, Receiver, Advanced
<1>3. /\ r \notin closed /\ Len(chan[r]) < ChanCap[r]
      /\ chan' = [chan EXCEPT ![r] = Append(chan[r], m)]
      /\ pub' = [pub EXCEPT ![p] = Returned]
  BY Zenon, <1>0, <1>2 DEF Deliver
<1>4. /\ UNCHANGED <<busStop, topics, created, bindings, done, leaked, topicsMu,
                     sub, closed, panicked, begun, stored, ew, pw, fate, shutdown>>
      /\ accepted' = accepted \cup Range(chan'["eventd"])
  BY Zenon DEF Deliver, PublishGoesOn
<1>5. /\ pub'[p] = Returned /\ \A q \in Publishers : q # p => pub'[q] = pub[q]
      /\ pub' \in [Publishers -> Calls]
  BY Zenon, <1>3 DEF Inv, Types, Calls
<1>6. /\ chan'[r] = Append(chan[r], m)
      /\ \A s \in Subscribers : s # r => chan'[s] = chan[s]
      /\ chan[r] \in Seq(Events)
  BY Zenon, <1>2, <1>3 DEF Inv, Types
<1>7. /\ Append(chan[r], m) \in Seq(Events)
      /\ Len(Append(chan[r], m)) = Len(chan[r]) + 1
      /\ Range(Append(chan[r], m)) = Range(chan[r]) \cup {m}
  BY <1>1, <1>6, AppendRange
<1>8. chan' \in [Subscribers -> Seq(Events)] /\ \A s \in Subscribers : Len(chan'[s]) <= ChanCap[s]
  <2>1. Len(chan[r]) \in Nat /\ ChanCap[r] \in Nat
    BY Zenon, <1>2, <1>6, LenProperties, DaemonsAssumption
  <2>2. Len(chan'[r]) <= ChanCap[r]
    BY <2>1, <1>3, <1>6, <1>7
  <2>3. chan' \in [Subscribers -> Seq(Events)]
    BY Zenon, <1>3, <1>7 DEF Inv, Types
  <2> QED
    BY Zenon, <2>2, <2>3, <1>6 DEF Inv, Types
<1>9. \A s \in Subscribers : \A e : InChannel(s, e)' <=> InChannel(s, e) \/ (s = r /\ e = m)
  BY Zenon, <1>6, <1>7 DEF InChannel
<1>10. Range(chan["eventd"]) \subseteq accepted /\ accepted \subseteq begun \cap Sources
  BY Zenon DEF Inv, PlaceInv, Types
<1>11. \A q \in Publishers : pub'[q].pc # "idle" => q # p /\ pub'[q] = pub[q]
  BY <1>5 DEF Returned
<1>12. \A q \in Publishers : \A g : q # p => (Towards(q, g) => Towards(q, g)')
  BY Zenon, <1>4, <1>5 DEF Towards
<1>13. ASSUME NEW x, x = m => ~InChannel(r, x), \A s \in Subscribers : Once(s, x)
       PROVE  \A s \in Subscribers : Once(s, x)'
  <2>1. Once(r, x)'
    <3>1. \A i, j \in DOMAIN chan[r] : chan[r][i] = x /\ chan[r][j] = x => i = j
      BY Zenon, <1>2, <1>13 DEF Once
    <3>2. x = m => x \notin Range(chan[r])
      BY Zenon, <1>13 DEF InChannel
    <3>3. \A i, j \in DOMAIN Append(chan[r], m) :
            Append(chan[r], m)[i] = x /\ Append(chan[r], m)[j] = x => i = j
      BY SMTT(30), <3>1, <3>2, <1>1, <1>6, AppendOnce
    <3> QED
      BY Zenon, <3>3, <1>6 DEF Once
  <2>2. \A s \in Subscribers : s # r => Once(s, x)'
    BY Zenon, <1>6, <1>13 DEF Once
  <2> QED
    BY Zenon, <2>1, <2>2
<1>14. CASE p \in Sources
  <2>1. /\ m = p /\ p \in begun /\ p \notin accepted
        /\ r = "eventd" /\ p \notin EventdCount /\ p \in Events
    BY Zenon, <1>0, <1>1, <1>14, PublishersAssumption DEF Inv, CallInv, Towards, Events, Daemon
  <2>2. accepted' = accepted \cup {p} /\ Range(chan'["eventd"]) \subseteq accepted'
    BY Zenon, <2>1, <1>4, <1>6, <1>7, <1>10
  <2>3. Types'
    BY Zenon, <1>4, <1>5, <1>8, <1>14, <2>1, <2>2 DEF Inv, Types
  <2>4. PhaseInv'
    BY Zenon, <1>3, <1>4, <2>1 DEF Inv, PhaseInv
  <2>5. CallInv'
    BY <1>4, <1>11, <1>12, <2>1, <2>2, PublishersAssumption DEF Inv, CallInv, Events
  <2>6. PlaceInv'
    <3>1. Nowhere(p)
      BY Zenon, <1>14, <2>1 DEF Inv, PlaceInv
    <3>2. \A e : \A w \in EventdCount : InEventd(w, e)' <=> InEventd(w, e)
      BY Zenon, <1>4, <1>5, <2>1, PublishersAssumption DEF InEventd
    <3>3. \A e : \A v \in PipelineCount : InPipelined(v, e)' <=> InPipelined(v, e)
      BY Zenon, <1>4 DEF InPipelined
    <3>4. At({"eventd"}, {}, {}, FALSE, p)'
      BY Zenon, <3>1, <3>2, <3>3, <1>4, <1>9, <2>1, DaemonsAssumption DEF Nowhere, At
    <3>5. \A e \in Sources \ {p} : SamePlace(e)
      BY Zenon, <3>2, <3>3, <1>4, <1>9, <2>1 DEF SamePlace
    <3>6. \A s \in Subscribers : \A e \in Sources : Once(s, e)'
      <4> SUFFICES ASSUME NEW e \in Sources PROVE \A s \in Subscribers : Once(s, e)'
        BY Zenon
      <4>1. e = m => ~InChannel(r, e)
        BY Zenon, <3>1, <1>2, <2>1 DEF Nowhere, At
      <4> QED
        BY Zenon, <4>1, <1>13 DEF Inv, PlaceInv
    <3>7. Somewhere(p)'
      BY Zenon, <3>4, DaemonsAssumption DEF Somewhere
    <3> QED
      BY Zenon, <3>5, <3>6, <3>7, <1>14, <2>2, PlacesMoved DEF Inv
  <2> QED
    BY Zenon, <2>3, <2>4, <2>5, <2>6 DEF Inv
<1>15. CASE p \in Callbacks
  <2>1. /\ m = p /\ p \notin Sources /\ r = "pipelined"
        /\ p \notin EventdCount /\ p \in Events
    BY <1>0, <1>1, <1>15, PublishersAssumption DEF Inv, CallInv, Towards, Events, Daemon
  <2>2. accepted' = accepted /\ chan'["eventd"] = chan["eventd"]
    BY Zenon, <2>1, <1>4, <1>6, <1>10, DaemonsAssumption
  <2>3. Types'
    BY Zenon, <1>4, <1>5, <1>8, <2>2 DEF Inv, Types
  <2>4. PhaseInv'
    BY Zenon, <1>4, <2>2 DEF Inv, PhaseInv
  <2>5. CallInv'
    BY <1>4, <1>11, <1>12, <2>1, <2>2, PublishersAssumption DEF Inv, CallInv, Events
  <2>6. PlaceInv'
    <3>1. \A e : \A w \in EventdCount : InEventd(w, e)' <=> InEventd(w, e)
      BY Zenon, <1>4, <1>5, <2>1, PublishersAssumption DEF InEventd
    <3>2. \A e : \A v \in PipelineCount : InPipelined(v, e)' <=> InPipelined(v, e)
      BY Zenon, <1>4 DEF InPipelined
    <3>3. \A e \in Sources : SamePlace(e)
      BY Zenon, <3>1, <3>2, <1>4, <1>9, <2>1 DEF SamePlace
    <3>4. \A e \in Sources : (Somewhere(e) => Somewhere(e)') /\ (Nowhere(e) => Nowhere(e)')
      BY Zenon, <3>3, SamePlaceStays
    <3>5. \A s \in Subscribers : \A e \in Sources : Once(s, e)'
      BY Zenon, <1>13, <2>1 DEF Inv, PlaceInv
    <3> QED
      BY Zenon, <3>4, <3>5, <2>2, <1>10 DEF Inv, PlaceInv
  <2> QED
    BY Zenon, <2>3, <2>4, <2>5, <2>6 DEF Inv
<1>16. CASE p \in EventdCount
  <2>1. m \in accepted /\ m \in Sources /\ r = "pipelined" /\ ew[p].pc = "publish"
    BY <1>0, <1>1, <1>10, <1>16 DEF Inv, CallInv, Towards, Daemon
  <2>2. accepted' = accepted \cup {m} /\ accepted' = accepted /\ chan'["eventd"] = chan["eventd"]
    BY Zenon, <2>1, <1>4, <1>6, <1>10, DaemonsAssumption
  <2>3. Types'
    BY Zenon, <1>4, <1>5, <1>8, <2>2 DEF Inv, Types
  <2>4. PhaseInv'
    BY Zenon, <1>4, <2>2 DEF Inv, PhaseInv
  <2>5. CallInv'
    BY <1>4, <1>11, <1>12, <2>1, <2>2, PublishersAssumption DEF Inv, CallInv, Events
  <2>6. PlaceInv'
    <3>1. InEventd(p, m)
      BY Zenon, <1>0, <1>1 DEF InEventd
    <3>2. At({}, {p}, {}, FALSE, m)
      BY Zenon, <3>1, <1>16, <2>1, HeldIsAccepted DEF Inv
    <3>3. \A e : \A w \in EventdCount :
            InEventd(w, e)' <=> (InEventd(w, e) /\ ~(w = p /\ e = m))
      <4>1. ASSUME NEW e, NEW w \in EventdCount, w # p PROVE InEventd(w, e)' <=> InEventd(w, e)
        <5>1. pub'[w] = pub[w] /\ ew' = ew
          BY Zenon, <4>1, <1>4, <1>5, PublishersAssumption
        <5> QED
          BY Zenon, <5>1 DEF InEventd
      <4>2. ASSUME NEW e PROVE ~InEventd(p, e)' /\ (InEventd(p, e) => e = m)
        <5>0. Returned.pc = "idle"
          BY DEF Returned
        <5>1. ew'[p].pc = "publish" /\ pub'[p].pc = "idle"
          BY Zenon, <1>4, <1>5, <2>1, <5>0
        <5> QED
          BY Zenon, <5>1, <1>0, <2>1 DEF InEventd
      <4> QED
        BY Zenon, <4>1, <4>2
    <3>4. \A e : \A v \in PipelineCount : InPipelined(v, e)' <=> InPipelined(v, e)
      BY Zenon, <1>4 DEF InPipelined
    <3>5. At({"pipelined"}, {}, {}, FALSE, m)'
      BY Zenon, <3>2, <3>3, <3>4, <1>4, <1>9, <2>1 DEF At
    <3>6. \A e \in Sources \ {m} : SamePlace(e)
      BY Zenon, <3>3, <3>4, <1>4, <1>9 DEF SamePlace
    <3>7. \A s \in Subscribers : \A e \in Sources : Once(s, e)'
      <4> SUFFICES ASSUME NEW e \in Sources PROVE \A s \in Subscribers : Once(s, e)'
        BY Zenon
      <4>1. e = m => ~InChannel(r, e)
        BY Zenon, <3>2, <1>2 DEF At
      <4> QED
        BY Zenon, <4>1, <1>13 DEF Inv, PlaceInv
    <3>8. Somewhere(m)'
      BY Zenon, <3>5, DaemonsAssumption DEF Somewhere
    <3> QED
      BY Zenon, <3>6, <3>7, <3>8, <1>10, <2>1, <2>2, PlacesMoved DEF Inv
  <2> QED
    BY Zenon, <2>3, <2>4, <2>5, <2>6 DEF Inv
<1> QED
  BY Zenon, <1>14, <1>15, <1>16, PublishersAssumption

\* A source or a callback calls Publish.
LEMMA EmitInv ==
  ASSUME Inv, NEW e \in Events, Emit(e)
  PROVE  Inv'
<1> DEFINE t == IF e \in Sources THEN "raw" ELSE "event"
<1>1. /\ e \notin begun /\ begun' = begun \cup {e} /\ pub[e].pc = "idle"
      /\ UNCHANGED <<accepted, stored, ew, pw, fate, shutdown>>
      /\ UNCHANGED <<busStop, topics, created, bindings, done, leaked, topicsMu,
                     sub, chan, closed, panicked>>
      /\ pub' = [pub EXCEPT ![e] =
                   IF running THEN [pc |-> "lookup", topic |-> t, msg |-> e]
                              ELSE Returned]
  BY Zenon DEF Emit, Publish
<1>2. e \in Publishers /\ e \notin EventdCount /\ t \in Topics
  BY Zenon, PublishersAssumption, DaemonsAssumption DEF Events
<1>3. PICK c \in Calls : /\ c = Returned \/ c = [pc |-> "lookup", topic |-> t, msg |-> e]
                         /\ pub' = [pub EXCEPT ![e] = c]
  <2>1. Returned \in Calls /\ [pc |-> "lookup", topic |-> t, msg |-> e] \in Calls
    BY Zenon, <1>2 DEF Calls
  <2> QED
    BY Zenon, <1>1, <2>1
<1>4. pub'[e] = c /\ \A q \in Publishers : q # e => pub'[q] = pub[q]
  BY Zenon, <1>2, <1>3 DEF Inv, Types
<1>5. Types'
  BY Zenon, <1>1, <1>3 DEF Inv, Types
<1>6. PhaseInv'
  BY Zenon, <1>1 DEF Inv, PhaseInv
<1>7. CallInv'
  <2>1. c.pc # "send" /\ (c.pc # "idle" => c.msg = e)
    BY <1>3 DEF Returned
  <2>2. \A q \in Publishers : pub'[q].pc = "send" => pub'[q].to = <<Daemon(pub'[q].object)>>
    BY Zenon, <1>4, <2>1 DEF Inv, CallInv
  <2>3. Towards(e, IF e \in Sources THEN 1 ELSE 2)'
    <3>1. topics' = [x \in Topics |-> IF x = "raw" THEN 1 ELSE 2]
      BY Zenon, <1>1 DEF Inv, Types
    <3> QED
      BY <3>1, <1>2, <1>3, <1>4 DEF Towards, Returned
  <2>4. \A q \in Publishers : \A g : q # e => (Towards(q, g) => Towards(q, g)')
    BY Zenon, <1>1, <1>4 DEF Towards
  <2>5. e \notin accepted
    BY Zenon, <1>1 DEF Inv, Types
  <2>6. ASSUME NEW x \in Events, pub'[x].pc # "idle"
        PROVE  /\ x \in begun' \ accepted' /\ pub'[x].msg = x
               /\ Towards(x, IF x \in Sources THEN 1 ELSE 2)'
    <3>1. x \in Publishers
      BY Zenon, PublishersAssumption DEF Events
    <3>2. CASE x = e
      BY Zenon, <3>2, <2>1, <2>3, <2>5, <2>6, <1>1, <1>4
    <3>3. CASE x # e
      BY Zenon, <3>1, <3>3, <2>4, <2>6, <1>1, <1>4 DEF Inv, CallInv
    <3> QED
      BY Zenon, <3>2, <3>3
  <2>7. ASSUME NEW w \in EventdCount, pub'[w].pc # "idle"
        PROVE  /\ ew'[w].pc = "publish" /\ pub'[w].msg \in accepted'
               /\ Towards(w, 2)'
    <3>1. w \in Publishers /\ w # e
      BY Zenon, <1>2, PublishersAssumption
    <3> QED
      BY <3>1, <2>4, <2>7, <1>1, <1>4 DEF Inv, CallInv
  <2> QED
    BY Zenon, <2>2, <2>6, <2>7 DEF CallInv
<1>8. PlaceInv'
  <2>1. \A x \in Sources : SamePlace(x)
    BY Zenon, <1>1, <1>2, <1>4, PublishersAssumption
    DEF SamePlace, InChannel, InEventd, InPipelined
  <2> QED
    BY Zenon, <2>1, <1>1, PlacesKept DEF Inv
<1> QED
  BY Zenon, <1>5, <1>6, <1>7, <1>8 DEF Inv

-----------------------------------------------------------------------------
\* What the states of a goroutine of eventd are.
LEMMA EventdFields ==
  ASSUME NEW c \in EventdStates
  PROVE  /\ c.pc \in {"select", "handle", "stored", "publish", "ended"}
         /\ c.pc \in {"handle", "stored"} =>
              c.event \in Sources /\ c = [pc |-> c.pc, event |-> c.event]
BY DEF EventdStates, Select, Ended

\* A step of a goroutine of eventd that does not publish keeps the calls.
LEMMA EventdCalls ==
  ASSUME Inv, NEW w \in EventdCount, pub[w].pc = "idle",
         \A x \in EventdCount : x # w => ew'[x] = ew[x],
         pub' = pub, topics' = topics, begun' = begun, accepted' = accepted
  PROVE  CallInv'
<1>1. \A q \in Publishers : \A g : Towards(q, g) => Towards(q, g)'
  BY Zenon DEF Towards
<1> QED
  BY Zenon, <1>1, PublishersAssumption DEF Inv, CallInv, Events

\* eventd takes an event from its channel.
LEMMA EventdTakesInv ==
  ASSUME Inv, NEW w \in EventdCount, EventdTakes(w)
  PROVE  Inv'
<1>0. PICK m, q : m = Head(chan["eventd"]) /\ q = chan["eventd"]
  BY Zenon
<1>1. /\ ew[w].pc = "select" /\ q # << >>
      /\ chan' = [chan EXCEPT !["eventd"] = Tail(q)]
      /\ ew' = [ew EXCEPT ![w] = [pc |-> "handle", event |-> m]]
      /\ UNCHANGED <<busStop, topics, created, bindings, done, leaked, topicsMu,
                     pub, sub, closed, panicked>>
      /\ UNCHANGED <<begun, accepted, stored, pw, fate, shutdown>>
  BY Zenon, <1>0 DEF EventdTakes, Take
<1>2. "eventd" \in Subscribers /\ q \in Seq(Events)
  BY Zenon, <1>0, DaemonsAssumption DEF Inv, Types
<1>3. /\ Tail(q) \in Seq(Events) /\ Len(Tail(q)) <= Len(q)
      /\ Range(q) = Range(Tail(q)) \cup {m} /\ m \in Range(q)
      /\ (\A i, j \in DOMAIN q : q[i] = m /\ q[j] = m => i = j) => m \notin Range(Tail(q))
  BY Zenon, <1>0, <1>1, <1>2, TailRange
<1>4. m \in accepted /\ m \in Sources
  BY Zenon, <1>0, <1>3 DEF Inv, PlaceInv, Types
<1>5. m \notin Range(Tail(q))
  BY <1>0, <1>2, <1>3, <1>4 DEF Inv, PlaceInv, Once
<1>6. /\ ew'[w] = [pc |-> "handle", event |-> m]
      /\ \A x \in EventdCount : x # w => ew'[x] = ew[x]
      /\ chan'["eventd"] = Tail(q)
      /\ \A s \in Subscribers : s # "eventd" => chan'[s] = chan[s]
  BY Zenon, <1>1, <1>2 DEF Inv, Types
<1>7. Types'
  <2>1. chan' \in [Subscribers -> Seq(Events)]
    BY Zenon, <1>1, <1>3 DEF Inv, Types
  <2>2. \A s \in Subscribers : Len(chan'[s]) <= ChanCap[s]
    <3>1. Len(q) <= ChanCap["eventd"] /\ Len(q) \in Nat /\ Len(Tail(q)) \in Nat
          /\ ChanCap["eventd"] \in Nat
      BY Zenon, <1>0, <1>2, <1>3, LenProperties, DaemonsAssumption DEF Inv, Types
    <3>2. Len(chan'["eventd"]) <= ChanCap["eventd"]
      BY <3>1, <1>3, <1>6
    <3> QED
      BY Zenon, <3>2, <1>6 DEF Inv, Types
  <2>3. [pc |-> "handle", event |-> m] \in EventdStates
    BY Zenon, <1>4 DEF EventdStates
  <2>4. ew' \in [EventdCount -> EventdStates]
    BY Zenon, <2>3, <1>1 DEF Inv, Types
  <2> QED
    BY Zenon, <2>1, <2>2, <2>4, <1>1 DEF Inv, Types
<1>8. pub[w].pc = "idle"
  BY Zenon, <1>1 DEF Inv, CallInv
<1>9. PhaseInv'
  <2>1. \A x \in EventdCount : ew[x].pc # "ended"
    BY Zenon, <1>0, <1>1 DEF Inv, PhaseInv
  <2>2. \A x \in EventdCount : ew'[x].pc # "ended"
    BY <2>1, <1>6
  <2>3. shutdown \in EventdUp
    BY Zenon, <2>1 DEF Inv, PhaseInv
  <2> QED
    BY Zenon, <2>2, <2>3, <1>1 DEF Inv, PhaseInv
<1>10. CallInv'
  BY Zenon, <1>1, <1>6, <1>8, EventdCalls
<1>11. PlaceInv'
  <2>1. InChannel("eventd", m)
    BY Zenon, <1>0, <1>3 DEF InChannel
  <2>2. At({"eventd"}, {}, {}, FALSE, m)
    BY Zenon, <2>1, <1>2, <1>4, HeldIsAccepted DEF Inv
  <2>3. \A s \in Subscribers : \A e :
          InChannel(s, e)' <=> (InChannel(s, e) /\ ~(s = "eventd" /\ e = m))
    BY Zenon, <1>0, <1>3, <1>5, <1>6 DEF InChannel
  <2>4. \A x \in EventdCount : \A e :
          InEventd(x, e)' <=> (InEventd(x, e) \/ (x = w /\ e = m))
    BY <1>1, <1>6, <1>8 DEF InEventd
  <2>5. \A v \in PipelineCount : \A e : InPipelined(v, e)' <=> InPipelined(v, e)
    BY Zenon, <1>1 DEF InPipelined
  <2>6. At({}, {w}, {}, FALSE, m)'
    BY Zenon, <2>2, <2>3, <2>4, <2>5, <1>1 DEF At
  <2>7. \A e \in Sources \ {m} : SamePlace(e)
    BY Zenon, <2>3, <2>4, <2>5, <1>1 DEF SamePlace
  <2>8. \A s \in Subscribers : \A e \in Sources : Once(s, e)'
    <3> TAKE s \in Subscribers
    <3> TAKE e \in Sources
    <3>1. CASE s = "eventd"
      <4>1. \A i, j \in DOMAIN q : q[i] = e /\ q[j] = e => i = j
        BY <3>1, <1>0 DEF Inv, PlaceInv, Once
      <4>2. \A i, j \in DOMAIN Tail(q) : Tail(q)[i] = e /\ Tail(q)[j] = e => i = j
        BY Zenon, <4>1, <1>1, <1>2, TailOnce
      <4> QED
        BY Zenon, <3>1, <4>2, <1>6 DEF Once
    <3>2. CASE s # "eventd"
      BY <3>2, <1>6 DEF Once, Inv, PlaceInv
    <3> QED
      BY Zenon, <3>1, <3>2
  <2>9. Range(chan'["eventd"]) \subseteq accepted'
    BY Zenon, <1>0, <1>1, <1>3, <1>6 DEF Inv, PlaceInv
  <2>10. Somewhere(m)'
    BY Zenon, <2>6 DEF Somewhere
  <2>11. accepted' = accepted \cup {m}
    BY Zenon, <1>1, <1>4
  <2> QED
    BY Zenon, <2>7, <2>8, <2>9, <2>10, <2>11, <1>4, PlacesMoved DEF Inv
<1> QED
  BY Zenon, <1>7, <1>9, <1>10, <1>11 DEF Inv

\* eventd stores the event, which stays with its goroutine.
LEMMA EventdStoresInv ==
  ASSUME Inv, NEW w \in EventdCount, EventdStores(w)
  PROVE  Inv'
<1>0. PICK m : m = ew[w].event
  BY Zenon
<1>1. /\ ew[w].pc = "handle" /\ m \notin Metrics /\ m \in Sources
      /\ stored' = stored \cup {m}
      /\ UNCHANGED <<busVars, begun, accepted, pw, fate, shutdown>>
  BY Zenon, <1>0, EventdFields DEF EventdStores, Inv, Types
<1>2. ew' = [ew EXCEPT ![w] = [pc |-> "stored", event |-> m]]
  <2>1. ew[w] = [pc |-> "handle", event |-> m]
    BY Zenon, <1>0, <1>1, EventdFields DEF Inv, Types
  <2>2. [ew[w] EXCEPT !.pc = "stored"] = [pc |-> "stored", event |-> m]
    BY <2>1
  <2> QED
    BY Zenon, <2>2 DEF EventdStores
<1>3. /\ ew'[w] = [pc |-> "stored", event |-> m]
      /\ \A x \in EventdCount : x # w => ew'[x] = ew[x]
  BY Zenon, <1>2 DEF Inv, Types
<1>4. m \in accepted
  BY Zenon, <1>0, <1>1, HeldIsAccepted DEF Inv, InEventd
<1> USE DEF busVars
<1>5. Types'
  <2>1. [pc |-> "stored", event |-> m] \in EventdStates
    BY Zenon, <1>1 DEF EventdStates
  <2>2. ew' \in [EventdCount -> EventdStates]
    BY Zenon, <2>1, <1>2 DEF Inv, Types
  <2> QED
    BY Zenon, <2>2, <1>1, <1>4 DEF Inv, Types
<1>6. PhaseInv'
  <2>1. \A x \in EventdCount : ew'[x].pc = "ended" <=> ew[x].pc = "ended"
    BY <1>1, <1>3
  <2> QED
    BY Zenon, <2>1, <1>1 DEF Inv, PhaseInv
<1>7. pub[w].pc = "idle"
  BY Zenon, <1>1 DEF Inv, CallInv
<1>8. CallInv'
  BY Zenon, <1>1, <1>3, <1>7, EventdCalls
<1>9. PlaceInv'
  <2>1. \A x \in EventdCount : \A e : InEventd(x, e)' <=> InEventd(x, e)
    BY <1>0, <1>1, <1>3 DEF InEventd
  <2>2. \A e \in Sources : SamePlace(e)
    BY Zenon, <2>1, <1>1 DEF SamePlace, InChannel, InPipelined
  <2> QED
    BY Zenon, <2>2, <1>1, PlacesKept DEF Inv
<1> QED
  BY Zenon, <1>5, <1>6, <1>8, <1>9 DEF Inv

\* eventd gives up on the event.
LEMMA EventdFailsInv ==
  ASSUME Inv, NEW w \in EventdCount, EventdFails(w)
  PROVE  Inv'
<1>0. PICK m : m = ew[w].event
  BY Zenon
<1>1. /\ ew[w].pc \in {"handle", "stored"} /\ m \in Sources
      /\ fate' = [fate EXCEPT ![m] = "failed"]
      /\ ew' = [ew EXCEPT ![w] = Select]
      /\ UNCHANGED <<busVars, begun, accepted, stored, pw, shutdown>>
  BY Zenon, <1>0, EventdFields DEF EventdFails, Inv, Types
<1>2. /\ ew'[w] = Select /\ \A x \in EventdCount : x # w => ew'[x] = ew[x]
      /\ ew' \in [EventdCount -> EventdStates]
  BY Zenon, <1>1 DEF Inv, Types, EventdStates
<1>3. InEventd(w, m)
  BY Zenon, <1>0, <1>1 DEF InEventd
<1>4. m \in accepted /\ At({}, {w}, {}, FALSE, m)
  BY Zenon, <1>1, <1>3, HeldIsAccepted DEF Inv
<1> USE DEF busVars
<1>5. Types'
  BY Zenon, <1>1, <1>2 DEF Inv, Types
<1>6. PhaseInv'
  <2>1. \A x \in EventdCount : ew'[x].pc = "ended" <=> ew[x].pc = "ended"
    BY Zenon, <1>1, <1>2 DEF Select
  <2> QED
    BY Zenon, <2>1, <1>1 DEF Inv, PhaseInv
<1>7. pub[w].pc = "idle"
  BY Zenon, <1>1 DEF Inv, CallInv
<1>8. CallInv'
  BY Zenon, <1>1, <1>2, <1>7, EventdCalls
<1>9. PlaceInv'
  <2>1. \A x \in EventdCount : \A e :
          InEventd(x, e)' <=> (InEventd(x, e) /\ ~(x = w /\ e = m))
    BY Zenon, <1>0, <1>1, <1>2, <1>7 DEF InEventd, Select
  <2>2. fate'[m] = "failed" /\ \A e \in Sources : e # m => fate'[e] = fate[e]
    BY Zenon, <1>1 DEF Inv, Types, Events
  <2>3. \A e \in Sources \ {m} : SamePlace(e)
    BY Zenon, <2>1, <2>2, <1>1 DEF SamePlace, InChannel, InPipelined
  <2>4. At({}, {}, {}, TRUE, m)'
    BY Zenon, <2>1, <2>2, <1>1, <1>4 DEF At, InChannel, InPipelined
  <2>5. Somewhere(m)' /\ accepted' = accepted \cup {m}
    BY Zenon, <2>4, <1>1, <1>4 DEF Somewhere
  <2>6. (\A s \in Subscribers : \A e \in Sources : Once(s, e)')
        /\ Range(chan'["eventd"]) \subseteq accepted'
    BY <1>1 DEF Once, Inv, PlaceInv
  <2> QED
    BY Zenon, <2>3, <2>5, <2>6, <1>1, PlacesMoved DEF Inv
<1> QED
  BY Zenon, <1>5, <1>6, <1>8, <1>9 DEF Inv

\* eventd passes the event on to Publish; the bus still runs.
LEMMA EventdPublishesInv ==
  ASSUME Inv, NEW w \in EventdCount, EventdPublishes(w)
  PROVE  Inv'
<1>0. PICK m : m = ew[w].event
  BY Zenon
<1>1. /\ ew[w].pc \in {"handle", "stored"} /\ m \in Sources /\ pub[w].pc = "idle"
      /\ ew' = [ew EXCEPT ![w] = [pc |-> "publish"]]
      /\ UNCHANGED <<busStop, topics, created, bindings, done, leaked, topicsMu,
                     sub, chan, closed, panicked>>
      /\ UNCHANGED <<begun, accepted, stored, pw, fate, shutdown>>
  BY Zenon, <1>0, EventdFields DEF EventdPublishes, Publish, Inv, Types
<1>2. shutdown \in EventdUp /\ running
  BY Zenon, <1>1, PublishingIsUp DEF Inv, PhaseInv, BusUp, PipelinedUp, running
<1> DEFINE c == [pc |-> "lookup", topic |-> "event", msg |-> m]
<1>3. pub' = [pub EXCEPT ![w] = c]
  BY Zenon, <1>0, <1>2 DEF EventdPublishes, Publish
<1>4. c \in Calls
  BY Zenon, <1>1, DaemonsAssumption DEF Calls, Events
<1>5. /\ w \in Publishers /\ w \notin Events
      /\ pub'[w] = c /\ \A q \in Publishers : q # w => pub'[q] = pub[q]
      /\ ew'[w] = [pc |-> "publish"] /\ \A x \in EventdCount : x # w => ew'[x] = ew[x]
      /\ ew' \in [EventdCount -> EventdStates] /\ pub' \in [Publishers -> Calls]
  BY Zenon, <1>1, <1>3, <1>4, PublishersAssumption DEF Inv, Types, EventdStates, Events
<1>6. InEventd(w, m)
  BY Zenon, <1>0, <1>1 DEF InEventd
<1>7. m \in accepted /\ At({}, {w}, {}, FALSE, m)
  BY Zenon, <1>1, <1>6, HeldIsAccepted DEF Inv
<1>8. Types'
  BY Zenon, <1>1, <1>5 DEF Inv, Types
<1>9. PhaseInv'
  <2>1. \A x \in EventdCount : ew'[x].pc = "ended" <=> ew[x].pc = "ended"
    BY Zenon, <1>1, <1>5
  <2> QED
    BY Zenon, <2>1, <1>1 DEF Inv, PhaseInv
<1>10. CallInv'
  <2>1. \A q \in Publishers : pub'[q].pc = "send" => pub'[q].to = <<Daemon(pub'[q].object)>>
    BY <1>5 DEF Inv, CallInv
  <2>2. \A q \in Publishers : \A g : q # w => (Towards(q, g) => Towards(q, g)')
    BY Zenon, <1>1, <1>5 DEF Towards
  <2>3. Towards(w, 2)'
    <3>1. topics'["event"] = 2
      BY Zenon, <1>1, DaemonsAssumption DEF Inv, Types
    <3> QED
      BY <3>1, <1>5 DEF Towards
  <2>4. ASSUME NEW x \in Events, pub'[x].pc # "idle"
        PROVE  /\ x \in begun' \ accepted' /\ pub'[x].msg = x
               /\ Towards(x, IF x \in Sources THEN 1 ELSE 2)'
    <3>1. x \in Publishers /\ x # w
      BY Zenon, <1>5, PublishersAssumption DEF Events
    <3> QED
      BY Zenon, <3>1, <2>2, <2>4, <1>1, <1>5 DEF Inv, CallInv
  <2>5. ASSUME NEW x \in EventdCount, pub'[x].pc # "idle"
        PROVE  /\ ew'[x].pc = "publish" /\ pub'[x].msg \in accepted'
               /\ Towards(x, 2)'
    <3>1. x \in Publishers
      BY Zenon, PublishersAssumption
    <3>2. CASE x = w
      BY <3>2, <2>3, <1>1, <1>5, <1>7
    <3>3. CASE x # w
      BY Zenon, <3>1, <3>3, <2>2, <2>5, <1>1, <1>5 DEF Inv, CallInv
    <3> QED
      BY Zenon, <3>2, <3>3
  <2> QED
    BY Zenon, <2>1, <2>4, <2>5 DEF CallInv
<1>11. PlaceInv'
  <2>1. \A x \in EventdCount : \A e : InEventd(x, e)' <=> InEventd(x, e)
    BY <1>0, <1>1, <1>5, PublishersAssumption DEF InEventd
  <2>2. \A e \in Sources : SamePlace(e)
    BY Zenon, <2>1, <1>1 DEF SamePlace, InChannel, InPipelined
  <2> QED
    BY Zenon, <2>2, <1>1, PlacesKept DEF Inv
<1> QED
  BY Zenon, <1>8, <1>9, <1>10, <1>11 DEF Inv

\* The goroutine is back in its loop, or at its end.
LEMMA EventdLoopInv ==
  ASSUME Inv, NEW w \in EventdCount, EventdReturns(w) \/ EventdEnds(w)
  PROVE  Inv'
<1>0. PICK c : c = ew'[w]
  BY Zenon
<1>1. /\ ew[w].pc \in {"select", "publish"} /\ c \in {Select, Ended}
      /\ c = Ended => "eventd" \in closed /\ chan["eventd"] = << >>
      /\ ew' = [ew EXCEPT ![w] = c]
      /\ UNCHANGED <<busVars, begun, accepted, stored, pw, fate, shutdown>>
  <2>1. CASE EventdReturns(w)
    <3>1. ew' = [ew EXCEPT ![w] = Select] /\ c = Select
      BY Zenon, <2>1, <1>0 DEF EventdReturns, Inv, Types
    <3>2. Select # Ended
      BY Zenon DEF Select, Ended
    <3> QED
      BY Zenon, <2>1, <3>1, <3>2 DEF EventdReturns
  <2>2. CASE EventdEnds(w)
    <3>1. ew' = [ew EXCEPT ![w] = Ended] /\ c = Ended
      BY Zenon, <2>2, <1>0 DEF EventdEnds, Inv, Types
    <3> QED
      BY Zenon, <2>2, <3>1 DEF EventdEnds
  <2> QED
    BY Zenon, <2>1, <2>2
<1>2. pub[w].pc = "idle"
  BY Zenon DEF EventdReturns, EventdEnds, Inv, CallInv
<1>3. /\ ew'[w] = c /\ \A x \in EventdCount : x # w => ew'[x] = ew[x]
      /\ ew' \in [EventdCount -> EventdStates]
  BY Zenon, <1>1 DEF Inv, Types, EventdStates
<1> USE DEF busVars
<1>4. Types'
  BY Zenon, <1>1, <1>3 DEF Inv, Types
<1>5. PhaseInv'
  <2>1. shutdown \in EventdUp
    BY Zenon, <1>1 DEF Inv, PhaseInv
  <2>2. \A x \in EventdCount :
          ew'[x].pc = "ended" => "eventd" \in closed' /\ chan'["eventd"] = << >>
    BY <1>1, <1>3 DEF Inv, PhaseInv, Select
  <2> QED
    BY Zenon, <2>1, <2>2, <1>1 DEF Inv, PhaseInv
<1>6. CallInv'
  BY Zenon, <1>1, <1>2, <1>3, EventdCalls
<1>7. PlaceInv'
  <2>1. \A x \in EventdCount : \A e : InEventd(x, e)' <=> InEventd(x, e)
    BY <1>1, <1>2, <1>3 DEF InEventd, Select, Ended
  <2>2. \A e \in Sources : SamePlace(e)
    BY Zenon, <2>1, <1>1 DEF SamePlace, InChannel, InPipelined
  <2> QED
    BY Zenon, <2>2, <1>1, PlacesKept DEF Inv
<1> QED
  BY Zenon, <1>4, <1>5, <1>6, <1>7 DEF Inv

-----------------------------------------------------------------------------
\* What the states of a goroutine of pipelined are.
LEMMA PipeFields ==
  ASSUME NEW c \in PipeStates
  PROVE  /\ c.pc \in {"select", "handle", "run", "ended"}
         /\ c.pc \in {"handle", "run"} => c.event \in Events /\ c.todo \subseteq Handlers
         /\ c.pc = "handle" => c = [pc |-> "handle", event |-> c.event, todo |-> c.todo]
BY DEF PipeStates, Select, Ended

\* The goroutines of pipelined touch nothing that eventd, the calls of
\* Publish or the shutdown depend on.
LEMMA PipeKeeps ==
  ASSUME Inv, chan'["eventd"] = chan["eventd"],
         UNCHANGED <<busStop, topics, bindings, done, closed, pub, begun, accepted,
                     ew, shutdown>>
  PROVE  PhaseInv' /\ CallInv'
<1>1. PhaseInv'
  BY Zenon DEF Inv, PhaseInv
<1>2. CallInv'
  BY Zenon DEF Inv, CallInv, Towards
<1> QED
  BY Zenon, <1>1, <1>2

\* pipelined takes an event from its channel.
LEMMA PipeTakesInv ==
  ASSUME Inv, NEW v \in PipelineCount, PipeTakes(v)
  PROVE  Inv'
<1>0. PICK m, q, c : /\ m = Head(chan["pipelined"]) /\ q = chan["pipelined"]
                     /\ c = [pc |-> "handle", event |-> m, todo |-> Handlers]
  BY Zenon
<1>1. /\ pw[v].pc = "select" /\ q # << >>
      /\ chan' = [chan EXCEPT !["pipelined"] = Tail(q)]
      /\ pw' = [pw EXCEPT ![v] = c]
      /\ UNCHANGED <<busStop, topics, created, bindings, done, leaked, topicsMu,
                     pub, sub, closed, panicked>>
      /\ UNCHANGED <<begun, accepted, stored, ew, fate, shutdown>>
  BY Zenon, <1>0 DEF PipeTakes, Take
<1>2. "pipelined" \in Subscribers /\ q \in Seq(Events)
  BY Zenon, <1>0, DaemonsAssumption DEF Inv, Types
<1>3. /\ m \in Events /\ Tail(q) \in Seq(Events) /\ Len(Tail(q)) <= Len(q)
      /\ Range(q) = Range(Tail(q)) \cup {m} /\ m \in Range(q)
      /\ (\A i, j \in DOMAIN q : q[i] = m /\ q[j] = m => i = j) => m \notin Range(Tail(q))
  BY Zenon, <1>0, <1>1, <1>2, TailRange
<1>4. /\ pw'[v] = c /\ \A x \in PipelineCount : x # v => pw'[x] = pw[x]
      /\ chan'["pipelined"] = Tail(q)
      /\ \A s \in Subscribers : s # "pipelined" => chan'[s] = chan[s]
      /\ chan'["eventd"] = chan["eventd"]
  BY Zenon, <1>1, <1>2, DaemonsAssumption DEF Inv, Types
<1>5. Types'
  <2>1. chan' \in [Subscribers -> Seq(Events)]
    BY Zenon, <1>1, <1>3 DEF Inv, Types
  <2>2. \A s \in Subscribers : Len(chan'[s]) <= ChanCap[s]
    <3>1. /\ Len(q) <= ChanCap["pipelined"] /\ Len(q) \in Nat /\ Len(Tail(q)) \in Nat
          /\ ChanCap["pipelined"] \in Nat
      BY Zenon, <1>0, <1>2, <1>3, LenProperties, DaemonsAssumption DEF Inv, Types
    <3>2. Len(chan'["pipelined"]) <= ChanCap["pipelined"]
      BY <3>1, <1>3, <1>4
    <3> QED
      BY Zenon, <3>2, <1>4 DEF Inv, Types
  <2>3. c \in PipeStates
    BY Zenon, <1>0, <1>3 DEF PipeStates
  <2>4. pw' \in [PipelineCount -> PipeStates]
    BY Zenon, <2>3, <1>1 DEF Inv, Types
  <2> QED
    BY Zenon, <2>1, <2>2, <2>4, <1>1 DEF Inv, Types
<1>6. PhaseInv' /\ CallInv'
  BY Zenon, <1>1, <1>4, PipeKeeps
<1>7. \A s \in Subscribers : \A e \in Sources : Once(s, e)'
  <2> TAKE s \in Subscribers
  <2> TAKE e \in Sources
  <2>1. CASE s = "pipelined"
    <3>1. \A i, j \in DOMAIN q : q[i] = e /\ q[j] = e => i = j
      BY <2>1, <1>0 DEF Inv, PlaceInv, Once
    <3>2. \A i, j \in DOMAIN Tail(q) : Tail(q)[i] = e /\ Tail(q)[j] = e => i = j
      BY Zenon, <3>1, <1>1, <1>2, TailOnce
    <3> QED
      BY Zenon, <2>1, <3>2, <1>4 DEF Once
  <2>2. CASE s # "pipelined"
    BY <2>2, <1>4 DEF Once, Inv, PlaceInv
  <2> QED
    BY Zenon, <2>1, <2>2
<1>8. \A x \in EventdCount : \A e : InEventd(x, e)' <=> InEventd(x, e)
  BY Zenon, <1>1 DEF InEventd
<1>9. \A x \in PipelineCount : \A e :
        InPipelined(x, e)' <=> (InPipelined(x, e) \/ (x = v /\ e = m))
  BY <1>0, <1>1, <1>4 DEF InPipelined
<1>10. \A s \in Subscribers : \A e : e # m => (InChannel(s, e)' <=> InChannel(s, e))
  BY Zenon, <1>0, <1>3, <1>4 DEF InChannel
<1>11. \A e : e # m => SamePlace(e)
  BY Zenon, <1>1, <1>8, <1>9, <1>10 DEF SamePlace
<1>12. PlaceInv'
  <2>1. CASE m \in Sources
    <3>1. InChannel("pipelined", m) /\ m \notin Range(Tail(q))
      BY <2>1, <1>0, <1>2, <1>3 DEF InChannel, Inv, PlaceInv, Once
    <3>2. m \in accepted /\ At({"pipelined"}, {}, {}, FALSE, m)
      BY Zenon, <2>1, <3>1, <1>2, HeldIsAccepted DEF Inv
    <3>3. \A s \in Subscribers : ~InChannel(s, m)'
      BY Zenon, <3>1, <3>2, <1>4 DEF At, InChannel
    <3>4. At({}, {}, {v}, FALSE, m)'
      BY Zenon, <3>2, <3>3, <1>1, <1>8, <1>9 DEF At
    <3>5. Somewhere(m)' /\ accepted' = accepted \cup {m}
      BY Zenon, <3>2, <3>4, <1>1 DEF Somewhere
    <3>6. Range(chan'["eventd"]) \subseteq accepted'
      BY Zenon, <1>1, <1>4 DEF Inv, PlaceInv
    <3> QED
      BY Zenon, <2>1, <3>5, <3>6, <1>7, <1>11, PlacesMoved DEF Inv
  <2>2. CASE m \notin Sources
    <3>1. \A e \in Sources : (Somewhere(e) => Somewhere(e)') /\ (Nowhere(e) => Nowhere(e)')
      BY Zenon, <2>2, <1>11, SamePlaceStays
    <3>2. accepted \subseteq Sources
      BY Zenon DEF Inv, Types
    <3> QED
      BY Zenon, <3>1, <3>2, <1>1, <1>4, <1>7 DEF Inv, PlaceInv
  <2> QED
    BY Zenon, <2>1, <2>2
<1> QED
  BY Zenon, <1>5, <1>6, <1>12 DEF Inv

\* A goroutine of pipelined stays with its event,
LEMMA PipeMoves ==
  ASSUME Inv, NEW v \in PipelineCount, NEW c \in PipeStates,
         pw' = [pw EXCEPT ![v] = c],
         UNCHANGED <<busVars, begun, accepted, stored, ew, fate, shutdown>>,
         \A e : (c.pc \in {"handle", "run"} /\ c.event = e) <=> InPipelined(v, e)
  PROVE  Inv'
<1>1. pw'[v] = c /\ \A x \in PipelineCount : x # v => pw'[x] = pw[x]
  BY Zenon DEF Inv, Types
<1> USE DEF busVars
<1>2. Types'
  BY Zenon DEF Inv, Types
<1>3. PhaseInv' /\ CallInv'
  BY Zenon, PipeKeeps
<1>4. PlaceInv'
  <2>1. \A x \in PipelineCount : \A e : InPipelined(x, e)' <=> InPipelined(x, e)
    BY Zenon, <1>1 DEF InPipelined
  <2>2. \A e \in Sources : SamePlace(e)
    BY Zenon, <2>1 DEF SamePlace, InChannel, InEventd
  <2> QED
    BY Zenon, <2>2, PlacesKept DEF Inv
<1> QED
  BY Zenon, <1>2, <1>3, <1>4 DEF Inv

\* while it goes through the handlers and when it ends,
LEMMA PipeHandlesInv ==
  ASSUME Inv, NEW v \in PipelineCount,
         PipeSkips(v) \/ PipeRuns(v) \/ PipeReturns(v) \/ PipeEnds(v)
  PROVE  Inv'
<1>0. pw[v] \in PipeStates
  BY Zenon DEF Inv, Types
<1>1. CASE PipeSkips(v)
  <2>1. PICK h \in pw[v].todo : pw' = [pw EXCEPT ![v].todo = @ \ {h}]
    BY Zenon, <1>1 DEF PipeSkips
  <2> DEFINE c == [pc |-> "handle", event |-> pw[v].event, todo |-> pw[v].todo \ {h}]
  <2>2. pw[v].pc = "handle"
    BY Zenon, <1>1 DEF PipeSkips
  <2>3. pw[v] = [pc |-> "handle", event |-> pw[v].event, todo |-> pw[v].todo]
    BY Zenon, <2>2, <1>0, PipeFields
  <2>4. [pw[v] EXCEPT !.todo = @ \ {h}] = c
    BY <2>3
  <2>5. pw' = [pw EXCEPT ![v] = c]
    BY Zenon, <2>1, <2>4
  <2>6. c \in PipeStates
    BY Zenon, <2>2, <1>0, PipeFields DEF PipeStates
  <2>7. \A e : (c.pc \in {"handle", "run"} /\ c.event = e) <=> InPipelined(v, e)
    BY Zenon, <2>2 DEF InPipelined
  <2> HIDE DEF c
  <2> QED
    BY Zenon, <1>1, <2>5, <2>6, <2>7, PipeMoves DEF PipeSkips
<1>2. CASE PipeRuns(v)
  <2>1. PICK h \in pw[v].todo :
          pw' = [pw EXCEPT ![v] = [pc |-> "run", event |-> pw[v].event,
                                   todo |-> pw[v].todo \ {h}, handler |-> h]]
    BY Zenon, <1>2 DEF PipeRuns
  <2> DEFINE c == [pc |-> "run", event |-> pw[v].event,
                   todo |-> pw[v].todo \ {h}, handler |-> h]
  <2>2. pw[v].pc = "handle"
    BY Zenon, <1>2 DEF PipeRuns
  <2>3. c \in PipeStates
    BY Zenon, <2>2, <1>0, PipeFields DEF PipeStates
  <2>4. \A e : (c.pc \in {"handle", "run"} /\ c.event = e) <=> InPipelined(v, e)
    BY Zenon, <2>2 DEF InPipelined
  <2>5. pw' = [pw EXCEPT ![v] = c]
    BY Zenon, <2>1
  <2> HIDE DEF c
  <2> QED
    BY Zenon, <1>2, <2>3, <2>4, <2>5, PipeMoves DEF PipeRuns
<1>3. CASE PipeReturns(v)
  <2> DEFINE c == [pc |-> "handle", event |-> pw[v].event, todo |-> pw[v].todo]
  <2>1. pw[v].pc = "run" /\ pw' = [pw EXCEPT ![v] = c]
    BY Zenon, <1>3 DEF PipeReturns
  <2>2. c \in PipeStates
    BY Zenon, <2>1, <1>0, PipeFields DEF PipeStates
  <2>3. \A e : (c.pc \in {"handle", "run"} /\ c.event = e) <=> InPipelined(v, e)
    BY Zenon, <2>1 DEF InPipelined
  <2> HIDE DEF c
  <2> QED
    BY Zenon, <1>3, <2>1, <2>2, <2>3, PipeMoves DEF PipeReturns
<1>4. CASE PipeEnds(v)
  <2>1. pw[v].pc = "select" /\ pw' = [pw EXCEPT ![v] = Ended]
    BY Zenon, <1>4 DEF PipeEnds
  <2>2. Ended \in PipeStates /\ Ended.pc = "ended"
    BY Zenon DEF PipeStates, Ended
  <2>3. \A e : (Ended.pc \in {"handle", "run"} /\ Ended.event = e) <=> InPipelined(v, e)
    BY Zenon, <2>1, <2>2 DEF InPipelined
  <2> QED
    BY Zenon, <1>4, <2>1, <2>2, <2>3, PipeMoves DEF PipeEnds
<1> QED
  BY Zenon, <1>1, <1>2, <1>3, <1>4

\* and leaves it when all its handlers are through.
LEMMA PipeHandledInv ==
  ASSUME Inv, NEW v \in PipelineCount, PipeHandled(v)
  PROVE  Inv'
<1>0. PICK m : m = pw[v].event
  BY Zenon
<1>1. /\ pw[v].pc = "handle" /\ m \in Events
      /\ fate' = [fate EXCEPT ![m] = "handled"]
      /\ pw' = [pw EXCEPT ![v] = Select]
      /\ UNCHANGED <<busVars, begun, accepted, stored, ew, shutdown>>
  BY Zenon, <1>0, PipeFields DEF PipeHandled, Inv, Types
<1>2. /\ pw'[v] = Select /\ \A x \in PipelineCount : x # v => pw'[x] = pw[x]
      /\ pw' \in [PipelineCount -> PipeStates]
      /\ fate'[m] = "handled" /\ \A e \in Events : e # m => fate'[e] = fate[e]
  BY Zenon, <1>1 DEF Inv, Types, PipeStates
<1> USE DEF busVars
<1>3. Types'
  BY Zenon, <1>1, <1>2 DEF Inv, Types
<1>4. PhaseInv' /\ CallInv'
  BY Zenon, <1>1, PipeKeeps
<1>5. PlaceInv'
  <2>1. \A x \in PipelineCount : \A e :
          InPipelined(x, e)' <=> (InPipelined(x, e) /\ ~(x = v /\ e = m))
    BY Zenon, <1>0, <1>1, <1>2 DEF InPipelined, Select
  <2>2. \A e \in Sources : e # m => SamePlace(e)
    BY Zenon, <2>1, <1>1, <1>2 DEF SamePlace, InChannel, InEventd, Events
  <2>3. CASE m \in Sources
    <3>1. InPipelined(v, m)
      BY Zenon, <1>0, <1>1 DEF InPipelined
    <3>2. m \in accepted /\ At({}, {}, {v}, FALSE, m)
      BY Zenon, <2>3, <3>1, HeldIsAccepted DEF Inv
    <3>3. At({}, {}, {}, TRUE, m)'
      BY Zenon, <2>1, <3>2, <1>1, <1>2 DEF At, InChannel, InEventd
    <3>4. Somewhere(m)' /\ accepted' = accepted \cup {m}
      BY Zenon, <3>2, <3>3, <1>1 DEF Somewhere
    <3>5. (\A s \in Subscribers : \A e \in Sources : Once(s, e)')
          /\ Range(chan'["eventd"]) \subseteq accepted'
      BY <1>1 DEF Once, Inv, PlaceInv
    <3> QED
      BY Zenon, <2>2, <2>3, <3>4, <3>5, PlacesMoved DEF Inv
  <2>4. CASE m \notin Sources
    BY Zenon, <2>2, <2>4, <1>1, PlacesKept DEF Inv
  <2> QED
    BY Zenon, <2>3, <2>4
<1> QED
  BY Zenon, <1>3, <1>4, <1>5 DEF Inv

-----------------------------------------------------------------------------
\* The stop group moves no event and enters no call.
LEMMA StopKeeps ==
  ASSUME Inv, UNCHANGED <<topics, pub, chan, begun, accepted, stored, ew, pw, fate>>
  PROVE  CallInv' /\ PlaceInv'
<1>1. CallInv'
  BY Zenon DEF Inv, CallInv, Towards
<1>2. \A e \in Sources : SamePlace(e)
  BY Zenon DEF SamePlace, InChannel, InEventd, InPipelined
<1> QED
  BY Zenon, <1>1, <1>2, PlacesKept DEF Inv

\* A step of the stop group that only goes on to the next phase.
LEMMA WaitsInv ==
  ASSUME Inv, \/ StopBegins \/ EventdWaits \/ PipelinedStops \/ PipelinedWaits
  PROVE  Inv'
<1> USE DEF StopBegins, EventdWaits, PipelinedStops, PipelinedWaits, Stopping
<1>1. UNCHANGED <<busVars, begun, accepted, stored, ew, pw, fate>>
  BY Zenon
<1>2. Types'
  <2>1. shutdown' \in Phases
    BY Zenon DEF Phases, BusUp, PipelinedUp, EventdUp, BeforeClose
  <2> QED
    BY Zenon, <1>1, <2>1 DEF Inv, Types, busVars
<1>3. PhaseInv'
  BY Zenon, <1>1 DEF Inv, PhaseInv, busVars, BusUp, PipelinedUp, EventdUp, BeforeClose
<1>4. CallInv' /\ PlaceInv'
  BY Zenon, <1>1, StopKeeps DEF busVars
<1> QED
  BY Zenon, <1>2, <1>3, <1>4 DEF Inv

\* What an unsubscription leaves.
LEMMA UnsubscribeTypes ==
  ASSUME Types, NEW n \in Subscribers, NEW g \in 1 .. 2, Unsubscribe(n, g)
  PROVE  /\ DOMAIN bindings' = 1 .. 2
         /\ \A h \in 1 .. 2 : /\ DOMAIN bindings'[h] \subseteq {Daemon(h)}
                              /\ \A k \in DOMAIN bindings'[h] : bindings'[h][k] = k
         /\ \A h \in 1 .. 2 : h # g => bindings'[h] = bindings[h]
         /\ done' \subseteq 1 .. 2 /\ leaked' \subseteq done'
         /\ done' \subseteq done \cup {g}
<1>1. bindings' = [bindings EXCEPT ![g] = Unbound(bindings[g], ConsumerName[n])]
  BY Zenon DEF Unsubscribe
<1>2. /\ bindings'[g] = Unbound(bindings[g], ConsumerName[n])
      /\ DOMAIN bindings' = 1 .. 2
      /\ \A h \in 1 .. 2 : h # g => bindings'[h] = bindings[h]
  BY Zenon, <1>1 DEF Types
<1>3. /\ DOMAIN bindings'[g] \subseteq DOMAIN bindings[g]
      /\ \A k \in DOMAIN bindings'[g] : bindings'[g][k] = bindings[g][k]
  BY Zenon, <1>2 DEF Unbound
<1>4. \A h \in 1 .. 2 : /\ DOMAIN bindings'[h] \subseteq {Daemon(h)}
                        /\ \A k \in DOMAIN bindings'[h] : bindings'[h][k] = k
  BY Zenon, <1>2, <1>3 DEF Types
<1>5. /\ done' \subseteq 1 .. 2 /\ leaked' \subseteq done' /\ done' \subseteq done \cup {g}
  BY Zenon DEF Unsubscribe, Types
<1> QED
  BY Zenon, <1>2, <1>4, <1>5

\* eventd cancels its subscription.
LEMMA EventdCancelsInv ==
  ASSUME Inv, EventdCancels
  PROVE  Inv'
<1>1. /\ shutdown = "eventd cancel" /\ shutdown' = "eventd close" /\ Unsubscribe("eventd", 1)
      /\ UNCHANGED <<begun, accepted, stored, ew, pw, fate>>
      /\ UNCHANGED <<busStop, topics, created, leaked, topicsMu, pub, sub, chan,
                     closed, panicked>>
  BY Zenon DEF EventdCancels, Stopping, Unsubscribe
<1>2. /\ DOMAIN bindings' = 1 .. 2
      /\ \A h \in 1 .. 2 : /\ DOMAIN bindings'[h] \subseteq {Daemon(h)}
                           /\ \A k \in DOMAIN bindings'[h] : bindings'[h][k] = k
      /\ bindings'[2] = bindings[2]
      /\ done' \subseteq 1 .. 2 /\ leaked' \subseteq done'
      /\ done' \subseteq done \cup {1}
  <2>1. "eventd" \in Subscribers /\ 1 \in 1 .. 2 /\ 2 \in 1 .. 2 /\ 2 # 1
    BY DaemonsAssumption
  <2> QED
    BY Zenon, <1>1, <2>1, UnsubscribeTypes DEF Inv
<1>3. Types'
  BY Zenon, <1>1, <1>2 DEF Inv, Types, Phases, BusUp, PipelinedUp, EventdUp, BeforeClose
<1>4. PhaseInv'
  <2>1. /\ shutdown \in BeforeClose /\ shutdown \in EventdUp /\ shutdown \in PipelinedUp
        /\ shutdown \in BusUp
        /\ shutdown' \in BeforeClose /\ shutdown' \in EventdUp /\ shutdown' \in BusUp
    BY Zenon, <1>1 DEF BusUp, PipelinedUp, EventdUp, BeforeClose
  <2>2. 2 \notin done' /\ "pipelined" \in DOMAIN bindings'[2]
    BY <1>2, <2>1 DEF Inv, PhaseInv
  <2> QED
    BY Zenon, <1>1, <2>1, <2>2 DEF Inv, PhaseInv
<1>5. CallInv' /\ PlaceInv'
  BY Zenon, <1>1, StopKeeps
<1> QED
  BY Zenon, <1>3, <1>4, <1>5 DEF Inv

\* pipelined cancels its subscription.
LEMMA PipelinedCancelsInv ==
  ASSUME Inv, PipelinedCancels
  PROVE  Inv'
<1>1. /\ shutdown = "pipelined cancel" /\ shutdown' = "pipelined close"
      /\ Unsubscribe("pipelined", 2)
      /\ UNCHANGED <<begun, accepted, stored, ew, pw, fate>>
      /\ UNCHANGED <<busStop, topics, created, leaked, topicsMu, pub, sub, chan,
                     closed, panicked>>
  BY Zenon DEF PipelinedCancels, Stopping, Unsubscribe
<1>2. /\ DOMAIN bindings' = 1 .. 2
      /\ \A h \in 1 .. 2 : /\ DOMAIN bindings'[h] \subseteq {Daemon(h)}
                           /\ \A k \in DOMAIN bindings'[h] : bindings'[h][k] = k
      /\ done' \subseteq 1 .. 2 /\ leaked' \subseteq done'
  <2>1. "pipelined" \in Subscribers /\ 2 \in 1 .. 2
    BY DaemonsAssumption
  <2> QED
    BY Zenon, <1>1, <2>1, UnsubscribeTypes DEF Inv
<1>3. Types'
  BY Zenon, <1>1, <1>2 DEF Inv, Types, Phases, BusUp, PipelinedUp, EventdUp, BeforeClose
<1>4. PhaseInv'
  BY Zenon, <1>1 DEF Inv, PhaseInv, BusUp, PipelinedUp, EventdUp, BeforeClose
<1>5. CallInv' /\ PlaceInv'
  BY Zenon, <1>1, StopKeeps
<1> QED
  BY Zenon, <1>3, <1>4, <1>5 DEF Inv

\* A daemon closes its channel.
LEMMA ClosesInv ==
  ASSUME Inv, EventdCloses \/ PipelinedCloses
  PROVE  Inv'
<1>0. PICK n : n \in Subscribers /\ closed' = closed \cup {n}
        /\ \/ n = "eventd" /\ shutdown = "eventd close" /\ shutdown' = "eventd wait"
           \/ n = "pipelined" /\ shutdown = "pipelined close" /\ shutdown' = "bus"
  BY Zenon, DaemonsAssumption DEF EventdCloses, PipelinedCloses, Stopping, CloseChannel
<1>1. /\ UNCHANGED <<begun, accepted, stored, ew, pw, fate>>
      /\ UNCHANGED <<busStop, topics, created, bindings, done, leaked, topicsMu,
                     pub, sub, chan, panicked>>
  BY Zenon DEF EventdCloses, PipelinedCloses, Stopping, CloseChannel
<1>2. Types'
  BY Zenon, <1>0, <1>1 DEF Inv, Types, Phases, BusUp, PipelinedUp, EventdUp, BeforeClose
<1>3. PhaseInv'
  BY Zenon, <1>0, <1>1 DEF Inv, PhaseInv, BusUp, PipelinedUp, EventdUp, BeforeClose
<1>4. CallInv' /\ PlaceInv'
  BY Zenon, <1>1, StopKeeps
<1> QED
  BY Zenon, <1>2, <1>3, <1>4 DEF Inv

\* The bus stops.
LEMMA BusStopsInv ==
  ASSUME Inv, BusStops \/ BusCloses
  PROVE  Inv'
<1>1. CASE BusStops
  <2>1. /\ shutdown = "bus" /\ shutdown' = "bus close" /\ busStop' = "closing"
        /\ UNCHANGED <<begun, accepted, stored, ew, pw, fate>>
        /\ UNCHANGED <<topics, created, bindings, done, leaked, topicsMu, pub, sub,
                       chan, closed, panicked>>
    BY Zenon, <1>1 DEF BusStops, Stopping, StopRunning
  <2>2. Types'
    BY Zenon, <2>1 DEF Inv, Types, Phases
  <2>3. PhaseInv'
    BY Zenon, <2>1 DEF Inv, PhaseInv, BusUp, PipelinedUp, EventdUp, BeforeClose
  <2>4. CallInv' /\ PlaceInv'
    BY Zenon, <2>1, StopKeeps
  <2> QED
    BY Zenon, <2>2, <2>3, <2>4 DEF Inv
<1>2. CASE BusCloses
  <2> DEFINE objects == Range(topics) \ {0}
  <2>1. /\ shutdown = "bus close" /\ shutdown' = "done" /\ busStop' = "done"
        /\ UNCHANGED <<begun, accepted, stored, ew, pw, fate>>
        /\ UNCHANGED <<topics, created, topicsMu, pub, sub, chan, closed, panicked>>
        /\ done' = done \cup objects
        /\ leaked' = leaked \cup (objects \cap done)
        /\ bindings' = [g \in DOMAIN bindings |->
                          IF g \in objects \ done THEN << >> ELSE bindings[g]]
    BY Zenon, <1>2 DEF BusCloses, Stopping, CloseTopics
  <2>2. objects \subseteq 1 .. 2
    BY DEF Inv, Types, Range
  <2>3. /\ DOMAIN bindings' = 1 .. 2
        /\ \A g \in 1 .. 2 : /\ DOMAIN bindings'[g] \subseteq {Daemon(g)}
                             /\ \A n \in DOMAIN bindings'[g] : bindings'[g][n] = n
    <3> HIDE DEF objects
    <3>1. DOMAIN bindings = 1 .. 2 /\ DOMAIN bindings' = 1 .. 2
      BY Zenon, <2>1 DEF Inv, Types
    <3>2. \A g \in 1 .. 2 : bindings'[g] = << >> \/ bindings'[g] = bindings[g]
      BY Zenon, <2>1, <3>1
    <3>3. DOMAIN << >> = {}
      OBVIOUS
    <3> QED
      BY Zenon, <3>1, <3>2, <3>3 DEF Inv, Types
  <2>4. Types'
    <3> HIDE DEF objects
    <3> QED
      BY Zenon, <2>1, <2>2, <2>3 DEF Inv, Types, Phases
  <2>5. PhaseInv'
    BY Zenon, <2>1 DEF Inv, PhaseInv, BusUp, PipelinedUp, EventdUp, BeforeClose
  <2>6. CallInv' /\ PlaceInv'
    BY Zenon, <2>1, StopKeeps
  <2> QED
    BY Zenon, <2>4, <2>5, <2>6 DEF Inv
<1> QED
  BY Zenon, <1>1, <1>2

-----------------------------------------------------------------------------
(***************************************************************************)
(* The invariant is inductive, and what follows.  FiniteSetTheorems has    *)
(* the facts about Cardinality, which the order of the bindings and        *)
(* Accounted are about.                                                    *)
(***************************************************************************)
INSTANCE FiniteSetTheorems

\* A step that changes nothing.
LEMMA StutterInv ==
  ASSUME Inv, UNCHANGED vars
  PROVE  Inv'
<1> USE DEF vars, busVars, pipeVars
<1>1. Types'
  BY Zenon DEF Inv, Types
<1>2. PhaseInv'
  BY Zenon DEF Inv, PhaseInv
<1>3. CallInv' /\ PlaceInv'
  BY Zenon, StopKeeps
<1> QED
  BY Zenon, <1>1, <1>2, <1>3 DEF Inv

\* The order of no bindings, and that of one.
LEMMA FewOrders ==
  ASSUME NEW x
  PROVE  /\ \A f \in Orders({}) : f = << >>
         /\ \A f \in Orders({x}) : f = <<x>>
<1>1. Cardinality({}) = 0 /\ Cardinality({x}) = 1
  BY Zenon, FS_EmptySet, FS_Singleton
<1>2. \A f \in Orders({}) : f = << >>
  <2> TAKE f \in Orders({})
  <2>1. f \in [1 .. 0 -> {}]
    BY Zenon, <1>1 DEF Orders, Bijection, Injection
  <2>2. f \in Seq({}) /\ Len(f) = 0
    BY <2>1, IsASeq, LenProperties
  <2> QED
    BY Zenon, <2>2, EmptySeq
<1>3. \A f \in Orders({x}) : f = <<x>>
  <2> TAKE f \in Orders({x})
  <2>1. f \in [1 .. 1 -> {x}]
    BY Zenon, <1>1 DEF Orders, Bijection, Injection
  <2>2. f \in Seq({x}) /\ f[1] = x
    <3>1. f[1] = x
      BY <2>1
    <3>2. f \in Seq({x})
      BY <2>1, SeqDef, Zenon
    <3> QED
      BY Zenon, <3>1, <3>2
  <2>4. Len(f) = 1
    BY <2>1, <2>2, LenProperties
  <2>3. <<x>> \in Seq({x}) /\ Len(<<x>>) = 1 /\ <<x>>[1] = x
    OBVIOUS
  <2> QED
    BY <2>2, <2>3, <2>4, SeqEqual
<1> QED
  BY Zenon, <1>2, <1>3

\* Send copies the bindings under the topic's lock: the daemon, or nobody.
LEMMA CopyBindingsInv ==
  ASSUME Inv, NEW p \in Publishers, CopyBindings(p), PublishGoesOn(p)
  PROVE  Inv'
<1>1. UNCHANGED <<busStop, topics, created, bindings, done, leaked, topicsMu,
                  sub, chan, closed, panicked, pipeVars>>
  BY Zenon DEF CopyBindings, PublishGoesOn, pipeVars, Inv, PlaceInv
<1>2. pub[p] \in Calls /\ pub[p].object \in 1 .. 2 /\ pub[p].msg \in Events /\ pub[p].pc = "copy"
  BY Zenon, CallFields DEF CopyBindings, Inv, Types
<1> DEFINE g == pub[p].object
           b == Range(bindings[g])
<1>3. /\ b = {} \/ b = {Daemon(g)}
      /\ Daemon(g) \in DOMAIN bindings[g] => b # {}
  <2>1. /\ DOMAIN bindings[g] \subseteq {Daemon(g)}
        /\ \A n \in DOMAIN bindings[g] : bindings[g][n] = n
    BY Zenon, <1>2 DEF Inv, Types
  <2>2. b = DOMAIN bindings[g]
    BY <2>1, Zenon DEF Range
  <2> QED
    BY Zenon, <2>1, <2>2
<1>4. PICK order \in Orders(b) :
        pub' = [pub EXCEPT ![p] =
                  IF order = << >> THEN Returned
                  ELSE [pc |-> "send", object |-> g, msg |-> pub[p].msg, to |-> order]]
  BY Zenon DEF CopyBindings
<1> HIDE DEF b
<1>5. (b = {} /\ order = << >>) \/ (b # {} /\ order = <<Daemon(g)>>)
  BY Zenon, <1>3, <1>4, FewOrders
<1>6. CASE b = {}
  <2>1. pub' = [pub EXCEPT ![p] = Returned]
    BY Zenon, <1>4, <1>5, <1>6
  <2>2. p \notin EventdCount
    <3> SUFFICES ASSUME p \in EventdCount PROVE FALSE
      BY Zenon
    <3>1. ew[p].pc = "publish" /\ g = 2
      BY Zenon, <1>2 DEF Inv, CallInv, Towards
    <3>2. "pipelined" \in DOMAIN bindings[2]
      BY Zenon, <3>1, PublishingIsUp
    <3> QED
      BY <3>1, <3>2, <1>3, <1>6 DEF Daemon
  <2>3. p \in Events
    BY Zenon, <2>2, PublishersAssumption DEF Events
  <2> QED
    BY Zenon, <2>1, <2>3, <1>1, CallReturns
<1>7. CASE b # {}
  <2> DEFINE c == [pc |-> "send", object |-> g, msg |-> pub[p].msg, to |-> <<Daemon(g)>>]
  <2>1. pub' = [pub EXCEPT ![p] = c]
    <3>1. order = <<Daemon(g)>>
      BY Zenon, <1>5, <1>7
    <3>2. order # << >>
      BY Zenon, <3>1
    <3> QED
      BY Zenon, <1>4, <3>1, <3>2
  <2>2. c \in Calls
    BY Zenon, <1>2 DEF Calls, Daemon
  <2>3. \A h : Towards(p, h) => Towards(p, h)'
    BY Zenon, <1>2, <2>1 DEF Towards, Inv, Types
  <2>4. c.pc = "send" /\ c.msg = pub[p].msg /\ c.to = <<Daemon(c.object)>>
    BY Zenon
  <2> HIDE DEF c
  <2> QED
    BY Zenon, <1>1, <1>2, <2>1, <2>2, <2>3, <2>4, CallMoves
<1> QED
  BY Zenon, <1>6, <1>7

\* Every step of a call of Publish keeps the invariant.
LEMMA PublishGoesOnInv ==
  ASSUME Inv, NEW p \in Publishers, PublishGoesOn(p)
  PROVE  Inv'
<1>1. CASE LookUp(p)
  BY Zenon, <1>1, LookUpInv
<1>2. CASE CopyBindings(p)
  BY Zenon, <1>2, CopyBindingsInv
<1>3. CASE Deliver(p)
  BY Zenon, <1>3, DeliverInv
<1>4. CASE DeliverPanics(p)
  BY Zenon, <1>4, DeliverPanicsInv
<1>5. CASE Abandon(p)
  BY Zenon, <1>5, AbandonInv
<1> QED
  BY Zenon, <1>1, <1>2, <1>3, <1>4, <1>5 DEF PublishGoesOn, PublishStep

\* The invariant is inductive: no step of a publisher, of a goroutine of the
\* daemons or of the stop group breaks it.
THEOREM InvHolds == Spec => []Inv
<1>1. Inv /\ [Next]_vars => Inv'
  <2> SUFFICES ASSUME Inv, [Next]_vars PROVE Inv'
    BY Zenon
  <2>1. ASSUME NEW e \in Events, Emit(e) \/ PublishGoesOn(e) PROVE Inv'
    <3>1. e \in Publishers
      BY Zenon, PublishersAssumption DEF Events
    <3> QED
      BY Zenon, <2>1, <3>1, EmitInv, PublishGoesOnInv
  <2>2. ASSUME NEW w \in EventdCount, EventdStep(w) PROVE Inv'
    <3>1. w \in Publishers
      BY Zenon, PublishersAssumption
    <3> QED
      BY Zenon, <2>2, <3>1, EventdTakesInv, EventdStoresInv, EventdFailsInv, EventdPublishesInv,
         PublishGoesOnInv, EventdLoopInv DEF EventdStep
  <2>3. ASSUME NEW v \in PipelineCount, PipeStep(v) PROVE Inv'
    BY Zenon, <2>3, PipeTakesInv, PipeHandlesInv, PipeHandledInv DEF PipeStep
  <2>4. ASSUME StopBegins \/ StopStep PROVE Inv'
    BY Zenon, <2>4, WaitsInv, EventdCancelsInv, ClosesInv, PipelinedCancelsInv, BusStopsInv
    DEF StopStep
  <2>5. CASE UNCHANGED vars
    BY Zenon, <2>5, StutterInv
  <2> QED
    BY Zenon, <2>1, <2>2, <2>3, <2>4, <2>5 DEF Next
<1> QED
  BY <1>1, InitInv, PTL DEF Spec

\* The variables hold what they should in every state.
THEOREM TypeCorrect == Spec => []TypeOK
<1>1. Inv => TypeOK
  <2> SUFFICES ASSUME Inv PROVE TypeOK
    BY Zenon
  <2>1. /\ busStop \in {"no", "closing", "done"}
        /\ topicsMu \in BOOLEAN /\ panicked \in BOOLEAN
        /\ created \in 0 .. MaxTopics
        /\ topics \in [Topics -> 0 .. created]
        /\ done \subseteq 1 .. created /\ leaked \subseteq done
        /\ closed \subseteq Subscribers
    <3>1. created = 2 /\ topicsMu = FALSE
      BY Zenon DEF Inv, Types
    <3>2. topics \in [Topics -> 0 .. 2]
      BY DEF Inv, Types
    <3>3. created \in 0 .. MaxTopics
      BY <3>1, DaemonsAssumption
    <3> QED
      BY Zenon, <3>1, <3>2, <3>3 DEF Inv, Types
  <2>2. \A g \in 1 .. MaxTopics : \A n \in DOMAIN bindings[g] :
          bindings[g][n] \in Subscribers /\ ConsumerName[bindings[g][n]] = n
    BY Zenon, DaemonsAssumption DEF Inv, Types, Daemon
  <2>3. \A p \in Publishers : pub[p].pc \in {"idle", "lookup", "copy", "send"}
    BY Zenon, CallFields DEF Inv, Types
  <2>4. \A s \in Subscribers :
          sub[s].pc \in {"idle", "find", "bind"} /\ Len(chan[s]) <= ChanCap[s]
    BY Zenon DEF Inv, Types, Returned
  <2>5. \A w \in EventdCount :
          ew[w].pc \in {"select", "handle", "stored", "publish", "ended"}
    BY Zenon, EventdFields DEF Inv, Types
  <2>6. \A v \in PipelineCount : pw[v].pc \in {"select", "handle", "run", "ended"}
    BY Zenon, PipeFields DEF Inv, Types
  <2> QED
    BY Zenon, <2>1, <2>2, <2>3, <2>4, <2>5, <2>6 DEF Inv, Types, TypeOK, BusTypeOK
<1> QED
  BY <1>1, InvHolds, PTL

\* An accepted event is in one place.
LEMMA OnePlace ==
  ASSUME Inv, NEW e \in accepted
  PROVE  Cardinality(Places(e)) = 1
<1> DEFINE InChan == UNION {{<<s, i>> : i \in {j \in DOMAIN chan[s] : chan[s][j] = e}} :
                              s \in Subscribers}
           InE == {<<"eventd goroutine", w>> : w \in {x \in EventdCount : InEventd(x, e)}}
           InP == {<<"pipeline", v>> : v \in {x \in PipelineCount : InPipelined(x, e)}}
           End == IF fate[e] = "open" THEN {} ELSE {<<"ended", fate[e]>>}
<1>0. e \in Sources /\ Somewhere(e) /\ Places(e) = InChan \cup InE \cup InP \cup End
  <2>1. e \in Sources /\ Somewhere(e)
    BY Zenon DEF Inv, Types, PlaceInv
  <2>2. Places(e) = InChan \cup InE \cup InP \cup End
    BY Zenon DEF Places
  <2> QED
    BY Zenon, <2>1, <2>2
<1> SUFFICES \E x : Places(e) = {x}
  BY Zenon, FS_Singleton
<1>1. ASSUME NEW s \in Subscribers, At({s}, {}, {}, FALSE, e) PROVE \E x : Places(e) = {x}
  <2>1. PICK i \in DOMAIN chan[s] : chan[s][i] = e
    BY Zenon, <1>1 DEF At, InChannel, Range
  <2>2. \A t \in Subscribers : t # s => {j \in DOMAIN chan[t] : chan[t][j] = e} = {}
    <3>1. \A t \in Subscribers : t # s => ~InChannel(t, e)
      BY Zenon, <1>1 DEF At
    <3>2. \A t \in Subscribers : t # s => \A j \in DOMAIN chan[t] : chan[t][j] # e
      BY <3>1, Zenon DEF InChannel, Range
    <3> QED
      BY Zenon, <3>2
  <2>3. {j \in DOMAIN chan[s] : chan[s][j] = e} = {i}
    <3>1. \A j, k \in DOMAIN chan[s] : chan[s][j] = e /\ chan[s][k] = e => j = k
      BY Zenon, <1>0 DEF Inv, PlaceInv, Once
    <3> QED
      BY Zenon, <2>1, <3>1
  <2>4. InChan = {<<s, i>>}
    BY <2>2, <2>3
  <2>5. InE = {} /\ InP = {} /\ End = {}
    BY Zenon, <1>1 DEF At
  <2> QED
    BY Zenon, <1>0, <2>4, <2>5
<1>2. ASSUME \A s \in Subscribers : ~InChannel(s, e) PROVE InChan = {}
  BY Zenon, <1>2 DEF InChannel, Range
<1>3. ASSUME NEW w \in EventdCount, At({}, {w}, {}, FALSE, e) PROVE \E x : Places(e) = {x}
  <2>1. InChan = {}
    BY Zenon, <1>2, <1>3 DEF At
  <2>2. InE = {<<"eventd goroutine", w>>} /\ InP = {} /\ End = {}
    BY Zenon, <1>3 DEF At
  <2> QED
    BY Zenon, <1>0, <2>1, <2>2
<1>4. ASSUME NEW v \in PipelineCount, At({}, {}, {v}, FALSE, e) PROVE \E x : Places(e) = {x}
  <2>1. InChan = {}
    BY Zenon, <1>2, <1>4 DEF At
  <2>2. InP = {<<"pipeline", v>>} /\ InE = {} /\ End = {}
    BY Zenon, <1>4 DEF At
  <2> QED
    BY Zenon, <1>0, <2>1, <2>2
<1>5. ASSUME At({}, {}, {}, TRUE, e) PROVE \E x : Places(e) = {x}
  <2>1. InChan = {}
    BY Zenon, <1>2, <1>5 DEF At
  <2>2. InP = {} /\ InE = {} /\ End = {<<"ended", fate[e]>>}
    BY Zenon, <1>5 DEF At
  <2> QED
    BY Zenon, <1>0, <2>1, <2>2
<1> QED
  BY Zenon, <1>0, <1>1, <1>3, <1>4, <1>5 DEF Somewhere

\* An event that eventd's channel took is in exactly one place, whatever the
\* publishers, the daemons and the shutdown do, and however many they are.
THEOREM EventsAccounted == Spec => []Accounted
<1>1. Inv => Accounted
  BY Zenon, OnePlace DEF Accounted
<1> QED
  BY <1>1, InvHolds, PTL

\* Once eventd has stopped it holds none of the events it took.
THEOREM EventdDrains == Spec => []Drained
<1>1. Inv => Drained
  <2> SUFFICES ASSUME Inv, shutdown \notin EventdUp, NEW e \in accepted
               PROVE  \/ fate[e] # "open"
                      \/ e \in Range(chan["pipelined"])
                      \/ \E v \in PipelineCount : InPipelined(v, e)
    BY Zenon DEF Drained, EventdUp, BeforeClose
  <2>1. \A w \in EventdCount : ew[w].pc = "ended"
    BY Zenon DEF Inv, PhaseInv
  <2>2. \A w \in EventdCount : ~InEventd(w, e)
    BY Zenon, <2>1 DEF Inv, CallInv, InEventd
  <2>3. ~InChannel("eventd", e)
    <3>1. chan["eventd"] = << >>
      BY Zenon, <2>1, HandlerCountAssumption DEF Inv, PhaseInv
    <3> QED
      BY <3>1 DEF InChannel, Range
  <2>4. Somewhere(e)
    BY Zenon DEF Inv, PlaceInv
  <2> QED
    BY Zenon, <2>2, <2>3, <2>4, DaemonsAssumption DEF Somewhere, At, InChannel
<1> QED
  BY <1>1, InvHolds, PTL
=============================================================================
