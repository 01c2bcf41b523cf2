------------------------- MODULE AgentSessionsProofs ------------------------
(***************************************************************************)
(* What is proved of AgentSessions, for any schedulers, sessions, topics   *)
(* and capacities: the types, the order of the requests on the way to an   *)
(* agent, and the bindings of the sessions that nobody stops.              *)
(***************************************************************************)
EXTENDS AgentSessions, SequenceTheorems, TLAPS

-----------------------------------------------------------------------------
(***************************************************************************)
(* The inductive invariant: types.                                         *)
(***************************************************************************)
Subs(s) == Range(SubscriptionsOf[s])
Objects == 1 .. MaxTopics
Messages == Publishers \X (1 .. MaxRequests)

PubCalls ==
  {Returned}
    \cup [pc : {"lookup"}, topic : Topics, msg : Messages]
    \cup [pc : {"copy"}, object : Objects, msg : Messages]
    \cup [pc : {"send"}, object : Objects, msg : Messages, to : Seq(Subscribers)]
SubCalls ==
  {Returned} \cup [pc : {"find"}, topic : Topics] \cup [pc : {"bind"}, object : Objects]

BusTypes ==
  /\ busStop \in {"no", "closing", "done"}
  /\ topicsMu \in BOOLEAN /\ panicked \in BOOLEAN
  /\ created \in 0 .. MaxTopics /\ topics \in [Topics -> 0 .. created]
  /\ done \subseteq 1 .. created /\ leaked \subseteq done /\ closed \subseteq Subscribers
  /\ DOMAIN bindings = Objects
  /\ \A g \in Objects : \A n \in DOMAIN bindings[g] :
       bindings[g][n] \in Subscribers /\ ConsumerName[bindings[g][n]] = n

FlowTypes ==
  /\ pub \in [Publishers -> PubCalls]
  /\ left \in [Publishers -> [n : 0 .. MaxRequests, to : Seq(Topics)]]
  /\ chan \in [Subscribers -> Seq(Messages)] /\ held \in [Subscribers -> Seq(Messages)]
  /\ sendq \in [Subscribers -> Seq(Messages)] /\ got \in [Subscribers -> Seq(Messages)]
  /\ subPump \in [Subscribers -> {"off", "select", "push", "ended"}]
  /\ \A s \in Subscribers :
       /\ Len(chan[s]) <= ChanCap[s] /\ Len(sendq[s]) <= SendqCap
       /\ Len(held[s]) = IF subPump[s] = "push" THEN 1 ELSE 0
       /\ start[s] = "new" => subPump[s] = "off"

SessionTypes ==
  /\ sub \in [Subscribers -> SubCalls]
  /\ start \in [Subscribers -> {"new", "subscribing", "started", "failed"}]
  /\ remaining \in [Subscribers -> Seq(Topics)]
  /\ subscribed \in [Subscribers -> Seq(Objects)]
  /\ recvPump \in [Subscribers -> {"off", "receive", "exited", "stop", "ended"}]
  /\ stop \in [Subscribers -> {"none", "wait", "cancel", "done"}]
  /\ conn \subseteq Subscribers /\ stopping \subseteq Subscribers
  /\ \A s \in Subscribers : stop[s] = "none" <=> s \notin stopping

-----------------------------------------------------------------------------
(***************************************************************************)
(* Objects and topics.  home[g] is the topic that object g was made for;   *)
(* who is bound to g, or is about to be, has subscribed to that topic.     *)
(***************************************************************************)

\* How many of the publications of its request a scheduler has begun.
Position(p) == Len(CheckTopics) - Len(left[p].to)

\* What a scheduler has still to publish, and what it is publishing.
ScheduleInv ==
  \A p \in Publishers :
    /\ Len(left[p].to) <= Len(CheckTopics)
    /\ left[p].to # << >> => left[p].n >= 1
    /\ \A i \in 1 .. Len(left[p].to) : left[p].to[i] = CheckTopics[Position(p) + i]
    /\ pub[p].pc # "idle" => pub[p].msg = <<p, left[p].n>> /\ Position(p) >= 1
    /\ pub[p].pc = "lookup" => pub[p].topic = CheckTopics[Position(p)]
    /\ pub[p].pc = "send" => pub[p].to # << >> /\ IsInjective(pub[p].to)

HomeInv(home) ==
  /\ \A t \in Topics : topics[t] # 0 => home[topics[t]] = t
  /\ \A g \in Objects : \A n \in DOMAIN bindings[g] :
       g <= created /\ home[g] \in Subs(bindings[g][n])
  /\ \A s \in Subscribers :
       /\ sub[s].pc = "find" => sub[s].topic \in Subs(s)
       /\ sub[s].pc = "bind" =>
            sub[s].object <= created /\ home[sub[s].object] \in Subs(s)
       /\ \A g \in Range(subscribed[s]) : g <= created /\ home[g] \in Subs(s)
  /\ \A p \in Publishers :
       /\ pub[p].pc \in {"copy", "send"} =>
            pub[p].object <= created /\ home[pub[p].object] = CheckTopics[Position(p)]
       /\ pub[p].pc = "send" =>
            \A s \in Range(pub[p].to) : home[pub[p].object] \in Subs(s)

BusInv ==
  /\ \E home \in [1 .. created -> Topics] : HomeInv(home)
  /\ \A s \in Subscribers : Range(remaining[s]) \subseteq Subs(s)

-----------------------------------------------------------------------------
(***************************************************************************)
(* The requests on their way.  Each is labelled with the publication it    *)
(* stems from; the labels ascend.                                          *)
(***************************************************************************)

\* The publication that scheduler p is in can still reach session s.
Due(p, s) ==
  \/ pub[p].pc \in {"lookup", "copy"}
  \/ pub[p].pc = "send" /\ s \in Range(pub[p].to)

\* Publication k of the request m is over, as far as session s goes.
Passed(s, m, k) ==
  LET p == m[1]
  IN \/ m[2] < left[p].n
     \/ m[2] = left[p].n /\ k < Position(p)
     \/ m[2] = left[p].n /\ k = Position(p) /\ ~Due(p, s)

Labels(s, path, lab) ==
  /\ \A i \in DOMAIN path : lab[i] \in Meant(s) /\ Passed(s, path[i], lab[i])
  /\ \A i, j \in DOMAIN path :
       i < j /\ path[i][1] = path[j][1] =>
         \/ path[i][2] < path[j][2]
         \/ path[i][2] = path[j][2] /\ lab[i] < lab[j]

PathInv ==
  \A s \in Subscribers :
    \E lab \in [DOMAIN Path(s) -> DOMAIN CheckTopics] : Labels(s, Path(s), lab)

FlowInv == BusTypes /\ FlowTypes /\ SessionTypes /\ ScheduleInv /\ BusInv /\ PathInv

-----------------------------------------------------------------------------
(***************************************************************************)
(* Sessions that are up.                                                   *)
(***************************************************************************)

\* A steady session is not stopped before the bus is.
SteadyInv ==
  \A z \in Steady :
    /\ recvPump[z] = "off" \/ z \in conn
    /\ running => z \notin stopping /\ recvPump[z] \in {"off", "receive"}

StartInv ==
  \A s \in Subscribers :
    /\ start[s] = "new" => remaining[s] = SubscriptionsOf[s] /\ recvPump[s] = "off"
    /\ sub[s].pc # "idle" => start[s] = "subscribing"
    /\ start[s] = "started" => remaining[s] = << >>
    /\ start[s] = "failed" => s \in stopping
    /\ s \in stopping => start[s] # "new"
    /\ start[s] # "new" /\ s \notin Steady => \A z \in Steady : start[z] = "started"

\* Subscribe holds topicsMu from finding an object to binding it.
MutexInv ==
  \A s \in Subscribers : sub[s].pc = "bind" =>
    /\ topicsMu
    /\ \E t \in Topics : topics[t] = sub[s].object
    /\ \A q \in Subscribers : sub[q].pc = "bind" => q = s

\* Session s receives what is published to topic t.
Bound(s, t) ==
  /\ topics[t] # 0 /\ topics[t] \notin done
  /\ ConsumerName[s] \in DOMAIN bindings[topics[t]]
  /\ bindings[topics[t]][ConsumerName[s]] = s

BoundInv ==
  running => \A s \in Subscribers \ stopping :
    /\ sub[s].pc = "bind" => sub[s].object \notin done
    /\ \A t \in Subs(s) :
         \/ t \in Range(remaining[s])
         \/ sub[s].pc = "find" /\ sub[s].topic = t
         \/ sub[s].pc = "bind" /\ sub[s].object = topics[t]
         \/ Bound(s, t)

-----------------------------------------------------------------------------
(***************************************************************************)
(* Each part of the invariant depends on some of the variables only.       *)
(***************************************************************************)
LEMMA KeepBusTypes ==
  ASSUME BusTypes, UNCHANGED <<busStop, topics, created, bindings, done, leaked, topicsMu,
                               closed, panicked>>
  PROVE  BusTypes'
BY Zenon DEF BusTypes

\* or the paths,
LEMMA KeepFlowTypes ==
  ASSUME FlowTypes, UNCHANGED <<pub, left, chan, held, sendq, got, subPump, start>>
  PROVE  FlowTypes'
BY Zenon DEF FlowTypes

\* or the life of the sessions,
LEMMA KeepSessionTypes ==
  ASSUME SessionTypes, UNCHANGED <<sub, start, remaining, subscribed, recvPump, stop,
                                   conn, stopping>>
  PROVE  SessionTypes'
BY Zenon DEF SessionTypes

\* or the schedulers,
LEMMA KeepSchedule ==
  ASSUME ScheduleInv, UNCHANGED <<pub, left>>
  PROVE  ScheduleInv'
BY Zenon DEF ScheduleInv, Position

\* or who is bound,
LEMMA KeepBusInv ==
  ASSUME BusInv, UNCHANGED <<topics, created, bindings, sub, subscribed, remaining, pub, left>>
  PROVE  BusInv'
BY ZenonT(30) DEF BusInv, HomeInv, Position

\* or what is on a path.
LEMMA KeepPath ==
  ASSUME PathInv, UNCHANGED <<got, sendq, held, chan, pub, left>>
  PROVE  PathInv'
<1>1. \A s : Path(s)' = Path(s)
  BY Zenon DEF Path
<1>2. \A s, m, k : Passed(s, m, k)' <=> Passed(s, m, k)
  BY Zenon DEF Passed, Due, Position
<1>3. \A s, path, lab : Labels(s, path, lab) => Labels(s, path, lab)'
  BY Zenon, <1>2 DEF Labels
<1> QED
  BY Zenon, <1>1, <1>3 DEF PathInv

-----------------------------------------------------------------------------
(***************************************************************************)
(* Lemmas about sequences and labels.                                      *)
(***************************************************************************)

\* What the fields of a call of Publish are.
LEMMA PubFields ==
  ASSUME NEW c \in PubCalls
  PROVE  /\ c.pc \in {"idle", "lookup", "copy", "send"}
         /\ c.pc # "idle" => c.msg \in Messages
         /\ c.pc = "lookup" => c.topic \in Topics
         /\ c.pc \in {"copy", "send"} => c.object \in Objects
         /\ c.pc = "send" =>
              /\ c.to \in Seq(Subscribers)
              /\ c = [pc |-> "send", object |-> c.object, msg |-> c.msg, to |-> c.to]
BY DEF PubCalls, Returned

\* What the fields of a call of Subscribe are.
LEMMA SubFields ==
  ASSUME NEW c \in SubCalls
  PROVE  /\ c.pc \in {"idle", "find", "bind"}
         /\ c.pc = "find" => c.topic \in Topics
         /\ c.pc = "bind" => c.object \in Objects
BY DEF SubCalls, Returned

\* A scheduler that has all of its publications before it is at none.
LEMMA SelfDifference == \A n \in Nat : n - n = 0
OBVIOUS

\* A call that has returned binds nothing.
LEMMA ReturnedIsIdle == Returned.pc = "idle" /\ "idle" # "bind"
BY DEF Returned

\* What is in a sequence.
LEMMA MembersOfSeq ==
  ASSUME NEW S, NEW q \in Seq(S)
  PROVE  \A x \in Range(q) : x \in S
<1>1. DOMAIN q = 1 .. Len(q) /\ \A i \in 1 .. Len(q) : q[i] \in S
  BY Zenon, LenProperties, ElementOfSeq
<1> QED
  BY Zenon, <1>1 DEF Range

\* What a message is made of.
LEMMA MessageFields == \A m \in Messages : m[1] \in Publishers /\ m[2] \in Nat
BY DEF Messages

\* The fields of a call that has its topic to find, and of one that is about
\* to bind.
LEMMA FindFields ==
  \A t : [pc |-> "find", topic |-> t].pc = "find" /\ [pc |-> "find", topic |-> t].topic = t
OBVIOUS

LEMMA BindFields ==
  \A g : [pc |-> "bind", object |-> g].pc = "bind" /\ [pc |-> "bind", object |-> g].object = g
OBVIOUS

\* What taking the head of a sequence leaves.
LEMMA TailFacts ==
  ASSUME NEW S, NEW q \in Seq(S), q # << >>
  PROVE  /\ Head(q) \in S /\ Tail(q) \in Seq(S)
         /\ Len(q) \in Nat \ {0} /\ Len(Tail(q)) = Len(q) - 1
         /\ DOMAIN q = 1 .. Len(q) /\ DOMAIN Tail(q) = 1 .. (Len(q) - 1)
         /\ Head(q) = q[1] /\ Head(q) \in Range(q)
         /\ \A i \in 1 .. (Len(q) - 1) : Tail(q)[i] = q[i + 1]
         /\ Range(Tail(q)) \subseteq Range(q)
         /\ \A x \in Range(q) : x = Head(q) \/ x \in Range(Tail(q))
<1>1. /\ Head(q) \in S /\ Tail(q) \in Seq(S) /\ Len(Tail(q)) = Len(q) - 1
      /\ \A i \in 1 .. Len(Tail(q)) : Tail(q)[i] = q[i + 1]
  BY Zenon, HeadTailProperties
<1>2. /\ DOMAIN q = 1 .. Len(q) /\ Len(q) \in Nat \ {0}
      /\ DOMAIN Tail(q) = 1 .. (Len(q) - 1) /\ Head(q) = q[1]
  BY <1>1, LenProperties, EmptySeq
<1>3. Head(q) \in Range(q)
  BY <1>2 DEF Range
<1>4. Range(Tail(q)) \subseteq Range(q)
  BY <1>1, <1>2 DEF Range
<1>5. ASSUME NEW x \in Range(q), x # Head(q) PROVE x \in Range(Tail(q))
  <2>1. PICK i \in 1 .. Len(q) : q[i] = x
    BY Zenon, <1>2 DEF Range
  <2>2. i - 1 \in 1 .. (Len(q) - 1) /\ Tail(q)[i - 1] = x
    BY <2>1, <1>1, <1>2, <1>5
  <2> QED
    BY Zenon, <2>2, <1>2 DEF Range
<1> QED
  BY Zenon, <1>1, <1>2, <1>3, <1>4, <1>5

\* The invariant holds at the start.
LEMMA FlowInit ==
  ASSUME Init
  PROVE  FlowInv
<1> USE DEF Init, BusInit
<1>1. BusTypes
  <2>1. \A g \in Objects : DOMAIN bindings[g] = {}
    BY DEF Objects
  <2>2. created \in 0 .. MaxTopics /\ topics \in [Topics -> 0 .. created]
    BY SMTT(30), MaxTopicsAssumption
  <2> QED
    BY Zenon, <2>1, <2>2 DEF BusTypes, Objects
<1>2. \A S : << >> \in Seq(S) /\ Len(<< >>) = 0
  BY Zenon, EmptySeq
<1>3. FlowTypes
  BY SMTT(30), <1>2, CapacitiesAssumption DEF FlowTypes, PubCalls
<1>4. SessionTypes
  BY Zenon, <1>2, SubscriptionsAssumption DEF SessionTypes, SubCalls
<1>5. ScheduleInv
  BY SMTT(30), <1>2, SubscriptionsAssumption, LenProperties DEF ScheduleInv, Position, Returned
<1>6. BusInv
  <2>1. PICK home : home = [o \in 1 .. created |-> CHOOSE t \in Topics : TRUE]
    BY Zenon
  <2>2. home \in [1 .. created -> Topics]
    <3>1. 1 .. created = {}
      OBVIOUS
    <3> QED
      BY Zenon, <2>1, <3>1
  <2>3. \A g \in Objects : DOMAIN bindings[g] = {}
    BY DEF Objects
  <2>4. \A z \in Subscribers : Range(subscribed[z]) = {}
    BY DEF Range
  <2>5. HomeInv(home)
    BY Zenon, <2>3, <2>4 DEF HomeInv, Returned
  <2> QED
    BY Zenon, <2>2, <2>5 DEF BusInv, Subs
<1>7. PathInv
  <2> SUFFICES ASSUME NEW s \in Subscribers
               PROVE  \E lab \in [DOMAIN Path(s) -> DOMAIN CheckTopics] : Labels(s, Path(s), lab)
    BY Zenon DEF PathInv
  <2>1. << >> \o << >> = << >>
    BY ZenonT(30), <1>2, ConcatEmptySeq
  <2>2. Path(s) = << >>
    BY Zenon, <2>1 DEF Path
  <2>3. DOMAIN Path(s) = {}
    BY <2>2
  <2>4. PICK lab : lab = [i \in DOMAIN Path(s) |-> i]
    BY Zenon
  <2>5. lab \in [DOMAIN Path(s) -> DOMAIN CheckTopics]
    BY Zenon, <2>3, <2>4
  <2> QED
    BY Zenon, <2>3, <2>5 DEF Labels
<1> QED
  BY Zenon, <1>1, <1>3, <1>4, <1>5, <1>6, <1>7 DEF FlowInv

\* The ways from the bus to the agents are sequences of messages.
LEMMA PathType ==
  ASSUME FlowTypes, NEW s \in Subscribers
  PROVE  /\ Path(s) \in Seq(Messages) /\ DOMAIN Path(s) = 1 .. Len(Path(s))
         /\ Len(Path(s)) \in Nat
<1>1. Path(s) \in Seq(Messages)
  <2>1. /\ got[s] \in Seq(Messages) /\ sendq[s] \in Seq(Messages)
        /\ held[s] \in Seq(Messages) /\ chan[s] \in Seq(Messages)
    BY Zenon DEF FlowTypes
  <2> QED
    BY Zenon, <2>1, ConcatProperties DEF Path
<1> QED
  BY Zenon, <1>1, LenProperties

\* A publication that is over for a session stays over.
LEMMA PassedStays ==
  ASSUME NEW s, left' = left, NEW m, NEW k, Passed(s, m, k),
         Due(m[1], s)' => Due(m[1], s)
  PROVE  Passed(s, m, k)'
BY Zenon DEF Passed, Position

\* Sessions whose path does not change keep their labels.
LEMMA LabelsStay ==
  ASSUME PathInv, FlowTypes, NEW s \in Subscribers, Path(s)' = Path(s),
         \A m \in Messages, k \in DOMAIN CheckTopics : Passed(s, m, k) => Passed(s, m, k)'
  PROVE  \E lab \in [DOMAIN Path(s)' -> DOMAIN CheckTopics] : Labels(s, Path(s), lab)'
<1>1. PICK lab \in [DOMAIN Path(s) -> DOMAIN CheckTopics] : Labels(s, Path(s), lab)
  BY Zenon DEF PathInv
<1>2. PICK path : path = Path(s)
  BY Zenon
<1>3. \A i \in DOMAIN path : path[i] \in Messages
  BY Zenon, <1>2, PathType, ElementOfSeq
<1>4. Labels(s, path, lab)'
  BY <1>1, <1>2, <1>3 DEF Labels
<1> QED
  BY Zenon, <1>1, <1>2, <1>4

\* When no path changes, what has passed has to stay so.
LEMMA PathsStay ==
  ASSUME PathInv, FlowTypes, \A s \in Subscribers : Path(s)' = Path(s),
         \A s \in Subscribers : \A m \in Messages : \A k \in DOMAIN CheckTopics :
           Passed(s, m, k) => Passed(s, m, k)'
  PROVE  PathInv'
<1> SUFFICES ASSUME NEW s \in Subscribers
             PROVE  \E lab \in [DOMAIN Path(s)' -> DOMAIN CheckTopics] :
                      Labels(s, Path(s), lab)'
  BY Zenon DEF PathInv
<1> QED
  BY Zenon, LabelsStay

\* A request that arrives is labelled with the publication it stems from,
\* when no later one has arrived before.
LEMMA AppendLabels ==
  ASSUME NEW s, NEW path \in Seq(Messages), NEW lab \in [DOMAIN path -> DOMAIN CheckTopics],
         NEW m \in Messages, NEW k \in Meant(s), Labels(s, path, lab),
         \A i \in DOMAIN path : Passed(s, path[i], lab[i])',
         Passed(s, m, k)',
         \A i \in DOMAIN path : path[i][1] = m[1] =>
           path[i][2] < m[2] \/ (path[i][2] = m[2] /\ lab[i] < k)
  PROVE  \E l \in [DOMAIN Append(path, m) -> DOMAIN CheckTopics] :
           Labels(s, Append(path, m), l)'
<1> DEFINE q == Append(path, m)
           l == [i \in DOMAIN q |-> IF i \in DOMAIN path THEN lab[i] ELSE k]
<1>1. /\ Len(path) \in Nat /\ DOMAIN path = 1 .. Len(path)
      /\ DOMAIN q = 1 .. (Len(path) + 1)
      /\ \A i \in 1 .. Len(path) : q[i] = path[i]
      /\ q[Len(path) + 1] = m
  BY AppendProperties, LenProperties
<1>2. k \in DOMAIN CheckTopics
  BY Zenon DEF Meant
<1>3. l \in [DOMAIN q -> DOMAIN CheckTopics]
  BY Zenon, <1>2
<1>4. /\ \A i \in 1 .. Len(path) : l[i] = lab[i]
      /\ l[Len(path) + 1] = k
  BY <1>1
<1> HIDE DEF q, l
<1>5. \A i \in DOMAIN q : l[i] \in Meant(s) /\ Passed(s, q[i], l[i])'
  <2> TAKE i \in DOMAIN q
  <2>1. CASE i \in DOMAIN path
    BY Zenon, <2>1, <1>1, <1>4 DEF Labels
  <2>2. CASE i = Len(path) + 1
    BY Zenon, <2>2, <1>1, <1>4
  <2> QED
    BY <2>1, <2>2, <1>1
<1>6. \A i, j \in DOMAIN q :
        i < j /\ q[i][1] = q[j][1] =>
          q[i][2] < q[j][2] \/ (q[i][2] = q[j][2] /\ l[i] < l[j])
  <2> TAKE i, j \in DOMAIN q
  <2> HAVE i < j /\ q[i][1] = q[j][1]
  <2>1. i \in DOMAIN path /\ q[i] = path[i] /\ l[i] = lab[i]
    BY <1>1, <1>4
  <2>2. CASE j \in DOMAIN path
    <3>1. q[j] = path[j] /\ l[j] = lab[j]
      BY Zenon, <2>2, <1>1, <1>4
    <3> QED
      BY <2>1, <2>2, <3>1 DEF Labels
  <2>3. CASE j = Len(path) + 1
    <3>1. q[j] = m /\ l[j] = k
      BY Zenon, <2>3, <1>1, <1>4
    <3> QED
      BY Zenon, <2>1, <3>1
  <2> QED
    BY <2>2, <2>3, <1>1
<1>7. Labels(s, q, l)'
  BY Zenon, <1>5, <1>6 DEF Labels, Meant
<1> QED
  BY Zenon, <1>3, <1>7 DEF q

\* A request that is lost leaves the labels of the others.
LEMMA RemoveLabels ==
  ASSUME NEW s, NEW path \in Seq(Messages), NEW lab \in [DOMAIN path -> DOMAIN CheckTopics],
         NEW q \in Seq(Messages), NEW at \in Nat, Len(path) = Len(q) + 1,
         \A i \in 1 .. Len(q) : q[i] = IF i <= at THEN path[i] ELSE path[i + 1],
         Labels(s, path, lab)
  PROVE  \E l \in [DOMAIN q -> DOMAIN CheckTopics] : Labels(s, q, l)
<1> DEFINE old(i) == IF i <= at THEN i ELSE i + 1
           l == [i \in DOMAIN q |-> lab[old(i)]]
<1>1. Len(q) \in Nat /\ DOMAIN q = 1 .. Len(q) /\ DOMAIN path = 1 .. (Len(q) + 1)
  BY Zenon, LenProperties
<1>2. \A i \in DOMAIN q : old(i) \in DOMAIN path /\ q[i] = path[old(i)]
  BY <1>1
<1>3. \A i, j \in DOMAIN q : i < j => old(i) < old(j)
  BY <1>1
<1>4. l \in [DOMAIN q -> DOMAIN CheckTopics] /\ \A i \in DOMAIN q : l[i] = lab[old(i)]
  BY Zenon, <1>2
<1> HIDE DEF old, l
<1>5. \A i \in DOMAIN q : l[i] \in Meant(s) /\ Passed(s, q[i], l[i])
  BY Zenon, <1>2, <1>4 DEF Labels
<1>6. \A i, j \in DOMAIN q :
        i < j /\ q[i][1] = q[j][1] =>
          q[i][2] < q[j][2] \/ (q[i][2] = q[j][2] /\ l[i] < l[j])
  <2> TAKE i, j \in DOMAIN q
  <2> HAVE i < j /\ q[i][1] = q[j][1]
  <2>1. /\ old(i) \in DOMAIN path /\ q[i] = path[old(i)] /\ l[i] = lab[old(i)]
        /\ old(j) \in DOMAIN path /\ q[j] = path[old(j)] /\ l[j] = lab[old(j)]
        /\ old(i) < old(j)
    BY Zenon, <1>2, <1>3, <1>4
  <2> QED
    BY <2>1 DEF Labels
<1>7. Labels(s, q, l)
  BY Zenon, <1>5, <1>6 DEF Labels
<1> QED
  BY Zenon, <1>4, <1>7

\* Taking the head of a sequence and putting it in front again.
LEMMA HeadAndTail ==
  ASSUME NEW S, NEW q \in Seq(S), q # << >>
  PROVE  q = <<Head(q)>> \o Tail(q) /\ <<Head(q)>> \in Seq(S)
<1>1. /\ Head(q) \in S /\ Tail(q) \in Seq(S) /\ Len(Tail(q)) = Len(q) - 1
      /\ Len(q) \in Nat \ {0} /\ Head(q) = q[1]
      /\ \A i \in 1 .. (Len(q) - 1) : Tail(q)[i] = q[i + 1]
  BY Zenon, TailFacts
<1>2. PICK h : h = <<Head(q)>>
  BY Zenon
<1>3. h \in Seq(S) /\ Len(h) = 1 /\ h[1] = q[1]
  BY <1>1, <1>2
<1>4. PICK t \in Seq(S) : t = Tail(q)
  BY Zenon, <1>1
<1>5. PICK u : u = h \o t
  BY Zenon
<1>6. /\ u \in Seq(S) /\ Len(u) = Len(h) + Len(t)
      /\ \A i \in 1 .. Len(h) + Len(t) : u[i] = IF i <= Len(h) THEN h[i] ELSE t[i - Len(h)]
  BY <1>3, <1>5, ConcatProperties, Zenon
<1>7. Len(u) = Len(q) /\ \A i \in 1 .. Len(u) : u[i] = q[i]
  <2>1. PICK k \in Nat \ {0} : k = Len(q)
    BY Zenon, <1>1
  <2>2. Len(t) = k - 1 /\ \A i \in 1 .. (k - 1) : t[i] = q[i + 1]
    BY Zenon, <1>1, <1>4, <2>1
  <2>3. 1 + (k - 1) = k /\ 1 <= 1
    OBVIOUS
  <2>4. Len(u) = k /\ \A i \in 1 .. k : u[i] = IF i <= 1 THEN h[i] ELSE t[i - 1]
    BY Zenon, <1>3, <1>6, <2>2, <2>3
  <2>5. \A i \in 1 .. k : i # 1 => ~(i <= 1) /\ i - 1 \in 1 .. (k - 1) /\ (i - 1) + 1 = i
    OBVIOUS
  <2>6. \A i \in 1 .. k : u[i] = q[i]
    <3> TAKE i \in 1 .. k
    <3>1. CASE i = 1
      BY Zenon, <3>1, <1>3, <2>3, <2>4
    <3>2. CASE i # 1
      BY Zenon, <3>2, <2>2, <2>4, <2>5
    <3> QED
      BY Zenon, <3>1, <3>2
  <2> QED
    BY Zenon, <2>1, <2>4, <2>6
<1>8. u = q
  BY <1>6, <1>7, SeqEqual, Zenon
<1> QED
  BY Zenon, <1>2, <1>3, <1>4, <1>5, <1>8

\* What concatenating sequences of messages gives.
LEMMA Concat ==
  \A x, y \in Seq(Messages) :
    /\ x \o y \in Seq(Messages) /\ Len(x \o y) = Len(x) + Len(y)
    /\ \A i \in 1 .. Len(x) + Len(y) :
         (x \o y)[i] = IF i <= Len(x) THEN x[i] ELSE y[i - Len(x)]
BY Zenon, ConcatProperties

\* Concatenation is associative.
LEMMA Assoc ==
  \A x, y, z \in Seq(Messages) : (x \o y) \o z = x \o (y \o z)
BY ConcatAssociative

\* The channel takes a request.
LEMMA PathAppend ==
  ASSUME NEW x \in Seq(Messages), NEW d \in Seq(Messages), NEW e \in Messages
  PROVE  x \o Append(d, e) = Append(x \o d, e)
<1>1. PICK y : y = <<e>>
  BY Zenon
<1>2. y \in Seq(Messages)
  BY <1>1
<1>3. (x \o d) \o y = x \o (d \o y)
  BY <1>2, Assoc, Zenon
<1>4. x \o d \in Seq(Messages)
  BY Concat, Zenon
<1>5. Append(d, e) = d \o y /\ Append(x \o d, e) = (x \o d) \o y
  BY <1>1, <1>4, AppendIsConcat, Zenon
<1> QED
  BY Zenon, <1>3, <1>5

\* subPump takes a request from the channel.
LEMMA PathTake ==
  ASSUME NEW x \in Seq(Messages), NEW d \in Seq(Messages), d # << >>
  PROVE  (x \o << >>) \o d = (x \o <<Head(d)>>) \o Tail(d)
<1>1. PICK h \in Seq(Messages), t \in Seq(Messages) :
        h = <<Head(d)>> /\ t = Tail(d) /\ d = h \o t
  BY Zenon, HeadAndTail, TailFacts
<1>2. x \o << >> = x
  BY Zenon, ConcatEmptySeq
<1>3. (x \o h) \o t = x \o (h \o t)
  BY Assoc, ZenonT(30)
<1> QED
  BY Zenon, <1>1, <1>2, <1>3

\* subPump puts the request it holds into sendq.
LEMMA PathPush ==
  ASSUME NEW a \in Seq(Messages), NEW b \in Seq(Messages), NEW c \in Seq(Messages)
  PROVE  (a \o (b \o c)) \o << >> = (a \o b) \o c
<1>1. (a \o b) \o c = a \o (b \o c)
  BY Assoc, Zenon
<1>2. PICK x \in Seq(Messages) : x = (a \o b) \o c
  BY Concat, Zenon
<1>3. x \o << >> = x
  BY Zenon, ConcatEmptySeq
<1> QED
  BY Zenon, <1>1, <1>2, <1>3

\* sendPump gives a request to the connection.
LEMMA PathSend ==
  ASSUME NEW a \in Seq(Messages), NEW b \in Seq(Messages), b # << >>
  PROVE  Append(a, Head(b)) \o Tail(b) = a \o b
<1>1. PICK h \in Seq(Messages), t \in Seq(Messages) :
        h = <<Head(b)>> /\ t = Tail(b) /\ b = h \o t
  BY Zenon, HeadAndTail, TailFacts
<1>2. Append(a, Head(b)) = a \o h
  BY <1>1, TailFacts, AppendIsConcat
<1>3. (a \o h) \o t = a \o (h \o t)
  BY Assoc, Zenon
<1> QED
  BY Zenon, <1>1, <1>2, <1>3

\* sendPump loses the request in its hands with the connection.
LEMMA PathLose ==
  ASSUME NEW a \in Seq(Messages), NEW b \in Seq(Messages), NEW r \in Seq(Messages), b # << >>
  PROVE  LET path == (a \o b) \o r
             q == (a \o Tail(b)) \o r
         IN /\ q \in Seq(Messages) /\ Len(a) \in Nat /\ Len(path) = Len(q) + 1
            /\ \A i \in 1 .. Len(q) : q[i] = IF i <= Len(a) THEN path[i] ELSE path[i + 1]
<1>1. PICK t \in Seq(Messages) : t = Tail(b)
  BY Zenon, TailFacts
<1>2. Len(b) = Len(t) + 1 /\ \A i \in 1 .. Len(t) : t[i] = b[i + 1]
  BY <1>1, TailFacts
<1>3. Len(a) \in Nat /\ Len(b) \in Nat /\ Len(t) \in Nat /\ Len(r) \in Nat
  BY Zenon, LenProperties
<1>4. PICK ab \in Seq(Messages) : ab = a \o b
  BY Concat, Zenon
<1>5. PICK at \in Seq(Messages) : at = a \o t
  BY Concat, Zenon
<1>6. PICK path, q : path = ab \o r /\ q = at \o r
  BY Zenon
<1>7. /\ Len(ab) = Len(a) + Len(b)
      /\ \A i \in 1 .. Len(a) + Len(b) : ab[i] = IF i <= Len(a) THEN a[i] ELSE b[i - Len(a)]
  BY <1>4, Concat, Zenon
<1>8. /\ Len(at) = Len(a) + Len(t)
      /\ \A i \in 1 .. Len(a) + Len(t) : at[i] = IF i <= Len(a) THEN a[i] ELSE t[i - Len(a)]
  BY <1>5, Concat, Zenon
<1>9. /\ Len(path) = Len(ab) + Len(r)
      /\ \A i \in 1 .. Len(ab) + Len(r) :
           path[i] = IF i <= Len(ab) THEN ab[i] ELSE r[i - Len(ab)]
  BY <1>6, Concat, Zenon
<1>10. /\ q \in Seq(Messages) /\ Len(q) = Len(at) + Len(r)
       /\ \A i \in 1 .. Len(at) + Len(r) :
            q[i] = IF i <= Len(at) THEN at[i] ELSE r[i - Len(at)]
  BY <1>6, Concat, Zenon
<1>11. ASSUME NEW i \in 1 .. Len(q)
       PROVE  q[i] = IF i <= Len(a) THEN path[i] ELSE path[i + 1]
  <2>1. /\ i \in 1 .. Len(at) + Len(r) /\ i \in Nat /\ i >= 1
        /\ i \in 1 .. Len(ab) + Len(r) /\ i + 1 \in 1 .. Len(ab) + Len(r)
        /\ Len(ab) = Len(at) + 1 /\ Len(at) \in Nat /\ Len(ab) \in Nat
    BY <1>2, <1>3, <1>7, <1>8, <1>10
  <2>2. CASE i <= Len(a)
    <3>1. i <= Len(at) /\ i <= Len(ab) /\ i \in 1 .. Len(a) + Len(t) /\ i \in 1 .. Len(a) + Len(b)
      BY <2>1, <2>2, <1>3, <1>7, <1>8
    <3>2. q[i] = at[i] /\ path[i] = ab[i] /\ at[i] = a[i] /\ ab[i] = a[i]
      BY Zenon, <2>1, <2>2, <3>1, <1>7, <1>8, <1>9, <1>10
    <3> QED
      BY Zenon, <2>2, <3>2
  <2>3. CASE ~(i <= Len(a)) /\ i <= Len(at)
    <3>1. /\ i - Len(a) \in 1 .. Len(t) /\ (i - Len(a)) + 1 = (i + 1) - Len(a)
          /\ i \in 1 .. Len(a) + Len(t) /\ i + 1 \in 1 .. Len(a) + Len(b)
          /\ i + 1 <= Len(ab) /\ ~(i + 1 <= Len(a))
      BY SMTT(30), <2>1, <2>3, <1>3, <1>7, <1>8
    <3>2. q[i] = at[i] /\ at[i] = t[i - Len(a)] /\ t[i - Len(a)] = b[(i - Len(a)) + 1]
      BY Zenon, <2>1, <2>3, <3>1, <1>2, <1>8, <1>10
    <3>3. path[i + 1] = ab[i + 1] /\ ab[i + 1] = b[(i + 1) - Len(a)]
      BY Zenon, <2>1, <3>1, <1>7, <1>9
    <3> QED
      BY Zenon, <2>3, <3>1, <3>2, <3>3
  <2>4. CASE ~(i <= Len(a)) /\ ~(i <= Len(at))
    <3>1. ~(i + 1 <= Len(ab)) /\ (i + 1) - Len(ab) = i - Len(at)
      BY <2>1, <2>4
    <3>2. q[i] = r[i - Len(at)] /\ path[i + 1] = r[(i + 1) - Len(ab)]
      BY Zenon, <2>1, <2>4, <3>1, <1>9, <1>10
    <3> QED
      BY Zenon, <2>4, <3>1, <3>2
  <2> QED
    BY Zenon, <2>2, <2>3, <2>4
<1>12. Len(path) = Len(q) + 1
  BY <1>2, <1>3, <1>7, <1>8, <1>9, <1>10
<1> QED
  BY Zenon, <1>1, <1>3, <1>4, <1>5, <1>6, <1>10, <1>11, <1>12

-----------------------------------------------------------------------------
(***************************************************************************)
(* The steps of a scheduler.                                               *)
(***************************************************************************)

\* What a step that moves the call of Publish that scheduler p is in keeps.
LEMMA CallMoves ==
  ASSUME FlowInv, NEW p \in Publishers, NEW c \in PubCalls,
         pub' = [pub EXCEPT ![p] = c],
         UNCHANGED <<topics, created, bindings, sub, left, remaining, subscribed>>,
         c.pc # "idle" => c.msg = pub[p].msg /\ pub[p].pc # "idle",
         c.pc # "lookup",
         c.pc = "send" => c.to # << >> /\ IsInjective(c.to),
         \A home : HomeInv(home) =>
           /\ c.pc \in {"copy", "send"} =>
                c.object <= created /\ home[c.object] = CheckTopics[Position(p)]
           /\ c.pc = "send" => \A s \in Range(c.to) : home[c.object] \in Subs(s),
         \A s : c.pc = "copy" \/ (c.pc = "send" /\ s \in Range(c.to)) => Due(p, s)
  PROVE  /\ ScheduleInv' /\ BusInv'
         /\ pub' \in [Publishers -> PubCalls] /\ pub'[p] = c
         /\ \A s : \A m \in Messages : \A k : Passed(s, m, k) => Passed(s, m, k)'
<1>1. /\ pub'[p] = c /\ \A q \in Publishers : q # p => pub'[q] = pub[q]
      /\ pub' \in [Publishers -> PubCalls]
  BY Zenon DEF FlowInv, FlowTypes
<1>2. \A q : Position(q)' = Position(q)
  BY Zenon DEF Position
<1>3. ScheduleInv'
  BY Zenon, <1>1, <1>2 DEF FlowInv, ScheduleInv
<1>4. BusInv'
  <2>1. PICK home \in [1 .. created -> Topics] : HomeInv(home)
    BY Zenon DEF FlowInv, BusInv
  <2>2. HomeInv(home)'
    BY ZenonT(30), <1>1, <1>2, <2>1 DEF HomeInv
  <2> QED
    BY Zenon, <2>1, <2>2 DEF FlowInv, BusInv
<1>5. \A q \in Publishers : \A s : Due(q, s)' => Due(q, s)
  BY Zenon, <1>1, PubFields DEF Due
<1>6. \A m \in Messages : m[1] \in Publishers
  BY Zenon DEF Messages
<1>7. \A s : \A m \in Messages : \A k : Passed(s, m, k) => Passed(s, m, k)'
  BY Zenon, <1>5, <1>6, PassedStays
<1> QED
  BY Zenon, <1>1, <1>3, <1>4, <1>7

\* A step that only moves the call of Publish keeps the invariant.
LEMMA PubMoves ==
  ASSUME FlowInv, NEW p \in Publishers, NEW c \in PubCalls,
         pub' = [pub EXCEPT ![p] = c],
         UNCHANGED <<busStop, topics, created, bindings, done, leaked, topicsMu,
                     sub, chan, closed, panicked, sessionVars>>,
         c.pc # "idle" => c.msg = pub[p].msg /\ pub[p].pc # "idle",
         c.pc # "lookup",
         c.pc = "send" => c.to # << >> /\ IsInjective(c.to),
         \A home : HomeInv(home) =>
           /\ c.pc \in {"copy", "send"} =>
                c.object <= created /\ home[c.object] = CheckTopics[Position(p)]
           /\ c.pc = "send" => \A s \in Range(c.to) : home[c.object] \in Subs(s),
         \A s : c.pc = "copy" \/ (c.pc = "send" /\ s \in Range(c.to)) => Due(p, s)
  PROVE  FlowInv'
<1> USE DEF sessionVars
<1>1. BusTypes' /\ SessionTypes'
  BY Zenon, KeepBusTypes, KeepSessionTypes DEF FlowInv
<1>2. /\ ScheduleInv' /\ BusInv' /\ pub' \in [Publishers -> PubCalls]
      /\ \A s : \A m \in Messages : \A k : Passed(s, m, k) => Passed(s, m, k)'
  BY Zenon, CallMoves
<1>3. FlowTypes'
  BY Zenon, <1>2 DEF FlowInv, FlowTypes
<1>4. PathInv'
  <2>1. \A s : Path(s)' = Path(s)
    BY Zenon DEF Path
  <2> QED
    BY Zenon, <1>2, <2>1, PathsStay DEF FlowInv
<1> QED
  BY Zenon, <1>1, <1>2, <1>3, <1>4 DEF FlowInv

\* Publish finds the object of its topic, or none.
LEMMA LookUpFlow ==
  ASSUME FlowInv, NEW p \in Publishers, LookUp(p), UNCHANGED sessionVars
  PROVE  FlowInv'
<1>1. /\ pub[p] \in PubCalls /\ pub[p].pc = "lookup"
      /\ pub[p].topic \in Topics /\ pub[p].msg \in Messages
  BY Zenon, PubFields DEF LookUp, FlowInv, FlowTypes
<1>2. PICK g, c : /\ g = topics[pub[p].topic]
                  /\ c = IF g = 0 THEN Returned
                         ELSE [pc |-> "copy", object |-> g, msg |-> pub[p].msg]
  BY Zenon
<1>3. /\ pub' = [pub EXCEPT ![p] = c]
      /\ UNCHANGED <<busStop, topics, created, bindings, done, leaked, topicsMu,
                     sub, chan, closed, panicked, sessionVars>>
  BY Zenon, <1>2 DEF LookUp
<1>4. g # 0 => g \in Objects /\ g <= created
  BY <1>1, <1>2, MaxTopicsAssumption DEF FlowInv, BusTypes, Objects
<1>5. c \in PubCalls
  BY Zenon, <1>1, <1>2, <1>4 DEF PubCalls
<1>6. /\ c.pc \in {"idle", "copy"}
      /\ c.pc = "copy" => g # 0 /\ c.object = g /\ c.msg = pub[p].msg
  BY Zenon, <1>2 DEF Returned
<1>7. \A home : HomeInv(home) =>
        (c.pc = "copy" => c.object <= created /\ home[c.object] = CheckTopics[Position(p)])
  BY Zenon, <1>1, <1>2, <1>4, <1>6 DEF HomeInv, FlowInv, ScheduleInv
<1>8. \A s : Due(p, s)
  BY Zenon, <1>1 DEF Due
<1> QED
  BY Zenon, <1>1, <1>3, <1>5, <1>6, <1>7, <1>8, PubMoves

\* Send returns when the topic is done.
LEMMA AbandonFlow ==
  ASSUME FlowInv, NEW p \in Publishers, Abandon(p), UNCHANGED sessionVars
  PROVE  FlowInv'
<1>1. Returned \in PubCalls /\ Returned.pc = "idle"
  BY Zenon DEF PubCalls, Returned
<1> QED
  BY Zenon, <1>1, PubMoves DEF Abandon

\* A session is sent to once in a call of Send.
LEMMA SentOnce ==
  ASSUME NEW S, NEW q \in Seq(S), q # << >>, IsInjective(q)
  PROVE  Head(q) \notin Range(Tail(q)) /\ IsInjective(Tail(q))
<1>1. /\ DOMAIN q = 1 .. Len(q) /\ Len(q) \in Nat \ {0} /\ Head(q) = q[1]
      /\ DOMAIN Tail(q) = 1 .. (Len(q) - 1)
      /\ \A i \in 1 .. (Len(q) - 1) : Tail(q)[i] = q[i + 1]
  BY Zenon, TailFacts
<1>2. Head(q) \notin Range(Tail(q))
  BY <1>1 DEF Range, IsInjective
<1>3. \A i, j \in DOMAIN Tail(q) : Tail(q)[i] = Tail(q)[j] => i = j
  <2> TAKE i, j \in DOMAIN Tail(q)
  <2> HAVE Tail(q)[i] = Tail(q)[j]
  <2>1. i + 1 \in DOMAIN q /\ j + 1 \in DOMAIN q /\ q[i + 1] = q[j + 1]
    BY <1>1
  <2> QED
    BY <2>1, <1>1 DEF IsInjective
<1> QED
  BY Zenon, <1>2, <1>3 DEF IsInjective

\* Send puts a publication at the end of the path of its next session.
LEMMA DeliverFlow ==
  ASSUME FlowInv, NEW p \in Publishers, Deliver(p), UNCHANGED sessionVars
  PROVE  FlowInv'
<1> USE DEF sessionVars
<1>1. /\ pub[p] \in PubCalls /\ pub[p].pc = "send" /\ pub[p].object \in Objects
      /\ pub[p].msg \in Messages /\ pub[p].to \in Seq(Subscribers)
      /\ pub[p] = [pc |-> "send", object |-> pub[p].object, msg |-> pub[p].msg,
                   to |-> pub[p].to]
  BY Zenon, PubFields DEF Deliver, FlowInv, FlowTypes
<1>2. pub[p].to # << >> /\ IsInjective(pub[p].to)
  BY Zenon, <1>1 DEF FlowInv, ScheduleInv
<1>3. PICK to, m, r, c :
        to = pub[p].to /\ m = pub[p].msg /\ r = Head(to) /\ c = Advanced(pub[p])
  BY Zenon
<1>4. /\ r \in Subscribers /\ r \in Range(to) /\ Len(to) \in Nat \ {0}
      /\ Tail(to) \in Seq(Subscribers) /\ Len(Tail(to)) = Len(to) - 1
      /\ Range(Tail(to)) \subseteq Range(to)
  BY Zenon, <1>1, <1>2, <1>3, TailFacts
<1>5. r \notin Range(Tail(to)) /\ IsInjective(Tail(to))
  BY Zenon, <1>1, <1>2, <1>3, SentOnce
<1>8. /\ c \in PubCalls /\ c.pc \in {"idle", "send"}
      /\ c.pc = "send" => /\ c.object = pub[p].object /\ c.msg = m
                          /\ c.to = Tail(to) /\ Len(to) # 1
  <2>1. CASE Len(to) = 1
    <3>1. c = Returned
      BY Zenon, <1>3, <2>1 DEF Advanced
    <3> QED
      BY Zenon, <3>1 DEF PubCalls, Returned
  <2>2. CASE Len(to) # 1
    <3>1. pub[p] \in [pc : {"send"}, object : Objects, msg : Messages, to : Seq(Subscribers)]
      BY Zenon, <1>1
    <3>2. c = [pub[p] EXCEPT !.to = Tail(to)]
      BY Zenon, <1>3, <2>2 DEF Advanced
    <3>3. /\ c \in [pc : {"send"}, object : Objects, msg : Messages, to : Seq(Subscribers)]
          /\ c.object = pub[p].object /\ c.msg = pub[p].msg /\ c.to = Tail(to)
      BY Zenon, <1>4, <3>1, <3>2
    <3> QED
      BY Zenon, <1>3, <2>2, <3>3 DEF PubCalls
  <2> QED
    BY Zenon, <2>1, <2>2
<1>9. c.pc = "send" => c.to # << >> /\ IsInjective(c.to)
  <2>1. Len(to) # 1 => Len(Tail(to)) # 0
    BY <1>4
  <2> QED
    BY Zenon, <2>1, <1>5, <1>8, EmptySeq
<1>10. /\ pub' = [pub EXCEPT ![p] = c]
       /\ chan' = [chan EXCEPT ![r] = Append(@, m)] /\ Len(chan[r]) < ChanCap[r]
       /\ UNCHANGED <<busStop, topics, created, bindings, done, leaked, topicsMu,
                      sub, closed, panicked, sessionVars>>
  BY Zenon, <1>3 DEF Deliver, Receiver
<1>11. \A home : HomeInv(home) =>
         /\ c.pc \in {"copy", "send"} =>
              c.object <= created /\ home[c.object] = CheckTopics[Position(p)]
         /\ c.pc = "send" => \A s \in Range(c.to) : home[c.object] \in Subs(s)
  BY Zenon, <1>1, <1>3, <1>4, <1>8 DEF HomeInv
<1>12. \A s : c.pc = "copy" \/ (c.pc = "send" /\ s \in Range(c.to)) => Due(p, s)
  BY Zenon, <1>1, <1>3, <1>4, <1>8 DEF Due
<1>13. UNCHANGED <<topics, created, bindings, sub, left, remaining, subscribed>>
  BY Zenon, <1>10
<1>14. /\ ScheduleInv' /\ BusInv'
       /\ pub' \in [Publishers -> PubCalls] /\ pub'[p] = c
       /\ \A s : \A x \in Messages : \A k : Passed(s, x, k) => Passed(s, x, k)'
  BY Zenon, <1>1, <1>3, <1>8, <1>9, <1>10, <1>11, <1>12, <1>13, CallMoves
<1>15. BusTypes' /\ SessionTypes'
  BY Zenon, <1>10, KeepBusTypes, KeepSessionTypes DEF FlowInv
<1>16. /\ chan[r] \in Seq(Messages) /\ Append(chan[r], m) \in Seq(Messages)
       /\ Len(Append(chan[r], m)) = Len(chan[r]) + 1 /\ Len(chan[r]) \in Nat
       /\ ChanCap[r] \in Nat
  BY SMTT(30), <1>1, <1>3, <1>4, AppendProperties, LenProperties, CapacitiesAssumption
     DEF FlowInv, FlowTypes
<1>17. /\ chan' \in [Subscribers -> Seq(Messages)]
       /\ chan'[r] = Append(chan[r], m)
       /\ \A s \in Subscribers : s # r => chan'[s] = chan[s]
  BY Zenon, <1>4, <1>10, <1>16 DEF FlowInv, FlowTypes
<1>18. FlowTypes'
  <2>1. \A s \in Subscribers : Len(chan'[s]) <= ChanCap[s]
    BY <1>10, <1>16, <1>17 DEF FlowInv, FlowTypes
  <2> QED
    BY Zenon, <1>10, <1>14, <1>17, <2>1 DEF FlowInv, FlowTypes
<1>19. PathInv'
  <2> SUFFICES ASSUME NEW s \in Subscribers
               PROVE  \E lab \in [DOMAIN Path(s)' -> DOMAIN CheckTopics] :
                        Labels(s, Path(s), lab)'
    BY Zenon DEF PathInv
  <2>1. CASE s # r
    <3>1. Path(s)' = Path(s)
      BY Zenon, <1>10, <1>17, <2>1 DEF Path
    <3>2. PathInv /\ FlowTypes
      BY Zenon DEF FlowInv
    <3> QED
      BY Zenon, <3>1, <3>2, <1>14, LabelsStay
  <2>2. CASE s = r
    <3>1. PICK path : path = Path(r)
      BY Zenon
    <3>2. path \in Seq(Messages)
      BY Zenon, <3>1, <1>4, PathType DEF FlowInv
    <3>3. Path(r)' = Append(path, m)
      <4>1. /\ got[r] \in Seq(Messages) /\ sendq[r] \in Seq(Messages)
            /\ held[r] \in Seq(Messages) /\ chan[r] \in Seq(Messages)
        BY Zenon, <1>4 DEF FlowInv, FlowTypes
      <4>2. PICK x : x = (got[r] \o sendq[r]) \o held[r]
        BY Zenon
      <4>3. got[r] \o sendq[r] \in Seq(Messages)
        BY <4>1, Concat, Zenon
      <4>4. x \in Seq(Messages)
        BY <4>1, <4>2, <4>3, Concat, Zenon
      <4>5. Path(r)' = x \o Append(chan[r], m) /\ path = x \o chan[r]
        BY Zenon, <4>2, <3>1, <1>10, <1>17 DEF Path
      <4> QED
        BY ZenonT(30), <4>1, <4>4, <4>5, <1>1, <1>3, PathAppend
    <3>4. PICK lab \in [DOMAIN path -> DOMAIN CheckTopics] : Labels(r, path, lab)
      BY Zenon, <3>1, <1>4 DEF FlowInv, PathInv
    <3>5. PICK n, k : n = left[p].n /\ k = Position(p)
      BY Zenon
    <3>6. n \in Nat /\ k \in 1 .. Len(CheckTopics) /\ m = <<p, n>>
      <4>1. left[p].to \in Seq(Topics) /\ left[p].n \in Nat
        BY DEF FlowInv, FlowTypes
      <4>2. Len(left[p].to) \in Nat /\ Len(CheckTopics) \in Nat
        BY Zenon, <4>1, LenProperties, SubscriptionsAssumption
      <4>3. m = <<p, n>> /\ k >= 1 /\ Len(left[p].to) <= Len(CheckTopics)
        BY Zenon, <1>1, <1>3, <3>5 DEF FlowInv, ScheduleInv
      <4>4. k = Len(CheckTopics) - Len(left[p].to)
        BY Zenon, <3>5 DEF Position
      <4> QED
        BY <3>5, <4>1, <4>2, <4>3, <4>4
    <3>7. k \in Meant(r)
      <4>1. PICK home : HomeInv(home)
        BY Zenon DEF FlowInv, BusInv
      <4>2. CheckTopics[k] \in Subs(r)
        BY Zenon, <4>1, <3>5, <1>1, <1>3, <1>4 DEF HomeInv
      <4>3. DOMAIN CheckTopics = 1 .. Len(CheckTopics)
        BY Zenon, SubscriptionsAssumption, LenProperties
      <4> QED
        BY Zenon, <4>2, <4>3, <3>6 DEF Meant, Subs
    <3>8. Due(p, r) /\ ~Due(p, r)'
      BY Zenon, <1>1, <1>3, <1>4, <1>5, <1>8, <1>14 DEF Due
    <3>9. left' = left /\ Position(p)' = Position(p)
      BY Zenon, <1>10 DEF Position
    <3>10. Passed(r, m, k)'
      BY Zenon, <3>5, <3>6, <3>8, <3>9 DEF Passed
    <3>11. \A i \in DOMAIN path : path[i] \in Messages
      BY Zenon, <3>2, LenProperties, ElementOfSeq
    <3>12. \A i \in DOMAIN path : Passed(r, path[i], lab[i])
      BY Zenon, <3>4 DEF Labels
    <3>13. \A i \in DOMAIN path : Passed(r, path[i], lab[i])'
      BY Zenon, <3>11, <3>12, <1>14
    <3>14. \A i \in DOMAIN path : path[i][1] = m[1] =>
             path[i][2] < m[2] \/ (path[i][2] = m[2] /\ lab[i] < k)
      BY Zenon, <3>5, <3>6, <3>8, <3>12 DEF Passed
    <3> QED
      BY ZenonT(30), <2>2, <3>2, <3>3, <3>4, <3>7, <3>10, <3>13, <3>14, <1>1, <1>3, AppendLabels
  <2> QED
    BY Zenon, <2>1, <2>2
<1> QED
  BY Zenon, <1>14, <1>15, <1>18, <1>19 DEF FlowInv

\* A send on a closed channel panics, and nothing is delivered.
LEMMA DeliverPanicsFlow ==
  ASSUME FlowInv, NEW p \in Publishers, DeliverPanics(p), UNCHANGED sessionVars
  PROVE  FlowInv'
<1> USE DEF DeliverPanics, sessionVars
<1>1. BusTypes'
  BY Zenon DEF FlowInv, BusTypes
<1>2. FlowTypes' /\ SessionTypes' /\ ScheduleInv'
  BY Zenon, KeepFlowTypes, KeepSessionTypes, KeepSchedule DEF FlowInv
<1>3. BusInv' /\ PathInv'
  BY Zenon, KeepBusInv, KeepPath DEF FlowInv
<1> QED
  BY Zenon, <1>1, <1>2, <1>3 DEF FlowInv

\* A scheduler makes its next request, later than all on any path.
LEMMA BuildRequestFlow ==
  ASSUME FlowInv, NEW p \in Publishers, BuildRequest(p)
  PROVE  FlowInv'
<1> USE DEF BuildRequest, busVars
<1>1. BusTypes' /\ SessionTypes'
  BY Zenon, KeepBusTypes, KeepSessionTypes DEF FlowInv
<1>2. /\ left' = [left EXCEPT ![p] = [n |-> left[p].n + 1, to |-> CheckTopics]]
      /\ pub' = pub /\ pub[p].pc = "idle" /\ left[p].to = << >> /\ left[p].n < MaxRequests
  BY Zenon
<1>3. /\ left[p].n \in 0 .. MaxRequests /\ CheckTopics \in Seq(Topics)
      /\ Len(CheckTopics) \in Nat /\ MaxRequests \in Nat
  BY Zenon, SubscriptionsAssumption, CapacitiesAssumption, LenProperties DEF FlowInv, FlowTypes
<1>4. /\ left' \in [Publishers -> [n : 0 .. MaxRequests, to : Seq(Topics)]]
      /\ left'[p].n = left[p].n + 1 /\ left'[p].to = CheckTopics
      /\ \A q \in Publishers : q # p => left'[q] = left[q]
  BY SMTT(30), <1>2, <1>3 DEF FlowInv, FlowTypes
<1>5. FlowTypes'
  BY Zenon, <1>4 DEF FlowInv, FlowTypes
<1>6. /\ Position(p)' = 0
      /\ \A q \in Publishers : q # p => Position(q)' = Position(q)
  BY Zenon, <1>3, <1>4, SelfDifference DEF Position
<1>7. ScheduleInv'
  <2> SUFFICES ASSUME NEW q \in Publishers
               PROVE  /\ Len(left'[q].to) <= Len(CheckTopics)
                      /\ left'[q].to # << >> => left'[q].n >= 1
                      /\ \A i \in 1 .. Len(left'[q].to) :
                           left'[q].to[i] = CheckTopics[Position(q)' + i]
                      /\ pub[q].pc # "idle" =>
                           pub[q].msg = <<q, left'[q].n>> /\ Position(q)' >= 1
                      /\ pub[q].pc = "lookup" => pub[q].topic = CheckTopics[Position(q)']
                      /\ pub[q].pc = "send" => pub[q].to # << >> /\ IsInjective(pub[q].to)
    BY Zenon, <1>2 DEF ScheduleInv
  <2>1. CASE q = p
    BY <2>1, <1>2, <1>3, <1>4, <1>6
  <2>2. CASE q # p
    BY <2>2, <1>4, <1>6 DEF FlowInv, ScheduleInv
  <2> QED
    BY Zenon, <2>1, <2>2
<1>8. BusInv'
  <2>1. PICK home \in [1 .. created -> Topics] : HomeInv(home)
    BY Zenon DEF FlowInv, BusInv
  <2>2. HomeInv(home)'
    BY Zenon, <1>2, <1>6, <2>1 DEF HomeInv
  <2> QED
    BY Zenon, <2>1, <2>2 DEF FlowInv, BusInv
<1>9. PathInv'
  <2>1. \A s : Path(s)' = Path(s)
    BY Zenon DEF Path
  <2>2. ASSUME NEW s, NEW m \in Messages, NEW k \in DOMAIN CheckTopics, Passed(s, m, k)
        PROVE  Passed(s, m, k)'
    <3>1. m[1] \in Publishers /\ m[2] \in Nat
      BY Zenon, MessageFields
    <3>2. CASE m[1] = p
      BY <2>2, <3>1, <3>2, <1>3, <1>4 DEF Passed
    <3>3. CASE m[1] # p
      BY Zenon, <2>2, <3>1, <3>3, <1>2, <1>4, <1>6 DEF Passed, Due
    <3> QED
      BY Zenon, <3>2, <3>3
  <2> QED
    BY Zenon, <2>1, <2>2, PathsStay DEF FlowInv
<1> QED
  BY Zenon, <1>1, <1>5, <1>7, <1>8, <1>9 DEF FlowInv

\* A scheduler publishes its request to its next topic.
LEMMA ExecuteFlow ==
  ASSUME FlowInv, NEW p \in Publishers, Execute(p)
  PROVE  FlowInv'
<1>0. UNCHANGED <<busStop, topics, created, bindings, done, leaked, topicsMu, sub, chan,
                  closed, panicked, start, remaining, subscribed, subsClosed, recvPump,
                  subPump, sendPump, held, sendq, conn, stopping, stop, got>>
  BY Zenon DEF Execute, Publish
<1>1. BusTypes' /\ SessionTypes'
  BY Zenon, <1>0, KeepBusTypes, KeepSessionTypes DEF FlowInv
<1>2. PICK to, n, c :
        /\ to = left[p].to /\ n = left[p].n
        /\ c = IF running THEN [pc |-> "lookup", topic |-> Head(to), msg |-> <<p, n>>]
                          ELSE Returned
  BY Zenon
<1>3. /\ pub' = [pub EXCEPT ![p] = c] /\ left' = [left EXCEPT ![p].to = Tail(to)]
      /\ pub[p].pc = "idle" /\ to # << >>
  BY Zenon, <1>2 DEF Execute, Publish
<1>4. /\ to \in Seq(Topics) /\ n \in 1 .. MaxRequests /\ MaxRequests \in Nat
      /\ Len(CheckTopics) \in Nat
  <2>1. to \in Seq(Topics) /\ n \in 0 .. MaxRequests
    BY Zenon, <1>2 DEF FlowInv, FlowTypes
  <2>2. n >= 1
    BY Zenon, <1>2, <1>3 DEF FlowInv, ScheduleInv
  <2> QED
    BY <2>1, <2>2, SubscriptionsAssumption, CapacitiesAssumption, LenProperties
<1>5. /\ Head(to) \in Topics /\ Tail(to) \in Seq(Topics) /\ Head(to) = to[1]
      /\ Len(to) \in Nat \ {0} /\ Len(Tail(to)) = Len(to) - 1
      /\ \A i \in 1 .. (Len(to) - 1) : Tail(to)[i] = to[i + 1]
  BY Zenon, <1>3, <1>4, TailFacts
<1>6. /\ left' \in [Publishers -> [n : 0 .. MaxRequests, to : Seq(Topics)]]
      /\ left'[p].n = n /\ left'[p].to = Tail(to)
      /\ \A q \in Publishers : q # p => left'[q] = left[q]
  <2>1. /\ left \in [Publishers -> [n : 0 .. MaxRequests, to : Seq(Topics)]]
        /\ left[p] \in [n : 0 .. MaxRequests, to : Seq(Topics)]
    BY Zenon DEF FlowInv, FlowTypes
  <2>2. PICK l : l = [left[p] EXCEPT !.to = Tail(to)]
    BY Zenon
  <2>3. l \in [n : 0 .. MaxRequests, to : Seq(Topics)] /\ l.n = n /\ l.to = Tail(to)
    BY Zenon, <2>1, <2>2, <1>2, <1>5
  <2>4. left' = [left EXCEPT ![p] = l]
    BY Zenon, <1>3, <2>2
  <2> QED
    BY Zenon, <2>1, <2>3, <2>4
<1>7. /\ c \in PubCalls /\ c.pc \in {"idle", "lookup"}
      /\ c.pc = "lookup" => c.topic = Head(to) /\ c.msg = <<p, n>>
  BY Zenon, <1>2, <1>4, <1>5 DEF PubCalls, Messages, Returned
<1>8. /\ pub' \in [Publishers -> PubCalls] /\ pub'[p] = c
      /\ \A q \in Publishers : q # p => pub'[q] = pub[q]
  <2>1. pub \in [Publishers -> PubCalls]
    BY Zenon DEF FlowInv, FlowTypes
  <2> QED
    BY Zenon, <1>3, <1>7, <2>1
<1>9. FlowTypes'
  BY Zenon, <1>0, <1>6, <1>8 DEF FlowInv, FlowTypes
<1>10. PICK at : at = Position(p)
  BY Zenon
<1>11. /\ at = Len(CheckTopics) - Len(to) /\ at \in Nat /\ Position(p)' = at + 1
       /\ \A q \in Publishers : q # p => Position(q)' = Position(q)
  <2>1. Len(to) <= Len(CheckTopics)
    BY Zenon, <1>2 DEF FlowInv, ScheduleInv
  <2>2. at = Len(CheckTopics) - Len(to) /\ at \in Nat
    BY <2>1, <1>2, <1>4, <1>5, <1>10 DEF Position
  <2>3. Position(p)' = Len(CheckTopics) - Len(Tail(to))
    BY Zenon, <1>6 DEF Position
  <2>4. \A q \in Publishers : q # p => Position(q)' = Position(q)
    BY Zenon, <1>6 DEF Position
  <2> QED
    BY <2>2, <2>3, <2>4, <1>4, <1>5
<1>12. \A i \in 1 .. Len(to) : to[i] = CheckTopics[at + i]
  BY Zenon, <1>2, <1>10 DEF FlowInv, ScheduleInv
<1>13. ScheduleInv'
  <2> SUFFICES ASSUME NEW q \in Publishers
               PROVE  /\ Len(left'[q].to) <= Len(CheckTopics)
                      /\ left'[q].to # << >> => left'[q].n >= 1
                      /\ \A i \in 1 .. Len(left'[q].to) :
                           left'[q].to[i] = CheckTopics[Position(q)' + i]
                      /\ pub'[q].pc # "idle" =>
                           pub'[q].msg = <<q, left'[q].n>> /\ Position(q)' >= 1
                      /\ pub'[q].pc = "lookup" => pub'[q].topic = CheckTopics[Position(q)']
                      /\ pub'[q].pc = "send" => pub'[q].to # << >> /\ IsInjective(pub'[q].to)
    BY Zenon DEF ScheduleInv
  <2>1. CASE q = p
    <3>1. \A i \in 1 .. (Len(to) - 1) : Tail(to)[i] = CheckTopics[(at + 1) + i]
      <4> TAKE i \in 1 .. (Len(to) - 1)
      <4>1. i + 1 \in 1 .. Len(to) /\ at + (i + 1) = (at + 1) + i
        BY <1>5, <1>11
      <4> QED
        BY Zenon, <4>1, <1>5, <1>12
    <3>2. Head(to) = CheckTopics[at + 1]
      BY <1>5, <1>12
    <3> QED
      BY SMTT(30), <2>1, <3>1, <3>2, <1>4, <1>5, <1>6, <1>7, <1>8, <1>11
  <2>2. CASE q # p
    <3>1. left'[q] = left[q] /\ pub'[q] = pub[q] /\ Position(q)' = Position(q)
      BY Zenon, <2>2, <1>6, <1>8, <1>11
    <3> QED
      BY Zenon, <3>1 DEF FlowInv, ScheduleInv
  <2> QED
    BY Zenon, <2>1, <2>2
<1>14. BusInv'
  <2>1. PICK home \in [1 .. created -> Topics] : HomeInv(home)
    BY Zenon DEF FlowInv, BusInv
  <2>2. HomeInv(home)'
    BY Zenon, <1>0, <1>7, <1>8, <1>11, <2>1 DEF HomeInv
  <2> QED
    BY Zenon, <1>0, <2>1, <2>2 DEF FlowInv, BusInv
<1>15. PathInv'
  <2>1. \A s : Path(s)' = Path(s)
    BY Zenon, <1>0 DEF Path
  <2>2. ASSUME NEW s, NEW m \in Messages, NEW k \in DOMAIN CheckTopics, Passed(s, m, k)
        PROVE  Passed(s, m, k)'
    <3>1. m[1] \in Publishers /\ k \in Nat
      BY SubscriptionsAssumption, LenProperties DEF Messages
    <3>2. CASE m[1] = p
      <4>1. m[2] < n \/ (m[2] = n /\ k <= at)
        BY <2>2, <3>1, <3>2, <1>2, <1>10, <1>11 DEF Passed
      <4>2. m[2] < n \/ (m[2] = n /\ k < at + 1)
        BY <4>1, <3>1, <1>11
      <4> QED
        BY Zenon, <4>2, <3>2, <1>6, <1>11 DEF Passed
    <3>3. CASE m[1] # p
      BY Zenon, <2>2, <3>1, <3>3, <1>6, <1>8, <1>11 DEF Passed, Due
    <3> QED
      BY Zenon, <3>2, <3>3
  <2> QED
    BY Zenon, <2>1, <2>2, PathsStay DEF FlowInv
<1> QED
  BY Zenon, <1>1, <1>9, <1>13, <1>14, <1>15 DEF FlowInv

-----------------------------------------------------------------------------
(***************************************************************************)
(* The steps of a session.                                                 *)
(***************************************************************************)

\* A step that neither touches the bus nor moves a request.
LEMMA QuietFlow ==
  ASSUME FlowInv, panicked' \in BOOLEAN, FlowTypes', SessionTypes',
         UNCHANGED <<busStop, topics, created, bindings, done, leaked, topicsMu, closed,
                     pub, sub, chan, left, remaining, subscribed, held, sendq, got>>
  PROVE  FlowInv'
<1>1. BusTypes'
  BY Zenon DEF FlowInv, BusTypes
<1>2. ScheduleInv' /\ BusInv' /\ PathInv'
  BY Zenon, KeepSchedule, KeepBusInv, KeepPath DEF FlowInv
<1> QED
  BY Zenon, <1>1, <1>2 DEF FlowInv

\* Sessions come and go, and their goroutines start and end.
LEMMA ComesAndGoesFlow ==
  ASSUME FlowInv, NEW s \in Subscribers,
         \/ Connect(s) \/ Disconnect(s) \/ StartEnds(s) \/ StartFails(s)
         \/ RecvStep(s) \/ SubEnds(s) \/ SendEnds(s) \/ StopWaits(s)
  PROVE  FlowInv'
<1> USE DEF busVars
<1>1. CASE Connect(s)
  <2> USE <1>1 DEF Connect
  <2>1. FlowTypes'
    <3>1. subPump[s] = "off" /\ Len(held[s]) = 0
      BY Zenon DEF FlowInv, FlowTypes
    <3>2. /\ subPump' \in [Subscribers -> {"off", "select", "push", "ended"}]
          /\ subPump'[s] = "select" /\ start'[s] = "subscribing"
          /\ \A q \in Subscribers : q # s => subPump'[q] = subPump[q] /\ start'[q] = start[q]
      BY Zenon DEF FlowInv, FlowTypes, SessionTypes
    <3>3. \A q \in Subscribers :
            /\ Len(held[q]) = IF subPump'[q] = "push" THEN 1 ELSE 0
            /\ start'[q] = "new" => subPump'[q] = "off"
      BY <3>1, <3>2 DEF FlowInv, FlowTypes
    <3> QED
      BY Zenon, <3>2, <3>3 DEF FlowInv, FlowTypes
  <2>2. SessionTypes'
    BY Zenon DEF FlowInv, SessionTypes
  <2> QED
    BY Zenon, <2>1, <2>2, QuietFlow DEF FlowInv, BusTypes
<1>2. CASE Disconnect(s)
  <2> USE <1>2 DEF Disconnect
  <2>1. FlowTypes'
    BY Zenon, KeepFlowTypes DEF FlowInv
  <2>2. SessionTypes'
    BY Zenon DEF FlowInv, SessionTypes
  <2> QED
    BY Zenon, <2>1, <2>2, QuietFlow DEF FlowInv, BusTypes
<1>3. CASE StartEnds(s)
  <2> USE <1>3 DEF StartEnds
  <2>1. FlowTypes'
    BY Zenon DEF FlowInv, FlowTypes, SessionTypes
  <2>2. SessionTypes'
    BY Zenon DEF FlowInv, SessionTypes
  <2> QED
    BY Zenon, <2>1, <2>2, QuietFlow DEF FlowInv, BusTypes
<1>4. CASE StartFails(s)
  <2> USE <1>4 DEF StartFails, CallStop
  <2>1. FlowTypes'
    BY Zenon DEF FlowInv, FlowTypes, SessionTypes
  <2>2. SessionTypes'
    BY Zenon DEF FlowInv, SessionTypes
  <2> QED
    BY <2>1, <2>2, QuietFlow
<1>5. CASE RecvExits(s) \/ RecvLooks(s)
  <2> USE <1>5 DEF RecvExits, RecvLooks, Pump
  <2>1. FlowTypes'
    BY Zenon, KeepFlowTypes DEF FlowInv
  <2>2. SessionTypes'
    BY Zenon DEF FlowInv, SessionTypes
  <2> QED
    BY Zenon, <2>1, <2>2, QuietFlow DEF FlowInv, BusTypes
<1>6. CASE RecvStops(s)
  <2> USE <1>6 DEF RecvStops, Pump, CallStop
  <2>1. FlowTypes'
    BY Zenon, KeepFlowTypes DEF FlowInv
  <2>2. SessionTypes'
    BY Zenon DEF FlowInv, SessionTypes
  <2> QED
    BY <2>1, <2>2, QuietFlow
<1>7. CASE SubEnds(s)
  <2> USE <1>7 DEF SubEnds, Pump
  <2>1. FlowTypes'
    BY Zenon DEF FlowInv, FlowTypes, SessionTypes
  <2>2. SessionTypes'
    BY Zenon, KeepSessionTypes DEF FlowInv
  <2> QED
    BY Zenon, <2>1, <2>2, QuietFlow DEF FlowInv, BusTypes
<1>8. CASE SendEnds(s)
  <2> USE <1>8 DEF SendEnds, Pump
  <2>1. FlowTypes' /\ SessionTypes'
    BY Zenon, KeepFlowTypes, KeepSessionTypes DEF FlowInv
  <2> QED
    BY Zenon, <2>1, QuietFlow DEF FlowInv, BusTypes
<1>9. CASE StopWaits(s)
  <2> USE <1>9 DEF StopWaits, Pump
  <2>1. FlowTypes'
    BY Zenon, KeepFlowTypes DEF FlowInv
  <2>2. SessionTypes'
    BY Zenon DEF FlowInv, SessionTypes
  <2> QED
    BY Zenon, <2>1, <2>2, QuietFlow DEF FlowInv, BusTypes
<1> QED
  BY Zenon, <1>1, <1>2, <1>3, <1>4, <1>5, <1>6, <1>7, <1>8, <1>9 DEF RecvStep

\* Start reads the next of the session's subscriptions.
LEMMA StartSubscribesFlow ==
  ASSUME FlowInv, NEW s \in Subscribers, StartSubscribes(s)
  PROVE  FlowInv'
<1>1. PICK q : q = remaining[s]
  BY Zenon
<1>2. /\ q # << >> /\ remaining' = [remaining EXCEPT ![s] = Tail(q)]
      /\ sub' = [sub EXCEPT ![s] = [pc |-> "find", topic |-> Head(q)]]
  BY Zenon, <1>1 DEF StartSubscribes, Subscribe
<1>3. UNCHANGED <<busStop, topics, created, bindings, done, leaked, topicsMu, pub, chan,
                  closed, panicked, left, start, subscribed, subsClosed, recvPump, subPump,
                  sendPump, held, sendq, conn, stopping, stop, got>>
  BY Zenon DEF StartSubscribes, Subscribe
<1>4. q \in Seq(Topics)
  BY Zenon, <1>1 DEF FlowInv, SessionTypes
<1>5. /\ Head(q) \in Topics /\ Tail(q) \in Seq(Topics) /\ Head(q) \in Range(q)
      /\ Range(Tail(q)) \subseteq Range(q)
  BY Zenon, <1>2, <1>4, TailFacts
<1>6. Head(q) \in Subs(s) /\ Range(Tail(q)) \subseteq Subs(s)
  BY Zenon, <1>1, <1>5 DEF FlowInv, BusInv
<1>7. /\ sub' \in [Subscribers -> SubCalls] /\ remaining' \in [Subscribers -> Seq(Topics)]
      /\ sub'[s] = [pc |-> "find", topic |-> Head(q)] /\ remaining'[s] = Tail(q)
      /\ \A z \in Subscribers : z # s => sub'[z] = sub[z] /\ remaining'[z] = remaining[z]
  BY Zenon, <1>2, <1>5 DEF FlowInv, SessionTypes, SubCalls
<1>8. SessionTypes'
  BY Zenon, <1>3, <1>7 DEF FlowInv, SessionTypes
<1>9. BusTypes' /\ FlowTypes' /\ ScheduleInv' /\ PathInv'
  BY Zenon, <1>3, KeepBusTypes, KeepFlowTypes, KeepSchedule, KeepPath DEF FlowInv
<1>10. BusInv'
  <2>1. PICK home \in [1 .. created -> Topics] : HomeInv(home)
    BY Zenon DEF FlowInv, BusInv
  <2>2. \A p : Position(p)' = Position(p)
    BY Zenon, <1>3 DEF Position
  <2>3. HomeInv(home)'
    <3>1. \A z \in Subscribers :
            /\ sub'[z].pc = "find" => sub'[z].topic \in Subs(z)
            /\ sub'[z].pc = "bind" =>
                 sub'[z].object <= created /\ home[sub'[z].object] \in Subs(z)
      BY <1>6, <1>7, <2>1 DEF HomeInv
    <3> QED
      BY Zenon, <1>3, <3>1, <2>1, <2>2 DEF HomeInv
  <2>4. \A z \in Subscribers : Range(remaining'[z]) \subseteq Subs(z)
    BY Zenon, <1>6, <1>7 DEF FlowInv, BusInv
  <2> QED
    BY Zenon, <1>3, <2>1, <2>3, <2>4 DEF BusInv
<1> QED
  BY Zenon, <1>8, <1>9, <1>10 DEF FlowInv

\* The object that FindTopic makes belongs to the topic it is made for.
LEMMA StartFindsFlow ==
  ASSUME FlowInv, NEW s \in Subscribers, StartFinds(s)
  PROVE  FlowInv'
<1>1. PICK t, g, fresh :
        /\ t = sub[s].topic /\ fresh = (topics[t] = 0 \/ topics[t] \in done)
        /\ g = IF fresh THEN created + 1 ELSE topics[t]
  BY Zenon
<1>2. /\ sub[s].pc = "find" /\ g <= MaxTopics /\ topicsMu' = TRUE
      /\ created' = IF fresh THEN g ELSE created
      /\ topics' = [topics EXCEPT ![t] = g]
      /\ sub' = [sub EXCEPT ![s] = [pc |-> "bind", object |-> g]]
  BY Zenon, <1>1 DEF StartFinds, FindTopic
<1>3. UNCHANGED <<busStop, bindings, done, leaked, pub, chan, closed, panicked, sessionVars>>
  BY Zenon DEF StartFinds, FindTopic
<1>4. /\ t \in Topics /\ created \in 0 .. MaxTopics /\ topics \in [Topics -> 0 .. created]
      /\ done \subseteq 1 .. created /\ MaxTopics \in Nat /\ fresh \in BOOLEAN
  BY Zenon, <1>1, <1>2, SubFields, MaxTopicsAssumption DEF FlowInv, SessionTypes, BusTypes
<1>5. /\ g \in Objects /\ g \in 1 .. created' /\ created' \in 0 .. MaxTopics
      /\ created <= created' /\ (~fresh => g = topics[t] /\ created' = created)
      /\ (fresh => g = created + 1 /\ created' = g)
  <2>1. CASE fresh
    BY SMTT(30), <2>1, <1>1, <1>2, <1>4 DEF Objects
  <2>2. CASE ~fresh
    <3>1. topics[t] # 0
      BY <2>2, <1>1, Zenon
    <3> QED
      BY <2>2, <3>1, <1>1, <1>2, <1>4 DEF Objects
  <2> QED
    BY Zenon, <2>1, <2>2
<1>6. topics' \in [Topics -> 0 .. created']
  BY SMTT(30), <1>2, <1>4, <1>5
<1>7. BusTypes'
  BY <1>2, <1>3, <1>4, <1>5, <1>6 DEF FlowInv, BusTypes
<1>8. /\ sub' \in [Subscribers -> SubCalls] /\ sub'[s] = [pc |-> "bind", object |-> g]
      /\ \A z \in Subscribers : z # s => sub'[z] = sub[z]
  BY Zenon, <1>2, <1>5 DEF FlowInv, SessionTypes, SubCalls
<1>9. SessionTypes'
  BY Zenon, <1>3, <1>8 DEF FlowInv, SessionTypes, sessionVars
<1>10. FlowTypes' /\ ScheduleInv' /\ PathInv'
  BY Zenon, <1>3, KeepFlowTypes, KeepSchedule, KeepPath DEF FlowInv, sessionVars
<1>11. BusInv'
  <2>1. PICK old \in [1 .. created -> Topics] : HomeInv(old)
    BY Zenon DEF FlowInv, BusInv
  <2>2. PICK home : home = [o \in 1 .. created' |-> IF o \in 1 .. created THEN old[o] ELSE t]
    BY Zenon
  <2>3. home \in [1 .. created' -> Topics]
    BY Zenon, <1>4, <2>1, <2>2
  <2>4. /\ \A o \in 1 .. created : home[o] = old[o]
        /\ home[g] = t
    <3>1. \A o \in 1 .. created : home[o] = old[o]
      BY <1>4, <1>5, <2>2
    <3>2. CASE fresh
      BY <3>2, <1>4, <1>5, <2>2
    <3>3. CASE ~fresh
      <4>1. g \in 1 .. created /\ topics[t] # 0 /\ g = topics[t]
        BY Zenon, <3>3, <1>1, <1>4, <1>5
      <4> QED
        BY Zenon, <4>1, <3>1, <2>1, <1>4 DEF HomeInv
    <3> QED
      BY Zenon, <3>1, <3>2, <3>3, <1>4
  <2>5. t \in Subs(s)
    BY Zenon, <1>1, <1>2, <2>1 DEF HomeInv
  <2>6. \A p : Position(p)' = Position(p)
    BY Zenon, <1>3 DEF Position, sessionVars
  <2>7. \A x \in Topics : topics'[x] # 0 => home[topics'[x]] = x
    <3> SUFFICES ASSUME NEW x \in Topics, topics'[x] # 0 PROVE home[topics'[x]] = x
      BY Zenon
    <3>1. CASE x = t
      BY Zenon, <3>1, <1>2, <1>4, <2>4
    <3>2. CASE x # t
      <4>1. topics'[x] = topics[x] /\ topics[x] \in 1 .. created
        BY <3>2, <1>2, <1>4
      <4> QED
        BY Zenon, <4>1, <2>1, <2>4 DEF HomeInv
    <3> QED
      BY Zenon, <3>1, <3>2
  <2>8. \A o \in Objects : \A n \in DOMAIN bindings[o] :
          o <= created' /\ home[o] \in Subs(bindings[o][n])
    <3> SUFFICES ASSUME NEW o \in Objects, NEW n \in DOMAIN bindings[o]
                 PROVE  o <= created' /\ home[o] \in Subs(bindings[o][n])
      BY Zenon
    <3>1. o <= created /\ old[o] \in Subs(bindings[o][n])
      BY Zenon, <2>1 DEF HomeInv
    <3>2. o \in 1 .. created /\ o <= created'
      BY <3>1, <1>4, <1>5 DEF Objects
    <3> QED
      BY Zenon, <3>1, <3>2, <2>4
  <2>9. \A z \in Subscribers :
          /\ sub'[z].pc = "find" => sub'[z].topic \in Subs(z)
          /\ sub'[z].pc = "bind" =>
               sub'[z].object <= created' /\ home[sub'[z].object] \in Subs(z)
    <3> TAKE z \in Subscribers
    <3>1. CASE z = s
      BY <3>1, <1>5, <1>8, <2>4, <2>5
    <3>2. CASE z # s
      <4>1. sub'[z] = sub[z]
        BY Zenon, <3>2, <1>8
      <4>2. sub[z].pc = "find" => sub[z].topic \in Subs(z)
        BY Zenon, <2>1 DEF HomeInv
      <4>3. sub[z].pc = "bind" => /\ sub[z].object \in 1 .. created
                                  /\ old[sub[z].object] \in Subs(z)
        BY <2>1, <1>4, SubFields DEF HomeInv, FlowInv, SessionTypes, Objects
      <4>4. sub[z].pc = "bind" => sub[z].object <= created' /\ home[sub[z].object] \in Subs(z)
        <5>1. \A o \in 1 .. created : o <= created'
          BY <1>4, <1>5
        <5> QED
          BY Zenon, <4>3, <2>4, <5>1
      <4> QED
        BY Zenon, <4>1, <4>2, <4>4
    <3> QED
      BY Zenon, <3>1, <3>2
  <2>10. \A z \in Subscribers : \A o \in Range(subscribed[z]) :
           o <= created' /\ home[o] \in Subs(z)
    <3> SUFFICES ASSUME NEW z \in Subscribers, NEW o \in Range(subscribed[z])
                 PROVE  o <= created' /\ home[o] \in Subs(z)
      BY Zenon
    <3>1. o <= created /\ old[o] \in Subs(z)
      BY Zenon, <2>1 DEF HomeInv
    <3>2. o \in Objects
      BY LenProperties, ElementOfSeq DEF FlowInv, SessionTypes, Range
    <3>3. o \in 1 .. created /\ o <= created'
      BY <3>1, <3>2, <1>4, <1>5 DEF Objects
    <3> QED
      BY Zenon, <3>1, <3>3, <2>4
  <2>11. \A p \in Publishers :
           /\ pub[p].pc \in {"copy", "send"} =>
                pub[p].object <= created' /\ home[pub[p].object] = CheckTopics[Position(p)]
           /\ pub[p].pc = "send" =>
                \A z \in Range(pub[p].to) : home[pub[p].object] \in Subs(z)
    <3> TAKE p \in Publishers
    <3>1. pub[p].pc \in {"copy", "send"} => pub[p].object \in 1 .. created
      BY SMTT(30), <2>1, <1>4, PubFields DEF HomeInv, FlowInv, FlowTypes, Objects
    <3>2. pub[p].pc \in {"copy", "send"} =>
            home[pub[p].object] = old[pub[p].object] /\ pub[p].object <= created'
      BY <3>1, <2>4, <1>4, <1>5
    <3> QED
      BY Zenon, <3>2, <2>1 DEF HomeInv
  <2>12. HomeInv(home)'
    BY Zenon, <1>3, <2>6, <2>7, <2>8, <2>9, <2>10, <2>11 DEF HomeInv, sessionVars
  <2> QED
    BY Zenon, <1>3, <2>3, <2>12 DEF FlowInv, BusInv, sessionVars
<1> QED
  BY Zenon, <1>7, <1>9, <1>10, <1>11 DEF FlowInv

\* Start binds the session to the object it has found.
LEMMA StartBindsFlow ==
  ASSUME FlowInv, NEW s \in Subscribers, StartBinds(s)
  PROVE  FlowInv'
<1>1. PICK g, n, b : /\ g = sub[s].object /\ n = ConsumerName[s]
                     /\ b = [x \in DOMAIN bindings[g] \cup {n} |->
                               IF x = n THEN s ELSE bindings[g][x]]
  BY Zenon
<1>2. /\ sub[s].pc = "bind" /\ topicsMu' = FALSE /\ sub' = [sub EXCEPT ![s] = Returned]
      /\ bindings' = [bindings EXCEPT ![g] = b]
      /\ subscribed' = [subscribed EXCEPT ![s] = Append(subscribed[s], g)]
  BY Zenon, <1>1 DEF StartBinds, BindConsumer
<1>3. UNCHANGED <<busStop, topics, created, done, leaked, pub, chan, closed, panicked,
                  left, start, remaining, subsClosed, recvPump, subPump, sendPump, held,
                  sendq, conn, stopping, stop, got>>
  BY Zenon DEF StartBinds, BindConsumer
<1>4. g \in Objects /\ subscribed[s] \in Seq(Objects)
  BY Zenon, <1>1, <1>2, SubFields DEF FlowInv, SessionTypes
<1>5. /\ DOMAIN bindings' = Objects /\ bindings'[g] = b
      /\ \A o \in Objects : o # g => bindings'[o] = bindings[o]
  BY Zenon, <1>2, <1>4 DEF FlowInv, BusTypes
<1>6. \A x \in DOMAIN b :
        (x = n /\ b[x] = s) \/ (x \in DOMAIN bindings[g] /\ b[x] = bindings[g][x])
  BY Zenon, <1>1
<1>7. BusTypes'
  <2>1. \A o \in Objects : \A x \in DOMAIN bindings'[o] :
          bindings'[o][x] \in Subscribers /\ ConsumerName[bindings'[o][x]] = x
    <3> TAKE o \in Objects
    <3>1. CASE o = g
      <4>1. ASSUME NEW x \in DOMAIN b PROVE b[x] \in Subscribers /\ ConsumerName[b[x]] = x
        <5>1. CASE x = n /\ b[x] = s
          BY Zenon, <5>1, <1>1
        <5>2. CASE x \in DOMAIN bindings[g] /\ b[x] = bindings[g][x]
          <6>1. \A y \in DOMAIN bindings[g] :
                  bindings[g][y] \in Subscribers /\ ConsumerName[bindings[g][y]] = y
            BY Zenon, <1>4 DEF FlowInv, BusTypes
          <6> QED
            BY Zenon, <5>2, <6>1
        <5> QED
          BY Zenon, <1>6, <5>1, <5>2
      <4> QED
        BY Zenon, <3>1, <4>1, <1>5
    <3>2. CASE o # g
      BY Zenon, <3>2, <1>5 DEF FlowInv, BusTypes
    <3> QED
      BY ZenonT(30), <3>1, <3>2
  <2> QED
    BY ZenonT(30), <1>2, <1>3, <1>5, <2>1 DEF FlowInv, BusTypes
<1>8. /\ Append(subscribed[s], g) \in Seq(Objects)
      /\ \A o \in Range(Append(subscribed[s], g)) : o \in Range(subscribed[s]) \/ o = g
  <2>1. PICK q \in Seq(Objects) : q = subscribed[s]
    BY Zenon, <1>4
  <2>2. /\ Append(q, g) \in Seq(Objects) /\ Len(Append(q, g)) = Len(q) + 1
        /\ \A i \in 1 .. Len(q) : Append(q, g)[i] = q[i]
        /\ Append(q, g)[Len(q) + 1] = g /\ Len(q) \in Nat /\ DOMAIN q = 1 .. Len(q)
        /\ DOMAIN Append(q, g) = 1 .. (Len(q) + 1)
    BY <1>4, AppendProperties, LenProperties
  <2> QED
    BY <2>1, <2>2 DEF Range
<1>9. /\ sub' \in [Subscribers -> SubCalls] /\ sub'[s] = Returned
      /\ \A z \in Subscribers : z # s => sub'[z] = sub[z]
      /\ subscribed' \in [Subscribers -> Seq(Objects)]
      /\ subscribed'[s] = Append(subscribed[s], g)
      /\ \A z \in Subscribers : z # s => subscribed'[z] = subscribed[z]
  BY Zenon, <1>2, <1>8 DEF FlowInv, SessionTypes, SubCalls
<1>10. SessionTypes'
  BY Zenon, <1>3, <1>9 DEF FlowInv, SessionTypes
<1>11. FlowTypes' /\ ScheduleInv' /\ PathInv'
  BY Zenon, <1>3, KeepFlowTypes, KeepSchedule, KeepPath DEF FlowInv
<1>12. BusInv'
  <2>1. PICK home \in [1 .. created -> Topics] : HomeInv(home)
    BY Zenon DEF FlowInv, BusInv
  <2>2. \A p : Position(p)' = Position(p)
    BY Zenon, <1>3 DEF Position
  <2>3. g <= created /\ home[g] \in Subs(s)
    BY Zenon, <1>1, <1>2, <2>1 DEF HomeInv
  <2>4. \A o \in Objects : \A x \in DOMAIN bindings'[o] :
          o <= created /\ home[o] \in Subs(bindings'[o][x])
    <3> TAKE o \in Objects
    <3>1. CASE o = g
      BY Zenon, <3>1, <1>4, <1>5, <1>6, <2>1, <2>3 DEF HomeInv
    <3>2. CASE o # g
      BY Zenon, <3>2, <1>5, <2>1 DEF HomeInv
    <3> QED
      BY Zenon, <3>1, <3>2
  <2>5. \A z \in Subscribers :
          /\ sub'[z].pc = "find" => sub'[z].topic \in Subs(z)
          /\ sub'[z].pc = "bind" => sub'[z].object <= created /\ home[sub'[z].object] \in Subs(z)
    BY <1>9, <2>1 DEF HomeInv, Returned
  <2>6. \A z \in Subscribers : \A o \in Range(subscribed'[z]) :
          o <= created /\ home[o] \in Subs(z)
    <3> TAKE z \in Subscribers
    <3>1. CASE z = s
      BY Zenon, <3>1, <1>8, <1>9, <2>1, <2>3 DEF HomeInv
    <3>2. CASE z # s
      BY Zenon, <3>2, <1>9, <2>1 DEF HomeInv
    <3> QED
      BY Zenon, <3>1, <3>2
  <2>7. HomeInv(home)'
    BY Zenon, <1>3, <2>1, <2>2, <2>4, <2>5, <2>6 DEF HomeInv
  <2> QED
    BY Zenon, <1>3, <2>1, <2>7 DEF FlowInv, BusInv
<1> QED
  BY Zenon, <1>7, <1>10, <1>11, <1>12 DEF FlowInv

\* A step that only takes bindings away.
LEMMA FewerBindings ==
  ASSUME FlowInv,
         busStop' \in {"no", "closing", "done"},
         done \subseteq done', done' \subseteq 1 .. created, leaked' \subseteq done',
         DOMAIN bindings' = Objects,
         \A g \in Objects : \A n \in DOMAIN bindings'[g] :
           n \in DOMAIN bindings[g] /\ bindings'[g][n] = bindings[g][n],
         subscribed' \in [Subscribers -> Seq(Objects)],
         \A s \in Subscribers : Range(subscribed'[s]) \subseteq Range(subscribed[s]),
         UNCHANGED <<topics, created, topicsMu, pub, sub, chan, closed, panicked,
                     left, start, remaining, subPump, recvPump, held, sendq, conn,
                     stopping, stop, got>>
  PROVE  FlowInv'
<1>1. BusTypes'
  <2>1. /\ topics' = topics /\ created' = created /\ topicsMu' = topicsMu
        /\ closed' = closed /\ panicked' = panicked
    BY Zenon
  <2>2. \A g \in Objects : \A n \in DOMAIN bindings'[g] :
          bindings'[g][n] \in Subscribers /\ ConsumerName[bindings'[g][n]] = n
    <3>1. \A g \in Objects : \A n \in DOMAIN bindings[g] :
            bindings[g][n] \in Subscribers /\ ConsumerName[bindings[g][n]] = n
      BY Zenon DEF FlowInv, BusTypes
    <3> TAKE g \in Objects
    <3> TAKE n \in DOMAIN bindings'[g]
    <3>2. n \in DOMAIN bindings[g] /\ bindings'[g][n] = bindings[g][n]
      BY Zenon
    <3>3. bindings[g][n] \in Subscribers /\ ConsumerName[bindings[g][n]] = n
      BY Zenon, <3>1, <3>2
    <3> QED
      BY Zenon, <3>2, <3>3
  <2> QED
    BY Zenon, <2>1, <2>2 DEF FlowInv, BusTypes
<1>2. SessionTypes'
  BY Zenon DEF FlowInv, SessionTypes
<1>3. FlowTypes' /\ ScheduleInv' /\ PathInv'
  BY Zenon, KeepFlowTypes, KeepSchedule, KeepPath DEF FlowInv
<1>4. BusInv'
  <2>1. PICK home \in [1 .. created -> Topics] : HomeInv(home)
    BY Zenon DEF FlowInv, BusInv
  <2>2. \A p : Position(p)' = Position(p)
    BY Zenon DEF Position
  <2>3. \A o \in Objects : \A n \in DOMAIN bindings'[o] :
          o <= created /\ home[o] \in Subs(bindings'[o][n])
    BY Zenon, <2>1 DEF HomeInv
  <2>4. \A z \in Subscribers : \A o \in Range(subscribed'[z]) :
          o <= created /\ home[o] \in Subs(z)
    BY Zenon, <2>1 DEF HomeInv
  <2>5. HomeInv(home)'
    BY Zenon, <2>1, <2>2, <2>3, <2>4 DEF HomeInv
  <2> QED
    BY Zenon, <2>1, <2>5 DEF FlowInv, BusInv
<1> QED
  BY ZenonT(30), <1>1, <1>2, <1>3, <1>4 DEF FlowInv

\* Stop cancels one of the session's subscriptions.
LEMMA StopCancelsFlow ==
  ASSUME FlowInv, NEW s \in Subscribers, StopCancels(s)
  PROVE  FlowInv'
<1>1. PICK q, g : q = subscribed[s] /\ g = Head(q)
  BY Zenon
<1>2. /\ q # << >> /\ subscribed' = [subscribed EXCEPT ![s] = Tail(q)]
      /\ bindings' = [bindings EXCEPT ![g] = Unbound(bindings[g], ConsumerName[s])]
      /\ done' = IF DOMAIN bindings'[g] = {} THEN done \cup {g} ELSE done
  BY Zenon, <1>1 DEF StopCancels, Unsubscribe
<1>3. UNCHANGED <<busStop, topics, created, leaked, topicsMu, pub, sub, chan, closed,
                  panicked, left, start, remaining, subsClosed, recvPump, subPump,
                  sendPump, held, sendq, conn, stopping, stop, got>>
  BY Zenon DEF StopCancels, Unsubscribe
<1>4. q \in Seq(Objects)
  BY Zenon, <1>1 DEF FlowInv, SessionTypes
<1>5. /\ g \in Objects /\ Tail(q) \in Seq(Objects) /\ g \in Range(q)
      /\ Range(Tail(q)) \subseteq Range(q)
  BY Zenon, <1>1, <1>2, <1>4, TailFacts
<1>6. g \in 1 .. created
  <2>1. g <= created
    BY Zenon, <1>1, <1>5 DEF FlowInv, BusInv, HomeInv
  <2> QED
    BY <2>1, <1>5 DEF Objects, FlowInv, BusTypes
<1>7. DOMAIN bindings' = Objects
  BY Zenon, <1>2 DEF FlowInv, BusTypes
<1>8. \A o \in Objects : \A n \in DOMAIN bindings'[o] :
        n \in DOMAIN bindings[o] /\ bindings'[o][n] = bindings[o][n]
  BY Zenon, <1>2, <1>5 DEF FlowInv, BusTypes, Unbound
<1>9. /\ subscribed' \in [Subscribers -> Seq(Objects)]
      /\ \A z \in Subscribers : Range(subscribed'[z]) \subseteq Range(subscribed[z])
  BY Zenon, <1>1, <1>2, <1>5 DEF FlowInv, SessionTypes
<1>10. /\ done \subseteq done' /\ done' \subseteq 1 .. created /\ leaked' \subseteq done'
       /\ busStop' \in {"no", "closing", "done"}
  BY Zenon, <1>2, <1>3, <1>6 DEF FlowInv, BusTypes
<1> QED
  BY Zenon, <1>3, <1>7, <1>8, <1>9, <1>10, FewerBindings

\* The bus's Stop closes every object.
LEMMA BusStopFlow ==
  ASSUME FlowInv, BusStop
  PROVE  FlowInv'
<1> USE DEF sessionVars
<1>1. CASE StopRunning
  <2>1. /\ busStop' = "closing"
        /\ UNCHANGED <<topics, created, bindings, done, leaked, topicsMu, pub, sub,
                       chan, closed, panicked, sessionVars>>
    BY Zenon, <1>1 DEF BusStop, StopRunning
  <2> QED
    BY Zenon, <2>1, FewerBindings DEF FlowInv, BusTypes, SessionTypes
<1>2. CASE CloseTopics
  <2>1. PICK objects : objects = Range(topics) \ {0}
    BY Zenon
  <2>2. /\ busStop' = "done" /\ done' = done \cup objects
        /\ leaked' = leaked \cup (objects \cap done)
        /\ bindings' = [g \in DOMAIN bindings |->
                          IF g \in objects \ done THEN << >> ELSE bindings[g]]
        /\ UNCHANGED <<topics, created, topicsMu, pub, sub, chan, closed, panicked,
                       sessionVars>>
    BY Zenon, <1>2, <2>1 DEF BusStop, CloseTopics
  <2>3. objects \subseteq 1 .. created
    BY SMTT(30), <2>1 DEF FlowInv, BusTypes, Range
  <2>4. /\ done \subseteq done' /\ done' \subseteq 1 .. created /\ leaked' \subseteq done'
    BY Zenon, <2>2, <2>3 DEF FlowInv, BusTypes
  <2>5. /\ DOMAIN bindings' = Objects
        /\ \A g \in Objects : \A n \in DOMAIN bindings'[g] :
             n \in DOMAIN bindings[g] /\ bindings'[g][n] = bindings[g][n]
    BY <2>2 DEF FlowInv, BusTypes
  <2> QED
    BY Zenon, <2>2, <2>4, <2>5, FewerBindings DEF FlowInv, SessionTypes
<1> QED
  BY Zenon, <1>1, <1>2 DEF BusStop

\* Stop closes the channel of a session.
LEMMA StopClosesFlow ==
  ASSUME FlowInv, NEW s \in Subscribers, StopCloses(s)
  PROVE  FlowInv'
<1> USE DEF StopCloses, Pump, CloseChannel
<1>1. BusTypes'
  BY Zenon DEF FlowInv, BusTypes
<1>2. SessionTypes'
  BY Zenon DEF FlowInv, SessionTypes
<1>3. FlowTypes' /\ ScheduleInv' /\ BusInv' /\ PathInv'
  BY Zenon, KeepFlowTypes, KeepSchedule, KeepBusInv, KeepPath DEF FlowInv
<1> QED
  BY Zenon, <1>1, <1>2, <1>3 DEF FlowInv

-----------------------------------------------------------------------------
(***************************************************************************)
(* The steps of the pumps that move a request.                             *)
(***************************************************************************)

\* What a pump's step leaves alone.
LEMMA PumpFlow ==
  ASSUME FlowInv, FlowTypes', PathInv',
         UNCHANGED <<busStop, topics, created, bindings, done, leaked, topicsMu, closed,
                     panicked, pub, sub, left, start, remaining, subscribed, recvPump,
                     stop, conn, stopping>>
  PROVE  FlowInv'
<1>1. BusTypes' /\ SessionTypes'
  BY Zenon, KeepBusTypes, KeepSessionTypes DEF FlowInv
<1>2. ScheduleInv' /\ BusInv'
  BY Zenon, KeepSchedule, KeepBusInv DEF FlowInv
<1> QED
  BY Zenon, <1>1, <1>2 DEF FlowInv

\* What has passed does not depend on the pumps.
LEMMA PumpPaths ==
  ASSUME FlowInv, UNCHANGED <<pub, left>>, \A z \in Subscribers : Path(z)' = Path(z)
  PROVE  PathInv'
<1>1. \A z, m, k : Passed(z, m, k) => Passed(z, m, k)'
  BY Zenon DEF Passed, Due, Position
<1> QED
  BY Zenon, <1>1, PathsStay DEF FlowInv

\* The parts of a path.
LEMMA PathParts ==
  ASSUME FlowTypes, NEW s \in Subscribers
  PROVE  /\ got[s] \in Seq(Messages) /\ sendq[s] \in Seq(Messages)
         /\ held[s] \in Seq(Messages) /\ chan[s] \in Seq(Messages)
         /\ Len(got[s]) \in Nat /\ Len(sendq[s]) \in Nat
         /\ Len(held[s]) \in Nat /\ Len(chan[s]) \in Nat
BY Zenon, LenProperties DEF FlowTypes

\* subPump takes the head of the channel.
LEMMA SubTakesFlow ==
  ASSUME FlowInv, NEW s \in Subscribers, SubTakes(s)
  PROVE  FlowInv'
<1>1. PICK q : q = chan[s]
  BY Zenon
<1>2. /\ q # << >> /\ subPump[s] = "select"
      /\ subPump' = [subPump EXCEPT ![s] = "push"]
      /\ held' = [held EXCEPT ![s] = <<Head(q)>>] /\ chan' = [chan EXCEPT ![s] = Tail(q)]
  BY Zenon, <1>1 DEF SubTakes, Pump
<1>3. UNCHANGED <<busStop, topics, created, bindings, done, leaked, topicsMu, pub, sub,
                  closed, panicked, left, start, remaining, subscribed, subsClosed,
                  recvPump, sendPump, sendq, conn, stopping, stop, got>>
  BY Zenon DEF SubTakes
<1>4. /\ q \in Seq(Messages) /\ held[s] \in Seq(Messages) /\ Len(held[s]) = 0
      /\ Len(q) <= ChanCap[s] /\ ChanCap[s] \in Nat
  BY Zenon, <1>1, <1>2, CapacitiesAssumption DEF FlowInv, FlowTypes
<1>5. Tail(q) \in Seq(Messages) /\ Len(Tail(q)) = Len(q) - 1 /\ Len(q) \in Nat
  BY Zenon, <1>2, <1>4, TailFacts
<1>6. PICK h : h = <<Head(q)>>
  BY Zenon
<1>7. h \in Seq(Messages) /\ Len(h) = 1
  BY Zenon, <1>2, <1>4, <1>6, HeadAndTail
<1>8. /\ chan' \in [Subscribers -> Seq(Messages)] /\ held' \in [Subscribers -> Seq(Messages)]
      /\ subPump' \in [Subscribers -> {"off", "select", "push", "ended"}]
      /\ chan'[s] = Tail(q) /\ held'[s] = h /\ subPump'[s] = "push"
      /\ \A z \in Subscribers : z # s =>
           chan'[z] = chan[z] /\ held'[z] = held[z] /\ subPump'[z] = subPump[z]
  BY Zenon, <1>2, <1>5, <1>6, <1>7 DEF FlowInv, FlowTypes
<1>9. start[s] # "new"
  BY Zenon, <1>2 DEF FlowInv, FlowTypes
<1>10. FlowTypes'
  <2>1. \A z \in Subscribers :
          /\ Len(chan'[z]) <= ChanCap[z] /\ Len(sendq[z]) <= SendqCap
          /\ Len(held'[z]) = IF subPump'[z] = "push" THEN 1 ELSE 0
          /\ start[z] = "new" => subPump'[z] = "off"
    <3> TAKE z \in Subscribers
    <3>1. CASE z = s
      BY SMTT(30), <3>1, <1>4, <1>5, <1>7, <1>8, <1>9 DEF FlowInv, FlowTypes
    <3>2. CASE z # s
      BY Zenon, <3>2, <1>8 DEF FlowInv, FlowTypes
    <3> QED
      BY Zenon, <3>1, <3>2
  <2> QED
    BY Zenon, <1>3, <1>8, <2>1 DEF FlowInv, FlowTypes
<1>11. PathInv'
  <2>1. Path(s)' = Path(s)
    <3>1. got[s] \in Seq(Messages) /\ sendq[s] \in Seq(Messages)
      BY Zenon, PathParts DEF FlowInv
    <3>2. PICK x \in Seq(Messages) : x = got[s] \o sendq[s]
      BY <3>1, Concat, Zenon
    <3>3. held[s] = << >>
      BY Zenon, <1>4, EmptySeq
    <3>4. (x \o << >>) \o q = (x \o h) \o Tail(q)
      BY Zenon, <1>2, <1>4, <1>6, PathTake
    <3>5. Path(s) = (x \o << >>) \o q
      BY Zenon, <1>1, <3>2, <3>3 DEF Path
    <3>6. Path(s)' = (x \o h) \o Tail(q)
      BY Zenon, <1>3, <1>8, <3>2 DEF Path
    <3> QED
      BY Zenon, <3>4, <3>5, <3>6
  <2>2. \A z \in Subscribers : z # s => Path(z)' = Path(z)
    BY Zenon, <1>3, <1>8 DEF Path
  <2> QED
    BY Zenon, <1>3, <2>1, <2>2, PumpPaths
<1> QED
  BY Zenon, <1>3, <1>10, <1>11, PumpFlow

\* subPump pushes what it holds to the end of the send queue.
LEMMA SubPushesFlow ==
  ASSUME FlowInv, NEW s \in Subscribers, SubPushes(s)
  PROVE  FlowInv'
<1>1. /\ subPump[s] = "push" /\ subPump' = [subPump EXCEPT ![s] = "select"]
      /\ sendq' = [sendq EXCEPT ![s] = sendq[s] \o held[s]]
      /\ held' = [held EXCEPT ![s] = << >>] /\ Len(sendq[s]) < SendqCap
  BY Zenon DEF SubPushes, Pump
<1>2. UNCHANGED <<busStop, topics, created, bindings, done, leaked, topicsMu, pub, sub, chan,
                  closed, panicked, left, start, remaining, subscribed, subsClosed,
                  recvPump, sendPump, conn, stopping, stop, got>>
  BY Zenon DEF SubPushes, busVars
<1>3. /\ sendq[s] \in Seq(Messages) /\ held[s] \in Seq(Messages) /\ Len(held[s]) = 1
      /\ Len(sendq[s]) \in Nat /\ SendqCap \in Nat
  BY Zenon, <1>1, PathParts, CapacitiesAssumption DEF FlowInv, FlowTypes
<1>4. PICK y : y = sendq[s] \o held[s]
  BY Zenon
<1>5. y \in Seq(Messages) /\ Len(y) = Len(sendq[s]) + Len(held[s])
  BY <1>3, <1>4, Concat, Zenon
<1>6. << >> \in Seq(Messages) /\ Len(<< >>) = 0
  BY Zenon, EmptySeq
<1>7. /\ sendq' \in [Subscribers -> Seq(Messages)] /\ held' \in [Subscribers -> Seq(Messages)]
      /\ subPump' \in [Subscribers -> {"off", "select", "push", "ended"}]
      /\ sendq'[s] = y /\ held'[s] = << >> /\ subPump'[s] = "select"
      /\ \A z \in Subscribers : z # s =>
           sendq'[z] = sendq[z] /\ held'[z] = held[z] /\ subPump'[z] = subPump[z]
  BY Zenon, <1>1, <1>4, <1>5, <1>6 DEF FlowInv, FlowTypes
<1>8. start[s] # "new"
  BY Zenon, <1>1 DEF FlowInv, FlowTypes
<1>9. FlowTypes'
  <2>1. \A z \in Subscribers :
          /\ Len(chan[z]) <= ChanCap[z] /\ Len(sendq'[z]) <= SendqCap
          /\ Len(held'[z]) = IF subPump'[z] = "push" THEN 1 ELSE 0
          /\ start[z] = "new" => subPump'[z] = "off"
    <3> TAKE z \in Subscribers
    <3>1. CASE z = s
      BY SMTT(30), <3>1, <1>1, <1>3, <1>5, <1>6, <1>7, <1>8 DEF FlowInv, FlowTypes
    <3>2. CASE z # s
      BY Zenon, <3>2, <1>7 DEF FlowInv, FlowTypes
    <3> QED
      BY Zenon, <3>1, <3>2
  <2> QED
    BY Zenon, <1>2, <1>7, <2>1 DEF FlowInv, FlowTypes
<1>10. PathInv'
  <2>1. Path(s)' = Path(s)
    <3>1. got[s] \in Seq(Messages)
      BY Zenon, PathParts DEF FlowInv
    <3>2. (got[s] \o y) \o << >> = (got[s] \o sendq[s]) \o held[s]
      BY Zenon, <1>3, <1>4, <3>1, PathPush
    <3>3. Path(s)' = ((got[s] \o y) \o << >>) \o chan[s]
      BY Zenon, <1>2, <1>7 DEF Path
    <3> QED
      BY Zenon, <3>2, <3>3 DEF Path
  <2>2. \A z \in Subscribers : z # s => Path(z)' = Path(z)
    BY Zenon, <1>2, <1>7 DEF Path
  <2> QED
    BY Zenon, <1>2, <2>1, <2>2, PumpPaths
<1> QED
  BY Zenon, <1>2, <1>9, <1>10, PumpFlow

\* sendPump takes the head of the send queue, and sends it or loses it.
LEMMA SendTakesFlow ==
  ASSUME FlowInv, NEW s \in Subscribers, SendTakes(s)
  PROVE  FlowInv'
<1>1. PICK q, y : /\ q = sendq[s]
                  /\ y = IF s \in conn THEN Append(got[s], Head(q)) ELSE got[s]
  BY Zenon
<1>2. /\ q # << >> /\ got' = [got EXCEPT ![s] = y] /\ sendq' = [sendq EXCEPT ![s] = Tail(q)]
  BY Zenon, <1>1 DEF SendTakes
<1>3. UNCHANGED <<busStop, topics, created, bindings, done, leaked, topicsMu, pub, sub, chan,
                  closed, panicked, left, start, remaining, subscribed, subsClosed,
                  recvPump, subPump, held, conn, stopping, stop>>
  BY Zenon DEF SendTakes, busVars
<1>4. /\ q \in Seq(Messages) /\ got[s] \in Seq(Messages) /\ held[s] \in Seq(Messages)
      /\ chan[s] \in Seq(Messages) /\ SendqCap \in Nat /\ Len(q) <= SendqCap
  BY Zenon, <1>1, PathParts, CapacitiesAssumption DEF FlowInv, FlowTypes
<1>5. /\ Head(q) \in Messages /\ Tail(q) \in Seq(Messages) /\ Len(Tail(q)) = Len(q) - 1
      /\ Len(q) \in Nat
  BY Zenon, <1>2, <1>4, TailFacts
<1>6. y \in Seq(Messages)
  BY Zenon, <1>1, <1>4, <1>5, AppendProperties
<1>7. /\ sendq' \in [Subscribers -> Seq(Messages)] /\ got' \in [Subscribers -> Seq(Messages)]
      /\ sendq'[s] = Tail(q) /\ got'[s] = y
      /\ \A z \in Subscribers : z # s => sendq'[z] = sendq[z] /\ got'[z] = got[z]
  BY Zenon, <1>2, <1>5, <1>6 DEF FlowInv, FlowTypes
<1>8. FlowTypes'
  <2>1. \A z \in Subscribers : Len(sendq'[z]) <= SendqCap
    <3> TAKE z \in Subscribers
    <3>1. CASE z = s
      BY <3>1, <1>4, <1>5, <1>7
    <3>2. CASE z # s
      BY Zenon, <3>2, <1>7 DEF FlowInv, FlowTypes
    <3> QED
      BY Zenon, <3>1, <3>2
  <2> QED
    BY Zenon, <1>3, <1>7, <2>1 DEF FlowInv, FlowTypes
<1>9. \A z, m, k : Passed(z, m, k) <=> Passed(z, m, k)'
  BY Zenon, <1>3 DEF Passed, Due, Position
<1>10. PathInv'
  <2> SUFFICES ASSUME NEW z \in Subscribers
               PROVE  \E lab \in [DOMAIN Path(z)' -> DOMAIN CheckTopics] :
                        Labels(z, Path(z), lab)'
    BY Zenon DEF PathInv
  <2>1. CASE Path(z)' = Path(z)
    <3>1. PathInv /\ FlowTypes
      BY Zenon DEF FlowInv
    <3> QED
      BY Zenon, <1>9, <2>1, <3>1, LabelsStay
  <2>2. z # s => Path(z)' = Path(z)
    BY Zenon, <1>3, <1>7 DEF Path
  <2>3. s \in conn => Path(s)' = Path(s)
    <3> HAVE s \in conn
    <3>1. y \o Tail(q) = got[s] \o q
      BY Zenon, <1>1, <1>2, <1>4, PathSend
    <3>2. Path(s)' = ((y \o Tail(q)) \o held[s]) \o chan[s]
      BY Zenon, <1>3, <1>7 DEF Path
    <3>3. Path(s) = ((got[s] \o q) \o held[s]) \o chan[s]
      BY Zenon, <1>1 DEF Path
    <3> QED
      BY Zenon, <3>1, <3>2, <3>3
  <2>4. CASE z = s /\ s \notin conn
    <3>1. PICK a, r : a = got[s] /\ r = held[s] \o chan[s]
      BY Zenon
    <3>2. a \in Seq(Messages) /\ r \in Seq(Messages)
      BY <1>4, <3>1, Concat, Zenon
    <3>3. PICK path, new : path = (a \o q) \o r /\ new = (a \o Tail(q)) \o r
      BY Zenon
    <3>4. /\ new \in Seq(Messages) /\ Len(a) \in Nat /\ Len(path) = Len(new) + 1
          /\ \A i \in 1 .. Len(new) : new[i] = IF i <= Len(a) THEN path[i] ELSE path[i + 1]
      BY SMTT(30), <1>2, <1>4, <3>2, <3>3, PathLose
    <3>5. Path(s) = path
      <4>1. PICK x \in Seq(Messages) : x = a \o q
        BY <1>4, <3>2, Concat, Zenon
      <4>2. (x \o held[s]) \o chan[s] = x \o (held[s] \o chan[s])
        BY <1>4, Assoc, Zenon
      <4> QED
        BY Zenon, <4>1, <4>2, <1>1, <3>1, <3>3 DEF Path
    <3>6. Path(s)' = new
      <4>1. PICK t \in Seq(Messages) : t = Tail(q)
        BY Zenon, <1>5
      <4>2. PICK x \in Seq(Messages) : x = a \o t
        BY <4>1, <3>2, Concat, Zenon
      <4>3. (x \o held[s]) \o chan[s] = x \o (held[s] \o chan[s])
        BY <1>4, Assoc, Zenon
      <4>4. Path(s)' = (x \o held[s]) \o chan[s]
        BY Zenon, <4>1, <4>2, <2>4, <1>1, <1>3, <1>7, <3>1 DEF Path
      <4> QED
        BY Zenon, <4>1, <4>2, <4>3, <4>4, <3>1, <3>3
    <3>7. path \in Seq(Messages)
      BY Zenon, <3>5, PathType DEF FlowInv
    <3>8. PICK lab \in [DOMAIN path -> DOMAIN CheckTopics] : Labels(s, path, lab)
      BY Zenon, <3>5 DEF FlowInv, PathInv
    <3>9. PICK l \in [DOMAIN new -> DOMAIN CheckTopics] : Labels(s, new, l)
      BY Zenon, <3>4, <3>7, <3>8, RemoveLabels
    <3>10. Labels(s, new, l)'
      BY Zenon, <3>9, <1>9 DEF Labels
    <3> QED
      BY Zenon, <2>4, <3>6, <3>9, <3>10
  <2>5. (z = s /\ s \notin conn) \/ Path(z)' = Path(z)
    <3>1. CASE z = s
      BY Zenon, <3>1, <2>3
    <3>2. CASE z # s
      BY Zenon, <3>2, <2>2
    <3> QED
      BY Zenon, <3>1, <3>2
  <2> QED
    BY Zenon, <2>1, <2>4, <2>5
<1> QED
  BY Zenon, <1>3, <1>8, <1>10, PumpFlow

-----------------------------------------------------------------------------
(***************************************************************************)
(* Bindings.  Two sessions under one name unbind each other, and the last  *)
(* consumer of a topic may leave between another one's look-up and its     *)
(* binding; what is proved of the bindings is for the rest.                *)
(***************************************************************************)

\* No two sessions are of the same agent.
DistinctAgents ==
  \A s, q \in Subscribers : ConsumerName[s] = ConsumerName[q] => s = q

\* A topic that two sessions subscribe to has a steady session too.
SharedIsSteady ==
  \A s, q \in Subscribers : s # q =>
    \A t \in Subs(s) \cap Subs(q) : \E z \in Steady : t \in Subs(z)

UpInv == FlowInv /\ SteadyInv /\ StartInv /\ MutexInv /\ BoundInv

\* Steps of schedulers, of subPump, of sendPump, and most of Stop.
LEMMA KeepUp ==
  ASSUME UpInv, FlowInv',
         UNCHANGED <<busStop, topics, done, bindings, topicsMu, sub, start, remaining,
                     recvPump, conn, stopping>>
  PROVE  UpInv'
<1>1. SteadyInv' /\ StartInv'
  BY Zenon DEF UpInv, SteadyInv, StartInv, running
<1>2. MutexInv'
  BY Zenon DEF UpInv, MutexInv
<1>3. BoundInv'
  BY Zenon DEF UpInv, BoundInv, Bound, running
<1> QED
  BY Zenon, <1>1, <1>2, <1>3 DEF UpInv

\* While the bus runs, sessions whose bindings stay are as bound as before;
\* when it stops, nothing is claimed.
LEMMA KeepBound ==
  ASSUME UpInv, running' => running, stopping \subseteq stopping',
         UNCHANGED <<topics, done, bindings, sub, remaining>>
  PROVE  BoundInv'
BY Zenon DEF UpInv, BoundInv, Bound

\* A session begins.
LEMMA ConnectUp ==
  ASSUME UpInv, FlowInv', NEW s \in Subscribers, Connect(s)
  PROVE  UpInv'
<1> USE DEF Connect, busVars
<1>1. /\ start[s] = "new" /\ start' = [start EXCEPT ![s] = "subscribing"]
      /\ recvPump' = [recvPump EXCEPT ![s] = "receive"] /\ conn' = conn \cup {s}
      /\ s \in Steady \/ \A q \in Steady : start[q] = "started"
      /\ UNCHANGED <<busStop, topics, done, bindings, topicsMu, sub, remaining, stopping>>
  BY Zenon
<1>2. /\ start \in [Subscribers -> {"new", "subscribing", "started", "failed"}]
      /\ recvPump \in [Subscribers -> {"off", "receive", "exited", "stop", "ended"}]
      /\ Steady \subseteq Subscribers
  BY Zenon, SessionsAssumption DEF UpInv, FlowInv, SessionTypes
<1>3. /\ start'[s] = "subscribing" /\ \A z \in Subscribers : z # s => start'[z] = start[z]
      /\ recvPump'[s] = "receive" /\ \A z \in Subscribers : z # s => recvPump'[z] = recvPump[z]
  BY Zenon, <1>1, <1>2
<1>4. SteadyInv'
  BY Zenon, <1>1, <1>2, <1>3 DEF UpInv, SteadyInv, running
<1>5. StartInv'
  <2>1. \A z \in Subscribers :
          /\ start'[z] = "new" => remaining[z] = SubscriptionsOf[z] /\ recvPump'[z] = "off"
          /\ sub[z].pc # "idle" => start'[z] = "subscribing"
          /\ start'[z] = "started" => remaining[z] = << >>
          /\ start'[z] = "failed" => z \in stopping
          /\ z \in stopping => start'[z] # "new"
    BY SMTT(30), <1>1, <1>3 DEF UpInv, StartInv
  <2>2. \A z \in Subscribers : start'[z] # "new" /\ z \notin Steady =>
          \A q \in Steady : start[q] = "started"
    BY Zenon, <1>1, <1>3 DEF UpInv, StartInv
  <2>3. \A q \in Steady : start[q] = "started" => start'[q] = "started"
    BY Zenon, <1>1, <1>2, <1>3
  <2> QED
    BY Zenon, <1>1, <2>1, <2>2, <2>3 DEF StartInv
<1>6. MutexInv'
  BY <1>1 DEF UpInv, MutexInv
<1>7. BoundInv'
  BY Zenon, <1>1, KeepBound DEF running
<1> QED
  BY Zenon, <1>4, <1>5, <1>6, <1>7 DEF UpInv

\* The connection of a session breaks, which those of Steady do not.
LEMMA DisconnectUp ==
  ASSUME UpInv, FlowInv', NEW s \in Subscribers, Disconnect(s)
  PROVE  UpInv'
<1> USE DEF Disconnect, busVars
<1>1. SteadyInv'
  BY Zenon DEF UpInv, SteadyInv, running
<1>2. StartInv' /\ MutexInv'
  BY Zenon DEF UpInv, StartInv, MutexInv
<1>3. BoundInv'
  BY Zenon, KeepBound DEF running
<1> QED
  BY Zenon, <1>1, <1>2, <1>3 DEF UpInv

\* Start begins its next call of Subscribe.
LEMMA StartSubscribesUp ==
  ASSUME UpInv, FlowInv', NEW s \in Subscribers, StartSubscribes(s)
  PROVE  UpInv'
<1>1. PICK q, t : q = remaining[s] /\ t = Head(q)
  BY Zenon
<1>2. /\ start[s] = "subscribing" /\ q # << >> /\ sub[s].pc = "idle"
      /\ remaining' = [remaining EXCEPT ![s] = Tail(q)]
      /\ sub' = [sub EXCEPT ![s] = [pc |-> "find", topic |-> t]]
      /\ UNCHANGED <<busStop, topics, done, bindings, topicsMu, start, recvPump, conn, stopping>>
  BY Zenon, <1>1 DEF StartSubscribes, Subscribe
<1>3. q \in Seq(Topics) /\ sub \in [Subscribers -> SubCalls]
      /\ remaining \in [Subscribers -> Seq(Topics)]
  BY Zenon, <1>1 DEF UpInv, FlowInv, SessionTypes
<1>4. \A x \in Range(q) : x = t \/ x \in Range(Tail(q))
  BY Zenon, <1>1, <1>2, <1>3, TailFacts
<1>5. /\ sub'[s] = [pc |-> "find", topic |-> t] /\ remaining'[s] = Tail(q)
      /\ \A z \in Subscribers : z # s => sub'[z] = sub[z] /\ remaining'[z] = remaining[z]
  BY Zenon, <1>2, <1>3
<1>6. SteadyInv'
  BY Zenon, <1>2 DEF UpInv, SteadyInv, running
<1>7. StartInv'
  BY SMTT(30), <1>2, <1>5 DEF UpInv, StartInv
<1>8. MutexInv'
  BY SMTT(30), <1>2, <1>5 DEF UpInv, MutexInv
<1>9. BoundInv'
  <2>0. /\ topics' = topics /\ done' = done /\ busStop' = busStop /\ stopping' = stopping
        /\ \A z, x : Bound(z, x)' <=> Bound(z, x)
    BY Zenon, <1>2 DEF Bound
  <2> SUFFICES ASSUME running, NEW z \in Subscribers \ stopping
               PROVE  /\ sub'[z].pc = "bind" => sub'[z].object \notin done
                      /\ \A x \in Subs(z) :
                           \/ x \in Range(remaining'[z])
                           \/ sub'[z].pc = "find" /\ sub'[z].topic = x
                           \/ sub'[z].pc = "bind" /\ sub'[z].object = topics[x]
                           \/ Bound(z, x)
    BY Zenon, <2>0 DEF BoundInv, running
  <2>1. CASE z = s
    <3>1. sub'[z].pc = "find" /\ sub'[z].topic = t /\ remaining'[z] = Tail(q)
      BY Zenon, <2>1, <1>5, FindFields
    <3>2. \A x \in Subs(z) : x \in Range(q) \/ Bound(z, x)
      BY Zenon, <2>1, <1>1, <1>2 DEF UpInv, BoundInv
    <3> QED
      BY Zenon, <3>1, <3>2, <1>4
  <2>2. CASE z # s
    BY Zenon, <2>2, <1>5 DEF UpInv, BoundInv
  <2> QED
    BY Zenon, <2>1, <2>2
<1> QED
  BY Zenon, <1>6, <1>7, <1>8, <1>9 DEF UpInv

\* FindTopic leaves the objects that sessions are bound to in their place.
LEMMA StartFindsUp ==
  ASSUME UpInv, FlowInv', NEW s \in Subscribers, StartFinds(s)
  PROVE  UpInv'
<1>1. PICK t, g, fresh :
        /\ t = sub[s].topic /\ fresh = (topics[t] = 0 \/ topics[t] \in done)
        /\ g = IF fresh THEN created + 1 ELSE topics[t]
  BY ZenonT(30)
<1>2. /\ sub[s].pc = "find" /\ ~topicsMu /\ topicsMu' = TRUE
      /\ topics' = [topics EXCEPT ![t] = g]
      /\ sub' = [sub EXCEPT ![s] = [pc |-> "bind", object |-> g]]
      /\ UNCHANGED <<busStop, done, bindings, start, remaining, recvPump, conn, stopping>>
  BY ZenonT(30), <1>1 DEF StartFinds, FindTopic, sessionVars
<1>3. /\ t \in Topics /\ created \in Nat /\ topics \in [Topics -> 0 .. created]
      /\ done \subseteq 1 .. created /\ sub \in [Subscribers -> SubCalls]
  <2>1. /\ created \in 0 .. MaxTopics /\ topics \in [Topics -> 0 .. created]
        /\ done \subseteq 1 .. created /\ sub \in [Subscribers -> SubCalls]
    BY Zenon DEF UpInv, FlowInv, SessionTypes, BusTypes
  <2>2. created \in Nat
    BY <2>1
  <2>3. t \in Topics
    BY Zenon, <2>1, <1>1, <1>2, SubFields
  <2> QED
    BY Zenon, <2>1, <2>2, <2>3
<1>4. /\ sub'[s] = [pc |-> "bind", object |-> g]
      /\ \A z \in Subscribers : z # s => sub'[z] = sub[z]
      /\ topics'[t] = g /\ \A x \in Topics : x # t => topics'[x] = topics[x]
  BY Zenon, <1>2, <1>3
<1>5. g \notin done
  <2>1. CASE fresh
    BY <2>1, <1>1, <1>3
  <2>2. CASE ~fresh
    BY <2>2, <1>1, Zenon
  <2> QED
    BY Zenon, <2>1, <2>2
<1>6. \A z \in Subscribers : sub[z].pc # "bind"
  BY Zenon, <1>2 DEF UpInv, MutexInv
<1>7. SteadyInv' /\ StartInv'
  <2>1. SteadyInv'
    BY Zenon, <1>2 DEF UpInv, SteadyInv, running
  <2>2. StartInv'
    BY ZenonT(30), <1>2, <1>4 DEF UpInv, StartInv
  <2> QED
    BY Zenon, <2>1, <2>2
<1>8. MutexInv'
  BY ZenonT(30), <1>2, <1>3, <1>4, <1>6 DEF MutexInv
<1>9. ASSUME NEW z, NEW x \in Topics, Bound(z, x) PROVE Bound(z, x)'
  <2>1. topics'[x] = topics[x]
    <3>1. CASE x = t
      <4>1. g = topics[t]
        BY <1>9, <3>1, <1>1, Zenon DEF Bound
      <4> QED
        BY Zenon, <3>1, <4>1, <1>4
    <3>2. CASE x # t
      BY Zenon, <3>2, <1>4
    <3> QED
      BY Zenon, <3>1, <3>2
  <2> QED
    <3>1. done' = done /\ bindings' = bindings
      BY Zenon, <1>2
    <3> QED
      BY Zenon, <1>9, <2>1, <3>1 DEF Bound
<1>10. BoundInv'
  <2> SUFFICES ASSUME running, NEW z \in Subscribers \ stopping
               PROVE  /\ sub'[z].pc = "bind" => sub'[z].object \notin done
                      /\ \A x \in Subs(z) :
                           \/ x \in Range(remaining[z])
                           \/ sub'[z].pc = "find" /\ sub'[z].topic = x
                           \/ sub'[z].pc = "bind" /\ sub'[z].object = topics'[x]
                           \/ Bound(z, x)'
    BY Zenon, <1>2 DEF BoundInv, running
  <2>1. Subs(z) \subseteq Topics
    <3>1. SubscriptionsOf[z] \in Seq(Topics)
      BY Zenon, SubscriptionsAssumption
    <3> QED
      BY Zenon, <3>1, MembersOfSeq DEF Subs
  <2>2. \A x \in Subs(z) :
          x \in Range(remaining[z]) \/ (sub[z].pc = "find" /\ sub[z].topic = x) \/ Bound(z, x)
    BY Zenon, <1>6 DEF UpInv, BoundInv
  <2>3. CASE z = s
    <3>1. sub'[z].pc = "bind" /\ sub'[z].object = g
      BY Zenon, <2>3, <1>4, BindFields
    <3>2. sub[z].topic = t /\ topics'[t] = g
      BY Zenon, <2>3, <1>1, <1>4
    <3> QED
      BY Zenon, <3>1, <3>2, <2>1, <2>2, <1>5, <1>9
  <2>4. CASE z # s
    BY Zenon, <2>1, <2>2, <2>4, <1>4, <1>6, <1>9
  <2> QED
    BY Zenon, <2>3, <2>4
<1> QED
  BY Zenon, <1>7, <1>8, <1>10 DEF UpInv

\* A binding takes the place of none, when agents have different names.
LEMMA StartBindsUp ==
  ASSUME DistinctAgents, UpInv, FlowInv', NEW s \in Subscribers, StartBinds(s)
  PROVE  UpInv'
<1>1. PICK g, n, b : /\ g = sub[s].object /\ n = ConsumerName[s]
                     /\ b = [x \in DOMAIN bindings[g] \cup {n} |->
                               IF x = n THEN s ELSE bindings[g][x]]
  BY Zenon
<1>2. /\ sub[s].pc = "bind" /\ sub' = [sub EXCEPT ![s] = Returned]
      /\ bindings' = [bindings EXCEPT ![g] = b]
      /\ UNCHANGED <<busStop, topics, done, start, remaining, recvPump, conn, stopping>>
  BY Zenon, <1>1 DEF StartBinds, BindConsumer
<1>3. /\ g \in Objects /\ sub \in [Subscribers -> SubCalls] /\ DOMAIN bindings = Objects
      /\ topics \in [Topics -> 0 .. created]
  BY Zenon, <1>1, <1>2, SubFields DEF UpInv, FlowInv, SessionTypes, BusTypes
<1>4. /\ sub'[s] = Returned /\ \A z \in Subscribers : z # s => sub'[z] = sub[z]
      /\ bindings'[g] = b /\ \A o : o # g => bindings'[o] = bindings[o]
      /\ n \in DOMAIN b /\ b[n] = s
      /\ \A x \in DOMAIN bindings[g] : x # n => x \in DOMAIN b /\ b[x] = bindings[g][x]
  BY <1>1, <1>2, <1>3
<1>5. SteadyInv'
  BY Zenon, <1>2 DEF UpInv, SteadyInv, running
<1>6. StartInv'
  BY Zenon, <1>2, <1>4 DEF UpInv, StartInv, Returned
<1>7. \A z \in Subscribers : sub'[z].pc # "bind"
  <2>1. sub'[s].pc # "bind"
    BY Zenon, <1>4, ReturnedIsIdle
  <2>2. \A z \in Subscribers : z # s => sub[z].pc # "bind"
    BY Zenon, <1>2 DEF UpInv, MutexInv
  <2> QED
    BY Zenon, <2>1, <2>2, <1>4
<1>8. MutexInv'
  BY Zenon, <1>7 DEF MutexInv
<1>9. ASSUME NEW z \in Subscribers, NEW x, Bound(z, x) PROVE Bound(z, x)'
  <2>1. CASE topics[x] = g
    <3>1. CASE z = s
      BY Zenon, <1>9, <2>1, <3>1, <1>1, <1>2, <1>4 DEF Bound
    <3>2. CASE z # s
      <4>1. ConsumerName[z] # n
        BY Zenon, <3>2, <1>1 DEF DistinctAgents
      <4> QED
        <5>1. topics' = topics /\ done' = done
          BY Zenon, <1>2
        <5>2. ConsumerName[z] \in DOMAIN bindings[g] /\ bindings[g][ConsumerName[z]] = z
          BY Zenon, <1>9, <2>1 DEF Bound
        <5>3. ConsumerName[z] \in DOMAIN bindings'[g] /\ bindings'[g][ConsumerName[z]] = z
          BY Zenon, <5>2, <4>1, <1>4
        <5> QED
          BY Zenon, <1>9, <2>1, <5>1, <5>3 DEF Bound
    <3> QED
      BY ZenonT(30), <3>1, <3>2
  <2>2. CASE topics[x] # g
    BY Zenon, <1>9, <2>2, <1>2, <1>4 DEF Bound
  <2> QED
    BY Zenon, <2>1, <2>2
<1>10. ASSUME NEW x, g = topics[x], g \notin done PROVE Bound(s, x)'
  <2>1. g # 0
    BY <1>3 DEF Objects
  <2> QED
    BY Zenon, <1>10, <2>1, <1>1, <1>2, <1>4 DEF Bound
<1>11. BoundInv'
  <2> SUFFICES ASSUME running, NEW z \in Subscribers \ stopping
               PROVE  /\ sub'[z].pc = "bind" => sub'[z].object \notin done
                      /\ \A x \in Subs(z) :
                           \/ x \in Range(remaining[z])
                           \/ sub'[z].pc = "find" /\ sub'[z].topic = x
                           \/ sub'[z].pc = "bind" /\ sub'[z].object = topics[x]
                           \/ Bound(z, x)'
    BY Zenon, <1>2 DEF BoundInv, running
  <2>1. CASE z = s
    <3>1. g \notin done
      BY Zenon, <2>1, <1>1, <1>2 DEF UpInv, BoundInv
    <3>2. \A x \in Subs(s) : x \in Range(remaining[s]) \/ g = topics[x] \/ Bound(s, x)
      BY Zenon, <2>1, <1>1, <1>2 DEF UpInv, BoundInv
    <3> QED
      BY Zenon, <2>1, <3>1, <3>2, <1>7, <1>9, <1>10
  <2>2. CASE z # s
    <3>1. sub[z].pc # "bind" /\ sub'[z] = sub[z]
      BY Zenon, <2>2, <1>4, <1>7
    <3>2. \A x \in Subs(z) :
            x \in Range(remaining[z]) \/ (sub[z].pc = "find" /\ sub[z].topic = x) \/ Bound(z, x)
      BY Zenon, <3>1 DEF UpInv, BoundInv
    <3> QED
      BY Zenon, <3>1, <3>2, <1>9
  <2> QED
    BY Zenon, <2>1, <2>2
<1> QED
  BY ZenonT(30), <1>5, <1>6, <1>8, <1>11 DEF UpInv

\* start returns with every subscription bound.
LEMMA StartEndsUp ==
  ASSUME UpInv, FlowInv', NEW s \in Subscribers, StartEnds(s)
  PROVE  UpInv'
<1>1. /\ start[s] = "subscribing" /\ remaining[s] = << >> /\ sub[s].pc = "idle"
      /\ start' = [start EXCEPT ![s] = "started"]
      /\ UNCHANGED <<busStop, topics, done, bindings, topicsMu, sub, remaining, recvPump,
                     conn, stopping>>
  BY Zenon DEF StartEnds, busVars
<1>2. start'[s] = "started" /\ \A z \in Subscribers : z # s => start'[z] = start[z]
  BY SMTT(30), <1>1 DEF UpInv, FlowInv, SessionTypes
<1>3. SteadyInv'
  BY Zenon, <1>1 DEF UpInv, SteadyInv, running
<1>4. StartInv'
  <2>1. \A z \in Subscribers : start[z] = "started" => start'[z] = "started"
    BY Zenon, <1>2
  <2>2. \A z \in Steady : z \in Subscribers
    BY Zenon, SessionsAssumption
  <2>3. /\ start[s] = "subscribing" /\ remaining[s] = << >> /\ sub[s].pc = "idle"
        /\ remaining' = remaining /\ sub' = sub /\ recvPump' = recvPump /\ stopping' = stopping
    BY Zenon, <1>1
  <2> SUFFICES ASSUME NEW z \in Subscribers
               PROVE  /\ start'[z] = "new" => remaining[z] = SubscriptionsOf[z] /\ recvPump[z] = "off"
                      /\ sub[z].pc # "idle" => start'[z] = "subscribing"
                      /\ start'[z] = "started" => remaining[z] = << >>
                      /\ start'[z] = "failed" => z \in stopping
                      /\ z \in stopping => start'[z] # "new"
                      /\ start'[z] # "new" /\ z \notin Steady =>
                           \A y \in Steady : start'[y] = "started"
    BY Zenon, <2>3 DEF StartInv
  <2>4. start'[z] # "new" /\ z \notin Steady => \A y \in Steady : start'[y] = "started"
    <3>1. start'[z] # "new" => start[z] # "new"
      BY Zenon, <1>2, <2>3
    <3> QED
      BY Zenon, <3>1, <2>1, <2>2 DEF UpInv, StartInv
  <2>5. CASE z = s
    BY Zenon, <2>3, <2>4, <2>5, <1>2
  <2>6. CASE z # s
    BY Zenon, <2>4, <2>6, <1>2 DEF UpInv, StartInv
  <2> QED
    BY Zenon, <2>5, <2>6
<1>5. MutexInv'
  BY Zenon, <1>1 DEF UpInv, MutexInv
<1>6. BoundInv'
  BY Zenon, <1>1, KeepBound DEF running
<1> QED
  BY Zenon, <1>3, <1>4, <1>5, <1>6 DEF UpInv

\* Subscribe fails when the bus is stopped only.
LEMMA StartFailsUp ==
  ASSUME UpInv, FlowInv', NEW s \in Subscribers, StartFails(s)
  PROVE  UpInv'
<1>1. /\ start[s] = "subscribing" /\ sub[s].pc = "idle" /\ ~running
      /\ start' = [start EXCEPT ![s] = "failed"] /\ stopping' = stopping \cup {s}
      /\ UNCHANGED <<busStop, topics, done, bindings, topicsMu, sub, remaining, recvPump, conn>>
  BY Zenon DEF StartFails, CallStop
<1>2. start'[s] = "failed" /\ \A z \in Subscribers : z # s => start'[z] = start[z]
  BY SMTT(30), <1>1 DEF UpInv, FlowInv, SessionTypes
<1>3. SteadyInv'
  BY Zenon, <1>1 DEF UpInv, SteadyInv, running
<1>4. StartInv'
  BY SMTT(30), <1>1, <1>2, SessionsAssumption DEF UpInv, StartInv
<1>5. MutexInv'
  BY Zenon, <1>1 DEF UpInv, MutexInv
<1>6. BoundInv'
  BY Zenon, <1>1, KeepBound DEF running
<1> QED
  BY Zenon, <1>3, <1>4, <1>5, <1>6 DEF UpInv

\* recvPump of a steady session goes on receiving while the bus runs.
LEMMA RecvUp ==
  ASSUME UpInv, FlowInv', NEW s \in Subscribers, RecvStep(s)
  PROVE  UpInv'
<1>1. PICK from, to : Pump(recvPump, s, from, to) /\ from \in {"receive", "exited", "stop"}
                      /\ to \in {"exited", "ended", "stop"}
                      /\ (from = "receive" => s \notin conn \/ s \in stopping)
                      /\ (stopping' = stopping \/ stopping' = stopping \cup {s})
  BY Zenon DEF RecvStep, RecvExits, RecvLooks, RecvStops, CallStop
<1>2. UNCHANGED <<busStop, topics, done, bindings, topicsMu, sub, start, remaining, conn>>
  BY Zenon DEF RecvStep, RecvExits, RecvLooks, RecvStops, CallStop, busVars
<1>3. /\ recvPump[s] = from /\ recvPump'[s] = to
      /\ \A z \in Subscribers : z # s => recvPump'[z] = recvPump[z]
  BY <1>1 DEF Pump, UpInv, FlowInv, SessionTypes
<1>4. SteadyInv'
  <2> SUFFICES ASSUME NEW z \in Steady
               PROVE  /\ recvPump'[z] = "off" \/ z \in conn
                      /\ running => z \notin stopping' /\ recvPump'[z] \in {"off", "receive"}
    BY Zenon, <1>2 DEF SteadyInv, running
  <2>1. CASE z = s
    <3>1. z \in conn /\ ~running
      BY Zenon, <2>1, <1>1, <1>3 DEF UpInv, SteadyInv
    <3> QED
      BY Zenon, <3>1
  <2>2. CASE z # s
    <3>1. recvPump'[z] = recvPump[z]
      BY Zenon, <2>2, <1>3, SessionsAssumption
    <3> QED
      BY Zenon, <2>2, <3>1, <1>1 DEF UpInv, SteadyInv
  <2> QED
    BY Zenon, <2>1, <2>2
<1>5. StartInv'
  BY SMTT(30), <1>1, <1>2, <1>3 DEF UpInv, StartInv
<1>6. MutexInv'
  BY Zenon, <1>2 DEF UpInv, MutexInv
<1>7. BoundInv'
  BY Zenon, <1>1, <1>2, KeepBound DEF running
<1> QED
  BY Zenon, <1>4, <1>5, <1>6, <1>7 DEF UpInv

\* A cancelled subscription unbinds its own session, and closes no object
\* that another session is bound to, or is about to bind.
LEMMA StopCancelsUp ==
  ASSUME DistinctAgents, SharedIsSteady, UpInv, FlowInv', NEW s \in Subscribers, StopCancels(s)
  PROVE  UpInv'
<1>1. PICK g, b : g = Head(subscribed[s]) /\ b = Unbound(bindings[g], ConsumerName[s])
  BY Zenon
<1>2. /\ stop[s] = "cancel" /\ subscribed[s] # << >>
      /\ bindings' = [bindings EXCEPT ![g] = b]
      /\ done' = IF DOMAIN bindings'[g] = {} THEN done \cup {g} ELSE done
      /\ UNCHANGED <<busStop, topics, topicsMu, sub, start, remaining, recvPump, conn, stopping>>
  BY Zenon, <1>1 DEF StopCancels, Unsubscribe
<1>3. s \in stopping
  BY Zenon, <1>2 DEF UpInv, FlowInv, SessionTypes
<1>4. g \in Objects /\ g \in Range(subscribed[s]) /\ DOMAIN bindings = Objects
  BY Zenon, <1>1, <1>2, TailFacts DEF UpInv, FlowInv, SessionTypes, BusTypes
<1>5. /\ bindings'[g] = b /\ \A o : o # g => bindings'[o] = bindings[o]
      /\ DOMAIN b = DOMAIN bindings[g] \ {ConsumerName[s]}
      /\ \A n \in DOMAIN b : b[n] = bindings[g][n]
      /\ done' = IF DOMAIN b = {} THEN done \cup {g} ELSE done
  BY SMTT(30), <1>1, <1>2, <1>4 DEF Unbound
<1>6. SteadyInv' /\ StartInv'
  <2>1. SteadyInv'
    BY Zenon, <1>2 DEF UpInv, SteadyInv, running
  <2>2. StartInv'
    BY Zenon, <1>2 DEF UpInv, StartInv
  <2> QED
    BY Zenon, <2>1, <2>2
<1>7. MutexInv'
  BY Zenon, <1>2 DEF UpInv, MutexInv
<1>8. ASSUME NEW z \in Subscribers, z # s, NEW x, Bound(z, x) PROVE Bound(z, x)'
  <2>1. CASE topics[x] = g
    <3>1. ConsumerName[z] # ConsumerName[s]
      BY Zenon, <1>8 DEF DistinctAgents
    <3>2. ConsumerName[z] \in DOMAIN b /\ b[ConsumerName[z]] = z
      BY Zenon, <1>8, <2>1, <3>1, <1>5 DEF Bound
    <3>3. done' = done
      BY Zenon, <3>2, <1>5
    <3> QED
      BY Zenon, <1>8, <2>1, <3>2, <3>3, <1>2, <1>5 DEF Bound
  <2>2. CASE topics[x] # g
    <3>1. topics[x] \notin done'
      BY Zenon, <1>8, <2>2, <1>5 DEF Bound
    <3> QED
      BY Zenon, <1>8, <2>2, <3>1, <1>2, <1>5 DEF Bound
  <2> QED
    BY Zenon, <2>1, <2>2
<1>9. ASSUME running, NEW z \in Subscribers \ stopping, sub[z].pc = "bind"
      PROVE  sub[z].object \notin done'
  <2>1. sub[z].object \notin done
    BY Zenon, <1>9 DEF UpInv, BoundInv
  <2>2. ASSUME sub[z].object = g PROVE DOMAIN b # {}
    <3>1. PICK t \in Topics : topics[t] = g
      BY Zenon, <1>9, <2>2 DEF UpInv, MutexInv
    <3>2. PICK home : HomeInv(home)
      BY Zenon DEF UpInv, FlowInv, BusInv
    <3>3. home[g] = t
      BY SMTT(30), <3>1, <3>2, <1>4 DEF HomeInv, Objects
    <3>4. t \in Subs(s) /\ t \in Subs(z)
      BY Zenon, <1>4, <1>9, <2>2, <3>2, <3>3 DEF HomeInv
    <3>5. z # s
      BY Zenon, <1>3, <1>9
    <3>6. PICK y \in Steady : t \in Subs(y)
      BY <3>4, <3>5 DEF SharedIsSteady
    <3>7. y \in Subscribers /\ y \notin stopping /\ s \notin Steady
      BY Zenon, <1>3, <1>9, SessionsAssumption DEF UpInv, SteadyInv
    <3>8. start[y] = "started"
      BY Zenon, <1>3, <3>7 DEF UpInv, StartInv
    <3>9. remaining[y] = << >> /\ sub[y].pc = "idle"
      BY Zenon, <3>7, <3>8 DEF UpInv, StartInv
    <3>10. Range(remaining[y]) = {}
      BY <3>9 DEF Range
    <3>11. Bound(y, t)
      BY Zenon, <1>9, <3>6, <3>7, <3>9, <3>10 DEF UpInv, BoundInv
    <3>12. ConsumerName[y] # ConsumerName[s]
      BY Zenon, <1>3, <3>7 DEF DistinctAgents
    <3> QED
      BY Zenon, <3>1, <3>11, <3>12, <1>5 DEF Bound
  <2> QED
    BY Zenon, <2>1, <2>2, <1>5
<1>10. BoundInv'
  <2> SUFFICES ASSUME running, NEW z \in Subscribers \ stopping
               PROVE  /\ sub[z].pc = "bind" => sub[z].object \notin done'
                      /\ \A x \in Subs(z) :
                           \/ x \in Range(remaining[z])
                           \/ sub[z].pc = "find" /\ sub[z].topic = x
                           \/ sub[z].pc = "bind" /\ sub[z].object = topics[x]
                           \/ Bound(z, x)'
    BY Zenon, <1>2 DEF BoundInv, running
  <2>1. z # s
    BY Zenon, <1>3
  <2> QED
    BY Zenon, <2>1, <1>8, <1>9 DEF UpInv, BoundInv
<1> QED
  BY Zenon, <1>6, <1>7, <1>10 DEF UpInv

\* Nothing is promised once the bus is stopped.
LEMMA BusStopUp ==
  ASSUME UpInv, FlowInv', BusStop
  PROVE  UpInv'
<1>1. /\ ~running'
      /\ UNCHANGED <<topics, topicsMu, sub, start, remaining, recvPump, conn, stopping>>
  BY Zenon DEF BusStop, StopRunning, CloseTopics, running, sessionVars
<1>2. SteadyInv' /\ StartInv'
  BY Zenon, <1>1 DEF UpInv, SteadyInv, StartInv
<1>3. MutexInv' /\ BoundInv'
  BY Zenon, <1>1 DEF UpInv, MutexInv, BoundInv
<1> QED
  BY Zenon, <1>2, <1>3 DEF UpInv

-----------------------------------------------------------------------------
(***************************************************************************)
(* The invariants are inductive, and what follows.  FiniteSetTheorems has  *)
(* the facts about Cardinality, which the order of the bindings and the    *)
(* number of publications of a request are about.                          *)
(***************************************************************************)
INSTANCE FiniteSetTheorems

\* The order in which Send goes through the bindings has each of them once.
LEMMA OrderFacts ==
  ASSUME NEW S \in SUBSET Subscribers, NEW order \in Orders(S)
  PROVE  order \in Seq(Subscribers) /\ IsInjective(order) /\ Range(order) \subseteq S
<1>1. order \in [1 .. Cardinality(S) -> S] /\ IsInjective(order)
  BY Zenon DEF Orders, Bijection, Injection
<1>2. Range(order) \subseteq S
  BY Zenon, <1>1 DEF Range
<1>3. Cardinality(S) \in Nat
  BY Zenon, SessionsAssumption, FS_Subset, FS_CardinalityType
<1>4. order \in [1 .. Cardinality(S) -> Subscribers]
  BY Zenon, <1>1
<1>5. PICK n \in Nat : n = Cardinality(S)
  BY Zenon, <1>3
<1>6. order \in Seq(Subscribers)
  BY SMTT(30), <1>4, <1>5
<1> QED
  BY Zenon, <1>1, <1>2, <1>6

\* Send copies the bindings of the object: each of them is a session of the
\* topic, bound once, so that a publication is due to it once.
LEMMA CopyBindingsFlow ==
  ASSUME FlowInv, NEW p \in Publishers, CopyBindings(p), UNCHANGED sessionVars
  PROVE  FlowInv'
<1>1. /\ pub[p] \in PubCalls /\ pub[p].pc = "copy"
      /\ pub[p].object \in Objects /\ pub[p].msg \in Messages
  BY Zenon, PubFields DEF CopyBindings, FlowInv, FlowTypes
<1>2. PICK S : S = Range(bindings[pub[p].object])
  BY Zenon
<1>3. S \subseteq Subscribers
  BY SMTT(30), <1>1, <1>2 DEF FlowInv, BusTypes, Range
<1>4. PICK order \in Orders(S) :
        /\ pub' = [pub EXCEPT ![p] =
                     IF order = << >> THEN Returned
                     ELSE [pc |-> "send", object |-> pub[p].object,
                           msg |-> pub[p].msg, to |-> order]]
        /\ UNCHANGED <<busStop, topics, created, bindings, done, leaked, topicsMu,
                       sub, chan, closed, panicked, sessionVars>>
  BY Zenon, <1>2 DEF CopyBindings
<1>5. order \in Seq(Subscribers) /\ IsInjective(order) /\ Range(order) \subseteq S
  BY Zenon, <1>3, OrderFacts
<1>6. PICK c : c = IF order = << >> THEN Returned
                   ELSE [pc |-> "send", object |-> pub[p].object,
                         msg |-> pub[p].msg, to |-> order]
  BY Zenon
<1>7. c \in PubCalls
  BY Zenon, <1>1, <1>5, <1>6 DEF PubCalls
<1>8. /\ c.pc \in {"idle", "send"}
      /\ c.pc = "send" => /\ c.object = pub[p].object /\ c.msg = pub[p].msg
                          /\ c.to = order /\ order # << >>
  BY Zenon, <1>6 DEF Returned
<1>9. \A home : HomeInv(home) => \A s \in S : home[pub[p].object] \in Subs(s)
  BY Zenon, <1>1, <1>2 DEF HomeInv, Range
<1>10. \A home : HomeInv(home) =>
         /\ c.pc = "send" => c.object <= created /\ home[c.object] = CheckTopics[Position(p)]
         /\ c.pc = "send" => \A s \in Range(c.to) : home[c.object] \in Subs(s)
  BY Zenon, <1>1, <1>5, <1>8, <1>9 DEF HomeInv
<1>11. \A s : Due(p, s)
  BY Zenon, <1>1 DEF Due
<1>12. pub' = [pub EXCEPT ![p] = c]
  BY Zenon, <1>4, <1>6
<1> QED
  BY Zenon, <1>1, <1>4, <1>5, <1>7, <1>8, <1>10, <1>11, <1>12, PubMoves

\* The steps of a scheduler keep the invariant.
LEMMA SchedulerFlow ==
  ASSUME FlowInv, NEW p \in Publishers, Scheduler(p)
  PROVE  FlowInv'
BY Zenon, BuildRequestFlow, ExecuteFlow, LookUpFlow, CopyBindingsFlow, DeliverFlow,
   DeliverPanicsFlow, AbandonFlow
   DEF Scheduler, PublishGoesOn, PublishStep

\* No step breaks it.
LEMMA FlowNext ==
  ASSUME FlowInv, [Next]_vars
  PROVE  FlowInv'
<1>1. CASE BusStop
  BY Zenon, <1>1, BusStopFlow
<1>2. ASSUME NEW p \in Publishers, Scheduler(p) PROVE FlowInv'
  BY Zenon, <1>2, SchedulerFlow
<1>3. ASSUME NEW s \in Subscribers,
             \/ Connect(s) \/ Disconnect(s)
             \/ StartStep(s) \/ RecvStep(s) \/ SubStep(s) \/ SendStep(s) \/ StopStep(s)
      PROVE  FlowInv'
  BY Zenon, <1>3, ComesAndGoesFlow, StartSubscribesFlow, StartFindsFlow, StartBindsFlow,
     SubTakesFlow, SubPushesFlow, SendTakesFlow, StopCancelsFlow, StopClosesFlow
     DEF StartStep, SubStep, SendStep, StopStep
<1>4. CASE UNCHANGED vars
  <2> USE <1>4 DEF vars, busVars, sessionVars
  <2>1. FlowTypes' /\ SessionTypes'
    BY Zenon, KeepFlowTypes, KeepSessionTypes DEF FlowInv
  <2> QED
    BY Zenon, <2>1, QuietFlow DEF FlowInv, BusTypes
<1> QED
  BY Zenon, <1>1, <1>2, <1>3, <1>4 DEF Next

\* The inductive invariant holds in every reachable state.
THEOREM FlowInvHolds == Spec => []FlowInv
BY FlowInit, FlowNext, PTL DEF Spec

\* The variables of the bus and of the sessions keep their types: no queue
\* grows beyond its capacity, subPump holds a request exactly when it is about
\* to put it into sendq, and Stop is under way exactly when stopping is closed.
THEOREM TypeCorrect == Spec => []TypeOK
<1>1. ASSUME FlowInv PROVE TypeOK
  <2>1. \A p \in Publishers : pub[p].pc \in {"idle", "lookup", "copy", "send"}
    BY Zenon, <1>1, PubFields DEF FlowInv, FlowTypes
  <2>2. \A s \in Subscribers : sub[s].pc \in {"idle", "find", "bind"}
    BY Zenon, <1>1, SubFields DEF FlowInv, SessionTypes
  <2>3. BusTypeOK
    BY Zenon, <1>1, <2>1, <2>2 DEF FlowInv, BusTypes, FlowTypes, BusTypeOK, Objects
  <2>4. \A s \in Subscribers : (held[s] # << >>) <=> (subPump[s] = "push")
    <3> TAKE s \in Subscribers
    <3>1. held[s] \in Seq(Messages) /\ Len(held[s]) = IF subPump[s] = "push" THEN 1 ELSE 0
      BY Zenon, <1>1 DEF FlowInv, FlowTypes
    <3>2. held[s] # << >> <=> Len(held[s]) # 0
      BY Zenon, <3>1, EmptySeq
    <3> QED
      BY <3>1, <3>2
  <2> QED
    BY Zenon, <1>1, <2>3, <2>4 DEF FlowInv, FlowTypes, SessionTypes, TypeOK
<1> QED
  BY <1>1, FlowInvHolds, PTL

\* The publications a request has for a session are finitely many.
LEMMA MeantFinite ==
  ASSUME NEW s
  PROVE  IsFiniteSet(Meant(s)) /\ DOMAIN CheckTopics \subseteq Nat
<1>1. Len(CheckTopics) \in Nat /\ DOMAIN CheckTopics = 1 .. Len(CheckTopics)
  BY Zenon, SubscriptionsAssumption, LenProperties
<1>2. IsFiniteSet(DOMAIN CheckTopics)
  BY <1>1, FS_Interval
<1>3. Meant(s) \subseteq DOMAIN CheckTopics
  BY Zenon DEF Meant
<1> QED
  BY <1>1, <1>2, <1>3, FS_Subset

\* The requests of one scheduler reach a session in the order of their
\* publication, and each at most once for every publication that is meant
\* for the session.
THEOREM RequestsInOrder == Spec => []InOrder
<1>1. ASSUME FlowInv PROVE InOrder
  <2> SUFFICES ASSUME NEW s \in Subscribers, NEW p \in Publishers
               PROVE  LET path == Path(s)
                          mine == {i \in DOMAIN path : path[i][1] = p}
                      IN /\ \A i, j \in mine : i < j => path[i][2] <= path[j][2]
                         /\ \A m \in {path[i] : i \in mine} :
                              Cardinality({i \in mine : path[i] = m}) <= Cardinality(Meant(s))
    BY Zenon DEF InOrder
  <2> DEFINE path == Path(s)
             mine == {i \in DOMAIN path : path[i][1] = p}
  <2>0. \A i \in mine : i \in DOMAIN path /\ path[i][1] = p
    BY Zenon
  <2> HIDE DEF path, mine
  <2>1. path \in Seq(Messages) /\ DOMAIN path = 1 .. Len(path) /\ Len(path) \in Nat
    BY Zenon, <1>1, PathType DEF FlowInv, path
  <2>2. PICK lab \in [DOMAIN path -> DOMAIN CheckTopics] : Labels(s, path, lab)
    BY Zenon, <1>1 DEF FlowInv, PathInv, path
  <2>3. \A i \in DOMAIN path : path[i][2] \in Nat /\ lab[i] \in Nat
    <3> TAKE i \in DOMAIN path
    <3>1. path[i] \in Messages
      BY Zenon, <2>1, ElementOfSeq
    <3> QED
      BY SMTT(30), <3>1, <2>2, MeantFinite DEF Messages
  <2>4. \A i, j \in mine : i < j =>
          path[i][2] < path[j][2] \/ (path[i][2] = path[j][2] /\ lab[i] < lab[j])
    BY SMTT(30), <2>0, <2>2 DEF Labels
  <2>5. \A i, j \in mine : i < j => path[i][2] <= path[j][2]
    <3> TAKE i, j \in mine
    <3> HAVE i < j
    <3>1. path[i][2] \in Nat /\ path[j][2] \in Nat
      BY Zenon, <2>0, <2>3
    <3> QED
      BY SMTT(30), <2>4, <3>1
  <2>6. ASSUME NEW m
        PROVE  Cardinality({i \in mine : path[i] = m}) <= Cardinality(Meant(s))
    <3>1. PICK same : same = {i \in mine : path[i] = m}
      BY Zenon
    <3>2. PICK f : f = [i \in same |-> lab[i]]
      BY Zenon
    <3>3. \A i, j \in same : i < j => lab[i] < lab[j]
      <4> TAKE i, j \in same
      <4> HAVE i < j
      <4>1. i \in mine /\ j \in mine /\ path[i] = path[j] /\ path[i][2] \in Nat
        BY Zenon, <3>1, <2>0, <2>3
      <4> QED
        BY <4>1, <2>4
    <3>4. \A i, j \in same : lab[i] = lab[j] => i = j
      <4> TAKE i, j \in same
      <4>1. i \in Nat /\ j \in Nat /\ lab[i] \in Nat /\ lab[j] \in Nat
        BY SMTT(30), <3>1, <2>0, <2>1, <2>3
      <4> QED
        BY SMTT(30), <4>1, <3>3
    <3>5. \A i \in same : lab[i] \in Meant(s)
      BY Zenon, <3>1, <2>0, <2>2 DEF Labels
    <3>6. f \in Injection(same, Meant(s))
      BY Zenon, <3>2, <3>4, <3>5 DEF Injection, IsInjective
    <3>7. Cardinality(same) <= Cardinality(Meant(s))
      BY Zenon, <3>6, MeantFinite, FS_Injection
    <3> QED
      BY Zenon, <3>1, <3>7
  <2> QED
    BY Zenon, <2>5, <2>6 DEF path, mine
<1> QED
  BY <1>1, FlowInvHolds, PTL

\* The invariant of the bindings holds at the start.
LEMMA UpInit ==
  ASSUME Init
  PROVE  UpInv
<1> USE DEF Init, BusInit, Returned
<1>1. SteadyInv /\ StartInv
  BY Zenon, SessionsAssumption DEF SteadyInv, StartInv
<1>2. MutexInv /\ BoundInv
  BY Zenon DEF MutexInv, BoundInv, Subs
<1> QED
  BY Zenon, <1>1, <1>2, FlowInit DEF UpInv

\* No step breaks it.
LEMMA UpNext ==
  ASSUME DistinctAgents, SharedIsSteady, UpInv, [Next]_vars
  PROVE  UpInv'
<1>1. FlowInv'
  BY Zenon, FlowNext DEF UpInv
<1>2. CASE BusStop
  BY Zenon, <1>1, <1>2, BusStopUp
<1>3. ASSUME NEW p \in Publishers, Scheduler(p) PROVE UpInv'
  <2>1. UNCHANGED <<busStop, topics, done, bindings, topicsMu, sub, start, remaining,
                    recvPump, conn, stopping>>
    BY Zenon, <1>3 DEF Scheduler, BuildRequest, Execute, Publish, PublishGoesOn,
       PublishStep, LookUp, CopyBindings, Deliver, DeliverPanics, Abandon, busVars, sessionVars
  <2> QED
    BY Zenon, <1>1, <2>1, KeepUp
<1>4. ASSUME NEW s \in Subscribers, SubStep(s) \/ SendStep(s) \/ StopWaits(s) \/ StopCloses(s)
      PROVE  UpInv'
  <2>1. UNCHANGED <<busStop, topics, done, bindings, topicsMu, sub, start, remaining,
                    recvPump, conn, stopping>>
    BY Zenon, <1>4 DEF SubStep, SubTakes, SubPushes, SubEnds, SendStep, SendTakes, SendEnds,
       StopWaits, StopCloses, CloseChannel, busVars
  <2> QED
    BY Zenon, <1>1, <2>1, KeepUp
<1>5. ASSUME NEW s \in Subscribers,
             \/ Connect(s) \/ Disconnect(s) \/ StartStep(s) \/ RecvStep(s) \/ StopCancels(s)
      PROVE  UpInv'
  BY Zenon, <1>1, <1>5, ConnectUp, DisconnectUp, StartSubscribesUp, StartFindsUp, StartBindsUp,
     StartEndsUp, StartFailsUp, RecvUp, StopCancelsUp DEF StartStep
<1>6. CASE UNCHANGED vars
  BY Zenon, <1>1, <1>6, KeepUp DEF vars, busVars, sessionVars
<1> QED
  BY Zenon, <1>2, <1>3, <1>4, <1>5, <1>6 DEF Next, StopStep

\* As long as the bus runs, a session that has started and that nobody has
\* begun to stop is bound to the open object that Publish finds for each of
\* its subscriptions, when no two sessions are of the same agent and a topic
\* that two sessions share has a steady session: however the others come and
\* go meanwhile.
THEOREM SessionsStayBound ==
  ASSUME DistinctAgents, SharedIsSteady
  PROVE  Spec => []SessionBound
<1>1. ASSUME UpInv PROVE SessionBound
  <2> SUFFICES ASSUME NEW s \in Subscribers, start[s] = "started", s \notin stopping, running,
                      NEW t \in Subs(s)
               PROVE  Bound(s, t)
    BY Zenon DEF SessionBound, Bound, Subs
  <2>1. remaining[s] = << >> /\ sub[s].pc = "idle"
    BY Zenon, <1>1 DEF UpInv, StartInv
  <2>2. Range(remaining[s]) = {}
    BY SMTT(30), <2>1 DEF Range
  <2> QED
    BY Zenon, <1>1, <2>1, <2>2 DEF UpInv, BoundInv
<1>2. Init => UpInv
  BY Zenon, UpInit
<1>3. UpInv /\ [Next]_vars => UpInv'
  BY Zenon, UpNext
<1> QED
  BY <1>1, <1>2, <1>3, PTL DEF Spec
=============================================================================
