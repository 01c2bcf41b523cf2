-------------------------- MODULE HandleEventProofs -------------------------
(***************************************************************************)
(* What is proved of HandleEvent, for all configurations: which handlers   *)
(* an event is expanded to, which of them get it, and which extensions     *)
(* grpcHandler finds.                                                      *)
(***************************************************************************)
EXTENDS HandleEvent, TLAPS

INSTANCE SequenceTheorems

-----------------------------------------------------------------------------
(***************************************************************************)
(* The inductive invariant.  What it says of the calls of expandHandlers   *)
(* is said of a sequence fs of calls, which the stack is.                  *)
(***************************************************************************)
Unions ==
  {Union(m, TRUE) : m \in DOMAIN config.entries}
    \cup {Union(m, FALSE) : m \in DOMAIN config.entries}

\* A map that has a handler under the key of each of ms.
Covers(found, ms) == \A m \in ms : \E h \in found : h.key = Key(m)

Members(m) == Range(config.entries[m].members)

\* The names that a call inside d - 1 others can have, and what of a set with
\* the members ms is left to it to find.
Layer(d) ==
  IF d = 1 THEN Named ELSE IF d = 2 THEN Through(Named) ELSE Through(Through(Named))
Deep(d, ms) ==
  IF d = 0 THEN ms \cup Through(ms) \cup Through(Through(ms))
  ELSE IF d = 1 THEN ms \cup Through(ms) ELSE IF d = 2 THEN ms ELSE {}

Calls ==
  [names : Seq(DOMAIN config.entries), next : Nat \ {0}, level : Nat, found : SUBSET Unions]

\* What the d-th call has found among the names it has gone through.
CallInv(F, d) ==
  /\ F \in Calls
  /\ F.next <= Len(F.names) + 1 /\ d <= F.level
  /\ Range(F.names) \subseteq Layer(d)
  /\ \A h \in F.found : h.name \in Reached
  /\ \A k \in 1 .. Len(F.names) : k < F.next => Covers(F.found, Handlers({F.names[k]}))
  /\ SetsAreAlone =>
       /\ OneSet(F.names)
       /\ \A k \in Sets(F.names) : k < F.next =>
            Covers(F.found, Handlers(Deep(d, Members(F.names[k]))))

\* A call is for the set that the one before is at.
Link(F, G) ==
  /\ F.next <= Len(F.names) /\ config.entries[F.names[F.next]].kind = "set"
  /\ G.names = config.entries[F.names[F.next]].members

\* The level of the innermost call has grown by its sets only.
LevelInv(F, d) ==
  SetsAreAlone /\ F.level # d => \E k \in Sets(F.names) : k < F.next

\* An extension that has been lost is not named before every set.
Safe(found) ==
  \A h \in found : ~h.ext /\ config.entries[h.name].kind = "extension" => Unsafe(h.name)

StackOK(fs) ==
  /\ Len(fs) \in 1 .. 3 /\ DOMAIN fs = 1 .. Len(fs)
  /\ \A d \in 1 .. Len(fs) : CallInv(fs[d], d)
  /\ \A d \in 1 .. Len(fs) : d < Len(fs) => Link(fs[d], fs[d + 1])
  /\ LevelInv(fs[Len(fs)], Len(fs))
  /\ fs[1].names = config.names /\ Safe(fs[1].found)

ExpandInv ==
  /\ \E fs : stack = fs /\ StackOK(fs)
  /\ todo = {} /\ expanded = {} /\ handed = {} /\ panicked = FALSE

\* What expandHandlers returned, and how far the loop over it is.
Whole(found) ==
  /\ found \subseteq Unions
  /\ \A h \in found : h.name \in Reached
  /\ SetsAreAlone => Covers(found, Reached)

Gets(h) == ~FilterEvent(Entry(h).filters) /\ Entry(h).mutator # "fails"

LoopInv ==
  /\ Whole(expanded) /\ Safe(expanded)
  /\ todo \subseteq expanded /\ (pc = "return" => todo = {}) /\ panicked \in BOOLEAN
  /\ ~panicked => handed = {h.name : h \in {g \in expanded \ todo : Gets(g)}}
  /\ panicked => \E m \in handed : Unsafe(m)

Inv ==
  /\ config \in Configs /\ pc \in {"expand", "loop", "return"}
  /\ pc = "expand" => ExpandInv
  /\ pc # "expand" => LoopInv

-----------------------------------------------------------------------------
(***************************************************************************)
(* Maps of handlers.                                                       *)
(***************************************************************************)

\* What is in a map.
LEMMA UnionFields ==
  ASSUME NEW h \in Unions
  PROVE  h.name \in DOMAIN config.entries /\ h.key = Key(h.name) /\ h.ext \in BOOLEAN
<1>1. PICK m \in DOMAIN config.entries : h = Union(m, TRUE) \/ h = Union(m, FALSE)
  BY Zenon DEF Unions
<1>2. CASE h = Union(m, TRUE)
  BY Zenon, <1>2 DEF Union
<1>3. CASE h = Union(m, FALSE)
  BY Zenon, <1>3 DEF Union
<1> QED
  BY Zenon, <1>1, <1>2, <1>3

\* Adding to a map keeps what it has and covers what is added.
LEMMA AddedCovers ==
  ASSUME NEW found, NEW new, NEW ms, Covers(found, ms) \/ Covers(new, ms)
  PROVE  Covers(Added(found, new), ms)
<1> SUFFICES ASSUME NEW m \in ms PROVE \E h \in Added(found, new) : h.key = Key(m)
  BY Zenon DEF Covers
<1>1. CASE Covers(found, ms)
  BY Zenon, <1>1 DEF Covers, Added
<1>2. CASE Covers(new, ms)
  <2>1. PICK h \in new : h.key = Key(m)
    BY Zenon, <1>2 DEF Covers
  <2>2. CASE \A g \in found : g.key # h.key
    BY Zenon, <2>1, <2>2 DEF Added
  <2>3. CASE ~ \A g \in found : g.key # h.key
    BY Zenon, <2>1, <2>3 DEF Added
  <2> QED
    BY Zenon, <2>2, <2>3
<1> QED
  BY Zenon, <1>1, <1>2

\* What comes out of a set.
LEMMA Unset ==
  ASSUME NEW found, found \subseteq Unions, NEW new, new = {Union(h.name, FALSE) : h \in found}
  PROVE  /\ new \subseteq Unions
         /\ \A h \in new : h.ext = FALSE /\ \E g \in found : g.name = h.name
         /\ \A ms : Covers(found, ms) => Covers(new, ms)
<1>1. new \subseteq Unions
  <2>1. ASSUME NEW h \in found PROVE Union(h.name, FALSE) \in Unions
    <3>1. h.name \in DOMAIN config.entries
      BY Zenon, UnionFields
    <3> QED
      BY Zenon, <3>1 DEF Unions
  <2> QED
    BY Zenon, <2>1
<1>2. \A h \in new : h.ext = FALSE /\ \E g \in found : g.name = h.name
  BY DEF Union
<1>3. ASSUME NEW ms, Covers(found, ms), NEW m \in ms PROVE \E h \in new : h.key = Key(m)
  <2>1. PICK g \in found : g.key = Key(m)
    BY Zenon, <1>3 DEF Covers
  <2>2. g.key = Key(g.name)
    BY Zenon, UnionFields
  <2>3. Union(g.name, FALSE) \in new /\ Union(g.name, FALSE).key = Key(g.name)
    BY Zenon DEF Union
  <2> QED
    BY Zenon, <2>1, <2>2, <2>3
<1> QED
  BY Zenon, <1>1, <1>2, <1>3 DEF Covers

-----------------------------------------------------------------------------
(***************************************************************************)
(* The calls of expandHandlers.                                            *)
(***************************************************************************)

\* A configuration does not change, and what is said of calls depends on
\* nothing else.
LEMMA StackStays ==
  ASSUME config' = config
  PROVE  \A fs : StackOK(fs) => StackOK(fs)'
<1>1. /\ \A m : Key(m)' = Key(m) /\ Members(m)' = Members(m) /\ Unsafe(m)' <=> Unsafe(m)
      /\ \A ms : Handlers(ms)' = Handlers(ms) /\ Through(ms)' = Through(ms)
      /\ \A names : Sets(names)' = Sets(names)
      /\ Named' = Named
  BY Zenon DEF Key, Members, Handlers, Through, Sets, Named, Unsafe
<1>2. /\ \A found, ms : Covers(found, ms)' <=> Covers(found, ms)
      /\ \A names : OneSet(names)' <=> OneSet(names)
      /\ Unions' = Unions /\ Reached' = Reached
      /\ \A d : Layer(d)' = Layer(d)
      /\ \A d, ms : Deep(d, ms)' = Deep(d, ms)
      /\ \A found : Safe(found)' <=> Safe(found)
  <2>0. \A found, ms : Covers(found, ms)' <=> Covers(found, ms)
    BY Zenon DEF Covers, Key
  <2>1. \A names : OneSet(names)' <=> OneSet(names)
    BY Zenon DEF OneSet, Sets
  <2>2. Unions' = Unions
    BY Zenon DEF Unions, Union, Key
  <2>3. Through(Through(Named))' = Through(Through(Named)) /\ Through(Named)' = Through(Named)
    BY DEF Through, Named
  <2>4. Reached' = Reached
    BY DEF Reached, Handlers, Through, Named
  <2>5. \A d : Layer(d)' = Layer(d)
    BY Zenon, <1>1, <2>3 DEF Layer
  <2>6. \A d, ms : Deep(d, ms)' = Deep(d, ms)
    BY Zenon, <1>1 DEF Deep
  <2>7. \A found : Safe(found)' <=> Safe(found)
    BY Zenon DEF Safe, Unsafe, Sets
  <2> QED
    BY Zenon, <2>0, <2>1, <2>2, <2>4, <2>5, <2>6, <2>7
<1>3. SetsAreAlone' <=> SetsAreAlone
  BY DEF SetsAreAlone, OneSet, Sets
<1>4. \A F, d : LevelInv(F, d)' <=> LevelInv(F, d)
  BY Zenon, <1>1, <1>3 DEF LevelInv
<1>5. \A F, G : Link(F, G)' <=> Link(F, G)
  BY Zenon DEF Link
<1>7. Calls' = Calls
  BY Zenon, <1>2 DEF Calls
<1>6. \A F, d : CallInv(F, d) => CallInv(F, d)'
  <2> SUFFICES ASSUME NEW F, NEW d, CallInv(F, d) PROVE CallInv(F, d)'
    BY Zenon
  <2>1. \A k : Handlers({F.names[k]})' = Handlers({F.names[k]})
    BY Zenon, <1>1
  <2>2. \A k : Handlers(Deep(d, Members(F.names[k])))' = Handlers(Deep(d, Members(F.names[k])))
    BY DEF Handlers, Deep, Members, Through
  <2>3. \A k : Covers(F.found, Handlers({F.names[k]}))' <=> Covers(F.found, Handlers({F.names[k]}))
    BY Zenon DEF Covers, Handlers, Key
  <2>4. \A k : Covers(F.found, Handlers(Deep(d, Members(F.names[k]))))' <=>
                 Covers(F.found, Handlers(Deep(d, Members(F.names[k]))))
    BY DEF Covers, Handlers, Key, Deep, Members, Through
  <2> QED
    BY Zenon, <1>1, <1>2, <1>3, <1>7, <2>3, <2>4 DEF CallInv
<1> QED
  BY Zenon, <1>2, <1>4, <1>5, <1>6 DEF StackOK

\* The innermost call has gone on to its next name.
LEMMA CallGoesOn ==
  ASSUME NEW fs, StackOK(fs), NEW n, n = Len(fs), NEW G, NEW gs, DOMAIN gs = 1 .. n, Len(gs) = n,
         gs[n] = G, \A d \in 1 .. n : d # n => gs[d] = fs[d],
         G.names = fs[n].names, CallInv(G, n), LevelInv(G, n), n = 1 => Safe(G.found)
  PROVE  StackOK(gs)
<1>1. n \in 1 .. 3
  BY Zenon DEF StackOK
<1>2. \A d \in 1 .. n : CallInv(gs[d], d)
  BY Zenon DEF StackOK
<1>3. ASSUME NEW d \in 1 .. n, d < n PROVE Link(gs[d], gs[d + 1])
  <2>1. d # n /\ d + 1 \in 1 .. n
    BY <1>1, <1>3
  <2>2. Link(fs[d], fs[d + 1])
    BY Zenon, <1>3 DEF StackOK
  <2>3. gs[d] = fs[d] /\ gs[d + 1].names = fs[d + 1].names
    BY Zenon, <2>1
  <2> QED
    BY Zenon, <2>2, <2>3 DEF Link
<1>4. gs[1].names = config.names /\ Safe(gs[1].found)
  <2>1. fs[1].names = config.names /\ Safe(fs[1].found)
    BY Zenon DEF StackOK
  <2>2. 1 \in 1 .. n
    BY <1>1
  <2> QED
    BY Zenon, <2>1, <2>2
<1> QED
  BY Zenon, <1>1, <1>2, <1>3, <1>4 DEF StackOK

\* The d-th call goes on to its next name, having dealt with the one it was at.
LEMMA CallAdvances ==
  ASSUME NEW d \in 1 .. 3, NEW F, CallInv(F, d), F.next <= Len(F.names),
         NEW G \in Calls, G.names = F.names, G.next = F.next + 1, F.level <= G.level,
         \A h \in G.found : h.name \in Reached,
         \A ms : Covers(F.found, ms) => Covers(G.found, ms),
         Covers(G.found, Handlers({F.names[F.next]})),
         SetsAreAlone /\ F.next \in Sets(F.names) =>
           Covers(G.found, Handlers(Deep(d, Members(F.names[F.next]))))
  PROVE  CallInv(G, d)
<1>1. F \in Calls /\ d <= F.level /\ Range(F.names) \subseteq Layer(d)
  BY Zenon DEF CallInv
<1>2. /\ F.next \in Nat \ {0} /\ F.level \in Nat /\ G.level \in Nat
      /\ F.names \in Seq(DOMAIN config.entries)
  BY Zenon, <1>1 DEF Calls
<1>3. Len(F.names) \in Nat /\ DOMAIN F.names = 1 .. Len(F.names)
  BY Zenon, <1>2, LenProperties
<1>4. G.next <= Len(G.names) + 1 /\ d <= G.level
  BY <1>1, <1>2, <1>3
<1>5. \A k \in 1 .. Len(F.names) : k < G.next => k < F.next \/ k = F.next
  BY <1>2, <1>3
<1>6. \A k \in 1 .. Len(G.names) : k < G.next => Covers(G.found, Handlers({G.names[k]}))
  BY Zenon, <1>5 DEF CallInv
<1>7. ASSUME SetsAreAlone, NEW k \in Sets(G.names), k < G.next
      PROVE  Covers(G.found, Handlers(Deep(d, Members(G.names[k]))))
  <2>1. k \in Sets(F.names) /\ k \in 1 .. Len(F.names)
    BY Zenon, <1>3, <1>7 DEF Sets
  <2>2. CASE k < F.next
    BY Zenon, <1>7, <2>1, <2>2 DEF CallInv
  <2>3. CASE k = F.next
    BY Zenon, <1>7, <2>1, <2>3
  <2> QED
    BY Zenon, <1>5, <1>7, <2>1, <2>2, <2>3
<1>8. SetsAreAlone => OneSet(G.names)
  BY Zenon DEF CallInv
<1> QED
  BY Zenon, <1>1, <1>4, <1>6, <1>7, <1>8 DEF CallInv

\* While the sets are alone, a call at a set has its level still.
LEMMA LevelAtSet ==
  ASSUME NEW d \in 1 .. 3, NEW F, CallInv(F, d), LevelInv(F, d), SetsAreAlone,
         F.next \in Sets(F.names)
  PROVE  F.level = d
<1> SUFFICES ASSUME F.level # d PROVE FALSE
  BY Zenon
<1>1. PICK k \in Sets(F.names) : k < F.next
  BY Zenon DEF LevelInv
<1>2. k = F.next
  BY Zenon, <1>1 DEF CallInv, OneSet
<1>3. F.next \in Nat
  BY Zenon DEF CallInv, Calls
<1> QED
  BY <1>1, <1>2, <1>3

\* A handler that a call has among its names is reached.
LEMMA LayerReached ==
  ASSUME NEW d \in 1 .. 3, NEW m \in Layer(d), config.entries[m].kind \in Plain
  PROVE  m \in Reached
<1>1. m \in Named \cup Through(Named) \cup Through(Through(Named))
  BY Zenon DEF Layer
<1> QED
  BY Zenon, <1>1 DEF Reached, Handlers

\* A set among the names of a call has its members one layer down.
LEMMA LayerMembers ==
  ASSUME NEW d \in 1 .. 2, NEW m \in Layer(d), config.entries[m].kind = "set"
  PROVE  Members(m) \subseteq Layer(d + 1)
<1>1. \A ms : m \in ms => Members(m) \subseteq Through(ms)
  BY Zenon DEF Through, Members
<1>2. CASE d = 1
  BY <1>1, <1>2 DEF Layer
<1>3. CASE d = 2
  BY <1>1, <1>3 DEF Layer
<1> QED
  BY <1>2, <1>3

\* A call that is at its end has found everything it is to find.
LEMMA CallComplete ==
  ASSUME NEW d \in 1 .. 3, NEW F, CallInv(F, d), F.next > Len(F.names), SetsAreAlone
  PROVE  Covers(F.found, Handlers(Deep(d - 1, Range(F.names))))
<1> DEFINE R == Range(F.names)
<1>1. F.next \in Nat \ {0} /\ F.names \in Seq(DOMAIN config.entries)
  BY Zenon DEF CallInv, Calls
<1>2. Len(F.names) \in Nat /\ DOMAIN F.names = 1 .. Len(F.names)
  BY Zenon, <1>1, LenProperties
<1>3. \A k \in 1 .. Len(F.names) : k < F.next
  BY <1>1, <1>2
<1>4. ASSUME NEW m \in Handlers(R) PROVE \E h \in F.found : h.key = Key(m)
  <2>1. PICK k \in 1 .. Len(F.names) : F.names[k] = m
    BY Zenon, <1>2 DEF Handlers, Range
  <2>2. m \in Handlers({F.names[k]})
    BY Zenon, <2>1 DEF Handlers
  <2>3. Covers(F.found, Handlers({F.names[k]}))
    BY Zenon, <1>3 DEF CallInv
  <2> QED
    BY Zenon, <2>2, <2>3 DEF Covers
<1>5. ASSUME NEW x \in R, config.entries[x].kind = "set", NEW m \in Handlers(Deep(d, Members(x)))
      PROVE  \E h \in F.found : h.key = Key(m)
  <2>1. PICK k \in 1 .. Len(F.names) : F.names[k] = x
    BY Zenon, <1>2 DEF Range
  <2>2. k \in Sets(F.names) /\ k < F.next
    BY Zenon, <2>1, <1>2, <1>3, <1>5 DEF Sets
  <2>3. Covers(F.found, Handlers(Deep(d, Members(F.names[k]))))
    BY Zenon, <2>2 DEF CallInv
  <2> QED
    BY Zenon, <1>5, <2>1, <2>3 DEF Covers
<1>6. ASSUME NEW m \in Handlers(Deep(d - 1, R)), m \notin R
      PROVE  \E x \in R : config.entries[x].kind = "set" /\ m \in Handlers(Deep(d, Members(x)))
  <2>1. config.entries[m].kind \in Plain /\ m \in Deep(d - 1, R)
    BY Zenon, <1>6 DEF Handlers
  <2> SUFFICES \E x \in R : config.entries[x].kind = "set" /\ m \in Deep(d, Members(x))
    BY Zenon, <2>1 DEF Handlers
  <2>2. \A ms, y : y \in Through(ms) =>
          \E x \in ms : config.entries[x].kind = "set" /\ y \in Members(x)
    BY Zenon DEF Through, Members
  <2>3. CASE d = 1
    <3>1. m \in Through(R) \cup Through(Through(R))
      BY Zenon, <1>6, <2>1, <2>3 DEF Deep
    <3>2. \A x : Deep(d, Members(x)) = Members(x) \cup Through(Members(x))
      BY <2>3 DEF Deep
    <3>3. CASE m \in Through(R)
      BY Zenon, <2>2, <3>2, <3>3
    <3>4. CASE m \in Through(Through(R))
      <4>1. PICK y \in Through(R) : config.entries[y].kind = "set" /\ m \in Members(y)
        BY Zenon, <2>2, <3>4
      <4>2. PICK x \in R : config.entries[x].kind = "set" /\ y \in Members(x)
        BY Zenon, <2>2, <4>1
      <4>3. m \in Through(Members(x))
        BY Zenon, <4>1, <4>2 DEF Through, Members
      <4> QED
        BY Zenon, <3>2, <4>2, <4>3
    <3> QED
      BY Zenon, <3>1, <3>3, <3>4
  <2>4. CASE d = 2
    <3>1. m \in Through(R)
      BY <1>6, <2>1, <2>4 DEF Deep
    <3>2. \A x : Deep(d, Members(x)) = Members(x)
      BY <2>4 DEF Deep
    <3>3. PICK x \in R : config.entries[x].kind = "set" /\ m \in Members(x)
      BY Zenon, <2>2, <3>1
    <3> QED
      BY Zenon, <3>2, <3>3
  <2>5. CASE d = 3
    BY <1>6, <2>1, <2>5 DEF Deep
  <2> QED
    BY <2>3, <2>4, <2>5
<1> QED
  <2> SUFFICES ASSUME NEW m \in Handlers(Deep(d - 1, R)) PROVE \E h \in F.found : h.key = Key(m)
    BY Zenon DEF Covers
  <2>1. CASE m \in R
    <3>1. m \in Handlers(R)
      BY Zenon, <2>1 DEF Handlers
    <3> QED
      BY Zenon, <3>1, <1>4
  <2>2. CASE m \notin R
    BY Zenon, <2>2, <1>5, <1>6
  <2> QED
    BY Zenon, <2>1, <2>2

-----------------------------------------------------------------------------
(***************************************************************************)
(* The steps of expandHandlers.                                            *)
(***************************************************************************)

\* What a step that leaves the expansion unfinished has to show.
LEMMA StillExpanding ==
  ASSUME Inv, pc = "expand", StackOK(stack'),
         UNCHANGED <<config, pc, todo, expanded, redacted, handed, panicked>>
  PROVE  Inv'
<1>1. PICK gs : gs = stack'
  BY Zenon
<1>2. StackOK(gs)'
  BY Zenon, <1>1, StackStays
<1>3. ExpandInv'
  BY Zenon, <1>1, <1>2 DEF Inv, ExpandInv
<1> QED
  BY Zenon, <1>3 DEF Inv

\* A sequence is as long as its domain.
LEMMA LenOf ==
  ASSUME NEW n \in Nat, NEW f, f = [d \in 1 .. n |-> f[d]]
  PROVE  Len(f) = n
<1>1. PICK S : S = {f[d] : d \in 1 .. n}
  BY Zenon
<1>2. f \in [1 .. n -> S] /\ DOMAIN f = 1 .. n
  BY Zenon, <1>1
<1>3. f \in Seq(S)
  BY <1>2, SeqDef, Zenon
<1>4. Len(f) \in Nat /\ 1 .. Len(f) = 1 .. n
  BY Zenon, <1>2, <1>3, LenProperties
<1> QED
  BY <1>4

\* Positions are natural numbers.
LEMMA Positions == \A n : \A i \in 1 .. n : i \in Nat
OBVIOUS

\* The innermost call goes on.
LEMMA GoesOnInv ==
  ASSUME Inv, InLoop, NEW level \in Nat, NEW found \in SUBSET Unions, GoesOn(level, found),
         NEW n, n = Len(stack), NEW F, F = stack[n], NEW m, m = F.names[F.next],
         F.level <= level, \A h \in found : h.name \in Reached,
         \A ms : Covers(F.found, ms) => Covers(found, ms),
         Covers(found, Handlers({m})),
         SetsAreAlone /\ F.next \in Sets(F.names) => Covers(found, Handlers(Deep(n, Members(m)))),
         level # F.level => config.entries[m].kind = "set",
         n = 1 => Safe(found)
  PROVE  Inv'
<1>1. PICK fs : stack = fs /\ StackOK(fs)
  BY Zenon DEF Inv, ExpandInv, InLoop
<1>2. n \in 1 .. 3 /\ CallInv(F, n) /\ LevelInv(F, n) /\ DOMAIN fs = 1 .. n
  <2>1. n \in 1 .. 3 /\ DOMAIN fs = 1 .. n /\ LevelInv(F, n) /\ \A d \in 1 .. n : CallInv(fs[d], d)
    BY Zenon, <1>1 DEF StackOK
  <2>2. n \in 1 .. n
    BY <2>1
  <2> QED
    BY Zenon, <1>1, <2>1, <2>2
<1>3. /\ F \in Calls /\ F.next \in Nat \ {0} /\ F.level \in Nat
      /\ F.names \in Seq(DOMAIN config.entries) /\ F.next <= Len(F.names)
  BY Zenon, <1>2 DEF CallInv, Calls, InLoop, Top
<1>4. PICK G : G = [F EXCEPT !.next = @ + 1, !.level = level, !.found = found]
  BY Zenon
<1>5. G \in Calls /\ G.names = F.names /\ G.next = F.next + 1 /\ G.level = level /\ G.found = found
  <2>1. PICK D, U : D = Seq(DOMAIN config.entries) /\ U = SUBSET Unions
    BY Zenon
  <2>2. F \in [names : D, next : Nat \ {0}, level : Nat, found : U]
    BY Zenon, <1>3, <2>1 DEF Calls
  <2>3. PICK i \in Nat \ {0} : i = F.next + 1
    BY <1>3
  <2>4. G = [F EXCEPT !.next = i, !.level = level, !.found = found]
    BY Zenon, <1>4, <2>3
  <2>5. found \in U
    BY Zenon, <2>1
  <2>6. G \in [names : D, next : Nat \ {0}, level : Nat, found : U]
    BY Zenon, <2>2, <2>4, <2>5
  <2>7. G.names = F.names /\ G.next = i /\ G.level = level /\ G.found = found
    BY Zenon, <2>2, <2>4
  <2> QED
    BY Zenon, <2>1, <2>3, <2>6, <2>7 DEF Calls
<1>6. PICK gs : gs = stack'
  BY Zenon
<1>7. gs = [fs EXCEPT ![n] = G]
  BY Zenon, <1>1, <1>4, <1>6 DEF GoesOn, Top
<1>8. DOMAIN gs = 1 .. n /\ gs[n] = G /\ \A d \in 1 .. n : d # n => gs[d] = fs[d]
  BY SMTT(30), <1>2, <1>7
<1>9. Len(gs) = n
  <2>1. n \in Nat
    BY Zenon, <1>2, Positions
  <2>2. gs = [d \in DOMAIN gs |-> gs[d]]
    BY Zenon, <1>7
  <2> QED
    BY Zenon, <1>8, <2>1, <2>2, LenOf
<1>10. CallInv(G, n)
  BY Zenon, <1>2, <1>3, <1>5, CallAdvances
<1>11. LevelInv(G, n)
  <2> SUFFICES ASSUME SetsAreAlone, level # n PROVE \E k \in Sets(F.names) : k < F.next + 1
    BY Zenon, <1>5 DEF LevelInv
  <2>1. CASE F.level # n
    <3>1. PICK k \in Sets(F.names) : k < F.next
      BY Zenon, <2>1, <1>2 DEF LevelInv
    <3>2. k \in Nat
      <4>1. k \in 1 .. Len(F.names) /\ Len(F.names) \in Nat
        BY Zenon, <1>3, LenProperties DEF Sets
      <4> QED
        BY Zenon, <4>1, Positions
    <3>3. k < F.next + 1
      BY <1>3, <3>1, <3>2
    <3> QED
      BY Zenon, <3>3
  <2>2. CASE F.level = n
    <3>1. config.entries[m].kind = "set"
      BY Zenon, <2>2
    <3>2. F.next \in DOMAIN F.names /\ F.next < F.next + 1
      BY <1>3, LenProperties
    <3>3. F.next \in Sets(F.names)
      BY Zenon, <3>1, <3>2 DEF Sets
    <3> QED
      BY Zenon, <3>2, <3>3
  <2> QED
    BY Zenon, <2>1, <2>2
<1>12. n = Len(fs) /\ G.names = fs[n].names /\ (n = 1 => Safe(G.found))
  BY Zenon, <1>1, <1>5
<1>13. StackOK(gs)
  BY Zenon, <1>1, <1>8, <1>9, <1>10, <1>11, <1>12, CallGoesOn
<1> QED
  BY Zenon, <1>6, <1>13, StillExpanding DEF InLoop

\* The innermost call, and the name it is at.
At(n, F, m) ==
  /\ n \in 1 .. 3
  /\ n = Len(stack) /\ F = Top /\ m = F.names[F.next] /\ Met = config.entries[m]
  /\ F = stack[n] /\ CallInv(F, n) /\ LevelInv(F, n) /\ (n = 1 => Safe(F.found))
  /\ F.level \in Nat /\ F.found \in SUBSET Unions /\ \A h \in F.found : h.name \in Reached
  /\ F.next \in DOMAIN F.names /\ m \in DOMAIN config.entries /\ m \in Layer(n)

\* A step inside the loop of expandHandlers has a call to go on with.
LEMMA AtName ==
  ASSUME Inv, InLoop
  PROVE  \E n, F, m : At(n, F, m)
<1>1. PICK fs : stack = fs /\ StackOK(fs)
  BY Zenon DEF Inv, ExpandInv, InLoop
<1>2. PICK n, F, m : n = Len(stack) /\ F = Top /\ m = F.names[F.next]
  BY Zenon
<1>3. /\ n \in 1 .. 3 /\ LevelInv(F, n) /\ F = stack[n] /\ (n = 1 => Safe(F.found))
      /\ \A d \in 1 .. n : CallInv(fs[d], d)
  BY Zenon, <1>1, <1>2 DEF StackOK, Top
<1>4. n \in 1 .. n
  BY <1>3
<1>5. CallInv(F, n)
  BY Zenon, <1>1, <1>3, <1>4
<1>6. /\ F.level \in Nat /\ F.found \in SUBSET Unions /\ F.next \in Nat \ {0}
      /\ F.names \in Seq(DOMAIN config.entries) /\ \A h \in F.found : h.name \in Reached
      /\ Range(F.names) \subseteq Layer(n) /\ F.next <= Len(F.names)
  BY Zenon, <1>2, <1>5 DEF CallInv, Calls, InLoop
<1>7. F.next \in DOMAIN F.names /\ m \in DOMAIN config.entries
  BY <1>2, <1>6, LenProperties
<1>8. m \in Layer(n)
  BY Zenon, <1>2, <1>6, <1>7 DEF Range
<1> QED
  BY Zenon, <1>2, <1>3, <1>5, <1>6, <1>7, <1>8 DEF Met, At

\* There is nothing under the name.
LEMMA NotFoundInv ==
  ASSUME Inv, NotFound
  PROVE  Inv'
<1>1. InLoop /\ Met.kind \in {"none", "error"} /\ GoesOn(Top.level, Top.found)
  BY Zenon DEF NotFound
<1>2. PICK n, F, m : At(n, F, m)
  BY Zenon, <1>1, AtName
<1>3. config.entries[m].kind \notin Plain /\ config.entries[m].kind # "set"
  BY Zenon, <1>1, <1>2 DEF Plain, At
<1>4. Covers(F.found, Handlers({m})) /\ F.next \notin Sets(F.names)
  BY Zenon, <1>2, <1>3 DEF Covers, Handlers, Sets, At
<1>5. F.level <= F.level
  BY <1>2 DEF At
<1>6. GoesOn(F.level, F.found)
  BY Zenon, <1>1, <1>2 DEF At
<1> QED
  BY Zenon, <1>1, <1>2, <1>4, <1>5, <1>6, GoesOnInv DEF At

\* A handler or an extension is put into the map, with its extension.
LEMMA AddHandlerInv ==
  ASSUME Inv, AddHandler
  PROVE  Inv'
<1>1. /\ InLoop /\ Met.kind \in Plain
      /\ GoesOn(Top.level, Added(Top.found, {Union(Top.names[Top.next], Met.kind = "extension")}))
  BY Zenon DEF AddHandler
<1>2. PICK n, F, m : At(n, F, m)
  BY Zenon, <1>1, AtName
<1>3. PICK u : u = Union(m, config.entries[m].kind = "extension")
  BY Zenon
<1>4. PICK found : found = Added(F.found, {u})
  BY Zenon
<1>5. GoesOn(F.level, found)
  BY Zenon, <1>1, <1>2, <1>3, <1>4 DEF At
<1>6. u.key = Key(m) /\ u.name = m /\ u.ext = (config.entries[m].kind = "extension")
  BY Zenon, <1>3 DEF Union
<1>7. u \in Unions
  BY Zenon, <1>2, <1>3 DEF Unions, At
<1>8. \A h \in found : h \in F.found \/ h = u
  BY Zenon, <1>4 DEF Added
<1>9. found \in SUBSET Unions
  BY Zenon, <1>2, <1>7, <1>8 DEF At
<1>10. config.entries[m].kind \in Plain /\ config.entries[m].kind # "set"
  BY Zenon, <1>1, <1>2 DEF Plain, At
<1>11. m \in Reached
  BY Zenon, <1>2, <1>10, LayerReached DEF At
<1>12. \A h \in found : h.name \in Reached
  BY Zenon, <1>2, <1>6, <1>8, <1>11 DEF At
<1>13. \A ms : Covers(F.found, ms) => Covers(found, ms)
  BY Zenon, <1>4, AddedCovers
<1>14. Covers({u}, Handlers({m}))
  BY Zenon, <1>6 DEF Covers, Handlers
<1>15. Covers(found, Handlers({m}))
  BY Zenon, <1>4, <1>14, AddedCovers
<1>16. F.next \notin Sets(F.names)
  BY Zenon, <1>2, <1>10 DEF Sets, At
<1>17. n = 1 => Safe(found)
  <2>1. ~ (~u.ext /\ config.entries[u.name].kind = "extension")
    BY Zenon, <1>6
  <2> QED
    BY Zenon, <1>2, <1>8, <2>1 DEF Safe, At
<1>18. F.level <= F.level
  BY <1>2 DEF At
<1> QED
  BY Zenon, <1>1, <1>2, <1>5, <1>9, <1>12, <1>13, <1>15, <1>16, <1>17, <1>18, GoesOnInv DEF At

\* A set is too deep to be expanded; while the sets are alone, it is inside two
\* others.
LEMMA SetTooDeepInv ==
  ASSUME Inv, SetTooDeep
  PROVE  Inv'
<1>1. /\ InLoop /\ Met.kind = "set" /\ Top.level + 1 > MaxLevel
      /\ GoesOn(Top.level + 1, Top.found)
  BY Zenon DEF SetTooDeep
<1>2. PICK n, F, m : At(n, F, m)
  BY Zenon, <1>1, AtName
<1>3. PICK level : level = F.level + 1
  BY Zenon
<1>4. level \in Nat /\ F.level <= level /\ level > 3 /\ GoesOn(level, F.found)
  <2>1. level \in Nat /\ F.level <= level
    BY <1>2, <1>3 DEF At
  <2> QED
    BY Zenon, <1>1, <1>2, <1>3, <2>1 DEF MaxLevel, At
<1>5. config.entries[m].kind = "set" /\ config.entries[m].kind \notin Plain
  BY Zenon, <1>1, <1>2 DEF Plain, At
<1>6. Covers(F.found, Handlers({m}))
  BY Zenon, <1>5 DEF Covers, Handlers
<1>7. ASSUME SetsAreAlone, F.next \in Sets(F.names)
      PROVE  Covers(F.found, Handlers(Deep(n, Members(m))))
  <2>1. F.level = n
    BY Zenon, <1>2, <1>7, LevelAtSet DEF At
  <2>2. n = 3
    BY <1>2, <1>3, <1>4, <2>1 DEF At
  <2>3. Deep(n, Members(m)) = {}
    BY <2>2 DEF Deep
  <2> QED
    BY Zenon, <2>3 DEF Covers, Handlers
<1> QED
  BY Zenon, <1>1, <1>2, <1>4, <1>5, <1>6, <1>7, GoesOnInv DEF At

\* A sequence with one more element.
LEMMA AppendOf ==
  ASSUME NEW n \in Nat, NEW f, f = [d \in 1 .. n |-> f[d]], NEW x, NEW g, g = Append(f, x)
  PROVE  /\ Len(g) = n + 1 /\ DOMAIN g = 1 .. n + 1
         /\ g[n + 1] = x /\ \A d \in 1 .. n : g[d] = f[d]
<1>1. PICK S : S = {f[d] : d \in 1 .. n} \cup {x}
  BY Zenon
<1>2. f \in [1 .. n -> S] /\ x \in S
  BY Zenon, <1>1
<1>3. f \in Seq(S)
  BY <1>2, SeqDef, Zenon
<1>4. Len(f) = n
  BY Zenon, LenOf
<1>5. /\ Append(f, x) \in Seq(S) /\ Len(Append(f, x)) = Len(f) + 1
      /\ \A i \in 1 .. Len(f) : Append(f, x)[i] = f[i]
      /\ Append(f, x)[Len(f) + 1] = x
  BY <1>2, <1>3, AppendProperties
<1>6. DOMAIN Append(f, x) = 1 .. Len(Append(f, x))
  BY Zenon, <1>5, LenProperties
<1> QED
  BY Zenon, <1>4, <1>5, <1>6

\* What the call for a set starts with.
LEMMA CallStarts ==
  ASSUME Inv, NEW n, NEW F, NEW m, At(n, F, m), config.entries[m].kind = "set",
         F.level + 1 <= 3, NEW C, C = Call(config.entries[m].members, F.level + 1)
  PROVE  n \in 1 .. 2 /\ C.names = config.entries[m].members /\ CallInv(C, n + 1) /\ LevelInv(C, n + 1)
<1>1. n \in 1 .. 2
  <2>1. n \in 1 .. 3 /\ n <= F.level /\ F.level \in Nat
    BY Zenon DEF At, CallInv
  <2> QED
    BY <2>1
<1>2. C.names = config.entries[m].members /\ C.next = 1 /\ C.level = F.level + 1 /\ C.found = {}
  BY Zenon DEF Call
<1>3. config.entries[m].members \in Seq(DOMAIN config.entries)
  BY Zenon, ConfigsAssumption DEF Inv, At
<1>4. C \in Calls
  <2>1. PICK D, U : D = Seq(DOMAIN config.entries) /\ U = SUBSET Unions
    BY Zenon
  <2>2. PICK ms \in D : ms = config.entries[m].members
    BY Zenon, <1>3, <2>1
  <2>7. F.level \in Nat
    BY Zenon DEF At
  <2>3. PICK level \in Nat : level = F.level + 1
    BY <2>7
  <2>4. {} \in U /\ 1 \in Nat \ {0}
    BY <2>1
  <2>5. C = [names |-> ms, next |-> 1, level |-> level, found |-> {}]
    BY Zenon, <2>2, <2>3 DEF Call
  <2>6. C \in [names : D, next : Nat \ {0}, level : Nat, found : U]
    BY <2>4, <2>5
  <2> QED
    BY Zenon, <2>1, <2>6 DEF Calls
<1>5. Len(C.names) \in Nat /\ DOMAIN C.names = 1 .. Len(C.names)
  BY Zenon, <1>2, <1>3, LenProperties
<1>6. C.next <= Len(C.names) + 1
  BY <1>2, <1>5
<1>7. n + 1 <= C.level
  <2>1. n <= F.level /\ F.level \in Nat
    BY Zenon DEF At, CallInv
  <2> QED
    BY <1>1, <1>2, <2>1
<1>8. Range(C.names) \subseteq Layer(n + 1)
  BY Zenon, <1>1, <1>2, LayerMembers DEF At, Members
<1>9. \A k \in 1 .. Len(C.names) : ~ (k < C.next)
  BY <1>2, <1>5
<1>10. \A k \in Sets(C.names) : ~ (k < C.next)
  BY Zenon, <1>5, <1>9 DEF Sets
<1>11. SetsAreAlone => OneSet(C.names)
  BY Zenon, <1>2 DEF SetsAreAlone, At
<1>12. CallInv(C, n + 1)
  <2>1. \A h \in C.found : h.name \in Reached
    BY Zenon, <1>2
  <2> QED
    BY Zenon, <1>4, <1>6, <1>7, <1>8, <1>9, <1>10, <1>11, <2>1 DEF CallInv
<1>13. LevelInv(C, n + 1)
  <2> SUFFICES ASSUME SetsAreAlone PROVE C.level = n + 1
    BY Zenon DEF LevelInv
  <2>1. F.next \in Sets(F.names)
    BY Zenon DEF Sets, At
  <2>2. F.level = n
    BY Zenon, <2>1, LevelAtSet DEF At
  <2> QED
    BY Zenon, <1>2, <2>2
<1> QED
  BY Zenon, <1>1, <1>2, <1>12, <1>13

\* A call that meets a set increments its level.
LEMMA LevelGrows ==
  ASSUME NEW n \in 1 .. 3, NEW F, CallInv(F, n), NEW G, G = [F EXCEPT !.level = @ + 1]
  PROVE  /\ CallInv(G, n)
         /\ G.names = F.names /\ G.next = F.next /\ G.found = F.found
<1>1. PICK D, U : D = Seq(DOMAIN config.entries) /\ U = SUBSET Unions
  BY Zenon
<1>2. F \in [names : D, next : Nat \ {0}, level : Nat, found : U] /\ n <= F.level
  BY Zenon, <1>1 DEF CallInv, Calls
<1>3. PICK level \in Nat : level = F.level + 1
  BY <1>2
<1>4. G = [F EXCEPT !.level = level]
  BY Zenon, <1>3
<1>5. /\ G \in [names : D, next : Nat \ {0}, level : Nat, found : U]
      /\ G.names = F.names /\ G.next = F.next /\ G.found = F.found /\ G.level = level
  BY Zenon, <1>2, <1>4
<1>6. n <= G.level
  BY <1>2, <1>3, <1>5
<1>7. G \in Calls
  BY Zenon, <1>1, <1>5 DEF Calls
<1> QED
  BY Zenon, <1>5, <1>6, <1>7 DEF CallInv

\* The call for a set begins.
LEMMA EnterSetInv ==
  ASSUME Inv, EnterSet
  PROVE  Inv'
<1>1. /\ InLoop /\ Met.kind = "set" /\ Top.level + 1 <= MaxLevel
      /\ stack' = Append([stack EXCEPT ![Len(stack)].level = @ + 1],
                         Call(Met.members, Top.level + 1))
  BY Zenon DEF EnterSet
<1>2. PICK n, F, m : At(n, F, m)
  BY Zenon, <1>1, AtName
<1>3. PICK fs : stack = fs /\ StackOK(fs)
  BY Zenon, <1>1 DEF Inv, ExpandInv, InLoop
<1>4. PICK C : C = Call(config.entries[m].members, F.level + 1)
  BY Zenon
<1>5. config.entries[m].kind = "set" /\ F.level + 1 <= 3
  BY Zenon, <1>1, <1>2 DEF At, MaxLevel
<1>6. n \in 1 .. 2 /\ C.names = config.entries[m].members /\ CallInv(C, n + 1) /\ LevelInv(C, n + 1)
  BY <1>2, <1>4, <1>5, CallStarts
<1>7. PICK G : G = [F EXCEPT !.level = @ + 1]
  BY Zenon
<1>8. CallInv(G, n) /\ G.names = F.names /\ G.next = F.next /\ G.found = F.found
  BY <1>2, <1>7, LevelGrows DEF At
<1>9. PICK hs : hs = [fs EXCEPT ![n] = G]
  BY Zenon
<1>10. n = Len(fs) /\ F = fs[n] /\ DOMAIN fs = 1 .. n
  BY Zenon, <1>2, <1>3 DEF At, StackOK
<1>11. /\ DOMAIN hs = 1 .. n /\ hs[n] = G /\ \A d \in 1 .. n : d # n => hs[d] = fs[d]
       /\ n \in Nat
  BY <1>6, <1>9, <1>10
<1>12. hs = [d \in 1 .. n |-> hs[d]]
  <2>1. hs = [d \in DOMAIN hs |-> hs[d]]
    BY Zenon, <1>9
  <2> QED
    BY Zenon, <1>11, <2>1
<1>13. PICK gs : gs = stack'
  BY Zenon
<1>14. gs = Append(hs, C)
  BY Zenon, <1>1, <1>2, <1>3, <1>4, <1>7, <1>9, <1>10, <1>13 DEF At
<1>15. /\ Len(gs) = n + 1 /\ DOMAIN gs = 1 .. n + 1
       /\ gs[n + 1] = C /\ \A d \in 1 .. n : gs[d] = hs[d]
  BY <1>11, <1>12, <1>14, AppendOf
<1>16. /\ gs[n] = G /\ \A d \in 1 .. n : d # n => gs[d] = fs[d]
       /\ \A d \in 1 .. n + 1 : d \in 1 .. n \/ d = n + 1
       /\ n + 1 \in 1 .. 3 /\ 1 \in 1 .. n
  BY <1>6, <1>11, <1>15
<1>17. \A d \in 1 .. n : /\ CallInv(gs[d], d) /\ gs[d].names = fs[d].names
                         /\ gs[d].next = fs[d].next /\ gs[d].found = fs[d].found
  <2>1. \A d \in 1 .. n : CallInv(fs[d], d)
    BY Zenon, <1>3, <1>10 DEF StackOK
  <2> QED
    BY Zenon, <1>8, <1>10, <1>16, <2>1
<1>18. \A d \in 1 .. n + 1 : CallInv(gs[d], d)
  BY Zenon, <1>6, <1>15, <1>16, <1>17
<1>19. ASSUME NEW d \in 1 .. n + 1, d < n + 1 PROVE Link(gs[d], gs[d + 1])
  <2>1. CASE d = n
    <3>1. F.next <= Len(F.names) /\ m = F.names[F.next]
      BY Zenon, <1>1, <1>2 DEF InLoop, At
    <3> QED
      BY Zenon, <1>5, <1>6, <1>8, <1>15, <1>16, <2>1, <3>1 DEF Link
  <2>2. CASE d # n
    <3>1. d \in 1 .. n /\ d < n /\ d + 1 \in 1 .. n
      BY <1>11, <1>19, <2>2
    <3>2. Link(fs[d], fs[d + 1])
      BY Zenon, <1>3, <1>10, <3>1 DEF StackOK
    <3> QED
      BY Zenon, <1>17, <3>1, <3>2 DEF Link
  <2> QED
    BY Zenon, <2>1, <2>2
<1>20. gs[1].names = config.names /\ Safe(gs[1].found)
  BY Zenon, <1>3, <1>16, <1>17 DEF StackOK
<1>21. StackOK(gs)
  BY Zenon, <1>6, <1>15, <1>16, <1>18, <1>19, <1>20 DEF StackOK
<1> QED
  BY Zenon, <1>1, <1>13, <1>21, StillExpanding DEF InLoop

\* What a set that returns leaves in the map of the first call: an extension
\* that is new there is not named before the set.
LEMMA LostIsUnsafe ==
  ASSUME NEW H, CallInv(H, 1), H.names = config.names, H.next \in Sets(H.names),
         NEW h, h.key = Key(h.name), \A g \in H.found : g.key # h.key,
         config.entries[h.name].kind = "extension"
  PROVE  Unsafe(h.name)
<1>1. H.next \in Nat \ {0} /\ H.names \in Seq(DOMAIN config.entries)
  BY Zenon DEF CallInv, Calls
<1>2. Len(H.names) \in Nat /\ DOMAIN H.names = 1 .. Len(H.names)
  BY Zenon, <1>1, LenProperties
<1> SUFFICES ASSUME NEW i \in DOMAIN config.names, config.names[i] = h.name
             PROVE  H.next < i
  BY Zenon DEF Unsafe
<1>3. CASE i < H.next
  <2>1. Covers(H.found, Handlers({h.name}))
    BY Zenon, <1>2, <1>3 DEF CallInv
  <2>2. h.name \in Handlers({h.name})
    BY Zenon DEF Handlers, Plain
  <2> QED
    BY Zenon, <2>1, <2>2 DEF Covers
<1>4. CASE i = H.next
  <2>1. config.entries[h.name].kind = "set"
    BY Zenon, <1>4 DEF Sets
  <2> QED
    BY Zenon, <2>1
<1> QED
  BY <1>1, <1>2, <1>3, <1>4

\* The call for a set returns: the call before it goes on behind the set.
LEMMA SetReturnsInv ==
  ASSUME Inv, SetReturns
  PROVE  Inv'
<1>1. /\ pc = "expand" /\ Top.next > Len(Top.names) /\ Len(stack) > 1
      /\ stack' = [d \in 1 .. Len(stack) - 1 |->
                     IF d < Len(stack) - 1 THEN stack[d]
                     ELSE [stack[d] EXCEPT
                             !.next = @ + 1,
                             !.found = Added(@, {Union(h.name, FALSE) : h \in Top.found})]]
      /\ UNCHANGED <<config, pc, todo, expanded, redacted, handed, panicked>>
  BY Zenon DEF SetReturns
<1>2. PICK fs : stack = fs /\ StackOK(fs)
  BY Zenon, <1>1 DEF Inv, ExpandInv
<1>3. PICK n : n = Len(fs)
  BY Zenon
<1>4. n \in 2 .. 3 /\ DOMAIN fs = 1 .. n
  <2>1. n \in 1 .. 3 /\ DOMAIN fs = 1 .. n /\ n > 1
    BY Zenon, <1>1, <1>2, <1>3 DEF StackOK
  <2> QED
    BY <2>1
<1>5. PICK k \in 1 .. 2 : k = n - 1
  BY <1>4
<1>6. /\ k + 1 = n /\ k \in 1 .. n /\ n \in 1 .. n /\ k < n /\ k \in 1 .. 3 /\ n \in 1 .. 3
      /\ k \in Nat /\ \A d \in 1 .. k : d \in 1 .. n
  BY <1>4, <1>5
<1>7. PICK F, H : F = fs[n] /\ H = fs[k]
  BY Zenon
<1>8. CallInv(F, n) /\ CallInv(H, k) /\ F.next > Len(F.names)
  BY Zenon, <1>1, <1>2, <1>3, <1>6, <1>7 DEF StackOK, Top
<1>9. Link(H, F)
  <2>1. Link(fs[k], fs[k + 1])
    BY Zenon, <1>2, <1>3, <1>6 DEF StackOK
  <2> QED
    BY Zenon, <1>6, <1>7, <2>1
<1>10. PICK m : m = H.names[H.next]
  BY Zenon
<1>11. H.next <= Len(H.names) /\ config.entries[m].kind = "set" /\ Range(F.names) = Members(m)
  BY Zenon, <1>9, <1>10 DEF Link, Members
<1>12. /\ H \in Calls /\ H.next \in Nat \ {0} /\ H.level \in Nat /\ H.found \subseteq Unions
       /\ H.names \in Seq(DOMAIN config.entries) /\ F.found \subseteq Unions
       /\ \A h \in H.found \cup F.found : h.name \in Reached
  BY Zenon, <1>8 DEF CallInv, Calls
<1>13. H.next \in Sets(H.names) /\ H.next < H.next + 1
  <2>1. H.next \in DOMAIN H.names /\ H.next < H.next + 1
    BY <1>11, <1>12, LenProperties
  <2> QED
    BY Zenon, <1>10, <1>11, <2>1 DEF Sets
<1>14. PICK new : new = {Union(h.name, FALSE) : h \in F.found}
  BY Zenon
<1>15. /\ new \subseteq Unions
       /\ \A h \in new : h.ext = FALSE /\ \E g \in F.found : g.name = h.name
       /\ \A ms : Covers(F.found, ms) => Covers(new, ms)
  BY Zenon, <1>12, <1>14, Unset
<1>16. PICK found : found = Added(H.found, new)
  BY Zenon
<1>17. /\ \A h \in found : h \in H.found \/ (h \in new /\ \A g \in H.found : g.key # h.key)
       /\ \A ms : Covers(H.found, ms) \/ Covers(new, ms) => Covers(found, ms)
  <2>1. \A h \in found : h \in H.found \/ (h \in new /\ \A g \in H.found : g.key # h.key)
    BY Zenon, <1>16 DEF Added
  <2> QED
    BY Zenon, <1>16, <2>1, AddedCovers
<1>18. found \subseteq Unions /\ \A h \in found : h.name \in Reached
  BY Zenon, <1>12, <1>15, <1>17
<1>19. PICK G : G = [H EXCEPT !.next = @ + 1, !.found = found]
  BY Zenon
<1>20. G \in Calls /\ G.names = H.names /\ G.next = H.next + 1 /\ G.level = H.level /\ G.found = found
  <2>1. PICK D, U : D = Seq(DOMAIN config.entries) /\ U = SUBSET Unions
    BY Zenon
  <2>2. H \in [names : D, next : Nat \ {0}, level : Nat, found : U]
    BY Zenon, <1>12, <2>1 DEF Calls
  <2>3. PICK i \in Nat \ {0} : i = H.next + 1
    BY <1>12
  <2>4. G = [H EXCEPT !.next = i, !.found = found]
    BY Zenon, <1>19, <2>3
  <2>5. found \in U
    BY Zenon, <1>18, <2>1
  <2>6. G \in [names : D, next : Nat \ {0}, level : Nat, found : U]
    BY Zenon, <2>2, <2>4, <2>5
  <2>7. G.names = H.names /\ G.next = i /\ G.level = H.level /\ G.found = found
    BY Zenon, <2>2, <2>4
  <2> QED
    BY Zenon, <2>1, <2>3, <2>6, <2>7 DEF Calls
<1>21. PICK gs : gs = stack'
  BY Zenon
<1>22. gs = [d \in 1 .. k |-> IF d < k THEN fs[d] ELSE [fs[d] EXCEPT !.next = @ + 1, !.found = Added(@, new)]]
  BY Zenon, <1>1, <1>2, <1>3, <1>5, <1>7, <1>14, <1>21 DEF Top
<1>23. DOMAIN gs = 1 .. k /\ gs[k] = G /\ \A d \in 1 .. k : d # k => gs[d] = fs[d]
  <2>2. k \in 1 .. k /\ ~ (k < k) /\ \A d \in 1 .. k : d # k => d < k
    BY <1>6
  <2>1. DOMAIN gs = 1 .. k /\ \A d \in 1 .. k : d # k => gs[d] = fs[d]
    BY Zenon, <1>22, <2>2
  <2>3. gs[k] = [fs[k] EXCEPT !.next = @ + 1, !.found = Added(@, new)]
    BY Zenon, <1>22, <2>2
  <2> QED
    BY Zenon, <1>7, <1>16, <1>19, <2>1, <2>3
<1>24. Len(gs) = k
  <2>1. gs = [d \in DOMAIN gs |-> gs[d]]
    BY Zenon, <1>22
  <2> QED
    BY Zenon, <1>6, <1>23, <2>1, LenOf
<1>25. CallInv(G, k)
  <2>1. Covers(G.found, Handlers({m}))
    BY Zenon, <1>11 DEF Covers, Handlers, Plain
  <2>2. ASSUME SetsAreAlone PROVE Covers(G.found, Handlers(Deep(k, Members(m))))
    <3>1. Covers(F.found, Handlers(Deep(k, Range(F.names))))
      BY Zenon, <1>5, <1>6, <1>8, <2>2, CallComplete
    <3> QED
      BY Zenon, <1>11, <1>15, <1>17, <1>20, <3>1
  <2>3. H.level <= G.level
    BY <1>12, <1>20
  <2> QED
    BY Zenon, <1>6, <1>8, <1>10, <1>11, <1>17, <1>18, <1>20, <2>1, <2>2, <2>3, CallAdvances
<1>26. LevelInv(G, k)
  BY Zenon, <1>13, <1>20 DEF LevelInv
<1>27. /\ k \in 1 .. 3 /\ \A d \in 1 .. k : CallInv(gs[d], d) /\ gs[d].names = fs[d].names
       /\ \A d \in 1 .. k : d < k => Link(gs[d], gs[d + 1])
  <2>1. \A d \in 1 .. n : CallInv(fs[d], d)
    BY Zenon, <1>2, <1>3 DEF StackOK
  <2>2. \A d \in 1 .. k : CallInv(gs[d], d) /\ gs[d].names = fs[d].names
    BY Zenon, <1>6, <1>7, <1>20, <1>23, <1>25, <2>1
  <2>3. ASSUME NEW d \in 1 .. k, d < k PROVE Link(gs[d], gs[d + 1])
    <3>1. d # k /\ d + 1 \in 1 .. k /\ d < n
      BY <1>5, <1>6, <2>3
    <3>2. Link(fs[d], fs[d + 1])
      BY Zenon, <1>2, <1>3, <1>6, <3>1 DEF StackOK
    <3> QED
      BY Zenon, <1>23, <2>2, <3>1, <3>2 DEF Link
  <2> QED
    BY Zenon, <1>6, <2>2, <2>3
<1>28. fs[1].names = config.names /\ Safe(fs[1].found) /\ 1 \in 1 .. k
  <2>1. 1 \in 1 .. k
    BY <1>5
  <2> QED
    BY Zenon, <1>2, <2>1 DEF StackOK
<1>29. Safe(gs[1].found)
  <2>1. CASE k # 1
    BY Zenon, <1>23, <1>28, <2>1
  <2>2. CASE k = 1
    <3> SUFFICES ASSUME NEW h \in found, ~h.ext, config.entries[h.name].kind = "extension"
                 PROVE  Unsafe(h.name)
      BY Zenon, <1>20, <1>23, <2>2 DEF Safe
    <3>1. CASE h \in H.found
      BY Zenon, <1>7, <1>28, <2>2, <3>1 DEF Safe
    <3>2. CASE h \in new /\ \A g \in H.found : g.key # h.key
      <4>1. h.key = Key(h.name)
        BY Zenon, <1>15, <3>2, UnionFields
      <4> QED
        BY Zenon, <1>7, <1>8, <1>13, <1>28, <2>2, <3>2, <4>1, LostIsUnsafe
    <3> QED
      BY Zenon, <1>17, <3>1, <3>2
  <2> QED
    BY Zenon, <2>1, <2>2
<1>30. StackOK(gs)
  BY Zenon, <1>23, <1>24, <1>26, <1>27, <1>28, <1>29 DEF StackOK
<1> QED
  BY Zenon, <1>1, <1>21, <1>30, StillExpanding

\* What depends on the configuration only.
LEMMA ConfigStays ==
  ASSUME config' = config
  PROVE  /\ Unions' = Unions /\ Reached' = Reached /\ (SetsAreAlone' <=> SetsAreAlone)
         /\ \A m : Key(m)' = Key(m) /\ (Unsafe(m)' <=> Unsafe(m))
         /\ \A h : Entry(h)' = Entry(h) /\ (Gets(h)' <=> Gets(h))
<1>1. Unions' = Unions
  BY Zenon DEF Unions, Union, Key
<1>2. Reached' = Reached
  BY DEF Reached, Handlers, Through, Named
<1>3. SetsAreAlone' <=> SetsAreAlone
  BY DEF SetsAreAlone, OneSet, Sets
<1>4. \A m : Key(m)' = Key(m) /\ (Unsafe(m)' <=> Unsafe(m))
  BY Zenon DEF Key, Unsafe, Sets
<1>5. \A h : Entry(h)' = Entry(h)
  BY Zenon DEF Entry
<1>6. \A h : Gets(h)' <=> Gets(h)
  BY Zenon DEF Entry, Gets
<1> QED
  BY Zenon, <1>1, <1>2, <1>3, <1>4, <1>5, <1>6

\* A call inside no other is for what the event names, and has found it all.
LEMMA FirstCallComplete ==
  ASSUME NEW F, CallInv(F, 1), F.names = config.names, F.next > Len(F.names), SetsAreAlone
  PROVE  Covers(F.found, Reached)
<1>1. Covers(F.found, Handlers(Deep(1 - 1, Range(F.names))))
  BY CallComplete
<1>2. Deep(1 - 1, Range(F.names)) = Named \cup Through(Named) \cup Through(Through(Named))
  <2>1. 1 - 1 = 0 /\ Range(F.names) = Named
    BY DEF Named
  <2> QED
    BY Zenon, <2>1 DEF Deep
<1> QED
  BY Zenon, <1>1, <1>2 DEF Reached

\* The first call returns.
LEMMA ExpandedInv ==
  ASSUME Inv, Expanded
  PROVE  Inv'
<1>1. /\ pc = "expand" /\ Top.next > Len(Top.names) /\ Len(stack) = 1
      /\ expanded' = Top.found /\ todo' = Top.found
      /\ pc' = IF Top.found = {} THEN "return" ELSE "loop"
      /\ config' = config /\ handed' = handed /\ panicked' = panicked
  BY Zenon DEF Expanded
<1>2. PICK fs : stack = fs /\ StackOK(fs)
  BY Zenon, <1>1 DEF Inv, ExpandInv
<1>3. PICK F : F = Top
  BY Zenon
<1>4. CallInv(F, 1) /\ F.names = config.names /\ Safe(F.found)
  <2>1. 1 \in 1 .. 1
    OBVIOUS
  <2> QED
    BY Zenon, <1>1, <1>2, <1>3, <2>1 DEF StackOK, Top
<1>5. SetsAreAlone => Covers(F.found, Reached)
  BY Zenon, <1>1, <1>3, <1>4, FirstCallComplete
<1>6. F.found \subseteq Unions /\ \A h \in F.found : h.name \in Reached
  BY Zenon, <1>4 DEF CallInv, Calls
<1>7. Whole(expanded)'
  BY Zenon, <1>1, <1>3, <1>5, <1>6, ConfigStays DEF Whole, Covers
<1>8. Safe(expanded)'
  BY Zenon, <1>1, <1>3, <1>4, ConfigStays DEF Safe
<1>9. handed = {} /\ panicked = FALSE /\ config \in Configs
  BY Zenon, <1>1 DEF Inv, ExpandInv
<1>10. handed' = {h.name : h \in {g \in expanded' \ todo' : Gets(g)'}}
  BY Zenon, <1>1, <1>9
<1>11. pc' = "return" => todo' = {}
  BY Zenon, <1>1
<1>12. LoopInv'
  BY Zenon, <1>1, <1>7, <1>8, <1>9, <1>10, <1>11 DEF LoopInv
<1>13. pc' \in {"expand", "loop", "return"} /\ pc' # "expand"
  BY Zenon, <1>1
<1> QED
  BY Zenon, <1>1, <1>9, <1>12, <1>13 DEF Inv

-----------------------------------------------------------------------------
(***************************************************************************)
(* The loop over the expanded handlers.                                    *)
(***************************************************************************)

\* What a step of the loop has to show.
LEMMA LoopGoesOn ==
  ASSUME Inv, pc = "loop", NEW h, Loop(h), config' = config, expanded' = expanded,
         panicked' \in BOOLEAN,
         ~panicked' => handed' = {x.name : x \in {g \in expanded \ (todo \ {h}) : Gets(g)}},
         panicked' => \E m \in handed' : Unsafe(m)
  PROVE  Inv'
<1>1. LoopInv /\ config \in Configs
  BY Zenon DEF Inv
<1>2. todo' = todo \ {h} /\ pc' = IF todo' = {} THEN "return" ELSE "loop"
  BY Zenon DEF Loop
<1>3. Whole(expanded)'
  BY Zenon, <1>1, ConfigStays DEF LoopInv, Whole, Covers
<1>4. Safe(expanded)'
  BY Zenon, <1>1, ConfigStays DEF LoopInv, Safe
<1>5. todo' \subseteq expanded'
  BY Zenon, <1>1, <1>2 DEF LoopInv
<1>6. pc' = "return" => todo' = {}
  BY Zenon, <1>2
<1>7. ~panicked' => handed' = {x.name : x \in {g \in expanded' \ todo' : Gets(g)'}}
  BY Zenon, <1>2, ConfigStays
<1>8. panicked' => \E m \in handed' : Unsafe(m)'
  BY Zenon, ConfigStays
<1>9. LoopInv'
  BY Zenon, <1>3, <1>4, <1>5, <1>6, <1>7, <1>8 DEF LoopInv
<1>10. pc' \in {"expand", "loop", "return"} /\ pc' # "expand"
  BY Zenon, <1>2
<1> QED
  BY Zenon, <1>1, <1>9, <1>10 DEF Inv

\* A handler that is filtered, or whose mutator fails, gets nothing.
LEMMA PassedOverInv ==
  ASSUME Inv, ~panicked, NEW h, Filtered(h) \/ MutationFails(h)
  PROVE  Inv'
<1>1. /\ Loop(h) /\ pc = "loop" /\ ~Gets(h) /\ handed' = handed /\ panicked' = panicked
      /\ config' = config /\ expanded' = expanded
  BY Zenon DEF Filtered, MutationFails, Loop, Gets
<1>2. LoopInv
  BY Zenon, <1>1 DEF Inv
<1>3. panicked' \in BOOLEAN /\ ~panicked'
  BY Zenon, <1>1, <1>2 DEF LoopInv
<1>4. handed' = {x.name : x \in {g \in expanded \ todo : Gets(g)}}
  BY Zenon, <1>1, <1>2 DEF LoopInv
<1>5. {g \in expanded \ (todo \ {h}) : Gets(g)} = {g \in expanded \ todo : Gets(g)}
  BY Zenon, <1>1
<1> QED
  BY Zenon, <1>1, <1>3, <1>4, <1>5, LoopGoesOn

\* A handler gets the event; grpcHandler may find no extension.
LEMMA HandledInv ==
  ASSUME Inv, NEW h, Handled(h)
  PROVE  Inv'
<1>1. /\ Loop(h) /\ pc = "loop" /\ h \in todo /\ Gets(h) /\ ~panicked
      /\ handed' = handed \cup {h.name}
      /\ panicked' = (Entry(h).kind \in {"extension", "grpc"} /\ ~h.ext)
      /\ config' = config /\ expanded' = expanded
  BY Zenon DEF Handled, Loop, Gets
<1>2. LoopInv
  BY Zenon, <1>1 DEF Inv
<1>3. panicked' \in BOOLEAN
  BY Zenon, <1>1
<1>4. h \in expanded /\ handed = {x.name : x \in {g \in expanded \ todo : Gets(g)}}
  BY Zenon, <1>1, <1>2 DEF LoopInv
<1>5. {g \in expanded \ (todo \ {h}) : Gets(g)} = {g \in expanded \ todo : Gets(g)} \cup {h}
  BY Zenon, <1>1, <1>4
<1>6. handed' = {x.name : x \in {g \in expanded \ (todo \ {h}) : Gets(g)}}
  BY Zenon, <1>1, <1>4, <1>5
<1>7. ASSUME panicked' PROVE \E m \in handed' : Unsafe(m)
  <2>1. Entry(h).kind \in {"extension", "grpc"} /\ ~h.ext
    BY Zenon, <1>1, <1>7
  <2>2. CASE Entry(h).kind = "grpc"
    BY Zenon, <1>1, <2>2 DEF Unsafe, Entry
  <2>3. CASE Entry(h).kind = "extension"
    BY Zenon, <1>1, <1>2, <1>4, <2>1, <2>3 DEF LoopInv, Safe, Entry
  <2> QED
    BY Zenon, <2>1, <2>2, <2>3
<1> QED
  BY Zenon, <1>1, <1>3, <1>6, <1>7, LoopGoesOn

-----------------------------------------------------------------------------
(***************************************************************************)
(* Filters.                                                                *)
(***************************************************************************)
INSTANCE WellFoundedInduction

\* A filter denies the event exactly when its documentation says so.
LEMMA FilterAsDocumented ==
  ASSUME NEW f \in Filters
  PROVE  LetsThrough(f) <=> ~Denies(f)
<1>1. CASE f \in [kind : {"builtin"}, denies : BOOLEAN]
  <2>1. f.kind = "builtin"
    BY Zenon, <1>1
  <2> QED
    BY Zenon, <2>1 DEF LetsThrough, Denies
<1>2. CASE f \in [kind : {"custom"}, action : {"allow", "deny"}, window : Windows,
                  matches : Seq(BOOLEAN)]
  <2>1. f.kind = "custom" /\ f.action \in {"allow", "deny"} /\ f.window \in Windows
    BY Zenon, <1>2
  <2>2. f.matches \in Seq(BOOLEAN)
    BY Zenon, <1>2
  <2>3. \A i \in DOMAIN f.matches : f.matches[i] \in BOOLEAN
    BY Zenon, <2>2, ElementOfSeq, LenProperties
  <2>4. (FALSE \notin Range(f.matches)) <=> \A i \in DOMAIN f.matches : f.matches[i]
    BY Zenon, <2>3 DEF Range
  <2>5. f.window \in {"none", "in"} <=> f.window # "error" /\ f.window # "out"
    BY Zenon, <2>1 DEF Windows
  <2>6. EvaluateEventFilter(f) <=>
          ~ (\/ f.window = "error"
             \/ (f.action = "allow") <=>
                   (f.window \in {"none", "in"} /\ \A i \in DOMAIN f.matches : f.matches[i]))
    <3>1. f.action = "deny" <=> f.action # "allow"
      BY Zenon, <2>1
    <3> QED
      BY Zenon, <2>4, <2>5, <3>1 DEF EvaluateEventFilter
  <2>7. Denies(f) <=> EvaluateEventFilter(f)
    BY Zenon, <2>1 DEF Denies
  <2>8. LetsThrough(f) <=>
          \/ f.window = "error"
          \/ (f.action = "allow") <=>
                (f.window \in {"none", "in"} /\ \A i \in DOMAIN f.matches : f.matches[i])
    BY Zenon, <2>1 DEF LetsThrough
  <2> QED
    BY Zenon, <2>6, <2>7, <2>8
<1>3. CASE f \in [kind : {"extension"}, answer : {"allow", "deny", "error"}]
  <2>1. f.kind = "extension"
    BY Zenon, <1>3
  <2> QED
    BY Zenon, <2>1 DEF LetsThrough, Denies
<1>4. CASE f \in [kind : {"unreadable"}]
  <2>1. f.kind = "unreadable"
    BY Zenon, <1>4
  <2> QED
    BY Zenon, <2>1 DEF LetsThrough, Denies
<1> QED
  BY Zenon, <1>1, <1>2, <1>3, <1>4 DEF Filters

\* Of some positions there is a first one.
LEMMA First ==
  ASSUME NEW T, T \subseteq Nat, T # {}
  PROVE  \E k \in T : \A j \in T : ~ (j < k)
<1> DEFINE R == OpToRel(<, Nat)
<1>1. IsWellFoundedOn(R, Nat)
  BY Zenon, NatLessThanWellFounded
<1> HIDE DEF R
<1>2. PICK k \in T : \A j \in T : <<j, k>> \notin R
  BY Zenon, <1>1, WFMin
<1>3. \A j \in T : <<j, k>> \in Nat \X Nat
  BY Zenon
<1> QED
  BY Zenon, <1>2, <1>3 DEF R, OpToRel

\* filterEvent, which stops at the first filter that denies the event or that
\* cannot be read, denies it when one of the filters before the first that
\* cannot be read does.
LEMMA FilterVerdict ==
  ASSUME NEW filters \in Seq(Filters)
  PROVE  FilterEvent(filters) <=> \E i \in Readable(filters) : ~LetsThrough(filters[i])
<1>1. Len(filters) \in Nat /\ DOMAIN filters = 1 .. Len(filters)
  BY Zenon, LenProperties
<1>2. \A i \in DOMAIN filters : filters[i] \in Filters
  BY Zenon, <1>1, ElementOfSeq
<1>3. \A i \in DOMAIN filters : LetsThrough(filters[i]) <=> ~Denies(filters[i])
  BY Zenon, <1>2, FilterAsDocumented
<1>4. ASSUME NEW i \in Evaluated(filters), Denies(filters[i]) PROVE i \in Readable(filters)
  <2>1. i \in DOMAIN filters /\ \A j \in 1 .. i - 1 : filters[j].kind # "unreadable"
    BY Zenon DEF Evaluated
  <2>2. filters[i].kind # "unreadable"
    BY Zenon, <1>4 DEF Denies
  <2>3. \A j \in 1 .. i : j \in 1 .. i - 1 \/ j = i
    BY <1>1, <2>1
  <2> QED
    BY Zenon, <2>1, <2>2, <2>3 DEF Readable
<1>5. ASSUME NEW i \in Readable(filters), Denies(filters[i])
      PROVE  \E k \in Evaluated(filters) : Denies(filters[k])
  <2>1. i \in 1 .. Len(filters) /\ \A j \in 1 .. i : filters[j].kind # "unreadable"
    BY Zenon, <1>1 DEF Readable
  <2>2. PICK T : T = {j \in 1 .. i : Denies(filters[j])}
    BY Zenon
  <2>3. T \subseteq Nat /\ i \in T
    <3>1. i \in 1 .. i /\ 1 .. i \subseteq Nat
      BY <1>1, <2>1
    <3> QED
      BY Zenon, <1>5, <2>2, <3>1
  <2>4. PICK k \in T : \A j \in T : ~ (j < k)
    BY Zenon, <2>3, First
  <2>5. k \in 1 .. i /\ Denies(filters[k])
    BY Zenon, <2>2, <2>4
  <2>6. k \in DOMAIN filters /\ \A j \in 1 .. k - 1 : j \in 1 .. i /\ j < k
    BY <1>1, <2>1, <2>5
  <2>7. \A j \in 1 .. k - 1 : ~Denies(filters[j]) /\ filters[j].kind # "unreadable"
    BY Zenon, <2>1, <2>2, <2>4, <2>6
  <2> QED
    BY Zenon, <2>5, <2>6, <2>7 DEF Evaluated
<1>6. Readable(filters) \subseteq DOMAIN filters
  BY Zenon DEF Readable
<1> QED
  BY Zenon, <1>3, <1>4, <1>5, <1>6 DEF FilterEvent

-----------------------------------------------------------------------------
(***************************************************************************)
(* The theorems.                                                           *)
(***************************************************************************)

\* handleEvent begins with a call for the names on the event.
LEMMA InitInv == Init => Inv
<1> SUFFICES ASSUME Init PROVE Inv
  BY Zenon
<1>1. config \in Configs /\ pc = "expand" /\ stack = <<Call(config.names, 1)>>
  BY Zenon DEF Init
<1>2. PICK C : C = Call(config.names, 1)
  BY Zenon
<1>3. C.names = config.names /\ C.next = 1 /\ C.level = 1 /\ C.found = {}
  BY Zenon, <1>2 DEF Call
<1>4. config.names \in Seq(DOMAIN config.entries)
  BY Zenon, <1>1, ConfigsAssumption
<1>5. C \in Calls
  <2>1. PICK D, U : D = Seq(DOMAIN config.entries) /\ U = SUBSET Unions
    BY Zenon
  <2>2. PICK ms \in D : ms = config.names
    BY Zenon, <1>4, <2>1
  <2>3. {} \in U /\ 1 \in Nat \ {0}
    BY <2>1
  <2>4. C = [names |-> ms, next |-> 1, level |-> 1, found |-> {}]
    BY Zenon, <1>2, <2>2 DEF Call
  <2>5. C \in [names : D, next : Nat \ {0}, level : Nat, found : U]
    BY Zenon, <2>3, <2>4
  <2> QED
    BY Zenon, <2>1, <2>5 DEF Calls
<1>6. Len(C.names) \in Nat /\ DOMAIN C.names = 1 .. Len(C.names)
  BY Zenon, <1>3, <1>4, LenProperties
<1>7. /\ C.next <= Len(C.names) + 1 /\ 1 <= C.level
      /\ \A k \in 1 .. Len(C.names) : ~ (k < C.next)
  BY <1>3, <1>6
<1>8. \A k \in Sets(C.names) : ~ (k < C.next)
  BY Zenon, <1>6, <1>7 DEF Sets
<1>9. Range(C.names) \subseteq Layer(1)
  BY Zenon, <1>3 DEF Layer, Named
<1>10. SetsAreAlone => OneSet(C.names)
  BY Zenon, <1>3 DEF SetsAreAlone
<1>11. (\A h \in C.found : h.name \in Reached) /\ Safe(C.found)
  BY Zenon, <1>3 DEF Safe
<1>12. CallInv(C, 1) /\ LevelInv(C, 1)
  BY Zenon, <1>3, <1>5, <1>7, <1>8, <1>9, <1>10, <1>11 DEF CallInv, LevelInv
<1>13. PICK fs : fs = <<C>>
  BY Zenon
<1>14. /\ Len(fs) = 1 /\ DOMAIN fs = 1 .. 1 /\ fs[1] = C /\ 1 \in 1 .. 3
       /\ \A d \in 1 .. 1 : d = 1 /\ ~ (d < 1)
  BY <1>13
<1>15. StackOK(fs)
  BY Zenon, <1>3, <1>11, <1>12, <1>14 DEF StackOK
<1>16. ExpandInv
  BY Zenon, <1>1, <1>2, <1>13, <1>15 DEF ExpandInv, Init
<1> QED
  BY Zenon, <1>1, <1>16 DEF Inv

\* Nothing that Inv is about changes.
LEMMA StutterInv ==
  ASSUME Inv, UNCHANGED vars
  PROVE  Inv'
<1>1. /\ config' = config /\ pc' = pc /\ stack' = stack /\ todo' = todo /\ expanded' = expanded
      /\ handed' = handed /\ panicked' = panicked /\ redacted' = redacted
  BY Zenon DEF vars
<1>2. CASE pc = "expand"
  <2>1. PICK fs : stack = fs /\ StackOK(fs)
    BY Zenon, <1>2 DEF Inv, ExpandInv
  <2>2. StackOK(stack')
    BY Zenon, <1>1, <2>1
  <2> QED
    BY Zenon, <1>1, <1>2, <2>2, StillExpanding
<1>3. CASE pc # "expand"
  <2>1. LoopInv
    BY Zenon, <1>3 DEF Inv
  <2>2. Whole(expanded)'
    BY Zenon, <1>1, <2>1, ConfigStays DEF LoopInv, Whole, Covers
  <2>3. Safe(expanded)'
    BY Zenon, <1>1, <2>1, ConfigStays DEF LoopInv, Safe
  <2>4. ~panicked' => handed' = {x.name : x \in {g \in expanded' \ todo' : Gets(g)'}}
    BY Zenon, <1>1, <2>1, ConfigStays DEF LoopInv
  <2>5. panicked' => \E m \in handed' : Unsafe(m)'
    BY Zenon, <1>1, <2>1, ConfigStays DEF LoopInv
  <2>6. LoopInv'
    BY Zenon, <1>1, <2>1, <2>2, <2>3, <2>4, <2>5 DEF LoopInv
  <2> QED
    BY Zenon, <1>1, <1>3, <2>6 DEF Inv
<1> QED
  BY Zenon, <1>2, <1>3

\* The inductive invariant of one call of handleEvent.
THEOREM InvHolds == Spec => []Inv
<1>1. Inv /\ [Next]_vars => Inv'
  <2> SUFFICES ASSUME Inv, [Next]_vars PROVE Inv'
    BY Zenon
  <2>1. CASE NotFound
    BY Zenon, <2>1, NotFoundInv
  <2>2. CASE AddHandler
    BY Zenon, <2>2, AddHandlerInv
  <2>3. CASE SetTooDeep
    BY Zenon, <2>3, SetTooDeepInv
  <2>4. CASE EnterSet
    BY Zenon, <2>4, EnterSetInv
  <2>5. CASE SetReturns
    BY Zenon, <2>5, SetReturnsInv
  <2>6. CASE Expanded
    BY Zenon, <2>6, ExpandedInv
  <2>7. CASE ~panicked /\ \E h \in todo : Filtered(h) \/ MutationFails(h) \/ Handled(h)
    BY Zenon, <2>7, PassedOverInv, HandledInv
  <2>8. CASE UNCHANGED vars
    BY Zenon, <2>8, StutterInv
  <2> QED
    BY Zenon, <2>1, <2>2, <2>3, <2>4, <2>5, <2>6, <2>7, <2>8 DEF Next
<1> QED
  BY <1>1, InitInv, PTL DEF Spec

\* expandHandlers returns only handlers that the names on the event reach
\* through two nested sets, and all of them when no list of names has two sets
\* in it, whatever the sets contain.
THEOREM ExpandsHolds == Spec => []Expands
<1>1. Inv => Expands
  <2> SUFFICES ASSUME Inv, pc # "expand"
               PROVE  /\ {h.name : h \in expanded} \subseteq Reached
                      /\ SetsAreAlone => {h.key : h \in expanded} = Keys(Reached)
    BY Zenon DEF Expands
  <2>1. Whole(expanded)
    BY Zenon DEF Inv, LoopInv
  <2>2. \A h \in expanded : h.name \in Reached /\ h.key = Key(h.name)
    BY Zenon, <2>1, UnionFields DEF Whole
  <2>3. ASSUME SetsAreAlone PROVE {h.key : h \in expanded} = Keys(Reached)
    <3>1. \A m \in Reached : \E h \in expanded : h.key = Key(m)
      BY Zenon, <2>1, <2>3 DEF Whole, Covers
    <3>2. \A h \in expanded : h.key \in Keys(Reached)
      BY Zenon, <2>2 DEF Keys
    <3>3. \A k \in Keys(Reached) : \E h \in expanded : k = h.key
      BY Zenon, <3>1 DEF Keys
    <3> QED
      BY Zenon, <3>2, <3>3
  <2> QED
    BY Zenon, <2>2, <2>3
<1> QED
  BY <1>1, InvHolds, PTL

\* A handler gets the event exactly when all filters of its that can be read
\* let the event through, as they are documented, and its mutator works.
THEOREM DecidedHolds == Spec => []Decided
<1>1. Inv => Decided
  <2> SUFFICES ASSUME Inv, pc = "return", ~panicked
               PROVE  handed = {h.name : h \in {g \in expanded :
                        /\ \A i \in Readable(Entry(g).filters) : LetsThrough(Entry(g).filters[i])
                        /\ Entry(g).mutator # "fails"}}
    BY Zenon DEF Decided
  <2>1. LoopInv /\ config \in Configs
    BY Zenon DEF Inv
  <2>2. todo = {} /\ handed = {h.name : h \in {g \in expanded \ todo : Gets(g)}}
    BY Zenon, <2>1 DEF LoopInv
  <2>3. ASSUME NEW g \in expanded
        PROVE  Gets(g) <=>
                 /\ \A i \in Readable(Entry(g).filters) : LetsThrough(Entry(g).filters[i])
                 /\ Entry(g).mutator # "fails"
    <3>1. g.name \in DOMAIN config.entries
      BY Zenon, <2>1, UnionFields DEF LoopInv, Whole
    <3>2. Entry(g).filters \in Seq(Filters)
      BY Zenon, <2>1, <3>1, ConfigsAssumption DEF Entry
    <3> QED
      BY Zenon, <3>2, FilterVerdict DEF Gets
  <2>4. {g \in expanded \ todo : Gets(g)} =
          {g \in expanded :
             /\ \A i \in Readable(Entry(g).filters) : LetsThrough(Entry(g).filters[i])
             /\ Entry(g).mutator # "fails"}
    BY Zenon, <2>2, <2>3
  <2> QED
    BY Zenon, <2>2, <2>4
<1> QED
  BY <1>1, InvHolds, PTL

\* handleEvent panics only for a handler of type grpc from the store or an
\* extension that the event does not name before every set.
THEOREM ExtensionsRunHolds == Spec => []ExtensionsRun
<1>1. Inv => ExtensionsRun
  <2>1. ASSUME Inv, pc = "expand" PROVE ~panicked
    BY Zenon, <2>1 DEF Inv, ExpandInv
  <2>2. ASSUME Inv, pc # "expand" PROVE panicked => \E m \in handed : Unsafe(m)
    BY Zenon, <2>2 DEF Inv, LoopInv
  <2> QED
    BY Zenon, <2>1, <2>2 DEF ExtensionsRun
<1> QED
  BY <1>1, InvHolds, PTL
=============================================================================
