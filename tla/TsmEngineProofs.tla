-------------------------- MODULE TsmEngineProofs ---------------------------
(***************************************************************************)
(* Proofs about TsmEngine without torn entries and the cold race: the      *)
(* inductive invariant, what the operations of the log do to the entries   *)
(* in the segment files, that what is acknowledged is durable, visible and *)
(* returned by queries, and that the engine implements PointStore.  What   *)
(* snapshots that fail may not be allowed for is marked SnapshotsSucceed.  *)
(***************************************************************************)
EXTENDS TsmEngine, FiniteSetTheorems, TLAPS

SnapshotsSucceed == "snapshotFails" \notin Faults

Durable == tsm \cup Replayed
Offered == {w \in Writes : wpc[w] # "idle"}
Flushing(s) == spc[s] \in {"write", "commit", "clear"}

\* The log: files hold whole entries, the writer is at the end of the last.
WalInv ==
  /\ gap = FALSE
  /\ \A i \in DOMAIN segs : segs[i].torn = FALSE /\ segs[i].after = {}
  /\ open => id \in DOMAIN segs
  /\ buf # << >> => open
  /\ waiters \subseteq Range(buf)
  /\ phase = "up" => \A i \in DOMAIN segs : i <= id
  /\ phase = "down" => buf = << >> /\ waiters = {}

\* Who may run beside whom.
LockInv ==
  /\ \A s \in Snapshotters : spc[s] \in {"alloc", "swap"} =>
       /\ \A w \in Writes : ~InFlight(w)
       /\ \A t \in Snapshotters : t # s => spc[t] \in {"idle", "write"}
       /\ fpc = "idle"
  /\ \A w \in Writes : wpc[w] = "alloc" => \A v \in Writes : v # w => ~InFlight(v)
  /\ fpc # "idle" =>
       /\ \A w \in Writes : ~InFlight(w)
       /\ \A s \in Snapshotters : spc[s] = "idle"
       /\ size = 0 /\ snapSize = 0
  /\ \A s \in Snapshotters : Flushing(s) =>
       /\ snapshotting
       /\ snapSize > 0
       /\ \A t \in Snapshotters : t # s => ~Flushing(t)
  /\ SnapshotsSucceed /\ ~snapshotting => snapSize = 0
  /\ phase = "down" =>
       /\ \A w \in Writes : ~InFlight(w)
       /\ \A s \in Snapshotters : spc[s] = "idle"
       /\ \A r \in Readers : rpc[r] = "idle"
       /\ fpc = "idle"

\* The cache: there is a ring whenever a batch is put into it, and nothing is
\* in it when the ring is replaced.
StoreInv ==
  /\ ~initialized => cache = {} /\ \A w \in Writes : ~InFlight(w)
  /\ fpc = "drop" => ~initialized
  /\ size = 0 => cache = {}
  /\ snapSize = 0 => snap = {}
  /\ snapRing
  /\ \/ ring
     \/ ~initialized
     \/ \E w \in Writes : wpc[w] = "alloc"
     \/ \E s \in Snapshotters : spc[s] = "alloc"
  /\ \A w \in Writes : wpc[w] = "alloc" => cache = {}
  /\ \A w \in Writes : wpc[w] \in {"check", "cache"} => ring
  /\ \A s \in Snapshotters : spc[s] = "alloc" => cache = {}
  /\ \A s \in Snapshotters : spc[s] = "swap" => ring

\* The segments a snapshotter will remove are covered by its snapshot, unless
\* that is an old one which failed before.
ClosedInv ==
  \A s \in Snapshotters :
    /\ spc[s] = "idle" => closed[s] = {}
    /\ \A i \in closed[s] : i < id
    /\ SnapshotsSucceed /\ spc[s] \in {"write", "commit"} =>
         \A i \in closed[s] : i \in DOMAIN segs => segs[i].ok \subseteq snap \cup tsm
    /\ SnapshotsSucceed /\ spc[s] \in {"clear", "remove"} =>
         \A i \in closed[s] : i \in DOMAIN segs => segs[i].ok \subseteq tsm
    /\ spc[s] = "clear" => snap \subseteq tsm

\* Where each batch is.
DataInv ==
  /\ phase = "up" => Replayed \cup Range(buf) \subseteq Visible
  /\ \A w \in Writes : wpc[w] \in {"log", "sync"} => w \in Visible
  /\ SnapshotsSucceed => \A w \in Writes : wpc[w] = "sync" => w \in waiters \cup Durable
  /\ SnapshotsSucceed => \A w \in Writes : wpc[w] = "ok" => w \in Durable
  /\ MaxCrashes = 0 => phase = "up" /\ \A w \in Writes : wpc[w] = "ok" => w \in Visible
  /\ Visible \cup Replayed \cup Range(buf) \subseteq Offered

\* What a query has not seen yet is where it still looks.
ReadInv ==
  SnapshotsSucceed \/ MaxCrashes = 0 => \A r \in Readers :
    /\ rpc[r] = "files" => due[r] \subseteq seen[r] \cup tsm
    /\ rpc[r] = "done" => due[r] \subseteq seen[r]

IInv == TypeOK /\ WalInv /\ LockInv /\ StoreInv /\ ClosedInv /\ DataInv /\ ReadInv

-----------------------------------------------------------------------------
\* What WalInv says of one segment and of all of them, and their entries.
WholeSegment(seg) == seg \in Segment /\ seg.torn = FALSE /\ seg.after = {}
Whole(f) ==
  /\ f = [i \in DOMAIN f |-> f[i]]
  /\ DOMAIN f \subseteq Nat
  /\ \A i \in DOMAIN f : WholeSegment(f[i])
Held(f) == {w \in Writes : \E i \in DOMAIN f : w \in f[i].ok}

\* The two readings of it.
LEMMA WholeMeans ==
  ASSUME NEW f
  PROVE  Whole(f) <=> /\ f \in [DOMAIN f -> Segment]
                      /\ DOMAIN f \subseteq Nat
                      /\ \A i \in DOMAIN f : f[i].torn = FALSE /\ f[i].after = {}
  BY Zenon DEF Whole, WholeSegment

\* The invariant of the log has it.
LEMMA WholeSegs == TypeOK /\ WalInv => Whole(segs)
  BY WholeMeans, Zenon DEF TypeOK, WalInv

\* Range on the sequences that the log builds.
LEMMA ToSetFacts ==
  ASSUME NEW b \in Seq(Writes)
  PROVE  /\ Range(b) \subseteq Writes
         /\ Range(<< >>) = {}
         /\ \A w \in Writes : Range(<<w>>) = {w} /\ Range(Append(b, w)) = Range(b) \cup {w}
         /\ \A n \in 0 .. Len(b) : Range(SubSeq(b, 1, n)) \subseteq Range(b)
<1>1. Range(b) \subseteq Writes /\ Range(<< >>) = {}
  BY DEF Range
<1>2. ASSUME NEW w \in Writes PROVE Range(<<w>>) = {w}
  BY DEF Range
<1>3. ASSUME NEW w \in Writes PROVE Range(Append(b, w)) = Range(b) \cup {w}
  <2>1. \A i \in 1 .. Len(b) : Append(b, w)[i] = b[i]
    OBVIOUS
  <2>2. Append(b, w)[Len(b) + 1] = w /\ DOMAIN Append(b, w) = 1 .. Len(b) + 1
    OBVIOUS
  <2>3. DOMAIN b = 1 .. Len(b) /\ Len(b) \in Nat
    OBVIOUS
  <2>4. Range(b) \cup {w} \subseteq Range(Append(b, w))
    BY <2>1, <2>2, <2>3 DEF Range
  <2>5. Range(Append(b, w)) \subseteq Range(b) \cup {w}
    <3>1. \A i \in 1 .. Len(b) + 1 : i \in 1 .. Len(b) \/ i = Len(b) + 1
      BY <2>3
    <3> HIDE <2>3
    <3> QED
      BY <2>1, <2>2, <2>3, <3>1, Zenon DEF Range
  <2> QED
    BY Zenon, <2>4, <2>5
<1>4. ASSUME NEW n \in 0 .. Len(b) PROVE Range(SubSeq(b, 1, n)) \subseteq Range(b)
  BY DEF Range
<1> QED
  BY Zenon, <1>1, <1>2, <1>3, <1>4

\* Writing at the end of a whole segment adds to its entries.
LEMMA AppendedWhole ==
  ASSUME NEW seg, WholeSegment(seg), NEW W \in SUBSET Writes
  PROVE  /\ WholeSegment(Appended(seg, W, FALSE))
         /\ Appended(seg, W, FALSE).ok = seg.ok \cup W
  BY Zenon DEF Appended, Segment, WholeSegment

\* A flush puts every buffered entry into the last segment.
LEMMA FlushedHolds ==
  ASSUME TypeOK, WalInv
  PROVE  /\ Whole(Flushed)
         /\ DOMAIN Flushed = DOMAIN segs
         /\ Held(Flushed) = Replayed \cup Range(buf)
         /\ \A i \in DOMAIN segs : i # id => Flushed[i] = segs[i]
<1>1. Range(buf) \in SUBSET Writes /\ (~open => Range(buf) = {})
  BY Zenon, ToSetFacts DEF TypeOK, WalInv
<1>2. DOMAIN Flushed = DOMAIN segs /\ Flushed = [i \in DOMAIN segs |-> Flushed[i]]
  BY Zenon DEF Flushed
<1>3. \A i \in DOMAIN segs : i # id \/ ~open => Flushed[i] = segs[i]
  BY Zenon DEF Flushed
<1>4. open => id \in DOMAIN segs /\ Flushed[id] = Appended(segs[id], Range(buf), FALSE)
  BY Zenon DEF Flushed, WalInv
<1>5. Whole(segs)
  BY Zenon, WholeSegs
<1>6. open => WholeSegment(Flushed[id]) /\ Flushed[id].ok = segs[id].ok \cup Range(buf)
  <2>1. ASSUME open PROVE WholeSegment(segs[id])
    BY <1>4, <1>5, <2>1, Zenon DEF Whole
  <2>2. ASSUME open
        PROVE  /\ WholeSegment(Appended(segs[id], Range(buf), FALSE))
               /\ Appended(segs[id], Range(buf), FALSE).ok = segs[id].ok \cup Range(buf)
    BY <1>1, <2>1, <2>2, AppendedWhole, Zenon
  <2> QED
    BY <1>4, <2>2, Zenon
<1>7. Whole(Flushed)
  BY <1>2, <1>3, <1>5, <1>6, Zenon DEF Whole
<1>8. Held(Flushed) = Replayed \cup Range(buf)
  <2>1. CASE open
    BY <1>1, <1>2, <1>3, <1>4, <1>6, <2>1, Zenon DEF Held, Replayed
  <2>2. CASE ~open
    BY <1>1, <1>2, <1>3, <2>2, Zenon DEF Held, Replayed
  <2> QED
    BY Zenon, <2>1, <2>2
<1> QED
  BY <1>2, <1>3, <1>7, <1>8, Zenon

\* So does a roll, which then adds an empty segment.
LEMMA NewSegmentHolds ==
  ASSUME TypeOK, WalInv, phase = "up"
  PROVE  /\ Whole(WithNewSegment)
         /\ DOMAIN WithNewSegment = DOMAIN segs \cup {id + 1}
         /\ Held(WithNewSegment) = Replayed \cup Range(buf)
         /\ \A i \in DOMAIN segs : i # id => WithNewSegment[i] = segs[i]
<1>1. DOMAIN WithNewSegment = DOMAIN segs \cup {id + 1}
  BY Zenon DEF WithNewSegment
<1>2. id + 1 \notin DOMAIN segs /\ id + 1 \in Nat /\ DOMAIN segs \subseteq Nat
  BY DEF TypeOK, WalInv
<1>3. \A i \in DOMAIN segs : WithNewSegment[i] = Flushed[i]
  BY Zenon, <1>2 DEF WithNewSegment
<1>4. WithNewSegment[id + 1] = EmptySegment
  BY Zenon DEF WithNewSegment
<1>5. WholeSegment(EmptySegment) /\ EmptySegment.ok = {}
  BY Zenon DEF EmptySegment, Segment, WholeSegment
<1>6. WithNewSegment = [i \in DOMAIN segs \cup {id + 1} |-> WithNewSegment[i]]
  BY Zenon DEF WithNewSegment
<1>7. Whole(WithNewSegment)
  BY <1>1, <1>2, <1>3, <1>4, <1>5, <1>6, FlushedHolds, Zenon DEF Whole
<1>8. Held(WithNewSegment) = Held(Flushed)
  BY <1>1, <1>3, <1>4, <1>5, FlushedHolds, Zenon DEF Held
<1> QED
  BY <1>1, <1>3, <1>7, <1>8, FlushedHolds, Zenon

\* A crash keeps the entries in the files and perhaps some buffered ones.
LEMMA CrashHolds ==
  ASSUME TypeOK, WalInv, NEW n \in 0 .. Len(buf), CrashWal(n, FALSE)
  PROVE  /\ Whole(segs')
         /\ Replayed \subseteq Replayed'
         /\ Replayed' \subseteq Replayed \cup Range(buf)
<1> DEFINE W == Range(SubSeq(buf, 1, n))
<1>1. W \in SUBSET Writes /\ W \subseteq Range(buf)
  BY Zenon, ToSetFacts DEF TypeOK
<1>2. segs' = [i \in DOMAIN segs |->
                 IF open /\ i = id THEN Appended(segs[i], W, FALSE) ELSE segs[i]]
  BY Zenon DEF CrashWal, WalInv
<1> HIDE DEF W
<1>3. \A i \in DOMAIN segs : segs'[i] = segs[i] \/ segs'[i] = Appended(segs[i], W, FALSE)
  BY <1>2, Zenon
<1>4. Whole(segs)
  BY Zenon, WholeSegs
<1>5. \A i \in DOMAIN segs :
        /\ WholeSegment(segs'[i])
        /\ segs'[i].ok = segs[i].ok \/ segs'[i].ok = segs[i].ok \cup W
  <2> SUFFICES ASSUME NEW i \in DOMAIN segs
               PROVE  /\ WholeSegment(segs'[i])
                      /\ segs'[i].ok = segs[i].ok \/ segs'[i].ok = segs[i].ok \cup W
    BY Zenon
  <2>1. WholeSegment(segs[i])
    BY <1>4, Zenon DEF Whole
  <2>2. segs'[i] = segs[i] \/ segs'[i] = Appended(segs[i], W, FALSE)
    BY <1>3, Zenon
  <2>3. /\ WholeSegment(Appended(segs[i], W, FALSE))
        /\ Appended(segs[i], W, FALSE).ok = segs[i].ok \cup W
    BY <1>1, <2>1, AppendedWhole, Zenon
  <2> QED
    BY <2>1, <2>2, <2>3, Zenon
<1>6. DOMAIN segs' = DOMAIN segs /\ segs' = [i \in DOMAIN segs |-> segs'[i]]
  BY <1>2, Zenon
<1>7. Whole(segs')
  BY <1>4, <1>5, <1>6, Zenon DEF Whole
<1> QED
  BY <1>1, <1>5, <1>6, <1>7, Zenon DEF Replayed

\* Opening the log loses no entry and leaves whole files, the last current.
LEMMA OpenHolds ==
  ASSUME TypeOK, WalInv, OpenWal
  PROVE  /\ Whole(segs')
         /\ Replayed' = Replayed
         /\ gap' = FALSE
         /\ id' \in Nat
         /\ open' \in BOOLEAN
         /\ open' => id' \in DOMAIN segs'
         /\ \A i \in DOMAIN segs' : i <= id'
<1>0. Whole(segs)
  BY Zenon, WholeSegs
<1>1. CASE DOMAIN segs = {} /\ segs' = segs /\ id' = 0 /\ open' = FALSE /\ gap' = FALSE
  <2>1. id' \in Nat
    BY Zenon, <1>1
  <2> QED
    BY <1>0, <1>1, <2>1, Zenon DEF Replayed
<1>2. ASSUME NEW last \in DOMAIN segs, \A i \in DOMAIN segs : i <= last,
             id' = last, open' = ~Blank(segs[last]), gap' = segs[last].torn,
             segs' = Truncated(IF Blank(segs[last]) THEN DOMAIN segs \ {last}
                                                   ELSE DOMAIN segs)
      PROVE  /\ Whole(segs')
             /\ Replayed' = Replayed
             /\ gap' = FALSE
             /\ id' \in Nat
             /\ open' \in BOOLEAN
             /\ open' => id' \in DOMAIN segs'
             /\ \A i \in DOMAIN segs' : i <= id'
  <2> DEFINE kept == IF Blank(segs[last]) THEN DOMAIN segs \ {last} ELSE DOMAIN segs
  <2>1. kept \subseteq DOMAIN segs /\ \A i \in DOMAIN segs : segs[i].ok # {} => i \in kept
    BY DEF Blank, EmptySegment
  <2>2. segs' = [i \in kept |-> [EmptySegment EXCEPT !.ok = segs[i].ok]]
    BY <1>2, Zenon DEF Truncated
  <2>3. open' => last \in kept
    BY <1>2, Zenon
  <2> HIDE DEF kept
  <2>4. \A i \in kept : segs'[i] = [ok |-> segs[i].ok, torn |-> FALSE, after |-> {}]
    BY <2>2, Zenon DEF EmptySegment
  <2>5. \A i \in kept : WholeSegment(segs'[i]) /\ segs'[i].ok = segs[i].ok
    BY <1>0, <2>1, <2>4, Zenon DEF Whole, WholeSegment, Segment
  <2>6. DOMAIN segs' = kept /\ segs' = [i \in kept |-> segs'[i]]
    BY <2>2, Zenon
  <2>7. Whole(segs')
    BY <1>0, <2>1, <2>5, <2>6, Zenon DEF Whole
  <2>8. Replayed' = Replayed
    BY <2>1, <2>5, <2>6, Zenon DEF Replayed
  <2>9. gap' = FALSE /\ id' \in Nat /\ open' \in BOOLEAN
    BY Zenon, <1>0, <1>2 DEF Whole, WholeSegment
  <2> QED
    BY <1>2, <2>1, <2>3, <2>6, <2>7, <2>8, <2>9, Zenon
<1> QED
  BY <1>1, <1>2, Zenon DEF OpenWal

\* Removing a segment removes its entries only.
LEMMA RemoveHolds ==
  ASSUME TypeOK, WalInv, NEW i, RemoveSegment(i)
  PROVE  /\ Whole(segs')
         /\ DOMAIN segs' = DOMAIN segs \ {i}
         /\ \A j \in DOMAIN segs' : segs'[j] = segs[j]
         /\ Replayed' \subseteq Replayed
         /\ \A w \in Replayed : w \in Replayed' \/ (i \in DOMAIN segs /\ w \in segs[i].ok)
<1>1. segs' = [j \in DOMAIN segs \ {i} |-> segs[j]]
  BY Zenon DEF RemoveSegment
<1>2. /\ DOMAIN segs' = DOMAIN segs \ {i}
      /\ \A j \in DOMAIN segs' : segs'[j] = segs[j]
      /\ segs' = [j \in DOMAIN segs' |-> segs'[j]]
  BY <1>1, Zenon
<1>3. Whole(segs')
  BY <1>2, WholeSegs, Zenon DEF Whole
<1> QED
  BY <1>2, <1>3, Zenon DEF Replayed

-----------------------------------------------------------------------------
\* The part of TypeOK about the log, and the rest.
LogType ==
  /\ segs \in [DOMAIN segs -> Segment]
  /\ DOMAIN segs \subseteq Nat
  /\ id \in Nat /\ wsize \in Nat
  /\ open \in BOOLEAN /\ gap \in BOOLEAN /\ syncing \in BOOLEAN
  /\ buf \in Seq(Writes)
  /\ waiters \subseteq Writes

\* The steps that leave the log alone.
LEMMA LogIdle ==
  ASSUME TypeOK, WalInv, UNCHANGED <<walVars, phase>>
  PROVE  LogType' /\ WalInv' /\ Replayed' = Replayed
  BY Zenon DEF TypeOK, WalInv, LogType, walVars, Replayed

\* Every step keeps the log whole.
LEMMA LogStep ==
  ASSUME "coldRace" \notin Faults, "tornEntry" \notin Faults,
         TypeOK, WalInv, ClosedInv, [Next]_vars
  PROVE  LogType' /\ WalInv'
<1>0. Whole(segs)' => /\ (segs \in [DOMAIN segs -> Segment])'
                      /\ (DOMAIN segs \subseteq Nat)'
                      /\ \A i \in DOMAIN segs' : segs'[i].torn = FALSE /\ segs'[i].after = {}
  BY WholeMeans, Zenon
<1>s. Range(buf) \subseteq Writes /\ Range(<< >>) = {}
  BY Zenon, ToSetFacts DEF TypeOK
<1>e. 0 \in Nat /\ << >> \in Seq(Writes) /\ "down" # "up"
  OBVIOUS
<1>1. ASSUME NEW w \in Writes, WriteLog(w) PROVE LogType' /\ WalInv'
  <2>u. phase = "up" /\ phase' = "up"
    BY Zenon, <1>1 DEF WriteLog, Writer
  <2>1. Range(<<w>>) = {w} /\ Range(Append(buf, w)) = Range(buf) \cup {w}
    BY Zenon, ToSetFacts DEF TypeOK
  <2>2. CASE Rolled(w)
    <3>1. /\ Whole(segs)' /\ DOMAIN segs' = DOMAIN segs \cup {id + 1}
      BY <2>2, <2>u, NewSegmentHolds, Zenon DEF Rolled
    <3>2. id' \in Nat /\ wsize' \in Nat /\ buf' \in Seq(Writes)
      BY <2>2 DEF Rolled, TypeOK
    <3>3. id' \in DOMAIN segs' /\ \A i \in DOMAIN segs' : i <= id'
      BY <2>2, <2>u, <3>1 DEF Rolled, TypeOK, WalInv
    <3> QED
      BY <1>0, <2>1, <2>2, <2>u, <3>1, <3>2, <3>3, Zenon DEF Rolled, LogType, WalInv
  <2>3. CASE Logged(w) \/ LoggedUnawaited(w)
    <3>1. /\ UNCHANGED <<segs, id, open, gap>> /\ open
          /\ buf' = Append(buf, w) /\ wsize' = wsize + 1
          /\ waiters' \in {waiters, waiters \cup {w}} /\ syncing' \in {TRUE, syncing}
      BY <2>3, Zenon DEF Logged, LoggedUnawaited, MustRoll
    <3>2. wsize' \in Nat /\ buf' \in Seq(Writes)
      BY <3>1 DEF TypeOK
    <3> QED
      BY <2>1, <2>u, <3>1, <3>2, Zenon DEF LogType, WalInv, TypeOK
  <2> QED
    BY Zenon, <1>1, <2>2, <2>3 DEF WriteLog
<1>2. ASSUME SyncStep PROVE LogType' /\ WalInv'
  <2>1. CASE Sync
    <3>1. Whole(segs)' /\ DOMAIN segs' = DOMAIN segs
      BY <2>1, FlushedHolds, Zenon DEF Sync
    <3> QED
      BY <1>0, <1>s, <1>2, <2>1, <3>1 DEF SyncStep, Sync, engineVars, LogType, WalInv, TypeOK
  <2>2. CASE SyncStops
    BY <1>2, <2>2, Zenon DEF SyncStep, SyncStops, engineVars, LogType, WalInv, TypeOK
  <2> QED
    BY Zenon, <1>2, <2>1, <2>2 DEF SyncStep
<1>3. ASSUME NEW s \in Snapshotters, BeginSnapshot(s) PROVE LogType' /\ WalInv'
  <2>u. phase = "up" /\ phase' = "up" /\ CloseSegment
    BY Zenon, <1>3 DEF BeginSnapshot, Snapshotter
  <2>1. CASE UNCHANGED walVars
    BY Zenon, <2>1, <2>u, LogIdle
  <2>2. CASE ~UNCHANGED walVars
    <3>1. Whole(segs)' /\ DOMAIN segs' = DOMAIN segs \cup {id + 1}
      BY <2>2, <2>u, NewSegmentHolds, Zenon DEF CloseSegment
    <3>2. /\ id' = id + 1 /\ wsize' = 0 /\ buf' = << >> /\ waiters' = {}
          /\ open' = TRUE /\ gap' = FALSE /\ syncing' = syncing
      BY <2>2, <2>u, Zenon DEF CloseSegment
    <3>3. id' \in Nat /\ id' \in DOMAIN segs' /\ \A i \in DOMAIN segs' : i <= id'
      BY <2>u, <3>1, <3>2 DEF TypeOK, WalInv
    <3> QED
      BY <1>0, <1>s, <1>e, <2>u, <3>1, <3>2, <3>3, Zenon DEF LogType, WalInv, TypeOK
  <2> QED
    BY Zenon, <2>1, <2>2
<1>4. ASSUME NEW s \in Snapshotters, RemoveClosed(s) PROVE LogType' /\ WalInv'
  <2>1. PICK i \in closed[s] : RemoveSegment(i)
    BY Zenon, <1>4 DEF RemoveClosed
  <2>2. i # id
    BY <2>1 DEF ClosedInv, TypeOK
  <2>3. Whole(segs)' /\ DOMAIN segs' = DOMAIN segs \ {i}
    BY <2>1, RemoveHolds, Zenon
  <2>4. phase' = phase
    BY Zenon, <1>4 DEF RemoveClosed, Snapshotter
  <2> QED
    BY Zenon, <1>0, <2>1, <2>2, <2>3, <2>4 DEF RemoveSegment, LogType, WalInv, TypeOK
<1>5. ASSUME Crash PROVE LogType' /\ WalInv'
  <2>1. PICK n \in 0 .. Len(buf) : CrashWal(n, FALSE)
    BY <1>5, Zenon DEF Crash
  <2>2. Whole(segs)'
    BY <2>1, CrashHolds, Zenon
  <2>3. phase' = "down"
    BY Zenon, <1>5 DEF Crash, Stops
  <2> QED
    BY <1>0, <1>s, <1>e, <2>1, <2>2, <2>3, Zenon DEF CrashWal, LogType, WalInv
<1>6. ASSUME Close PROVE LogType' /\ WalInv'
  <2>1. CloseWal /\ phase' = "down"
    BY Zenon, <1>6 DEF Close, Stops
  <2>2. Whole(segs)'
    BY <2>1, FlushedHolds, Zenon DEF CloseWal
  <2> QED
    BY <1>0, <1>s, <1>e, <2>1, <2>2, Zenon DEF CloseWal, LogType, WalInv
<1>7. ASSUME Open PROVE LogType' /\ WalInv'
  <2>1. OpenWal /\ phase = "down" /\ phase' = "up"
    BY Zenon, <1>7 DEF Open
  <2>2. UNCHANGED <<wsize, buf, waiters, syncing>>
    BY Zenon, <2>1 DEF OpenWal
  <2> QED
    BY <1>0, <2>1, <2>2, OpenHolds, Zenon DEF LogType, WalInv, TypeOK
<1>8. ASSUME NEW w \in Writes, EnterWrite(w) \/ AllocateStore(w) \/ CheckSize(w)
             \/ WriteCache(w) \/ WriteReturns(w)
      PROVE  UNCHANGED <<walVars, phase>>
  BY <1>8, Zenon DEF EnterWrite, AllocateStore, CheckSize, WriteCache, WriteReturns, Writer
<1>9. ASSUME NEW s \in Snapshotters, SnapshotAllocates(s) \/ SnapshotRefused(s)
             \/ SnapshotEmpty(s) \/ SnapshotTaken(s) \/ WriteFiles(s) \/ ReplaceFiles(s)
             \/ ClearCache(s) \/ EndSnapshot(s) \/ SnapshotFails(s)
      PROVE  UNCHANGED <<walVars, phase>>
  BY <1>9, Zenon DEF SnapshotAllocates, SnapshotRefused, SnapshotEmpty, SnapshotTaken,
                     WriteFiles, ReplaceFiles, ClearCache, EndSnapshot, Snapshotter,
                     SnapshotFails
<1>10. ASSUME FreeStep \/ (\E r \in Readers : ReaderStep(r)) \/ UNCHANGED vars
       PROVE  UNCHANGED <<walVars, phase>>
  BY <1>10, Zenon DEF FreeStep, IsIdle, FreeBegins, FreeDrops, Free, ReaderStep, ReadCache,
               ReadFiles, ReadEnds, Reader, vars, engineVars
<1> QED
  BY <1>1, <1>2, <1>3, <1>4, <1>5, <1>6, <1>7, <1>8, <1>9, <1>10, LogIdle, Zenon
  DEF Next, WriterStep, SnapshotStep

-----------------------------------------------------------------------------
\* What the steps that write to the log do to its entries, and to the
\* segments other than the current one.
Kept ==
  /\ \A i \in DOMAIN segs : i # id => i \in DOMAIN segs' /\ segs'[i] = segs[i]
  /\ DOMAIN segs' \subseteq DOMAIN segs \cup {id + 1}
  /\ id' = id \/ id' = id + 1

\* Writing an entry loses none and adds the batch to the log or the buffer.
LEMMA WriteLogEffect ==
  ASSUME TypeOK, WalInv, NEW w \in Writes, WriteLog(w)
  PROVE  /\ Kept
         /\ Replayed \subseteq Replayed'
         /\ Replayed' \cup Range(buf') = Replayed \cup Range(buf) \cup {w}
         /\ waiters \subseteq waiters' \cup Replayed'
         /\ wpc'[w] = "sync" => w \in waiters'
<1>1. Range(<<w>>) = {w} /\ Range(Append(buf, w)) = Range(buf) \cup {w}
  BY Zenon, ToSetFacts DEF TypeOK
<1>2. CASE Rolled(w)
  <2>1. phase = "up"
    BY Zenon DEF WriteLog, Writer
  <2>2. Held(segs') = Replayed'
    BY Zenon DEF Held, Replayed
  <2>3. Kept /\ Replayed' = Replayed \cup Range(buf)
    BY <1>2, <2>1, <2>2, NewSegmentHolds, Zenon DEF Rolled, Kept
  <2> QED
    BY <1>1, <1>2, <2>3, Zenon DEF Rolled, WalInv
<1>3. CASE Logged(w) \/ LoggedUnawaited(w)
  <2>1. Kept /\ Replayed' = Replayed /\ buf' = Append(buf, w) /\ waiters \subseteq waiters'
    BY <1>3, Zenon DEF Logged, LoggedUnawaited, Kept, Replayed
  <2>2. wpc'[w] = "sync" => w \in waiters'
    BY Zenon, <1>3 DEF Logged, LoggedUnawaited, WriteLog, Writer, TypeOK, Rolled
  <2> QED
    BY <1>1, <2>1, <2>2, Zenon
<1> QED
  BY <1>2, <1>3, Zenon DEF WriteLog

\* An fsync and the roll before a snapshot move the buffer to the files.
LEMMA FlushEffect ==
  ASSUME TypeOK, WalInv, SyncStep \/ \E s \in Snapshotters : BeginSnapshot(s)
  PROVE  /\ Kept
         /\ Replayed \subseteq Replayed'
         /\ Replayed' \cup Range(buf') = Replayed \cup Range(buf)
         /\ waiters \subseteq waiters' \cup Replayed'
<1>1. Range(<< >>) = {}
  BY Zenon, ToSetFacts DEF TypeOK
<1>2. Held(segs') = Replayed'
  BY Zenon DEF Held, Replayed
<1>3. phase = "up"
  BY Zenon DEF SyncStep, BeginSnapshot, Snapshotter
<1>4. CASE Sync
  BY <1>1, <1>2, <1>4, FlushedHolds, Zenon DEF Sync, Kept, WalInv
<1>5. CASE UNCHANGED <<segs, id, buf, waiters>>
  BY <1>5, Zenon DEF Kept, Replayed
<1>6. CASE CloseSegment /\ ~UNCHANGED walVars
  BY <1>1, <1>2, <1>3, <1>6, NewSegmentHolds, Zenon DEF CloseSegment, Kept, WalInv
<1> QED
  BY <1>4, <1>5, <1>6, Zenon DEF SyncStep, SyncStops, BeginSnapshot, walVars

\* A stop keeps the files and drops the rest of the buffer.
LEMMA StopEffect ==
  ASSUME "coldRace" \notin Faults, "tornEntry" \notin Faults,
         TypeOK, WalInv, Crash \/ Close
  PROVE  /\ Replayed \subseteq Replayed'
         /\ Replayed' \subseteq Replayed \cup Range(buf)
         /\ Range(buf') = {}
<1>1. Range(<< >>) = {}
  BY Zenon, ToSetFacts DEF TypeOK
<1>2. CASE Crash
  <2>1. PICK n \in 0 .. Len(buf) : CrashWal(n, FALSE)
    BY <1>2, Zenon DEF Crash
  <2> QED
    BY <1>1, <2>1, CrashHolds, Zenon DEF CrashWal
<1>3. CASE Close
  <2>1. Held(segs') = Replayed'
    BY Zenon DEF Held, Replayed
  <2> QED
    BY <1>1, <1>3, <2>1, FlushedHolds, Zenon DEF Close, CloseWal
<1> QED
  BY Zenon, <1>2, <1>3

-----------------------------------------------------------------------------
\* The part of TypeOK that is not LogType.
RestType ==
  /\ crashes \in Nat
  /\ initialized \in BOOLEAN /\ ring \in BOOLEAN
  /\ snapRing \in BOOLEAN /\ snapshotting \in BOOLEAN
  /\ cache \subseteq Writes /\ snap \subseteq Writes /\ tsm \subseteq Writes
  /\ size \in Nat /\ snapSize \in Nat
  /\ phase \in {"up", "down"}
  /\ wpc \in [Writes -> WriterStates]
  /\ spc \in [Snapshotters -> SnapshotStates]
  /\ closed \in [Snapshotters -> SUBSET Nat]
  /\ fpc \in {"idle", "free", "drop"}
  /\ rpc \in [Readers -> {"idle", "files", "done"}]
  /\ due \in [Readers -> SUBSET Writes]
  /\ seen \in [Readers -> SUBSET Writes]


\* The sizes with which the cache starts.
LEMMA LoadedSize ==
  /\ Cardinality({}) = 0
  /\ Replayed \subseteq Writes
  /\ Cardinality(Replayed) \in Nat
  /\ Cardinality(Replayed) = 0 => Replayed = {}
<1>1. Replayed \subseteq Writes
  BY Zenon DEF Replayed
<1>2. IsFiniteSet(Replayed)
  BY Zenon, <1>1, WritesAssumption, FS_Subset
<1> QED
  BY Zenon, <1>1, <1>2, FS_EmptySet, FS_CardinalityType

\* A step that leaves closed segments, snapshots and files alone.
LEMMA KeptClosed ==
  ASSUME TypeOK, ClosedInv, Kept, UNCHANGED <<spc, closed, snap, tsm>>
  PROVE  ClosedInv'
<1>1. ASSUME NEW s \in Snapshotters, NEW i \in closed[s]
      PROVE  /\ i < id'
             /\ i \in DOMAIN segs' => i \in DOMAIN segs /\ segs'[i] = segs[i]
  BY DEF TypeOK, ClosedInv, Kept
<1> QED
  BY Zenon, <1>1 DEF ClosedInv

\* Every step keeps the types of what is not the log.
LEMMA RestTypeStep ==
  ASSUME "coldRace" \notin Faults, "tornEntry" \notin Faults,
         IInv, [Next]_vars
  PROVE  RestType'
<1> USE WritesAssumption DEF IInv, RestType, TypeOK, WriterStates, SnapshotStates
<1>1. ASSUME NEW w \in Writes, EnterWrite(w) PROVE RestType'
  BY Zenon, <1>1 DEF EnterWrite, Writer, Undisturbed, Locked, snapVars, walVars
<1>2. ASSUME NEW w \in Writes, AllocateStore(w) PROVE RestType'
  BY Zenon, <1>2 DEF AllocateStore, Writer, SetStore, snapVars, walVars
<1>3. ASSUME NEW w \in Writes, CheckSize(w) PROVE RestType'
  BY Zenon, <1>3 DEF CheckSize, Writer, cacheVars, walVars, HasRoom
<1>4. ASSUME NEW w \in Writes, WriteCache(w) PROVE RestType'
  BY <1>4 DEF WriteCache, Writer, WriteMulti, snapVars, walVars
<1>5. ASSUME NEW w \in Writes, WriteLog(w) PROVE RestType'
  BY <1>5, ZenonT(30) DEF WriteLog, Writer, cacheVars
<1>6. ASSUME NEW w \in Writes, WriteReturns(w) PROVE RestType'
  BY Zenon, <1>6 DEF WriteReturns, Writer, cacheVars, walVars
<1>7. ASSUME NEW s \in Snapshotters, BeginSnapshot(s) PROVE RestType'
  <2>1. ClosedSegments \in SUBSET Nat
    BY Zenon, LogStep, <1>7 DEF LogType, ClosedSegments
  <2> QED
    BY Zenon, <1>7, <2>1 DEF BeginSnapshot, Snapshotter, snapVars
<1>8. ASSUME NEW s \in Snapshotters, SnapshotAllocates(s) PROVE RestType'
  BY Zenon, <1>8 DEF SnapshotAllocates, Snapshotter, SetStore, snapVars, walVars
<1>9. ASSUME NEW s \in Snapshotters, SnapshotRefused(s) PROVE RestType'
  BY Zenon, <1>9 DEF SnapshotRefused, Snapshotter, cacheVars, walVars
<1>10. ASSUME NEW s \in Snapshotters, SnapshotEmpty(s) PROVE RestType'
  BY Zenon, <1>10 DEF SnapshotEmpty, Snapshotter, Retries, walVars
<1>11. ASSUME NEW s \in Snapshotters, SnapshotTaken(s) PROVE RestType'
  BY <1>11 DEF SnapshotTaken, Snapshotter, TakeSnapshot, Retries, walVars
<1>12. ASSUME NEW s \in Snapshotters, WriteFiles(s) PROVE RestType'
  BY Zenon, <1>12 DEF WriteFiles, Snapshotter, Locked, cacheVars, walVars
<1>13. ASSUME NEW s \in Snapshotters, ReplaceFiles(s) PROVE RestType'
  BY Zenon, <1>13 DEF ReplaceFiles, Snapshotter, cacheVars, walVars
<1>14. ASSUME NEW s \in Snapshotters, ClearCache(s) PROVE RestType'
  BY <1>14, LoadedSize, Zenon DEF ClearCache, Snapshotter, ClearSnapshot, SetStore
<1>15. ASSUME NEW s \in Snapshotters, RemoveClosed(s) PROVE RestType'
  BY Zenon, <1>15 DEF RemoveClosed, Snapshotter, RemoveSegment, cacheVars
<1>16. ASSUME NEW s \in Snapshotters, EndSnapshot(s) PROVE RestType'
  BY Zenon, <1>16 DEF EndSnapshot, Snapshotter, cacheVars, walVars
<1>17. ASSUME NEW r \in Readers, ReadCache(r) PROVE RestType'
  BY Zenon, <1>17 DEF ReadCache, Reader, cacheVars, walVars, Acked
<1>18. ASSUME NEW r \in Readers, ReadFiles(r) PROVE RestType'
  BY Zenon, <1>18 DEF ReadFiles, Reader, cacheVars, walVars
<1>19. ASSUME NEW r \in Readers, ReadEnds(r) PROVE RestType'
  BY Zenon, <1>19 DEF ReadEnds, Reader, cacheVars, walVars
<1>20. ASSUME IsIdle PROVE RestType'
  BY Zenon, <1>20 DEF IsIdle, Free, Locked, ReadLocked, CacheSize, cacheVars, walVars
<1>21. ASSUME FreeBegins PROVE RestType'
  BY <1>21, Zenon DEF FreeBegins, Free, snapVars
<1>22. ASSUME FreeDrops PROVE RestType'
  BY <1>22, Zenon DEF FreeDrops, Free, SetStore, snapVars
<1>23. ASSUME SyncStep PROVE RestType'
  BY Zenon, <1>23 DEF SyncStep, Sync, SyncStops, cacheVars, engineVars
<1>24. ASSUME Crash PROVE RestType'
  <2>1. crashes' \in Nat /\ 0 \in Nat /\ "lost" \in WriterStates
    BY <1>24 DEF Crash
  <2> QED
    BY <1>24, <2>1, LoadedSize, Zenon DEF Crash, Stops, LoadedCache
<1>25. ASSUME Close PROVE RestType'
  <2>1. crashes' \in Nat /\ 0 \in Nat /\ "lost" \in WriterStates
    BY <1>25 DEF Close
  <2> QED
    BY <1>25, <2>1, LoadedSize, Zenon DEF Close, Stops, LoadedCache
<1>26. ASSUME Open PROVE RestType'
  BY <1>26, LoadedSize, Zenon DEF Open, LoadedCache
<1>27. ASSUME UNCHANGED vars PROVE RestType'
  BY Zenon, <1>27 DEF vars, walVars, cacheVars, engineVars
<1>28. ASSUME NEW s \in Snapshotters, SnapshotFails(s) PROVE RestType'
  BY Zenon, <1>28 DEF SnapshotFails, Snapshotter, ClearSnapshot, SetStore, walVars, SnapshotsSucceed
<1> HIDE DEF RestType, TypeOK, WriterStates, SnapshotStates
<1> QED
  BY Zenon, <1>1, <1>2, <1>3, <1>4, <1>5, <1>6, <1>7, <1>8, <1>9, <1>10, <1>11, <1>12, <1>13,
      <1>14, <1>15, <1>16, <1>17, <1>18, <1>19, <1>20, <1>21, <1>22, <1>23, <1>24,
      <1>25, <1>26, <1>27, <1>28, Zenon
  DEF Next, WriterStep, SnapshotStep, FreeStep, ReaderStep

\* Every step respects e.mu and Cache.snapshotting.
LEMMA LockInvStep ==
  ASSUME "coldRace" \notin Faults, "tornEntry" \notin Faults,
         IInv, [Next]_vars
  PROVE  LockInv'
<1> USE WritesAssumption DEF IInv, TypeOK, LockInv, StoreInv, WriterStates,
    SnapshotStates, InFlight, Flushing
<1>1. ASSUME NEW w \in Writes, EnterWrite(w) PROVE LockInv'
  BY Zenon, <1>1 DEF EnterWrite, Writer, Undisturbed, Locked, snapVars, walVars
<1>2. ASSUME NEW w \in Writes, AllocateStore(w) PROVE LockInv'
  BY Zenon, <1>2 DEF AllocateStore, Writer, SetStore, snapVars, walVars
<1>3. ASSUME NEW w \in Writes, CheckSize(w) PROVE LockInv'
  BY Zenon, <1>3 DEF CheckSize, Writer, cacheVars, walVars, HasRoom
<1>4. ASSUME NEW w \in Writes, WriteCache(w) PROVE LockInv'
  BY Zenon, <1>4 DEF WriteCache, Writer, WriteMulti, snapVars, walVars
<1>5. ASSUME NEW w \in Writes, WriteLog(w) PROVE LockInv'
  BY <1>5 DEF WriteLog, Writer, Rolled, Logged, LoggedUnawaited, cacheVars
<1>6. ASSUME NEW w \in Writes, WriteReturns(w) PROVE LockInv'
  BY Zenon, <1>6 DEF WriteReturns, Writer, cacheVars, walVars
<1>7. ASSUME NEW s \in Snapshotters, BeginSnapshot(s) PROVE LockInv'
  BY <1>7 DEF BeginSnapshot, Snapshotter, Undisturbed, Locked, ReadLocked,
      CloseSegment, ClosedSegments, walVars, snapVars
<1>8. ASSUME NEW s \in Snapshotters, SnapshotAllocates(s) PROVE LockInv'
  BY <1>8 DEF SnapshotAllocates, Snapshotter, SetStore, snapVars, walVars
<1>9. ASSUME NEW s \in Snapshotters, SnapshotRefused(s) PROVE LockInv'
  BY <1>9 DEF SnapshotRefused, Snapshotter, cacheVars, walVars
<1>10. ASSUME NEW s \in Snapshotters, SnapshotEmpty(s) PROVE LockInv'
  BY <1>10 DEF SnapshotEmpty, Snapshotter, Retries, walVars
<1>11. ASSUME NEW s \in Snapshotters, SnapshotTaken(s) PROVE LockInv'
  <2>1. /\ UNCHANGED <<phase, wpc, fpc, rpc>> /\ phase = "up"
        /\ spc[s] = "swap" /\ spc'[s] = "write"
        /\ \A t \in Snapshotters : t # s => spc'[t] = spc[t]
    BY Zenon, <1>11 DEF SnapshotTaken, Snapshotter
  <2>2. ~snapshotting /\ snapshotting' = TRUE /\ snapSize' > 0
    BY Zenon, <1>11 DEF SnapshotTaken, TakeSnapshot, Retries
  <2>3. fpc = "idle" /\ \A t \in Snapshotters : t # s => spc[t] = "idle"
    BY Zenon, <2>1, <2>2
  <2> QED
    BY Zenon, <2>1, <2>2, <2>3
<1>12. ASSUME NEW s \in Snapshotters, WriteFiles(s) PROVE LockInv'
  BY <1>12 DEF WriteFiles, Snapshotter, Locked, cacheVars, walVars
<1>13. ASSUME NEW s \in Snapshotters, ReplaceFiles(s) PROVE LockInv'
  BY <1>13 DEF ReplaceFiles, Snapshotter, cacheVars, walVars
<1>14. ASSUME NEW s \in Snapshotters, ClearCache(s) PROVE LockInv'
  BY <1>14 DEF ClearCache, Snapshotter, ClearSnapshot, SetStore, walVars
<1>15. ASSUME NEW s \in Snapshotters, RemoveClosed(s) PROVE LockInv'
  BY <1>15 DEF RemoveClosed, Snapshotter, RemoveSegment, cacheVars
<1>16. ASSUME NEW s \in Snapshotters, EndSnapshot(s) PROVE LockInv'
  BY <1>16 DEF EndSnapshot, Snapshotter, cacheVars, walVars
<1>17. ASSUME NEW r \in Readers, ReadCache(r) PROVE LockInv'
  BY Zenon, <1>17 DEF ReadCache, Reader, cacheVars, walVars
<1>18. ASSUME NEW r \in Readers, ReadFiles(r) PROVE LockInv'
  BY Zenon, <1>18 DEF ReadFiles, Reader, cacheVars, walVars
<1>19. ASSUME NEW r \in Readers, ReadEnds(r) PROVE LockInv'
  BY Zenon, <1>19 DEF ReadEnds, Reader, cacheVars, walVars
<1>20. ASSUME IsIdle PROVE LockInv'
  BY <1>20 DEF IsIdle, Free, Locked, ReadLocked, CacheSize, cacheVars, walVars
<1>21. ASSUME FreeBegins PROVE LockInv'
  BY Zenon, <1>21 DEF FreeBegins, Free, snapVars, walVars
<1>22. ASSUME FreeDrops PROVE LockInv'
  BY Zenon, <1>22 DEF FreeDrops, Free, SetStore, snapVars, walVars
<1>23. ASSUME SyncStep PROVE LockInv'
  BY Zenon, <1>23 DEF SyncStep, Sync, SyncStops, cacheVars, engineVars
<1>24. ASSUME Crash PROVE LockInv'
  BY Zenon, <1>24 DEF Crash, Stops, CrashWal, LoadedCache
<1>25. ASSUME Close PROVE LockInv'
  BY Zenon, <1>25 DEF Close, Stops, CloseWal, LoadedCache, ReadLocked
<1>26. ASSUME Open PROVE LockInv'
  BY Zenon, <1>26 DEF Open, LoadedCache
<1>27. ASSUME UNCHANGED vars PROVE LockInv'
  BY Zenon, <1>27 DEF vars, walVars, cacheVars, engineVars
<1>28. ASSUME NEW s \in Snapshotters, SnapshotFails(s) PROVE LockInv'
  BY <1>28 DEF SnapshotFails, Snapshotter, ClearSnapshot, SetStore, walVars, SnapshotsSucceed
<1> HIDE DEF TypeOK, LockInv, StoreInv, WriterStates, SnapshotStates, InFlight, Flushing
<1> QED
  BY Zenon, <1>1, <1>2, <1>3, <1>4, <1>5, <1>6, <1>7, <1>8, <1>9, <1>10, <1>11, <1>12, <1>13,
      <1>14, <1>15, <1>16, <1>17, <1>18, <1>19, <1>20, <1>21, <1>22, <1>23, <1>24,
      <1>25, <1>26, <1>27, <1>28, Zenon
  DEF Next, WriterStep, SnapshotStep, FreeStep, ReaderStep

\* Every step keeps the cache's ring where it is needed.
LEMMA StoreInvStep ==
  ASSUME "coldRace" \notin Faults, "tornEntry" \notin Faults,
         IInv, [Next]_vars
  PROVE  StoreInv'
<1> USE WritesAssumption DEF IInv, TypeOK, LockInv, StoreInv, WriterStates,
    SnapshotStates, InFlight, Flushing
<1>1. ASSUME NEW w \in Writes, EnterWrite(w) PROVE StoreInv'
  BY Zenon, <1>1 DEF EnterWrite, Writer, Undisturbed, Locked, snapVars, walVars
<1>2. ASSUME NEW w \in Writes, AllocateStore(w) PROVE StoreInv'
  BY Zenon, <1>2 DEF AllocateStore, Writer, SetStore, snapVars, walVars
<1>3. ASSUME NEW w \in Writes, CheckSize(w) PROVE StoreInv'
  BY Zenon, <1>3 DEF CheckSize, Writer, cacheVars, walVars, HasRoom
<1>4. ASSUME NEW w \in Writes, WriteCache(w) PROVE StoreInv'
  BY <1>4 DEF WriteCache, Writer, WriteMulti, snapVars, walVars
<1>5. ASSUME NEW w \in Writes, WriteLog(w) PROVE StoreInv'
  BY <1>5 DEF WriteLog, Writer, cacheVars
<1>6. ASSUME NEW w \in Writes, WriteReturns(w) PROVE StoreInv'
  BY Zenon, <1>6 DEF WriteReturns, Writer, cacheVars, walVars
<1>7. ASSUME NEW s \in Snapshotters, BeginSnapshot(s) PROVE StoreInv'
  BY Zenon, <1>7 DEF BeginSnapshot, Snapshotter, Undisturbed, Locked, ReadLocked,
      CloseSegment, ClosedSegments, walVars, snapVars
<1>8. ASSUME NEW s \in Snapshotters, SnapshotAllocates(s) PROVE StoreInv'
  BY Zenon, <1>8 DEF SnapshotAllocates, Snapshotter, SetStore, snapVars, walVars
<1>9. ASSUME NEW s \in Snapshotters, SnapshotRefused(s) PROVE StoreInv'
  BY Zenon, <1>9 DEF SnapshotRefused, Snapshotter, cacheVars, walVars
<1>10. ASSUME NEW s \in Snapshotters, SnapshotEmpty(s) PROVE StoreInv'
  BY Zenon, <1>10 DEF SnapshotEmpty, Snapshotter, Retries, walVars
<1>11. ASSUME NEW s \in Snapshotters, SnapshotTaken(s) PROVE StoreInv'
  BY Zenon, <1>11 DEF SnapshotTaken, Snapshotter, TakeSnapshot, Retries, walVars
<1>12. ASSUME NEW s \in Snapshotters, WriteFiles(s) PROVE StoreInv'
  BY Zenon, <1>12 DEF WriteFiles, Snapshotter, Locked, cacheVars, walVars
<1>13. ASSUME NEW s \in Snapshotters, ReplaceFiles(s) PROVE StoreInv'
  BY Zenon, <1>13 DEF ReplaceFiles, Snapshotter, cacheVars, walVars
<1>14. ASSUME NEW s \in Snapshotters, ClearCache(s) PROVE StoreInv'
  BY Zenon, <1>14 DEF ClearCache, Snapshotter, ClearSnapshot, SetStore, walVars
<1>15. ASSUME NEW s \in Snapshotters, RemoveClosed(s) PROVE StoreInv'
  BY Zenon, <1>15 DEF RemoveClosed, Snapshotter, RemoveSegment, cacheVars
<1>16. ASSUME NEW s \in Snapshotters, EndSnapshot(s) PROVE StoreInv'
  BY Zenon, <1>16 DEF EndSnapshot, Snapshotter, cacheVars, walVars
<1>17. ASSUME NEW r \in Readers, ReadCache(r) PROVE StoreInv'
  BY Zenon, <1>17 DEF ReadCache, Reader, cacheVars, walVars
<1>18. ASSUME NEW r \in Readers, ReadFiles(r) PROVE StoreInv'
  BY Zenon, <1>18 DEF ReadFiles, Reader, cacheVars, walVars
<1>19. ASSUME NEW r \in Readers, ReadEnds(r) PROVE StoreInv'
  BY Zenon, <1>19 DEF ReadEnds, Reader, cacheVars, walVars
<1>20. ASSUME IsIdle PROVE StoreInv'
  BY Zenon, <1>20 DEF IsIdle, Free, Locked, ReadLocked, CacheSize, cacheVars, walVars
<1>21. ASSUME FreeBegins PROVE StoreInv'
  BY Zenon, <1>21 DEF FreeBegins, Free, snapVars, walVars
<1>22. ASSUME FreeDrops PROVE StoreInv'
  BY Zenon, <1>22 DEF FreeDrops, Free, SetStore, snapVars, walVars
<1>23. ASSUME SyncStep PROVE StoreInv'
  BY Zenon, <1>23 DEF SyncStep, Sync, SyncStops, cacheVars, engineVars
<1>24. ASSUME Crash PROVE StoreInv'
  BY Zenon, <1>24 DEF Crash, Stops, CrashWal, LoadedCache
<1>25. ASSUME Close PROVE StoreInv'
  BY Zenon, <1>25 DEF Close, Stops, CloseWal, LoadedCache, ReadLocked
<1>26. ASSUME Open PROVE StoreInv'
  BY <1>26, LoadedSize, Zenon DEF Open, LoadedCache
<1>27. ASSUME UNCHANGED vars PROVE StoreInv'
  BY Zenon, <1>27 DEF vars, walVars, cacheVars, engineVars
<1>28. ASSUME NEW s \in Snapshotters, SnapshotFails(s) PROVE StoreInv'
  BY Zenon, <1>28 DEF SnapshotFails, Snapshotter, ClearSnapshot, SetStore, walVars, SnapshotsSucceed
<1> HIDE DEF TypeOK, LockInv, StoreInv, WriterStates, SnapshotStates, InFlight, Flushing
<1> QED
  BY Zenon, <1>1, <1>2, <1>3, <1>4, <1>5, <1>6, <1>7, <1>8, <1>9, <1>10, <1>11, <1>12, <1>13,
      <1>14, <1>15, <1>16, <1>17, <1>18, <1>19, <1>20, <1>21, <1>22, <1>23, <1>24,
      <1>25, <1>26, <1>27, <1>28, Zenon
  DEF Next, WriterStep, SnapshotStep, FreeStep, ReaderStep

\* Every step keeps the segments due for removal covered.
LEMMA ClosedInvStep ==
  ASSUME "coldRace" \notin Faults, "tornEntry" \notin Faults,
         IInv, [Next]_vars
  PROVE  ClosedInv'
<1> USE DEF IInv, TypeOK, WalInv, LockInv, StoreInv, ClosedInv, DataInv, SnapshotStates,
            Visible, Flushing
<1>1. ASSUME UNCHANGED <<spc, closed, snap, tsm, segs, id>> PROVE ClosedInv'
  BY <1>1, KeptClosed, Zenon DEF Kept
<1>2. ASSUME NEW w \in Writes, WriterStep(w) PROVE ClosedInv'
  <2>1. UNCHANGED <<spc, closed, snap, tsm>>
    BY <1>2, Zenon DEF WriterStep, EnterWrite, AllocateStore, CheckSize, WriteCache,
        WriteLog,
      WriteReturns, Writer, WriteMulti, cacheVars, snapVars
  <2>2. CASE WriteLog(w)
    BY <2>1, <2>2, WriteLogEffect, KeptClosed, Zenon
  <2>3. CASE ~WriteLog(w)
    <3>1. UNCHANGED <<segs, id>>
      BY <1>2, <2>3, Zenon DEF WriterStep, EnterWrite, AllocateStore, CheckSize,
          WriteCache,
        WriteReturns, walVars
    <3> QED
      BY <1>1, <2>1, <3>1, Zenon
  <2> QED
    BY Zenon, <2>2, <2>3
<1>3. ASSUME SyncStep PROVE ClosedInv'
  <2>1. UNCHANGED <<spc, closed, snap, tsm>>
    BY <1>3, Zenon DEF SyncStep, engineVars, cacheVars
  <2> QED
    BY <1>3, <2>1, FlushEffect, KeptClosed, Zenon
<1>4. ASSUME NEW s \in Snapshotters, BeginSnapshot(s) PROVE ClosedInv'
  <2>1. Kept
    BY <1>4, FlushEffect, Zenon
  <2>2. closed'[s] = DOMAIN segs' \ {id'} /\ spc'[s] \in {"alloc", "swap"}
    BY Zenon, <1>4 DEF BeginSnapshot, Snapshotter, ClosedSegments
  <2>3. \A i \in closed'[s] : i < id'
    <3>1. phase' = "up" /\ LogType' /\ WalInv'
      BY <1>4, LogStep, Zenon DEF BeginSnapshot, Snapshotter
    <3> QED
      BY SMTT(30), <2>2, <3>1 DEF LogType, WalInv
  <2>4. /\ UNCHANGED <<snap, tsm>>
        /\ \A t \in Snapshotters : t # s => spc'[t] = spc[t] /\ closed'[t] = closed[t]
    BY Zenon, <1>4 DEF BeginSnapshot, Snapshotter, snapVars
  <2>5. ASSUME NEW t \in Snapshotters, NEW i \in closed[t]
        PROVE  /\ i < id'
               /\ i \in DOMAIN segs' => i \in DOMAIN segs /\ segs'[i] = segs[i]
    BY <2>1 DEF Kept
  <2> QED
    BY <2>2, <2>3, <2>4, <2>5
<1>5. ASSUME NEW s \in Snapshotters, SnapshotAllocates(s) PROVE ClosedInv'
  BY Zenon, <1>5 DEF SnapshotAllocates, Snapshotter, SetStore, snapVars, walVars
<1>6. ASSUME NEW s \in Snapshotters, SnapshotRefused(s) PROVE ClosedInv'
  BY <1>6 DEF SnapshotRefused, Snapshotter, cacheVars, walVars
<1>7. ASSUME NEW s \in Snapshotters, SnapshotEmpty(s) PROVE ClosedInv'
  BY Zenon, <1>7 DEF SnapshotEmpty, Snapshotter, Retries, walVars
<1>8. ASSUME NEW s \in Snapshotters, SnapshotTaken(s) PROVE ClosedInv'
  <2>1. /\ spc[s] = "swap" /\ spc'[s] = "write" /\ UNCHANGED <<segs, id, tsm, closed>>
        /\ \A t \in Snapshotters : t # s => spc'[t] = spc[t] /\ ~Flushing(t)
    BY Zenon, <1>8 DEF SnapshotTaken, Snapshotter, walVars
  <2>2. SnapshotsSucceed => snap' = cache /\ snap = {} /\ phase = "up"
    BY <1>8 DEF SnapshotTaken, Snapshotter, TakeSnapshot, Retries
  <2>3. ASSUME SnapshotsSucceed, NEW i \in closed[s], i \in DOMAIN segs
        PROVE  segs[i].ok \subseteq snap' \cup tsm
    BY Zenon, <2>2, <2>3 DEF Replayed, Segment
  <2> QED
    BY Zenon, <2>1, <2>3
<1>9. ASSUME NEW s \in Snapshotters, WriteFiles(s) PROVE ClosedInv'
  BY SMTT(30), <1>9 DEF WriteFiles, Snapshotter, Locked, cacheVars, walVars
<1>10. ASSUME NEW s \in Snapshotters, ReplaceFiles(s) PROVE ClosedInv'
  BY <1>10 DEF ReplaceFiles, Snapshotter, cacheVars, walVars
<1>11. ASSUME NEW s \in Snapshotters, ClearCache(s) PROVE ClosedInv'
  BY <1>11 DEF ClearCache, Snapshotter, ClearSnapshot, SetStore, walVars
<1>12. ASSUME NEW s \in Snapshotters, RemoveClosed(s) PROVE ClosedInv'
  BY SMTT(30), <1>12 DEF RemoveClosed, Snapshotter, RemoveSegment, cacheVars
<1>13. ASSUME NEW s \in Snapshotters, EndSnapshot(s) PROVE ClosedInv'
  BY Zenon, <1>13 DEF EndSnapshot, Snapshotter, cacheVars, walVars
<1>14. ASSUME FreeStep \/ (\E r \in Readers : ReaderStep(r)) \/ UNCHANGED vars
       PROVE  ClosedInv'
  <2>1. UNCHANGED <<spc, closed, snap, tsm, segs, id>>
    BY <1>14, Zenon DEF FreeStep, IsIdle, FreeBegins, FreeDrops, Free, ReaderStep,
        ReadCache,
      ReadFiles, ReadEnds, Reader, vars, engineVars, cacheVars, snapVars, walVars
  <2> QED
    BY Zenon, <1>1, <2>1
<1>15. ASSUME Crash \/ Close PROVE ClosedInv'
  BY <1>15, Zenon DEF Crash, Close, Stops
<1>16. ASSUME Open PROVE ClosedInv'
  BY <1>16, Zenon DEF Open
<1>17. ASSUME NEW s \in Snapshotters, SnapshotFails(s) PROVE ClosedInv'
  BY SMTT(30), <1>17 DEF SnapshotFails, Snapshotter, ClearSnapshot, walVars
<1> HIDE DEF ClosedInv
<1> QED
  BY Zenon, <1>2, <1>3, <1>4, <1>5, <1>6, <1>7, <1>8, <1>9, <1>10, <1>11, <1>12, <1>13, <1>14,
     <1>15, <1>16, <1>17, Zenon
  DEF Next, SnapshotStep

\* Every step keeps what the readers have read sufficient.
LEMMA ReadInvStep ==
  ASSUME "coldRace" \notin Faults, "tornEntry" \notin Faults,
         IInv, [Next]_vars
  PROVE  ReadInv'
<1> USE DEF IInv, TypeOK, DataInv, ReadInv
<1>1. ASSUME UNCHANGED <<rpc, due, seen>>, tsm \subseteq tsm' PROVE ReadInv'
  BY Zenon, <1>1
<1>2. ASSUME NEW w \in Writes, WriterStep(w) PROVE UNCHANGED <<rpc, due, seen, tsm>>
  BY <1>2, Zenon DEF WriterStep, EnterWrite, AllocateStore, CheckSize, WriteCache,
      WriteLog,
    WriteReturns, Writer
<1>3. ASSUME NEW s \in Snapshotters, SnapshotStep(s) \/ SnapshotFails(s)
      PROVE  UNCHANGED <<rpc, due, seen>> /\ tsm \subseteq tsm'
  BY <1>3, Zenon DEF SnapshotStep, BeginSnapshot, SnapshotAllocates, SnapshotRefused,
    SnapshotEmpty, SnapshotTaken, WriteFiles, ReplaceFiles, ClearCache, RemoveClosed,
    EndSnapshot, SnapshotFails, Snapshotter
<1>4. ASSUME SyncStep \/ FreeStep \/ Open \/ UNCHANGED vars
      PROVE  UNCHANGED <<rpc, due, seen, tsm>>
  BY <1>4, Zenon DEF SyncStep, FreeStep, IsIdle, FreeBegins, FreeDrops, Free, Open,
      vars,
    engineVars
<1>5. ASSUME NEW r \in Readers, ReadCache(r) PROVE ReadInv'
  BY Zenon, <1>5 DEF ReadCache, Reader, Visible, Acked, Durable
<1>6. ASSUME NEW r \in Readers, ReadFiles(r) PROVE ReadInv'
  BY Zenon, <1>6 DEF ReadFiles, Reader
<1>7. ASSUME NEW r \in Readers, ReadEnds(r) PROVE ReadInv'
  BY Zenon, <1>7 DEF ReadEnds, Reader
<1>8. ASSUME Crash \/ Close PROVE ReadInv'
  BY Zenon, <1>8 DEF Crash, Close, Stops
<1> HIDE DEF ReadInv
<1> QED
  BY <1>1, <1>2, <1>3, <1>4, <1>5, <1>6, <1>7, <1>8, Zenon
  DEF Next, ReaderStep

\* Swapping the stores for a snapshot, or taking up one that failed, hides
\* nothing.
LEMMA SwapShows ==
  ASSUME StoreInv, snapSize \in Nat, size \in Nat,
         NEW s \in Snapshotters, SnapshotEmpty(s) \/ SnapshotTaken(s)
  PROVE  Visible' = Visible
<1>1. tsm' = tsm
  BY Zenon DEF SnapshotEmpty, SnapshotTaken
<1>2. CASE Retries /\ SnapshotTaken(s)
  BY <1>1, <1>2, Zenon DEF SnapshotTaken, TakeSnapshot, Visible
<1>3. CASE ~Retries
  <2>1. snap = {}
    BY <1>3 DEF Retries, StoreInv
  <2>2. cache' = {} /\ snap' = cache
    BY <1>3, Zenon DEF SnapshotEmpty, SnapshotTaken, TakeSnapshot, StoreInv
  <2> QED
    BY <1>1, <2>1, <2>2, Zenon DEF Visible
<1> QED
  BY <1>2, <1>3, Zenon DEF SnapshotEmpty

\* Every step keeps each batch where it is promised to be.
LEMMA DataInvStep ==
  ASSUME "coldRace" \notin Faults, "tornEntry" \notin Faults,
         IInv, [Next]_vars
  PROVE  DataInv'
<1> USE WritesAssumption DEF IInv, TypeOK, WalInv, LockInv, StoreInv, ClosedInv,
    DataInv, WriterStates, SnapshotStates, InFlight, Flushing, Visible, Durable,
    Offered
<1>1. ASSUME NEW w \in Writes, EnterWrite(w) PROVE DataInv'
  <2>1. Replayed' = Replayed /\ UNCHANGED <<buf, waiters, phase, tsm, snap, cache>>
    BY <1>1, LogIdle, Zenon DEF EnterWrite, Writer, snapVars, walVars
  <2>2. wpc'[w] \in {"check", "alloc"} /\ \A v \in Writes : v # w => wpc'[v] = wpc[v]
    BY Zenon, <1>1 DEF EnterWrite, Writer
  <2> QED
    BY Zenon, <2>1, <2>2
<1>2. ASSUME NEW w \in Writes, AllocateStore(w) PROVE DataInv'
  <2>1. Replayed' = Replayed /\ UNCHANGED <<buf, waiters, phase, tsm, snap>>
    BY <1>2, LogIdle, Zenon DEF AllocateStore, Writer, snapVars, walVars
  <2>2. wpc'[w] = "check" /\ wpc[w] = "alloc" /\ \A v \in Writes : v # w => wpc'[v] = wpc[v]
    BY <1>2 DEF AllocateStore, Writer
  <2>3. cache = {} /\ cache' = {}
    BY Zenon, <1>2, <2>2 DEF AllocateStore, SetStore
  <2> QED
    BY SMTT(30), <2>1, <2>2, <2>3
<1>3. ASSUME NEW w \in Writes, CheckSize(w) PROVE DataInv'
  <2>1. Replayed' = Replayed /\ UNCHANGED <<buf, waiters, phase, tsm, snap, cache>>
    BY <1>3, LogIdle, Zenon DEF CheckSize, Writer, cacheVars, walVars
  <2>2. wpc[w] = "check" /\ wpc'[w] \in {"cache", "error"}
        /\ \A v \in Writes : v # w => wpc'[v] = wpc[v]
    BY <1>3 DEF CheckSize, Writer
  <2> QED
    BY SMTT(30), <2>1, <2>2
<1>4. ASSUME NEW w \in Writes, WriteCache(w) PROVE DataInv'
  <2>1. Replayed' = Replayed /\ UNCHANGED <<buf, waiters, phase, tsm, snap>>
    BY <1>4, LogIdle, Zenon DEF WriteCache, WriteMulti, Writer, snapVars, walVars
  <2>2. wpc'[w] = "log" /\ wpc[w] = "cache" /\ \A v \in Writes : v # w => wpc'[v] = wpc[v]
    BY Zenon, <1>4 DEF WriteCache, Writer
  <2>3. cache' = cache \cup {w}
    BY Zenon, <1>4, <2>2 DEF WriteCache, WriteMulti
  <2> QED
    BY SMTT(30), <2>1, <2>2, <2>3
<1>5. ASSUME NEW w \in Writes, WriteLog(w) PROVE DataInv'
  <2>1. UNCHANGED <<phase, tsm, snap, cache>>
    BY <1>5, Zenon DEF WriteLog, Writer, cacheVars
  <2>2. /\ wpc'[w] \in {"sync", "error"} /\ wpc[w] = "log"
        /\ \A v \in Writes : v # w => wpc'[v] = wpc[v]
    BY SMTT(30), <1>5 DEF WriteLog, Writer
  <2>3. /\ Replayed \subseteq Replayed'
        /\ Replayed' \cup Range(buf') = Replayed \cup Range(buf) \cup {w}
        /\ waiters \subseteq waiters' \cup Replayed'
        /\ wpc'[w] = "sync" => w \in waiters'
    BY <1>5, WriteLogEffect, Zenon
  <2> QED
    BY SMTT(30), <2>1, <2>2, <2>3
<1>6. ASSUME NEW w \in Writes, WriteReturns(w) PROVE DataInv'
  <2>1. /\ Replayed' = Replayed
        /\ UNCHANGED <<buf, waiters, phase, tsm, snap, cache>>
    BY <1>6, LogIdle, Zenon DEF WriteReturns, Writer, cacheVars, walVars
  <2>2. /\ wpc'[w] = "ok" /\ wpc[w] = "sync" /\ w \notin waiters
        /\ \A v \in Writes : v # w => wpc'[v] = wpc[v]
    BY Zenon, <1>6 DEF WriteReturns, Writer
  <2> QED
    BY SMTT(30), <2>1, <2>2
<1>7. ASSUME NEW s \in Snapshotters, BeginSnapshot(s) PROVE DataInv'
  BY <1>7, FlushEffect, Zenon DEF BeginSnapshot, Snapshotter, Undisturbed, Locked,
      ReadLocked, CloseSegment, ClosedSegments, walVars, snapVars
<1>8. ASSUME NEW s \in Snapshotters, SnapshotAllocates(s) PROVE DataInv'
  BY <1>8, LogIdle, ZenonT(30) DEF SnapshotAllocates, Snapshotter, SetStore, snapVars,
      walVars
<1>9. ASSUME NEW s \in Snapshotters, SnapshotRefused(s) PROVE DataInv'
  BY <1>9, LogIdle, Zenon DEF SnapshotRefused, Snapshotter, cacheVars, walVars
<1>10. ASSUME NEW s \in Snapshotters, SnapshotEmpty(s) \/ SnapshotTaken(s) PROVE DataInv'
  <2>1. Replayed' = Replayed /\ UNCHANGED <<buf, waiters, phase, wpc, tsm>>
    BY <1>10, LogIdle, Zenon DEF SnapshotEmpty, SnapshotTaken, Snapshotter, walVars
  <2>2. Visible' = Visible
    BY <1>10, SwapShows, Zenon
  <2> QED
    BY Zenon, <2>1, <2>2
<1>12. ASSUME NEW s \in Snapshotters, WriteFiles(s) PROVE DataInv'
  BY <1>12, LogIdle, Zenon DEF WriteFiles, Snapshotter, Locked, cacheVars, walVars
<1>13. ASSUME NEW s \in Snapshotters, ReplaceFiles(s) PROVE DataInv'
  BY ZenonT(30), <1>13, LogIdle DEF ReplaceFiles, Snapshotter, cacheVars, walVars
<1>14. ASSUME NEW s \in Snapshotters, ClearCache(s) PROVE DataInv'
  BY ZenonT(30), <1>14, LogIdle DEF ClearCache, Snapshotter, ClearSnapshot, SetStore, walVars
<1>15. ASSUME NEW s \in Snapshotters, RemoveClosed(s) PROVE DataInv'
  <2>1. PICK i \in closed[s] : RemoveSegment(i)
    BY <1>15, Zenon DEF RemoveClosed
  <2>2. spc[s] = "remove" /\ UNCHANGED <<buf, waiters, phase, wpc, tsm, snap, cache>>
    BY <1>15, <2>1, Zenon DEF RemoveClosed, Snapshotter, cacheVars, RemoveSegment
  <2>3. SnapshotsSucceed /\ i \in DOMAIN segs => segs[i].ok \subseteq tsm
    BY Zenon, <2>1, <2>2
  <2>4. /\ Replayed' \subseteq Replayed
        /\ SnapshotsSucceed => Replayed \subseteq Replayed' \cup tsm
    BY <2>1, <2>3, RemoveHolds, Zenon
  <2> QED
    BY SMTT(30), <2>2, <2>4
<1>16. ASSUME NEW s \in Snapshotters, EndSnapshot(s) PROVE DataInv'
  BY Zenon, <1>16, LogIdle DEF EndSnapshot, Snapshotter, cacheVars, walVars
<1>17. ASSUME NEW r \in Readers, ReadCache(r) PROVE DataInv'
  BY <1>17, LogIdle, Zenon DEF ReadCache, Reader, cacheVars, walVars
<1>18. ASSUME NEW r \in Readers, ReadFiles(r) PROVE DataInv'
  BY <1>18, LogIdle, Zenon DEF ReadFiles, Reader, cacheVars, walVars
<1>19. ASSUME NEW r \in Readers, ReadEnds(r) PROVE DataInv'
  BY <1>19, LogIdle, Zenon DEF ReadEnds, Reader, cacheVars, walVars
<1>20. ASSUME IsIdle PROVE DataInv'
  BY <1>20, LogIdle, Zenon DEF IsIdle, Free, Locked, ReadLocked, CacheSize, cacheVars,
      walVars
<1>21. ASSUME FreeBegins PROVE DataInv'
  BY <1>21, LogIdle, Zenon DEF FreeBegins, Free, snapVars, walVars
<1>22. ASSUME FreeDrops PROVE DataInv'
  BY <1>22, LogIdle, Zenon DEF FreeDrops, Free, SetStore, snapVars, walVars
<1>23. ASSUME SyncStep PROVE DataInv'
  BY <1>23, FlushEffect, Zenon DEF SyncStep, Sync, SyncStops, cacheVars, engineVars
<1>24. ASSUME Crash \/ Close PROVE DataInv'
  <2>1. MaxCrashes # 0
    BY SMTT(30), <1>24 DEF Crash, Close
  <2>2. /\ phase' = "down" /\ tsm' = tsm /\ cache' = {} /\ snap' = {}
        /\ wpc' = [w \in Writes |-> IF InFlight(w) THEN "lost" ELSE wpc[w]]
    BY <1>24, Zenon DEF Crash, Close, Stops, LoadedCache
  <2>3. \A w \in Writes : /\ wpc'[w] \notin {"log", "sync"}
                          /\ wpc'[w] = "ok" <=> wpc[w] = "ok"
                          /\ wpc'[w] = "idle" <=> wpc[w] = "idle"
    BY Zenon, <2>2
  <2>4. "down" # "up"
    BY Zenon
  <2>5. /\ Replayed \subseteq Replayed' /\ Range(buf') = {}
        /\ Replayed' \subseteq Replayed \cup Range(buf)
    BY <1>24, StopEffect, Zenon
  <2> QED
    BY SMTT(30), <2>1, <2>2, <2>3, <2>4, <2>5
<1>26. ASSUME Open PROVE DataInv'
  <2>1. Replayed' = Replayed /\ UNCHANGED buf
    BY <1>26, OpenHolds, Zenon DEF Open, OpenWal
  <2>2. cache' = Replayed /\ snap' = {} /\ UNCHANGED <<tsm, wpc>> /\ phase = "down"
    BY <1>26, Zenon DEF Open, LoadedCache
  <2>3. Range(buf) = {} /\ \A v \in Writes : wpc[v] \notin {"log", "sync"}
    BY <2>2, ToSetFacts, Zenon
  <2> QED
    BY <2>1, <2>2, <2>3
<1>27. ASSUME UNCHANGED vars PROVE DataInv'
  BY Zenon, <1>27, LogIdle DEF vars, walVars, cacheVars, engineVars
<1>28. ASSUME NEW s \in Snapshotters, SnapshotFails(s) PROVE DataInv'
  BY ZenonT(30), <1>28, LogIdle DEF SnapshotFails, Snapshotter, ClearSnapshot, SetStore,
      walVars, SnapshotsSucceed
<1> HIDE DEF TypeOK, WalInv, LockInv, StoreInv, ClosedInv, DataInv, WriterStates,
    SnapshotStates, InFlight, Flushing, Visible, Durable, Offered
<1> QED
  BY Zenon, <1>1, <1>2, <1>3, <1>4, <1>5, <1>6, <1>7, <1>8, <1>9, <1>10, <1>12, <1>13,
      <1>14, <1>15, <1>16, <1>17, <1>18, <1>19, <1>20, <1>21, <1>22, <1>23, <1>24,
      <1>26, <1>27, <1>28, Zenon
  DEF Next, WriterStep, SnapshotStep, FreeStep, ReaderStep

\* The two halves of TypeOK.
LEMMA TypeParts == TypeOK <=> LogType /\ RestType
  BY Zenon DEF TypeOK, LogType, RestType

\* Init establishes IInv.
LEMMA InitIInv == Init => IInv
<1> SUFFICES ASSUME Init PROVE IInv
  BY Zenon
<1>0. << >> \in Seq(Writes) /\ DOMAIN << >> = {} /\ << >> \in [DOMAIN << >> -> Segment]
  OBVIOUS
<1>1. Range(<< >>) = {}
  BY <1>0, ToSetFacts, Zenon
<1>2. Replayed = {} /\ Range(buf) = {}
  BY <1>0, <1>1, Zenon DEF Init, WalInit, Replayed
<1>3. TypeOK
  <2>1. LogType
    BY <1>0, Zenon DEF Init, WalInit, LogType
  <2>2. RestType
    BY Zenon DEF Init, CacheInit, RestType, WriterStates, SnapshotStates
  <2> QED
    BY Zenon, <2>1, <2>2, TypeParts
<1>4. WalInv /\ LockInv
  BY Zenon, <1>0, <1>1 DEF Init, WalInit, CacheInit, WalInv, LockInv, InFlight, Flushing
<1>5. StoreInv /\ ClosedInv /\ ReadInv
  BY Zenon DEF Init, CacheInit, StoreInv, ClosedInv, ReadInv, InFlight
<1>6. DataInv
  BY Zenon, <1>2 DEF Init, CacheInit, DataInv, Visible, Durable, Offered
<1> QED
  BY Zenon, <1>3, <1>4, <1>5, <1>6 DEF IInv

\* IInv is an inductive invariant of the engine, whether snapshots fail or not.
THEOREM EngineInvariant ==
  ASSUME "coldRace" \notin Faults, "tornEntry" \notin Faults
  PROVE  Spec => []IInv
<1>1. IInv /\ [Next]_vars => IInv'
  <2> SUFFICES ASSUME IInv, [Next]_vars PROVE IInv'
    BY Zenon
  <2>1. LogType' /\ WalInv'
    BY Zenon, LogStep DEF IInv
  <2>2. TypeOK'
    BY Zenon, <2>1, RestTypeStep, TypeParts DEF TypeOK, LogType, RestType
  <2> QED
    BY <2>1, <2>2, LockInvStep, StoreInvStep, ClosedInvStep, DataInvStep, ReadInvStep,
        Zenon
    DEF IInv
<1> QED
  BY <1>1, InitIInv, PTL DEF Spec

\* Every state is well typed.
THEOREM EngineTypes ==
  ASSUME "coldRace" \notin Faults, "tornEntry" \notin Faults
  PROVE  Spec => []TypeOK
<1>1. IInv => TypeOK
  BY Zenon DEF IInv
<1> QED
  BY <1>1, EngineInvariant, PTL

\* Without faults, what WritePoints acknowledged is in a TSM file or is
\* replayed from the log, for any number of writers and snapshotters, any
\* segment size and any number of crashes.
THEOREM EngineDurable == ASSUME Faults = {} PROVE Spec => []AckedDurable
<1>1. IInv => AckedDurable
  BY Zenon DEF IInv, DataInv, AckedDurable, Acked, Durable, SnapshotsSucceed
<1>2. "coldRace" \notin Faults /\ "tornEntry" \notin Faults
  BY Zenon
<1> QED
  BY <1>1, <1>2, EngineInvariant, PTL

\* What was acknowledged can be read while the engine is up, if snapshots
\* succeed or the process does not stop: a snapshot that failed stays readable.
THEOREM EngineVisible ==
  ASSUME "coldRace" \notin Faults, "tornEntry" \notin Faults,
         SnapshotsSucceed \/ MaxCrashes = 0
  PROVE  Spec => []AckedVisible
<1>1. IInv => AckedVisible
  BY Zenon DEF IInv, DataInv, AckedVisible, Acked, Durable, Visible
<1> QED
  BY <1>1, EngineInvariant, PTL

\* Under the same condition a query returns all that was acknowledged when it
\* began, though snapshots fail and are taken up again while it reads.
THEOREM EngineQueries ==
  ASSUME "coldRace" \notin Faults, "tornEntry" \notin Faults,
         SnapshotsSucceed \/ MaxCrashes = 0
  PROVE  Spec => []QueriesComplete
<1>1. IInv => QueriesComplete
  BY Zenon DEF IInv, ReadInv, QueriesComplete
<1> QED
  BY <1>1, EngineInvariant, PTL

\* Every batch in the log is in memory or in a TSM file, though snapshots fail
\* and the process crashes.
THEOREM EngineLogCovered ==
  ASSUME "coldRace" \notin Faults, "tornEntry" \notin Faults
  PROVE  Spec => []LogCovered
<1>1. IInv => LogCovered
  BY Zenon DEF IInv, DataInv, LogCovered
<1> QED
  BY <1>1, EngineInvariant, PTL

-----------------------------------------------------------------------------
\* The steps that change nothing a client can see.
LEMMA Unseen ==
  ASSUME phase' = phase, Visible' = Visible, Acked' = Acked, Offered' = Offered
  PROVE  UNCHANGED Promise!vars
  BY Zenon DEF Promise!vars, Offered

\* Every step of the engine is a step of PointStore or changes nothing there.
LEMMA PromiseStep ==
  ASSUME "coldRace" \notin Faults, "tornEntry" \notin Faults,
         SnapshotsSucceed \/ MaxCrashes = 0, IInv, [Next]_vars
  PROVE  [Promise!Next]_(Promise!vars)
<1> USE DEF IInv
<1>1. ASSUME NEW w \in Writes, EnterWrite(w) PROVE Promise!Offer(w)
  <2>1. /\ phase = "up" /\ UNCHANGED <<phase, cache, snap, tsm>>
        /\ wpc[w] = "idle" /\ wpc'[w] \in {"check", "alloc"}
        /\ \A v \in Writes : v # w => wpc'[v] = wpc[v]
    BY Zenon, <1>1 DEF EnterWrite, Writer, snapVars, TypeOK
  <2>2. Acked' = Acked /\ Offered' = Offered \cup {w} /\ Visible' = Visible
    BY Zenon, <2>1 DEF Acked, Offered, Visible
  <2> QED
    BY <2>1, <2>2, Zenon DEF Promise!Offer, Offered
<1>2. ASSUME NEW w \in Writes, WriteCache(w) PROVE Promise!Show(w)
  <2>1. /\ phase = "up" /\ UNCHANGED <<phase, snap, tsm>>
        /\ wpc[w] = "cache" /\ wpc'[w] = "log"
        /\ \A v \in Writes : v # w => wpc'[v] = wpc[v]
    BY Zenon, <1>2 DEF WriteCache, WriteMulti, Writer, snapVars, TypeOK
  <2>2. cache' = cache \cup {w}
    BY Zenon, <1>2, <2>1 DEF WriteCache, WriteMulti, StoreInv
  <2>3. Acked' = Acked /\ Offered' = Offered /\ Visible' = Visible \cup {w} /\ w \in Offered
    BY Zenon, <2>1, <2>2 DEF Acked, Offered, Visible
  <2> QED
    BY <2>1, <2>3, Zenon DEF Promise!Show, Offered
<1>3. ASSUME NEW w \in Writes, WriteReturns(w) PROVE Promise!Ack(w)
  <2>1. /\ phase = "up" /\ UNCHANGED <<phase, cache, snap, tsm>>
        /\ wpc[w] = "sync" /\ wpc'[w] = "ok"
        /\ \A v \in Writes : v # w => wpc'[v] = wpc[v]
    BY Zenon, <1>3 DEF WriteReturns, Writer, cacheVars, TypeOK
  <2>2. /\ Acked' = Acked \cup {w} /\ Offered' = Offered
        /\ Visible' = Visible /\ w \in Visible
    BY Zenon, <2>1 DEF Acked, Offered, Visible, DataInv
  <2> QED
    BY <2>1, <2>2, Zenon DEF Promise!Ack, Offered
<1>4. ASSUME NEW w \in Writes, AllocateStore(w) \/ CheckSize(w) \/ WriteLog(w)
      PROVE  UNCHANGED Promise!vars
  <2>1. /\ UNCHANGED <<phase, snap, tsm>>
        /\ wpc[w] \notin {"idle", "ok"} /\ wpc'[w] \notin {"idle", "ok"}
        /\ \A v \in Writes : v # w => wpc'[v] = wpc[v]
    BY <1>4, Zenon DEF AllocateStore, CheckSize, WriteLog, Writer, cacheVars,
        snapVars, TypeOK
  <2>2. cache' = cache
    BY <1>4, Zenon DEF AllocateStore, SetStore, Writer, CheckSize, WriteLog,
        cacheVars, StoreInv
  <2> QED
    BY Zenon, <2>1, <2>2, Unseen DEF Acked, Offered, Visible
<1>5. ASSUME NEW s \in Snapshotters, SnapshotStep(s) \/ SnapshotFails(s)
      PROVE  UNCHANGED Promise!vars
  <2>1. UNCHANGED <<phase, wpc>>
    BY <1>5, Zenon DEF SnapshotStep, BeginSnapshot, SnapshotAllocates, SnapshotRefused,
      SnapshotEmpty, SnapshotTaken, WriteFiles, ReplaceFiles, ClearCache, RemoveClosed,
      EndSnapshot, SnapshotFails, Snapshotter
  <2>2. CASE BeginSnapshot(s) \/ SnapshotRefused(s) \/ WriteFiles(s) \/ RemoveClosed(s)
             \/ EndSnapshot(s)
    <3>1. UNCHANGED <<cache, snap, tsm>>
      BY <2>2, Zenon DEF BeginSnapshot, SnapshotRefused, WriteFiles, RemoveClosed,
        EndSnapshot, cacheVars, snapVars
    <3> QED
      BY <2>1, <3>1, Unseen, Zenon DEF Visible, Acked, Offered
  <2>3. CASE SnapshotAllocates(s)
    <3>1. UNCHANGED <<cache, snap, tsm>>
      BY Zenon, <2>3 DEF SnapshotAllocates, Snapshotter, SetStore, snapVars, StoreInv
    <3> QED
      BY <2>1, <3>1, Unseen, Zenon DEF Visible, Acked, Offered
  <2>4. CASE SnapshotEmpty(s) \/ SnapshotTaken(s)
    <3>1. Visible' = Visible
      BY <2>4, SwapShows, Zenon DEF TypeOK
    <3> QED
      BY <2>1, <3>1, Unseen, Zenon DEF Acked, Offered
  <2>5. CASE ReplaceFiles(s)
    <3>1. UNCHANGED <<cache, snap>> /\ tsm' = tsm \cup snap
      BY <2>5, Zenon DEF ReplaceFiles, cacheVars
    <3> QED
      BY <2>1, <3>1, Unseen, Zenon DEF Visible, Acked, Offered
  <2>6. CASE ClearCache(s)
    <3>1. snap \subseteq tsm /\ snap' = {} /\ UNCHANGED <<cache, tsm>>
      BY Zenon, <2>6 DEF ClearCache, ClearSnapshot, SetStore, Snapshotter, ClosedInv, StoreInv
    <3> QED
      BY <2>1, <3>1, Unseen, Zenon DEF Visible, Acked, Offered
  <2>7. CASE SnapshotFails(s)
    <3>1. UNCHANGED <<cache, snap, tsm>>
      BY Zenon, <2>7 DEF SnapshotFails, ClearSnapshot, SetStore, StoreInv
    <3> QED
      BY <2>1, <3>1, Unseen, Zenon DEF Visible, Acked, Offered
  <2> QED
    BY <1>5, <2>2, <2>3, <2>4, <2>5, <2>6, <2>7, Zenon DEF SnapshotStep
<1>6. ASSUME SyncStep \/ FreeStep \/ (\E r \in Readers : ReaderStep(r)) \/ UNCHANGED vars
      PROVE  UNCHANGED Promise!vars
  <2>1. UNCHANGED <<phase, wpc, snap, tsm>>
    BY <1>6, Zenon DEF SyncStep, FreeStep, IsIdle, FreeBegins, FreeDrops, Free,
        ReaderStep,
      ReadCache, ReadFiles, ReadEnds, Reader, vars, engineVars, cacheVars, snapVars
  <2>2. cache' = cache
    BY <1>6, Zenon DEF SyncStep, FreeStep, IsIdle, FreeBegins, FreeDrops, Free,
        ReaderStep,
      ReadCache, ReadFiles, ReadEnds, Reader, vars, cacheVars, SetStore, StoreInv
  <2> QED
    BY <2>1, <2>2, Unseen, Zenon DEF Visible, Acked, Offered
<1>7. ASSUME Crash \/ Close PROVE Promise!Stop
  <2>1. /\ phase = "up" /\ phase' = "down"
        /\ wpc' = [w \in Writes |-> IF InFlight(w) THEN "lost" ELSE wpc[w]]
    BY <1>7, Zenon DEF Crash, Close, Stops
  <2>2. Acked' = Acked /\ Offered' = Offered
    BY Zenon, <2>1 DEF Acked, Offered, InFlight, TypeOK
  <2>3. "down" # "up"
    BY Zenon
  <2> QED
    BY <2>1, <2>2, <2>3, Zenon DEF Promise!Stop, Offered
<1>8. ASSUME Open PROVE Promise!Restart
  <2>1. /\ phase = "down" /\ phase' = "up" /\ UNCHANGED <<tsm, wpc>>
        /\ cache' = Replayed /\ snap' = {}
    BY <1>8, Zenon DEF Open, LoadedCache
  <2>0. SnapshotsSucceed
    BY Zenon, <2>1 DEF DataInv
  <2>2. Visible' \subseteq Offered /\ Acked \subseteq Visible'
    BY <2>0, <2>1, Zenon DEF DataInv, Visible, Acked, Durable, Offered
  <2>3. "down" # "up"
    BY Zenon
  <2> QED
    BY <2>1, <2>2, <2>3, Zenon DEF Promise!Restart, Offered, Acked
<1> QED
  BY <1>1, <1>2, <1>3, <1>4, <1>5, <1>6, <1>7, <1>8, Zenon
  DEF Next, WriterStep, Promise!Next

\* The engine implements PointStore, if snapshots succeed or the process does
\* not stop.
THEOREM EngineKeepsPromise ==
  ASSUME "coldRace" \notin Faults, "tornEntry" \notin Faults,
         SnapshotsSucceed \/ MaxCrashes = 0
  PROVE  Spec => KeepsPromise
<1>1. Init => Promise!Init
  BY Zenon DEF Init, CacheInit, Promise!Init, Visible, Acked
<1>2. IInv /\ [Next]_vars => [Promise!Next]_(Promise!vars)
  BY Zenon, PromiseStep
<1> QED
  BY <1>1, <1>2, EngineInvariant, PTL DEF Spec, KeepsPromise, Promise!Spec
=============================================================================
