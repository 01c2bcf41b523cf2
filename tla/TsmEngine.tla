------------------------------ MODULE TsmEngine -----------------------------
(***************************************************************************)
(* A shard's storage engine (tsm1/engine.go): writers put a batch into the *)
(* cache and then into the write-ahead log, snapshotters move the cache    *)
(* into TSM files and remove the log's closed segments, the store's        *)
(* monitor frees an idle cache, readers merge cache and files; the process *)
(* may be closed, may die at any point, and is opened again.  All batches  *)
(* hold different points.  Writers and the committing half of a snapshot   *)
(* hold e.mu for reading, the first half of a snapshot holds it alone.     *)
(***************************************************************************)
EXTENDS TsmWal, TsmCache

CONSTANTS
  Snapshotters,  \* callers of WriteSnapshot: compactCache, backups, compactions
  Readers,
  MaxCrashes,    \* bound on the number of crashes
  Faults         \* what the environment may do, a subset of AllFaults

\* "snapshotFails": writing or adding the TSM files fails or is interrupted.
\* "tornEntry": a crash leaves a part of a log entry in the file.
\* "coldRace": another goroutine runs between the steps of init or Free.
AllFaults == {"snapshotFails", "tornEntry", "coldRace"}

ASSUME FaultsAssumption == Faults \subseteq AllFaults
ASSUME WritesAssumption == IsFiniteSet(Writes)
ASSUME BoundsAssumption ==
  SegmentSize \in Nat /\ WaitersCap \in Nat /\ MaxSize \in Nat /\ MaxCrashes \in Nat

VARIABLES
  phase,    \* "up" or "down"
  tsm,      \* the batches in TSM files
  wpc,      \* wpc[w]: WritePoints of batch w; "ok" and "error" are its results
  spc,      \* spc[s]: WriteSnapshot of snapshotter s
  closed,   \* closed[s]: its closedFiles
  fpc,      \* the monitor's IsIdle and Free
  rpc,      \* rpc[r]: a query, reading the cache and then the files
  due,      \* due[r]: the batches acknowledged when it began
  seen,     \* seen[r]: the batches it has read
  crashes

engineVars == <<phase, tsm, wpc, spc, closed, fpc, rpc, due, seen, crashes>>
vars == <<walVars, cacheVars, engineVars>>

Acked == {w \in Writes : wpc[w] = "ok"}
Visible == cache \cup snap \cup tsm

Init ==
  /\ WalInit
  /\ CacheInit
  /\ phase = "up"
  /\ tsm = {}
  /\ wpc = [w \in Writes |-> "idle"]
  /\ spc = [s \in Snapshotters |-> "idle"]
  /\ closed = [s \in Snapshotters |-> {}]
  /\ fpc = "idle"
  /\ rpc = [r \in Readers |-> "idle"]
  /\ due = [r \in Readers |-> {}]
  /\ seen = [r \in Readers |-> {}]
  /\ crashes = 0

\* e.mu: held for reading by these, exclusively by a snapshotter in "alloc"
\* or "swap".
InFlight(w) == wpc[w] \in {"alloc", "check", "cache", "log", "sync"}
ReadLocked ==
  \/ \E w \in Writes : InFlight(w)
  \/ \E s \in Snapshotters : spc[s] \in {"commit", "clear", "remove"}
Locked == \E s \in Snapshotters : spc[s] \in {"alloc", "swap"}

\* Without the cold race, init and Free run undisturbed.
Undisturbed ==
  "coldRace" \in Faults \/ (fpc = "idle" /\ \A w \in Writes : wpc[w] # "alloc")

-----------------------------------------------------------------------------
\* WritePoints.

Writer(w, from, to) ==
  /\ phase = "up"
  /\ wpc[w] = from
  /\ wpc' = [wpc EXCEPT ![w] = to]
  /\ UNCHANGED <<phase, tsm, spc, closed, fpc, rpc, due, seen, crashes>>

\* Takes e.mu; init: whoever sets initializedCount allocates the ring, the
\* others go on at once.
EnterWrite(w) ==
  /\ ~Locked
  /\ Undisturbed
  /\ Writer(w, "idle", IF initialized THEN "check" ELSE "alloc")
  /\ initialized' = TRUE
  /\ UNCHANGED <<ring, cache, size, snapVars, walVars>>

AllocateStore(w) ==
  /\ Writer(w, "alloc", "check")
  /\ SetStore(TRUE)
  /\ UNCHANGED <<initialized, size, snapVars, walVars>>

CheckSize(w) ==
  /\ Writer(w, "check", IF HasRoom THEN "cache" ELSE "error")
  /\ UNCHANGED <<cacheVars, walVars>>

\* Mutant: a write is acknowledged from the cache, the log catches up.
WriteCacheAndReturn(w) ==
  /\ Writer(w, "cache", "ok")
  /\ WriteMulti(w)
  /\ UNCHANGED walVars

WriteCache(w) ==
  /\ Writer(w, "cache", "log")
  /\ WriteMulti(w)
  /\ UNCHANGED walVars

WriteLog(w) ==
  /\ \/ Writer(w, "log", "sync") /\ (Rolled(w) \/ Logged(w))
     \/ Writer(w, "log", "error") /\ LoggedUnawaited(w)
  /\ UNCHANGED cacheVars

\* The fsync's error arrives: nil.
WriteReturns(w) ==
  /\ Writer(w, "sync", "ok")
  /\ w \notin waiters
  /\ UNCHANGED <<cacheVars, walVars>>

SyncStep ==
  /\ phase = "up"
  /\ Sync \/ SyncStops
  /\ UNCHANGED <<cacheVars, engineVars>>

-----------------------------------------------------------------------------
\* WriteSnapshot.

Snapshotter(s, from, to) ==
  /\ phase = "up"
  /\ spc[s] = from
  /\ spc' = [spc EXCEPT ![s] = to]
  /\ UNCHANGED <<phase, wpc, fpc, rpc, due, seen, crashes>>

\* e.mu.Lock, CloseSegment, ClosedSegments, and the first half of the init
\* in Cache.Snapshot.
BeginSnapshot(s) ==
  /\ ~Locked
  /\ ~ReadLocked
  /\ Undisturbed
  /\ Snapshotter(s, "idle", IF initialized THEN "swap" ELSE "alloc")
  /\ CloseSegment
  /\ closed' = [closed EXCEPT ![s] = ClosedSegments]
  /\ initialized' = TRUE
  /\ UNCHANGED <<ring, cache, size, snapVars, tsm>>

SnapshotAllocates(s) ==
  /\ Snapshotter(s, "alloc", "swap")
  /\ SetStore(TRUE)
  /\ UNCHANGED <<initialized, size, snapVars, walVars, tsm, closed>>

\* ErrSnapshotInProgress.
SnapshotRefused(s) ==
  /\ snapshotting
  /\ Snapshotter(s, "swap", "idle")
  /\ closed' = [closed EXCEPT ![s] = {}]
  /\ UNCHANGED <<cacheVars, walVars, tsm>>

\* Nothing was cached: the snapshot is cleared again, which allocates the
\* live store if Free got there first; the segments stay.
SnapshotEmpty(s) ==
  /\ ~snapshotting
  /\ ~Retries
  /\ size = 0
  /\ Snapshotter(s, "swap", "idle")
  /\ closed' = [closed EXCEPT ![s] = {}]
  /\ snap' = {}
  /\ snapRing' = ring
  /\ ring' = (snapRing \/ ~initialized)
  /\ cache' = {}
  /\ initialized' = TRUE
  /\ UNCHANGED <<size, snapSize, snapshotting, walVars, tsm>>

\* Mutant: a second snapshot does not wait for the first.
SwapAnyway(s) ==
  /\ Retries \/ size > 0
  /\ Snapshotter(s, "swap", "write")
  /\ snapshotting' = TRUE
  /\ snap' = cache
  /\ cache' = {}
  /\ snapSize' = size
  /\ size' = 0
  /\ UNCHANGED <<initialized, ring, snapRing, walVars, tsm, closed>>

SnapshotTaken(s) ==
  /\ ~snapshotting
  /\ Retries \/ size > 0
  /\ Snapshotter(s, "swap", "write")
  /\ TakeSnapshot
  /\ UNCHANGED <<walVars, tsm, closed>>

\* Compactor.WriteSnapshot writes temporary files, without e.mu, which the
\* commit then takes for reading.
WriteFiles(s) ==
  /\ ~Locked
  /\ Snapshotter(s, "write", "commit")
  /\ UNCHANGED <<cacheVars, walVars, tsm, closed>>

\* Its failure, or the one of FileStore.Replace: the temporary files go, the
\* snapshot stays in memory for the next attempt.
SnapshotFails(s) ==
  /\ "snapshotFails" \in Faults
  /\ spc[s] \in {"write", "commit"}
  /\ Snapshotter(s, spc[s], "idle")
  /\ ClearSnapshot(FALSE)
  /\ closed' = [closed EXCEPT ![s] = {}]
  /\ UNCHANGED <<walVars, tsm>>

\* FileStore.Replace: the files get their names and become readable.
ReplaceFiles(s) ==
  /\ Snapshotter(s, "commit", "clear")
  /\ tsm' = tsm \cup snap
  /\ UNCHANGED <<cacheVars, walVars, closed>>

ClearCache(s) ==
  /\ Snapshotter(s, "clear", "remove")
  /\ ClearSnapshot(TRUE)
  /\ UNCHANGED <<walVars, tsm, closed>>

RemoveClosed(s) ==
  /\ Snapshotter(s, "remove", "remove")
  /\ \E i \in closed[s] :
       /\ \A j \in closed[s] : i <= j
       /\ RemoveSegment(i)
       /\ closed' = [closed EXCEPT ![s] = @ \ {i}]
  /\ UNCHANGED <<cacheVars, tsm>>

EndSnapshot(s) ==
  /\ closed[s] = {}
  /\ Snapshotter(s, "remove", "idle")
  /\ UNCHANGED <<cacheVars, walVars, tsm, closed>>

-----------------------------------------------------------------------------
\* The monitor frees the cache of an idle shard, without e.mu.

Free(from, to) ==
  /\ phase = "up"
  /\ fpc = from
  /\ fpc' = to
  /\ UNCHANGED <<phase, tsm, wpc, spc, closed, rpc, due, seen, crashes>>

IsIdle ==
  /\ "coldRace" \in Faults \/ (~Locked /\ ~ReadLocked)
  /\ CacheSize = 0
  /\ Free("idle", "free")
  /\ UNCHANGED <<cacheVars, walVars>>

FreeBegins ==
  /\ Free("free", IF initialized THEN "drop" ELSE "idle")
  /\ initialized' = FALSE
  /\ UNCHANGED <<ring, cache, size, snapVars, walVars>>

FreeDrops ==
  /\ Free("drop", "idle")
  /\ SetStore(FALSE)
  /\ UNCHANGED <<initialized, size, snapVars, walVars>>

-----------------------------------------------------------------------------
\* A cursor: Cache.Values, then FileStore.KeyCursor.

Reader(r, to) ==
  /\ phase = "up"
  /\ rpc' = [rpc EXCEPT ![r] = to]
  /\ UNCHANGED <<phase, tsm, wpc, spc, closed, fpc, crashes, cacheVars, walVars>>

\* Mutant: of the cache, only the live store is read.
ReadLiveStore(r) ==
  /\ rpc[r] = "idle"
  /\ Reader(r, "files")
  /\ due' = [due EXCEPT ![r] = Acked]
  /\ seen' = [seen EXCEPT ![r] = cache]

ReadCache(r) ==
  /\ rpc[r] = "idle"
  /\ Reader(r, "files")
  /\ due' = [due EXCEPT ![r] = Acked]
  /\ seen' = [seen EXCEPT ![r] = cache \cup snap]

ReadFiles(r) ==
  /\ rpc[r] = "files"
  /\ Reader(r, "done")
  /\ seen' = [seen EXCEPT ![r] = @ \cup tsm]
  /\ UNCHANGED due

\* The result is returned; the next query may start.
ReadEnds(r) ==
  /\ rpc[r] = "done"
  /\ Reader(r, "idle")
  /\ due' = [due EXCEPT ![r] = {}]
  /\ seen' = [seen EXCEPT ![r] = {}]

-----------------------------------------------------------------------------
\* The process stops: everything in memory is gone, files and the outcome of
\* finished writes stay, unfinished ones are never answered.
Stops ==
  /\ phase = "up"
  /\ phase' = "down"
  /\ wpc' = [w \in Writes |-> IF InFlight(w) THEN "lost" ELSE wpc[w]]
  /\ spc' = [s \in Snapshotters |-> "idle"]
  /\ closed' = [s \in Snapshotters |-> {}]
  /\ fpc' = "idle"
  /\ rpc' = [r \in Readers |-> "idle"]
  /\ due' = [r \in Readers |-> {}]
  /\ seen' = [r \in Readers |-> {}]
  /\ UNCHANGED tsm
  /\ LoadedCache({})

Crash ==
  /\ crashes < MaxCrashes
  /\ crashes' = crashes + 1
  /\ Stops
  /\ \E n \in 0 .. Len(buf), tear \in BOOLEAN :
       /\ tear => "tornEntry" \in Faults /\ n < Len(buf)
       /\ CrashWal(n, tear)

\* Engine.Close waits for e.mu and for compactCache; the log is synced.
Close ==
  /\ crashes < MaxCrashes
  /\ crashes' = crashes + 1
  /\ ~ReadLocked
  /\ \A s \in Snapshotters : spc[s] = "idle"
  /\ Stops
  /\ CloseWal

\* Mutant: the log is not read back.
OpenWithoutReload ==
  /\ phase = "down"
  /\ phase' = "up"
  /\ OpenWal
  /\ LoadedCache({})
  /\ UNCHANGED <<tsm, wpc, spc, closed, fpc, rpc, due, seen, crashes>>

\* Engine.Open: temporary files are removed, the log is opened, then the
\* files, then the log is read into the cache.
Open ==
  /\ phase = "down"
  /\ phase' = "up"
  /\ OpenWal
  /\ LoadedCache(Replayed)
  /\ UNCHANGED <<tsm, wpc, spc, closed, fpc, rpc, due, seen, crashes>>

-----------------------------------------------------------------------------
WriterStep(w) ==
  \/ EnterWrite(w) \/ AllocateStore(w) \/ CheckSize(w) \/ WriteCache(w)
  \/ WriteLog(w) \/ WriteReturns(w)

SnapshotStep(s) ==
  \/ BeginSnapshot(s) \/ SnapshotAllocates(s) \/ SnapshotRefused(s) \/ SnapshotEmpty(s)
  \/ SnapshotTaken(s) \/ WriteFiles(s) \/ ReplaceFiles(s) \/ ClearCache(s)
  \/ RemoveClosed(s) \/ EndSnapshot(s)

FreeStep == IsIdle \/ FreeBegins \/ FreeDrops

ReaderStep(r) == ReadCache(r) \/ ReadFiles(r) \/ ReadEnds(r)

Next ==
  \/ \E w \in Writes : WriterStep(w)
  \/ SyncStep
  \/ \E s \in Snapshotters : SnapshotStep(s) \/ SnapshotFails(s)
  \/ FreeStep
  \/ \E r \in Readers : ReaderStep(r)
  \/ Crash \/ Close \/ Open

Spec == Init /\ [][Next]_vars

\* The goroutines of writers, fsync and snapshot are scheduled, the cache is
\* snapshotted again and again (compactCache, once it is cold), and a stopped
\* process is started again.
Fairness ==
  /\ \A w \in Writes : WF_vars(WriterStep(w))
  /\ \A s \in Snapshotters : WF_vars(SnapshotStep(s))
  /\ WF_vars(SyncStep)
  /\ WF_vars(FreeBegins \/ FreeDrops)
  /\ WF_vars(Open)

FairSpec == Spec /\ Fairness

-----------------------------------------------------------------------------
WriterStates ==
  {"idle", "alloc", "check", "cache", "log", "sync", "ok", "error", "lost"}
SnapshotStates == {"idle", "alloc", "swap", "write", "commit", "clear", "remove"}

TypeOK ==
  /\ segs \in [DOMAIN segs -> Segment]
  /\ DOMAIN segs \subseteq Nat
  /\ id \in Nat /\ wsize \in Nat /\ crashes \in Nat
  /\ open \in BOOLEAN /\ gap \in BOOLEAN /\ syncing \in BOOLEAN
  /\ buf \in Seq(Writes)
  /\ waiters \subseteq Writes
  /\ initialized \in BOOLEAN /\ ring \in BOOLEAN
  /\ snapRing \in BOOLEAN /\ snapshotting \in BOOLEAN
  /\ cache \subseteq Writes /\ snap \subseteq Writes /\ tsm \subseteq Writes
  /\ size \in Nat /\ snapSize \in Nat
  /\ phase \in {"up", "down"}
  /\ wpc \in [Writes -> WriterStates]
  /\ spc \in [Snapshotters -> SnapshotStates]
  /\ closed \in [Snapshotters -> SUBSET Nat]
  /\ fpc \in {"idle", "free", "drop"}
  /\ rpc \in [Readers -> {"idle", "files", "done"}]
  /\ due \in [Readers -> SUBSET Writes]
  /\ seen \in [Readers -> SUBSET Writes]

\* What WritePoints acknowledged is on disk, in a TSM file or where a replay
\* of the log finds it, at every moment: between cache and log, while a
\* snapshot is written, committed or its segments removed one by one, and
\* after any crash.
AckedDurable == Acked \subseteq tsm \cup Replayed

\* While the engine runs, what it acknowledged can be read: the moves from
\* cache to snapshot to file, a freed cache and a restart never hide it.
AckedVisible == phase = "up" => Acked \subseteq Visible

\* A query returns every batch acknowledged before it began, though it reads
\* cache and files at different moments and a snapshot may move in between.
QueriesComplete == \A r \in Readers : rpc[r] = "done" => due[r] \subseteq seen[r]

\* A batch in the log is in memory or in a file: removing the segments a
\* snapshot covers removes no batch that the snapshot did not cover.
LogCovered == phase = "up" => Replayed \cup Range(buf) \subseteq Visible

\* The engine keeps the promise of PointStore.
Promise ==
  INSTANCE PointStore WITH
    up <- phase = "up",
    offered <- {w \in Writes : wpc[w] # "idle"},
    visible <- IF phase = "up" THEN Visible ELSE {},
    acked <- Acked

\* Seen from outside, cache, log, snapshots and files behave as one set of
\* batches that only grows while the engine is up and that keeps what was
\* acknowledged when it goes down.
KeepsPromise == Promise!Spec

\* Every WritePoints returns or dies with the process: no waiter is left
\* without an fsync.
WritesReturn == \A w \in Writes : InFlight(w) ~> ~InFlight(w)

\* What was acknowledged ends up in a TSM file, unless a snapshot failed and
\* waits in memory to be tried again.
AckedFiled ==
  \A w \in Writes : wpc[w] = "ok" ~> (w \in tsm \/ (~snapshotting /\ snap # {}))
=============================================================================
