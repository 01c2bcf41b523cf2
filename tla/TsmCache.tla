------------------------------ MODULE TsmCache ------------------------------
(***************************************************************************)
(* The in-memory cache of a shard (tsm1/cache.go): the live store, whose   *)
(* ring is allocated by the first write (init) and given up when the shard *)
(* is idle (Free), and the snapshot being written to disk.  A write into   *)
(* the emptyStore of an unallocated cache does nothing.  Sizes are in      *)
(* batches; the limit on the size is checked before a batch is counted.    *)
(***************************************************************************)
EXTENDS Integers, FiniteSets

CONSTANT MaxSize  \* cache-max-memory-size, in batches; 0 is no limit

VARIABLES
  initialized,   \* initializedCount = 1
  ring,          \* the live store is a ring, not the emptyStore
  cache,         \* the batches in the live store
  size,          \* c.size
  snap,          \* the batches in c.snapshot
  snapRing,      \* the snapshot's store is a ring
  snapSize,      \* c.snapshotSize
  snapshotting

cacheVars == <<initialized, ring, cache, size, snap, snapRing, snapSize, snapshotting>>
storeVars == <<initialized, ring, cache>>
snapVars == <<snap, snapRing, snapSize, snapshotting>>

CacheInit ==
  /\ initialized = FALSE
  /\ ring = FALSE
  /\ cache = {}
  /\ size = 0
  /\ snap = {}
  /\ snapRing = TRUE
  /\ snapSize = 0
  /\ snapshotting = FALSE

\* Cache.Size.
CacheSize == size + snapSize

\* The second half of init and of Free: c.store is replaced, contents and all.
SetStore(isRing) ==
  /\ ring' = isRing
  /\ cache' = {}

HasRoom == MaxSize = 0 \/ CacheSize + 1 <= MaxSize

\* WriteMulti, past its checks.
WriteMulti(w) ==
  /\ size' = size + 1
  /\ cache' = IF ring THEN cache \cup {w} ELSE cache
  /\ UNCHANGED <<initialized, ring, snapVars>>

Retries == snapSize > 0

\* Mutant: the snapshot of a failed attempt is overwritten.
OverwriteSnapshot ==
  /\ snapshotting' = TRUE
  /\ snap' = cache
  /\ snapRing' = ring
  /\ ring' = snapRing
  /\ cache' = {}
  /\ snapSize' = size
  /\ size' = 0
  /\ UNCHANGED initialized

\* Snapshot when none is being taken: a snapshot that failed before is
\* returned again, otherwise the stores are swapped.
TakeSnapshot ==
  /\ snapshotting' = TRUE
  /\ IF Retries
     THEN UNCHANGED <<ring, cache, size, snap, snapRing, snapSize>>
     ELSE /\ snap' = cache
          /\ snapRing' = ring
          /\ ring' = snapRing
          /\ cache' = {}
          /\ snapSize' = size
          /\ size' = 0
  /\ UNCHANGED initialized

\* Mutant: a committed snapshot still counts as being taken.
StaysSnapshotting(success) ==
  /\ snap' = IF success THEN {} ELSE snap
  /\ snapSize' = IF success THEN 0 ELSE snapSize
  /\ UNCHANGED <<initialized, ring, cache, size, snapRing, snapshotting>>

\* ClearSnapshot; its init allocates the live store if Free got there first.
ClearSnapshot(success) ==
  /\ snapshotting' = FALSE
  /\ snap' = IF success THEN {} ELSE snap
  /\ snapSize' = IF success THEN 0 ELSE snapSize
  /\ initialized' = TRUE
  /\ IF initialized THEN UNCHANGED <<ring, cache>> ELSE SetStore(TRUE)
  /\ UNCHANGED <<size, snapRing>>

\* A new process, with what was read from the log.  (NewCache allocates
\* nothing; loading does, unless there is nothing to load.)
LoadedCache(W) ==
  /\ initialized' = (W # {})
  /\ ring' = (W # {})
  /\ cache' = W
  /\ size' = Cardinality(W)
  /\ snap' = {}
  /\ snapRing' = TRUE
  /\ snapSize' = 0
  /\ snapshotting' = FALSE
=============================================================================
