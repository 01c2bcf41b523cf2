------------------------------- MODULE TsmWal -------------------------------
(***************************************************************************)
(* The write-ahead log of a shard (tsm1/wal.go): segment files, a buffered *)
(* writer on the last of them, and a goroutine that fsyncs on behalf of    *)
(* the writers waiting in syncWaiters.  An entry is one batch of points,   *)
(* of size one.  Every operation that holds l.mu is one step; encoding,    *)
(* statistics and failing disk operations are left out.                    *)
(***************************************************************************)
EXTENDS Integers, Sequences, FiniteSets, Functions

CONSTANTS
  Writes,       \* the batches, each written once
  SegmentSize,  \* DefaultSegmentSize, in entries
  WaitersCap    \* capacity of syncWaiters

VARIABLES
  segs,     \* the segment files, by id
  id,       \* currentSegmentID
  open,     \* currentSegmentWriter is not nil
  wsize,    \* currentSegmentWriter.size: what this writer has written
  gap,      \* the writer's file offset lies beyond the end of its file
  buf,      \* entries written to the bufio.Writer and not yet to the file
  waiters,  \* the batches whose goroutines wait in syncWaiters
  syncing   \* syncCount: a goroutine of scheduleSync is running

walVars == <<segs, id, open, wsize, gap, buf, waiters, syncing>>

\* A segment file: the entries a reader reaches, whether bytes that are no
\* entry follow them, and the entries behind those bytes.
Segment == [ok : SUBSET Writes, torn : BOOLEAN, after : SUBSET Writes]
EmptySegment == [ok |-> {}, torn |-> FALSE, after |-> {}]
Blank(seg) == seg = EmptySegment

\* Writing W at the writer's offset; a hole reads as zeros, which are no entry.
Appended(seg, W, hole) ==
  IF W = {} THEN seg
  ELSE IF seg.torn \/ hole
       THEN [seg EXCEPT !.torn = TRUE, !.after = @ \cup W]
       ELSE [seg EXCEPT !.ok = @ \cup W]

\* What a reader of all segments would load.
Replayed == {w \in Writes : \E i \in DOMAIN segs : w \in segs[i].ok}

WalInit ==
  /\ segs = << >>
  /\ id = 0
  /\ open = FALSE
  /\ wsize = 0
  /\ gap = FALSE
  /\ buf = << >>
  /\ waiters = {}
  /\ syncing = FALSE

-----------------------------------------------------------------------------
\* bufio.Writer.Flush: the files once everything buffered is in them.
Flushed ==
  [i \in DOMAIN segs |->
     IF open /\ i = id THEN Appended(segs[i], Range(buf), gap) ELSE segs[i]]

WithNewSegment ==
  [i \in DOMAIN segs \cup {id + 1} |->
     IF i = id + 1 THEN EmptySegment ELSE Flushed[i]]

MustRoll == ~open \/ wsize > SegmentSize

\* rollSegment: newSegmentFile syncs the old segment, which answers every
\* waiter, and starts a new one.
Rolled(w) ==
  /\ MustRoll
  /\ segs' = WithNewSegment
  /\ id' = id + 1
  /\ open' = TRUE
  /\ wsize' = 1
  /\ gap' = FALSE
  /\ buf' = <<w>>
  /\ waiters' = {w}
  /\ syncing' = TRUE

\* writeToLog: the entry is buffered, its goroutine waits for the fsync.
Logged(w) ==
  /\ ~MustRoll
  /\ Cardinality(waiters) < WaitersCap
  /\ wsize' = wsize + 1
  /\ buf' = Append(buf, w)
  /\ waiters' = waiters \cup {w}
  /\ syncing' = TRUE
  /\ UNCHANGED <<segs, id, open, gap>>

\* syncWaiters is full: the entry stays buffered although the write fails,
\* and no fsync is scheduled for it.
LoggedUnawaited(w) ==
  /\ ~MustRoll
  /\ Cardinality(waiters) >= WaitersCap
  /\ wsize' = wsize + 1
  /\ buf' = Append(buf, w)
  /\ UNCHANGED <<segs, id, open, gap, waiters, syncing>>

\* Mutant: the waiters are answered, the buffer is not flushed.
NotifyOnly ==
  /\ syncing
  /\ waiters # {}
  /\ waiters' = {}
  /\ UNCHANGED <<segs, id, open, wsize, gap, buf, syncing>>

\* The goroutine of scheduleSync: fsync while someone waits.
Sync ==
  /\ syncing
  /\ waiters # {}
  /\ segs' = Flushed
  /\ gap' = (gap /\ buf = << >>)
  /\ buf' = << >>
  /\ waiters' = {}
  /\ UNCHANGED <<id, open, wsize, syncing>>

\* Mutant: the goroutine ends after one fsync without looking for waiters.
SyncStopsEarly ==
  /\ syncing
  /\ syncing' = FALSE
  /\ UNCHANGED <<segs, id, open, wsize, gap, buf, waiters>>

\* Checked under l.mu, so that no writer can enqueue itself in between.
SyncStops ==
  /\ syncing
  /\ waiters = {}
  /\ syncing' = FALSE
  /\ UNCHANGED <<segs, id, open, wsize, gap, buf, waiters>>

\* CloseSegment: a new segment unless this writer wrote nothing, which is
\* also so for a segment that Open found on disk and nobody wrote since.
CloseSegment ==
  IF ~open \/ wsize > 0
  THEN /\ segs' = WithNewSegment
       /\ id' = id + 1
       /\ open' = TRUE
       /\ wsize' = 0
       /\ gap' = FALSE
       /\ buf' = << >>
       /\ waiters' = {}
       /\ UNCHANGED syncing
  ELSE UNCHANGED walVars

\* ClosedSegments, after CloseSegment: all files but the current one.
ClosedSegments == DOMAIN segs' \ {id'}

\* Remove, one file at a time, oldest first.
RemoveSegment(i) ==
  /\ segs' = [j \in DOMAIN segs \ {i} |-> segs[j]]
  /\ UNCHANGED <<id, open, wsize, gap, buf, waiters, syncing>>

-----------------------------------------------------------------------------
\* WAL.Close answers the waiters and leaves complete files.
CloseWal ==
  /\ segs' = Flushed
  /\ id' = 0
  /\ open' = FALSE
  /\ wsize' = 0
  /\ gap' = FALSE
  /\ buf' = << >>
  /\ waiters' = {}
  /\ syncing' = FALSE

\* The process dies: the first n buffered entries had been flushed (a full
\* buffer is written by itself), and part of the next one if tear holds.
CrashWal(n, tear) ==
  LET written == Range(SubSeq(buf, 1, n))
      Cut(seg) == IF tear THEN [Appended(seg, written, gap) EXCEPT !.torn = TRUE]
                          ELSE Appended(seg, written, gap)
  IN  /\ segs' = [i \in DOMAIN segs |->
                    IF open /\ i = id THEN Cut(segs[i]) ELSE segs[i]]
      /\ id' = 0
      /\ open' = FALSE
      /\ wsize' = 0
      /\ gap' = FALSE
      /\ buf' = << >>
      /\ waiters' = {}
      /\ syncing' = FALSE

\* Open continues the last segment, at the offset where the file ends, or
\* removes it when it is empty; CacheLoader.Load, which runs after Open,
\* truncates every segment behind its last valid entry.
Truncated(kept) == [i \in kept |-> [EmptySegment EXCEPT !.ok = segs[i].ok]]

OpenWal ==
  /\ \/ /\ DOMAIN segs = {}
        /\ id' = 0
        /\ open' = FALSE
        /\ gap' = FALSE
        /\ UNCHANGED segs
     \/ \E last \in DOMAIN segs :
          /\ \A i \in DOMAIN segs : i <= last
          /\ id' = last
          /\ open' = ~Blank(segs[last])
          /\ gap' = segs[last].torn
          /\ segs' = Truncated(IF Blank(segs[last]) THEN DOMAIN segs \ {last}
                                                   ELSE DOMAIN segs)
  /\ UNCHANGED <<wsize, buf, waiters, syncing>>
=============================================================================
