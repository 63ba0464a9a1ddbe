------------------------------- MODULE Bcache -------------------------------
(***************************************************************************)
(* The buffer cache (kernel/bio.c) with the sleep-locks of its buffers     *)
(* (kernel/sleeplock.c): bread, bwrite, brelse, bpin and bunpin.           *)
(*                                                                         *)
(* A step is a critical section of bcache.lock or of the spinlock inside a *)
(* sleep-lock, or a disk transfer.  As every caller does, a process that   *)
(* has modified a buffer writes it or has the log pin it before brelse,    *)
(* and a pin is dropped by a process that holds the buffer and has         *)
(* written it (log_write, install_trans).                                  *)
(***************************************************************************)
EXTENDS Naturals, FiniteSets, SequencesExt

CONSTANTS CacheProcs, CacheBlocks, BlockData,
          Bufs,        \* the NBUF buffers
          Nothing      \* no process, no block

ASSUME BcacheAssumption == /\ Nothing \notin CacheProcs \cup CacheBlocks \cup Bufs
                           /\ IsFiniteSet(Bufs) /\ IsFiniteSet(CacheProcs)

VARIABLES list,        \* the list of buffers from head.next to head.prev
          blockno,     \* b->blockno
          valid,       \* b->valid
          refcnt,      \* b->refcnt
          holder,      \* the process that has locked b->lock
          bdata,       \* b->data
          disk,        \* the blocks on disk
          pins,        \* blocks that the log has pinned
          bpc,         \* where each process is
          want,        \* its argument of bread
          cur,         \* the buffer it has been given
          cachePanicked   \* bget has panicked

cachevars == <<list, blockno, valid, refcnt, holder, bdata, disk, pins, bpc, want, cur,
               cachePanicked>>

CachePCs == {"user", "bget", "lock", "sleep", "read", "hold", "dirty", "release"}

CacheTypeOK ==
  /\ list \in [1..Cardinality(Bufs) -> Bufs]
  /\ blockno \in [Bufs -> CacheBlocks \cup {Nothing}]
  /\ valid \in [Bufs -> BOOLEAN]
  /\ refcnt \in [Bufs -> 0..Cardinality(CacheProcs) + 1]
  /\ holder \in [Bufs -> CacheProcs \cup {Nothing}]
  /\ bdata \in [Bufs -> BlockData]
  /\ disk \in [CacheBlocks -> BlockData]
  /\ pins \subseteq CacheBlocks
  /\ bpc \in [CacheProcs -> CachePCs]
  /\ want \in [CacheProcs -> CacheBlocks \cup {Nothing}]
  /\ cur \in [CacheProcs -> Bufs \cup {Nothing}]
  /\ cachePanicked \in BOOLEAN

\* binit: every buffer zeroed, unused and on the list.
CacheInit ==
  /\ list = SetToSeq(Bufs)
  /\ blockno = [b \in Bufs |-> Nothing]
  /\ valid = [b \in Bufs |-> FALSE]
  /\ refcnt = [b \in Bufs |-> 0]
  /\ holder = [b \in Bufs |-> Nothing]
  /\ disk \in [CacheBlocks -> BlockData]
  /\ bdata \in [Bufs -> BlockData]
  /\ \A b, c \in Bufs : bdata[b] = bdata[c]
  /\ pins = {}
  /\ bpc = [p \in CacheProcs |-> "user"]
  /\ want = [p \in CacheProcs |-> Nothing]
  /\ cur = [p \in CacheProcs |-> Nothing]
  /\ cachePanicked = FALSE

CacheAt(p, place) == ~cachePanicked /\ bpc[p] = place

CacheGoto(p, place) == bpc' = [bpc EXCEPT ![p] = place]

-----------------------------------------------------------------------------
(* bread                                                                   *)

bread(p, k) ==
  /\ CacheAt(p, "user")
  /\ CacheGoto(p, "bget")
  /\ want' = [want EXCEPT ![p] = k]
  /\ UNCHANGED <<list, blockno, valid, refcnt, holder, bdata, disk, pins, cur,
                 cachePanicked>>

Cached(k) == {b \in Bufs : blockno[b] = k}

bget_cached(p) ==
  /\ CacheAt(p, "bget")
  /\ \E b \in Cached(want[p]) :
       /\ refcnt' = [refcnt EXCEPT ![b] = @ + 1]
       /\ cur' = [cur EXCEPT ![p] = b]
  /\ CacheGoto(p, "lock")
  /\ UNCHANGED <<list, blockno, valid, holder, bdata, disk, pins, want,
                 cachePanicked>>

\* The buffers that bget may recycle.
Unused(b) == refcnt[b] = 0

\* The least recently used of them: the last one on the list.
Victim(b) ==
  \E i \in DOMAIN list : /\ list[i] = b /\ Unused(b)
                         /\ \A j \in DOMAIN list : j > i => ~Unused(list[j])

ForgetValid(b) == valid

\* b->valid = 0 of a recycled buffer.
Invalidate(b) == [valid EXCEPT ![b] = FALSE]

bget_recycle(p) ==
  /\ CacheAt(p, "bget")
  /\ Cached(want[p]) = {}
  /\ \E b \in Bufs :
       /\ Victim(b)
       /\ blockno' = [blockno EXCEPT ![b] = want[p]]
       /\ valid' = Invalidate(b)
       /\ refcnt' = [refcnt EXCEPT ![b] = 1]
       /\ cur' = [cur EXCEPT ![p] = b]
  /\ CacheGoto(p, "lock")
  /\ UNCHANGED <<list, holder, bdata, disk, pins, want, cachePanicked>>

\* panic("bget: no buffers")
bget_panic(p) ==
  /\ CacheAt(p, "bget")
  /\ Cached(want[p]) = {}
  /\ \A b \in Bufs : ~Unused(b)
  /\ cachePanicked' = TRUE
  /\ UNCHANGED <<list, blockno, valid, refcnt, holder, bdata, disk, pins, bpc,
                 want,
                 cur>>

\* The loop condition lk->locked.
Locked(b) == holder[b] # Nothing

\* acquiresleep, and the test of b->valid that follows it.
acquiresleep(p) ==
  /\ CacheAt(p, "lock")
  /\ IF Locked(cur[p])
     THEN CacheGoto(p, "sleep") /\ UNCHANGED holder
     ELSE /\ holder' = [holder EXCEPT ![cur[p]] = p]
          /\ CacheGoto(p, IF valid[cur[p]] THEN "hold" ELSE "read")
  /\ UNCHANGED <<list, blockno, valid, refcnt, bdata, disk, pins, want, cur,
                 cachePanicked>>

\* virtio_disk_rw(b, 0)
ReadBlock(p) ==
  /\ CacheAt(p, "read")
  /\ bdata' = [bdata EXCEPT ![cur[p]] = disk[blockno[cur[p]]]]
  /\ valid' = [valid EXCEPT ![cur[p]] = TRUE]
  /\ CacheGoto(p, "hold")
  /\ UNCHANGED <<list, blockno, refcnt, holder, disk, pins, want, cur,
                 cachePanicked>>

-----------------------------------------------------------------------------
(* The user of a locked buffer                                             *)

Modify(p, d) ==
  /\ CacheAt(p, "hold")
  /\ bdata' = [bdata EXCEPT ![cur[p]] = d]
  /\ CacheGoto(p, "dirty")
  /\ UNCHANGED <<list, blockno, valid, refcnt, holder, disk, pins, want, cur,
                 cachePanicked>>

bwrite(p) ==
  /\ CacheAt(p, "dirty") \/ CacheAt(p, "hold")
  /\ disk' = [disk EXCEPT ![blockno[cur[p]]] = bdata[cur[p]]]
  /\ CacheGoto(p, "hold")
  /\ UNCHANGED <<list, blockno, valid, refcnt, holder, bdata, pins, want, cur,
                 cachePanicked>>

\* log_write: the log pins a block once, until it has been installed.
bpin(p) ==
  /\ CacheAt(p, "dirty")
  /\ pins' = pins \cup {want[p]}
  /\ refcnt' = IF want[p] \in pins THEN refcnt
               ELSE [refcnt EXCEPT ![cur[p]] = @ + 1]
  /\ CacheGoto(p, "hold")
  /\ UNCHANGED <<list, blockno, valid, holder, bdata, disk, want, cur, cachePanicked>>

bunpin(p) ==
  /\ CacheAt(p, "hold")
  /\ want[p] \in pins
  /\ disk[want[p]] = bdata[cur[p]]
  /\ pins' = pins \ {want[p]}
  /\ refcnt' = [refcnt EXCEPT ![cur[p]] = @ - 1]
  /\ UNCHANGED <<list, blockno, valid, holder, bdata, disk, bpc, want, cur,
                 cachePanicked>>

-----------------------------------------------------------------------------
(* brelse                                                                  *)

NoWakeup(b) == bpc

\* wakeup(lk) makes the processes that sleep for b look again.
Wakeup(b) ==
  [q \in CacheProcs |-> IF bpc[q] = "sleep" /\ cur[q] = b THEN "lock" ELSE bpc[q]]

releasesleep(p) ==
  /\ CacheAt(p, "hold")
  /\ holder' = [holder EXCEPT ![cur[p]] = Nothing]
  /\ bpc' = [Wakeup(cur[p]) EXCEPT ![p] = "release"]
  /\ UNCHANGED <<list, blockno, valid, refcnt, bdata, disk, pins, want, cur,
                 cachePanicked>>

Position(b) == CHOOSE i \in DOMAIN list : list[i] = b

\* An unused buffer goes to the front of the list; those before it move back.
MoveToFront(b) ==
  [i \in DOMAIN list |-> IF i = 1 THEN b
                         ELSE IF i <= Position(b) THEN list[i - 1] ELSE list[i]]

brelse(p) ==
  /\ CacheAt(p, "release")
  /\ refcnt' = [refcnt EXCEPT ![cur[p]] = @ - 1]
  /\ list' = IF refcnt[cur[p]] = 1 THEN MoveToFront(cur[p]) ELSE list
  /\ CacheGoto(p, "user")
  /\ want' = [want EXCEPT ![p] = Nothing]
  /\ cur' = [cur EXCEPT ![p] = Nothing]
  /\ UNCHANGED <<blockno, valid, holder, bdata, disk, pins, cachePanicked>>

\* kill() wakes a process from acquiresleep, which looks again.
CacheKill(p) ==
  /\ CacheAt(p, "sleep")
  /\ CacheGoto(p, "lock")
  /\ UNCHANGED <<list, blockno, valid, refcnt, holder, bdata, disk, pins, want,
                 cur,
                 cachePanicked>>

\* panic() stops every CPU.
CacheHalted == cachePanicked /\ UNCHANGED cachevars

-----------------------------------------------------------------------------
Step(p) == \/ bget_cached(p) \/ bget_recycle(p) \/ bget_panic(p)
           \/ acquiresleep(p) \/ ReadBlock(p)
           \/ bwrite(p) \/ bpin(p) \/ bunpin(p)
           \/ releasesleep(p) \/ brelse(p)

CacheNext == \/ \E p \in CacheProcs : Step(p) \/ CacheKill(p)
             \/ \E p \in CacheProcs, k \in CacheBlocks : bread(p, k)
             \/ \E p \in CacheProcs, d \in BlockData : Modify(p, d)
             \/ CacheHalted

CacheSpec == CacheInit /\ [][CacheNext]_cachevars

-----------------------------------------------------------------------------
(* Properties                                                              *)

\* The contents of block k: those of its buffer once they are valid.
CacheContents(k) ==
  IF \E b \in Cached(k) : valid[b]
  THEN bdata[CHOOSE b \in Cached(k) : valid[b]]
  ELSE disk[k]

Users(k) == {p \in CacheProcs : want[p] = k /\ bpc[p] \in {"read", "hold", "dirty"}}

BK == INSTANCE BlockStore WITH Blocks <- CacheBlocks, Data <- BlockData, Procs <- CacheProcs,
                               content <- [k \in CacheBlocks |-> CacheContents(k)],
                               users <- [k \in CacheBlocks |-> Users(k)]

\* The cache implements BlockStore: whatever is recycled, pinned or written
\* back meanwhile, "only one process at a time can use a buffer" and it finds
\* what the last one left.
OneCopyOfEachBlock == BK!BKSpec

\* Every reference is accounted for, so that no buffer is recycled under a
\* process that has it or waits for it, and none is lost for ever.
RefcntExact ==
  \A b \in Bufs :
    refcnt[b] = Cardinality({p \in CacheProcs : cur[p] = b})
                + (IF blockno[b] \in pins THEN 1 ELSE 0)

\* A process asleep in acquiresleep has somebody to wake it: the lock is held.
SleeperHasHolder == \A p \in CacheProcs : bpc[p] = "sleep" => holder[cur[p]] # Nothing

\* No buffer falls off the list, where bget could not find it any more.
OnList == \A b \in Bufs : \E i \in DOMAIN list : list[i] = b

\* The invariant of the cache: every buffer stays on the list, references
\* are exact, and no sleeper is forgotten.
CacheInv == CacheTypeOK /\ OnList /\ RefcntExact /\ SleeperHasHolder
=============================================================================
