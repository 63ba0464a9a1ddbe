----------------------------- MODULE DiskProofs -----------------------------
(***************************************************************************)
(* Proofs about the buffer cache (Bcache) and the disk driver (VirtioDisk) *)
(* under it, for any number of processes, buffers, blocks and descriptors  *)
(* and any width of the ring indices that the descriptors divide.          *)
(***************************************************************************)
EXTENDS Bcache, VirtioDisk, ModArith, FiniteSetTheorems, TLAPS

-----------------------------------------------------------------------------
(* kernel/bio.c                                                            *)

InUse == {"read", "hold", "dirty"}

RefsOf(b) == {p \in CacheProcs : cur[p] = b}

PinOf(b) == IF blockno[b] \in pins THEN 1 ELSE 0

\* A block is in one buffer at most.
OneBufferInv ==
  \A b, c \in Bufs : blockno[b] = blockno[c] /\ blockno[b] # Nothing => b = c

\* What a process knows of the buffer bget gave it.
PlaceInv ==
  \A p \in CacheProcs :
    /\ want[p] = Nothing <=> bpc[p] = "user"
    /\ cur[p] = Nothing <=> bpc[p] \in {"user", "bget"}
    /\ cur[p] # Nothing => blockno[cur[p]] = want[p]
    /\ bpc[p] \in {"hold", "dirty"} => valid[cur[p]]
    /\ bpc[p] = "read" => ~valid[cur[p]]

\* The sleep-lock of a buffer is held by the process that uses it.
BufLockInv ==
  /\ \A p \in CacheProcs : bpc[p] \in InUse => holder[cur[p]] = p
  /\ \A b \in Bufs : holder[b] # Nothing => cur[holder[b]] = b /\ bpc[holder[b]] \in InUse

\* A pinned block is in the cache.
PinInv == \A k \in pins : \E b \in Bufs : blockno[b] = k

\* A buffer that differs from the disk is pinned or about to be.
DirtyInv ==
  \A b \in Bufs :
    blockno[b] # Nothing /\ valid[b] /\ bdata[b] # disk[blockno[b]]
      => blockno[b] \in pins \/ \E p \in CacheProcs : cur[p] = b /\ bpc[p] = "dirty"

CacheIInv ==
  /\ OnList /\ RefcntExact /\ SleeperHasHolder
  /\ OneBufferInv /\ PlaceInv /\ BufLockInv /\ PinInv /\ DirtyInv

-----------------------------------------------------------------------------
(* Types, list and locks                                                   *)

LEMMA RefsFinite ==
  \A b \in Bufs : IsFiniteSet(RefsOf(b)) /\ Cardinality(RefsOf(b)) \in 0..Cardinality(CacheProcs)
  <1>1. \A b \in Bufs : RefsOf(b) \subseteq CacheProcs
    BY DEF RefsOf
  <1>2. \A b \in Bufs : IsFiniteSet(RefsOf(b)) /\ Cardinality(RefsOf(b)) <= Cardinality(CacheProcs)
    BY <1>1, FS_Subset, BcacheAssumption DEF BcacheAssumption
  <1> QED BY <1>2, FS_CardinalityType, BcacheAssumption DEF BcacheAssumption

\* Nobody has, waits for or has pinned a buffer that bget may recycle.
LEMMA UnusedIsFree ==
  ASSUME RefcntExact, NEW b \in Bufs, Unused(b)
  PROVE  blockno[b] \notin pins /\ \A p \in CacheProcs : cur[p] # b
  <1>1. Cardinality(RefsOf(b)) + PinOf(b) = 0
    BY DEF RefcntExact, Unused, RefsOf, PinOf
  <1>2. Cardinality(RefsOf(b)) \in Nat /\ PinOf(b) \in {0, 1}
    BY RefsFinite DEF PinOf
  <1>3. Cardinality(RefsOf(b)) = 0 /\ PinOf(b) = 0
    BY <1>1, <1>2
  <1>4. RefsOf(b) = {}
    BY <1>3, RefsFinite, FS_EmptySet
  <1> QED BY <1>3, <1>4 DEF RefsOf, PinOf

\* A process keeps the buffer of the block it asked for.
LEMMA StepPlace ==
  ASSUME CacheTypeOK, OneBufferInv, PlaceInv, BufLockInv, RefcntExact, [CacheNext]_cachevars
  PROVE  PlaceInv'
  <1> USE BcacheAssumption DEF BcacheAssumption, CacheAt, CacheGoto
  <1>1. ASSUME NEW p \in CacheProcs, NEW k \in CacheBlocks, bread(p, k)
        PROVE  PlaceInv'
    BY <1>1 DEF bread, CacheTypeOK, PlaceInv, BufLockInv, InUse, Cached, Invalidate, Locked
  <1>2. ASSUME NEW p \in CacheProcs, bget_cached(p)
        PROVE  PlaceInv'
    BY <1>2 DEF bget_cached, CacheTypeOK, PlaceInv, BufLockInv, InUse, Cached, Invalidate,
           Locked
  <1>3. ASSUME NEW p \in CacheProcs, bget_recycle(p)
        PROVE  PlaceInv'
    <2>1. PICK b \in Bufs :
            /\ Unused(b)
            /\ blockno' = [blockno EXCEPT ![b] = want[p]]
            /\ valid' = Invalidate(b)
            /\ cur' = [cur EXCEPT ![p] = b]
      BY <1>3 DEF bget_recycle, Victim
    <2>2. blockno[b] \notin pins /\ \A q \in CacheProcs : cur[q] # b
      BY <2>1, UnusedIsFree
    <2> QED BY <1>3, <2>1, <2>2 DEF bget_recycle, CacheTypeOK, PlaceInv, Invalidate
  <1>4. ASSUME NEW p \in CacheProcs, bget_panic(p)
        PROVE  PlaceInv'
    BY <1>4 DEF bget_panic, CacheTypeOK, PlaceInv, BufLockInv, InUse, Cached, Invalidate,
           Locked
  <1>5. ASSUME NEW p \in CacheProcs, acquiresleep(p)
        PROVE  PlaceInv'
    BY <1>5 DEF acquiresleep, CacheTypeOK, PlaceInv, BufLockInv, InUse, Cached, Invalidate,
           Locked
  <1>6. ASSUME NEW p \in CacheProcs, ReadBlock(p)
        PROVE  PlaceInv'
    BY <1>6 DEF ReadBlock, CacheTypeOK, PlaceInv, BufLockInv, InUse, Cached, Invalidate,
           Locked
  <1>7. ASSUME NEW p \in CacheProcs, NEW d \in BlockData, Modify(p, d)
        PROVE  PlaceInv'
    BY <1>7 DEF Modify, CacheTypeOK, PlaceInv, BufLockInv, InUse, Cached, Invalidate,
           Locked
  <1>8. ASSUME NEW p \in CacheProcs, bwrite(p)
        PROVE  PlaceInv'
    BY <1>8 DEF bwrite, CacheTypeOK, PlaceInv, BufLockInv, InUse, Cached, Invalidate,
           Locked
  <1>9. ASSUME NEW p \in CacheProcs, bpin(p)
        PROVE  PlaceInv'
    BY <1>9 DEF bpin, CacheTypeOK, PlaceInv, BufLockInv, InUse, Cached, Invalidate, Locked
  <1>10. ASSUME NEW p \in CacheProcs, bunpin(p)
        PROVE  PlaceInv'
    BY <1>10 DEF bunpin, CacheTypeOK, PlaceInv, BufLockInv, InUse, Cached, Invalidate,
           Locked
  <1>11. ASSUME NEW p \in CacheProcs, releasesleep(p)
        PROVE  PlaceInv'
    BY <1>11 DEF releasesleep, Wakeup, CacheTypeOK, PlaceInv, BufLockInv, InUse, Cached,
           Invalidate, Locked
  <1>12. ASSUME NEW p \in CacheProcs, brelse(p)
        PROVE  PlaceInv'
    BY <1>12 DEF brelse, CacheTypeOK, PlaceInv, BufLockInv, InUse, Cached, Invalidate,
           Locked
  <1>13. ASSUME NEW p \in CacheProcs, CacheKill(p)
        PROVE  PlaceInv'
    BY <1>13 DEF CacheKill, CacheTypeOK, PlaceInv, BufLockInv, InUse, Cached, Invalidate,
           Locked
  <1>14. CASE UNCHANGED cachevars
    BY <1>14 DEF cachevars, CacheTypeOK, PlaceInv, BufLockInv, InUse, Cached, Invalidate,
           Locked
  <1> QED BY <1>1, <1>2, <1>3, <1>4, <1>5, <1>6, <1>7, <1>8, <1>9, <1>10, <1>11, <1>12,
         <1>13, <1>14
          DEF CacheNext, Step, CacheHalted

\* One process at a time uses a buffer.
LEMMA StepBufLock ==
  ASSUME CacheTypeOK, PlaceInv, BufLockInv, [CacheNext]_cachevars
  PROVE  BufLockInv'
  <1> USE BcacheAssumption DEF BcacheAssumption, CacheAt, CacheGoto
  <1>1. ASSUME NEW p \in CacheProcs, NEW k \in CacheBlocks, bread(p, k)
        PROVE  BufLockInv'
    BY <1>1 DEF bread, CacheTypeOK, PlaceInv, BufLockInv, InUse, Locked
  <1>2. ASSUME NEW p \in CacheProcs, bget_cached(p)
        PROVE  BufLockInv'
    BY <1>2 DEF bget_cached, CacheTypeOK, PlaceInv, BufLockInv, InUse, Locked
  <1>3. ASSUME NEW p \in CacheProcs, bget_recycle(p)
        PROVE  BufLockInv'
    BY <1>3 DEF bget_recycle, CacheTypeOK, PlaceInv, BufLockInv, InUse, Locked
  <1>4. ASSUME NEW p \in CacheProcs, bget_panic(p)
        PROVE  BufLockInv'
    BY <1>4 DEF bget_panic, CacheTypeOK, PlaceInv, BufLockInv, InUse, Locked
  <1>5. ASSUME NEW p \in CacheProcs, acquiresleep(p)
        PROVE  BufLockInv'
    <2>1. CASE Locked(cur[p])
      <3>1. bpc' = [bpc EXCEPT ![p] = "sleep"] /\ UNCHANGED <<holder, cur>>
        BY <1>5, <2>1 DEF acquiresleep
      <3> QED BY <1>5, <2>1, <3>1 DEF acquiresleep, CacheTypeOK, BufLockInv, InUse, Locked
    <2>2. CASE ~Locked(cur[p])
      <3>1. PICK place \in {"hold", "read"} : bpc' = [bpc EXCEPT ![p] = place]
        BY <1>5, <2>2 DEF acquiresleep
      <3>2. holder' = [holder EXCEPT ![cur[p]] = p] /\ cur' = cur /\ bpc[p] = "lock"
        BY <1>5, <2>2 DEF acquiresleep
      <3>3. cur[p] \in Bufs
        BY <3>2 DEF CacheTypeOK, PlaceInv
      <3> QED BY <2>2, <3>1, <3>2, <3>3 DEF CacheTypeOK, BufLockInv, InUse, Locked
    <2> QED BY <2>1, <2>2
  <1>6. ASSUME NEW p \in CacheProcs, ReadBlock(p)
        PROVE  BufLockInv'
    BY <1>6 DEF ReadBlock, CacheTypeOK, PlaceInv, BufLockInv, InUse, Locked
  <1>7. ASSUME NEW p \in CacheProcs, NEW d \in BlockData, Modify(p, d)
        PROVE  BufLockInv'
    BY <1>7 DEF Modify, CacheTypeOK, PlaceInv, BufLockInv, InUse, Locked
  <1>8. ASSUME NEW p \in CacheProcs, bwrite(p)
        PROVE  BufLockInv'
    BY <1>8 DEF bwrite, CacheTypeOK, PlaceInv, BufLockInv, InUse, Locked
  <1>9. ASSUME NEW p \in CacheProcs, bpin(p)
        PROVE  BufLockInv'
    BY <1>9 DEF bpin, CacheTypeOK, PlaceInv, BufLockInv, InUse, Locked
  <1>10. ASSUME NEW p \in CacheProcs, bunpin(p)
        PROVE  BufLockInv'
    BY <1>10 DEF bunpin, CacheTypeOK, PlaceInv, BufLockInv, InUse, Locked
  <1>11. ASSUME NEW p \in CacheProcs, releasesleep(p)
        PROVE  BufLockInv'
    BY <1>11 DEF releasesleep, Wakeup, CacheTypeOK, PlaceInv, BufLockInv, InUse, Locked
  <1>12. ASSUME NEW p \in CacheProcs, brelse(p)
        PROVE  BufLockInv'
    BY <1>12 DEF brelse, CacheTypeOK, PlaceInv, BufLockInv, InUse, Locked
  <1>13. ASSUME NEW p \in CacheProcs, CacheKill(p)
        PROVE  BufLockInv'
    BY <1>13 DEF CacheKill, CacheTypeOK, PlaceInv, BufLockInv, InUse, Locked
  <1>14. CASE UNCHANGED cachevars
    BY <1>14 DEF cachevars, CacheTypeOK, PlaceInv, BufLockInv, InUse, Locked
  <1> QED BY <1>1, <1>2, <1>3, <1>4, <1>5, <1>6, <1>7, <1>8, <1>9, <1>10, <1>11, <1>12,
         <1>13, <1>14
          DEF CacheNext, Step, CacheHalted

\* A sleeper has somebody to wake it.
LEMMA StepSleeper ==
  ASSUME CacheTypeOK, PlaceInv, BufLockInv, SleeperHasHolder, [CacheNext]_cachevars
  PROVE  SleeperHasHolder'
  <1> USE BcacheAssumption DEF BcacheAssumption, CacheAt, CacheGoto
  <1>1. ASSUME NEW p \in CacheProcs, NEW k \in CacheBlocks, bread(p, k)
        PROVE  SleeperHasHolder'
    BY <1>1 DEF bread, CacheTypeOK, PlaceInv, BufLockInv, SleeperHasHolder, InUse, Locked
  <1>2. ASSUME NEW p \in CacheProcs, bget_cached(p)
        PROVE  SleeperHasHolder'
    BY <1>2 DEF bget_cached, CacheTypeOK, PlaceInv, BufLockInv, SleeperHasHolder, InUse,
           Locked
  <1>3. ASSUME NEW p \in CacheProcs, bget_recycle(p)
        PROVE  SleeperHasHolder'
    BY <1>3 DEF bget_recycle, CacheTypeOK, PlaceInv, BufLockInv, SleeperHasHolder, InUse,
           Locked
  <1>4. ASSUME NEW p \in CacheProcs, bget_panic(p)
        PROVE  SleeperHasHolder'
    BY <1>4 DEF bget_panic, CacheTypeOK, PlaceInv, BufLockInv, SleeperHasHolder, InUse,
           Locked
  <1>5. ASSUME NEW p \in CacheProcs, acquiresleep(p)
        PROVE  SleeperHasHolder'
    <2>1. CASE Locked(cur[p])
      <3>1. bpc' = [bpc EXCEPT ![p] = "sleep"] /\ UNCHANGED <<holder, cur>>
        BY <1>5, <2>1 DEF acquiresleep
      <3> QED BY <1>5, <2>1, <3>1 DEF CacheTypeOK, PlaceInv, SleeperHasHolder, Locked
    <2>2. CASE ~Locked(cur[p])
      <3>1. PICK place \in {"hold", "read"} : bpc' = [bpc EXCEPT ![p] = place]
        BY <1>5, <2>2 DEF acquiresleep
      <3>2. holder' = [holder EXCEPT ![cur[p]] = p] /\ cur' = cur /\ bpc[p] = "lock"
        BY <1>5, <2>2 DEF acquiresleep
      <3>3. cur[p] \in Bufs
        BY <3>2 DEF CacheTypeOK, PlaceInv
      <3> QED BY <2>2, <3>1, <3>2, <3>3 DEF CacheTypeOK, SleeperHasHolder, Locked
    <2> QED BY <2>1, <2>2
  <1>6. ASSUME NEW p \in CacheProcs, ReadBlock(p)
        PROVE  SleeperHasHolder'
    BY <1>6 DEF ReadBlock, CacheTypeOK, PlaceInv, BufLockInv, SleeperHasHolder, InUse,
           Locked
  <1>7. ASSUME NEW p \in CacheProcs, NEW d \in BlockData, Modify(p, d)
        PROVE  SleeperHasHolder'
    BY <1>7 DEF Modify, CacheTypeOK, PlaceInv, BufLockInv, SleeperHasHolder, InUse, Locked
  <1>8. ASSUME NEW p \in CacheProcs, bwrite(p)
        PROVE  SleeperHasHolder'
    BY <1>8 DEF bwrite, CacheTypeOK, PlaceInv, BufLockInv, SleeperHasHolder, InUse, Locked
  <1>9. ASSUME NEW p \in CacheProcs, bpin(p)
        PROVE  SleeperHasHolder'
    BY <1>9 DEF bpin, CacheTypeOK, PlaceInv, BufLockInv, SleeperHasHolder, InUse, Locked
  <1>10. ASSUME NEW p \in CacheProcs, bunpin(p)
        PROVE  SleeperHasHolder'
    BY <1>10 DEF bunpin, CacheTypeOK, PlaceInv, BufLockInv, SleeperHasHolder, InUse, Locked
  <1>11. ASSUME NEW p \in CacheProcs, releasesleep(p)
        PROVE  SleeperHasHolder'
    BY <1>11 DEF releasesleep, Wakeup, CacheTypeOK, PlaceInv, BufLockInv, SleeperHasHolder,
           InUse, Locked
  <1>12. ASSUME NEW p \in CacheProcs, brelse(p)
        PROVE  SleeperHasHolder'
    BY <1>12 DEF brelse, CacheTypeOK, PlaceInv, BufLockInv, SleeperHasHolder, InUse, Locked
  <1>13. ASSUME NEW p \in CacheProcs, CacheKill(p)
        PROVE  SleeperHasHolder'
    BY <1>13 DEF CacheKill, CacheTypeOK, PlaceInv, BufLockInv, SleeperHasHolder, InUse,
           Locked
  <1>14. CASE UNCHANGED cachevars
    BY <1>14 DEF cachevars, CacheTypeOK, PlaceInv, BufLockInv, SleeperHasHolder, InUse,
           Locked
  <1> QED BY <1>1, <1>2, <1>3, <1>4, <1>5, <1>6, <1>7, <1>8, <1>9, <1>10, <1>11, <1>12,
         <1>13, <1>14
          DEF CacheNext, Step, CacheHalted

\* A block that is in the cache is not read into another buffer.
LEMMA StepOneBuffer ==
  ASSUME CacheTypeOK, OneBufferInv, PlaceInv, [CacheNext]_cachevars
  PROVE  OneBufferInv'
  <1> USE BcacheAssumption DEF BcacheAssumption, CacheAt, CacheGoto
  <1>1. ASSUME NEW p \in CacheProcs, NEW k \in CacheBlocks, bread(p, k)
        PROVE  OneBufferInv'
    BY <1>1 DEF bread, CacheTypeOK, OneBufferInv, PlaceInv, Cached
  <1>2. ASSUME NEW p \in CacheProcs, bget_cached(p)
        PROVE  OneBufferInv'
    BY <1>2 DEF bget_cached, CacheTypeOK, OneBufferInv, PlaceInv, Cached
  <1>3. ASSUME NEW p \in CacheProcs, bget_recycle(p)
        PROVE  OneBufferInv'
    BY <1>3 DEF bget_recycle, CacheTypeOK, OneBufferInv, PlaceInv, Cached
  <1>4. ASSUME NEW p \in CacheProcs, bget_panic(p)
        PROVE  OneBufferInv'
    BY <1>4 DEF bget_panic, CacheTypeOK, OneBufferInv, PlaceInv, Cached
  <1>5. ASSUME NEW p \in CacheProcs, acquiresleep(p)
        PROVE  OneBufferInv'
    BY <1>5 DEF acquiresleep, CacheTypeOK, OneBufferInv, PlaceInv, Cached
  <1>6. ASSUME NEW p \in CacheProcs, ReadBlock(p)
        PROVE  OneBufferInv'
    BY <1>6 DEF ReadBlock, CacheTypeOK, OneBufferInv, PlaceInv, Cached
  <1>7. ASSUME NEW p \in CacheProcs, NEW d \in BlockData, Modify(p, d)
        PROVE  OneBufferInv'
    BY <1>7 DEF Modify, CacheTypeOK, OneBufferInv, PlaceInv, Cached
  <1>8. ASSUME NEW p \in CacheProcs, bwrite(p)
        PROVE  OneBufferInv'
    BY <1>8 DEF bwrite, CacheTypeOK, OneBufferInv, PlaceInv, Cached
  <1>9. ASSUME NEW p \in CacheProcs, bpin(p)
        PROVE  OneBufferInv'
    BY <1>9 DEF bpin, CacheTypeOK, OneBufferInv, PlaceInv, Cached
  <1>10. ASSUME NEW p \in CacheProcs, bunpin(p)
        PROVE  OneBufferInv'
    BY <1>10 DEF bunpin, CacheTypeOK, OneBufferInv, PlaceInv, Cached
  <1>11. ASSUME NEW p \in CacheProcs, releasesleep(p)
        PROVE  OneBufferInv'
    BY <1>11 DEF releasesleep, Wakeup, CacheTypeOK, OneBufferInv, PlaceInv, Cached
  <1>12. ASSUME NEW p \in CacheProcs, brelse(p)
        PROVE  OneBufferInv'
    BY <1>12 DEF brelse, CacheTypeOK, OneBufferInv, PlaceInv, Cached
  <1>13. ASSUME NEW p \in CacheProcs, CacheKill(p)
        PROVE  OneBufferInv'
    BY <1>13 DEF CacheKill, CacheTypeOK, OneBufferInv, PlaceInv, Cached
  <1>14. CASE UNCHANGED cachevars
    BY <1>14 DEF cachevars, CacheTypeOK, OneBufferInv, PlaceInv, Cached
  <1> QED BY <1>1, <1>2, <1>3, <1>4, <1>5, <1>6, <1>7, <1>8, <1>9, <1>10, <1>11, <1>12,
         <1>13, <1>14
          DEF CacheNext, Step, CacheHalted

\* A pinned block stays.
LEMMA StepPin ==
  ASSUME CacheTypeOK, PlaceInv, PinInv, RefcntExact, [CacheNext]_cachevars
  PROVE  PinInv'
  <1> USE BcacheAssumption DEF BcacheAssumption, CacheAt, CacheGoto
  <1>1. ASSUME NEW p \in CacheProcs, NEW k \in CacheBlocks, bread(p, k)
        PROVE  PinInv'
    BY <1>1 DEF bread, CacheTypeOK, PlaceInv, PinInv, Cached
  <1>2. ASSUME NEW p \in CacheProcs, bget_cached(p)
        PROVE  PinInv'
    BY <1>2 DEF bget_cached, CacheTypeOK, PlaceInv, PinInv, Cached
  <1>3. ASSUME NEW p \in CacheProcs, bget_recycle(p)
        PROVE  PinInv'
    <2>1. PICK b \in Bufs :
            /\ Unused(b)
            /\ blockno' = [blockno EXCEPT ![b] = want[p]]
            /\ valid' = Invalidate(b)
            /\ cur' = [cur EXCEPT ![p] = b]
      BY <1>3 DEF bget_recycle, Victim
    <2>2. blockno[b] \notin pins /\ \A q \in CacheProcs : cur[q] # b
      BY <2>1, UnusedIsFree
    <2> QED BY <1>3, <2>1, <2>2 DEF bget_recycle, CacheTypeOK, PinInv
  <1>4. ASSUME NEW p \in CacheProcs, bget_panic(p)
        PROVE  PinInv'
    BY <1>4 DEF bget_panic, CacheTypeOK, PlaceInv, PinInv, Cached
  <1>5. ASSUME NEW p \in CacheProcs, acquiresleep(p)
        PROVE  PinInv'
    BY <1>5 DEF acquiresleep, CacheTypeOK, PlaceInv, PinInv, Cached
  <1>6. ASSUME NEW p \in CacheProcs, ReadBlock(p)
        PROVE  PinInv'
    BY <1>6 DEF ReadBlock, CacheTypeOK, PlaceInv, PinInv, Cached
  <1>7. ASSUME NEW p \in CacheProcs, NEW d \in BlockData, Modify(p, d)
        PROVE  PinInv'
    BY <1>7 DEF Modify, CacheTypeOK, PlaceInv, PinInv, Cached
  <1>8. ASSUME NEW p \in CacheProcs, bwrite(p)
        PROVE  PinInv'
    BY <1>8 DEF bwrite, CacheTypeOK, PlaceInv, PinInv, Cached
  <1>9. ASSUME NEW p \in CacheProcs, bpin(p)
        PROVE  PinInv'
    BY <1>9 DEF bpin, CacheTypeOK, PlaceInv, PinInv, Cached
  <1>10. ASSUME NEW p \in CacheProcs, bunpin(p)
        PROVE  PinInv'
    BY <1>10 DEF bunpin, CacheTypeOK, PlaceInv, PinInv, Cached
  <1>11. ASSUME NEW p \in CacheProcs, releasesleep(p)
        PROVE  PinInv'
    BY <1>11 DEF releasesleep, Wakeup, CacheTypeOK, PlaceInv, PinInv, Cached
  <1>12. ASSUME NEW p \in CacheProcs, brelse(p)
        PROVE  PinInv'
    BY <1>12 DEF brelse, CacheTypeOK, PlaceInv, PinInv, Cached
  <1>13. ASSUME NEW p \in CacheProcs, CacheKill(p)
        PROVE  PinInv'
    BY <1>13 DEF CacheKill, CacheTypeOK, PlaceInv, PinInv, Cached
  <1>14. CASE UNCHANGED cachevars
    BY <1>14 DEF cachevars, CacheTypeOK, PlaceInv, PinInv, Cached
  <1> QED BY <1>1, <1>2, <1>3, <1>4, <1>5, <1>6, <1>7, <1>8, <1>9, <1>10, <1>11, <1>12,
         <1>13, <1>14
          DEF CacheNext, Step, CacheHalted

\* No change is forgotten.
LEMMA StepDirty ==
  ASSUME CacheTypeOK, OneBufferInv, PlaceInv, BufLockInv, DirtyInv, [CacheNext]_cachevars
  PROVE  DirtyInv'
  <1> USE BcacheAssumption DEF BcacheAssumption, CacheAt, CacheGoto
  <1>1. ASSUME NEW p \in CacheProcs, NEW k \in CacheBlocks, bread(p, k)
        PROVE  DirtyInv'
    BY <1>1 DEF bread, CacheTypeOK, OneBufferInv, PlaceInv, BufLockInv, DirtyInv, InUse,
           Invalidate
  <1>2. ASSUME NEW p \in CacheProcs, bget_cached(p)
        PROVE  DirtyInv'
    BY <1>2 DEF bget_cached, CacheTypeOK, OneBufferInv, PlaceInv, BufLockInv, DirtyInv,
           InUse, Invalidate
  <1>3. ASSUME NEW p \in CacheProcs, bget_recycle(p)
        PROVE  DirtyInv'
    BY <1>3 DEF bget_recycle, CacheTypeOK, OneBufferInv, PlaceInv, BufLockInv, DirtyInv,
           InUse, Invalidate
  <1>4. ASSUME NEW p \in CacheProcs, bget_panic(p)
        PROVE  DirtyInv'
    BY <1>4 DEF bget_panic, CacheTypeOK, OneBufferInv, PlaceInv, BufLockInv, DirtyInv,
           InUse, Invalidate
  <1>5. ASSUME NEW p \in CacheProcs, acquiresleep(p)
        PROVE  DirtyInv'
    BY <1>5 DEF acquiresleep, CacheTypeOK, OneBufferInv, PlaceInv, BufLockInv, DirtyInv,
           InUse, Invalidate
  <1>6. ASSUME NEW p \in CacheProcs, ReadBlock(p)
        PROVE  DirtyInv'
    BY <1>6 DEF ReadBlock, CacheTypeOK, OneBufferInv, PlaceInv, BufLockInv, DirtyInv,
           InUse, Invalidate
  <1>7. ASSUME NEW p \in CacheProcs, NEW d \in BlockData, Modify(p, d)
        PROVE  DirtyInv'
    BY <1>7 DEF Modify, CacheTypeOK, OneBufferInv, PlaceInv, BufLockInv, DirtyInv, InUse,
           Invalidate
  <1>8. ASSUME NEW p \in CacheProcs, bwrite(p)
        PROVE  DirtyInv'
    <2> SUFFICES ASSUME NEW b \in Bufs, blockno[b] # Nothing, valid[b],
                        bdata[b] # disk'[blockno[b]]
                 PROVE  blockno[b] \in pins \/ \E q \in CacheProcs : cur[q] = b /\ bpc'[q] = "dirty"
      BY <1>8 DEF bwrite, DirtyInv
    <2>1. cur[p] \in Bufs /\ blockno[cur[p]] \in CacheBlocks
      BY <1>8 DEF bwrite, CacheTypeOK, PlaceInv
    <2>2. b # cur[p]
      BY <1>8, <2>1 DEF bwrite, CacheTypeOK
    <2>3. blockno[b] # blockno[cur[p]]
      BY <2>1, <2>2 DEF OneBufferInv
    <2>4. bdata[b] # disk[blockno[b]]
      BY <1>8, <2>1, <2>3 DEF bwrite, CacheTypeOK
    <2> QED BY <1>8, <2>2, <2>4 DEF bwrite, DirtyInv, CacheTypeOK
  <1>9. ASSUME NEW p \in CacheProcs, bpin(p)
        PROVE  DirtyInv'
    BY <1>9 DEF bpin, CacheTypeOK, OneBufferInv, PlaceInv, BufLockInv, DirtyInv, InUse,
           Invalidate
  <1>10. ASSUME NEW p \in CacheProcs, bunpin(p)
        PROVE  DirtyInv'
    BY <1>10 DEF bunpin, CacheTypeOK, OneBufferInv, PlaceInv, BufLockInv, DirtyInv, InUse,
           Invalidate
  <1>11. ASSUME NEW p \in CacheProcs, releasesleep(p)
        PROVE  DirtyInv'
    BY <1>11 DEF releasesleep, Wakeup, CacheTypeOK, OneBufferInv, PlaceInv, BufLockInv,
           DirtyInv, InUse, Invalidate
  <1>12. ASSUME NEW p \in CacheProcs, brelse(p)
        PROVE  DirtyInv'
    BY <1>12 DEF brelse, CacheTypeOK, OneBufferInv, PlaceInv, BufLockInv, DirtyInv, InUse,
           Invalidate
  <1>13. ASSUME NEW p \in CacheProcs, CacheKill(p)
        PROVE  DirtyInv'
    BY <1>13 DEF CacheKill, CacheTypeOK, OneBufferInv, PlaceInv, BufLockInv, DirtyInv,
           InUse, Invalidate
  <1>14. CASE UNCHANGED cachevars
    BY <1>14 DEF cachevars, CacheTypeOK, OneBufferInv, PlaceInv, BufLockInv, DirtyInv,
           InUse, Invalidate
  <1> QED BY <1>1, <1>2, <1>3, <1>4, <1>5, <1>6, <1>7, <1>8, <1>9, <1>10, <1>11, <1>12,
         <1>13, <1>14
          DEF CacheNext, Step, CacheHalted

-----------------------------------------------------------------------------
(* Reference counts                                                        *)

LEMMA RefcntIs ==
  /\ RefcntExact <=> \A b \in Bufs : refcnt[b] = Cardinality(RefsOf(b)) + PinOf(b)
  /\ RefcntExact' <=> \A b \in Bufs : refcnt'[b] = Cardinality(RefsOf(b)') + PinOf(b)'
  BY DEF RefcntExact, RefsOf, PinOf

\* Every reference is counted: taken by bget, dropped by brelse, and one more
\* while the log has the block pinned.
LEMMA StepRefcnt ==
  ASSUME CacheTypeOK, RefcntExact, OneBufferInv, PlaceInv, PinInv, [CacheNext]_cachevars
  PROVE  RefcntExact'
  <1> USE BcacheAssumption DEF BcacheAssumption, CacheAt, CacheGoto
  <1>1. CASE UNCHANGED <<refcnt, cur, blockno, pins>>
    BY <1>1 DEF RefcntExact
  <1>2. ASSUME NEW p \in CacheProcs, bget_cached(p)
        PROVE  RefcntExact'
    <2>1. PICK b \in Bufs : /\ refcnt' = [refcnt EXCEPT ![b] = @ + 1]
                            /\ cur' = [cur EXCEPT ![p] = b]
      BY <1>2 DEF bget_cached, Cached
    <2>2. cur[p] = Nothing /\ UNCHANGED <<blockno, pins>>
      BY <1>2 DEF bget_cached, PlaceInv
    <2>3. RefsOf(b)' = RefsOf(b) \cup {p} /\ p \notin RefsOf(b)
      BY <2>1, <2>2 DEF RefsOf, CacheTypeOK
    <2>4. Cardinality(RefsOf(b)') = Cardinality(RefsOf(b)) + 1
      BY <2>3, RefsFinite, FS_AddElement
    <2>5. \A c \in Bufs : PinOf(c)' = PinOf(c) /\ PinOf(c) \in {0, 1}
      BY <2>2 DEF PinOf
    <2>6. \A c \in Bufs \ {b} : RefsOf(c)' = RefsOf(c)
      BY <2>1, <2>2 DEF RefsOf, CacheTypeOK
    <2>7. refcnt'[b] = Cardinality(RefsOf(b)') + PinOf(b)'
      <3>1. refcnt'[b] = refcnt[b] + 1
        BY <2>1 DEF CacheTypeOK
      <3>2. refcnt[b] = Cardinality(RefsOf(b)) + PinOf(b)
        BY RefcntIs
      <3>3. Cardinality(RefsOf(b)) \in Nat
        BY RefsFinite
      <3> QED BY <2>4, <2>5, <3>1, <3>2, <3>3
    <2>8. \A c \in Bufs \ {b} : refcnt'[c] = Cardinality(RefsOf(c)') + PinOf(c)'
      BY <2>1, <2>5, <2>6, RefcntIs DEF CacheTypeOK
    <2> QED BY <2>7, <2>8, RefcntIs
  <1>3. ASSUME NEW p \in CacheProcs, bget_recycle(p)
        PROVE  RefcntExact'
    <2>1. PICK b \in Bufs : /\ Unused(b)
                            /\ blockno' = [blockno EXCEPT ![b] = want[p]]
                            /\ refcnt' = [refcnt EXCEPT ![b] = 1]
                            /\ cur' = [cur EXCEPT ![p] = b]
      BY <1>3 DEF bget_recycle, Victim
    <2>2. cur[p] = Nothing /\ pins' = pins /\ want[p] \notin pins
      BY <1>3 DEF bget_recycle, PlaceInv, PinInv, Cached
    <2>3. RefsOf(b)' = {p}
      BY <2>1, <2>2, UnusedIsFree DEF RefsOf, CacheTypeOK
    <2>4. PinOf(b)' = 0
      BY <2>1, <2>2 DEF PinOf, CacheTypeOK
    <2>5. \A c \in Bufs \ {b} : RefsOf(c)' = RefsOf(c) /\ PinOf(c)' = PinOf(c)
      BY <2>1, <2>2 DEF RefsOf, PinOf, CacheTypeOK
    <2>6. refcnt'[b] = Cardinality(RefsOf(b)') + PinOf(b)'
      <3>1. refcnt'[b] = 1
        BY <2>1 DEF CacheTypeOK
      <3>2. Cardinality(RefsOf(b)') = 1
        BY <2>3, FS_Singleton
      <3> QED BY <2>4, <3>1, <3>2
    <2>7. \A c \in Bufs \ {b} : refcnt'[c] = Cardinality(RefsOf(c)') + PinOf(c)'
      BY <2>1, <2>5, RefcntIs DEF CacheTypeOK
    <2> QED BY <2>6, <2>7, RefcntIs
  <1>4. ASSUME NEW p \in CacheProcs, bpin(p) \/ bunpin(p)
        PROVE  RefcntExact'
    <2>0. PICK b \in Bufs : b = cur[p]
      BY <1>4 DEF bpin, bunpin, PlaceInv, CacheTypeOK
    <2>1. b = cur[p] /\ blockno[b] = want[p] /\ want[p] # Nothing /\ UNCHANGED <<cur, blockno>>
      BY <1>4, <2>0 DEF bpin, bunpin, PlaceInv
    <2>2. \A c \in Bufs : RefsOf(c)' = RefsOf(c)
      BY <2>1 DEF RefsOf
    <2>3. \A c \in Bufs \ {b} : blockno[c] # want[p]
      BY <2>1 DEF OneBufferInv
    <2>4. \/ pins' = pins \cup {want[p]} \/ pins' = pins \ {want[p]}
      BY <1>4 DEF bpin, bunpin
    <2>5. \A c \in Bufs \ {b} : PinOf(c)' = PinOf(c)
      BY <2>1, <2>3, <2>4 DEF PinOf
    <2>6. refcnt'[b] - refcnt[b] = PinOf(b)' - PinOf(b)
      <3>1. CASE bpin(p)
        BY <3>1, <2>1 DEF bpin, PinOf, CacheTypeOK
      <3>2. CASE bunpin(p)
        BY <3>2, <2>1 DEF bunpin, PinOf, CacheTypeOK
      <3> QED BY <1>4, <3>1, <3>2
    <2>7. \A c \in Bufs \ {b} : refcnt'[c] = refcnt[c]
      BY <1>4, <2>1 DEF bpin, bunpin, CacheTypeOK
    <2>8. PinOf(b) \in {0, 1} /\ PinOf(b)' \in {0, 1} /\ Cardinality(RefsOf(b)) \in Nat
      BY <2>1, RefsFinite DEF PinOf
    <2>9. refcnt[b] = Cardinality(RefsOf(b)) + PinOf(b) /\ refcnt'[b] \in Int
      <3>1. refcnt[b] = Cardinality(RefsOf(b)) + PinOf(b)
        BY <2>1, RefcntIs
      <3>2. refcnt'[b] \in Int
        BY <1>4, <2>1 DEF bpin, bunpin, CacheTypeOK
      <3> QED BY <3>1, <3>2
    <2>10. refcnt'[b] = Cardinality(RefsOf(b)) + PinOf(b)'
      BY <2>6, <2>8, <2>9
    <2>11. \A c \in Bufs \ {b} : refcnt'[c] = Cardinality(RefsOf(c)') + PinOf(c)'
      BY <2>2, <2>5, <2>7, RefcntIs
    <2> QED BY <2>2, <2>10, <2>11, RefcntIs
  <1>5. ASSUME NEW p \in CacheProcs, brelse(p)
        PROVE  RefcntExact'
    <2>0. PICK b \in Bufs : b = cur[p]
      BY <1>5 DEF brelse, PlaceInv, CacheTypeOK
    <2>1. b = cur[p] /\ UNCHANGED <<blockno, pins>>
      BY <1>5, <2>0 DEF brelse
    <2>2. cur' = [cur EXCEPT ![p] = Nothing] /\ refcnt' = [refcnt EXCEPT ![b] = @ - 1]
      BY <1>5, <2>1 DEF brelse
    <2>3. RefsOf(b)' = RefsOf(b) \ {p} /\ p \in RefsOf(b)
      BY <2>1, <2>2 DEF RefsOf, CacheTypeOK
    <2>4. Cardinality(RefsOf(b)') = Cardinality(RefsOf(b)) - 1
      BY <2>1, <2>3, RefsFinite, FS_RemoveElement
    <2>5. \A c \in Bufs : PinOf(c)' = PinOf(c) /\ PinOf(c) \in {0, 1}
      BY <2>1 DEF PinOf
    <2>6. \A c \in Bufs \ {b} : RefsOf(c)' = RefsOf(c)
      BY <2>1, <2>2 DEF RefsOf, CacheTypeOK
    <2>7. refcnt'[b] = Cardinality(RefsOf(b)') + PinOf(b)'
      <3>1. refcnt'[b] = refcnt[b] - 1
        BY <2>2 DEF CacheTypeOK
      <3>2. refcnt[b] = Cardinality(RefsOf(b)) + PinOf(b)
        BY RefcntIs
      <3>3. Cardinality(RefsOf(b)) \in Nat
        BY RefsFinite
      <3> QED BY <2>4, <2>5, <3>1, <3>2, <3>3
    <2>8. \A c \in Bufs \ {b} : refcnt'[c] = Cardinality(RefsOf(c)') + PinOf(c)'
      BY <2>1, <2>2, <2>5, <2>6, RefcntIs DEF CacheTypeOK
    <2> QED BY <2>1, <2>7, <2>8, RefcntIs
  <1>6. \/ UNCHANGED <<refcnt, cur, blockno, pins>>
        \/ \E p \in CacheProcs : \/ bget_cached(p) \/ bget_recycle(p)
                                 \/ bpin(p) \/ bunpin(p) \/ brelse(p)
    BY DEF CacheNext, Step, CacheHalted, cachevars, bread, bget_panic, acquiresleep, ReadBlock,
           Modify, bwrite, releasesleep, CacheKill
  <1> QED BY <1>1, <1>2, <1>3, <1>4, <1>5, <1>6

-----------------------------------------------------------------------------
(* The list, and types                                                     *)

\* The list never loses a buffer: b goes to the front, what was before it
\* moves back by one place, and the rest stays.
LEMMA StepList ==
  ASSUME CacheTypeOK, OnList, PlaceInv, [CacheNext]_cachevars
  PROVE  OnList' /\ list' \in [1..Cardinality(Bufs) -> Bufs]
  <1> USE BcacheAssumption DEF BcacheAssumption, CacheAt, CacheGoto
  <1> DEFINE N == Cardinality(Bufs)
  <1>0. N \in Nat
    BY FS_CardinalityType
  <1>1. CASE list' = list
    BY <1>1 DEF OnList, CacheTypeOK
  <1>2. ASSUME NEW b \in Bufs, list' = MoveToFront(b)
        PROVE  OnList' /\ list' \in [1..N -> Bufs]
    <2> DEFINE pos == Position(b)
    <2>1. list \in [1..N -> Bufs]
      BY DEF CacheTypeOK
    <2>2. pos \in 1..N /\ list[pos] = b
      BY <2>1 DEF Position, OnList
    <2> HIDE DEF pos, N
    <2>3. list' = [i \in 1..N |-> IF i = 1 THEN b
                                  ELSE IF i <= pos THEN list[i - 1] ELSE list[i]]
      BY <1>2, <2>1 DEF MoveToFront, pos
    <2>4. \A i \in 1..N : i # 1 => i - 1 \in 1..N
      BY <1>0
    <2>5. list' \in [1..N -> Bufs]
      BY <2>1, <2>3, <2>4
    <2>6. ASSUME NEW c \in Bufs
          PROVE  \E i \in 1..N : list'[i] = c
      <3>1. PICK j \in 1..N : list[j] = c
        BY <2>1 DEF OnList
      <3>2. CASE j = pos
        <4>1. list'[1] = c /\ 1 \in 1..N
          BY <2>2, <2>3, <3>1, <3>2, <1>0
        <4> QED BY <4>1
      <3>3. CASE j < pos
        <4>1. j + 1 \in 1..N /\ j + 1 # 1 /\ j + 1 <= pos /\ (j + 1) - 1 = j
          BY <2>2, <3>3, <1>0
        <4>2. list'[j + 1] = c
          BY <2>3, <3>1, <4>1
        <4> QED BY <4>1, <4>2
      <3>4. CASE j > pos
        <4>1. j # 1 /\ ~(j <= pos)
          BY <2>2, <3>4, <1>0
        <4>2. list'[j] = c
          BY <2>3, <3>1, <4>1
        <4> QED BY <4>2
      <3> QED BY <3>2, <3>3, <3>4, <2>2, <1>0
    <2> QED BY <2>5, <2>6 DEF OnList
  <1>3. ASSUME NEW p \in CacheProcs, brelse(p)
        PROVE  list' = list \/ \E b \in Bufs : list' = MoveToFront(b)
    <2>1. cur[p] \in Bufs
      BY <1>3 DEF brelse, PlaceInv, CacheTypeOK
    <2> QED BY <1>3, <2>1 DEF brelse
  <1>4. list' = list \/ \E p \in CacheProcs : brelse(p)
    BY DEF CacheNext, Step, CacheHalted, cachevars, bread, bget_cached, bget_recycle, bget_panic,
           acquiresleep, ReadBlock, Modify, bwrite, bpin, bunpin, releasesleep, CacheKill
  <1> QED BY <1>1, <1>2, <1>3, <1>4

\* The types of everything but the list, with the bound of the counts left out.
RestType ==
  /\ blockno \in [Bufs -> CacheBlocks \cup {Nothing}]
  /\ valid \in [Bufs -> BOOLEAN]
  /\ refcnt \in [Bufs -> Int]
  /\ holder \in [Bufs -> CacheProcs \cup {Nothing}]
  /\ bdata \in [Bufs -> BlockData]
  /\ disk \in [CacheBlocks -> BlockData]
  /\ pins \subseteq CacheBlocks
  /\ bpc \in [CacheProcs -> CachePCs]
  /\ want \in [CacheProcs -> CacheBlocks \cup {Nothing}]
  /\ cur \in [CacheProcs -> Bufs \cup {Nothing}]
  /\ cachePanicked \in BOOLEAN

\* Every step keeps these types.
LEMMA StepRestType ==
  ASSUME CacheTypeOK, PlaceInv, [CacheNext]_cachevars
  PROVE  RestType'
  <1> USE BcacheAssumption DEF BcacheAssumption, CacheAt, CacheGoto
  <1>1. ASSUME NEW p \in CacheProcs, NEW k \in CacheBlocks, bread(p, k)
        PROVE  RestType'
    BY <1>1 DEF bread, CacheTypeOK, RestType, CachePCs, PlaceInv, Invalidate, Cached
  <1>2. ASSUME NEW p \in CacheProcs, bget_cached(p)
        PROVE  RestType'
    BY <1>2 DEF bget_cached, CacheTypeOK, RestType, CachePCs, PlaceInv, Invalidate, Cached
  <1>3. ASSUME NEW p \in CacheProcs, bget_recycle(p)
        PROVE  RestType'
    BY <1>3 DEF bget_recycle, CacheTypeOK, RestType, CachePCs, PlaceInv, Invalidate, Cached
  <1>4. ASSUME NEW p \in CacheProcs, bget_panic(p)
        PROVE  RestType'
    BY <1>4 DEF bget_panic, CacheTypeOK, RestType, CachePCs, PlaceInv, Invalidate, Cached
  <1>5. ASSUME NEW p \in CacheProcs, acquiresleep(p)
        PROVE  RestType'
    <2>1. PICK place \in {"sleep", "hold", "read"} : bpc' = [bpc EXCEPT ![p] = place]
      BY <1>5 DEF acquiresleep
    <2>2. bpc' \in [CacheProcs -> CachePCs]
      BY <2>1 DEF CacheTypeOK, CachePCs
    <2>3. holder' \in [Bufs -> CacheProcs \cup {Nothing}]
      BY <1>5 DEF acquiresleep, CacheTypeOK
    <2> QED BY <1>5, <2>2, <2>3 DEF acquiresleep, CacheTypeOK, RestType
  <1>6. ASSUME NEW p \in CacheProcs, ReadBlock(p)
        PROVE  RestType'
    <2>1. cur[p] \in Bufs /\ blockno[cur[p]] \in CacheBlocks /\ want[p] \in CacheBlocks
      BY <1>6 DEF ReadBlock, CacheTypeOK, PlaceInv
    <2> QED BY <1>6, <2>1 DEF ReadBlock, CacheTypeOK, RestType, CachePCs
  <1>7. ASSUME NEW p \in CacheProcs, NEW d \in BlockData, Modify(p, d)
        PROVE  RestType'
    <2>1. cur[p] \in Bufs /\ blockno[cur[p]] \in CacheBlocks /\ want[p] \in CacheBlocks
      BY <1>7 DEF Modify, CacheTypeOK, PlaceInv
    <2> QED BY <1>7, <2>1 DEF Modify, CacheTypeOK, RestType, CachePCs
  <1>8. ASSUME NEW p \in CacheProcs, bwrite(p)
        PROVE  RestType'
    <2>1. cur[p] \in Bufs /\ blockno[cur[p]] \in CacheBlocks /\ want[p] \in CacheBlocks
      BY <1>8 DEF bwrite, CacheTypeOK, PlaceInv
    <2> QED BY <1>8, <2>1 DEF bwrite, CacheTypeOK, RestType, CachePCs
  <1>9. ASSUME NEW p \in CacheProcs, bpin(p)
        PROVE  RestType'
    <2>1. cur[p] \in Bufs /\ blockno[cur[p]] \in CacheBlocks /\ want[p] \in CacheBlocks
      BY <1>9 DEF bpin, CacheTypeOK, PlaceInv
    <2>2. refcnt' \in [Bufs -> Int]
      BY <1>9, <2>1 DEF bpin, CacheTypeOK
    <2> QED BY <1>9, <2>1, <2>2 DEF bpin, CacheTypeOK, RestType, CachePCs
  <1>10. ASSUME NEW p \in CacheProcs, bunpin(p)
        PROVE  RestType'
    <2>1. cur[p] \in Bufs /\ blockno[cur[p]] \in CacheBlocks /\ want[p] \in CacheBlocks
      BY <1>10 DEF bunpin, CacheTypeOK, PlaceInv
    <2> QED BY <1>10, <2>1 DEF bunpin, CacheTypeOK, RestType, CachePCs
  <1>11. ASSUME NEW p \in CacheProcs, releasesleep(p)
        PROVE  RestType'
    <2>1. cur[p] \in Bufs /\ blockno[cur[p]] \in CacheBlocks /\ want[p] \in CacheBlocks
      BY <1>11 DEF releasesleep, CacheTypeOK, PlaceInv
    <2> QED BY <1>11, <2>1 DEF releasesleep, Wakeup, CacheTypeOK, RestType, CachePCs
  <1>12. ASSUME NEW p \in CacheProcs, brelse(p)
        PROVE  RestType'
    <2>1. cur[p] \in Bufs /\ blockno[cur[p]] \in CacheBlocks /\ want[p] \in CacheBlocks
      BY <1>12 DEF brelse, CacheTypeOK, PlaceInv
    <2> QED BY <1>12, <2>1 DEF brelse, CacheTypeOK, RestType, CachePCs
  <1>13. ASSUME NEW p \in CacheProcs, CacheKill(p)
        PROVE  RestType'
    BY <1>13 DEF CacheKill, CacheTypeOK, RestType, CachePCs, PlaceInv, Invalidate, Cached
  <1>14. CASE UNCHANGED cachevars
    BY <1>14 DEF cachevars, CacheTypeOK, RestType, CachePCs, PlaceInv, Invalidate, Cached
  <1> QED BY <1>1, <1>2, <1>3, <1>4, <1>5, <1>6, <1>7, <1>8, <1>9, <1>10, <1>11, <1>12,
         <1>13, <1>14
          DEF CacheNext, Step, CacheHalted

\* The counts are bounded because they are exact.
LEMMA StepCacheType ==
  ASSUME CacheTypeOK, OnList, PlaceInv, RefcntExact', [CacheNext]_cachevars
  PROVE  CacheTypeOK'
  <1> USE BcacheAssumption DEF BcacheAssumption
  <1>1. list' \in [1..Cardinality(Bufs) -> Bufs]
    BY StepList
  <1>2. RestType'
    BY StepRestType
  <1>3. refcnt' \in [Bufs -> 0..Cardinality(CacheProcs) + 1]
    <2>1. \A b \in Bufs : RefsOf(b)' \subseteq CacheProcs
      BY DEF RefsOf
    <2>2. \A b \in Bufs : /\ Cardinality(RefsOf(b)') \in Nat
                          /\ Cardinality(RefsOf(b)') <= Cardinality(CacheProcs)
      BY <2>1, FS_Subset, FS_CardinalityType
    <2>3. \A b \in Bufs : PinOf(b)' \in {0, 1}
      BY DEF PinOf
    <2>4. Cardinality(CacheProcs) \in Nat
      BY FS_CardinalityType
    <2>5. \A b \in Bufs : refcnt'[b] = Cardinality(RefsOf(b)') + PinOf(b)'
      BY RefcntIs
    <2>6. \A b \in Bufs : refcnt'[b] \in 0..Cardinality(CacheProcs) + 1
      BY <2>2, <2>3, <2>4, <2>5
    <2> QED BY <1>2, <2>6 DEF RestType
  <1> QED BY <1>1, <1>2, <1>3 DEF CacheTypeOK, RestType

-----------------------------------------------------------------------------
(* The invariant of the cache                                              *)

LEMMA InitType == CacheInit => CacheTypeOK /\ OnList
  <1> SUFFICES ASSUME CacheInit PROVE CacheTypeOK /\ OnList
    OBVIOUS
  <1> USE BcacheAssumption DEF BcacheAssumption
  <1> DEFINE N == Cardinality(Bufs)
  <1>1. N \in Nat /\ \E f \in [1..N -> Bufs] : IsInjective(f)
    BY FS_CardinalityType DEF ExistsBijection, Bijection, Injection
  <1>2. list \in [1..N -> Bufs] /\ IsInjective(list)
    BY <1>1 DEF CacheInit, SetToSeq
  <1>3. list \in Injection(1..N, Bufs)
    BY <1>2 DEF Injection
  <1>4. Cardinality(1..N) = N
    BY <1>1, FS_Interval
  <1>5. list \in Surjection(1..N, Bufs)
    BY <1>3, <1>4, FS_Injection
  <1>6. OnList
    BY <1>2, <1>5 DEF Surjection, OnList
  <1>7. Cardinality(CacheProcs) \in Nat
    BY FS_CardinalityType
  <1>8. refcnt \in [Bufs -> 0..Cardinality(CacheProcs) + 1]
    BY <1>7 DEF CacheInit
  <1> QED BY <1>2, <1>6, <1>8 DEF CacheInit, CacheTypeOK, CachePCs

LEMMA InitIInv == CacheInit => CacheIInv
  <1> SUFFICES ASSUME CacheInit PROVE CacheIInv
    OBVIOUS
  <1> USE BcacheAssumption DEF BcacheAssumption
  <1>1. OnList
    BY InitType
  <1>2. RefcntExact
    <2>1. \A b \in Bufs : RefsOf(b) = {} /\ PinOf(b) = 0
      BY DEF CacheInit, RefsOf, PinOf
    <2>2. \A b \in Bufs : refcnt[b] = 0 /\ Cardinality(RefsOf(b)) = 0
      BY <2>1, FS_EmptySet DEF CacheInit
    <2> QED BY <2>1, <2>2, RefcntIs
  <1>3. SleeperHasHolder /\ OneBufferInv /\ PlaceInv /\ BufLockInv /\ PinInv /\ DirtyInv
    BY DEF CacheInit, SleeperHasHolder, OneBufferInv, PlaceInv, BufLockInv, PinInv, DirtyInv, InUse
  <1> QED BY <1>1, <1>2, <1>3 DEF CacheIInv

\* The conjunction of the parts is inductive.
LEMMA CacheInductive == CacheSpec => [](CacheTypeOK /\ CacheIInv)
  <1>1. CacheInit => CacheTypeOK /\ CacheIInv
    BY InitType, InitIInv
  <1>2. CacheTypeOK /\ CacheIInv /\ [CacheNext]_cachevars => (CacheTypeOK /\ CacheIInv)'
    BY StepCacheType, StepList, StepRefcnt, StepSleeper, StepOneBuffer, StepPlace, StepBufLock,
       StepPin, StepDirty
       DEF CacheIInv
  <1> QED BY <1>1, <1>2, PTL DEF CacheSpec

\* Every buffer stays on the list, every reference is accounted for, so that
\* no buffer is recycled under a process that has it or waits for it, and a
\* process asleep in acquiresleep has somebody to wake it.
THEOREM CacheSound == CacheSpec => []CacheInv
  <1>1. CacheTypeOK /\ CacheIInv => CacheInv
    BY DEF CacheIInv, CacheInv
  <1> QED BY <1>1, CacheInductive, PTL

-----------------------------------------------------------------------------
(* One copy of each block                                                  *)

\* CacheContents as a function of the buffers and the disk.
ContentOf(bn, v, bd, dk, k) ==
  IF \E b \in {c \in Bufs : bn[c] = k} : v[b]
  THEN bd[CHOOSE b \in {c \in Bufs : bn[c] = k} : v[b]]
  ELSE dk[k]

LEMMA ContentsAre ==
  \A k : /\ CacheContents(k) = ContentOf(blockno, valid, bdata, disk, k)
         /\ CacheContents(k)' = ContentOf(blockno', valid', bdata', disk', k)
  BY DEF CacheContents, ContentOf, Cached

\* It does not matter which buffer of the block is chosen: there is only one.
LEMMA ContentValid ==
  ASSUME NEW bn, NEW v, NEW bd, NEW dk, NEW k, NEW b \in Bufs,
         bn[b] = k, v[b], \A c \in Bufs : bn[c] = k => c = b
  PROVE  ContentOf(bn, v, bd, dk, k) = bd[b]
  <1>1. \E c \in {c \in Bufs : bn[c] = k} : v[c]
    OBVIOUS
  <1>2. (CHOOSE c \in {c \in Bufs : bn[c] = k} : v[c]) = b
    <2>1. {c \in Bufs : bn[c] = k} = {b}
      OBVIOUS
    <2> QED BY <2>1
  <1> QED BY <1>1, <1>2 DEF ContentOf

LEMMA ContentInvalid ==
  ASSUME NEW bn, NEW v, NEW bd, NEW dk, NEW k,
         \A c \in Bufs : bn[c] = k => ~v[c]
  PROVE  ContentOf(bn, v, bd, dk, k) = dk[k]
  BY DEF ContentOf

\* Two states agree on a block that has the same buffer, or none, in both.
LEMMA ContentSame ==
  ASSUME NEW bn, NEW v, NEW bd, NEW dk, NEW k,
         NEW bn2, NEW v2, NEW bd2, NEW dk2,
         \A c \in Bufs : (bn2[c] = k <=> bn[c] = k)
                         /\ (bn[c] = k => (v2[c] <=> v[c]) /\ bd2[c] = bd[c]),
         dk2[k] = dk[k],
         \A b, c \in Bufs : bn[b] = k /\ bn[c] = k => b = c
  PROVE  ContentOf(bn2, v2, bd2, dk2, k) = ContentOf(bn, v, bd, dk, k)
  <1>1. CASE \E b \in Bufs : bn[b] = k /\ v[b]
    <2>1. PICK b \in Bufs : bn[b] = k /\ v[b]
      BY <1>1
    <2>2. ContentOf(bn, v, bd, dk, k) = bd[b]
      BY <2>1, ContentValid
    <2>3. ContentOf(bn2, v2, bd2, dk2, k) = bd2[b]
      BY <2>1, ContentValid
    <2> QED BY <2>1, <2>2, <2>3
  <1>2. CASE ~\E b \in Bufs : bn[b] = k /\ v[b]
    <2>1. ContentOf(bn, v, bd, dk, k) = dk[k]
      BY <1>2, ContentInvalid
    <2>2. ContentOf(bn2, v2, bd2, dk2, k) = dk2[k]
      BY <1>2, ContentInvalid
    <2> QED BY <2>1, <2>2
  <1> QED BY <1>1, <1>2

\* Recycling a buffer loses nothing: it holds what the disk holds.
LEMMA RecycleKeeps ==
  ASSUME CacheTypeOK, CacheIInv, NEW p \in CacheProcs, bget_recycle(p), NEW k \in CacheBlocks
  PROVE  CacheContents(k)' = CacheContents(k)
  <1> USE BcacheAssumption DEF BcacheAssumption, CacheIInv
  <1>1. PICK b \in Bufs : /\ Unused(b)
                          /\ blockno' = [blockno EXCEPT ![b] = want[p]]
                          /\ valid' = [valid EXCEPT ![b] = FALSE]
    BY DEF bget_recycle, Victim, Invalidate
  <1>2. blockno[b] \notin pins /\ \A q \in CacheProcs : cur[q] # b
    BY <1>1, UnusedIsFree
  <1>3. UNCHANGED <<bdata, disk>> /\ \A c \in Bufs : blockno[c] # want[p]
    BY DEF bget_recycle, Cached
  <1>4. CASE k = want[p]
    <2>1. CacheContents(k) = disk[k]
      BY <1>3, <1>4, ContentsAre, ContentInvalid
    <2>2. \A c \in Bufs : blockno'[c] = k => ~valid'[c]
      BY <1>1, <1>3, <1>4 DEF CacheTypeOK
    <2>3. CacheContents(k)' = disk'[k]
      BY <2>2, ContentsAre, ContentInvalid
    <2> QED BY <2>1, <2>3, <1>3
  <1>5. CASE k # want[p] /\ k = blockno[b]
    <2>1. CacheContents(k) = disk[k]
      <3>1. CASE valid[b]
        <4>1. bdata[b] = disk[k]
          BY <3>1, <1>2, <1>5 DEF DirtyInv
        <4>2. CacheContents(k) = bdata[b]
          BY <3>1, <1>5, ContentsAre, ContentValid DEF OneBufferInv
        <4> QED BY <4>1, <4>2
      <3>2. CASE ~valid[b]
        BY <3>2, <1>5, ContentsAre, ContentInvalid DEF OneBufferInv
      <3> QED BY <3>1, <3>2
    <2>2. \A c \in Bufs : blockno'[c] # k
      BY <1>1, <1>5 DEF OneBufferInv, CacheTypeOK
    <2>3. CacheContents(k)' = disk'[k]
      BY <2>2, ContentsAre, ContentInvalid
    <2> QED BY <2>1, <2>3, <1>3
  <1>6. CASE k # want[p] /\ k # blockno[b]
    <2>1. \A c \in Bufs : (blockno'[c] = k <=> blockno[c] = k)
                          /\ (blockno[c] = k => (valid'[c] <=> valid[c]) /\ bdata'[c] = bdata[c])
      BY <1>1, <1>3, <1>6 DEF CacheTypeOK
    <2>2. \A c, d \in Bufs : blockno[c] = k /\ blockno[d] = k => c = d
      BY DEF OneBufferInv
    <2> QED BY <2>1, <2>2, <1>3, ContentsAre, ContentSame
  <1> QED BY <1>4, <1>5, <1>6

\* Neither does reading the block into its buffer or writing it back.
LEMMA TransferKeeps ==
  ASSUME CacheTypeOK, CacheIInv, NEW p \in CacheProcs, ReadBlock(p) \/ bwrite(p),
         NEW k \in CacheBlocks
  PROVE  CacheContents(k)' = CacheContents(k)
  <1> USE BcacheAssumption DEF BcacheAssumption, CacheIInv, CacheAt
  <1>1. PICK b \in Bufs : b = cur[p]
    BY DEF ReadBlock, bwrite, PlaceInv, CacheTypeOK
  <1>2. blockno[b] \in CacheBlocks /\ blockno' = blockno
    BY <1>1 DEF ReadBlock, bwrite, PlaceInv, CacheTypeOK
  <1>3. \A c \in Bufs : blockno[c] = blockno[b] => c = b
    BY <1>2 DEF OneBufferInv
  <1>4. CASE k = blockno[b] /\ ReadBlock(p)
    <2>1. ~valid[b] /\ valid'[b] /\ bdata'[b] = disk[k]
      BY <1>1, <1>4 DEF ReadBlock, PlaceInv, CacheTypeOK
    <2>2. CacheContents(k) = disk[k]
      BY <1>3, <1>4, <2>1, ContentsAre, ContentInvalid
    <2>3. CacheContents(k)' = bdata'[b]
      BY <1>2, <1>3, <1>4, <2>1, ContentsAre, ContentValid
    <2> QED BY <2>1, <2>2, <2>3
  <1>5. CASE k = blockno[b] /\ bwrite(p)
    <2>1. valid[b] /\ UNCHANGED <<valid, bdata>>
      BY <1>1, <1>5 DEF bwrite, PlaceInv
    <2>2. CacheContents(k) = bdata[b]
      BY <1>3, <1>5, <2>1, ContentsAre, ContentValid
    <2>3. CacheContents(k)' = bdata'[b]
      BY <1>2, <1>3, <1>5, <2>1, ContentsAre, ContentValid
    <2> QED BY <2>1, <2>2, <2>3
  <1>6. CASE k # blockno[b]
    <2>1. \A c \in Bufs : blockno[c] = k => (valid'[c] <=> valid[c]) /\ bdata'[c] = bdata[c]
      BY <1>1, <1>6 DEF ReadBlock, bwrite, CacheTypeOK
    <2>2. disk'[k] = disk[k]
      BY <1>1, <1>2, <1>6 DEF ReadBlock, bwrite, CacheTypeOK
    <2>3. \A c, d \in Bufs : blockno[c] = k /\ blockno[d] = k => c = d
      BY DEF OneBufferInv
    <2> QED BY <2>1, <2>2, <2>3, <1>2, ContentsAre, ContentSame
  <1> QED BY <1>4, <1>5, <1>6

\* A user of a block changes what the next one finds.
LEMMA ModifyChanges ==
  ASSUME CacheTypeOK, CacheIInv, NEW p \in CacheProcs, NEW d \in BlockData, Modify(p, d),
         NEW k \in CacheBlocks
  PROVE  CacheContents(k)' = IF k = want[p] THEN d ELSE CacheContents(k)
  <1> USE BcacheAssumption DEF BcacheAssumption, CacheIInv, CacheAt
  <1>1. PICK b \in Bufs : b = cur[p]
    BY DEF Modify, PlaceInv, CacheTypeOK
  <1>2. /\ blockno[b] = want[p] /\ want[p] \in CacheBlocks /\ valid[b]
        /\ UNCHANGED <<blockno, valid, disk>>
    BY <1>1 DEF Modify, PlaceInv, CacheTypeOK
  <1>6. \A c \in Bufs : bdata'[c] = IF c = b THEN d ELSE bdata[c]
    BY <1>1 DEF Modify, CacheTypeOK
  <1>3. \A c \in Bufs : blockno[c] = blockno[b] => c = b
    BY <1>2 DEF OneBufferInv
  <1>4. CASE k = want[p]
    <2>1. CacheContents(k)' = bdata'[b]
      BY <1>2, <1>3, <1>4, ContentsAre, ContentValid
    <2> QED BY <2>1, <1>4, <1>6
  <1>5. CASE k # want[p]
    <2>1. \A c \in Bufs : blockno[c] = k => (valid'[c] <=> valid[c]) /\ bdata'[c] = bdata[c]
      BY <1>2, <1>5, <1>6
    <2>2. \A c, e \in Bufs : blockno[c] = k /\ blockno[e] = k => c = e
      BY DEF OneBufferInv
    <2>3. CacheContents(k)' = CacheContents(k)
      BY <2>1, <2>2, <1>2, ContentsAre, ContentSame
    <2> QED BY <1>5, <2>3
  <1> QED BY <1>4, <1>5

\* The process that uses a block is the only one.
LEMMA OneUser ==
  ASSUME CacheTypeOK, CacheIInv, NEW p \in CacheProcs, bpc[p] \in InUse
  PROVE  want[p] \in CacheBlocks /\ Users(want[p]) = {p}
  <1> USE BcacheAssumption DEF BcacheAssumption, CacheIInv, InUse
  <1>1. \A q \in CacheProcs : bpc[q] \in InUse =>
          /\ cur[q] \in Bufs /\ blockno[cur[q]] = want[q] /\ want[q] \in CacheBlocks
          /\ holder[cur[q]] = q
    BY DEF PlaceInv, BufLockInv, CacheTypeOK
  <1>2. ASSUME NEW q \in CacheProcs, bpc[q] \in InUse, want[q] = want[p]
        PROVE  q = p
    <2>1. cur[q] = cur[p]
      BY <1>1, <1>2 DEF OneBufferInv
    <2> QED BY <1>1, <1>2, <2>1
  <1> QED BY <1>1, <1>2 DEF Users

\* Nobody uses the block of a buffer that is not locked.
LEMMA NoUser ==
  ASSUME CacheTypeOK, CacheIInv, NEW p \in CacheProcs, bpc[p] = "lock", holder[cur[p]] = Nothing
  PROVE  want[p] \in CacheBlocks /\ Users(want[p]) = {}
  <1> USE BcacheAssumption DEF BcacheAssumption, CacheIInv, InUse
  <1>1. cur[p] \in Bufs /\ blockno[cur[p]] = want[p] /\ want[p] \in CacheBlocks
    BY DEF PlaceInv, CacheTypeOK
  <1>2. ASSUME NEW q \in CacheProcs, bpc[q] \in InUse, want[q] = want[p]
        PROVE  FALSE
    <2>1. cur[q] \in Bufs /\ blockno[cur[q]] = want[q] /\ holder[cur[q]] = q
      BY <1>2, SMTT(30) DEF PlaceInv, BufLockInv, CacheTypeOK
    <2>2. cur[q] = cur[p]
      BY <1>1, <1>2, <2>1 DEF OneBufferInv
    <2> QED BY <2>1, <2>2
  <1> QED BY <1>1, <1>2 DEF Users

\* Every step of the cache is a step of the block store or leaves it alone.
LEMMA StepStore ==
  ASSUME CacheTypeOK, CacheIInv, [CacheNext]_cachevars
  PROVE  [BK!BKNext]_BK!bkvars
  <1> USE BcacheAssumption DEF BcacheAssumption, CacheAt, CacheGoto
  <1> DEFINE content == [k \in CacheBlocks |-> CacheContents(k)]
             users == [k \in CacheBlocks |-> Users(k)]
  <1>1. ASSUME \A k \in CacheBlocks : CacheContents(k)' = CacheContents(k),
               \A k \in CacheBlocks : Users(k)' = Users(k)
        PROVE  UNCHANGED BK!bkvars
    BY <1>1 DEF BK!bkvars
  <1>2. ASSUME NEW p \in CacheProcs, acquiresleep(p), ~Locked(cur[p])
        PROVE  BK!BKNext
    <2>1. want[p] \in CacheBlocks /\ Users(want[p]) = {}
      BY <1>2, NoUser DEF acquiresleep, Locked
    <2>2. PICK place \in {"hold", "read"} : bpc' = [bpc EXCEPT ![p] = place]
      BY <1>2 DEF acquiresleep
    <2>3. bpc[p] = "lock" /\ UNCHANGED <<blockno, valid, bdata, disk, want>>
      BY <1>2 DEF acquiresleep
    <2>4. content' = content
      BY <2>3, ContentsAre
    <2>5. \A k \in CacheBlocks : Users(k)' = IF k = want[p] THEN {p} ELSE Users(k)
      BY <2>1, <2>2, <2>3 DEF Users, CacheTypeOK
    <2>6. users' = [users EXCEPT ![want[p]] = {p}] /\ users[want[p]] = {}
      BY <2>1, <2>5
    <2>7. BK!Obtain(p, want[p])
      BY <2>4, <2>6 DEF BK!Obtain
    <2> QED BY <2>1, <2>7 DEF BK!BKNext
  <1>3. ASSUME NEW p \in CacheProcs, releasesleep(p)
        PROVE  BK!BKNext
    <2>1. want[p] \in CacheBlocks /\ Users(want[p]) = {p}
      BY <1>3, OneUser DEF releasesleep, InUse
    <2>2. UNCHANGED <<blockno, valid, bdata, disk, want>>
      BY <1>3 DEF releasesleep
    <2>3. content' = content
      BY <2>2, ContentsAre
    <2>4. bpc'[p] = "release" /\ bpc[p] = "hold"
      BY <1>3 DEF releasesleep, Wakeup, CacheTypeOK
    <2>5. \A q \in CacheProcs \ {p} : bpc'[q] \in InUse <=> bpc[q] \in InUse
      BY <1>3 DEF releasesleep, Wakeup, CacheTypeOK, InUse
    <2>6. \A k \in CacheBlocks : Users(k)' = Users(k) \ {p}
      BY <2>2, <2>4, <2>5 DEF Users, InUse
    <2>7. \A k \in CacheBlocks : Users(k)' = IF k = want[p] THEN {} ELSE Users(k)
      BY <2>1, <2>6 DEF Users
    <2>8. users' = [users EXCEPT ![want[p]] = {}] /\ users[want[p]] = {p}
      BY <2>1, <2>7
    <2>9. BK!GiveUp(p, want[p])
      BY <2>3, <2>8 DEF BK!GiveUp
    <2> QED BY <2>1, <2>9 DEF BK!BKNext
  <1>4. ASSUME NEW p \in CacheProcs, NEW d \in BlockData, Modify(p, d)
        PROVE  BK!BKNext
    <2>1. want[p] \in CacheBlocks /\ Users(want[p]) = {p}
      BY <1>4, OneUser DEF Modify, InUse
    <2>2. \A k \in CacheBlocks : Users(k)' = Users(k)
      BY <1>4 DEF Modify, Users, CacheTypeOK
    <2>3. content' = [content EXCEPT ![want[p]] = d]
      BY <1>4, <2>1, ModifyChanges
    <2>4. users' = users /\ users[want[p]] = {p}
      BY <2>1, <2>2
    <2>5. BK!Change(p, want[p], d)
      BY <2>3, <2>4 DEF BK!Change
    <2> QED BY <2>1, <2>5 DEF BK!BKNext
  <1>5. ASSUME NEW p \in CacheProcs,
               bget_recycle(p) \/ ReadBlock(p) \/ bwrite(p)
        PROVE  UNCHANGED BK!bkvars
    <2>1. \A k \in CacheBlocks : CacheContents(k)' = CacheContents(k)
      BY <1>5, RecycleKeeps, TransferKeeps
    <2>2. \A k \in CacheBlocks : Users(k)' = Users(k)
      BY <1>5 DEF bget_recycle, ReadBlock, bwrite, Users, CacheTypeOK
    <2> QED BY <1>1, <2>1, <2>2
  <1>6. ASSUME NEW p \in CacheProcs,
               \/ \E k \in CacheBlocks : bread(p, k)
               \/ bget_cached(p) \/ bget_panic(p) \/ bpin(p) \/ bunpin(p) \/ brelse(p)
               \/ CacheKill(p) \/ (acquiresleep(p) /\ Locked(cur[p]))
        PROVE  UNCHANGED BK!bkvars
    <2>1. UNCHANGED <<blockno, valid, bdata, disk>>
      BY <1>6 DEF bread, bget_cached, bget_panic, bpin, bunpin, brelse, CacheKill, acquiresleep
    <2>2. \A k \in CacheBlocks : CacheContents(k)' = CacheContents(k)
      BY <2>1, ContentsAre
    <2>3. \A k \in CacheBlocks : Users(k)' = Users(k)
      <3>1. CASE \E k \in CacheBlocks : bread(p, k)
        BY <3>1 DEF bread, Users, CacheTypeOK
      <3>2. CASE bget_cached(p)
        BY <3>2 DEF bget_cached, Users, CacheTypeOK
      <3>3. CASE bget_panic(p) \/ bunpin(p)
        BY <3>3 DEF bget_panic, bunpin, Users
      <3>4. CASE bpin(p)
        BY <3>4 DEF bpin, Users, CacheTypeOK
      <3>5. CASE brelse(p)
        BY <3>5 DEF brelse, Users, CacheTypeOK
      <3>6. CASE CacheKill(p)
        BY <3>6 DEF CacheKill, Users, CacheTypeOK
      <3>7. CASE acquiresleep(p) /\ Locked(cur[p])
        BY <3>7 DEF acquiresleep, Users, CacheTypeOK
      <3> QED BY <1>6, <3>1, <3>2, <3>3, <3>4, <3>5, <3>6, <3>7
    <2> QED BY <1>1, <2>2, <2>3
  <1>7. CASE UNCHANGED cachevars
    <2>1. \A k \in CacheBlocks : CacheContents(k)' = CacheContents(k) /\ Users(k)' = Users(k)
      BY <1>7, ContentsAre DEF cachevars, Users
    <2> QED BY <1>1, <2>1
  <1>8. ASSUME NEW p \in CacheProcs, Step(p) \/ CacheKill(p)
        PROVE  BK!BKNext \/ UNCHANGED BK!bkvars
    <2>1. CASE acquiresleep(p)
      BY <2>1, <1>2, <1>6
    <2>2. CASE releasesleep(p)
      BY <2>2, <1>3
    <2>3. CASE bget_recycle(p) \/ ReadBlock(p) \/ bwrite(p)
      BY <2>3, <1>5
    <2>4. CASE \/ bget_cached(p) \/ bget_panic(p) \/ bpin(p) \/ bunpin(p) \/ brelse(p)
               \/ CacheKill(p)
      BY <2>4, <1>6
    <2> QED BY <1>8, <2>1, <2>2, <2>3, <2>4 DEF Step
  <1>9. CASE CacheNext
    BY <1>9, <1>4, <1>6, <1>7, <1>8 DEF CacheNext, CacheHalted
  <1> QED BY <1>7, <1>9

LEMMA InitStore == CacheInit => BK!BKInit
  <1> SUFFICES ASSUME CacheInit PROVE BK!BKInit
    OBVIOUS
  <1>1. \A k \in CacheBlocks : CacheContents(k) = disk[k]
    BY ContentsAre, ContentInvalid DEF CacheInit
  <1>2. \A k \in CacheBlocks : Users(k) = {}
    BY DEF CacheInit, Users
  <1> QED BY <1>1, <1>2 DEF CacheInit, BK!BKInit

\* The cache gives one process at a time the one copy of a block, which is
\* what the last one left, for every number of buffers: whatever is recycled,
\* pinned, written back or slept for in between.
THEOREM CacheIsBlockStore == CacheSpec => OneCopyOfEachBlock
  <1>1. CacheTypeOK /\ CacheIInv /\ [CacheNext]_cachevars => [BK!BKNext]_BK!bkvars
    BY StepStore
  <1> QED BY <1>1, InitStore, CacheInductive, PTL DEF CacheSpec, OneCopyOfEachBlock, BK!BKSpec

-----------------------------------------------------------------------------
(* kernel/virtio_disk.c: no descriptor leaks or is freed twice, the device *)
(* never works on a chain or a buffer that was given back, no completion   *)
(* is forgotten, and a request that has returned has been done.            *)
(*                                                                         *)
(* What makes the rings safe is that their live entries are all different: *)
(* with no more than NUM descriptors to name there are never more than NUM *)
(* of them, so that writing the next entry overwrites none, although the   *)
(* driver never compares its index with the device's.                      *)

Index == 0..UINT16-1

\* The number of entries from one index up to another.
Dist(a, b) == (b + UINT16 - a) % UINT16

\* The place of the k-th entry after an index.
Pos(a, k) == (a + k) % NUM

\* The live entries of a ring are different.
Distinct(r, a, b) ==
  \A j, k \in 0..Dist(a, b)-1 : r[Pos(a, j)] = r[Pos(a, k)] => j = k

\* The three descriptors of a request.
Links(p) == {head[p], next[head[p]], next[next[head[p]]]}

Avail == Between(ring, seen, aidx)
Used  == Between(uring, used_idx, uidx)

\* vdisk_lock outlives a step while a request is put on the ring and while
\* the interrupt handler runs.
LockInv ==
  /\ \A p \in DiskProcs : dpc[p] = "publish" <=> vdisk_lock = p
  /\ drained => vdisk_lock = Intr

\* A request has a chain of three descriptors, which are not free.
ChainInv ==
  \A p \in Requests :
    LET h == head[p]
    IN  /\ info[h] = {p}
        /\ more[h] /\ more[next[h]] /\ ~more[next[next[h]]]
        /\ h # next[h] /\ h # next[next[h]] /\ next[h] # next[next[h]]
        /\ Links(p) \cap free = {}

\* No two requests share a descriptor.
ApartInv == \A p, q \in Requests : p # q => Links(p) \cap Links(q) = {}

\* Every other descriptor is free.
CountInv ==
  /\ IsFiniteSet(Requests)
  /\ Cardinality(free) + 3 * Cardinality(Requests) = NUM

\* A chain is in one place at a time, once.
QueueInv ==
  /\ Distinct(ring, seen, aidx)
  /\ Distinct(uring, used_idx, uidx)
  /\ Avail \cap working = {} /\ Avail \cap Used = {} /\ working \cap Used = {}

\* What the device has or is to get belongs to a published request whose
\* buffer it owns, and a request about to be published is next on the ring.
OwnInv ==
  /\ \A i \in Avail \cup working \cup Used :
       \E p \in Requests : head[p] = i /\ owned[p] /\ dpc[p] # "publish"
  /\ \A p \in DiskProcs : dpc[p] = "publish" => owned[p] /\ ring[Slot] = head[p]

\* A request is done when its chain is on the used ring, and remains so.
DoneInv ==
  \A p \in DiskProcs :
    \/ dpc[p] = "user"
    \/ p \in Requests /\ (~owned[p] \/ head[p] \in Used)
    => ddata[p] = media[p]

DriverIInv ==
  /\ LockInv /\ ChainInv /\ ApartInv /\ CountInv /\ QueueInv /\ OwnInv
  /\ DoneInv /\ NoLostCompletion

-----------------------------------------------------------------------------
(* Indices                                                                 *)

LEMMA Widths ==
  /\ NUM \in Nat \ {0} /\ NUM >= 3
  /\ UINT16 \in Nat \ {0} /\ UINT16 > NUM
  BY VirtioAssumption DEF VirtioAssumption

\* The indices wrap at a multiple of NUM, so that the place that an index
\* names does not change when it wraps.
LEMMA WrapKeepsPlace == \A x \in Int : (x + UINT16) % NUM = x % NUM
  <1> SUFFICES ASSUME NEW x \in Int PROVE (x + UINT16) % NUM = x % NUM
    OBVIOUS
  <1> DEFINE k == UINT16 \div NUM
  <1>1. k \in Int /\ UINT16 = NUM * k
    BY ModDiv, VirtioAssumption, Widths DEF VirtioAssumption
  <1> HIDE DEF k
  <1> QED BY <1>1, ModPeriodic, Widths

LEMMA NextIdxIs ==
  \A a \in Index : NextIdx(a) \in Index
                   /\ NextIdx(a) = IF a = UINT16 - 1 THEN 0 ELSE a + 1
  <1> SUFFICES ASSUME NEW a \in Index
               PROVE  NextIdx(a) = IF a = UINT16 - 1 THEN 0 ELSE a + 1
    BY Widths DEF Index
  <1>1. CASE a = UINT16 - 1
    BY <1>1, Widths, ModAbove DEF NextIdx, Index
  <1>2. CASE a # UINT16 - 1
    <2>1. a + 1 \in 0..UINT16-1
      BY <1>2, Widths DEF Index
    <2> QED BY <1>2, <2>1, Widths, ModBelow DEF NextIdx
  <1> QED BY <1>1, <1>2

LEMMA DistIs ==
  \A a, b \in Index : Dist(a, b) = IF a <= b THEN b - a ELSE (b + UINT16) - a
  <1> SUFFICES ASSUME NEW a \in Index, NEW b \in Index
               PROVE  Dist(a, b) = IF a <= b THEN b - a ELSE (b + UINT16) - a
    OBVIOUS
  <1> USE Widths DEF Index
  <1>1. CASE a <= b
    <2>1. b + UINT16 - a \in UINT16..2*UINT16-1
      BY <1>1
    <2>2. Dist(a, b) = (b + UINT16 - a) - UINT16
      BY <2>1, ModAbove DEF Dist
    <2> QED BY <1>1, <2>2
  <1>2. CASE ~(a <= b)
    <2>1. b + UINT16 - a \in 0..UINT16-1
      BY <1>2
    <2>2. Dist(a, b) = b + UINT16 - a
      BY <2>1, ModBelow DEF Dist
    <2> QED BY <1>2, <2>2
  <1> QED BY <1>1, <1>2

LEMMA DistSteps ==
  \A a, b \in Index :
    /\ Dist(a, b) \in Index
    /\ Dist(a, b) = 0 <=> a = b
    /\ Dist(a, b) < UINT16 - 1 => Dist(a, NextIdx(b)) = Dist(a, b) + 1
    /\ a # b => Dist(NextIdx(a), b) = Dist(a, b) - 1
  <1> SUFFICES ASSUME NEW a \in Index, NEW b \in Index
               PROVE  /\ Dist(a, b) \in Index
                      /\ Dist(a, b) = 0 <=> a = b
                      /\ Dist(a, b) < UINT16 - 1 =>
                           Dist(a, NextIdx(b)) = Dist(a, b) + 1
                      /\ a # b => Dist(NextIdx(a), b) = Dist(a, b) - 1
    OBVIOUS
  <1>1. Dist(a, b) = IF a <= b THEN b - a ELSE (b + UINT16) - a
    BY DistIs
  <1>2. Dist(a, b) \in Index /\ (Dist(a, b) = 0 <=> a = b)
    BY <1>1, Widths DEF Index
  <1>3. ASSUME Dist(a, b) < UINT16 - 1
        PROVE  Dist(a, NextIdx(b)) = Dist(a, b) + 1
    <2> DEFINE n == NextIdx(b)
    <2>1. n \in Index /\ n = IF b = UINT16 - 1 THEN 0 ELSE b + 1
      BY NextIdxIs
    <2> HIDE DEF n
    <2>2. Dist(a, n) = IF a <= n THEN n - a ELSE (n + UINT16) - a
      BY <2>1, DistIs
    <2>3. Dist(a, n) = Dist(a, b) + 1
      BY <1>1, <1>3, <2>1, <2>2, Widths DEF Index
    <2> QED BY <2>3 DEF n
  <1>4. ASSUME a # b
        PROVE  Dist(NextIdx(a), b) = Dist(a, b) - 1
    <2> DEFINE n == NextIdx(a)
    <2>1. n \in Index /\ n = IF a = UINT16 - 1 THEN 0 ELSE a + 1
      BY NextIdxIs
    <2> HIDE DEF n
    <2>2. Dist(n, b) = IF n <= b THEN b - n ELSE (b + UINT16) - n
      BY <2>1, DistIs
    <2>3. Dist(n, b) = Dist(a, b) - 1
      BY <1>1, <1>4, <2>1, <2>2, Widths DEF Index
    <2> QED BY <2>3 DEF n
  <1> QED BY <1>2, <1>3, <1>4

LEMMA PosType == \A a \in Index, k \in Nat : Pos(a, k) \in Desc
  BY ModRange, Widths DEF Pos, Desc, Index

LEMMA PosFirst == \A a \in Index : Pos(a, 0) = a % NUM
  BY DEF Pos, Index

LEMMA PosNext == \A a \in Index, k \in Nat : Pos(NextIdx(a), k) = Pos(a, k + 1)
  <1> SUFFICES ASSUME NEW a \in Index, NEW k \in Nat
               PROVE  (NextIdx(a) + k) % NUM = (a + (k + 1)) % NUM
    BY DEF Pos
  <1>1. CASE a = UINT16 - 1
    <2>1. NextIdx(a) + k = k /\ a + (k + 1) = k + UINT16
      BY <1>1, NextIdxIs, Widths DEF Index
    <2>2. (k + UINT16) % NUM = k % NUM
      BY WrapKeepsPlace
    <2> QED BY <2>1, <2>2
  <1>2. CASE a # UINT16 - 1
    <2>1. NextIdx(a) + k = a + (k + 1)
      BY <1>2, NextIdxIs, Widths DEF Index
    <2> QED BY <2>1
  <1> QED BY <1>1, <1>2

LEMMA PosEnd == \A a, b \in Index : Pos(a, Dist(a, b)) = b % NUM
  <1> SUFFICES ASSUME NEW a \in Index, NEW b \in Index
               PROVE  (a + Dist(a, b)) % NUM = b % NUM
    BY DEF Pos
  <1>1. a + Dist(a, b) = b \/ a + Dist(a, b) = b + UINT16
    BY DistIs, Widths DEF Index
  <1>2. (b + UINT16) % NUM = b % NUM
    BY WrapKeepsPlace DEF Index
  <1> QED BY <1>1, <1>2

LEMMA PosDiffer ==
  \A a \in Index, j, k \in Nat : j < k /\ k < j + NUM => Pos(a, j) # Pos(a, k)
  <1> SUFFICES ASSUME NEW a \in Index, NEW j \in Nat, NEW k \in Nat,
                      j < k, k < j + NUM
               PROVE  (a + j) % NUM # (a + k) % NUM
    BY DEF Pos
  <1>1. a + j \in Int /\ a + k \in Int /\ a + j < a + k /\ a + k < (a + j) + NUM
    BY Widths DEF Index
  <1> QED BY <1>1, ModInjective, Widths

-----------------------------------------------------------------------------
(* Rings                                                                   *)

LEMMA BetweenIs ==
  ASSUME NEW r, NEW a, NEW b
  PROVE  Between(r, a, b) = {r[Pos(a, k)] : k \in 0..Dist(a, b)-1}
  BY DEF Between, Pos, Dist

\* A ring with different entries that name all descriptors but one at most
\* has room for that one.
LEMMA RingBound ==
  ASSUME NEW r \in [Desc -> Desc], NEW a \in Index, NEW b \in Index,
         Distinct(r, a, b), NEW i \in Desc, i \notin Between(r, a, b)
  PROVE  Dist(a, b) <= NUM - 1
  <1> DEFINE D == Dist(a, b)
             f == [k \in 0..D-1 |-> r[Pos(a, k)]]
  <1>1. D \in Nat
    BY DistSteps, Widths DEF Index
  <1>2. \A k \in 0..D-1 : r[Pos(a, k)] \in Desc \ {i}
    BY <1>1, PosType, BetweenIs
  <1>3. \A j, k \in 0..D-1 : f[j] = f[k] => j = k
    BY DEF Distinct
  <1> HIDE DEF D
  <1>4. f \in Injection(0..D-1, Desc \ {i})
    BY <1>2, <1>3 DEF Injection, IsInjective
  <1>5. IsFiniteSet(Desc) /\ Cardinality(Desc) = NUM
    BY FS_Interval, Widths DEF Desc
  <1>6. IsFiniteSet(Desc \ {i}) /\ Cardinality(Desc \ {i}) = NUM - 1
    BY <1>5, FS_RemoveElement
  <1>7. Cardinality(0..D-1) = D
    BY <1>1, FS_Interval
  <1>8. Cardinality(0..D-1) <= Cardinality(Desc \ {i})
    BY <1>4, <1>6, FS_Injection
  <1> QED BY <1>6, <1>7, <1>8 DEF D

\* Writing the next entry changes none of the live ones.
LEMMA RingWrite ==
  ASSUME NEW r \in [Desc -> Desc], NEW a \in Index, NEW b \in Index,
         Distinct(r, a, b), NEW i \in Desc, i \notin Between(r, a, b)
  PROVE  LET s == [r EXCEPT ![b % NUM] = i]
         IN  /\ s[b % NUM] = i
             /\ Distinct(s, a, b)
             /\ Between(s, a, b) = Between(r, a, b)
  <1> DEFINE s == [r EXCEPT ![b % NUM] = i]
  <1>1. Dist(a, b) \in Nat /\ Dist(a, b) <= NUM - 1
    <2>1. Dist(a, b) \in Nat
      BY DistSteps, Widths DEF Index
    <2>2. Dist(a, b) <= NUM - 1
      BY RingBound
    <2> QED BY <2>1, <2>2
  <1>2. b % NUM = Pos(a, Dist(a, b)) /\ b % NUM \in Desc
    BY <1>1, PosEnd, PosType
  <1>3. \A k \in 0..Dist(a, b)-1 : Pos(a, k) # b % NUM
    BY <1>1, <1>2, PosDiffer, Widths
  <1>4. \A k \in 0..Dist(a, b)-1 : s[Pos(a, k)] = r[Pos(a, k)]
    BY <1>1, <1>3, PosType
  <1>5. Distinct(s, a, b)
    BY <1>4 DEF Distinct
  <1>6. Between(s, a, b) = Between(r, a, b)
    BY <1>4, BetweenIs
  <1> QED BY <1>2, <1>5, <1>6

\* Advancing the upper index adds the entry that was written.
LEMMA RingPut ==
  ASSUME NEW r \in [Desc -> Desc], NEW a \in Index, NEW b \in Index,
         Distinct(r, a, b), r[b % NUM] \notin Between(r, a, b)
  PROVE  /\ Distinct(r, a, NextIdx(b))
         /\ Between(r, a, NextIdx(b)) = Between(r, a, b) \cup {r[b % NUM]}
  <1> DEFINE D == Dist(a, b)
  <1>1. b % NUM = Pos(a, D) /\ b % NUM \in Desc
    BY PosEnd, PosType, DistSteps, Widths DEF Index
  <1>2. D \in Nat /\ D <= NUM - 1
    <2>1. D \in Nat
      BY DistSteps, Widths DEF Index
    <2>2. r[b % NUM] \in Desc
      BY <1>1
    <2>3. D <= NUM - 1
      BY <2>2, RingBound
    <2> QED BY <2>1, <2>3
  <1>3. Dist(a, NextIdx(b)) = D + 1
    BY <1>2, DistSteps, Widths
  <1>4. 0..(D + 1)-1 = (0..D-1) \cup {D}
    BY <1>2
  <1>5. Between(r, a, b) = {r[Pos(a, k)] : k \in 0..D-1}
    BY BetweenIs
  <1>6. Between(r, a, NextIdx(b)) = {r[Pos(a, k)] : k \in (0..D-1) \cup {D}}
    BY <1>3, <1>4, BetweenIs
  <1>7. \A j, k \in 0..D-1 : r[Pos(a, j)] = r[Pos(a, k)] => j = k
    BY DEF Distinct
  <1>8. \A j, k \in (0..D-1) \cup {D} : r[Pos(a, j)] = r[Pos(a, k)] => j = k
    BY <1>1, <1>5, <1>7
  <1>9. Distinct(r, a, NextIdx(b))
    BY <1>3, <1>4, <1>8 DEF Distinct
  <1> QED BY <1>1, <1>5, <1>6, <1>9

\* Advancing the lower index takes the first entry away.
LEMMA RingTake ==
  ASSUME NEW r \in [Desc -> Desc], NEW a \in Index, NEW b \in Index,
         Distinct(r, a, b), a # b
  PROVE  /\ r[a % NUM] \in Between(r, a, b)
         /\ Distinct(r, NextIdx(a), b)
         /\ Between(r, NextIdx(a), b) = Between(r, a, b) \ {r[a % NUM]}
  <1> DEFINE D == Dist(a, b)
  <1>1. D \in Nat \ {0}
    BY DistSteps, Widths DEF Index
  <1>2. Dist(NextIdx(a), b) = D - 1
    BY DistSteps
  <1>3. r[a % NUM] = r[Pos(a, 0)]
    BY PosFirst
  <1>4. Between(r, a, b) = {r[Pos(a, k)] : k \in 0..D-1}
    BY BetweenIs
  <1>5. Between(r, NextIdx(a), b) = {r[Pos(NextIdx(a), k)] : k \in 0..(D-1)-1}
    BY <1>2, BetweenIs
  <1>6. \A k \in 0..(D-1)-1 : Pos(NextIdx(a), k) = Pos(a, k + 1)
    BY <1>1, PosNext
  <1>7. \A j, k \in 0..D-1 : r[Pos(a, j)] = r[Pos(a, k)] => j = k
    BY DEF Distinct
  <1> HIDE DEF D
  <1>8. r[a % NUM] \in Between(r, a, b)
    BY <1>1, <1>3, <1>4
  <1>9. \A j, k \in 0..(D-1)-1 :
          r[Pos(NextIdx(a), j)] = r[Pos(NextIdx(a), k)] => j = k
    <2> SUFFICES ASSUME NEW j \in 0..(D-1)-1, NEW k \in 0..(D-1)-1,
                        r[Pos(a, j + 1)] = r[Pos(a, k + 1)]
                 PROVE  j = k
      BY <1>6
    <2> QED BY <1>1, <1>7
  <1>10. Between(r, NextIdx(a), b) \subseteq Between(r, a, b) \ {r[a % NUM]}
    <2> SUFFICES ASSUME NEW k \in 0..(D-1)-1
                 PROVE  r[Pos(a, k + 1)] \in Between(r, a, b) \ {r[a % NUM]}
      BY <1>5, <1>6
    <2>1. k + 1 \in 0..D-1 /\ 0 \in 0..D-1 /\ k + 1 # 0
      BY <1>1
    <2> QED BY <2>1, <1>3, <1>4, <1>7
  <1>11. Between(r, a, b) \ {r[a % NUM]} \subseteq Between(r, NextIdx(a), b)
    <2> SUFFICES ASSUME NEW k \in 0..D-1, r[Pos(a, k)] # r[a % NUM]
                 PROVE  r[Pos(a, k)] \in Between(r, NextIdx(a), b)
      BY <1>4
    <2>1. k # 0
      BY <1>3
    <2>2. k - 1 \in 0..(D-1)-1 /\ (k - 1) + 1 = k
      BY <1>1, <2>1
    <2>3. Pos(NextIdx(a), k - 1) = Pos(a, k)
      BY <1>6, <2>2
    <2> QED BY <1>5, <2>2, <2>3
  <1> QED BY <1>2, <1>8, <1>9, <1>10, <1>11 DEF Distinct

-----------------------------------------------------------------------------
(* What the steps do to chains and rings                                   *)

LEMMA IndexTypes ==
  ASSUME DiskTypeOK
  PROVE  aidx \in Index /\ uidx \in Index /\ used_idx \in Index /\ seen \in Index
  BY DEF DiskTypeOK, Index

LEMMA LowestIn ==
  ASSUME NEW S, S \subseteq Desc, S # {}
  PROVE  Lowest(S) \in S
  <1>1. S \subseteq Nat
    BY Widths DEF Desc
  <1>2. \E i \in S : \A j \in S : i <= j
    BY <1>1, HasSmallest
  <1> QED BY <1>2 DEF Lowest

LEMMA DescFinite == IsFiniteSet(Desc) /\ Cardinality(Desc) = NUM
  BY FS_Interval, Widths DEF Desc

LEMMA FreeFinite ==
  ASSUME DiskTypeOK
  PROVE  IsFiniteSet(free) /\ Cardinality(free) \in Nat
  BY DescFinite, FS_Subset, FS_CardinalityType DEF DiskTypeOK

\* alloc3_desc takes three different free descriptors.
LEMMA AllocTakes ==
  ASSUME DiskTypeOK, NEW p \in DiskProcs, Alloc(p)
  PROVE  \E i0, i1, i2 \in free :
           /\ i0 # i1 /\ i0 # i2 /\ i1 # i2
           /\ Cardinality(free') = Cardinality(free) - 3
           /\ free' = free \ {i0, i1, i2}
           /\ next' = [next EXCEPT ![i0] = i1, ![i1] = i2, ![i2] = 0]
           /\ more' = [more EXCEPT ![i0] = TRUE, ![i1] = TRUE, ![i2] = FALSE]
           /\ op' = [op EXCEPT ![i0] = IF write[p] THEN "out" ELSE "in"]
           /\ info' = [info EXCEPT ![i0] = {p}]
           /\ ring' = [ring EXCEPT ![Slot] = i0]
           /\ head' = [head EXCEPT ![p] = i0]
  <1> DEFINE i0 == Lowest(free)
             i1 == Lowest(free \ {i0})
             i2 == Lowest(free \ {i0, i1})
  <1>1. IsFiniteSet(free) /\ Cardinality(free) \in Nat /\ Cardinality(free) >= 3
        /\ free \subseteq Desc
    BY FreeFinite DEF Alloc, DiskTypeOK
  <1>2. free # {}
    BY <1>1, FS_EmptySet
  <1>3. i0 \in free
    BY <1>1, <1>2, LowestIn
  <1> HIDE DEF i0
  <1>4. /\ IsFiniteSet(free \ {i0})
        /\ Cardinality(free \ {i0}) = Cardinality(free) - 1
    BY <1>1, <1>3, FS_RemoveElement
  <1>5. free \ {i0} # {} /\ free \ {i0} \subseteq Desc
    BY <1>1, <1>4, FS_EmptySet
  <1>6. i1 \in free \ {i0}
    BY <1>5, LowestIn
  <1> HIDE DEF i1
  <1>7. (free \ {i0}) \ {i1} = free \ {i0, i1}
    OBVIOUS
  <1>8. /\ IsFiniteSet(free \ {i0, i1})
        /\ Cardinality(free \ {i0, i1}) = Cardinality(free) - 2
    <2>1. /\ IsFiniteSet((free \ {i0}) \ {i1})
          /\ Cardinality((free \ {i0}) \ {i1}) = Cardinality(free \ {i0}) - 1
      BY <1>4, <1>6, FS_RemoveElement
    <2> QED BY <1>1, <1>4, <1>7, <2>1
  <1>9. free \ {i0, i1} # {} /\ free \ {i0, i1} \subseteq Desc
    BY <1>1, <1>8, FS_EmptySet
  <1>10. i2 \in free \ {i0, i1}
    BY <1>9, LowestIn
  <1> HIDE DEF i2
  <1>11. (free \ {i0, i1}) \ {i2} = free \ {i0, i1, i2}
    OBVIOUS
  <1>12. Cardinality(free \ {i0, i1, i2}) = Cardinality(free) - 3
    <2>1. Cardinality((free \ {i0, i1}) \ {i2}) = Cardinality(free \ {i0, i1}) - 1
      BY <1>8, <1>10, FS_RemoveElement
    <2> QED BY <1>1, <1>8, <1>11, <2>1
  <1>13. /\ free' = free \ {i0, i1, i2}
         /\ next' = [next EXCEPT ![i0] = i1, ![i1] = i2, ![i2] = 0]
         /\ more' = [more EXCEPT ![i0] = TRUE, ![i1] = TRUE, ![i2] = FALSE]
         /\ op' = [op EXCEPT ![i0] = IF write[p] THEN "out" ELSE "in"]
         /\ info' = [info EXCEPT ![i0] = {p}]
         /\ ring' = [ring EXCEPT ![Slot] = i0]
         /\ head' = [head EXCEPT ![p] = i0]
    BY DEF Alloc, i0, i1, i2
  <1> QED BY <1>3, <1>6, <1>10, <1>12, <1>13

\* free_chain walks over the descriptors of the request.
LEMMA ChainIsLinks ==
  ASSUME ChainInv, NEW p \in Requests
  PROVE  Chain(head[p]) = Links(p)
  <1>1. more[head[p]] /\ more[next[head[p]]]
    BY DEF ChainInv
  <1> QED BY <1>1 DEF Chain, Links

LEMMA LinksType ==
  ASSUME DiskTypeOK, NEW p \in DiskProcs
  PROVE  Links(p) \subseteq Desc /\ head[p] \in Links(p)
  BY DEF DiskTypeOK, Links

LEMMA HeadsDiffer ==
  ASSUME ApartInv, NEW p \in Requests, NEW q \in Requests, head[p] = head[q]
  PROVE  p = q
  <1>1. head[p] \in Links(p) /\ head[p] \in Links(q)
    BY DEF Links
  <1> QED BY <1>1 DEF ApartInv

\* No free descriptor, and no chain that is still to be published, is known
\* to the device.
LEMMA NotYetSeen ==
  ASSUME DiskTypeOK, ChainInv, ApartInv, OwnInv
  PROVE  /\ free \cap (Avail \cup working \cup Used) = {}
         /\ \A p \in DiskProcs : dpc[p] = "publish" =>
              head[p] \notin Avail \cup working \cup Used
  <1>1. free \cap (Avail \cup working \cup Used) = {}
    <2> SUFFICES ASSUME NEW i \in Avail \cup working \cup Used
                 PROVE  i \notin free
      OBVIOUS
    <2>1. PICK p \in Requests : head[p] = i
      BY DEF OwnInv
    <2> QED BY <2>1 DEF ChainInv, Links
  <1>2. ASSUME NEW p \in DiskProcs, dpc[p] = "publish",
               head[p] \in Avail \cup working \cup Used
        PROVE  FALSE
    <2>1. PICK q \in Requests : head[q] = head[p] /\ dpc[q] # "publish"
      BY <1>2 DEF OwnInv
    <2>2. p \in Requests
      BY <1>2 DEF Requests
    <2> QED BY <1>2, <2>1, <2>2, HeadsDiffer
  <1> QED BY <1>1, <1>2

\* The new entry overwrites none that the device has still to look at.
LEMMA AllocRing ==
  ASSUME DiskTypeOK, ChainInv, ApartInv, QueueInv, OwnInv, NEW p \in DiskProcs, Alloc(p)
  PROVE  /\ Avail' = Avail /\ Used' = Used /\ working' = working
         /\ Distinct(ring', seen', aidx')
         /\ Distinct(uring', used_idx', uidx')
         /\ ring'[Slot] = head'[p]
  <1>1. PICK i \in free : ring' = [ring EXCEPT ![Slot] = i] /\ head'[p] = i
    BY AllocTakes DEF DiskTypeOK
  <1>2. i \in Desc /\ i \notin Avail /\ ring \in [Desc -> Desc]
    BY <1>1, NotYetSeen DEF DiskTypeOK
  <1>3. UNCHANGED <<seen, aidx, uring, used_idx, uidx, working>>
    BY DEF Alloc, devicevars
  <1>4. Distinct(ring, seen, aidx) /\ i \notin Between(ring, seen, aidx)
    BY <1>2 DEF QueueInv, Avail
  <1>5. LET s == [ring EXCEPT ![aidx % NUM] = i]
        IN  /\ s[aidx % NUM] = i
            /\ Distinct(s, seen, aidx)
            /\ Between(s, seen, aidx) = Between(ring, seen, aidx)
    BY <1>2, <1>4, IndexTypes, RingWrite
  <1> QED BY <1>1, <1>3, <1>5 DEF QueueInv, Avail, Used, Slot

LEMMA PublishRing ==
  ASSUME DiskTypeOK, ChainInv, ApartInv, QueueInv, OwnInv, NEW p \in DiskProcs, Publish(p)
  PROVE  /\ Avail' = Avail \cup {head[p]} /\ Used' = Used /\ working' = working
         /\ head[p] \notin Avail \cup working \cup Used
         /\ Distinct(ring', seen', aidx')
         /\ Distinct(uring', used_idx', uidx')
  <1>1. head[p] \notin Avail \cup working \cup Used /\ ring[aidx % NUM] = head[p]
    BY NotYetSeen DEF OwnInv, Slot, Publish
  <1>2. /\ UNCHANGED <<ring, seen, uring, used_idx, uidx, working>>
        /\ aidx' = NextIdx(aidx)
    BY DEF Publish, devicevars
  <1>3. /\ Distinct(ring, seen, NextIdx(aidx))
        /\ Between(ring, seen, NextIdx(aidx)) = Between(ring, seen, aidx) \cup {head[p]}
    BY <1>1, IndexTypes, RingPut DEF QueueInv, Avail, DiskTypeOK
  <1> QED BY <1>1, <1>2, <1>3 DEF QueueInv, Avail, Used

LEMMA FetchRing ==
  ASSUME DiskTypeOK, QueueInv, Fetch
  PROVE  \E i \in Avail :
           /\ Avail' = Avail \ {i} /\ working' = working \cup {i} /\ Used' = Used
           /\ Distinct(ring', seen', aidx')
           /\ Distinct(uring', used_idx', uidx')
  <1>1. /\ UNCHANGED <<ring, aidx, uring, used_idx, uidx>>
        /\ seen' = NextIdx(seen)
        /\ working' = working \cup {ring[seen % NUM]}
        /\ seen # aidx
    BY DEF Fetch, ringvars
  <1>2. /\ ring[seen % NUM] \in Between(ring, seen, aidx)
        /\ Distinct(ring, NextIdx(seen), aidx)
        /\ Between(ring, NextIdx(seen), aidx) = Between(ring, seen, aidx)
                                                  \ {ring[seen % NUM]}
    BY <1>1, IndexTypes, RingTake DEF QueueInv, DiskTypeOK
  <1> QED BY <1>1, <1>2 DEF QueueInv, Avail, Used

LEMMA CompleteRing ==
  ASSUME DiskTypeOK, QueueInv, NEW i \in Desc, Complete(i)
  PROVE  /\ i \in working
         /\ Avail' = Avail /\ working' = working \ {i} /\ Used' = Used \cup {i}
         /\ Distinct(ring', seen', aidx')
         /\ Distinct(uring', used_idx', uidx')
  <1> DEFINE s == [uring EXCEPT ![uidx % NUM] = i]
  <1>1. /\ UNCHANGED <<ring, aidx, seen, used_idx>>
        /\ uidx' = NextIdx(uidx)
        /\ uring' = s
        /\ working' = working \ {i}
        /\ i \in working
    BY DEF Complete
  <1>2. i \notin Between(uring, used_idx, uidx)
    BY <1>1 DEF QueueInv, Used
  <1>3. /\ s[uidx % NUM] = i
        /\ Distinct(s, used_idx, uidx)
        /\ Between(s, used_idx, uidx) = Between(uring, used_idx, uidx)
    <2>1. Distinct(uring, used_idx, uidx) /\ uring \in [Desc -> Desc]
      BY DEF QueueInv, DiskTypeOK
    <2> QED BY <1>2, <2>1, IndexTypes, RingWrite
  <1>4. s \in [Desc -> Desc]
    BY DEF DiskTypeOK
  <1> HIDE DEF s
  <1>5. /\ Distinct(s, used_idx, NextIdx(uidx))
        /\ Between(s, used_idx, NextIdx(uidx)) = Between(s, used_idx, uidx) \cup {i}
    BY <1>2, <1>3, <1>4, IndexTypes, RingPut
  <1> QED BY <1>1, <1>3, <1>5 DEF QueueInv, Avail, Used

\* One turn of the handler's loop ends the one request that the entry names.
LEMMA EntryRing ==
  ASSUME DiskTypeOK, ChainInv, QueueInv, OwnInv, IntrEntry
  PROVE  \E p \in Requests :
           /\ head[p] \in Used
           /\ dpc[p] # "publish"
           /\ owned' = [owned EXCEPT ![p] = FALSE]
           /\ dpc' = [dpc EXCEPT ![p] = IF @ = "asleep" THEN "check" ELSE @]
           /\ Avail' = Avail /\ working' = working /\ Used' = Used \ {head[p]}
           /\ Distinct(ring', seen', aidx')
           /\ Distinct(uring', used_idx', uidx')
  <1> DEFINE i == uring[used_idx % NUM]
  <1>1. /\ UNCHANGED <<ring, aidx, seen, uring, uidx, working>>
        /\ used_idx' = NextIdx(used_idx)
        /\ owned' = [p \in DiskProcs |-> owned[p] /\ p \notin info[i]]
        /\ dpc' = [p \in DiskProcs |-> IF p \in info[i] /\ dpc[p] = "asleep"
                                   THEN "check" ELSE dpc[p]]
        /\ used_idx # uidx
    BY DEF IntrEntry, devicevars
  <1>2. /\ i \in Between(uring, used_idx, uidx)
        /\ Distinct(uring, NextIdx(used_idx), uidx)
        /\ Between(uring, NextIdx(used_idx), uidx) = Between(uring, used_idx, uidx)
                                                       \ {i}
    BY <1>1, IndexTypes, RingTake DEF QueueInv, DiskTypeOK
  <1> HIDE DEF i
  <1>3. i \in Used
    BY <1>2 DEF Used
  <1>4. PICK p \in Requests : head[p] = i /\ dpc[p] # "publish"
    BY <1>3 DEF OwnInv
  <1>5. info[i] = {p} /\ p \in DiskProcs
    BY <1>4 DEF ChainInv, Requests
  <1>6. /\ owned' = [owned EXCEPT ![p] = FALSE]
        /\ dpc' = [dpc EXCEPT ![p] = IF @ = "asleep" THEN "check" ELSE @]
    BY <1>1, <1>5 DEF DiskTypeOK
  <1> QED BY <1>1, <1>2, <1>3, <1>4, <1>6 DEF QueueInv, Avail, Used

\* The last process to look after its request gives the chain back.
LEMMA WokenReturns ==
  ASSUME ChainInv, NEW p \in DiskProcs, AfterSleep(p), ~StillOwned(p)
  PROVE  /\ p \in Requests /\ dpc[p] = "check" /\ ~owned[p]
         /\ info' = [info EXCEPT ![head[p]] = {}]
         /\ free' = free \cup Links(p)
         /\ next' = [i \in Desc |-> IF i \in Links(p) THEN 0 ELSE next[i]]
         /\ more' = [i \in Desc |-> i \notin Links(p) /\ more[i]]
         /\ dpc' = [q \in DiskProcs |-> IF q = p THEN "user"
                      ELSE IF dpc[q] = "nodesc" THEN "alloc" ELSE dpc[q]]
  <1>1. p \in Requests
    BY DEF AfterSleep, Requests
  <1>2. Chain(head[p]) = Links(p)
    BY <1>1, ChainIsLinks
  <1> QED BY <1>1, <1>2 DEF AfterSleep, StillOwned, WakeForDesc

\* A request has three descriptors.
LEMMA LinksThree ==
  ASSUME ChainInv, NEW p \in Requests
  PROVE  IsFiniteSet(Links(p)) /\ Cardinality(Links(p)) = 3 /\ Links(p) \cap free = {}
  <1> DEFINE i0 == head[p]
             i1 == next[i0]
             i2 == next[i1]
  <1>1. i0 # i1 /\ i0 # i2 /\ i1 # i2 /\ Links(p) \cap free = {}
    BY DEF ChainInv
  <1>2. Links(p) = ({i0} \cup {i1}) \cup {i2}
    BY DEF Links
  <1> HIDE DEF i0, i1, i2
  <1>3. IsFiniteSet({i0}) /\ Cardinality({i0}) = 1
    BY FS_Singleton
  <1>4. /\ IsFiniteSet({i0} \cup {i1})
        /\ Cardinality({i0} \cup {i1}) = Cardinality({i0}) + 1
    BY <1>1, <1>3, FS_AddElement
  <1>5. /\ IsFiniteSet(({i0} \cup {i1}) \cup {i2})
        /\ Cardinality(({i0} \cup {i1}) \cup {i2}) = Cardinality({i0} \cup {i1}) + 1
    BY <1>1, <1>4, FS_AddElement
  <1> QED BY <1>1, <1>2, <1>3, <1>4, <1>5

\* alloc3_desc fails without a change to any request.
LEMMA FailKeepsRequests ==
  ASSUME DiskTypeOK, NEW p \in DiskProcs, AllocFails(p)
  PROVE  /\ Requests' = Requests
         /\ \A q \in DiskProcs : dpc'[q] = "publish" <=> dpc[q] = "publish"
  <1>1. CASE free = {}
    <2>1. dpc' = [dpc EXCEPT ![p] = "nodesc"] /\ dpc[p] = "alloc"
      BY <1>1 DEF AllocFails
    <2> QED BY <2>1 DEF Requests, DiskTypeOK
  <1>2. CASE free # {}
    <2>1. /\ dpc[p] = "alloc"
          /\ dpc' = [q \in DiskProcs |-> IF q = p THEN "nodesc"
                       ELSE IF dpc[q] = "nodesc" THEN "alloc" ELSE dpc[q]]
      BY <1>2 DEF AllocFails, WakeForDesc
    <2> QED BY <2>1 DEF Requests, DiskTypeOK
  <1> QED BY <1>1, <1>2

-----------------------------------------------------------------------------
(* Every step, part by part                                                *)

\* Every step keeps the types.
LEMMA StepType ==
  ASSUME DiskTypeOK, ChainInv, [DiskNext]_diskvars
  PROVE  DiskTypeOK'
  <1> USE VirtioAssumption DEF VirtioAssumption
  <1>1. ASSUME NEW p \in DiskProcs, NEW w \in BOOLEAN, NEW d \in DiskData, virtio_disk_rw(p, w, d)
        PROVE  DiskTypeOK'
    BY <1>1 DEF virtio_disk_rw, descvars, ringvars, devicevars, DiskTypeOK
  <1>2. ASSUME NEW p \in DiskProcs, Alloc(p)
        PROVE  DiskTypeOK'
    <2>1. PICK i0, i1, i2 \in free :
            /\ free' = free \ {i0, i1, i2}
            /\ next' = [next EXCEPT ![i0] = i1, ![i1] = i2, ![i2] = 0]
            /\ more' = [more EXCEPT ![i0] = TRUE, ![i1] = TRUE, ![i2] = FALSE]
            /\ op' = [op EXCEPT ![i0] = IF write[p] THEN "out" ELSE "in"]
            /\ info' = [info EXCEPT ![i0] = {p}]
            /\ ring' = [ring EXCEPT ![Slot] = i0]
            /\ head' = [head EXCEPT ![p] = i0]
      BY <1>2, AllocTakes, SMTT(30)
    <2>2. 0 \in Desc /\ i0 \in Desc /\ i1 \in Desc /\ i2 \in Desc
      BY Widths DEF Desc, DiskTypeOK
    <2>3. free' \subseteq Desc /\ next' \in [Desc -> Desc]
      BY <2>1, <2>2 DEF DiskTypeOK
    <2>4. more' \in [Desc -> BOOLEAN] /\ info' \in [Desc -> SUBSET DiskProcs]
      BY <2>1, <2>2 DEF DiskTypeOK
    <2>5. op' \in [Desc -> {"in", "out"}]
      BY <2>1, <2>2 DEF DiskTypeOK
    <2>6. ring' \in [Desc -> Desc] /\ head' \in [DiskProcs -> Desc]
      BY <2>1, <2>2 DEF DiskTypeOK
    <2>7. /\ owned' = [owned EXCEPT ![p] = TRUE]
          /\ vdisk_lock' = p
          /\ dpc' = [dpc EXCEPT ![p] = "publish"]
          /\ UNCHANGED <<aidx, uring, uidx, used_idx, seen, working, intr, media,
                         drained, ddata, write>>
      BY <1>2 DEF Alloc, devicevars
    <2>8. /\ {aidx, uidx, used_idx, seen}' \subseteq 0..UINT16-1
      BY <2>7 DEF DiskTypeOK
    <2> QED BY <2>3, <2>4, <2>5, <2>6, <2>7, <2>8 DEF DiskTypeOK
  <1>3. ASSUME NEW p \in DiskProcs, AllocFails(p)
        PROVE  DiskTypeOK'
    BY <1>3 DEF AllocFails, WakeForDesc, descvars, ringvars, devicevars,
           DiskTypeOK
  <1>4. ASSUME NEW p \in DiskProcs, Publish(p)
        PROVE  DiskTypeOK'
    <2>1. aidx' \in 0..UINT16-1
      BY <1>4, IndexTypes, NextIdxIs DEF Publish, Index
    <2> QED BY <1>4, <2>1 DEF Publish, descvars, devicevars, DiskTypeOK
  <1>5. ASSUME NEW p \in DiskProcs, AfterSleep(p), StillOwned(p)
        PROVE  DiskTypeOK'
    BY <1>5 DEF AfterSleep, StillOwned, descvars, ringvars, devicevars, DiskTypeOK
  <1>6. ASSUME NEW p \in DiskProcs, AfterSleep(p), ~StillOwned(p)
        PROVE  DiskTypeOK'
    <2>1. 0 \in Desc
      BY Widths DEF Desc
    <2>2. Links(p) \subseteq Desc
      BY LinksType
    <2>3. /\ free' \subseteq Desc
          /\ next' \in [Desc -> Desc]
          /\ more' \in [Desc -> BOOLEAN]
          /\ info' \in [Desc -> SUBSET DiskProcs]
      <3>1. /\ info' = [info EXCEPT ![head[p]] = {}]
            /\ free' = free \cup Links(p)
            /\ next' = [i \in Desc |-> IF i \in Links(p) THEN 0 ELSE next[i]]
            /\ more' = [i \in Desc |-> i \notin Links(p) /\ more[i]]
        BY <1>6, WokenReturns
      <3>2. free' \subseteq Desc /\ next' \in [Desc -> Desc]
        BY <2>1, <2>2, <3>1 DEF DiskTypeOK
      <3>3. more' \in [Desc -> BOOLEAN]
        BY <3>1
      <3>4. info' \in [Desc -> SUBSET DiskProcs]
        BY <3>1 DEF DiskTypeOK
      <3> QED BY <3>2, <3>3, <3>4
    <2>4. dpc' \in [DiskProcs -> {"user", "alloc", "nodesc", "publish", "asleep", "check"}]
      BY <1>6, WokenReturns DEF DiskTypeOK
    <2>5. UNCHANGED <<op, ring, aidx, uring, uidx, used_idx, seen, working, intr,
                      media, drained, ddata, owned, vdisk_lock, write, head>>
      BY <1>6 DEF AfterSleep, StillOwned, ringvars, devicevars
    <2> QED BY <2>3, <2>4, <2>5 DEF DiskTypeOK
  <1>7. ASSUME NEW p \in DiskProcs, DiskKill(p)
        PROVE  DiskTypeOK'
    BY <1>7 DEF DiskKill, descvars, ringvars, devicevars, DiskTypeOK
  <1>8. ASSUME Fetch
        PROVE  DiskTypeOK'
    <2>1. seen' \in 0..UINT16-1
      BY <1>8, IndexTypes, NextIdxIs DEF Fetch, Index
    <2>2. seen % NUM \in Desc
      BY IndexTypes, PosType, PosFirst
    <2> QED BY <1>8, <2>1, <2>2 DEF Fetch, descvars, ringvars, DiskTypeOK
  <1>9. ASSUME NEW i \in Desc, Complete(i)
        PROVE  DiskTypeOK'
    <2>1. uidx' \in 0..UINT16-1
      BY <1>9, IndexTypes, NextIdxIs DEF Complete, Index
    <2>2. PICK p \in info[i] :
            IF op[i] = "out"
            THEN media' = [media EXCEPT ![p] = ddata[p]] /\ UNCHANGED ddata
            ELSE ddata' = [ddata EXCEPT ![p] = media[p]] /\ UNCHANGED media
      BY <1>9 DEF Complete
    <2>3. media' \in [DiskProcs -> DiskData] /\ ddata' \in [DiskProcs -> DiskData]
      BY <2>2 DEF DiskTypeOK
    <2> QED BY <1>9, <2>1, <2>3 DEF Complete, descvars, DiskTypeOK
  <1>10. ASSUME IntrEnter
        PROVE  DiskTypeOK'
    BY <1>10 DEF IntrEnter, descvars, ringvars, DiskTypeOK
  <1>11. ASSUME IntrEntry
        PROVE  DiskTypeOK'
    <2>1. used_idx' \in 0..UINT16-1
      BY <1>11, IndexTypes, NextIdxIs DEF IntrEntry, Index
    <2> QED BY <1>11, <2>1 DEF IntrEntry, descvars, devicevars, DiskTypeOK
  <1>12. ASSUME IntrLoopEnds
        PROVE  DiskTypeOK'
    BY <1>12 DEF IntrLoopEnds, descvars, ringvars, DiskTypeOK
  <1>13. ASSUME IntrExit
        PROVE  DiskTypeOK'
    BY <1>13 DEF IntrExit, IntrAfterLoop, descvars, ringvars, DiskTypeOK
  <1>14. CASE UNCHANGED diskvars
    BY <1>14 DEF diskvars, DiskTypeOK
  <1> QED BY <1>1, <1>2, <1>3, <1>4, <1>5, <1>6, <1>7, <1>8, <1>9, <1>10,
         <1>11, <1>12, <1>13, <1>14
          DEF DiskNext, Driver

\* vdisk_lock is kept by one process or by the handler.
LEMMA StepLock ==
  ASSUME DiskTypeOK, LockInv, [DiskNext]_diskvars
  PROVE  LockInv'
  <1> USE VirtioAssumption DEF VirtioAssumption
  <1>1. ASSUME NEW p \in DiskProcs, NEW w \in BOOLEAN, NEW d \in DiskData, virtio_disk_rw(p, w, d)
        PROVE  LockInv'
    BY <1>1 DEF virtio_disk_rw, descvars, ringvars, devicevars, DiskTypeOK,
           LockInv
  <1>2. ASSUME NEW p \in DiskProcs, Alloc(p)
        PROVE  LockInv'
    BY <1>2 DEF Alloc, devicevars, DiskTypeOK, LockInv
  <1>3. ASSUME NEW p \in DiskProcs, AllocFails(p)
        PROVE  LockInv'
    BY <1>3 DEF AllocFails, WakeForDesc, descvars, ringvars, devicevars,
           DiskTypeOK, LockInv
  <1>4. ASSUME NEW p \in DiskProcs, Publish(p)
        PROVE  LockInv'
    BY <1>4 DEF Publish, descvars, devicevars, DiskTypeOK, LockInv
  <1>5. ASSUME NEW p \in DiskProcs, AfterSleep(p), StillOwned(p)
        PROVE  LockInv'
    BY <1>5 DEF AfterSleep, StillOwned, descvars, ringvars, devicevars, DiskTypeOK,
           LockInv
  <1>6. ASSUME NEW p \in DiskProcs, AfterSleep(p), ~StillOwned(p)
        PROVE  LockInv'
    BY <1>6 DEF AfterSleep, StillOwned, WakeForDesc, ringvars, devicevars,
           DiskTypeOK, LockInv
  <1>7. ASSUME NEW p \in DiskProcs, DiskKill(p)
        PROVE  LockInv'
    BY <1>7 DEF DiskKill, descvars, ringvars, devicevars, DiskTypeOK, LockInv
  <1>8. ASSUME Fetch
        PROVE  LockInv'
    BY <1>8 DEF Fetch, descvars, ringvars, DiskTypeOK, LockInv
  <1>9. ASSUME NEW i \in Desc, Complete(i)
        PROVE  LockInv'
    BY <1>9 DEF Complete, descvars, DiskTypeOK, LockInv
  <1>10. ASSUME IntrEnter
        PROVE  LockInv'
    BY <1>10 DEF IntrEnter, descvars, ringvars, DiskTypeOK, LockInv
  <1>11. ASSUME IntrEntry
        PROVE  LockInv'
    BY <1>11 DEF IntrEntry, descvars, devicevars, DiskTypeOK, LockInv
  <1>12. ASSUME IntrLoopEnds
        PROVE  LockInv'
    BY <1>12 DEF IntrLoopEnds, descvars, ringvars, DiskTypeOK, LockInv
  <1>13. ASSUME IntrExit
        PROVE  LockInv'
    BY <1>13 DEF IntrExit, IntrAfterLoop, descvars, ringvars, DiskTypeOK,
           LockInv
  <1>14. CASE UNCHANGED diskvars
    BY <1>14 DEF diskvars, DiskTypeOK, LockInv
  <1> QED BY <1>1, <1>2, <1>3, <1>4, <1>5, <1>6, <1>7, <1>8, <1>9, <1>10,
         <1>11, <1>12, <1>13, <1>14
          DEF DiskNext, Driver

\* Chains stay linked, apart and out of the free list.
LEMMA StepChain ==
  ASSUME DiskTypeOK, LockInv, ChainInv, ApartInv, QueueInv, OwnInv,
         [DiskNext]_diskvars
  PROVE  (ChainInv /\ ApartInv)'
  <1> USE VirtioAssumption DEF VirtioAssumption
  <1>1. ASSUME NEW p \in DiskProcs, NEW w \in BOOLEAN, NEW d \in DiskData, virtio_disk_rw(p, w, d)
        PROVE  (ChainInv /\ ApartInv)'
    BY <1>1 DEF virtio_disk_rw, descvars, ringvars, devicevars, DiskTypeOK,
           LockInv, ChainInv, ApartInv, Links, Requests
  <1>2. ASSUME NEW p \in DiskProcs, Alloc(p)
        PROVE  (ChainInv /\ ApartInv)'
    <2>1. PICK i0, i1, i2 \in free :
            /\ i0 # i1 /\ i0 # i2 /\ i1 # i2
            /\ free' = free \ {i0, i1, i2}
            /\ next' = [next EXCEPT ![i0] = i1, ![i1] = i2, ![i2] = 0]
            /\ more' = [more EXCEPT ![i0] = TRUE, ![i1] = TRUE, ![i2] = FALSE]
            /\ info' = [info EXCEPT ![i0] = {p}]
            /\ head' = [head EXCEPT ![p] = i0]
      BY <1>2, AllocTakes, SMTT(30)
    <2>2. /\ Requests' = Requests \cup {p} /\ p \notin Requests
          /\ head'[p] = i0 /\ next'[i0] = i1 /\ next'[i1] = i2
          /\ more'[i0] /\ more'[i1] /\ ~more'[i2] /\ info'[i0] = {p}
      BY <1>2, <2>1 DEF Alloc, Requests, DiskTypeOK
    <2>3. Links(p)' = {i0, i1, i2}
      BY <2>2 DEF Links
    <2>4. ASSUME NEW q \in Requests
          PROVE  LET h == head[q]
                 IN  /\ head'[q] = h /\ next'[h] = next[h]
                     /\ next'[next[h]] = next[next[h]]
                     /\ more'[h] = more[h] /\ more'[next[h]] = more[next[h]]
                     /\ more'[next[next[h]]] = more[next[next[h]]]
                     /\ info'[h] = info[h]
                     /\ Links(q)' = Links(q)
                     /\ Links(q) \cap {i0, i1, i2} = {}
      <3>1. Links(q) \cap {i0, i1, i2} = {}
        BY <2>1, <2>4 DEF ChainInv
      <3>2. q \in DiskProcs /\ q # p
        BY <2>2 DEF Requests
      <3>3. head[q] \in Desc /\ next[head[q]] \in Desc /\ next[next[head[q]]] \in Desc
        BY <3>2 DEF DiskTypeOK
      <3>4. head'[q] = head[q]
        BY <2>1, <3>2 DEF DiskTypeOK
      <3>5. \A i \in Links(q) : i \in Desc =>
              next'[i] = next[i] /\ more'[i] = more[i] /\ info'[i] = info[i]
        BY <2>1, <3>1 DEF DiskTypeOK
      <3> QED BY <3>1, <3>3, <3>4, <3>5 DEF Links
    <2>5. ChainInv'
      <3> SUFFICES ASSUME NEW q \in Requests'
                   PROVE  LET h == head'[q]
                          IN  /\ info'[h] = {q}
                              /\ more'[h] /\ more'[next'[h]]
                              /\ ~more'[next'[next'[h]]]
                              /\ h # next'[h] /\ h # next'[next'[h]]
                              /\ next'[h] # next'[next'[h]]
                              /\ Links(q)' \cap free' = {}
        BY DEF ChainInv
      <3>1. CASE q = p
        BY <2>1, <2>2, <2>3, <3>1
      <3>2. CASE q # p
        <4>1. q \in Requests
          BY <2>2, <3>2
        <4>2. /\ info[head[q]] = {q}
              /\ more[head[q]] /\ more[next[head[q]]]
              /\ ~more[next[next[head[q]]]]
              /\ head[q] # next[head[q]] /\ head[q] # next[next[head[q]]]
              /\ next[head[q]] # next[next[head[q]]]
              /\ Links(q) \cap free = {}
          BY <4>1 DEF ChainInv
        <4>3. /\ head'[q] = head[q] /\ next'[head[q]] = next[head[q]]
              /\ next'[next[head[q]]] = next[next[head[q]]]
              /\ more'[head[q]] = more[head[q]]
              /\ more'[next[head[q]]] = more[next[head[q]]]
              /\ more'[next[next[head[q]]]] = more[next[next[head[q]]]]
              /\ info'[head[q]] = info[head[q]]
              /\ Links(q)' = Links(q)
          BY <2>4, <4>1
        <4>4. Links(q)' \cap free' = {}
          BY <2>1, <4>2, <4>3
        <4> QED BY <4>2, <4>3, <4>4
      <3> QED BY <3>1, <3>2
    <2>6. ApartInv'
      BY <2>2, <2>3, <2>4 DEF ApartInv
    <2> QED BY <2>5, <2>6
  <1>3. ASSUME NEW p \in DiskProcs, AllocFails(p)
        PROVE  (ChainInv /\ ApartInv)'
    BY <1>3 DEF AllocFails, WakeForDesc, descvars, ringvars, devicevars,
           DiskTypeOK, LockInv, ChainInv, ApartInv, Links, Requests
  <1>4. ASSUME NEW p \in DiskProcs, Publish(p)
        PROVE  (ChainInv /\ ApartInv)'
    BY <1>4 DEF Publish, descvars, devicevars, DiskTypeOK, LockInv, ChainInv,
           ApartInv, Links, Requests
  <1>5. ASSUME NEW p \in DiskProcs, AfterSleep(p), StillOwned(p)
        PROVE  (ChainInv /\ ApartInv)'
    BY <1>5 DEF AfterSleep, StillOwned, descvars, ringvars, devicevars, DiskTypeOK,
           LockInv, ChainInv, ApartInv, Links, Requests
  <1>6. ASSUME NEW p \in DiskProcs, AfterSleep(p), ~StillOwned(p)
        PROVE  (ChainInv /\ ApartInv)'
    <2>1. /\ p \in Requests
          /\ info' = [info EXCEPT ![head[p]] = {}]
          /\ free' = free \cup Links(p)
          /\ next' = [i \in Desc |-> IF i \in Links(p) THEN 0 ELSE next[i]]
          /\ more' = [i \in Desc |-> i \notin Links(p) /\ more[i]]
          /\ head' = head
      BY <1>6, WokenReturns DEF AfterSleep
    <2>2. Requests' = Requests \ {p}
      BY <1>6, WokenReturns DEF Requests
    <2>3. ASSUME NEW q \in Requests, q # p
          PROVE  LET h == head[q]
                 IN  /\ next'[h] = next[h]
                     /\ next'[next[h]] = next[next[h]]
                     /\ more'[h] = more[h] /\ more'[next[h]] = more[next[h]]
                     /\ more'[next[next[h]]] = more[next[next[h]]]
                     /\ info'[h] = info[h]
                     /\ Links(q)' = Links(q)
                     /\ Links(q) \cap Links(p) = {}
      <3>1. Links(q) \cap Links(p) = {}
        BY <2>1, <2>3 DEF ApartInv
      <3>2. q \in DiskProcs /\ head[p] \in Links(p)
        BY DEF Requests, Links
      <3> QED BY <2>1, <3>1, <3>2 DEF Links, DiskTypeOK
    <2>4. ChainInv'
      <3> SUFFICES ASSUME NEW q \in Requests'
                   PROVE  LET h == head'[q]
                          IN  /\ info'[h] = {q}
                              /\ more'[h] /\ more'[next'[h]]
                              /\ ~more'[next'[next'[h]]]
                              /\ h # next'[h] /\ h # next'[next'[h]]
                              /\ next'[h] # next'[next'[h]]
                              /\ Links(q)' \cap free' = {}
        BY DEF ChainInv
      <3>1. q \in Requests /\ q # p /\ head'[q] = head[q]
        BY <2>1, <2>2
      <3>2. /\ info[head[q]] = {q}
            /\ more[head[q]] /\ more[next[head[q]]]
            /\ ~more[next[next[head[q]]]]
            /\ head[q] # next[head[q]] /\ head[q] # next[next[head[q]]]
            /\ next[head[q]] # next[next[head[q]]]
            /\ Links(q) \cap free = {}
        BY <3>1 DEF ChainInv
      <3>3. /\ next'[head[q]] = next[head[q]]
            /\ next'[next[head[q]]] = next[next[head[q]]]
            /\ more'[head[q]] = more[head[q]]
            /\ more'[next[head[q]]] = more[next[head[q]]]
            /\ more'[next[next[head[q]]]] = more[next[next[head[q]]]]
            /\ info'[head[q]] = info[head[q]]
            /\ Links(q)' = Links(q) /\ Links(q) \cap Links(p) = {}
        BY <2>3, <3>1
      <3>4. Links(q)' \cap free' = {}
        BY <2>1, <3>2, <3>3
      <3> QED BY <3>1, <3>2, <3>3, <3>4
    <2>5. ApartInv'
      BY <2>2, <2>3 DEF ApartInv
    <2> QED BY <2>4, <2>5
  <1>7. ASSUME NEW p \in DiskProcs, DiskKill(p)
        PROVE  (ChainInv /\ ApartInv)'
    BY <1>7 DEF DiskKill, descvars, ringvars, devicevars, DiskTypeOK, LockInv,
           ChainInv, ApartInv, Links, Requests
  <1>8. ASSUME Fetch
        PROVE  (ChainInv /\ ApartInv)'
    BY <1>8 DEF Fetch, descvars, ringvars, DiskTypeOK, LockInv, ChainInv,
           ApartInv, Links, Requests
  <1>9. ASSUME NEW i \in Desc, Complete(i)
        PROVE  (ChainInv /\ ApartInv)'
    BY <1>9 DEF Complete, descvars, DiskTypeOK, LockInv, ChainInv, ApartInv,
           Links, Requests
  <1>10. ASSUME IntrEnter
        PROVE  (ChainInv /\ ApartInv)'
    BY <1>10 DEF IntrEnter, descvars, ringvars, DiskTypeOK, LockInv, ChainInv,
           ApartInv, Links, Requests
  <1>11. ASSUME IntrEntry
        PROVE  (ChainInv /\ ApartInv)'
    <2>1. Requests' = Requests
      BY <1>11, EntryRing DEF Requests, DiskTypeOK
    <2>2. \A q \in Requests : Links(q)' = Links(q)
      BY <1>11 DEF IntrEntry, descvars, Links
    <2> QED BY <1>11, <2>1, <2>2 DEF IntrEntry, descvars, ChainInv, ApartInv
  <1>12. ASSUME IntrLoopEnds
        PROVE  (ChainInv /\ ApartInv)'
    BY <1>12 DEF IntrLoopEnds, descvars, ringvars, DiskTypeOK, LockInv,
           ChainInv, ApartInv, Links, Requests
  <1>13. ASSUME IntrExit
        PROVE  (ChainInv /\ ApartInv)'
    BY <1>13 DEF IntrExit, IntrAfterLoop, descvars, ringvars, DiskTypeOK,
           LockInv, ChainInv, ApartInv, Links, Requests
  <1>14. CASE UNCHANGED diskvars
    BY <1>14 DEF diskvars, DiskTypeOK, LockInv, ChainInv, ApartInv, Links,
           Requests
  <1> QED BY <1>1, <1>2, <1>3, <1>4, <1>5, <1>6, <1>7, <1>8, <1>9, <1>10,
         <1>11, <1>12, <1>13, <1>14
          DEF DiskNext, Driver

\* Descriptors are taken and given back three at a time.
LEMMA StepCount ==
  ASSUME DiskTypeOK, LockInv, ChainInv, ApartInv, CountInv, QueueInv, OwnInv,
         [DiskNext]_diskvars
  PROVE  CountInv'
  <1> USE VirtioAssumption DEF VirtioAssumption
  <1>1. ASSUME NEW p \in DiskProcs, NEW w \in BOOLEAN, NEW d \in DiskData, virtio_disk_rw(p, w, d)
        PROVE  CountInv'
    BY <1>1 DEF virtio_disk_rw, descvars, ringvars, devicevars, DiskTypeOK,
           LockInv, CountInv, Requests
  <1>2. ASSUME NEW p \in DiskProcs, Alloc(p)
        PROVE  CountInv'
    <2>1. Cardinality(free') = Cardinality(free) - 3
      BY <1>2, AllocTakes
    <2>2. Requests' = Requests \cup {p} /\ p \notin Requests
      BY <1>2 DEF Alloc, Requests, DiskTypeOK
    <2>3. /\ IsFiniteSet(Requests \cup {p})
          /\ Cardinality(Requests \cup {p}) = Cardinality(Requests) + 1
      BY <2>2, FS_AddElement DEF CountInv
    <2>4. Cardinality(free) \in Nat /\ Cardinality(Requests) \in Nat
      BY FreeFinite, FS_CardinalityType DEF CountInv
    <2> QED BY <2>1, <2>2, <2>3, <2>4 DEF CountInv
  <1>3. ASSUME NEW p \in DiskProcs, AllocFails(p)
        PROVE  CountInv'
    BY <1>3, FailKeepsRequests DEF AllocFails, descvars, CountInv
  <1>4. ASSUME NEW p \in DiskProcs, Publish(p)
        PROVE  CountInv'
    BY <1>4 DEF Publish, descvars, devicevars, DiskTypeOK, LockInv, CountInv,
           Requests
  <1>5. ASSUME NEW p \in DiskProcs, AfterSleep(p), StillOwned(p)
        PROVE  CountInv'
    BY <1>5 DEF AfterSleep, StillOwned, descvars, ringvars, devicevars, DiskTypeOK,
           LockInv, CountInv, Requests
  <1>6. ASSUME NEW p \in DiskProcs, AfterSleep(p), ~StillOwned(p)
        PROVE  CountInv'
    <2>1. p \in Requests /\ free' = free \cup Links(p) /\ Requests' = Requests \ {p}
      BY <1>6, WokenReturns DEF Requests
    <2>2. /\ IsFiniteSet(Links(p)) /\ Cardinality(Links(p)) = 3
          /\ free \cap Links(p) = {}
      BY <2>1, LinksThree
    <2>3. IsFiniteSet(free) /\ Cardinality(free) \in Nat
      BY FreeFinite
    <2>4. Cardinality(free \cup Links(p))
            = Cardinality(free) + Cardinality(Links(p)) - Cardinality(free \cap Links(p))
      BY <2>2, <2>3, FS_Union
    <2>5. Cardinality(free \cap Links(p)) = 0
      BY <2>2, FS_EmptySet
    <2>8. Cardinality(free') = Cardinality(free) + 3
      BY <2>1, <2>2, <2>3, <2>4, <2>5
    <2>9. /\ IsFiniteSet(Requests \ {p})
          /\ Cardinality(Requests \ {p}) = Cardinality(Requests) - 1
          /\ Cardinality(Requests) \in Nat
      BY <2>1, FS_RemoveElement, FS_CardinalityType DEF CountInv
    <2> QED BY <2>1, <2>3, <2>8, <2>9 DEF CountInv
  <1>7. ASSUME NEW p \in DiskProcs, DiskKill(p)
        PROVE  CountInv'
    BY <1>7 DEF DiskKill, descvars, ringvars, devicevars, DiskTypeOK, LockInv,
           CountInv, Requests
  <1>8. ASSUME Fetch
        PROVE  CountInv'
    BY <1>8 DEF Fetch, descvars, ringvars, DiskTypeOK, LockInv, CountInv,
           Requests
  <1>9. ASSUME NEW i \in Desc, Complete(i)
        PROVE  CountInv'
    BY <1>9 DEF Complete, descvars, DiskTypeOK, LockInv, CountInv, Requests
  <1>10. ASSUME IntrEnter
        PROVE  CountInv'
    BY <1>10 DEF IntrEnter, descvars, ringvars, DiskTypeOK, LockInv, CountInv,
           Requests
  <1>11. ASSUME IntrEntry
        PROVE  CountInv'
    <2>1. Requests' = Requests
      BY <1>11, EntryRing DEF Requests, DiskTypeOK
    <2> QED BY <1>11, <2>1 DEF IntrEntry, descvars, CountInv
  <1>12. ASSUME IntrLoopEnds
        PROVE  CountInv'
    BY <1>12 DEF IntrLoopEnds, descvars, ringvars, DiskTypeOK, LockInv,
           CountInv, Requests
  <1>13. ASSUME IntrExit
        PROVE  CountInv'
    BY <1>13 DEF IntrExit, IntrAfterLoop, descvars, ringvars, DiskTypeOK,
           LockInv, CountInv, Requests
  <1>14. CASE UNCHANGED diskvars
    BY <1>14 DEF diskvars, DiskTypeOK, LockInv, CountInv, Requests
  <1> QED BY <1>1, <1>2, <1>3, <1>4, <1>5, <1>6, <1>7, <1>8, <1>9, <1>10,
         <1>11, <1>12, <1>13, <1>14
          DEF DiskNext, Driver

\* A chain moves from ring to device to ring, never twice.
LEMMA StepQueue ==
  ASSUME DiskTypeOK, LockInv, ChainInv, ApartInv, QueueInv, OwnInv,
         [DiskNext]_diskvars
  PROVE  QueueInv'
  <1> USE VirtioAssumption DEF VirtioAssumption
  <1>1. ASSUME NEW p \in DiskProcs, NEW w \in BOOLEAN, NEW d \in DiskData, virtio_disk_rw(p, w, d)
        PROVE  QueueInv'
    BY <1>1 DEF virtio_disk_rw, descvars, ringvars, devicevars, QueueInv,
           Avail, Used
  <1>2. ASSUME NEW p \in DiskProcs, Alloc(p)
        PROVE  QueueInv'
    BY <1>2, AllocRing DEF QueueInv
  <1>3. ASSUME NEW p \in DiskProcs, AllocFails(p)
        PROVE  QueueInv'
    BY <1>3 DEF AllocFails, WakeForDesc, descvars, ringvars, devicevars,
           QueueInv, Avail, Used
  <1>4. ASSUME NEW p \in DiskProcs, Publish(p)
        PROVE  QueueInv'
    BY <1>4, PublishRing DEF QueueInv
  <1>5. ASSUME NEW p \in DiskProcs, AfterSleep(p), StillOwned(p)
        PROVE  QueueInv'
    BY <1>5 DEF AfterSleep, StillOwned, descvars, ringvars, devicevars, QueueInv,
           Avail, Used
  <1>6. ASSUME NEW p \in DiskProcs, AfterSleep(p), ~StillOwned(p)
        PROVE  QueueInv'
    BY <1>6 DEF AfterSleep, StillOwned, WakeForDesc, ringvars, devicevars,
           QueueInv, Avail, Used
  <1>7. ASSUME NEW p \in DiskProcs, DiskKill(p)
        PROVE  QueueInv'
    BY <1>7 DEF DiskKill, descvars, ringvars, devicevars, QueueInv, Avail,
           Used
  <1>8. ASSUME Fetch
        PROVE  QueueInv'
    BY <1>8, FetchRing DEF QueueInv
  <1>9. ASSUME NEW i \in Desc, Complete(i)
        PROVE  QueueInv'
    BY <1>9, CompleteRing DEF QueueInv
  <1>10. ASSUME IntrEnter
        PROVE  QueueInv'
    BY <1>10 DEF IntrEnter, descvars, ringvars, QueueInv, Avail, Used
  <1>11. ASSUME IntrEntry
        PROVE  QueueInv'
    BY <1>11, EntryRing DEF QueueInv
  <1>12. ASSUME IntrLoopEnds
        PROVE  QueueInv'
    BY <1>12 DEF IntrLoopEnds, descvars, ringvars, QueueInv, Avail, Used
  <1>13. ASSUME IntrExit
        PROVE  QueueInv'
    BY <1>13 DEF IntrExit, IntrAfterLoop, descvars, ringvars, QueueInv, Avail,
           Used
  <1>14. CASE UNCHANGED diskvars
    BY <1>14 DEF diskvars, QueueInv, Avail, Used
  <1> QED BY <1>1, <1>2, <1>3, <1>4, <1>5, <1>6, <1>7, <1>8, <1>9, <1>10,
         <1>11, <1>12, <1>13, <1>14
          DEF DiskNext, Driver

\* Nothing the device has is given back.
LEMMA StepOwn ==
  ASSUME DiskTypeOK, LockInv, ChainInv, ApartInv, QueueInv, OwnInv,
         [DiskNext]_diskvars
  PROVE  OwnInv'
  <1> USE VirtioAssumption DEF VirtioAssumption
  <1>1. ASSUME NEW p \in DiskProcs, NEW w \in BOOLEAN, NEW d \in DiskData, virtio_disk_rw(p, w, d)
        PROVE  OwnInv'
    BY <1>1 DEF virtio_disk_rw, descvars, ringvars, devicevars, DiskTypeOK,
           LockInv, OwnInv, Avail, Used, Requests, Slot
  <1>2. ASSUME NEW p \in DiskProcs, Alloc(p)
        PROVE  OwnInv'
    <2>1. /\ Avail' = Avail /\ Used' = Used /\ working' = working /\ aidx' = aidx
          /\ ring'[Slot] = head'[p]
          /\ Slot' = Slot
      BY <1>2, AllocRing DEF Alloc, Slot
    <2>2. PICK i \in free : head' = [head EXCEPT ![p] = i]
      BY <1>2, AllocTakes
    <2>3. /\ Requests' = Requests \cup {p} /\ p \notin Requests
          /\ owned' = [owned EXCEPT ![p] = TRUE]
          /\ dpc' = [dpc EXCEPT ![p] = "publish"]
          /\ \A q \in DiskProcs : dpc[q] # "publish"
      BY <1>2 DEF Alloc, Requests, DiskTypeOK, LockInv
    <2> QED BY <2>1, <2>2, <2>3 DEF OwnInv, DiskTypeOK, Requests
  <1>3. ASSUME NEW p \in DiskProcs, AllocFails(p)
        PROVE  OwnInv'
    <2>1. /\ UNCHANGED <<head, owned, ring, working>> /\ Slot' = Slot
          /\ Avail' = Avail /\ Used' = Used
      BY <1>3 DEF AllocFails, descvars, ringvars, devicevars, Avail, Used, Slot
    <2>2. Requests \subseteq DiskProcs
      BY DEF Requests
    <2> QED BY <1>3, <2>1, <2>2, FailKeepsRequests DEF OwnInv
  <1>4. ASSUME NEW p \in DiskProcs, Publish(p)
        PROVE  OwnInv'
    <2>1. Avail' = Avail \cup {head[p]} /\ Used' = Used /\ working' = working
      BY <1>4, PublishRing
    <2>2. /\ p \in Requests /\ Requests' = Requests /\ owned[p]
          /\ \A q \in DiskProcs : dpc'[q] # "publish"
          /\ UNCHANGED <<head, owned>>
      BY <1>4 DEF Publish, descvars, Requests, DiskTypeOK, LockInv, OwnInv
    <2> QED BY <1>4, <2>1, <2>2 DEF Publish, OwnInv, DiskTypeOK
  <1>5. ASSUME NEW p \in DiskProcs, AfterSleep(p), StillOwned(p)
        PROVE  OwnInv'
    BY <1>5 DEF AfterSleep, StillOwned, descvars, ringvars, devicevars, DiskTypeOK,
           LockInv, OwnInv, Avail, Used, Requests, Slot
  <1>6. ASSUME NEW p \in DiskProcs, AfterSleep(p), ~StillOwned(p)
        PROVE  OwnInv'
    <2>1. /\ p \in Requests /\ dpc[p] = "check" /\ ~owned[p]
          /\ Requests' = Requests \ {p}
          /\ \A q \in DiskProcs : dpc'[q] = "publish" <=> dpc[q] = "publish"
      BY <1>6, WokenReturns DEF Requests, DiskTypeOK
    <2>2. /\ Avail' = Avail /\ Used' = Used /\ working' = working
          /\ UNCHANGED <<head, owned, ring>> /\ Slot' = Slot
      BY <1>6 DEF AfterSleep, ringvars, devicevars, Avail, Used, Slot
    <2>3. Requests \subseteq DiskProcs
      BY DEF Requests
    <2> QED BY <2>1, <2>2, <2>3 DEF OwnInv
  <1>7. ASSUME NEW p \in DiskProcs, DiskKill(p)
        PROVE  OwnInv'
    BY <1>7 DEF DiskKill, descvars, ringvars, devicevars, DiskTypeOK, LockInv,
           OwnInv, Avail, Used, Requests, Slot
  <1>8. ASSUME Fetch
        PROVE  OwnInv'
    <2>1. PICK i \in Avail :
            Avail' = Avail \ {i} /\ working' = working \cup {i} /\ Used' = Used
      BY <1>8, FetchRing
    <2>2. UNCHANGED <<dpc, head, owned, ring>> /\ Slot' = Slot /\ Requests' = Requests
      BY <1>8 DEF Fetch, ringvars, Slot, Requests
    <2> QED BY <2>1, <2>2 DEF OwnInv
  <1>9. ASSUME NEW i \in Desc, Complete(i)
        PROVE  OwnInv'
    <2>1. /\ i \in working /\ Avail' = Avail
          /\ working' = working \ {i} /\ Used' = Used \cup {i}
      BY <1>9, CompleteRing
    <2>2. UNCHANGED <<dpc, head, owned, ring>> /\ Slot' = Slot /\ Requests' = Requests
      BY <1>9 DEF Complete, Slot, Requests
    <2> QED BY <2>1, <2>2 DEF OwnInv
  <1>10. ASSUME IntrEnter
        PROVE  OwnInv'
    BY <1>10 DEF IntrEnter, descvars, ringvars, DiskTypeOK, LockInv, OwnInv,
           Avail, Used, Requests, Slot
  <1>11. ASSUME IntrEntry
        PROVE  OwnInv'
    <2>1. PICK p \in Requests :
            /\ head[p] \in Used
            /\ dpc[p] # "publish"
            /\ owned' = [owned EXCEPT ![p] = FALSE]
            /\ dpc' = [dpc EXCEPT ![p] = IF @ = "asleep" THEN "check" ELSE @]
            /\ Avail' = Avail /\ working' = working /\ Used' = Used \ {head[p]}
      BY <1>11, EntryRing
    <2>2. /\ UNCHANGED <<head, ring>> /\ Slot' = Slot /\ Requests' = Requests
          /\ p \in DiskProcs
          /\ \A q \in DiskProcs : dpc'[q] = "publish" <=> dpc[q] = "publish"
      BY <1>11, <2>1 DEF IntrEntry, Slot, Requests, DiskTypeOK
    <2>3. head[p] \notin Avail /\ head[p] \notin working
      BY <2>1 DEF QueueInv
    <2>4. \A q \in DiskProcs : q # p => owned'[q] = owned[q]
      BY <2>1, <2>2 DEF DiskTypeOK
    <2>5. Requests \subseteq DiskProcs
      BY DEF Requests
    <2> QED BY <2>1, <2>2, <2>3, <2>4, <2>5 DEF OwnInv
  <1>12. ASSUME IntrLoopEnds
        PROVE  OwnInv'
    BY <1>12 DEF IntrLoopEnds, descvars, ringvars, DiskTypeOK, LockInv,
           OwnInv, Avail, Used, Requests, Slot
  <1>13. ASSUME IntrExit
        PROVE  OwnInv'
    BY <1>13 DEF IntrExit, IntrAfterLoop, descvars, ringvars, DiskTypeOK,
           LockInv, OwnInv, Avail, Used, Requests, Slot
  <1>14. CASE UNCHANGED diskvars
    BY <1>14 DEF diskvars, DiskTypeOK, LockInv, OwnInv, Avail, Used, Requests,
           Slot
  <1> QED BY <1>1, <1>2, <1>3, <1>4, <1>5, <1>6, <1>7, <1>8, <1>9, <1>10,
         <1>11, <1>12, <1>13, <1>14
          DEF DiskNext, Driver

\* What the device has done stays done until the next request.
LEMMA StepDone ==
  ASSUME DiskTypeOK, LockInv, ChainInv, ApartInv, QueueInv, OwnInv, DoneInv,
         [DiskNext]_diskvars
  PROVE  DoneInv'
  <1> USE VirtioAssumption DEF VirtioAssumption
  <1>1. ASSUME NEW p \in DiskProcs, NEW w \in BOOLEAN, NEW d \in DiskData, virtio_disk_rw(p, w, d)
        PROVE  DoneInv'
    BY <1>1 DEF virtio_disk_rw, descvars, ringvars, devicevars, DiskTypeOK,
           LockInv, DoneInv, Used, Requests
  <1>2. ASSUME NEW p \in DiskProcs, Alloc(p)
        PROVE  DoneInv'
    <2>1. Used' = Used
      BY <1>2, AllocRing
    <2>2. PICK i \in free : head' = [head EXCEPT ![p] = i]
      BY <1>2, AllocTakes
    <2>3. i \notin Used
      BY <2>2, NotYetSeen
    <2> QED BY <1>2, <2>1, <2>2, <2>3
        DEF Alloc, devicevars, DoneInv, DiskTypeOK, Requests
  <1>3. ASSUME NEW p \in DiskProcs, AllocFails(p)
        PROVE  DoneInv'
    BY <1>3 DEF AllocFails, WakeForDesc, descvars, ringvars, devicevars,
           DiskTypeOK, LockInv, DoneInv, Used, Requests
  <1>4. ASSUME NEW p \in DiskProcs, Publish(p)
        PROVE  DoneInv'
    <2>1. Used' = Used
      BY <1>4, PublishRing
    <2> QED BY <1>4, <2>1 DEF Publish, devicevars, DoneInv, DiskTypeOK, Requests
  <1>5. ASSUME NEW p \in DiskProcs, AfterSleep(p), StillOwned(p)
        PROVE  DoneInv'
    BY <1>5 DEF AfterSleep, StillOwned, descvars, ringvars, devicevars, DiskTypeOK,
           LockInv, DoneInv, Used, Requests
  <1>6. ASSUME NEW p \in DiskProcs, AfterSleep(p), ~StillOwned(p)
        PROVE  DoneInv'
    <2>1. p \in Requests /\ ~owned[p]
      BY <1>6, WokenReturns
    <2>2. UNCHANGED <<ddata, media, owned, head>> /\ Used' = Used
      BY <1>6 DEF AfterSleep, ringvars, devicevars, Used
    <2>3. /\ Requests' = Requests \ {p}
          /\ \A q \in DiskProcs : dpc'[q] = "user" <=> q = p \/ dpc[q] = "user"
      BY <1>6, WokenReturns DEF Requests, DiskTypeOK
    <2> QED BY <2>1, <2>2, <2>3 DEF DoneInv
  <1>7. ASSUME NEW p \in DiskProcs, DiskKill(p)
        PROVE  DoneInv'
    BY <1>7 DEF DiskKill, descvars, ringvars, devicevars, DiskTypeOK, LockInv,
           DoneInv, Used, Requests
  <1>8. ASSUME Fetch
        PROVE  DoneInv'
    <2>1. Used' = Used
      BY <1>8, FetchRing
    <2> QED BY <1>8, <2>1 DEF Fetch, DoneInv, Requests
  <1>9. ASSUME NEW i \in Desc, Complete(i)
        PROVE  DoneInv'
    <2>1. i \in working /\ Used' = Used \cup {i}
      BY <1>9, CompleteRing
    <2>2. PICK p \in Requests : head[p] = i /\ owned[p]
      BY <2>1 DEF OwnInv
    <2>3. info[i] = {p} /\ p \in DiskProcs
      BY <2>2 DEF ChainInv, Requests
    <2>4. IF op[i] = "out"
          THEN media' = [media EXCEPT ![p] = ddata[p]] /\ UNCHANGED ddata
          ELSE ddata' = [ddata EXCEPT ![p] = media[p]] /\ UNCHANGED media
      BY <1>9, <2>3 DEF Complete
    <2>5. /\ ddata'[p] = media'[p]
          /\ \A q \in DiskProcs : q # p => ddata'[q] = ddata[q] /\ media'[q] = media[q]
      BY <2>3, <2>4 DEF DiskTypeOK
    <2>6. UNCHANGED <<dpc, owned, head>> /\ Requests' = Requests
      BY <1>9 DEF Complete, Requests
    <2>7. \A q \in Requests : q # p => head[q] # i
      BY <2>2, HeadsDiffer
    <2> QED BY <2>1, <2>5, <2>6, <2>7 DEF DoneInv
  <1>10. ASSUME IntrEnter
        PROVE  DoneInv'
    BY <1>10 DEF IntrEnter, descvars, ringvars, DiskTypeOK, LockInv, DoneInv,
           Used, Requests
  <1>11. ASSUME IntrEntry
        PROVE  DoneInv'
    <2>1. PICK p \in Requests :
            /\ head[p] \in Used
            /\ owned' = [owned EXCEPT ![p] = FALSE]
            /\ dpc' = [dpc EXCEPT ![p] = IF @ = "asleep" THEN "check" ELSE @]
            /\ Used' = Used \ {head[p]}
      BY <1>11, EntryRing
    <2>2. /\ UNCHANGED <<head, ddata, media>> /\ Requests' = Requests
          /\ p \in DiskProcs
          /\ \A q \in DiskProcs : dpc'[q] = "user" <=> dpc[q] = "user"
      BY <1>11, <2>1 DEF IntrEntry, devicevars, Requests, DiskTypeOK
    <2>3. \A q \in DiskProcs : q # p => owned'[q] = owned[q]
      BY <2>1, <2>2 DEF DiskTypeOK
    <2>4. ddata[p] = media[p]
      BY <2>1, <2>2 DEF DoneInv
    <2> QED BY <2>1, <2>2, <2>3, <2>4 DEF DoneInv
  <1>12. ASSUME IntrLoopEnds
        PROVE  DoneInv'
    BY <1>12 DEF IntrLoopEnds, descvars, ringvars, DiskTypeOK, LockInv,
           DoneInv, Used, Requests
  <1>13. ASSUME IntrExit
        PROVE  DoneInv'
    BY <1>13 DEF IntrExit, IntrAfterLoop, descvars, ringvars, DiskTypeOK,
           LockInv, DoneInv, Used, Requests
  <1>14. CASE UNCHANGED diskvars
    BY <1>14 DEF diskvars, DiskTypeOK, LockInv, DoneInv, Used, Requests
  <1> QED BY <1>1, <1>2, <1>3, <1>4, <1>5, <1>6, <1>7, <1>8, <1>9, <1>10,
         <1>11, <1>12, <1>13, <1>14
          DEF DiskNext, Driver

\* A completion is seen by the handler or interrupts again.
LEMMA StepLost ==
  ASSUME DiskTypeOK, LockInv, NoLostCompletion, [DiskNext]_diskvars
  PROVE  NoLostCompletion'
  <1> USE VirtioAssumption DEF VirtioAssumption
  <1>1. ASSUME NEW p \in DiskProcs, NEW w \in BOOLEAN, NEW d \in DiskData, virtio_disk_rw(p, w, d)
        PROVE  NoLostCompletion'
    BY <1>1 DEF virtio_disk_rw, descvars, ringvars, devicevars, DiskTypeOK,
           LockInv, NoLostCompletion
  <1>2. ASSUME NEW p \in DiskProcs, Alloc(p)
        PROVE  NoLostCompletion'
    BY <1>2 DEF Alloc, devicevars, DiskTypeOK, LockInv, NoLostCompletion
  <1>3. ASSUME NEW p \in DiskProcs, AllocFails(p)
        PROVE  NoLostCompletion'
    BY <1>3 DEF AllocFails, WakeForDesc, descvars, ringvars, devicevars,
           DiskTypeOK, LockInv, NoLostCompletion
  <1>4. ASSUME NEW p \in DiskProcs, Publish(p)
        PROVE  NoLostCompletion'
    BY <1>4 DEF Publish, descvars, devicevars, DiskTypeOK, LockInv,
           NoLostCompletion
  <1>5. ASSUME NEW p \in DiskProcs, AfterSleep(p), StillOwned(p)
        PROVE  NoLostCompletion'
    BY <1>5 DEF AfterSleep, StillOwned, descvars, ringvars, devicevars, DiskTypeOK,
           LockInv, NoLostCompletion
  <1>6. ASSUME NEW p \in DiskProcs, AfterSleep(p), ~StillOwned(p)
        PROVE  NoLostCompletion'
    BY <1>6 DEF AfterSleep, StillOwned, WakeForDesc, ringvars, devicevars,
           DiskTypeOK, LockInv, NoLostCompletion
  <1>7. ASSUME NEW p \in DiskProcs, DiskKill(p)
        PROVE  NoLostCompletion'
    BY <1>7 DEF DiskKill, descvars, ringvars, devicevars, DiskTypeOK, LockInv,
           NoLostCompletion
  <1>8. ASSUME Fetch
        PROVE  NoLostCompletion'
    BY <1>8 DEF Fetch, descvars, ringvars, DiskTypeOK, LockInv,
           NoLostCompletion
  <1>9. ASSUME NEW i \in Desc, Complete(i)
        PROVE  NoLostCompletion'
    BY <1>9 DEF Complete, descvars, DiskTypeOK, LockInv, NoLostCompletion
  <1>10. ASSUME IntrEnter
        PROVE  NoLostCompletion'
    BY <1>10 DEF IntrEnter, descvars, ringvars, DiskTypeOK, LockInv,
           NoLostCompletion
  <1>11. ASSUME IntrEntry
        PROVE  NoLostCompletion'
    BY <1>11 DEF IntrEntry, descvars, devicevars, DiskTypeOK, LockInv,
           NoLostCompletion
  <1>12. ASSUME IntrLoopEnds
        PROVE  NoLostCompletion'
    BY <1>12 DEF IntrLoopEnds, descvars, ringvars, DiskTypeOK, LockInv,
           NoLostCompletion
  <1>13. ASSUME IntrExit
        PROVE  NoLostCompletion'
    BY <1>13 DEF IntrExit, IntrAfterLoop, descvars, ringvars, DiskTypeOK,
           LockInv, NoLostCompletion
  <1>14. CASE UNCHANGED diskvars
    BY <1>14 DEF diskvars, DiskTypeOK, LockInv, NoLostCompletion
  <1> QED BY <1>1, <1>2, <1>3, <1>4, <1>5, <1>6, <1>7, <1>8, <1>9, <1>10,
         <1>11, <1>12, <1>13, <1>14
          DEF DiskNext, Driver

-----------------------------------------------------------------------------
(* The theorems                                                            *)

\* virtio_disk_init establishes the invariant.
LEMMA InitDriverIInv == DiskInit => DiskTypeOK /\ DriverIInv
  <1> SUFFICES ASSUME DiskInit PROVE DiskTypeOK /\ DriverIInv
    OBVIOUS
  <1> USE VirtioAssumption DEF VirtioAssumption, DiskInit
  <1>1. 0 \in Desc /\ 0 \in Index
    BY Widths DEF Desc, Index
  <1>2. DiskTypeOK
    BY <1>1 DEF DiskTypeOK, Index
  <1>3. Requests = {}
    BY DEF Requests
  <1>4. Dist(0, 0) = 0
    BY <1>1, DistSteps
  <1>5. Avail = {} /\ Used = {}
    BY <1>4, BetweenIs DEF Avail, Used
  <1>6. LockInv /\ NoLostCompletion
    BY DEF LockInv, NoLostCompletion
  <1>7. CountInv
    BY <1>3, DescFinite, FS_EmptySet, Widths DEF CountInv
  <1>8. QueueInv
    BY <1>4, <1>5 DEF QueueInv, Distinct
  <1>9. ChainInv /\ ApartInv /\ OwnInv /\ DoneInv
    BY <1>3, <1>5 DEF ChainInv, ApartInv, OwnInv, DoneInv
  <1> QED BY <1>2, <1>6, <1>7, <1>8, <1>9 DEF DriverIInv

\* The inductive invariant of the driver.
THEOREM DriverInductive == DiskSpec => [](DiskTypeOK /\ DriverIInv)
  <1>1. DiskTypeOK /\ DriverIInv /\ [DiskNext]_diskvars => (DiskTypeOK /\ DriverIInv)'
    BY StepType, StepLock, StepChain, StepCount, StepQueue, StepOwn, StepDone,
       StepLost
    DEF DriverIInv
  <1> QED BY <1>1, InitDriverIInv, PTL DEF DiskSpec

\* No descriptor leaks, is freed twice or reused early, the device works on
\* nothing that was given back, and no completion is forgotten, for any size
\* of the rings (virtio_disk.c:205-330).
THEOREM DriverSound == DiskSpec => []DriverInv
  <1>1. DiskTypeOK /\ DriverIInv => DriverInv
    <2> SUFFICES ASSUME DiskTypeOK, DriverIInv PROVE DriverInv
      OBVIOUS
    <2>1. ASSUME NEW p \in Requests
          PROVE  Cardinality(Chain(head[p]) \ free) = 3 /\ info[head[p]] = {p}
      <3>1. Chain(head[p]) = Links(p) /\ info[head[p]] = {p}
        BY ChainIsLinks DEF DriverIInv, ChainInv
      <3>2. Cardinality(Links(p)) = 3 /\ Links(p) \ free = Links(p)
        BY LinksThree DEF DriverIInv
      <3> QED BY <3>1, <3>2
    <2>2. DescriptorsAccounted
      BY <2>1 DEF DescriptorsAccounted, DriverIInv, CountInv
    <2>3. DeviceOwnsRequests
      BY DEF DeviceOwnsRequests, DriverIInv, OwnInv, Avail, Used
    <2> QED BY <2>2, <2>3 DEF DriverInv, DriverIInv
  <1> QED BY <1>1, DriverInductive, PTL

\* A process that is back from virtio_disk_rw finds in its buffer what is on
\* the disk, even when kill() woke it early (virtio_disk.c:284).
THEOREM TransfersComplete == DiskSpec => []TransferComplete
  <1>1. DiskTypeOK /\ DriverIInv => TransferComplete
    BY DEF DriverIInv, DoneInv, TransferComplete
  <1> QED BY <1>1, DriverInductive, PTL
=============================================================================
