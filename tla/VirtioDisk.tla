----------------------------- MODULE VirtioDisk -----------------------------
(***************************************************************************)
(* The driver of the virtio disk (kernel/virtio_disk.c), the device that   *)
(* works through the avail ring and answers in the used ring, and the      *)
(* completion interrupt.                                                   *)
(*                                                                         *)
(* A process holds the sleep-lock of the buffer it passes to               *)
(* virtio_disk_rw, and the buffer cache has one buffer per block: process  *)
(* p transfers block p.  A step is what the driver does under vdisk_lock   *)
(* between two points at which the device can see a difference; the device *)
(* runs at any time and may finish requests out of order.                  *)
(***************************************************************************)
EXTENDS Naturals, FiniteSets

CONSTANTS DiskProcs,       \* processes, each with the buffer of its block
          NUM,         \* descriptors, and entries of each ring
          UINT16,      \* the ring indices count modulo this
          DiskData,        \* contents of a block
          Free,        \* "vdisk_lock is free"
          Intr         \* the interrupt handler, as a holder of vdisk_lock

ASSUME VirtioAssumption ==
  /\ NUM \in Nat /\ NUM >= 3
  /\ UINT16 \in Nat /\ UINT16 > NUM /\ UINT16 % NUM = 0
  /\ Free \notin DiskProcs \cup {Intr} /\ Intr \notin DiskProcs

VARIABLES free,        \* disk.free, the set of free descriptors
          next,        \* desc[i].next
          more,        \* desc[i].flags & VRING_DESC_F_NEXT
          op,          \* ops[i].type
          info,        \* info[i].b, the set with that buffer or the empty set
          ring, aidx,  \* disk.avail: ring and idx
          uring, uidx, \* disk.used: ring and idx
          used_idx,    \* how far the driver has looked in the used ring
          seen,        \* device: how far it has looked in the avail ring
          working,     \* device: heads of the chains it is working on
          intr,        \* device: interrupt status
          media,       \* device: the blocks
          ddata,        \* b->data
          owned,       \* b->disk
          drained,     \* the handler has left its loop
          vdisk_lock,        \* holder of vdisk_lock
          dpc,          \* where each process is
          write,       \* the argument of virtio_disk_rw
          head         \* idx[0] of the request of a process

descvars   == <<free, next, more, op, info>>
ringvars   == <<ring, aidx, uring, uidx, used_idx>>
devicevars == <<seen, working, intr, media, drained>>
diskvars == <<free, next, more, op, info, ring, aidx, uring, uidx, used_idx, seen,
              working, intr, media, ddata, owned, drained, vdisk_lock, dpc, write,
              head>>

Desc == 0..NUM-1

DiskTypeOK ==
  /\ free \subseteq Desc
  /\ next \in [Desc -> Desc]
  /\ more \in [Desc -> BOOLEAN]
  /\ op \in [Desc -> {"in", "out"}]
  /\ info \in [Desc -> SUBSET DiskProcs]
  /\ ring \in [Desc -> Desc]
  /\ uring \in [Desc -> Desc]
  /\ {aidx, uidx, used_idx, seen} \subseteq 0..UINT16-1
  /\ working \subseteq Desc
  /\ intr \in BOOLEAN
  /\ media \in [DiskProcs -> DiskData]
  /\ ddata \in [DiskProcs -> DiskData]
  /\ owned \in [DiskProcs -> BOOLEAN]
  /\ drained \in BOOLEAN
  /\ vdisk_lock \in DiskProcs \cup {Free, Intr}
  /\ dpc \in [DiskProcs -> {"user", "alloc", "nodesc", "publish", "asleep", "check"}]
  /\ write \in [DiskProcs -> BOOLEAN]
  /\ head \in [DiskProcs -> Desc]

\* virtio_disk_init: zeroed queues, every descriptor free.
DiskInit ==
  /\ free = Desc
  /\ next = [i \in Desc |-> 0]
  /\ more = [i \in Desc |-> FALSE]
  /\ op = [i \in Desc |-> "in"]
  /\ info = [i \in Desc |-> {}]
  /\ ring = [i \in Desc |-> 0]
  /\ uring = [i \in Desc |-> 0]
  /\ aidx = 0 /\ uidx = 0 /\ used_idx = 0 /\ seen = 0
  /\ working = {}
  /\ intr = FALSE
  /\ media \in [DiskProcs -> DiskData]
  /\ ddata = media
  /\ owned = [p \in DiskProcs |-> FALSE]
  /\ drained = FALSE
  /\ vdisk_lock = Free
  /\ dpc = [p \in DiskProcs |-> "user"]
  /\ write = [p \in DiskProcs |-> FALSE]
  /\ head = [p \in DiskProcs |-> 0]

-----------------------------------------------------------------------------
\* idx += 1 of a uint16.
NextIdx(i) == (i + 1) % UINT16

WakeNobody(p, place) == [dpc EXCEPT ![p] = place]

\* wakeup(&disk.free[0]) and the new place of p itself.
WakeForDesc(p, place) ==
  [q \in DiskProcs |-> IF q = p THEN place
                   ELSE IF dpc[q] = "nodesc" THEN "alloc" ELSE dpc[q]]

\* bread into a buffer that still has the contents of another block, or
\* bwrite of new contents.
virtio_disk_rw(p, w, d) ==
  /\ dpc[p] = "user"
  /\ dpc' = [dpc EXCEPT ![p] = "alloc"]
  /\ write' = [write EXCEPT ![p] = w]
  /\ ddata' = [ddata EXCEPT ![p] = d]
  /\ UNCHANGED <<descvars, ringvars, devicevars, owned, vdisk_lock, head>>

\* alloc_desc takes the free descriptor with the smallest number.
Lowest(S) == CHOOSE i \in S : \A j \in S : i <= j

\* The entry of the avail ring that the next request goes to.
Slot == aidx % NUM

\* alloc3_desc succeeds; the chain is formatted and put on the ring.
Alloc(p) ==
  /\ dpc[p] = "alloc" /\ vdisk_lock = Free
  /\ Cardinality(free) >= 3
  /\ LET i0 == Lowest(free)
         i1 == Lowest(free \ {i0})
         i2 == Lowest(free \ {i0, i1})
     IN  /\ free' = free \ {i0, i1, i2}
         /\ next' = [next EXCEPT ![i0] = i1, ![i1] = i2, ![i2] = 0]
         /\ more' = [more EXCEPT ![i0] = TRUE, ![i1] = TRUE, ![i2] = FALSE]
         /\ op' = [op EXCEPT ![i0] = IF write[p] THEN "out" ELSE "in"]
         /\ info' = [info EXCEPT ![i0] = {p}]
         /\ ring' = [ring EXCEPT ![Slot] = i0]
         /\ head' = [head EXCEPT ![p] = i0]
  /\ owned' = [owned EXCEPT ![p] = TRUE]
  /\ vdisk_lock' = p
  /\ dpc' = [dpc EXCEPT ![p] = "publish"]
  /\ UNCHANGED <<aidx, uring, uidx, used_idx, devicevars, ddata, write>>

\* alloc3_desc fails and gives back what it got, waking everybody who waits
\* for a descriptor, before the process goes to sleep itself.
AllocFails(p) ==
  /\ dpc[p] = "alloc" /\ vdisk_lock = Free
  /\ Cardinality(free) < 3
  /\ dpc' = IF free = {} THEN [dpc EXCEPT ![p] = "nodesc"]
           ELSE WakeForDesc(p, "nodesc")
  /\ UNCHANGED <<descvars, ringvars, devicevars, ddata, owned, vdisk_lock, write,
                 head>>

\* The request becomes visible to the device; the process sleeps on b.
Publish(p) ==
  /\ dpc[p] = "publish"
  /\ aidx' = NextIdx(aidx)
  /\ vdisk_lock' = Free
  /\ dpc' = [dpc EXCEPT ![p] = "asleep"]
  /\ UNCHANGED <<descvars, ring, uring, uidx, used_idx, devicevars, ddata, owned,
                 write, head>>

IgnoreOwner(p) == FALSE

\* The loop condition b->disk == 1.
StillOwned(p) == owned[p]

OnlyHead(i) == {i}

\* The descriptors that free_chain walks through.
Chain(i) ==
  LET After(j) == IF more[j] THEN {next[j]} ELSE {}
  IN  {i} \cup After(i) \cup UNION {After(j) : j \in After(i)}

\* Back from sleep: by the interrupt, or by kill().
AfterSleep(p) ==
  /\ dpc[p] = "check" /\ vdisk_lock = Free
  /\ IF StillOwned(p)
     THEN /\ dpc' = [dpc EXCEPT ![p] = "asleep"]
          /\ UNCHANGED descvars
     ELSE /\ info' = [info EXCEPT ![head[p]] = {}]
          /\ free' = free \cup Chain(head[p])
          /\ next' = [i \in Desc |-> IF i \in Chain(head[p]) THEN 0 ELSE next[i]]
          /\ more' = [i \in Desc |-> i \notin Chain(head[p]) /\ more[i]]
          /\ dpc' = WakeForDesc(p, "user")
          /\ UNCHANGED op
  /\ UNCHANGED <<ringvars, devicevars, ddata, owned, vdisk_lock, write, head>>

\* kill() makes a sleeping process runnable whatever it waits for.
DiskKill(p) ==
  /\ dpc[p] \in {"asleep", "nodesc"}
  /\ dpc' = [dpc EXCEPT ![p] = IF @ = "asleep" THEN "check" ELSE "alloc"]
  /\ UNCHANGED <<descvars, ringvars, devicevars, ddata, owned, vdisk_lock, write,
                 head>>

-----------------------------------------------------------------------------
(* The device                                                              *)

Fetch ==
  /\ seen # aidx
  /\ working' = working \cup {ring[seen % NUM]}
  /\ seen' = NextIdx(seen)
  /\ UNCHANGED <<descvars, ringvars, intr, media, drained, ddata, owned, vdisk_lock,
                 dpc,
                 write, head>>

Complete(i) ==
  /\ i \in working
  /\ working' = working \ {i}
  /\ \E p \in info[i] :
       IF op[i] = "out"
       THEN media' = [media EXCEPT ![p] = ddata[p]] /\ UNCHANGED ddata
       ELSE ddata' = [ddata EXCEPT ![p] = media[p]] /\ UNCHANGED media
  /\ uring' = [uring EXCEPT ![uidx % NUM] = i]
  /\ uidx' = NextIdx(uidx)
  /\ intr' = TRUE
  /\ UNCHANGED <<descvars, ring, aidx, used_idx, seen, drained, owned, vdisk_lock, dpc,
                 write, head>>

-----------------------------------------------------------------------------
(* virtio_disk_intr                                                        *)

IntrEnter ==
  /\ intr /\ vdisk_lock = Free
  /\ vdisk_lock' = Intr
  /\ intr' = FALSE
  /\ UNCHANGED <<descvars, ringvars, seen, working, media, drained, ddata,
                 owned, dpc,
                 write, head>>

\* One turn of the loop: disk is done with b.
IntrEntry ==
  /\ vdisk_lock = Intr /\ ~drained
  /\ used_idx # uidx
  /\ LET done == info[uring[used_idx % NUM]]
     IN  /\ owned' = [p \in DiskProcs |-> owned[p] /\ p \notin done]
         /\ dpc' = [p \in DiskProcs |-> IF p \in done /\ dpc[p] = "asleep" THEN "check"
                                   ELSE dpc[p]]
  /\ used_idx' = NextIdx(used_idx)
  /\ UNCHANGED <<descvars, ring, aidx, uring, uidx, devicevars, ddata, vdisk_lock,
                 write, head>>

\* The interrupt was acknowledged before the loop and not again after it.
IntrAfterLoop == intr

IntrLoopEnds ==
  /\ vdisk_lock = Intr /\ ~drained
  /\ used_idx = uidx
  /\ drained' = TRUE
  /\ UNCHANGED <<descvars, ringvars, seen, working, intr, media, ddata, owned,
                 vdisk_lock, dpc, write, head>>

IntrExit ==
  /\ vdisk_lock = Intr /\ drained
  /\ drained' = FALSE
  /\ vdisk_lock' = Free
  /\ intr' = IntrAfterLoop
  /\ UNCHANGED <<descvars, ringvars, seen, working, media, ddata, owned, dpc,
                 write,
                 head>>

-----------------------------------------------------------------------------
Driver(p) == Alloc(p) \/ AllocFails(p) \/ Publish(p) \/ AfterSleep(p)

DiskNext == \/ \E p \in DiskProcs : Driver(p) \/ DiskKill(p)
            \/ \E p \in DiskProcs, w \in BOOLEAN, d \in DiskData : virtio_disk_rw(p, w, d)
            \/ Fetch
            \/ \E i \in Desc : Complete(i)
            \/ IntrEnter \/ IntrEntry \/ IntrLoopEnds \/ IntrExit

DiskSpec == DiskInit /\ [][DiskNext]_diskvars

\* The device serves every request, and a process or the handler that can
\* take a step for good takes it.  Fairness is weak: vdisk_lock is a
\* test-and-set lock and wakeup() wakes every sleeper, so nothing decides who
\* of several processes gets the lock, or the descriptors, first.
DriverFairness ==
  /\ \A p \in DiskProcs : WF_diskvars(Driver(p))
  /\ WF_diskvars(Fetch) /\ \A i \in Desc : WF_diskvars(Complete(i))
  /\ WF_diskvars(IntrEnter \/ IntrEntry \/ IntrLoopEnds \/ IntrExit)

-----------------------------------------------------------------------------
(* Properties                                                              *)

\* Processes whose request has descriptors.
Requests == {p \in DiskProcs : dpc[p] \in {"publish", "asleep", "check"}}

\* Every descriptor that is not free belongs to the chain of exactly one
\* request: none leaks, none is freed twice (the panics of free_desc).
DescriptorsAccounted ==
  /\ \A p \in Requests : /\ Cardinality(Chain(head[p]) \ free) = 3
                          /\ info[head[p]] = {p}
  /\ Cardinality(free) + 3 * Cardinality(Requests) = NUM

\* Entries of a ring from one index up to another.
Between(r, from, to) ==
  {r[(from + k) % NUM] : k \in 0..((to + UINT16 - from) % UINT16) - 1}

\* Whatever the device still has to do or the driver still has to look at is
\* the chain of a request whose buffer the device owns: no descriptor is
\* reused, and no buffer given back, too early.
DeviceOwnsRequests ==
  \A i \in Between(ring, seen, aidx) \cup working
             \cup Between(uring, used_idx, uidx) :
    \E p \in Requests : head[p] = i /\ owned[p]

\* When virtio_disk_rw has returned, the block is in the buffer and on disk.
TransferComplete ==
  \A p \in DiskProcs : dpc[p] = "user" => ddata[p] = media[p]

\* A completion that the driver has not looked at is never forgotten: the
\* interrupt is still pending, or the handler is still in its loop.
NoLostCompletion == used_idx # uidx => intr \/ (vdisk_lock = Intr /\ ~drained)

\* virtio_disk_rw of p returns.
Returns(p) == dpc[p] = "check" /\ dpc'[p] = "user"

\* A request given to the device is completed and its completion is noticed;
\* and as long as somebody is in virtio_disk_rw, calls of it return, so that a
\* process waits for ever, for descriptors or for the lock, only while others
\* overtake it again and again.  No completion is lost between two interrupts
\* and no wakeup of a sleeper for descriptors; nothing is promised to a single
\* process, as neither the lock nor wakeup() keeps an order.
RequestsReturn ==
  /\ \A p \in DiskProcs : owned[p] ~> ~owned[p]
  /\ []<>(\A p \in DiskProcs : dpc[p] = "user")
     \/ []<><<\E p \in DiskProcs : Returns(p)>>_diskvars

\* The invariant of the driver: rings and descriptors are well formed, no
\* descriptor leaks, what the device may touch belongs to a request in
\* progress, and no completion is forgotten.
DriverInv == DiskTypeOK /\ DescriptorsAccounted /\ DeviceOwnsRequests /\ NoLostCompletion
=============================================================================
