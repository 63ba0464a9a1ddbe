------------------------------- MODULE MCDisk -------------------------------
(***************************************************************************)
(* The buffer cache, the disk driver and the process table for TLC.  A     *)
(* behaviour runs one of them, the others stay in their initial states.    *)
(***************************************************************************)
EXTENDS Bcache, VirtioDisk, Proc

VARIABLE part

\* Only one part moves, and the others are the same for all their processes:
\* the two processes of the driver and the two CPUs may be exchanged together
\* with a transposition of the three processes of the cache.
Odd(s) == Cardinality({p \in CacheProcs : s[p] = p}) = 1
Exchanged(S, s) == [x \in S |-> IF Odd(s) THEN CHOOSE y \in S : y # x ELSE x]
Symmetry == {s @@ Exchanged(DiskProcs, s) @@ Exchanged(CPUs, s) : s \in Permutations(CacheProcs)}

\* A ring without the entries that have been read and not been written since;
\* nobody looks at those again.
Live(r, from, to) ==
  [k \in Desc |-> IF \E n \in 0..(to + UINT16 - from) % UINT16 : (from + n) % NUM = k
                  THEN r[k] ELSE 0]

View == <<free, next, more, op, info, Live(ring, seen, aidx), aidx,
          Live(uring, used_idx, uidx), uidx, used_idx, seen, working, intr,
          media, ddata, owned, drained, vdisk_lock, dpc, write, head,
          cachevars, vars, part>>

MCInit == /\ part \in {"cache", "driver", "processes"}
          /\ CacheInit /\ DiskInit /\ Init
          /\ bdata = [b \in Bufs |-> 0]       \* bcache is zeroed static memory
          /\ part # "cache" => disk = [k \in CacheBlocks |-> 0]
          /\ part # "driver" => media = [p \in DiskProcs |-> 0]

MCNext == \/ part = "cache" /\ CacheNext /\ UNCHANGED <<diskvars, vars, part>>
          \/ part = "driver" /\ DiskNext /\ UNCHANGED <<cachevars, vars, part>>
          \/ part = "processes" /\ Next /\ UNCHANGED <<cachevars, diskvars, part>>

MCSpec == MCInit /\ [][MCNext]_<<cachevars, diskvars, vars, part>>
=============================================================================
