------------------------------- MODULE Umalloc ------------------------------
(***************************************************************************)
(* user/umalloc.c: the allocator of user programs.  Memory is counted in   *)
(* units of a Header.  Address 0 is the static variable base, the break    *)
(* starts at 2: base lies below the heap and never touches it.             *)
(* A block begins with its header, whose size counts the header itself.    *)
(***************************************************************************)
EXTENDS Integers, FiniteSets, FiniteSetsExt

CONSTANTS MoreCore,    \* the least number of units morecore asks for (4096)
          Units,       \* the sizes that malloc is asked for, headers included
          HeapEnd      \* memory ends here: sbrk fails

VARIABLE heap
\* ptr and size: the fields of the header at an address, 0 where there is no
\* header (any more), and ptr in a block that is in use; freep: where the
\* search begins, -1 for the null pointer; brk: the break; taken: the blocks
\* the program has got; alien: the units it has got from sbrk itself.

base == 0
Addresses == 0..HeapEnd

HeapInit == heap = [ptr |-> [a \in Addresses |-> 0], size |-> [a \in Addresses |-> 0],
                    freep |-> -1, brk |-> 2, taken |-> {}, alien |-> {}]

-----------------------------------------------------------------------------
\* The loop of free: the first entry from p on between which and its
\* successor the block bp belongs; or the last one, if bp lies at an end.
Between(h, p, bp) == \/ bp > p /\ bp < h.ptr[p]
                     \/ p >= h.ptr[p] /\ (bp > p \/ bp < h.ptr[p])
RECURSIVE Place(_, _, _)
Place(h, p, bp) == IF Between(h, p, bp) THEN p ELSE Place(h, h.ptr[p], bp)

NeverTouches(h, a, b) == FALSE

\* Block a ends where block b begins.
Touches(h, a, b) == a + h.size[a] = b

free(h, bp) ==
  LET p == Place(h, h.freep, bp)
      n == h.ptr[p]
      upper == IF Touches(h, bp, n)
               THEN [h EXCEPT !.size[bp] = @ + h.size[n], !.ptr[bp] = h.ptr[n],
                             !.size[n] = 0, !.ptr[n] = 0]
               ELSE [h EXCEPT !.ptr[bp] = n]
      lower == IF Touches(upper, p, bp)
               THEN [upper EXCEPT !.size[p] = @ + upper.size[bp], !.ptr[p] = upper.ptr[bp],
                                 !.size[bp] = 0, !.ptr[bp] = 0]
               ELSE [upper EXCEPT !.ptr[p] = bp]
  IN  [lower EXCEPT !.freep = p]

CoreFits(h, nu) == h.brk + nu <= HeapEnd
Core(nu) == IF nu < MoreCore THEN MoreCore ELSE nu
\* morecore: a new block goes through free into the list.  Its size is below
\* 2^31 bytes: sbrk takes an int.
morecore(h, nu) == free([h EXCEPT !.brk = @ + nu, !.size[h.brk] = nu], h.brk)

\* The search of malloc with prevp before p; a record with the block, or 0.
Take(h, prevp, p, n) ==
  LET rest == h.size[p] - n
      b == p + rest
  IN  IF rest = 0
      THEN [h |-> [[h EXCEPT !.ptr[p] = 0] EXCEPT !.ptr[prevp] = h.ptr[p], !.freep = prevp], got |-> p]
      ELSE [h |-> [h EXCEPT !.size[p] = rest, !.size[b] = n, !.freep = prevp], got |-> b]
RECURSIVE Search(_, _, _)
Search(h, prevp, n) ==
  LET p == h.ptr[prevp] IN
  IF h.size[p] >= n THEN Take(h, prevp, p, n)
  ELSE IF p # h.freep THEN Search(h, p, n)
  ELSE IF CoreFits(h, Core(n))
       THEN LET m == morecore(h, Core(n)) IN Search(m, m.freep, n)
       ELSE [h |-> h, got |-> 0]

malloc(n) ==
  LET h == IF heap.freep = -1 THEN [heap EXCEPT !.freep = base] ELSE heap
      r == Search(h, h.freep, n)
  IN  heap' = IF r.got = 0 THEN r.h ELSE [r.h EXCEPT !.taken = @ \cup {r.got}]

FreeBlock(b) == /\ b \in heap.taken
                /\ heap' = [free(heap, b) EXCEPT !.taken = @ \ {b}]

\* The program calls sbrk itself: the heap has a gap.
Sbrk == /\ heap.brk < HeapEnd
        /\ heap' = [heap EXCEPT !.brk = @ + 1, !.alien = @ \cup {heap.brk}]

HeapNext == \/ \E n \in Units : malloc(n)
            \/ \E b \in heap.taken : FreeBlock(b)
            \/ Sbrk

-----------------------------------------------------------------------------
(* Properties *)

\* The entries that a walk from base meets.
RECURSIVE Reached(_, _)
Reached(S, p) == IF p \in S THEN S ELSE Reached(S \cup {p}, heap.ptr[p])
FreeList == Reached({}, base) \ {base}
Extent(b) == b..(b + heap.size[b] - 1)

\* The blocks in use and the blocks of the free list share no unit and are
\* together the whole heap: nothing overlaps and nothing is lost.  The list
\* ascends, comes back to base, and has no two blocks that touch.
HeapSound ==
  heap.freep # -1 =>
    /\ heap.freep \in FreeList \cup {base}
    /\ FreeList \cap heap.taken = {}
    /\ \A a, b \in FreeList \cup heap.taken : a # b => Extent(a) \cap Extent(b) = {}
    /\ UNION {Extent(b) : b \in FreeList \cup heap.taken} = (2..(heap.brk - 1)) \ heap.alien
    /\ \A a \in FreeList : heap.ptr[a] = base \/ heap.ptr[a] > a + heap.size[a]
=============================================================================
