--------------------------- MODULE AddressSpaces ---------------------------
(***************************************************************************)
(* What the memory side of xv6 (kernel/vm.c, kalloc.c, exec.c) promises a  *)
(* process: private memory that only its own calls change.  fork copies    *)
(* it, sbrk moves its end, exec replaces it by a program with arguments on *)
(* its stack, a copyout stores into it.  A call that fails changes nothing *)
(* but, for a store, a prefix of the bytes.                                *)
(***************************************************************************)
EXTENDS Integers, Sequences

CONSTANTS Procs, PGSIZE, Programs, ArgLists, Stores, NoMem, CodeByte, CharByte

VARIABLE mem   \* [sz, cells, guard, sp] of each process, or NoMem

RoundUp(n) == ((n + PGSIZE - 1) \div PGSIZE) * PGSIZE

\* Fresh pages read as zero; the rest of the last page keeps what it held.
Resized(m, sz) ==
  [m EXCEPT !.sz = sz,
            !.cells = [a \in 0..RoundUp(sz)-1 |-> IF a \in DOMAIN m.cells THEN m.cells[a] ELSE 0],
            !.guard = {a \in m.guard : a < RoundUp(sz)}]

Loads(prog) == {k \in 1..Len(prog.segs) : prog.segs[k].load}
End(prog, k) == prog.segs[k].vaddr + prog.segs[k].memsz
Top(prog) == RoundUp(CHOOSE n \in {0} \cup {End(prog, k) : k \in Loads(prog)} :
                       \A k \in Loads(prog) : End(prog, k) <= n)

\* The byte at address a of a loaded program: from the file, or zero.
Text(prog, a) ==
  IF \E k \in Loads(prog) : a \in prog.segs[k].vaddr..(prog.segs[k].vaddr + prog.segs[k].filesz - 1)
  THEN CodeByte ELSE 0

\* At sp an array of pointers to the argument strings, with a null at its end.
ArgvAt(cells, sp, args) ==
  /\ \A k \in 1..Len(args) :
       LET s == cells[sp + k - 1] IN
       /\ \A j \in 0..args[k]-1 : cells[s + j] = CharByte
       /\ cells[s + args[k]] = 0
  /\ cells[sp + Len(args)] = 0

Booted == [sz |-> PGSIZE, cells |-> [a \in 0..PGSIZE-1 |-> IF a < PGSIZE - 1 THEN CodeByte ELSE 0],
           guard |-> {}, sp |-> PGSIZE]

SpacesInit == \E p \in Procs : mem = [q \in Procs |-> IF q = p THEN Booted ELSE NoMem]

\* The steps, from memory m to memory n.
Fork(m, n, p, q) == m[p] # NoMem /\ m[q] = NoMem /\ n = [m EXCEPT ![q] = m[p]]
Reap(m, n, q) == n = [m EXCEPT ![q] = NoMem]
Resize(m, n, p) ==
  /\ m[p] # NoMem /\ n[p] # NoMem
  /\ n = [m EXCEPT ![p] = Resized(@, n[p].sz)]
Store(m, n, p) ==
  /\ m[p] # NoMem
  /\ \E s \in Stores, k \in 0..2 * PGSIZE :
       n = [m EXCEPT ![p].cells = [a \in DOMAIN @ |-> IF a \in s.va..s.va+k-1 THEN s.byte ELSE @[a]]]

Exec(m, n, p) ==
  /\ n[p] # NoMem
  /\ n = [m EXCEPT ![p] = n[p]]
  /\ \E prog \in Programs, args \in ArgLists :
       LET top == Top(prog)
           new == n[p]
       IN  /\ new.sz = top + 2 * PGSIZE
           /\ DOMAIN new.cells = 0..new.sz-1
           /\ \A a \in 0..top+PGSIZE-1 : new.cells[a] = Text(prog, a)
           /\ new.guard = top..top+PGSIZE-1
           /\ new.sp >= top + PGSIZE
           /\ ArgvAt(new.cells, new.sp, args)

Changes(m, n) ==
  \E p \in Procs : \/ Resize(m, n, p) \/ Store(m, n, p) \/ Exec(m, n, p) \/ Reap(m, n, p)
                   \/ \E q \in Procs : Fork(m, n, p, q)

SpacesNext == \E m \in {mem}, n \in {mem'} : Changes(m, n)

SpacesSpec == SpacesInit /\ [][SpacesNext]_mem
=============================================================================
