--------------------------------- MODULE Vm ---------------------------------
(***************************************************************************)
(* Memory in xv6: the page allocator (kernel/kalloc.c), page tables        *)
(* (kernel/vm.c) and the calls that build and destroy address spaces:      *)
(* fork, wait, sbrk and exec (kernel/proc.c, sysproc.c, exec.c, sysfile.c).*)
(*                                                                         *)
(* Page tables are the code's trees of pages, so that they cost memory and *)
(* an allocation may fail at any page of any call.  A call works on the    *)
(* tables of its own process or of one that nobody else knows yet, so it   *)
(* is one step; pages that other parts of the kernel hold at the time are  *)
(* taken and given back by actions of their own.  m is the memory that     *)
(* an operator works on: m.at is the value it returns, m.panic is set      *)
(* where the code panics.                                                  *)
(***************************************************************************)
EXTENDS Integers, Sequences, FiniteSets

CONSTANTS Procs,       \* slots of the process table
          NPAGES,      \* pages between end and PHYSTOP
          FAN,         \* entries of a page table
          PGSIZE,      \* bytes of a page
          ALIGN,       \* alignment of the user stack
          MAXARG,
          UINT64,      \* uint64 arithmetic is modulo this
          Programs,    \* executables: [elf, segs]
          ArgLists,    \* the lengths of the argument strings of exec
          Increments,  \* arguments of sbrk
          Stores,      \* copyouts: [va, len, byte]
          Reads,       \* addresses that system calls read from
          CodeByte, CharByte,
          OthersHold,  \* how many pages the rest of the kernel may start with
          NoMem,
          MaxMemCalls  \* bound of the model on the number of calls

Pages == 1..NPAGES
TRAMPOLINE == FAN * FAN * FAN - 1          \* virtual pages
TRAPFRAME == TRAMPOLINE - 1
MAXVA == (TRAMPOLINE + 1) * PGSIZE
trampoline == NPAGES + 1                   \* a page of the kernel's text

\* The kernel holds fewer pages than an address space has addresses for.
ASSUME MemoryIsSmall == NPAGES < TRAPFRAME /\ MAXVA < UINT64

VARIABLES freelist,    \* kmem.freelist
          page,        \* the contents of every page: bytes or page-table entries
          vproc,       \* [state, trapframe, pagetable, sz, sp] of every process
          held,        \* pages that other parts of the kernel have allocated
          vmpanic,     \* has the kernel panicked?
          memcalls     \* number of calls so far

vmvars == <<freelist, page, vproc, held, vmpanic, memcalls>>

PGROUNDUP(a) == ((a + PGSIZE - 1) \div PGSIZE) * PGSIZE
PGROUNDDOWN(a) == (a \div PGSIZE) * PGSIZE
Add(a, b) == (a + b) % UINT64
Smaller(a, b) == IF a < b THEN a ELSE b

Bytes(v) == [c \in 0..PGSIZE-1 |-> v]
NoPte == [pa |-> 0, perm |-> {}]
NoPtes == [i \in 0..FAN-1 |-> NoPte]
Panic(m) == [m EXCEPT !.panic = TRUE]

-----------------------------------------------------------------------------
(* kalloc.c                                                                *)

kfree(m, pa) ==
  IF pa \notin Pages THEN Panic(m)
  ELSE [m EXCEPT !.free = <<pa>> \o @, !.pg[pa] = Bytes(1)]

kalloc(m) ==
  IF m.free = <<>> THEN [m EXCEPT !.at = 0]
  ELSE [m EXCEPT !.free = Tail(@), !.pg[Head(m.free)] = Bytes(5), !.at = Head(m.free)]

-----------------------------------------------------------------------------
(* vm.c.  Virtual pages are numbered; PX is the code's macro.              *)

PX(level, vp) == (vp \div (CASE level = 2 -> FAN * FAN [] level = 1 -> FAN [] level = 0 -> 1)) % FAN

\* One level of walk: the table below table t, allocated if need be.
NewTable(a, t, i) == [a EXCEPT !.pg[a.at] = NoPtes, !.pg[t][i] = [pa |-> a.at, perm |-> {}]]

WalkLevel(m, t, i, alloc) ==
  IF m.pg[t][i].pa # 0 THEN [m EXCEPT !.at = m.pg[t][i].pa]
  ELSE IF ~alloc \/ kalloc(m).at = 0 THEN [m EXCEPT !.at = 0]
  ELSE NewTable(kalloc(m), t, i)

\* walk returns the last table, in which the entry of vp is at PX(0, vp).
WalkDown(a, vp, alloc) == IF a.at = 0 THEN a ELSE WalkLevel(a, a.at, PX(1, vp), alloc)
walk(m, t, vp, alloc) ==
  IF vp > TRAMPOLINE THEN [Panic(m) EXCEPT !.at = 0]
  ELSE WalkDown(WalkLevel(m, t, PX(2, vp), alloc), vp, alloc)

Entry(w, vp) == IF w.at = 0 THEN NoPte ELSE w.pg[w.at][PX(0, vp)]
Pte(m, t, vp) == Entry(walk(m, t, vp, FALSE), vp)

AnyPage(e) == e.pa # 0

\* walkaddr finds valid pages that belong to user code.
UserPage(e) == e.pa # 0 /\ "U" \in e.perm

walkaddr(m, t, va) ==
  IF va >= MAXVA THEN 0
  ELSE LET e == Pte(m, t, va \div PGSIZE) IN IF UserPage(e) THEN e.pa ELSE 0

\* mappages for one page; at is 0 if walk finds no memory.
SetEntry(w, vp, entry) ==
  IF w.at = 0 THEN w
  ELSE IF Entry(w, vp).pa # 0 THEN Panic(w)
  ELSE [w EXCEPT !.pg[w.at][PX(0, vp)] = entry]
mappages(m, t, vp, pa, perm) == SetEntry(walk(m, t, vp, TRUE), vp, [pa |-> pa, perm |-> perm])

\* w is the memory after walk, e the entry it found.
UnmapPage(w, e, vp, do_free) ==
  IF w.at = 0 \/ e.pa = 0 \/ e.perm = {} THEN Panic(w)
  ELSE [(IF do_free THEN kfree(w, e.pa) ELSE w) EXCEPT !.pg[w.at][PX(0, vp)] = NoPte]

RECURSIVE uvmunmap(_, _, _, _, _)
uvmunmap(m, t, vp, npages, do_free) ==
  IF npages = 0 \/ m.panic THEN m
  ELSE uvmunmap(UnmapPage(walk(m, t, vp, FALSE), Pte(m, t, vp), vp, do_free), t, vp + 1, npages - 1, do_free)

uvmcreate(m) == LET a == kalloc(m) IN IF a.at = 0 THEN a ELSE [a EXCEPT !.pg[a.at] = NoPtes]

uvmdealloc(m, t, oldsz, newsz) ==
  IF newsz >= oldsz THEN [m EXCEPT !.at = oldsz]
  ELSE [(IF PGROUNDUP(newsz) < PGROUNDUP(oldsz)
         THEN uvmunmap(m, t, PGROUNDUP(newsz) \div PGSIZE, (PGROUNDUP(oldsz) - PGROUNDUP(newsz)) \div PGSIZE, TRUE)
         ELSE m) EXCEPT !.at = newsz]

KeepPage(m, mem) == m

\* uvmalloc frees the page it could not map.
DropPage(m, mem) == kfree(m, mem)

AsAllocated(m) == m

\* memset of a page for the user.
ZeroPage(m) == IF m.at = 0 THEN m ELSE [m EXCEPT !.pg[m.at] = Bytes(0)]

RECURSIVE uvmalloc_from(_, _, _, _, _, _)
uvmalloc_from(m, t, a, oldsz, newsz, perm) ==
  LET k == ZeroPage(kalloc(m))
      mapped == mappages(k, t, a \div PGSIZE, k.at, perm)
  IN  IF a >= newsz \/ m.panic THEN [m EXCEPT !.at = newsz]
      ELSE IF k.at = 0 THEN [uvmdealloc(k, t, a, oldsz) EXCEPT !.at = 0]
      ELSE IF mapped.at = 0 THEN [uvmdealloc(DropPage(mapped, k.at), t, a, oldsz) EXCEPT !.at = 0]
      ELSE uvmalloc_from(mapped, t, a + PGSIZE, oldsz, newsz, perm)

uvmalloc(m, t, oldsz, newsz, xperm) ==
  IF newsz < oldsz THEN [m EXCEPT !.at = oldsz]
  ELSE uvmalloc_from(m, t, PGROUNDUP(oldsz), PGROUNDUP(oldsz), newsz, {"R", "U"} \cup xperm)

\* freewalk at a level of the tree: the tables below, then the table.
RECURSIVE freewalk(_, _, _)
RECURSIVE freewalk_from(_, _, _, _)
freewalk(m, t, level) == kfree(freewalk_from(m, t, level, 0), t)
freewalk_from(m, t, level, i) ==
  IF i = FAN \/ m.panic THEN m
  ELSE LET e == m.pg[t][i] IN
       freewalk_from(IF e.pa = 0 THEN m
                     ELSE IF e.perm \cap {"R", "W", "X"} # {} THEN Panic(m)
                     ELSE [freewalk(m, e.pa, level - 1) EXCEPT !.pg[t][i] = NoPte],
                     t, level, i + 1)

uvmfree(m, t, sz) == freewalk(uvmunmap(m, t, 0, PGROUNDUP(sz) \div PGSIZE, TRUE), t, 2)

\* The error path of uvmcopy: free what has been copied so far.
UndoCopy(m, new, n) == uvmunmap(m, new, 0, n, TRUE)

RECURSIVE uvmcopy(_, _, _, _, _)
uvmcopy(m, old, new, i, sz) ==
  LET e == Pte(m, old, i)
      k == kalloc(m)
      mapped == mappages([k EXCEPT !.pg[k.at] = m.pg[e.pa]], new, i, k.at, e.perm)
  IN  IF i * PGSIZE >= sz \/ m.panic THEN [m EXCEPT !.at = 1]
      ELSE IF e.pa = 0 THEN Panic(m)
      ELSE IF k.at = 0 THEN [UndoCopy(k, new, i) EXCEPT !.at = 0]
      ELSE IF mapped.at = 0 THEN [UndoCopy(kfree(mapped, k.at), new, i) EXCEPT !.at = 0]
      ELSE uvmcopy(mapped, old, new, i + 1, sz)

uvmclear(m, t, vp) ==
  LET w == walk(m, t, vp, FALSE)
  IN  IF w.at = 0 THEN Panic(m) ELSE [w EXCEPT !.pg[w.at][PX(0, vp)].perm = @ \ {"U"}]

\* copyout stores page by page; at is -1 if a page is not the user's.
RECURSIVE copyout(_, _, _, _)
copyout(m, t, va, src) ==
  LET va0 == PGROUNDDOWN(va)
      pa == walkaddr(m, t, va0)
      n == Smaller(PGSIZE - (va - va0), Len(src))
  IN  IF src = <<>> THEN [m EXCEPT !.at = 0]
      ELSE IF pa = 0 THEN [m EXCEPT !.at = -1]
      ELSE copyout([m EXCEPT !.pg[pa] = [c \in 0..PGSIZE-1 |->
                      IF c \in (va - va0)..(va - va0 + n - 1) THEN src[c - (va - va0) + 1] ELSE @[c]]],
                   t, Add(va0, PGSIZE), SubSeq(src, n + 1, Len(src)))

Bad == <<-1>>   \* a copy that returns -1

\* copyin: the bytes, or Bad.
RECURSIVE copyin(_, _, _, _, _)
copyin(m, t, va, len, dst) ==
  LET va0 == PGROUNDDOWN(va)
      pa == walkaddr(m, t, va0)
      n == Smaller(PGSIZE - (va - va0), len)
  IN  IF len = 0 THEN dst
      ELSE IF pa = 0 THEN Bad
      ELSE copyin(m, t, Add(va0, PGSIZE), len - n, dst \o [k \in 1..n |-> m.pg[pa][va - va0 + k - 1]])

\* copyinstr: the string, or Bad if no null comes within max bytes.
RECURSIVE copyinstr(_, _, _, _, _)
copyinstr(m, t, va, max, dst) ==
  LET va0 == PGROUNDDOWN(va)
      pa == walkaddr(m, t, va0)
      n == Smaller(PGSIZE - (va - va0), max)
      got == [k \in 1..n |-> m.pg[pa][va - va0 + k - 1]]
      nulls == {k \in 1..n : got[k] = 0}
      first == CHOOSE k \in nulls : \A j \in nulls : k <= j
  IN  IF max = 0 \/ pa = 0 THEN Bad
      ELSE IF nulls # {} THEN dst \o SubSeq(got, 1, first - 1)
      ELSE copyinstr(m, t, Add(va0, PGSIZE), max - n, dst \o got)

-----------------------------------------------------------------------------
(* proc.c                                                                  *)

Unused == [state |-> "unused", trapframe |-> 0, pagetable |-> 0, sz |-> 0, sp |-> 0]

\* at is the page table, or 0.
proc_pagetable(m, trapframe) ==
  LET c == uvmcreate(m)
      pt == c.at
      m1 == mappages(c, pt, TRAMPOLINE, trampoline, {"R", "X"})
      m2 == mappages(m1, pt, TRAPFRAME, trapframe, {"R", "W"})
  IN  IF pt = 0 THEN c
      ELSE IF m1.at = 0 THEN [uvmfree(m1, pt, 0) EXCEPT !.at = 0]
      ELSE IF m2.at = 0 THEN [uvmfree(uvmunmap(m2, pt, TRAMPOLINE, 1, FALSE), pt, 0) EXCEPT !.at = 0]
      ELSE [m2 EXCEPT !.at = pt]

proc_freepagetable(m, pt, sz) ==
  uvmfree(uvmunmap(uvmunmap(m, pt, TRAMPOLINE, 1, FALSE), pt, TRAPFRAME, 1, FALSE), pt, sz)

freeproc(m, p) ==
  LET f == IF p.trapframe # 0 THEN kfree(m, p.trapframe) ELSE m
  IN  IF p.pagetable # 0 THEN proc_freepagetable(f, p.pagetable, p.sz) ELSE f

\* allocproc: a process with a trapframe and an empty address space, or
\* Unused.  t is the memory after proc_pagetable.
EmptySpace(t, p) == IF t.at = 0 THEN <<freeproc(t, p), Unused>> ELSE <<t, [p EXCEPT !.pagetable = t.at]>>

allocproc(m) ==
  LET k == kalloc(m)
  IN  IF k.at = 0 THEN <<k, Unused>>
      ELSE EmptySpace(proc_pagetable(k, k.at), [Unused EXCEPT !.state = "used", !.trapframe = k.at])

\* userinit and uvmfirst: the first process, in slot p.  The rest of the
\* kernel may have taken pages by the time it makes its first call.  a is
\* what allocproc returns, u the memory after uvmfirst.
Boots(p, a, u) ==
  /\ \E n \in OthersHold :
       freelist = SubSeq(u.free, n + 1, Len(u.free)) /\ held = SubSeq(u.free, 1, n)
  /\ page = u.pg /\ vmpanic = u.panic
  /\ vproc = [q \in Procs |-> IF q = p THEN [a EXCEPT !.state = "live", !.sz = PGSIZE, !.sp = PGSIZE] ELSE Unused]

uvmfirst(p, a) ==
  LET k == kalloc(a[1])
      code == [k EXCEPT !.pg[k.at] = [c \in 0..PGSIZE-1 |-> IF c < PGSIZE-1 THEN CodeByte ELSE 0]]
  IN  Boots(p, a[2], mappages(code, a[2].pagetable, 0, k.at, {"W", "R", "X", "U"}))

userinit(m, p) == uvmfirst(p, allocproc(m))

VmInit ==
  /\ \E p \in Procs :
       /\ \A q \in Procs : p <= q
       /\ userinit([free |-> [k \in 1..NPAGES |-> NPAGES + 1 - k], pg |-> [x \in Pages |-> Bytes(1)],
                    at |-> 0, panic |-> FALSE], p)
  /\ memcalls = 0

Now == [free |-> freelist, pg |-> page, at |-> 0, panic |-> vmpanic]

\* The call of a process ends with memory m.
Returns(m) ==
  /\ freelist' = m.free /\ page' = m.pg /\ vmpanic' = m.panic
  /\ memcalls' = memcalls + 1

Running(p) == vproc[p].state = "live" /\ memcalls < MaxMemCalls /\ ~vmpanic

\* sys_fork: copy the parent into the slot q, or undo everything.  a is what
\* allocproc returns, c the memory after uvmcopy.
ForkReturns(p, q, a, c) ==
  /\ Returns(IF c.at = 0 THEN freeproc(c, a) ELSE c)
  /\ vproc' = IF c.at = 0 THEN vproc
              ELSE [vproc EXCEPT ![q] = [a EXCEPT !.state = "live", !.sz = vproc[p].sz, !.sp = vproc[p].sp]]

ForkInto(p, q, a) ==
  IF a[2] = Unused THEN Returns(a[1]) /\ UNCHANGED vproc
  ELSE ForkReturns(p, q, a[2], uvmcopy(a[1], vproc[p].pagetable, a[2].pagetable, 0, vproc[p].sz))

fork(p, q) ==
  /\ Running(p) /\ vproc[q].state = "unused"
  /\ ForkInto(p, q, allocproc(Now))
  /\ UNCHANGED held

exit(p) ==
  /\ Running(p)
  /\ vproc' = [vproc EXCEPT ![p].state = "zombie"]
  /\ UNCHANGED <<freelist, page, held, vmpanic, memcalls>>

\* wait reaps a zombie.
wait(p, q) ==
  /\ Running(p) /\ vproc[q].state = "zombie"
  /\ Returns(freeproc(Now, vproc[q]))
  /\ vproc' = [vproc EXCEPT ![q] = Unused]
  /\ UNCHANGED held

\* growproc: sz + n may wrap below zero, and then nothing is freed.
growproc(m, p, n) ==
  IF n > 0 THEN uvmalloc(m, p.pagetable, p.sz, p.sz + n, {"W"})
  ELSE IF n < 0 THEN uvmdealloc(m, p.pagetable, p.sz, Add(p.sz, n))
  ELSE [m EXCEPT !.at = p.sz]

sys_sbrk(p, n) ==
  LET g == growproc(Now, vproc[p], n) IN
  /\ Running(p)
  /\ Returns(g)
  /\ vproc' = IF n > 0 /\ g.at = 0 THEN vproc ELSE [vproc EXCEPT ![p].sz = g.at]
  /\ UNCHANGED held

\* A system call, such as read, stores a result in the memory of its caller.
either_copyout(p, s) ==
  /\ Running(p)
  /\ Returns(copyout(Now, vproc[p].pagetable, s.va, [k \in 1..s.len |-> s.byte]))
  /\ UNCHANGED <<vproc, held>>

\* Other parts of the kernel (pipes, other calls in progress) hold pages.
OtherAlloc ==
  /\ freelist # <<>> /\ memcalls < MaxMemCalls /\ ~vmpanic
  /\ Returns(kalloc(Now))
  /\ held' = <<Head(freelist)>> \o held
  /\ UNCHANGED vproc

OtherFree ==
  /\ held # <<>> /\ memcalls < MaxMemCalls /\ ~vmpanic
  /\ Returns(kfree(Now, Head(held)))
  /\ held' = Tail(held)
  /\ UNCHANGED vproc

-----------------------------------------------------------------------------
(* exec.c                                                                  *)

flags2perm(flags) == flags \cap {"X", "W"}

\* loadseg: read the file into pages that are mapped; at is -1 on failure.
loadseg(m, t, seg) ==
  IF \E i \in 0..seg.filesz-1 : walkaddr(m, t, seg.vaddr + PGROUNDDOWN(i)) = 0 THEN Panic(m)
  ELSE IF seg.short THEN [m EXCEPT !.at = -1]
  ELSE copyout(m, t, seg.vaddr, [k \in 1..seg.filesz |-> CodeByte])

SegmentOk(seg) == /\ seg.memsz >= seg.filesz
                  /\ Add(seg.vaddr, seg.memsz) >= seg.vaddr
                  /\ seg.vaddr % PGSIZE = 0

\* Load the segments from k on: <<memory, sz, success>>.
RECURSIVE LoadFrom(_, _, _, _, _)
LoadFrom(m, t, segs, k, sz) ==
  LET seg == segs[k]
      a == uvmalloc(m, t, sz, Add(seg.vaddr, seg.memsz), flags2perm(seg.flags))
      l == loadseg(a, t, seg)
  IN  IF k > Len(segs) \/ m.panic THEN <<m, sz, TRUE>>
      ELSE IF ~seg.load THEN LoadFrom(m, t, segs, k + 1, sz)
      ELSE IF ~SegmentOk(seg) THEN <<m, sz, FALSE>>
      ELSE IF a.at = 0 THEN <<a, sz, FALSE>>
      ELSE IF l.at = -1 THEN <<l, a.at, FALSE>>
      ELSE LoadFrom(l, t, segs, k + 1, a.at)

Aligned(sp) == sp - (sp % ALIGN)

\* Push the argument strings from the k-th on: <<memory, sp, ustack, success>>.
RECURSIVE PushArgs(_, _, _, _, _, _, _)
PushArgs(m, t, args, k, sp, stackbase, ustack) ==
  LET sp1 == Aligned(sp - (args[k] + 1))
      c == copyout(m, t, sp1, [j \in 1..args[k] |-> CharByte] \o <<0>>)
  IN  IF k > Len(args) THEN <<m, sp, ustack, TRUE>>
      ELSE IF k > MAXARG \/ sp1 < stackbase THEN <<m, sp, ustack, FALSE>>
      ELSE IF c.at < 0 THEN <<c, sp, ustack, FALSE>>
      ELSE PushArgs(c, t, args, k + 1, sp1, stackbase, Append(ustack, sp1))

\* exec from a memory in which sys_exec has copied the arguments:
\* <<memory, process>>, with the old process on the path bad.  Its stages, each
\* from the memory that the one before it leaves: the page table t, the
\* segments, the stack, the argument strings, and the array argv.
bad(m, pt, sz, p) == <<proc_freepagetable(m, pt, sz), p>>

exec_commit(argv, pt, sz, sp, p) ==
  IF argv.at < 0 THEN bad(argv, pt, sz, p)
  ELSE <<proc_freepagetable(argv, p.pagetable, p.sz), [p EXCEPT !.pagetable = pt, !.sz = sz, !.sp = sp]>>

exec_argv(push, pt, sz, argc, p) ==
  LET sp == Aligned(push[2] - (argc + 1))
  IN  IF ~push[4] \/ sp < sz - PGSIZE THEN bad(push[1], pt, sz, p)
      ELSE exec_commit(copyout(push[1], pt, sp, push[3] \o <<0>>), pt, sz, sp, p)

exec_args(stack, pt, base, args, p) ==
  LET sz == base + 2 * PGSIZE
      clear == uvmclear(stack, pt, base \div PGSIZE)
  IN  IF stack.at = 0 THEN bad(stack, pt, base, p)
      ELSE exec_argv(PushArgs(clear, pt, args, 1, sz, sz - PGSIZE, <<>>), pt, sz, Len(args), p)

exec_stack(load, pt, args, p) ==
  LET base == PGROUNDUP(load[2])
  IN  IF ~load[3] THEN bad(load[1], pt, load[2], p)
      ELSE exec_args(uvmalloc(load[1], pt, base, base + 2 * PGSIZE, {"W"}), pt, base, args, p)

exec_load(t, prog, args, p) ==
  IF t.at = 0 THEN <<t, p>> ELSE exec_stack(LoadFrom(t, t.at, prog.segs, 1, 0), t.at, args, p)

exec(m, p, prog, args) ==
  IF ~prog.elf THEN <<m, p>> ELSE exec_load(proc_pagetable(m, p.trapframe), prog, args, p)

\* sys_exec copies the arguments into pages of its own: <<memory, pages, success>>.
RECURSIVE FetchArgs(_, _, _, _)
FetchArgs(m, args, i, got) ==
  LET k == kalloc(m) IN
  IF i > MAXARG THEN <<m, got, FALSE>>
  ELSE IF i > Len(args) THEN <<m, got, TRUE>>
  ELSE IF k.at = 0 THEN <<k, got, FALSE>>
  ELSE IF args[i] < 0 THEN <<k, Append(got, k.at), FALSE>>   \* fetchstr fails
  ELSE FetchArgs(k, args, i + 1, Append(got, k.at))

RECURSIVE FreeArgs(_, _)
FreeArgs(m, got) == IF got = <<>> THEN m ELSE FreeArgs(kfree(m, Head(got)), Tail(got))

\* e is what exec returns, got the pages of the arguments.
ExecReturns(p, e, got) ==
  /\ Returns(FreeArgs(e[1], got))
  /\ vproc' = [vproc EXCEPT ![p] = e[2]]
  /\ UNCHANGED held

sys_exec(p, prog, args) ==
  LET f == FetchArgs(Now, args, 1, <<>>) IN
  /\ Running(p)
  /\ ExecReturns(p, IF f[3] THEN exec(f[1], vproc[p], prog, args) ELSE <<f[1], vproc[p]>>, f[2])

\* The bound is reached, or every process has gone.
VmDone == (memcalls = MaxMemCalls \/ \A p \in Procs : vproc[p].state # "live") /\ UNCHANGED vmvars

VmNext ==
  \/ \E p \in Procs :
       \/ \E q \in Procs : fork(p, q) \/ wait(p, q)
       \/ exit(p)
       \/ \E n \in Increments : sys_sbrk(p, n)
       \/ \E s \in Stores : either_copyout(p, s)
       \/ \E prog \in Programs, args \in ArgLists : sys_exec(p, prog, args)
  \/ OtherAlloc \/ OtherFree
  \/ VmDone

VmSpec == VmInit /\ [][VmNext]_vmvars

-----------------------------------------------------------------------------
\* No sequence of calls makes walk, mappages, uvmunmap, freewalk, uvmcopy,
\* uvmclear, loadseg or kfree panic, wherever memory runs out.
NoVmPanic == ~vmpanic

\* The pages of the tree below table t.
TablesBelow(t) ==
  LET l1 == {page[t][i].pa : i \in 0..FAN-1} \ {0}
      l0 == UNION {{page[x][i].pa : i \in 0..FAN-1} \ {0} : x \in l1}
  IN  {t} \cup l1 \cup l0

\* Who holds which page: the free list, other parts of the kernel, and the
\* trapframe, the tables and the memory of each process.
Holdings ==
  LET ps == {p \in Procs : vproc[p].pagetable # 0} IN
  {<<"free", k, 0, freelist[k]>> : k \in DOMAIN freelist}
  \cup {<<"held", k, 0, held[k]>> : k \in DOMAIN held}
  \cup {<<"trapframe", p, 0, vproc[p].trapframe>> : p \in ps}
  \cup UNION {{<<"table", p, x, x>> : x \in TablesBelow(vproc[p].pagetable)} : p \in ps}
  \cup {h \in {<<"memory", p, vp, Pte(Now, vproc[p].pagetable, vp).pa>> : p \in ps, vp \in 0..TRAPFRAME-1} : h[4] # 0}

\* Every page is in exactly one place: no path that gives up halfway leaks
\* a page, frees one twice, or shares one.
PagesAccounted == /\ {h[4] : h \in Holdings} = Pages
                  /\ Cardinality(Holdings) = NPAGES

Lives(p) == vproc[p].state \in {"live", "zombie"}
Ptes(p) == [vp \in 0..(PGROUNDUP(vproc[p].sz) \div PGSIZE)-1 |-> Pte(Now, vproc[p].pagetable, vp)]

\* The memory of p and the part of it that is closed to user code, both read
\* through its page table.
Cells(p) ==
  LET e == Ptes(p) IN
  [a \in 0..PGROUNDUP(vproc[p].sz)-1 |->
     IF e[a \div PGSIZE].pa = 0 THEN -1 ELSE page[e[a \div PGSIZE].pa][a % PGSIZE]]
Guard(p) == LET e == Ptes(p) IN {a \in 0..PGROUNDUP(vproc[p].sz)-1 : "U" \notin e[a \div PGSIZE].perm}

Memories == [p \in Procs |-> IF Lives(p) THEN [sz |-> vproc[p].sz, cells |-> Cells(p), guard |-> Guard(p), sp |-> vproc[p].sp]
                             ELSE NoMem]

Spaces == INSTANCE AddressSpaces WITH mem <- Memories

\* Each process has private memory that survives what others do and what
\* fails; fresh memory never shows what another process left in it.
PrivateMemory == Spaces!SpacesInit /\ [][UNCHANGED vmvars \/ Spaces!SpacesNext]_(Memories)

\* What system calls read: copyin and copyinstr give the bytes of the
\* process where all of them are its own, and fail everywhere else.
CopiesMatchMemory ==
  \A p \in {q \in Procs : Lives(q)} :
    LET cells == Cells(p)
        own == DOMAIN cells \ Guard(p)
    IN  \A r \in Reads :
          LET in == copyin(Now, vproc[p].pagetable, r.va, r.len, <<>>)
              str == copyinstr(Now, vproc[p].pagetable, r.va, r.len, <<>>)
              From(n) == [k \in 1..n |-> cells[r.va + k - 1]]
              ends == {n \in 0..r.len-1 : r.va..r.va+n \subseteq own /\ cells[r.va + n] = 0}
          IN  /\ in = IF r.va..r.va+r.len-1 \subseteq own THEN From(r.len) ELSE Bad
              /\ IF ends = {} THEN str = Bad
                 ELSE str = From(CHOOSE n \in ends : \A k \in ends : n <= k)
=============================================================================
