----------------------------- MODULE TrapProofs -----------------------------
(***************************************************************************)
(* Proofs about Trap, for every number of CPUs and processes.              *)
(*                                                                         *)
(* The stack of return addresses of a thread says which locks it holds and *)
(* how deep its push_offs are nested.  The invariant ties this to what the *)
(* CPU that runs the thread has in cpus[], in its registers and in the     *)
(* locks, and says where a thread can be that no CPU runs.                 *)
(***************************************************************************)
EXTENDS Trap, SequenceTheorems, TLAPS

PlainLabels ==
  {"loop", "scan", "yield", "yield2", "sched", "sched2", "sleep", "sleep2", "sleep3",
   "user", "uservec", "usertrap", "usertrap2", "syscall", "ticks0", "tickloop",
   "usertrapret", "userret", "devintr", "clockintr", "kerneltrap", "kerneltrap2", "sret"}
Acquiring == {"acquire", "push_off", "spin"}

PCs == {<<l>> : l \in PlainLabels}
       \cup ((Acquiring \cup {"release"}) \X Locks)
       \cup ({"pick", "back", "wake"} \X KProcs)
       \cup ({"wakeup"} \X SUBSET KProcs)

Instructions == {<<"instruction", 0>>, <<"instruction", 1>>}
Devs == {"none", "ecall", "timer", "external"}

\* What kernelvec and kerneltrap save.
Frames == [regs : [pc : PCs, ks : Seq(PCs), old : BOOLEAN, intena : BOOLEAN, frame : {<<>>}, dev : Devs],
           sepc : PCs, spie : BOOLEAN]

ThreadRecs == [pc : PCs, ks : Seq(PCs), old : BOOLEAN, intena : BOOLEAN, frame : Seq(Frames), dev : Devs]
RegRecs == [run : Threads, sie : BOOLEAN, tp : Harts, sepc : PCs \cup Instructions \cup {Unset},
            spie : BOOLEAN, spp : {"U", "S"}, stvec : {"kernelvec", "uservec"}]
CpuRecs == [noff : Int, intena : BOOLEAN, proc : KProcs \cup {NoThread}]
TfRecs == [epc : Instructions, hart : Harts, want : Instructions]

TrapTypeOK ==
  /\ reg \in [Harts -> RegRecs]
  /\ cpus \in [Harts -> CpuRecs]
  /\ lock \in [Locks -> Harts \cup {Unlocked}]
  /\ th \in [Threads -> ThreadRecs]
  /\ tf \in [KProcs -> TfRecs]
  /\ upc \in [KProcs -> Instructions]
  /\ pstate \in [KProcs -> {"UNUSED", "RUNNABLE", "RUNNING", "SLEEPING"}]

-----------------------------------------------------------------------------
(* Stacks of return addresses.                                             *)

\* What can lie below everything else: in a trap handler, in a process and
\* in a scheduler.
Bottom(t, intrap) ==
  IF intrap THEN {"kerneltrap", "kerneltrap2", "sret"}
  ELSE IF t \in KProcs
       THEN {"user", "uservec", "usertrap", "usertrap2", "syscall", "ticks0", "tickloop", "usertrapret", "userret"}
       ELSE {"loop", "scan", "pick", "back"}

\* Thread t at a can have b as the return address.
Follows(t, a, b) ==
  \/ /\ a[1] \in Acquiring
     /\ \/ t \in KProcs /\ a[2] = t /\ b[1] \in {"yield2", "sleep2"}
        \/ a[2] = tickslock /\ b[1] \in {"ticks0", "tickloop", "clockintr"}
        \/ b[1] \in {"wake", "pick"} /\ b[2] = a[2]
  \/ /\ a[1] = "release"
     /\ \/ t \in KProcs /\ a[2] = t /\ b[1] \in {"usertrapret", "kerneltrap2"}
        \/ t \in KProcs /\ a[2] = t /\ b[1] = "acquire" /\ b[2] = tickslock
        \/ a[2] = tickslock /\ b[1] \in {"sleep3", "usertrapret", "usertrap2", "kerneltrap"}
        \/ a[2] \in KProcs /\ b[1] = "scan"
        \/ a[2] \in KProcs /\ a[2] # t /\ b[1] = "wakeup"
  \/ t \in KProcs /\ a[1] \in {"yield", "yield2"} /\ b[1] \in {"usertrapret", "kerneltrap2"}
  \/ t \in KProcs /\ a[1] \in {"sched", "sched2"} /\ b[1] = "release" /\ b[2] = t
  \/ t \in KProcs /\ a[1] \in {"sleep", "sleep2", "sleep3"} /\ b[1] = "tickloop"
  \/ a[1] \in {"devintr", "clockintr"} /\ b[1] \in {"usertrap2", "kerneltrap"}
  \/ a[1] = "wakeup" /\ t \notin a[2] /\ b[1] \in {"usertrap2", "kerneltrap"}
  \/ a[1] = "wake" /\ a[2] # t /\ b[1] = "wakeup"

Link(t, m, pc, ks) == IF ks = <<>> THEN pc[1] \in Bottom(t, m) ELSE Follows(t, pc, Head(ks))

\* A program counter and a stack that fit together.
Stack(t, m, pc, ks) ==
  /\ Link(t, m, pc, ks)
  /\ \A k \in 1..Len(ks) : IF k = Len(ks) THEN ks[k][1] \in Bottom(t, m) ELSE Follows(t, ks[k], ks[k+1])

\* Does thread t hold lock l, with its program counter at pc and ks below?
Holds(t, pc, ks, l) ==
  \/ pc[1] \in Acquiring /\ Head(ks)[1] \in {"sleep2", "wake"} /\ l = tickslock
  \/ /\ pc[1] = "release"
     /\ \/ l = pc[2]
        \/ Head(ks)[1] = "sleep3" /\ l = t
        \/ Head(ks)[1] = "wakeup" /\ l = tickslock
  \/ pc[1] \in {"yield2", "sched", "sched2", "sleep3", "sleep2"} /\ l = t
  \/ pc[1] \in {"pick", "back", "wake"} /\ l = pc[2]
  \/ pc[1] \in {"clockintr", "wakeup", "wake", "sleep", "sleep2", "ticks0", "tickloop"} /\ l = tickslock

\* The number of push_offs that have not been undone.
Depth(pc, ks) ==
  IF pc[1] \in Acquiring
  THEN (IF pc[1] = "spin" THEN 1 ELSE 0) + (IF Head(ks)[1] \in {"sleep2", "wake"} THEN 1 ELSE 0)
  ELSE IF pc[1] = "release" THEN (IF Head(ks)[1] \in {"sleep3", "wakeup"} THEN 2 ELSE 1)
  ELSE IF pc[1] \in {"sleep2", "wake"} THEN 2
  ELSE IF pc[1] \in {"yield2", "sched", "sched2", "sleep3", "pick", "back", "clockintr", "wakeup",
                     "sleep", "ticks0", "tickloop"} THEN 1 ELSE 0

-----------------------------------------------------------------------------
(* The inductive invariant.                                                *)

\* Where a trap would go to uservec.
UserSide == {"userret", "user", "uservec", "usertrap"}

\* The process of CPU h has been switched to by its scheduler.
RunInv(h) ==
  LET s == <<"sched", h>> IN
  /\ reg[h].tp = h
  /\ Me(h) \in KProcs => /\ cpus[h].proc = Me(h)
                         /\ th[s].pc[1] = "back" /\ th[s].pc[2] = Me(h)
                         /\ th[s].ks = <<>> /\ th[s].frame = <<>>
  /\ Me(h) \in Scheds => /\ Me(h) = s
                         /\ th[s].pc[1] # "back" => cpus[h].proc = NoThread

\* CPU h has the locks and the nesting of the thread it runs.
LocksInv(h) ==
  /\ cpus[h].noff = Depth(th[Me(h)].pc, th[Me(h)].ks)
  /\ \A l \in Locks : lock[l] = h <=> Holds(Me(h), th[Me(h)].pc, th[Me(h)].ks, l)

\* Interrupts are on only where nothing is held and no trap is handled, and
\* a handler's release does not turn them on.  (x: registers, c: an element
\* of cpus[], r: the thread.)
EnableOf(x, c, r) ==
  /\ x.sie => Depth(r.pc, r.ks) = 0 /\ r.frame = <<>> /\ r.pc[1] \notin UserSide
  /\ r.pc[1] \notin UserSide => x.stvec = "kernelvec"
  /\ r.frame # <<>> /\ Depth(r.pc, r.ks) > 0 /\ r.pc[1] # "sched2" => ~c.intena

EnableInv(h) == EnableOf(reg[h], cpus[h], th[Me(h)])

\* The trap registers while they matter.  (w: the trapframe.)
RegsOf(h, x, r, w) ==
  /\ r.pc[1] \in {"uservec", "usertrap", "userret"} => x.spp = "U"
  /\ r.pc[1] \in {"user", "uservec", "userret"} => w.hart = h
  /\ r.pc[1] \in {"uservec", "usertrap"} =>
       w.want = IF r.dev = "ecall" THEN NextInstruction(x.sepc) ELSE x.sepc
  /\ r.pc[1] = "userret" => x.sepc = w.want
  /\ r.pc[1] = "devintr" /\ r.frame # <<>> => x.spp = "S"
  /\ r.pc[1] = "sret" => x.sepc = Head(r.frame).regs.pc /\ x.spie

RegsInv(h) == RegsOf(h, reg[h], th[Me(h)], tf[Me(h)])

\* What a trap in the kernel has saved: a thread with interrupts on.
FrameOf(t, r) ==
  LET s == Head(r.frame).regs IN
  r.frame # <<>> =>
    /\ Len(r.frame) = 1 /\ ~r.old /\ ~r.intena
    /\ Stack(t, FALSE, s.pc, s.ks) /\ Depth(s.pc, s.ks) = 0 /\ s.pc[1] \notin UserSide
    /\ Head(r.frame).sepc = s.pc /\ Head(r.frame).spie

FrameInv(t) == FrameOf(t, th[t])

ThreadInv(t) ==
  /\ Stack(t, th[t].frame # <<>>, th[t].pc, th[t].ks)
  /\ FrameInv(t)
  /\ t \in KProcs /\ th[t].pc[1] \notin {"user", "uservec", "usertrap"} => tf[t].epc = tf[t].want

\* A process that no CPU runs is inside sched(), or has never run.
Parked(p) ==
  \/ th[p].pc[1] = "sched2"
  \/ /\ th[p].pc[1] = "release" /\ th[p].pc[2] = p
     /\ th[p].ks # <<>> /\ Head(th[p].ks)[1] = "usertrapret" /\ th[p].frame = <<>>

HartInv(h) == RunInv(h) /\ LocksInv(h) /\ EnableInv(h) /\ RegsInv(h)

OneCpuEach == \A g, h \in Harts : Me(g) = Me(h) => g = h

StateInv == \A h \in Harts : Me(h) \in KProcs => (pstate[Me(h)] = "RUNNING" <=> th[Me(h)].pc[1] # "sched")

ParkInv == \A p \in KProcs : (\A h \in Harts : Me(h) # p) => pstate[p] # "RUNNING" /\ Parked(p)

TrapIInv ==
  /\ TrapTypeOK
  /\ \A h \in Harts : HartInv(h)
  /\ \A t \in Threads : ThreadInv(t)
  /\ OneCpuEach /\ StateInv /\ ParkInv

-----------------------------------------------------------------------------
(* Facts about stacks.                                                     *)

LEMMA PushSeq ==
  ASSUME NEW S, NEW ks \in Seq(S), NEW b \in S
  PROVE  /\ <<b>> \o ks \in Seq(S) /\ <<b>> \o ks # <<>>
         /\ Head(<<b>> \o ks) = b /\ Tail(<<b>> \o ks) = ks
         /\ Len(<<b>> \o ks) = Len(ks) + 1 /\ (<<b>> \o ks)[1] = b
         /\ \A k \in 1..Len(ks) : (<<b>> \o ks)[k+1] = ks[k]
  OBVIOUS

LEMMA PopSeq ==
  ASSUME NEW S, NEW ks \in Seq(S), ks # <<>>
  PROVE  /\ Head(ks) \in S /\ Head(ks) = ks[1] /\ Tail(ks) \in Seq(S)
         /\ Len(ks) \in Nat /\ Len(ks) > 0 /\ Len(Tail(ks)) = Len(ks) - 1
         /\ \A k \in 1..Len(Tail(ks)) : Tail(ks)[k] = ks[k+1]
  OBVIOUS

LEMMA EmptyStack ==
  ASSUME NEW S, NEW ks \in Seq(S)
  PROVE  Len(ks) \in Nat /\ (ks = <<>> <=> Len(ks) = 0)
  OBVIOUS

\* Another label on top of the same stack.
LEMMA StackGoto ==
  ASSUME NEW t, NEW m, NEW a, NEW b, NEW ks, Stack(t, m, a, ks), Link(t, m, b, ks)
  PROVE  Stack(t, m, b, ks)
  BY DEF Stack

\* A call: the return address goes on top of the stack.
LEMMA StackPush ==
  ASSUME NEW t, NEW m, NEW a \in PCs, NEW b \in PCs, NEW ks \in Seq(PCs),
         Stack(t, m, b, ks), Follows(t, a, b)
  PROVE  Stack(t, m, a, <<b>> \o ks)
<1> DEFINE s == <<b>> \o ks
<1>1. /\ s # <<>> /\ Head(s) = b /\ s[1] = b /\ Len(ks) \in Nat /\ Len(s) = Len(ks) + 1
      /\ \A k \in 1..Len(ks) : s[k+1] = ks[k]
  BY PushSeq, EmptyStack
<1> HIDE DEF s
<1>2. Link(t, m, a, s)  BY <1>1 DEF Link
<1>3. ASSUME NEW k \in 1..Len(s)
      PROVE  IF k = Len(s) THEN s[k][1] \in Bottom(t, m) ELSE Follows(t, s[k], s[k+1])
  <2>1. CASE k = 1 /\ ks = <<>>
    BY <1>1, <2>1, EmptyStack DEF Stack, Link
  <2>2. CASE k = 1 /\ ks # <<>>
    <3>1. Len(ks) > 0 /\ Head(ks) = ks[1]  BY <2>2, PopSeq
    <3>2. s[2] = ks[1]
      <4>1. s[1+1] = ks[1]  BY <1>1, <3>1
      <4> QED  BY <4>1
    <3> QED  BY <1>1, <2>2, <3>1, <3>2 DEF Stack, Link
  <2>3. CASE k # 1
    <3>1. PICK j \in 1..Len(ks) : k = j + 1  BY <1>1, <2>3
    <3>2. s[k] = ks[j]  BY <1>1, <3>1
    <3>3. CASE j = Len(ks)  BY <1>1, <3>1, <3>2, <3>3 DEF Stack
    <3>4. CASE j # Len(ks)
      <4>1. j + 1 \in 1..Len(ks)  BY <1>1, <3>4
      <4>2. s[k+1] = ks[j+1]  BY <1>1, <3>1, <4>1
      <4> QED  BY <1>1, <3>1, <3>2, <3>4, <4>2 DEF Stack
    <3> QED  BY <3>3, <3>4
  <2> QED  BY <2>1, <2>2, <2>3
<1>4. Stack(t, m, a, s)  BY <1>2, <1>3 DEF Stack
<1> QED  BY <1>4 DEF s

\* A return.
LEMMA StackPop ==
  ASSUME NEW t, NEW m, NEW a \in PCs, NEW ks \in Seq(PCs), Stack(t, m, a, ks), ks # <<>>
  PROVE  Stack(t, m, Head(ks), Tail(ks))
<1> DEFINE s == Tail(ks)
<1>1. /\ Head(ks) = ks[1] /\ s \in Seq(PCs) /\ Len(ks) \in Nat /\ Len(ks) > 0
      /\ Len(s) \in Nat /\ Len(s) = Len(ks) - 1
      /\ \A k \in 1..Len(s) : s[k] = ks[k+1]
  <2>1. Tail(ks) \in Seq(PCs)  BY PopSeq
  <2> QED  BY <2>1, PopSeq, EmptyStack
<1> HIDE DEF s
<1>2. Link(t, m, Head(ks), s)
  <2>1. CASE s = <<>>
    <3>1. Len(ks) = 1  BY <1>1, <2>1, EmptyStack
    <3> QED  BY <1>1, <2>1, <3>1 DEF Stack, Link
  <2>2. CASE s # <<>>
    <3>1. Head(s) = s[1] /\ Len(s) > 0 /\ Len(s) \in Nat  BY <1>1, <2>2, PopSeq
    <3>2. s[1] = ks[1+1]  BY <1>1, <3>1
    <3>3. Follows(t, ks[1], ks[1+1])  BY <1>1, <3>1 DEF Stack
    <3> QED  BY <1>1, <2>2, <3>1, <3>2, <3>3 DEF Link
  <2> QED  BY <2>1, <2>2
<1>3. ASSUME NEW k \in 1..Len(s)
      PROVE  IF k = Len(s) THEN s[k][1] \in Bottom(t, m) ELSE Follows(t, s[k], s[k+1])
  <2>1. k + 1 \in 1..Len(ks) /\ s[k] = ks[k+1]  BY <1>1
  <2>2. CASE k = Len(s)  BY <1>1, <2>1, <2>2 DEF Stack
  <2>3. CASE k # Len(s)
    <3>1. k + 1 \in 1..Len(s)  BY <1>1, <2>3
    <3>2. s[k+1] = ks[k+1+1]  BY <1>1, <3>1
    <3> QED  BY <1>1, <2>1, <2>3, <3>2 DEF Stack
  <2> QED  BY <2>2, <2>3
<1>4. Stack(t, m, Head(ks), s)  BY <1>2, <1>3 DEF Stack
<1> QED  BY <1>4 DEF s

\* With nothing nested nothing is held.
LEMMA NothingHeld ==
  ASSUME NEW t, NEW pc, NEW ks, NEW l, Depth(pc, ks) = 0
  PROVE  ~Holds(t, pc, ks, l)
  BY DEF Depth, Holds, Acquiring

LEMMA DepthNat == ASSUME NEW pc, NEW ks PROVE Depth(pc, ks) \in 0..2
  BY DEF Depth

-----------------------------------------------------------------------------
(* What the invariant implies.                                             *)

LEMMA TrapInitOK == TrapInit => TrapIInv
<1> SUFFICES ASSUME TrapInit PROVE TrapIInv  OBVIOUS
<1> USE TrapAssumption
<1>1. TrapTypeOK
  <2>1. reg \in [Harts -> RegRecs]
    BY DEF TrapInit, RegRecs, Threads, Scheds
  <2>2. cpus \in [Harts -> CpuRecs]  BY DEF TrapInit, CpuRecs
  <2>3. lock \in [Locks -> Harts \cup {Unlocked}]  BY DEF TrapInit
  <2>4. ASSUME NEW t \in Threads PROVE th[t] \in ThreadRecs
    <3>1. <<"loop">> \in PCs /\ <<"usertrapret">> \in PCs  BY DEF PCs, PlainLabels
    <3>2. t \in KProcs => <<"release", t>> \in PCs  BY DEF PCs, Locks
    <3>3. <<>> \in Seq(PCs) /\ <<<<"usertrapret">>>> \in Seq(PCs) /\ <<>> \in Seq(Frames)  BY <3>1
    <3>4. CASE t \in Scheds
      BY <3>1, <3>3, <3>4 DEF TrapInit, NewThread, ThreadRecs, Devs
    <3>5. CASE t \notin Scheds
      BY <3>1, <3>2, <3>3, <3>5 DEF TrapInit, NewThread, ThreadRecs, Devs, Threads
    <3> QED  BY <3>4, <3>5
  <2>5. th \in [Threads -> ThreadRecs]  BY <2>4 DEF TrapInit
  <2>6. tf \in [KProcs -> TfRecs] /\ upc \in [KProcs -> Instructions]
    BY DEF TrapInit, TfRecs, Instructions, UserStart
  <2> QED  BY <2>1, <2>2, <2>3, <2>5, <2>6 DEF TrapTypeOK, TrapInit
<1>2. ASSUME NEW h \in Harts
      PROVE  /\ Me(h) = <<"sched", h>> /\ Me(h) \in Scheds /\ Me(h) \notin KProcs
             /\ th[Me(h)].pc = <<"loop">> /\ th[Me(h)].ks = <<>> /\ th[Me(h)].frame = <<>>
  BY DEF TrapInit, Me, Scheds, NewThread, Threads
<1>3. ASSUME NEW h \in Harts PROVE HartInv(h)
  <2>1. RunInv(h)  BY <1>2 DEF RunInv, TrapInit
  <2>2. LocksInv(h)
    <3>1. Depth(th[Me(h)].pc, th[Me(h)].ks) = 0  BY <1>2 DEF Depth, Acquiring
    <3>2. cpus[h].noff = 0 /\ \A l \in Locks : lock[l] # h  BY DEF TrapInit, Unlocked
    <3> QED  BY <3>1, <3>2, NothingHeld DEF LocksInv
  <2>3. EnableInv(h)  BY <1>2 DEF EnableInv, EnableOf, TrapInit, UserSide
  <2>4. RegsInv(h)  BY <1>2 DEF RegsInv, RegsOf
  <2> QED  BY <2>1, <2>2, <2>3, <2>4 DEF HartInv
<1>4. ASSUME NEW t \in Threads PROVE ThreadInv(t)
  <2>1. th[t].frame = <<>>  BY DEF TrapInit, NewThread
  <2>2. Stack(t, FALSE, th[t].pc, th[t].ks)
    <3>1. CASE t \in Scheds
      BY <3>1 DEF TrapInit, NewThread, Stack, Link, Bottom
    <3>2. CASE t \notin Scheds
      <4>1. th[t].pc = <<"release", t>> /\ th[t].ks = <<<<"usertrapret">>>> /\ t \in KProcs
        BY <3>2 DEF TrapInit, NewThread, Threads
      <4>2. Len(th[t].ks) = 1 /\ th[t].ks[1] = <<"usertrapret">> /\ Head(th[t].ks) = <<"usertrapret">>
            /\ th[t].ks # <<>>
        BY <4>1
      <4> QED  BY <4>1, <4>2 DEF Stack, Link, Bottom, Follows
    <3> QED  BY <3>1, <3>2
  <2>3. t \in KProcs => tf[t].epc = tf[t].want  BY DEF TrapInit
  <2> QED  BY <2>1, <2>2, <2>3 DEF ThreadInv, FrameInv, FrameOf
<1>5. OneCpuEach  BY <1>2 DEF OneCpuEach
<1>6. StateInv  BY <1>2 DEF StateInv
<1>7. ParkInv
  <2>1. ASSUME NEW p \in KProcs PROVE Parked(p) /\ pstate[p] # "RUNNING"
    <3>1. th[p].pc = <<"release", p>> /\ th[p].ks = <<<<"usertrapret">>>> /\ th[p].frame = <<>>
      BY DEF TrapInit, NewThread, Threads
    <3>2. th[p].ks # <<>> /\ Head(th[p].ks) = <<"usertrapret">>  BY <3>1
    <3>3. Parked(p)  BY <3>1, <3>2 DEF Parked
    <3> QED  BY <3>3 DEF TrapInit
  <2> QED  BY <2>1 DEF ParkInv
<1> QED  BY <1>1, <1>3, <1>4, <1>5, <1>6, <1>7 DEF TrapIInv

\* The running thread of a CPU, in the invariant.
LEMMA Running ==
  ASSUME TrapIInv, NEW h \in Harts
  PROVE  /\ Me(h) \in Threads /\ th[Me(h)] \in ThreadRecs /\ reg[h] \in RegRecs /\ cpus[h] \in CpuRecs
         /\ reg[h].tp = h /\ mycpu(h) = cpus[h]
         /\ Me(h) \in KProcs => Me(h) \notin Scheds /\ Me(h) # tickslock /\ Me(h) \in Locks /\ myproc(h) = Me(h)
         /\ Me(h) \notin KProcs => Me(h) = <<"sched", h>> /\ Me(h) \in Scheds
         /\ ThreadInv(Me(h)) /\ HartInv(h)
  BY TrapAssumption
     DEF TrapIInv, TrapTypeOK, HartInv, RunInv, Me, mycpu, myproc, RegRecs, Threads, Locks

LEMMA LinkOK ==
  ASSUME NEW t, NEW m, NEW pc, NEW ks, Stack(t, m, pc, ks)
  PROVE  Link(t, m, pc, ks)
  BY DEF Stack

LEMMA NoPanicOK == TrapIInv => NoTrapPanic
<1> SUFFICES ASSUME TrapIInv, NEW h \in Harts PROVE ~TrapPanics(h)  BY DEF NoTrapPanic
<1> DEFINE t == Me(h)
<1> DEFINE r == th[Me(h)]
<1>1. /\ r \in ThreadRecs /\ reg[h].tp = h /\ mycpu(h) = cpus[h]
      /\ RunInv(h) /\ LocksInv(h) /\ EnableInv(h) /\ RegsInv(h)
      /\ Link(t, r.frame # <<>>, r.pc, r.ks)
  BY Running, LinkOK DEF HartInv, ThreadInv
<1>2. r.pc \in PCs /\ r.ks \in Seq(PCs)  BY <1>1 DEF ThreadRecs
<1>3. r.pc[1] \in Acquiring \cup {"release"} => r.pc[2] \in Locks
  BY <1>2 DEF PCs, PlainLabels, Acquiring
<1>4. ~(At(h, "spin") /\ holding(h, Arg(h)))
  <2> SUFFICES ASSUME At(h, "spin"), holding(h, Arg(h)) PROVE FALSE  OBVIOUS
  <2>1. r.pc[1] = "spin" /\ lock[r.pc[2]] = h /\ r.pc[2] \in Locks  BY <1>1, <1>3 DEF At, holding, Arg, Acquiring
  <2>2. Holds(t, r.pc, r.ks, r.pc[2])  BY <1>1, <2>1 DEF LocksInv
  <2>3. Head(r.ks)[1] \in {"sleep2", "wake"} /\ r.pc[2] = tickslock
    BY <2>1, <2>2 DEF Holds, Acquiring
  <2>4. r.ks # <<>> /\ Follows(t, r.pc, Head(r.ks))  BY <1>1, <2>1 DEF Link, Bottom
  <2>5. Head(r.ks) \in PCs  BY <1>2, <2>4, PopSeq
  <2>6. Head(r.ks)[1] = "wake" => Head(r.ks)[2] \in KProcs  BY <2>5 DEF PCs, PlainLabels, Acquiring
  <2> QED  BY <2>1, <2>3, <2>4, <2>6, TrapAssumption DEF Follows, Acquiring
<1>5. ~(At(h, "release") /\ (~holding(h, Arg(h)) \/ reg[h].sie \/ mycpu(h).noff < 1))
  <2> SUFFICES ASSUME At(h, "release")
               PROVE  holding(h, Arg(h)) /\ ~reg[h].sie /\ ~(mycpu(h).noff < 1)
    OBVIOUS
  <2>1. r.pc[1] = "release" /\ r.pc[2] \in Locks  BY <1>3 DEF At
  <2>2. Holds(t, r.pc, r.ks, r.pc[2]) /\ Depth(r.pc, r.ks) \in {1, 2}  BY <2>1 DEF Holds, Depth, Acquiring
  <2>3. lock[r.pc[2]] = h /\ cpus[h].noff \in {1, 2}  BY <1>1, <2>1, <2>2 DEF LocksInv
  <2>4. ~reg[h].sie  BY <1>1, <2>2 DEF EnableInv, EnableOf
  <2> QED  BY <1>1, <2>3, <2>4 DEF holding, Arg
<1>6. ~(At(h, "sched") /\ \/ ~holding(h, Me(h)) \/ mycpu(h).noff # 1
                          \/ pstate[Me(h)] = "RUNNING" \/ reg[h].sie)
  <2> SUFFICES ASSUME At(h, "sched")
               PROVE  holding(h, t) /\ mycpu(h).noff = 1 /\ pstate[t] # "RUNNING" /\ ~reg[h].sie
    OBVIOUS
  <2>1. r.pc[1] = "sched"  BY DEF At
  <2>2. t \in KProcs /\ t \in Locks  BY <1>1, <2>1 DEF Link, Bottom, Follows, Acquiring, Locks
  <2>3. Holds(t, r.pc, r.ks, t) /\ Depth(r.pc, r.ks) = 1  BY <2>1 DEF Holds, Depth, Acquiring
  <2>4. pstate[t] # "RUNNING"  BY <2>1, <2>2 DEF TrapIInv, StateInv
  <2> QED  BY <1>1, <2>2, <2>3, <2>4 DEF LocksInv, EnableInv, EnableOf, holding
<1>7. ~(At(h, "usertrap") /\ reg[h].spp # "U")  BY <1>1 DEF At, RegsInv, RegsOf
<1>8. ~(At(h, "devintr") /\ th[Me(h)].frame # <<>> /\ (reg[h].spp # "S" \/ reg[h].sie))
  BY <1>1 DEF At, RegsInv, RegsOf, EnableInv, EnableOf
<1> QED  BY <1>4, <1>5, <1>6, <1>7, <1>8 DEF TrapPanics

LEMMA TrapInvOK == TrapIInv => TrapInv
<1> SUFFICES ASSUME TrapIInv PROVE TrapInv  OBVIOUS
<1>1. ASSUME NEW h \in Harts
      PROVE  /\ reg[h].tp = h /\ Me(h) \in Threads
             /\ RunInv(h) /\ LocksInv(h) /\ EnableInv(h) /\ RegsInv(h)
  BY <1>1, Running DEF HartInv
<1>2. TpIsHart  BY <1>1 DEF TpIsHart, RunInv
<1>3. ResumesWhereInterrupted  BY <1>1 DEF ResumesWhereInterrupted, RegsInv, RegsOf, At
<1>4. ASSUME NEW h \in Harts, reg[h].sie, ~InUser(h)
      PROVE  cpus[h].noff = 0 /\ reg[h].stvec = "kernelvec" /\ \A l \in Locks : lock[l] # h
  <2>1. Depth(th[Me(h)].pc, th[Me(h)].ks) = 0 /\ reg[h].stvec = "kernelvec"
    BY <1>1, <1>4 DEF EnableInv, EnableOf
  <2> QED  BY <1>1, <2>1, NothingHeld DEF LocksInv
<1>5. ASSUME NEW t \in Threads PROVE Len(th[t].frame) <= 1
  <2>1. th[t].frame \in Seq(Frames) /\ FrameInv(t)
    BY DEF TrapIInv, TrapTypeOK, ThreadRecs, ThreadInv
  <2>2. CASE th[t].frame = <<>>  BY <2>2
  <2>3. CASE th[t].frame # <<>>
    <3>1. Len(th[t].frame) = 1  BY <2>1, <2>3 DEF FrameInv, FrameOf
    <3> QED  BY <3>1
  <2> QED  BY <2>2, <2>3
<1> QED  BY <1>2, <1>3, <1>4, <1>5 DEF TrapInv, InterruptsContained

-----------------------------------------------------------------------------
(* A step of one CPU leaves the others alone.                              *)

\* What a step of CPU h can change.
Touch(h) ==
  /\ \A g \in Harts \ {h} : reg'[g] = reg[g] /\ cpus'[g] = cpus[g]
  /\ \A u \in Threads \ {Me(h)} : th'[u] = th[u]
  /\ \A p \in KProcs \ {Me(h)} : tf'[p] = tf[p]
  /\ \A l \in Locks : \/ lock'[l] = lock[l]
                      \/ lock[l] \in {h, Unlocked} /\ lock'[l] \in {h, Unlocked}

LEMMA OtherHarts ==
  ASSUME TrapIInv, NEW h \in Harts, Touch(h), NEW g \in Harts, g # h
  PROVE  HartInv(g)' /\ Me(g)' = Me(g) /\ th'[Me(g)] = th[Me(g)]
<1> DEFINE s == <<"sched", g>>
<1>1. HartInv(g) /\ HartInv(h) /\ Me(g) \in Threads /\ Me(h) \in Threads  BY Running
<1>2. reg'[g] = reg[g] /\ cpus'[g] = cpus[g] /\ Me(g)' = Me(g)  BY DEF Touch, Me
<1>3. Me(g) # Me(h)  BY DEF TrapIInv, OneCpuEach
<1>4. th'[Me(g)] = th[Me(g)]  BY <1>1, <1>3 DEF Touch
<1>5. s \in Threads /\ s # Me(h)
  <2>1. s \in Scheds  BY DEF Scheds
  <2>2. Me(h) \in Scheds => Me(h) = <<"sched", h>>  BY <1>1 DEF HartInv, RunInv
  <2>3. <<"sched", h>> # <<"sched", g>>  OBVIOUS
  <2> QED  BY <2>1, <2>2, <2>3 DEF Threads
<1>6. th'[s] = th[s]  BY <1>5 DEF Touch
<1>7. RunInv(g)'  BY <1>1, <1>2, <1>6 DEF HartInv, RunInv
<1>8. LocksInv(g)'
  <2>1. \A l \in Locks : lock'[l] = g <=> lock[l] = g  BY TrapAssumption DEF Touch, Unlocked
  <2> QED  BY <1>1, <1>2, <1>4, <2>1 DEF HartInv, LocksInv
<1>9. EnableInv(g)'  BY <1>1, <1>2, <1>4 DEF HartInv, EnableInv, EnableOf
<1>10. RegsInv(g)'
  <2>1. CASE Me(g) \in KProcs
    <3>1. tf'[Me(g)] = tf[Me(g)]  BY <1>3, <2>1 DEF Touch
    <3> QED  BY <1>1, <1>2, <1>4, <3>1 DEF HartInv, RegsInv, RegsOf
  <2>2. CASE Me(g) \notin KProcs
    <3>1. ThreadInv(Me(g))  BY Running
    <3>2. th[Me(g)].pc[1] \notin {"user", "uservec", "usertrap", "userret"}
      BY <2>2, <3>1, LinkOK DEF ThreadInv, Link, Bottom, Follows, Acquiring
    <3> QED  BY <1>1, <1>2, <1>4, <3>2 DEF HartInv, RegsInv, RegsOf
  <2> QED  BY <2>1, <2>2
<1> QED  BY <1>2, <1>4, <1>7, <1>8, <1>9, <1>10 DEF HartInv

LEMMA OtherThreads ==
  ASSUME TrapIInv, NEW h \in Harts, Touch(h), NEW u \in Threads, u # Me(h)
  PROVE  ThreadInv(u)' /\ (u \in KProcs => (Parked(u)' <=> Parked(u)))
<1>1. th'[u] = th[u] /\ (u \in KProcs => tf'[u] = tf[u])  BY DEF Touch
<1>2. ThreadInv(u)  BY DEF TrapIInv
<1> QED  BY <1>1, <1>2 DEF ThreadInv, FrameInv, FrameOf, Parked

\* A step that does not switch threads.
LEMMA LocalStep ==
  ASSUME TrapIInv, NEW h \in Harts, Touch(h), TrapTypeOK', Me(h)' = Me(h),
         HartInv(h)', ThreadInv(Me(h))',
         Me(h) \in KProcs => (pstate'[Me(h)] = "RUNNING" <=> th'[Me(h)].pc[1] # "sched"),
         \A p \in KProcs \ {Me(h)} : \/ pstate'[p] = pstate[p]
                                     \/ pstate[p] # "RUNNING" /\ pstate'[p] # "RUNNING"
  PROVE  TrapIInv'
<1>1. \A g \in Harts : HartInv(g)' /\ Me(g)' = Me(g)  BY OtherHarts
<1>2. ASSUME NEW u \in Threads PROVE ThreadInv(u)'
  BY OtherThreads
<1>3. OneCpuEach'  BY <1>1 DEF OneCpuEach, TrapIInv
<1>4. StateInv'
  <2> SUFFICES ASSUME NEW g \in Harts, Me(g) \in KProcs
               PROVE  pstate'[Me(g)] = "RUNNING" <=> th'[Me(g)].pc[1] # "sched"
    BY <1>1 DEF StateInv
  <2>1. CASE g = h  BY <2>1
  <2>2. CASE g # h
    <3>1. Me(g) # Me(h)  BY <2>2 DEF TrapIInv, OneCpuEach
    <3>2. th'[Me(g)] = th[Me(g)]  BY <2>2, OtherHarts
    <3>3. pstate[Me(g)] = "RUNNING" <=> th[Me(g)].pc[1] # "sched"  BY DEF TrapIInv, StateInv
    <3> QED  BY <3>1, <3>2, <3>3
  <2> QED  BY <2>1, <2>2
<1>5. ParkInv'
  <2> SUFFICES ASSUME NEW p \in KProcs, \A g \in Harts : Me(g) # p
               PROVE  pstate'[p] # "RUNNING" /\ Parked(p)'
    BY <1>1 DEF ParkInv
  <2>1. pstate[p] # "RUNNING" /\ Parked(p)  BY DEF TrapIInv, ParkInv
  <2>2. p \in Threads /\ p # Me(h)  BY DEF Threads
  <2> QED  BY <2>1, <2>2, OtherThreads
<1> QED  BY <1>1, <1>2, <1>3, <1>4, <1>5 DEF TrapIInv

\* A step that only moves the program counter, with nothing taken or given
\* back and no trap register in use.
LEMMA QuietStep ==
  ASSUME TrapIInv, NEW h \in Harts, UNCHANGED <<reg, cpus, lock, tf, upc>>,
         NEW r \in ThreadRecs, th' = [th EXCEPT ![Me(h)] = r],
         r.frame = th[Me(h)].frame, r.intena = th[Me(h)].intena,
         r.frame # <<>> => ~r.old,
         Stack(Me(h), r.frame # <<>>, r.pc, r.ks),
         Depth(r.pc, r.ks) = Depth(th[Me(h)].pc, th[Me(h)].ks),
         \A l \in Locks : Holds(Me(h), r.pc, r.ks, l) <=> Holds(Me(h), th[Me(h)].pc, th[Me(h)].ks, l),
         r.pc[1] \notin UserSide \cup {"sret", "devintr", "back", "sched2"},
         th[Me(h)].pc[1] \notin UserSide \cup {"back", "sched2"},
         pstate' \in [KProcs -> {"UNUSED", "RUNNABLE", "RUNNING", "SLEEPING"}],
         Me(h) \in KProcs => (pstate'[Me(h)] = "RUNNING" <=> r.pc[1] # "sched"),
         \A p \in KProcs \ {Me(h)} : \/ pstate'[p] = pstate[p]
                                     \/ pstate[p] # "RUNNING" /\ pstate'[p] # "RUNNING"
  PROVE  TrapIInv'
<1>0. PICK t \in Threads : t = Me(h)  BY Running
<1>1. t \in Threads /\ HartInv(h) /\ ThreadInv(t)  BY <1>0, Running
<1>2. th'[t] = r /\ \A u \in Threads \ {t} : th'[u] = th[u]  BY <1>0, <1>1 DEF TrapIInv, TrapTypeOK
<1>3. Me(h)' = t  BY <1>0 DEF Me
<1>4. Touch(h)  BY <1>0, <1>2 DEF Touch
<1>5. TrapTypeOK'  BY <1>0, <1>1 DEF TrapIInv, TrapTypeOK
<1>6. RunInv(h)'
  <2>1. CASE t \in KProcs
    <3>1. <<"sched", h>> \in Threads \ {t}
      BY <2>1, TrapAssumption DEF Threads, Scheds
    <3>2. th'[<<"sched", h>>] = th[<<"sched", h>>]  BY <1>2, <3>1
    <3>3. t \notin Scheds  BY <2>1, TrapAssumption
    <3> QED  BY <1>0, <1>1, <1>3, <2>1, <3>2, <3>3 DEF HartInv, RunInv
  <2>2. CASE t \notin KProcs  BY <1>0, <1>1, <1>2, <1>3, <2>2 DEF HartInv, RunInv
  <2> QED  BY <2>1, <2>2
<1>7. LocksInv(h)'  BY <1>0, <1>1, <1>2, <1>3 DEF HartInv, LocksInv
<1>8. EnableInv(h)'  BY <1>0, <1>1, <1>2, <1>3 DEF HartInv, EnableInv, EnableOf
<1>9. RegsInv(h)'  BY <1>0, <1>1, <1>2, <1>3 DEF RegsInv, RegsOf, UserSide
<1>10. ThreadInv(t)'
  <2>1. FrameInv(t)'  BY <1>0, <1>1, <1>2 DEF ThreadInv, FrameInv, FrameOf
  <2>2. t \in KProcs => tf[t].epc = tf[t].want  BY <1>0, <1>1 DEF ThreadInv, UserSide
  <2> QED  BY <1>0, <1>2, <2>1, <2>2 DEF ThreadInv
<1> QED  BY <1>0, <1>2, <1>3, <1>4, <1>5, <1>6, <1>7, <1>8, <1>9, <1>10, LocalStep DEF HartInv

LEMMA Here ==
  ASSUME TrapIInv, NEW h \in Harts
  PROVE  /\ th[Me(h)].pc \in PCs /\ th[Me(h)].ks \in Seq(PCs)
         /\ Stack(Me(h), th[Me(h)].frame # <<>>, th[Me(h)].pc, th[Me(h)].ks)
         /\ Link(Me(h), th[Me(h)].frame # <<>>, th[Me(h)].pc, th[Me(h)].ks)
         /\ th[Me(h)].frame # <<>> => ~th[Me(h)].old
         /\ th[Me(h)].pc[1] \in Acquiring \cup {"release"} => Arg(h) \in Locks
         /\ th[Me(h)].pc[1] \in {"pick", "back", "wake"} => Arg(h) \in KProcs
         /\ th[Me(h)].pc[1] = "wakeup" => Arg(h) \in SUBSET KProcs
         /\ Me(h) \in KProcs => (pstate[Me(h)] = "RUNNING" <=> th[Me(h)].pc[1] # "sched")
<1>1. th[Me(h)] \in ThreadRecs /\ ThreadInv(Me(h))  BY Running
<1>2. th[Me(h)].pc \in PCs  BY <1>1 DEF ThreadRecs
<1>3. th[Me(h)].pc[1] \in Acquiring \cup {"release"} => Arg(h) \in Locks
  BY <1>2 DEF PCs, PlainLabels, Acquiring, Arg
<1>4. th[Me(h)].pc[1] \in {"pick", "back", "wake"} => Arg(h) \in KProcs
  BY <1>2 DEF PCs, PlainLabels, Acquiring, Arg
<1>5. th[Me(h)].pc[1] = "wakeup" => Arg(h) \in SUBSET KProcs
  BY <1>2 DEF PCs, PlainLabels, Acquiring, Arg
<1> QED  BY <1>1, <1>2, <1>3, <1>4, <1>5, LinkOK DEF ThreadRecs, ThreadInv, FrameInv, FrameOf, TrapIInv, StateInv

\* A quiet step to another label of the same function.
LEMMA QuietGoto ==
  ASSUME TrapIInv, NEW h \in Harts, UNCHANGED <<reg, cpus, lock, tf, upc>>,
         NEW b \in PCs, Goto(Me(h), b),
         Link(Me(h), th[Me(h)].frame # <<>>, b, th[Me(h)].ks),
         Depth(b, th[Me(h)].ks) = Depth(th[Me(h)].pc, th[Me(h)].ks),
         \A l \in Locks : Holds(Me(h), b, th[Me(h)].ks, l) <=> Holds(Me(h), th[Me(h)].pc, th[Me(h)].ks, l),
         b[1] \notin UserSide \cup {"sret", "devintr", "back", "sched2", "sched"},
         th[Me(h)].pc[1] \notin UserSide \cup {"back", "sched2", "sched"},
         pstate' \in [KProcs -> {"UNUSED", "RUNNABLE", "RUNNING", "SLEEPING"}],
         \A p \in KProcs : \/ pstate'[p] = pstate[p]
                           \/ pstate[p] # "RUNNING" /\ pstate'[p] # "RUNNING"
  PROVE  TrapIInv'
<1> DEFINE r == [th[Me(h)] EXCEPT !.pc = b]
<1>1. Me(h) \in Threads /\ th[Me(h)] \in ThreadRecs  BY Running
<1>2. th' = [th EXCEPT ![Me(h)] = r]  BY <1>1 DEF Goto, TrapIInv, TrapTypeOK
<1>3. /\ r \in ThreadRecs /\ r.pc = b /\ r.ks = th[Me(h)].ks /\ r.frame = th[Me(h)].frame
      /\ r.intena = th[Me(h)].intena /\ r.old = th[Me(h)].old
  BY <1>1 DEF ThreadRecs
<1>4. Stack(Me(h), r.frame # <<>>, r.pc, r.ks)  BY <1>3, Here, StackGoto
<1> HIDE DEF r
<1> QED  BY <1>2, <1>3, <1>4, Here, QuietStep

\* A quiet call.
LEMMA QuietCall ==
  ASSUME TrapIInv, NEW h \in Harts, UNCHANGED <<reg, cpus, lock, tf, upc>>,
         NEW a \in PCs, NEW b \in PCs, Call(Me(h), a, b),
         Link(Me(h), th[Me(h)].frame # <<>>, b, th[Me(h)].ks), Follows(Me(h), a, b),
         \A s : Head(s) = b =>
           /\ Depth(a, s) = Depth(th[Me(h)].pc, th[Me(h)].ks)
           /\ \A l \in Locks : Holds(Me(h), a, s, l) <=> Holds(Me(h), th[Me(h)].pc, th[Me(h)].ks, l),
         a[1] \notin UserSide \cup {"sret", "devintr", "back", "sched2"},
         th[Me(h)].pc[1] \notin UserSide \cup {"back", "sched2"},
         pstate' \in [KProcs -> {"UNUSED", "RUNNABLE", "RUNNING", "SLEEPING"}],
         Me(h) \in KProcs => (pstate'[Me(h)] = "RUNNING" <=> a[1] # "sched"),
         \A p \in KProcs \ {Me(h)} : pstate'[p] = pstate[p]
  PROVE  TrapIInv'
<1> DEFINE s == <<b>> \o th[Me(h)].ks
<1> DEFINE r == [th[Me(h)] EXCEPT !.pc = a, !.ks = s]
<1>1. Me(h) \in Threads /\ th[Me(h)] \in ThreadRecs /\ th[Me(h)].ks \in Seq(PCs)  BY Running, Here
<1>2. th' = [th EXCEPT ![Me(h)] = r]  BY <1>1 DEF Call, TrapIInv, TrapTypeOK
<1>3. s \in Seq(PCs) /\ Head(s) = b  BY <1>1, PushSeq
<1>4. Stack(Me(h), th[Me(h)].frame # <<>>, a, s)
  <2>1. Stack(Me(h), th[Me(h)].frame # <<>>, b, th[Me(h)].ks)  BY Here, StackGoto
  <2> QED  BY <1>1, <2>1, StackPush
<1> HIDE DEF s
<1>5. /\ r \in ThreadRecs /\ r.pc = a /\ r.ks = s /\ r.frame = th[Me(h)].frame
      /\ r.intena = th[Me(h)].intena /\ r.old = th[Me(h)].old
  BY <1>1, <1>3 DEF ThreadRecs
<1> HIDE DEF r
<1> QED  BY <1>2, <1>3, <1>4, <1>5, Here, QuietStep

LEMMA Labels ==
  /\ \A x \in PlainLabels : <<x>> \in PCs
  /\ \A x \in Acquiring \cup {"release"}, l \in Locks : <<x, l>> \in PCs
  /\ \A x \in {"pick", "back", "wake"}, p \in KProcs : <<x, p>> \in PCs
  /\ \A S \in SUBSET KProcs : <<"wakeup", S>> \in PCs
  /\ tickslock \in Locks /\ KProcs \subseteq Locks /\ tickslock \notin KProcs
<1>1. \A x \in PlainLabels : <<x>> \in PCs  BY DEF PCs
<1>2. \A x \in Acquiring \cup {"release"}, l \in Locks : <<x, l>> \in PCs  BY DEF PCs
<1>3. \A x \in {"pick", "back", "wake"}, p \in KProcs : <<x, p>> \in PCs  BY DEF PCs
<1>4. \A S \in SUBSET KProcs : <<"wakeup", S>> \in PCs  BY DEF PCs
<1> QED  BY <1>1, <1>2, <1>3, <1>4, TrapAssumption DEF Locks

-----------------------------------------------------------------------------
(* Quiet steps, one lemma for each action.                                 *)

LEMMA push_off1OK == ASSUME TrapIInv, NEW h \in Harts, push_off1(h) PROVE TrapIInv'
<1> DEFINE b == <<"push_off", Arg(h)>>
<1> DEFINE r == [th[Me(h)] EXCEPT !.old = reg[h].sie, !.pc = b]
<1>1. Me(h) \in Threads /\ th[Me(h)] \in ThreadRecs /\ reg[h] \in RegRecs /\ HartInv(h)  BY Running
<1>2. th[Me(h)].pc[1] = "acquire" /\ UNCHANGED <<reg, cpus, lock, tf, upc, pstate>>
  BY DEF push_off1, At
<1>3. b \in PCs  BY <1>2, Here, Labels DEF Acquiring
<1>4. th' = [th EXCEPT ![Me(h)] = r]  BY <1>1 DEF push_off1, TrapIInv, TrapTypeOK
<1>5. /\ r \in ThreadRecs /\ r.pc = b /\ r.ks = th[Me(h)].ks /\ r.frame = th[Me(h)].frame
      /\ r.intena = th[Me(h)].intena /\ r.old = reg[h].sie
  BY <1>1, <1>3 DEF ThreadRecs, RegRecs
<1>6. r.frame # <<>> => ~r.old  BY <1>1, <1>5 DEF HartInv, EnableInv, EnableOf
<1> HIDE DEF r
<1>7. Link(Me(h), th[Me(h)].frame # <<>>, b, th[Me(h)].ks)
  BY <1>2, Here DEF Link, Bottom, Follows, Acquiring, Arg
<1>8. Stack(Me(h), r.frame # <<>>, r.pc, r.ks)  BY <1>5, <1>7, Here, StackGoto
<1>9. Depth(r.pc, r.ks) = Depth(th[Me(h)].pc, th[Me(h)].ks)
  BY <1>2, <1>5 DEF Depth, Acquiring
<1>10. \A l \in Locks : Holds(Me(h), r.pc, r.ks, l) <=> Holds(Me(h), th[Me(h)].pc, th[Me(h)].ks, l)
  BY <1>2, <1>5 DEF Holds, Acquiring
<1>11. /\ r.pc[1] \notin UserSide \cup {"sret", "devintr", "back", "sched2", "sched"}
       /\ th[Me(h)].pc[1] \notin UserSide \cup {"back", "sched2", "sched"}
  BY <1>2, <1>5 DEF UserSide
<1>12. pstate' \in [KProcs -> {"UNUSED", "RUNNABLE", "RUNNING", "SLEEPING"}]
  BY <1>2 DEF TrapIInv, TrapTypeOK
<1> QED  BY <1>2, <1>4, <1>5, <1>6, <1>8, <1>9, <1>10, <1>11, <1>12, Here, QuietStep

\* The cases of QuietGoto and QuietCall in which no p->state changes.
LEMMA CalmGoto ==
  ASSUME TrapIInv, NEW h \in Harts, UNCHANGED <<reg, cpus, lock, tf, upc, pstate>>,
         NEW b \in PCs, Goto(Me(h), b),
         Link(Me(h), th[Me(h)].frame # <<>>, b, th[Me(h)].ks),
         Depth(b, th[Me(h)].ks) = Depth(th[Me(h)].pc, th[Me(h)].ks),
         \A l \in Locks : Holds(Me(h), b, th[Me(h)].ks, l) <=> Holds(Me(h), th[Me(h)].pc, th[Me(h)].ks, l),
         b[1] \notin UserSide \cup {"sret", "devintr", "back", "sched2", "sched"},
         th[Me(h)].pc[1] \notin UserSide \cup {"back", "sched2", "sched"}
  PROVE  TrapIInv'
  BY QuietGoto DEF TrapIInv, TrapTypeOK

LEMMA CalmCall ==
  ASSUME TrapIInv, NEW h \in Harts, UNCHANGED <<reg, cpus, lock, tf, upc, pstate>>,
         NEW a \in PCs, NEW b \in PCs, Call(Me(h), a, b),
         Link(Me(h), th[Me(h)].frame # <<>>, b, th[Me(h)].ks), Follows(Me(h), a, b),
         \A s : Head(s) = b =>
           /\ Depth(a, s) = Depth(th[Me(h)].pc, th[Me(h)].ks)
           /\ \A l \in Locks : Holds(Me(h), a, s, l) <=> Holds(Me(h), th[Me(h)].pc, th[Me(h)].ks, l),
         a[1] \notin UserSide \cup {"sret", "devintr", "back", "sched2", "sched"},
         th[Me(h)].pc[1] \notin UserSide \cup {"back", "sched2", "sched"}
  PROVE  TrapIInv'
<1>1. pstate' \in [KProcs -> {"UNUSED", "RUNNABLE", "RUNNING", "SLEEPING"}]  BY DEF TrapIInv, TrapTypeOK
<1> QED  BY <1>1, Here, QuietCall

LEMMA yieldOK == ASSUME TrapIInv, NEW h \in Harts, yield(h) PROVE TrapIInv'
<1> DEFINE pc == th[Me(h)].pc
<1> DEFINE ks == th[Me(h)].ks
<1>1. /\ pc[1] \in {"yield", "yield2"} /\ UNCHANGED <<reg, cpus, lock, tf, upc>>
  BY DEF yield, At
<1>2. Me(h) \in KProcs /\ ks # <<>> /\ Head(ks)[1] \in {"usertrapret", "kerneltrap2"}
  BY <1>1, Here DEF Link, Bottom, Follows, Acquiring
<1>3. myproc(h) = Me(h) /\ Me(h) \in Locks /\ Me(h) # tickslock  BY <1>2, Running
<1>4. CASE pc[1] = "yield"
  <2> DEFINE a == <<"acquire", Me(h)>>
  <2> DEFINE b == <<"yield2">>
  <2>1. UNCHANGED pstate /\ Call(Me(h), a, b)  BY <1>3, <1>4 DEF yield, At
  <2>2. a \in PCs /\ b \in PCs  BY <1>3, Labels DEF Acquiring, PlainLabels
  <2>3. Link(Me(h), th[Me(h)].frame # <<>>, b, ks)  BY <1>2 DEF Link, Follows
  <2>4. Follows(Me(h), a, b)  BY <1>2 DEF Follows, Acquiring
  <2>5. ASSUME NEW s, Head(s) = b
        PROVE  /\ Depth(a, s) = Depth(pc, ks)
               /\ \A l \in Locks : Holds(Me(h), a, s, l) <=> Holds(Me(h), pc, ks, l)
    BY <1>4, <2>5 DEF Depth, Holds, Acquiring
  <2>6. /\ a[1] \notin UserSide \cup {"sret", "devintr", "back", "sched2", "sched"}
        /\ pc[1] \notin UserSide \cup {"back", "sched2", "sched"}
    BY <1>4 DEF UserSide
  <2> HIDE DEF a, b
  <2> QED  BY <1>1, <2>1, <2>2, <2>3, <2>4, <2>5, <2>6, CalmCall
<1>5. CASE pc[1] = "yield2"
  <2> DEFINE a == <<"sched">>
  <2> DEFINE b == <<"release", Me(h)>>
  <2>1. pstate' = [pstate EXCEPT ![Me(h)] = "RUNNABLE"] /\ Call(Me(h), a, b)
    BY <1>3, <1>5 DEF yield, At
  <2>2. a \in PCs /\ b \in PCs  BY <1>3, Labels DEF Acquiring, PlainLabels
  <2>3. Link(Me(h), th[Me(h)].frame # <<>>, b, ks)  BY <1>2 DEF Link, Follows
  <2>4. Follows(Me(h), a, b)  BY <1>2 DEF Follows
  <2>5. ASSUME NEW s, Head(s) = b
        PROVE  /\ Depth(a, s) = Depth(pc, ks)
               /\ \A l \in Locks : Holds(Me(h), a, s, l) <=> Holds(Me(h), pc, ks, l)
    BY <1>5, <2>5 DEF Depth, Holds, Acquiring
  <2>6. /\ a[1] \notin UserSide \cup {"sret", "devintr", "back", "sched2"} /\ a[1] = "sched"
        /\ pc[1] \notin UserSide \cup {"back", "sched2"}
    BY <1>5 DEF UserSide
  <2>7. /\ pstate' \in [KProcs -> {"UNUSED", "RUNNABLE", "RUNNING", "SLEEPING"}]
        /\ pstate'[Me(h)] = "RUNNABLE"
        /\ \A p \in KProcs \ {Me(h)} : pstate'[p] = pstate[p]
    BY <1>2, <2>1 DEF TrapIInv, TrapTypeOK
  <2> HIDE DEF a, b
  <2> QED  BY <1>1, <2>1, <2>2, <2>3, <2>4, <2>5, <2>6, <2>7, QuietCall
<1> QED  BY <1>1, <1>4, <1>5

LEMMA usertrap2OK == ASSUME TrapIInv, NEW h \in Harts, usertrap2(h) PROVE TrapIInv'
<1> DEFINE pc == th[Me(h)].pc
<1> DEFINE ks == th[Me(h)].ks
<1>1. /\ pc[1] = "usertrap2" /\ UNCHANGED <<reg, cpus, lock, tf, upc>>
  BY DEF usertrap2, At
<1>2. Me(h) \in KProcs /\ ks = <<>> /\ th[Me(h)].frame = <<>>
  BY <1>1, Here DEF Link, Bottom, Follows, Acquiring
<1>3. CASE th[Me(h)].dev = "timer"
  <2> DEFINE a == <<"yield">>
  <2> DEFINE b == <<"usertrapret">>
  <2>1. UNCHANGED pstate /\ Call(Me(h), a, b)  BY <1>1, <1>3 DEF usertrap2, At
  <2>2. a \in PCs /\ b \in PCs  BY <1>1, Labels DEF Acquiring, PlainLabels
  <2>3. Link(Me(h), th[Me(h)].frame # <<>>, b, ks)  BY <1>1, <1>2 DEF Link, Follows, Bottom, Acquiring
  <2>4. Follows(Me(h), a, b)  BY <1>2 DEF Follows, Acquiring
  <2>5. ASSUME NEW s, Head(s) = b
        PROVE  /\ Depth(a, s) = Depth(pc, ks)
               /\ \A l \in Locks : Holds(Me(h), a, s, l) <=> Holds(Me(h), pc, ks, l)
    BY <1>1, <1>3, <2>5 DEF Depth, Holds, Acquiring
  <2>6. /\ a[1] \notin UserSide \cup {"sret", "devintr", "back", "sched2", "sched"}
        /\ pc[1] \notin UserSide \cup {"back", "sched2", "sched"}
    BY <1>1, <1>3 DEF UserSide
  <2> HIDE DEF a, b
  <2> QED  BY <1>1, <2>1, <2>2, <2>3, <2>4, <2>5, <2>6, CalmCall
<1>4. CASE th[Me(h)].dev # "timer"
  <2> DEFINE b == <<"usertrapret">>
  <2>1. UNCHANGED pstate /\ Goto(Me(h), b)  BY <1>1, <1>4 DEF usertrap2, At
  <2>2. b \in PCs  BY <1>1, Labels DEF Acquiring, PlainLabels
  <2>3. Link(Me(h), th[Me(h)].frame # <<>>, b, ks)  BY <1>1, <1>2 DEF Link, Follows, Bottom, Acquiring
  <2>4. /\ Depth(b, ks) = Depth(pc, ks)
        /\ \A l \in Locks : Holds(Me(h), b, ks, l) <=> Holds(Me(h), pc, ks, l)
    BY <1>1, <1>4 DEF Depth, Holds, Acquiring
  <2>5. /\ b[1] \notin UserSide \cup {"sret", "devintr", "back", "sched2", "sched"}
        /\ pc[1] \notin UserSide \cup {"back", "sched2", "sched"}
    BY <1>1, <1>4 DEF UserSide
  <2> HIDE DEF b
  <2> QED  BY <1>1, <2>1, <2>2, <2>3, <2>4, <2>5, CalmGoto
<1> QED  BY <1>3, <1>4

LEMMA sys_sleepOK == ASSUME TrapIInv, NEW h \in Harts, sys_sleep(h) PROVE TrapIInv'
<1> DEFINE pc == th[Me(h)].pc
<1> DEFINE ks == th[Me(h)].ks
<1>1. /\ pc[1] \in {"syscall", "ticks0", "tickloop"} /\ UNCHANGED <<reg, cpus, lock, tf, upc>>
  BY DEF sys_sleep, At
<1>2. Me(h) \in KProcs /\ ks = <<>> /\ th[Me(h)].frame = <<>>
  BY <1>1, Here DEF Link, Bottom, Follows, Acquiring
<1>3. CASE pc[1] = "syscall" /\ Call(Me(h), <<"acquire", tickslock>>, <<"ticks0">>)
  <2> DEFINE a == <<"acquire", tickslock>>
  <2> DEFINE b == <<"ticks0">>
  <2>1. UNCHANGED pstate /\ Call(Me(h), a, b)  BY <1>1, <1>3 DEF sys_sleep, At
  <2>2. a \in PCs /\ b \in PCs  BY <1>1, Labels DEF Acquiring, PlainLabels
  <2>3. Link(Me(h), th[Me(h)].frame # <<>>, b, ks)  BY <1>1, <1>2 DEF Link, Follows, Bottom, Acquiring
  <2>4. Follows(Me(h), a, b)  BY <1>2 DEF Follows, Acquiring
  <2>5. ASSUME NEW s, Head(s) = b
        PROVE  /\ Depth(a, s) = Depth(pc, ks)
               /\ \A l \in Locks : Holds(Me(h), a, s, l) <=> Holds(Me(h), pc, ks, l)
    BY <1>1, <1>3, <2>5 DEF Depth, Holds, Acquiring
  <2>6. /\ a[1] \notin UserSide \cup {"sret", "devintr", "back", "sched2", "sched"}
        /\ pc[1] \notin UserSide \cup {"back", "sched2", "sched"}
    BY <1>1, <1>3 DEF UserSide
  <2> HIDE DEF a, b
  <2> QED  BY <1>1, <2>1, <2>2, <2>3, <2>4, <2>5, <2>6, CalmCall
<1>4. CASE pc[1] = "syscall" /\ Goto(Me(h), <<"usertrapret">>)
  <2> DEFINE b == <<"usertrapret">>
  <2>1. UNCHANGED pstate /\ Goto(Me(h), b)  BY <1>1, <1>4 DEF sys_sleep, At
  <2>2. b \in PCs  BY <1>1, Labels DEF Acquiring, PlainLabels
  <2>3. Link(Me(h), th[Me(h)].frame # <<>>, b, ks)  BY <1>1, <1>2 DEF Link, Follows, Bottom, Acquiring
  <2>4. /\ Depth(b, ks) = Depth(pc, ks)
        /\ \A l \in Locks : Holds(Me(h), b, ks, l) <=> Holds(Me(h), pc, ks, l)
    BY <1>1, <1>4 DEF Depth, Holds, Acquiring
  <2>5. /\ b[1] \notin UserSide \cup {"sret", "devintr", "back", "sched2", "sched"}
        /\ pc[1] \notin UserSide \cup {"back", "sched2", "sched"}
    BY <1>1, <1>4 DEF UserSide
  <2> HIDE DEF b
  <2> QED  BY <1>1, <2>1, <2>2, <2>3, <2>4, <2>5, CalmGoto
<1>5. CASE pc[1] = "ticks0"
  <2> DEFINE b == <<"tickloop">>
  <2>1. UNCHANGED pstate /\ Goto(Me(h), b)  BY <1>1, <1>5 DEF sys_sleep, At
  <2>2. b \in PCs  BY <1>1, Labels DEF Acquiring, PlainLabels
  <2>3. Link(Me(h), th[Me(h)].frame # <<>>, b, ks)  BY <1>1, <1>2 DEF Link, Follows, Bottom, Acquiring
  <2>4. /\ Depth(b, ks) = Depth(pc, ks)
        /\ \A l \in Locks : Holds(Me(h), b, ks, l) <=> Holds(Me(h), pc, ks, l)
    BY <1>1, <1>5 DEF Depth, Holds, Acquiring
  <2>5. /\ b[1] \notin UserSide \cup {"sret", "devintr", "back", "sched2", "sched"}
        /\ pc[1] \notin UserSide \cup {"back", "sched2", "sched"}
    BY <1>1, <1>5 DEF UserSide
  <2> HIDE DEF b
  <2> QED  BY <1>1, <2>1, <2>2, <2>3, <2>4, <2>5, CalmGoto
<1>6. CASE pc[1] = "tickloop" /\ ticked[Me(h)]
  <2> DEFINE a == <<"release", tickslock>>
  <2> DEFINE b == <<"usertrapret">>
  <2>1. UNCHANGED pstate /\ Call(Me(h), a, b)  BY <1>1, <1>6 DEF sys_sleep, At
  <2>2. a \in PCs /\ b \in PCs  BY <1>1, Labels DEF Acquiring, PlainLabels
  <2>3. Link(Me(h), th[Me(h)].frame # <<>>, b, ks)  BY <1>1, <1>2 DEF Link, Follows, Bottom, Acquiring
  <2>4. Follows(Me(h), a, b)  BY <1>2 DEF Follows, Acquiring
  <2>5. ASSUME NEW s, Head(s) = b
        PROVE  /\ Depth(a, s) = Depth(pc, ks)
               /\ \A l \in Locks : Holds(Me(h), a, s, l) <=> Holds(Me(h), pc, ks, l)
    BY <1>1, <1>6, <2>5 DEF Depth, Holds, Acquiring
  <2>6. /\ a[1] \notin UserSide \cup {"sret", "devintr", "back", "sched2", "sched"}
        /\ pc[1] \notin UserSide \cup {"back", "sched2", "sched"}
    BY <1>1, <1>6 DEF UserSide
  <2> HIDE DEF a, b
  <2> QED  BY <1>1, <2>1, <2>2, <2>3, <2>4, <2>5, <2>6, CalmCall
<1>7. CASE pc[1] = "tickloop" /\ ~ticked[Me(h)]
  <2> DEFINE a == <<"sleep">>
  <2> DEFINE b == <<"tickloop">>
  <2>1. UNCHANGED pstate /\ Call(Me(h), a, b)  BY <1>1, <1>7 DEF sys_sleep, At
  <2>2. a \in PCs /\ b \in PCs  BY <1>1, Labels DEF Acquiring, PlainLabels
  <2>3. Link(Me(h), th[Me(h)].frame # <<>>, b, ks)  BY <1>1, <1>2 DEF Link, Follows, Bottom, Acquiring
  <2>4. Follows(Me(h), a, b)  BY <1>2 DEF Follows, Acquiring
  <2>5. ASSUME NEW s, Head(s) = b
        PROVE  /\ Depth(a, s) = Depth(pc, ks)
               /\ \A l \in Locks : Holds(Me(h), a, s, l) <=> Holds(Me(h), pc, ks, l)
    BY <1>1, <1>7, <2>5 DEF Depth, Holds, Acquiring
  <2>6. /\ a[1] \notin UserSide \cup {"sret", "devintr", "back", "sched2", "sched"}
        /\ pc[1] \notin UserSide \cup {"back", "sched2", "sched"}
    BY <1>1, <1>7 DEF UserSide
  <2> HIDE DEF a, b
  <2> QED  BY <1>1, <2>1, <2>2, <2>3, <2>4, <2>5, <2>6, CalmCall
<1> QED  BY <1>1, <1>3, <1>4, <1>5, <1>6, <1>7 DEF sys_sleep, At

LEMMA kerneltrapOK == ASSUME TrapIInv, NEW h \in Harts, kerneltrap(h) PROVE TrapIInv'
<1> DEFINE pc == th[Me(h)].pc
<1> DEFINE ks == th[Me(h)].ks
<1>1. /\ pc[1] = "kerneltrap" /\ UNCHANGED <<reg, cpus, lock, tf, upc>>
  BY DEF kerneltrap, At
<1>2. ks = <<>> /\ th[Me(h)].frame # <<>>
  BY <1>1, Here DEF Link, Bottom, Follows, Acquiring
<1>3. myproc(h) # NoThread => Me(h) \in KProcs
  <2>1. HartInv(h)  BY Running
  <2>2. Me(h) \notin KProcs => cpus[h].proc = NoThread
    BY <1>1, <2>1, Running DEF HartInv, RunInv
  <2> QED  BY <2>2, Running DEF myproc
<1>4. CASE th[Me(h)].dev = "timer" /\ myproc(h) # NoThread
  <2> DEFINE a == <<"yield">>
  <2> DEFINE b == <<"kerneltrap2">>
  <2>1. UNCHANGED pstate /\ Call(Me(h), a, b)  BY <1>1, <1>4 DEF kerneltrap, At
  <2>2. a \in PCs /\ b \in PCs  BY <1>1, Labels DEF Acquiring, PlainLabels
  <2>3. Link(Me(h), th[Me(h)].frame # <<>>, b, ks)  BY <1>1, <1>2 DEF Link, Follows, Bottom, Acquiring
  <2>4. Follows(Me(h), a, b)  BY <1>3, <1>4 DEF Follows, Acquiring
  <2>5. ASSUME NEW s, Head(s) = b
        PROVE  /\ Depth(a, s) = Depth(pc, ks)
               /\ \A l \in Locks : Holds(Me(h), a, s, l) <=> Holds(Me(h), pc, ks, l)
    BY <1>1, <1>4, <2>5 DEF Depth, Holds, Acquiring
  <2>6. /\ a[1] \notin UserSide \cup {"sret", "devintr", "back", "sched2", "sched"}
        /\ pc[1] \notin UserSide \cup {"back", "sched2", "sched"}
    BY <1>1, <1>4 DEF UserSide
  <2> HIDE DEF a, b
  <2> QED  BY <1>1, <2>1, <2>2, <2>3, <2>4, <2>5, <2>6, CalmCall
<1>5. CASE ~(th[Me(h)].dev = "timer" /\ myproc(h) # NoThread)
  <2> DEFINE b == <<"kerneltrap2">>
  <2>1. UNCHANGED pstate /\ Goto(Me(h), b)  BY <1>1, <1>5 DEF kerneltrap, At
  <2>2. b \in PCs  BY <1>1, Labels DEF Acquiring, PlainLabels
  <2>3. Link(Me(h), th[Me(h)].frame # <<>>, b, ks)  BY <1>1, <1>2 DEF Link, Follows, Bottom, Acquiring
  <2>4. /\ Depth(b, ks) = Depth(pc, ks)
        /\ \A l \in Locks : Holds(Me(h), b, ks, l) <=> Holds(Me(h), pc, ks, l)
    BY <1>1, <1>5 DEF Depth, Holds, Acquiring
  <2>5. /\ b[1] \notin UserSide \cup {"sret", "devintr", "back", "sched2", "sched"}
        /\ pc[1] \notin UserSide \cup {"back", "sched2", "sched"}
    BY <1>1, <1>5 DEF UserSide
  <2> HIDE DEF b
  <2> QED  BY <1>1, <2>1, <2>2, <2>3, <2>4, <2>5, CalmGoto
<1> QED  BY <1>4, <1>5

\* A quiet step that puts two return addresses on the stack.
LEMMA QuietCall2 ==
  ASSUME TrapIInv, NEW h \in Harts, UNCHANGED <<reg, cpus, lock, tf, upc>>,
         NEW a \in PCs, NEW b \in PCs, NEW c \in PCs,
         th' = [th EXCEPT ![Me(h)].pc = a, ![Me(h)].ks = <<b, c>> \o @],
         Link(Me(h), th[Me(h)].frame # <<>>, c, th[Me(h)].ks), Follows(Me(h), b, c), Follows(Me(h), a, b),
         \A s : Head(s) = b =>
           /\ Depth(a, s) = Depth(th[Me(h)].pc, th[Me(h)].ks)
           /\ \A l \in Locks : Holds(Me(h), a, s, l) <=> Holds(Me(h), th[Me(h)].pc, th[Me(h)].ks, l),
         a[1] \notin UserSide \cup {"sret", "devintr", "back", "sched2"},
         th[Me(h)].pc[1] \notin UserSide \cup {"back", "sched2"},
         pstate' \in [KProcs -> {"UNUSED", "RUNNABLE", "RUNNING", "SLEEPING"}],
         Me(h) \in KProcs => (pstate'[Me(h)] = "RUNNING" <=> a[1] # "sched"),
         \A p \in KProcs \ {Me(h)} : pstate'[p] = pstate[p]
  PROVE  TrapIInv'
<1> DEFINE u == <<c>> \o th[Me(h)].ks
<1> DEFINE s == <<b>> \o u
<1> DEFINE r == [th[Me(h)] EXCEPT !.pc = a, !.ks = s]
<1>1. Me(h) \in Threads /\ th[Me(h)] \in ThreadRecs /\ th[Me(h)].ks \in Seq(PCs)  BY Running, Here
<1>2. <<b, c>> \o th[Me(h)].ks = s
  <2>1. <<b>> \in Seq(PCs) /\ <<c>> \in Seq(PCs) /\ <<b, c>> = Append(<<b>>, c)  OBVIOUS
  <2>2. ASSUME NEW x \in Seq(PCs) PROVE Append(x, c) = x \o <<c>>  BY AppendIsConcat
  <2>3. <<b, c>> = <<b>> \o <<c>>  BY <2>1, <2>2, Zenon
  <2> QED  BY <1>1, <2>1, <2>3, ConcatAssociative
<1>3. th' = [th EXCEPT ![Me(h)] = r]  BY <1>1, <1>2 DEF TrapIInv, TrapTypeOK
<1>4. u \in Seq(PCs)  BY <1>1, PushSeq
<1>5. Stack(Me(h), th[Me(h)].frame # <<>>, b, u)
  <2>1. Stack(Me(h), th[Me(h)].frame # <<>>, c, th[Me(h)].ks)  BY Here, StackGoto
  <2> QED  BY <1>1, <2>1, StackPush
<1> HIDE DEF u
<1>6. s \in Seq(PCs) /\ Head(s) = b  BY <1>4, PushSeq
<1>7. Stack(Me(h), th[Me(h)].frame # <<>>, a, s)  BY <1>4, <1>5, StackPush
<1> HIDE DEF s
<1>8. /\ r \in ThreadRecs /\ r.pc = a /\ r.ks = s /\ r.frame = th[Me(h)].frame
      /\ r.intena = th[Me(h)].intena /\ r.old = th[Me(h)].old
  BY <1>1, <1>6 DEF ThreadRecs
<1> HIDE DEF r
<1> QED  BY <1>3, <1>6, <1>7, <1>8, Here, QuietStep

LEMMA sleepOK == ASSUME TrapIInv, NEW h \in Harts, sleep(h) PROVE TrapIInv'
<1> DEFINE pc == th[Me(h)].pc
<1> DEFINE ks == th[Me(h)].ks
<1>1. /\ pc[1] \in {"sleep", "sleep2", "sleep3"} /\ UNCHANGED <<reg, cpus, lock, tf, upc>>
  BY DEF sleep, At
<1>2. Me(h) \in KProcs /\ ks # <<>> /\ Head(ks)[1] = "tickloop"
  BY <1>1, Here DEF Link, Bottom, Follows, Acquiring
<1>3. Me(h) \in Locks /\ Me(h) # tickslock  BY <1>2, Running
<1>4. CASE pc[1] = "sleep"
  <2> DEFINE a == <<"acquire", Me(h)>>
  <2> DEFINE b == <<"sleep2">>
  <2>1. UNCHANGED pstate /\ Call(Me(h), a, b)  BY <1>1, <1>3, <1>4 DEF sleep, At
  <2>2. a \in PCs /\ b \in PCs  BY <1>1, <1>3, Labels DEF Acquiring, PlainLabels
  <2>3. Link(Me(h), th[Me(h)].frame # <<>>, b, ks)  BY <1>2 DEF Link, Follows, Bottom, Acquiring
  <2>4. Follows(Me(h), a, b)  BY <1>2 DEF Follows, Acquiring
  <2>5. ASSUME NEW s, Head(s) = b
        PROVE  /\ Depth(a, s) = Depth(pc, ks)
               /\ \A l \in Locks : Holds(Me(h), a, s, l) <=> Holds(Me(h), pc, ks, l)
    BY <1>1, <1>3, <1>4, <2>5 DEF Depth, Holds, Acquiring
  <2>6. /\ a[1] \notin UserSide \cup {"sret", "devintr", "back", "sched2", "sched"}
        /\ pc[1] \notin UserSide \cup {"back", "sched2", "sched"}
    BY <1>1, <1>3, <1>4 DEF UserSide
  <2> HIDE DEF a, b
  <2> QED  BY <1>1, <2>1, <2>2, <2>3, <2>4, <2>5, <2>6, CalmCall
<1>5. CASE pc[1] = "sleep2"
  <2> DEFINE a == <<"release", tickslock>>
  <2> DEFINE b == <<"sleep3">>
  <2>1. UNCHANGED pstate /\ Call(Me(h), a, b)  BY <1>1, <1>3, <1>5 DEF sleep, At
  <2>2. a \in PCs /\ b \in PCs  BY <1>1, <1>3, Labels DEF Acquiring, PlainLabels
  <2>3. Link(Me(h), th[Me(h)].frame # <<>>, b, ks)  BY <1>2 DEF Link, Follows, Bottom, Acquiring
  <2>4. Follows(Me(h), a, b)  BY <1>2 DEF Follows, Acquiring
  <2>5. ASSUME NEW s, Head(s) = b
        PROVE  /\ Depth(a, s) = Depth(pc, ks)
               /\ \A l \in Locks : Holds(Me(h), a, s, l) <=> Holds(Me(h), pc, ks, l)
    BY <1>1, <1>3, <1>5, <2>5 DEF Depth, Holds, Acquiring
  <2>6. /\ a[1] \notin UserSide \cup {"sret", "devintr", "back", "sched2", "sched"}
        /\ pc[1] \notin UserSide \cup {"back", "sched2", "sched"}
    BY <1>1, <1>3, <1>5 DEF UserSide
  <2> HIDE DEF a, b
  <2> QED  BY <1>1, <2>1, <2>2, <2>3, <2>4, <2>5, <2>6, CalmCall
<1>6. CASE pc[1] = "sleep3"
  <2> DEFINE a == <<"sched">>
  <2> DEFINE b == <<"release", Me(h)>>
  <2> DEFINE c == <<"acquire", tickslock>>
  <2>1. /\ pstate' = [pstate EXCEPT ![Me(h)] = "SLEEPING"]
        /\ th' = [th EXCEPT ![Me(h)].pc = a, ![Me(h)].ks = <<b, c>> \o @]
    BY <1>6 DEF sleep, At
  <2>2. a \in PCs /\ b \in PCs /\ c \in PCs  BY <1>3, Labels DEF Acquiring, PlainLabels
  <2>3. Link(Me(h), th[Me(h)].frame # <<>>, c, ks)  BY <1>2 DEF Link, Follows, Acquiring
  <2>4. Follows(Me(h), b, c) /\ Follows(Me(h), a, b)  BY <1>2 DEF Follows
  <2>5. ASSUME NEW s, Head(s) = b
        PROVE  /\ Depth(a, s) = Depth(pc, ks)
               /\ \A l \in Locks : Holds(Me(h), a, s, l) <=> Holds(Me(h), pc, ks, l)
    BY <1>6, <2>5 DEF Depth, Holds, Acquiring
  <2>6. /\ a[1] \notin UserSide \cup {"sret", "devintr", "back", "sched2"} /\ a[1] = "sched"
        /\ pc[1] \notin UserSide \cup {"back", "sched2"}
    BY <1>6 DEF UserSide
  <2>7. /\ pstate' \in [KProcs -> {"UNUSED", "RUNNABLE", "RUNNING", "SLEEPING"}]
        /\ pstate'[Me(h)] = "SLEEPING"
        /\ \A p \in KProcs \ {Me(h)} : pstate'[p] = pstate[p]
    BY <1>2, <2>1 DEF TrapIInv, TrapTypeOK
  <2> HIDE DEF a, b, c
  <2> QED  BY <1>1, <2>1, <2>2, <2>3, <2>4, <2>5, <2>6, <2>7, QuietCall2
<1> QED  BY <1>1, <1>4, <1>5, <1>6

LEMMA wakeupOK == ASSUME TrapIInv, NEW h \in Harts, wakeup(h) PROVE TrapIInv'
<1> DEFINE pc == th[Me(h)].pc
<1> DEFINE ks == th[Me(h)].ks
<1>1. /\ pc[1] \in {"wakeup", "wake"} /\ UNCHANGED <<reg, cpus, lock, tf, upc>>
  BY DEF wakeup, At
<1>2. /\ ks # <<>> /\ Head(ks)[1] \in {"usertrap2", "kerneltrap", "wakeup"}
      /\ pc[1] = "wakeup" => Me(h) \notin Arg(h) /\ Head(ks)[1] \in {"usertrap2", "kerneltrap"}
      /\ pc[1] = "wake" => Arg(h) # Me(h) /\ Head(ks)[1] = "wakeup"
  BY <1>1, Here DEF Link, Bottom, Follows, Acquiring, Arg
<1>3. CASE pc[1] = "wakeup" /\ Goto(Me(h), <<"release", tickslock>>)
  <2> DEFINE b == <<"release", tickslock>>
  <2>1. UNCHANGED pstate /\ Goto(Me(h), b)  BY <1>1, <1>3 DEF wakeup, At
  <2>2. b \in PCs  BY <1>1, Labels DEF Acquiring, PlainLabels
  <2>3. Link(Me(h), th[Me(h)].frame # <<>>, b, ks)  BY <1>2, <1>3 DEF Link, Follows, Bottom, Acquiring
  <2>4. /\ Depth(b, ks) = Depth(pc, ks)
        /\ \A l \in Locks : Holds(Me(h), b, ks, l) <=> Holds(Me(h), pc, ks, l)
    BY <1>1, <1>3, <1>2 DEF Depth, Holds, Acquiring
  <2>5. /\ b[1] \notin UserSide \cup {"sret", "devintr", "back", "sched2", "sched"}
        /\ pc[1] \notin UserSide \cup {"back", "sched2", "sched"}
    BY <1>1, <1>3 DEF UserSide
  <2> HIDE DEF b
  <2> QED  BY <1>1, <2>1, <2>2, <2>3, <2>4, <2>5, CalmGoto
<1>4. ASSUME pc[1] = "wakeup", NEW p \in Arg(h), UNCHANGED pstate,
             th' = [th EXCEPT ![Me(h)].pc = <<"acquire", p>>,
                              ![Me(h)].ks = <<<<"wake", p>>, <<"wakeup", Arg(h) \ {p}>>>> \o @]
      PROVE  TrapIInv'
  <2> DEFINE a == <<"acquire", p>>
  <2> DEFINE b == <<"wake", p>>
  <2> DEFINE c == <<"wakeup", Arg(h) \ {p}>>
  <2>1. p \in KProcs /\ Arg(h) \ {p} \in SUBSET KProcs  BY <1>4, Here
  <2>2. a \in PCs /\ b \in PCs /\ c \in PCs  BY <2>1, Labels DEF Acquiring
  <2>3. Link(Me(h), th[Me(h)].frame # <<>>, c, ks)  BY <1>2, <1>4 DEF Link, Follows
  <2>4. Follows(Me(h), b, c) /\ Follows(Me(h), a, b)  BY <1>2, <1>4 DEF Follows, Acquiring
  <2>5. ASSUME NEW s, Head(s) = b
        PROVE  /\ Depth(a, s) = Depth(pc, ks)
               /\ \A l \in Locks : Holds(Me(h), a, s, l) <=> Holds(Me(h), pc, ks, l)
    BY <1>4, <2>5 DEF Depth, Holds, Acquiring
  <2>6. /\ a[1] \notin UserSide \cup {"sret", "devintr", "back", "sched2"} /\ a[1] # "sched"
        /\ pc[1] \notin UserSide \cup {"back", "sched2", "sched"}
    BY <1>4 DEF UserSide
  <2>7. pstate' \in [KProcs -> {"UNUSED", "RUNNABLE", "RUNNING", "SLEEPING"}]
    BY <1>4 DEF TrapIInv, TrapTypeOK
  <2>8. th' = [th EXCEPT ![Me(h)].pc = a, ![Me(h)].ks = <<b, c>> \o @]  BY <1>4
  <2> HIDE DEF a, b, c
  <2> QED  BY <1>1, <1>4, <2>2, <2>3, <2>4, <2>5, <2>6, <2>7, <2>8, Here, QuietCall2
<1>5. CASE pc[1] = "wake"
  <2> DEFINE b == <<"release", Arg(h)>>
  <2>1. /\ Goto(Me(h), b)
        /\ pstate' = [pstate EXCEPT ![Arg(h)] = IF @ = "SLEEPING" THEN "RUNNABLE" ELSE @]
    BY <1>5 DEF wakeup, At
  <2>2. Arg(h) \in KProcs /\ Arg(h) \in Locks  BY <1>5, Here, Labels
  <2>3. b \in PCs  BY <2>2, Labels DEF Acquiring
  <2>4. Link(Me(h), th[Me(h)].frame # <<>>, b, ks)  BY <1>2, <1>5, <2>2 DEF Link, Follows
  <2>5. Arg(h) = pc[2]  BY DEF Arg
  <2>6. /\ Depth(b, ks) = Depth(pc, ks)
        /\ \A l \in Locks : Holds(Me(h), b, ks, l) <=> Holds(Me(h), pc, ks, l)
    BY <1>2, <1>5, <2>5 DEF Depth, Holds, Acquiring
  <2>7. /\ b[1] \notin UserSide \cup {"sret", "devintr", "back", "sched2", "sched"}
        /\ pc[1] \notin UserSide \cup {"back", "sched2", "sched"}
    BY <1>5 DEF UserSide
  <2>8. /\ pstate' \in [KProcs -> {"UNUSED", "RUNNABLE", "RUNNING", "SLEEPING"}]
        /\ \A p \in KProcs : \/ pstate'[p] = pstate[p]
                             \/ pstate[p] # "RUNNING" /\ pstate'[p] # "RUNNING"
    <3>1. pstate \in [KProcs -> {"UNUSED", "RUNNABLE", "RUNNING", "SLEEPING"}]  BY DEF TrapIInv, TrapTypeOK
    <3>2. CASE pstate[Arg(h)] = "SLEEPING"
      <4>1. pstate' = [pstate EXCEPT ![Arg(h)] = "RUNNABLE"]  BY <2>1, <2>2, <3>1, <3>2
      <4> QED  BY <2>2, <3>1, <3>2, <4>1
    <3>3. CASE pstate[Arg(h)] # "SLEEPING"
      <4>1. pstate' = pstate  BY <2>1, <2>2, <3>1, <3>3
      <4> QED  BY <3>1, <4>1
    <3> QED  BY <3>2, <3>3
  <2> HIDE DEF b
  <2> QED  BY <1>1, <2>1, <2>3, <2>4, <2>6, <2>7, <2>8, QuietGoto
<1> QED  BY <1>1, <1>3, <1>4, <1>5 DEF wakeup, At

LEMMA devintrOK == ASSUME TrapIInv, NEW h \in Harts, devintr(h) PROVE TrapIInv'
<1> DEFINE pc == th[Me(h)].pc
<1> DEFINE ks == th[Me(h)].ks
<1>1. /\ pc[1] \in {"devintr", "clockintr"} /\ UNCHANGED <<reg, cpus, lock, tf, upc>>
  BY DEF devintr, At
<1>2. ks # <<>> /\ Head(ks)[1] \in {"usertrap2", "kerneltrap"}
  BY <1>1, Here DEF Link, Bottom, Follows, Acquiring
<1>3. ASSUME pc[1] = "devintr", th' = [th EXCEPT ![Me(h)] = Returned(@)], UNCHANGED pstate
      PROVE  TrapIInv'
  <2> DEFINE r == Returned(th[Me(h)])
  <2>1. Me(h) \in Threads /\ th[Me(h)] \in ThreadRecs /\ ks \in Seq(PCs)  BY Running, Here
  <2>2. Head(ks) \in PCs /\ Tail(ks) \in Seq(PCs)  BY <1>2, <2>1, PopSeq
  <2>3. /\ r \in ThreadRecs /\ r.pc = Head(ks) /\ r.ks = Tail(ks) /\ r.frame = th[Me(h)].frame
        /\ r.intena = th[Me(h)].intena /\ r.old = th[Me(h)].old
    BY <2>1, <2>2 DEF ThreadRecs, Returned
  <2>4. th' = [th EXCEPT ![Me(h)] = r]  BY <1>3, <2>1 DEF TrapIInv, TrapTypeOK
  <2> HIDE DEF r
  <2>5. Stack(Me(h), r.frame # <<>>, r.pc, r.ks)  BY <1>2, <2>1, <2>3, Here, StackPop
  <2>6. Depth(r.pc, r.ks) = Depth(pc, ks)  BY <1>2, <1>3, <2>3 DEF Depth, Acquiring
  <2>7. \A l \in Locks : Holds(Me(h), r.pc, r.ks, l) <=> Holds(Me(h), pc, ks, l)
    BY <1>2, <1>3, <2>3 DEF Holds, Acquiring
  <2>8. /\ r.pc[1] \notin UserSide \cup {"sret", "devintr", "back", "sched2", "sched"}
        /\ pc[1] \notin UserSide \cup {"back", "sched2", "sched"}
    BY <1>2, <1>3, <2>3 DEF UserSide
  <2>9. pstate' \in [KProcs -> {"UNUSED", "RUNNABLE", "RUNNING", "SLEEPING"}]
    BY <1>3 DEF TrapIInv, TrapTypeOK
  <2> QED  BY <1>1, <1>3, <2>3, <2>4, <2>5, <2>6, <2>7, <2>8, <2>9, Here, QuietStep
<1>4. CASE pc[1] = "devintr" /\ Call(Me(h), <<"acquire", tickslock>>, <<"clockintr">>)
  <2> DEFINE a == <<"acquire", tickslock>>
  <2> DEFINE b == <<"clockintr">>
  <2>1. UNCHANGED pstate /\ Call(Me(h), a, b)  BY <1>1, <1>4 DEF devintr, At
  <2>2. a \in PCs /\ b \in PCs  BY <1>1, Labels DEF Acquiring, PlainLabels
  <2>3. Link(Me(h), th[Me(h)].frame # <<>>, b, ks)  BY <1>2 DEF Link, Follows, Bottom, Acquiring
  <2>4. Follows(Me(h), a, b)  BY <1>2 DEF Follows, Acquiring
  <2>5. ASSUME NEW s, Head(s) = b
        PROVE  /\ Depth(a, s) = Depth(pc, ks)
               /\ \A l \in Locks : Holds(Me(h), a, s, l) <=> Holds(Me(h), pc, ks, l)
    BY <1>1, <1>4, <2>5 DEF Depth, Holds, Acquiring
  <2>6. /\ a[1] \notin UserSide \cup {"sret", "devintr", "back", "sched2", "sched"}
        /\ pc[1] \notin UserSide \cup {"back", "sched2", "sched"}
    BY <1>1, <1>4 DEF UserSide
  <2> HIDE DEF a, b
  <2> QED  BY <1>1, <2>1, <2>2, <2>3, <2>4, <2>5, <2>6, CalmCall
<1>5. CASE pc[1] = "clockintr" /\ th[Me(h)].dev # "timer"
  <2> DEFINE b == <<"release", tickslock>>
  <2>1. UNCHANGED pstate /\ Goto(Me(h), b)  BY <1>1, <1>5 DEF devintr, At
  <2>2. b \in PCs  BY <1>1, Labels DEF Acquiring, PlainLabels
  <2>3. Link(Me(h), th[Me(h)].frame # <<>>, b, ks)  BY <1>2, <1>5 DEF Link, Follows, Bottom, Acquiring
  <2>4. /\ Depth(b, ks) = Depth(pc, ks)
        /\ \A l \in Locks : Holds(Me(h), b, ks, l) <=> Holds(Me(h), pc, ks, l)
    BY <1>1, <1>5, <1>2 DEF Depth, Holds, Acquiring
  <2>5. /\ b[1] \notin UserSide \cup {"sret", "devintr", "back", "sched2", "sched"}
        /\ pc[1] \notin UserSide \cup {"back", "sched2", "sched"}
    BY <1>1, <1>5 DEF UserSide
  <2> HIDE DEF b
  <2> QED  BY <1>1, <2>1, <2>2, <2>3, <2>4, <2>5, CalmGoto
<1>6. Me(h) \notin InTable \ {myproc(h)}  BY Running DEF InTable
<1>7. CASE pc[1] = "clockintr" /\ th[Me(h)].dev = "timer"
  <2> DEFINE b == <<"wakeup", InTable \ {myproc(h)}>>
  <2>1. UNCHANGED pstate /\ Goto(Me(h), b)  BY <1>1, <1>7 DEF devintr, At
  <2>2. b \in PCs  BY Labels DEF InTable
  <2>3. Link(Me(h), th[Me(h)].frame # <<>>, b, ks)  BY <1>2, <1>7, <1>6 DEF Link, Follows, Bottom, Acquiring
  <2>4. /\ Depth(b, ks) = Depth(pc, ks)
        /\ \A l \in Locks : Holds(Me(h), b, ks, l) <=> Holds(Me(h), pc, ks, l)
    BY <1>1, <1>7 DEF Depth, Holds, Acquiring
  <2>5. /\ b[1] \notin UserSide \cup {"sret", "devintr", "back", "sched2", "sched"}
        /\ pc[1] \notin UserSide \cup {"back", "sched2", "sched"}
    BY <1>1, <1>7 DEF UserSide
  <2> HIDE DEF b
  <2> QED  BY <1>1, <2>1, <2>2, <2>3, <2>4, <2>5, CalmGoto
<1> QED  BY <1>1, <1>3, <1>4, <1>5, <1>7 DEF devintr, At

-----------------------------------------------------------------------------
(* Steps that change registers, locks or cpus[].                           *)

\* A step of CPU h that leaves thread r, registers x and c in cpus[].
LEMMA Settle ==
  ASSUME TrapIInv, NEW h \in Harts, NEW r \in ThreadRecs, NEW x \in RegRecs, NEW c \in CpuRecs,
         th' = [th EXCEPT ![Me(h)] = r], reg' = [reg EXCEPT ![h] = x], cpus' = [cpus EXCEPT ![h] = c],
         x.run = Me(h), x.tp = h,
         c.proc = IF Me(h) \in KProcs THEN Me(h) ELSE NoThread,
         r.pc[1] # "sched", r.pc[1] # "back", th[Me(h)].pc[1] # "sched", UNCHANGED pstate,
         tf' \in [KProcs -> TfRecs], upc' \in [KProcs -> Instructions],
         \A p \in KProcs \ {Me(h)} : tf'[p] = tf[p],
         lock' \in [Locks -> Harts \cup {Unlocked}],
         \A l \in Locks : \/ lock'[l] = lock[l]
                          \/ lock[l] \in {h, Unlocked} /\ lock'[l] \in {h, Unlocked},
         c.noff = Depth(r.pc, r.ks),
         \A l \in Locks : lock'[l] = h <=> Holds(Me(h), r.pc, r.ks, l),
         EnableOf(x, c, r), RegsOf(h, x, r, tf'[Me(h)]),
         Stack(Me(h), r.frame # <<>>, r.pc, r.ks), FrameOf(Me(h), r),
         Me(h) \in KProcs /\ r.pc[1] \notin {"user", "uservec", "usertrap"} =>
           tf'[Me(h)].epc = tf'[Me(h)].want
  PROVE  TrapIInv'
<1>0. PICK t \in Threads : t = Me(h)  BY Running
<1>1. HartInv(h) /\ ThreadInv(t)  BY <1>0, Running
<1>2. th'[t] = r /\ \A u \in Threads \ {t} : th'[u] = th[u]  BY <1>0 DEF TrapIInv, TrapTypeOK
<1>3. /\ reg'[h] = x /\ cpus'[h] = c
      /\ \A g \in Harts \ {h} : reg'[g] = reg[g] /\ cpus'[g] = cpus[g]
  BY DEF TrapIInv, TrapTypeOK
<1>4. Me(h)' = t  BY <1>0, <1>3 DEF Me
<1>5. Touch(h)  BY <1>0, <1>2, <1>3 DEF Touch
<1>6. TrapTypeOK'  BY <1>0 DEF TrapIInv, TrapTypeOK
<1>7. RunInv(h)'
  <2>1. CASE t \in KProcs
    <3>1. <<"sched", h>> \in Threads \ {t}  BY <2>1, TrapAssumption DEF Threads, Scheds
    <3>2. th'[<<"sched", h>>] = th[<<"sched", h>>]  BY <1>2, <3>1
    <3>3. t \notin Scheds  BY <2>1, TrapAssumption
    <3> QED  BY <1>0, <1>1, <1>3, <1>4, <2>1, <3>2, <3>3 DEF HartInv, RunInv
  <2>2. CASE t \notin KProcs
    <3>1. t = <<"sched", h>>  BY <1>0, <2>2, Running
    <3> QED  BY <1>0, <1>3, <1>4, <2>2, <3>1 DEF RunInv
  <2> QED  BY <2>1, <2>2
<1>8. LocksInv(h)'  BY <1>0, <1>2, <1>3, <1>4 DEF LocksInv
<1>9. EnableInv(h)'  BY <1>2, <1>3, <1>4 DEF EnableInv
<1>10. RegsInv(h)'  BY <1>0, <1>2, <1>3, <1>4 DEF RegsInv
<1>11. ThreadInv(t)'  BY <1>0, <1>2 DEF ThreadInv, FrameInv
<1>12. t \in KProcs => (pstate'[t] = "RUNNING" <=> r.pc[1] # "sched")  BY <1>0, Here
<1> QED
  BY <1>0, <1>2, <1>4, <1>5, <1>6, <1>7, <1>8, <1>9, <1>10, <1>11, <1>12, LocalStep DEF HartInv

\* What Settle needs to know of the step's beginning.
LEMMA Begin ==
  ASSUME TrapIInv, NEW h \in Harts
  PROVE  /\ Me(h) \in Threads /\ th[Me(h)] \in ThreadRecs /\ reg[h] \in RegRecs /\ cpus[h] \in CpuRecs
         /\ reg[h].run = Me(h) /\ reg[h].tp = h
         /\ th[Me(h)].pc[1] # "back" => cpus[h].proc = IF Me(h) \in KProcs THEN Me(h) ELSE NoThread
         /\ EnableOf(reg[h], cpus[h], th[Me(h)]) /\ RegsOf(h, reg[h], th[Me(h)], tf[Me(h)])
         /\ cpus[h].noff = Depth(th[Me(h)].pc, th[Me(h)].ks)
         /\ \A l \in Locks : lock[l] = h <=> Holds(Me(h), th[Me(h)].pc, th[Me(h)].ks, l)
         /\ FrameOf(Me(h), th[Me(h)])
         /\ Me(h) \in KProcs /\ th[Me(h)].pc[1] \notin {"user", "uservec", "usertrap"} =>
              tf[Me(h)].epc = tf[Me(h)].want
         /\ tf \in [KProcs -> TfRecs] /\ upc \in [KProcs -> Instructions]
         /\ lock \in [Locks -> Harts \cup {Unlocked}]
         /\ th \in [Threads -> ThreadRecs] /\ reg \in [Harts -> RegRecs] /\ cpus \in [Harts -> CpuRecs]
<1>1. Me(h) \in Threads /\ HartInv(h) /\ ThreadInv(Me(h)) /\ TrapTypeOK  BY Running DEF TrapIInv
<1>2. th[Me(h)].pc[1] # "back" => cpus[h].proc = IF Me(h) \in KProcs THEN Me(h) ELSE NoThread
  BY <1>1, Running DEF HartInv, RunInv
<1>3. reg[h].run = Me(h)  BY DEF Me
<1>4. EnableOf(reg[h], cpus[h], th[Me(h)]) /\ RegsOf(h, reg[h], th[Me(h)], tf[Me(h)])
  BY <1>1 DEF HartInv, EnableInv, RegsInv
<1>5. /\ cpus[h].noff = Depth(th[Me(h)].pc, th[Me(h)].ks)
      /\ \A l \in Locks : lock[l] = h <=> Holds(Me(h), th[Me(h)].pc, th[Me(h)].ks, l)
  BY <1>1 DEF HartInv, LocksInv
<1>6. /\ FrameOf(Me(h), th[Me(h)])
      /\ Me(h) \in KProcs /\ th[Me(h)].pc[1] \notin {"user", "uservec", "usertrap"} =>
           tf[Me(h)].epc = tf[Me(h)].want
  BY <1>1 DEF ThreadInv, FrameInv
<1> QED  BY <1>1, <1>2, <1>3, <1>4, <1>5, <1>6, Running DEF TrapTypeOK

LEMMA push_off2OK == ASSUME TrapIInv, NEW h \in Harts, push_off2(h) PROVE TrapIInv'
<1> DEFINE t == Me(h)
<1> DEFINE o == th[Me(h)]
<1> DEFINE b == <<"spin", Arg(h)>>
<1> DEFINE r == [th[Me(h)] EXCEPT !.old = FALSE, !.pc = b]
<1> DEFINE x == [reg[h] EXCEPT !.sie = FALSE]
<1> DEFINE c == Pushed(cpus[h], th[Me(h)].old)
<1>0. /\ o \in ThreadRecs /\ reg[h] \in RegRecs /\ cpus[h] \in CpuRecs
      /\ reg[h].run = Me(h) /\ reg[h].tp = h
  BY Begin
<1>1. o.pc[1] = "push_off" /\ UNCHANGED <<lock, tf, upc, pstate>>  BY DEF push_off2, At
<1>2. b \in PCs  BY <1>1, Here, Labels DEF Acquiring
<1>3. /\ r \in ThreadRecs /\ r.pc = b /\ r.ks = o.ks /\ r.frame = o.frame /\ ~r.old
      /\ r.intena = o.intena
  BY <1>0, <1>2 DEF ThreadRecs
<1>4. x \in RegRecs /\ x.run = t /\ x.tp = h /\ ~x.sie /\ x.stvec = reg[h].stvec
  BY <1>0 DEF RegRecs
<1>5. /\ c \in CpuRecs /\ c.noff = cpus[h].noff + 1 /\ c.proc = cpus[h].proc
      /\ c.intena = IF cpus[h].noff = 0 THEN o.old ELSE cpus[h].intena
  <2>1. /\ o.old \in BOOLEAN /\ cpus[h].intena \in BOOLEAN /\ cpus[h].noff + 1 \in Int
        /\ cpus[h].proc \in KProcs \cup {NoThread}
    BY <1>0 DEF ThreadRecs, CpuRecs
  <2>2. c = [noff |-> cpus[h].noff + 1, proc |-> cpus[h].proc,
             intena |-> IF cpus[h].noff = 0 THEN o.old ELSE cpus[h].intena]
    <3>1. CASE cpus[h].noff = 0
      <4>1. c = [cpus[h] EXCEPT !.noff = @ + 1, !.intena = o.old]  BY <3>1 DEF Pushed
      <4> QED  BY <1>0, <3>1, <4>1 DEF CpuRecs
    <3>2. CASE cpus[h].noff # 0
      <4>1. c = [cpus[h] EXCEPT !.noff = @ + 1, !.intena = @]  BY <3>2 DEF Pushed
      <4> QED  BY <1>0, <3>2, <4>1 DEF CpuRecs
    <3> QED  BY <3>1, <3>2
  <2> QED  BY <2>1, <2>2 DEF CpuRecs
<1>6. th' = [th EXCEPT ![Me(h)] = r] /\ reg' = [reg EXCEPT ![h] = x] /\ cpus' = [cpus EXCEPT ![h] = c]
  BY Begin DEF push_off2, Pushed
<1> HIDE DEF r, x, c
<1>7. Depth(r.pc, r.ks) = Depth(o.pc, o.ks) + 1  BY <1>1, <1>3 DEF Depth, Acquiring
<1>8. \A l : Holds(t, r.pc, r.ks, l) <=> Holds(t, o.pc, o.ks, l)  BY <1>1, <1>3 DEF Holds, Acquiring
<1>9. EnableOf(x, c, r)
  <2>1. o.frame # <<>> => ~c.intena
    <3>1. CASE cpus[h].noff = 0  BY <1>5, <3>1, Here
    <3>2. CASE cpus[h].noff # 0
      <4>1. Depth(o.pc, o.ks) > 0  BY <3>2, Begin, DepthNat
      <4> QED  BY <1>1, <1>5, <3>2, <4>1, Begin DEF EnableOf
    <3> QED  BY <3>1, <3>2
  <2>2. r.pc[1] = "spin" /\ reg[h].stvec = "kernelvec"  BY <1>1, <1>3, Begin DEF EnableOf, UserSide
  <2> QED  BY <1>3, <1>4, <2>1, <2>2 DEF EnableOf
<1>10. RegsOf(h, x, r, tf[Me(h)])  BY <1>3 DEF RegsOf
<1>11. Stack(t, r.frame # <<>>, r.pc, r.ks)
  <2>1. Link(t, o.frame # <<>>, b, o.ks)  BY <1>1, Here DEF Link, Bottom, Follows, Acquiring, Arg
  <2> QED  BY <1>3, <2>1, Here, StackGoto
<1>12. FrameOf(t, r)  BY <1>3, Begin DEF FrameOf
<1>13. c.noff = Depth(r.pc, r.ks)  BY <1>5, <1>7, Begin
<1>14. c.proc = IF Me(h) \in KProcs THEN Me(h) ELSE NoThread  BY <1>1, <1>5, Begin
<1>15. r.pc[1] # "sched" /\ r.pc[1] # "back"  BY <1>3
<1>16. \A l \in Locks : lock'[l] = h <=> Holds(Me(h), r.pc, r.ks, l)  BY <1>1, <1>8, Begin
<1>17. t \in KProcs => tf'[t].epc = tf'[t].want  BY <1>1, Begin
<1>18. lock' \in [Locks -> Harts \cup {Unlocked}] /\ tf' \in [KProcs -> TfRecs] /\ upc' \in [KProcs -> Instructions]
  BY <1>1, Begin
<1> QED
  BY <1>1, <1>3, <1>4, <1>5, <1>6, <1>9, <1>10, <1>11, <1>12, <1>13, <1>14, <1>15, <1>16, <1>17, <1>18, Settle

\* The record of a thread that returns.
LEMMA Return ==
  ASSUME NEW o \in ThreadRecs, o.ks # <<>>
  PROVE  /\ Returned(o) \in ThreadRecs
         /\ Returned(o).pc = Head(o.ks) /\ Returned(o).ks = Tail(o.ks)
         /\ Returned(o).frame = o.frame /\ Returned(o).old = o.old
         /\ Returned(o).intena = o.intena /\ Returned(o).dev = o.dev
         /\ Head(o.ks) \in PCs /\ Tail(o.ks) \in Seq(PCs)
<1>1. o.ks \in Seq(PCs)  BY DEF ThreadRecs
<1>2. Head(o.ks) \in PCs /\ Tail(o.ks) \in Seq(PCs)  BY <1>1, PopSeq
<1> QED  BY <1>2 DEF ThreadRecs, Returned

\* A label with an argument, or with none.
LEMMA ArgOf ==
  ASSUME NEW b \in PCs
  PROVE  /\ b[1] \in {"wake", "pick", "back"} => b[2] \in KProcs
         /\ b[1] \in Acquiring \cup {"release"} => b[2] \in Locks
  BY DEF PCs, PlainLabels, Acquiring

LEMMA acquireOK == ASSUME TrapIInv, NEW h \in Harts, acquire(h) PROVE TrapIInv'
<1> DEFINE t == Me(h)
<1> DEFINE o == th[Me(h)]
<1> DEFINE r == Returned(o)
<1> DEFINE L == Arg(h)
<1>0. /\ o \in ThreadRecs /\ reg[h] \in RegRecs /\ cpus[h] \in CpuRecs
      /\ reg[h].run = Me(h) /\ reg[h].tp = h
  BY Begin
<1>1. /\ o.pc[1] = "spin" /\ o.pc[2] = L /\ lock[L] = Unlocked /\ lock' = [lock EXCEPT ![L] = h]
      /\ UNCHANGED <<reg, cpus, tf, upc, pstate>>
  BY <1>0 DEF acquire, At, Arg
<1>2. L \in Locks  BY <1>1, Here DEF Acquiring
<1>3. /\ o.ks # <<>>
      /\ \/ t \in KProcs /\ L = t /\ Head(o.ks)[1] \in {"yield2", "sleep2"}
         \/ L = tickslock /\ Head(o.ks)[1] \in {"ticks0", "tickloop", "clockintr"}
         \/ Head(o.ks)[1] \in {"wake", "pick"} /\ Head(o.ks)[2] = L
  BY <1>1, Here DEF Link, Bottom, Follows, Acquiring
<1>4. /\ r \in ThreadRecs /\ r.pc = Head(o.ks) /\ r.ks = Tail(o.ks)
      /\ r.frame = o.frame /\ r.old = o.old /\ r.intena = o.intena
  BY <1>0, <1>3, Return
<1>5. Stack(t, r.frame # <<>>, r.pc, r.ks)
  <2>1. o.pc \in PCs /\ o.ks \in Seq(PCs)  BY Here
  <2> QED  BY <1>3, <1>4, <2>1, Here, StackPop
<1>6. th' = [th EXCEPT ![Me(h)] = r] /\ reg' = [reg EXCEPT ![h] = reg[h]] /\ cpus' = [cpus EXCEPT ![h] = cpus[h]]
  BY <1>1, Begin DEF acquire
<1>7. /\ lock' \in [Locks -> Harts \cup {Unlocked}] /\ lock'[L] = h
      /\ \A l \in Locks \ {L} : lock'[l] = lock[l]
  BY <1>1, <1>2, Begin
<1> HIDE DEF r, L
<1>8. /\ r.pc[1] \notin UserSide \cup {"sret", "devintr", "back", "sched2", "sched"}
      /\ o.pc[1] \notin UserSide \cup {"back", "sched2", "sched"}
  BY <1>1, <1>3, <1>4 DEF UserSide
<1>9. Depth(r.pc, r.ks) = Depth(o.pc, o.ks)  BY <1>1, <1>3, <1>4 DEF Depth, Acquiring
<1>10. \A l : Holds(t, r.pc, r.ks, l) <=> Holds(t, o.pc, o.ks, l) \/ l = L
  BY <1>1, <1>3, <1>4 DEF Holds, Acquiring
<1>11. EnableOf(reg[h], cpus[h], r)
  BY <1>4, <1>8, <1>9, Begin DEF EnableOf
<1>12. RegsOf(h, reg[h], r, tf[t])  BY <1>8 DEF RegsOf, UserSide
<1>13. FrameOf(t, r)  BY <1>4, Begin DEF FrameOf
<1>14. \A l \in Locks : lock'[l] = h <=> Holds(t, r.pc, r.ks, l)  BY <1>7, <1>10, Begin
<1>15. cpus[h].noff = Depth(r.pc, r.ks)  BY <1>9, Begin
<1>16. /\ cpus[h].proc = IF Me(h) \in KProcs THEN Me(h) ELSE NoThread
       /\ t \in KProcs => tf[t].epc = tf[t].want
  BY <1>8, Begin DEF UserSide
<1>17. \A l \in Locks : \/ lock'[l] = lock[l]
                        \/ lock[l] \in {h, Unlocked} /\ lock'[l] \in {h, Unlocked}
  BY <1>1, <1>7
<1>18. tf' \in [KProcs -> TfRecs] /\ upc' \in [KProcs -> Instructions]  BY <1>1, Begin
<1> QED
  BY <1>0, <1>1, <1>4, <1>5, <1>6, <1>7, <1>8, <1>11, <1>12, <1>13, <1>14, <1>15, <1>16, <1>17, <1>18, Settle

LEMMA releaseOK == ASSUME TrapIInv, NEW h \in Harts, release(h) PROVE TrapIInv'
<1> DEFINE t == Me(h)
<1> DEFINE o == th[Me(h)]
<1> DEFINE r == Returned(o)
<1> DEFINE L == Arg(h)
<1> DEFINE x == [reg[h] EXCEPT !.sie = Reenable(cpus[h]) \/ @]
<1> DEFINE c == [cpus[h] EXCEPT !.noff = @ - 1]
<1>0. /\ o \in ThreadRecs /\ reg[h] \in RegRecs /\ cpus[h] \in CpuRecs
      /\ reg[h].run = Me(h) /\ reg[h].tp = h /\ mycpu(h) = cpus[h]
  BY Begin, Running
<1>1. /\ o.pc[1] = "release" /\ o.pc[2] = L /\ lock' = [lock EXCEPT ![L] = Unlocked]
      /\ UNCHANGED <<tf, upc, pstate>>
  BY DEF release, At, Arg
<1>2. L \in Locks  BY <1>1, Here
<1>3. /\ o.ks # <<>>
      /\ \/ t \in KProcs /\ L = t /\ Head(o.ks)[1] \in {"usertrapret", "kerneltrap2"}
         \/ t \in KProcs /\ L = t /\ Head(o.ks)[1] = "acquire" /\ Head(o.ks)[2] = tickslock
         \/ L = tickslock /\ Head(o.ks)[1] \in {"sleep3", "usertrapret", "usertrap2", "kerneltrap"}
         \/ L \in KProcs /\ Head(o.ks)[1] = "scan"
         \/ L \in KProcs /\ L # t /\ Head(o.ks)[1] = "wakeup"
  BY <1>1, Here DEF Link, Bottom, Follows, Acquiring
<1>4. /\ r \in ThreadRecs /\ r.pc = Head(o.ks) /\ r.ks = Tail(o.ks)
      /\ r.frame = o.frame /\ r.old = o.old /\ r.intena = o.intena /\ r.ks \in Seq(PCs)
  BY <1>0, <1>3, Return
<1>5. Stack(t, r.frame # <<>>, r.pc, r.ks)
  <2>1. o.pc \in PCs /\ o.ks \in Seq(PCs)  BY Here
  <2> QED  BY <1>3, <1>4, <2>1, Here, StackPop
<1>6. x \in RegRecs /\ x.run = t /\ x.tp = h /\ x.stvec = reg[h].stvec /\ x.sie = (Reenable(cpus[h]) \/ reg[h].sie)
  <2>1. Reenable(cpus[h]) \in BOOLEAN  BY DEF Reenable
  <2>2. (Reenable(cpus[h]) \/ reg[h].sie) \in BOOLEAN  OBVIOUS
  <2> QED  BY <1>0, <2>2 DEF RegRecs
<1>7. c \in CpuRecs /\ c.noff = cpus[h].noff - 1 /\ c.proc = cpus[h].proc /\ c.intena = cpus[h].intena
  BY <1>0 DEF CpuRecs
<1>8. th' = [th EXCEPT ![Me(h)] = r] /\ reg' = [reg EXCEPT ![h] = x] /\ cpus' = [cpus EXCEPT ![h] = c]
  BY <1>0, Begin DEF release
<1>9. /\ lock' \in [Locks -> Harts \cup {Unlocked}] /\ lock'[L] = Unlocked
      /\ \A l \in Locks \ {L} : lock'[l] = lock[l]
  BY <1>1, <1>2, Begin
<1> HIDE DEF r, L, x, c
<1>10. r.pc[1] = "acquire" => Head(r.ks)[1] \notin {"sleep2", "wake"}
  <2> SUFFICES ASSUME r.pc[1] = "acquire" PROVE Head(r.ks)[1] \notin {"sleep2", "wake"}  OBVIOUS
  <2>1. r.pc[2] = tickslock /\ t \in KProcs  BY <1>3, <1>4
  <2>2. Link(t, r.frame # <<>>, r.pc, r.ks)  BY <1>5, LinkOK
  <2>3. r.ks # <<>> /\ Follows(t, r.pc, Head(r.ks))  BY <2>2 DEF Link, Bottom
  <2>4. Head(r.ks) \in PCs  BY <1>4, <2>3, PopSeq
  <2>5. Head(r.ks)[1] = "wake" => Head(r.ks)[2] \in KProcs  BY <2>4, ArgOf
  <2>6. t # tickslock /\ tickslock \notin KProcs  BY <2>1, Labels
  <2> QED  BY <2>1, <2>3, <2>5, <2>6 DEF Follows, Acquiring
<1>11. /\ r.pc[1] \notin UserSide \cup {"sret", "devintr", "back", "sched2", "sched"}
       /\ o.pc[1] \notin UserSide \cup {"back", "sched2", "sched"}
  BY <1>1, <1>3, <1>4 DEF UserSide
<1>12. Depth(r.pc, r.ks) = Depth(o.pc, o.ks) - 1
  <2>1. Depth(o.pc, o.ks) = IF r.pc[1] \in {"sleep3", "wakeup"} THEN 2 ELSE 1
    BY <1>1, <1>4 DEF Depth, Acquiring
  <2>2. CASE r.pc[1] = "acquire"
    <3>1. Depth(r.pc, r.ks) = 0  BY <1>10, <2>2 DEF Depth, Acquiring
    <3> QED  BY <2>1, <2>2, <3>1
  <2>3. CASE r.pc[1] \in {"sleep3", "wakeup"}
    <3>1. Depth(r.pc, r.ks) = 1  BY <2>3 DEF Depth, Acquiring
    <3> QED  BY <2>1, <2>3, <3>1
  <2>4. CASE r.pc[1] \in {"usertrapret", "kerneltrap2", "usertrap2", "kerneltrap", "scan"}
    <3>1. Depth(r.pc, r.ks) = 0  BY <2>4 DEF Depth, Acquiring
    <3> QED  BY <2>1, <2>4, <3>1
  <2> QED  BY <1>3, <1>4, <2>2, <2>3, <2>4
<1>13. \A l : Holds(t, r.pc, r.ks, l) <=> Holds(t, o.pc, o.ks, l) /\ l # L
  <2>1. tickslock \notin KProcs  BY Labels
  <2>2. r.pc[1] = "sleep3" => t \in KProcs  BY <1>5, LinkOK DEF Link, Bottom, Follows, Acquiring
  <2> QED  BY <1>1, <1>3, <1>4, <1>10, <2>1, <2>2 DEF Holds, Acquiring
<1>14. EnableOf(x, c, r)
  <2>1. Depth(o.pc, o.ks) \in {1, 2}  BY <1>1 DEF Depth, Acquiring
  <2>2. ~reg[h].sie /\ reg[h].stvec = "kernelvec" /\ (o.frame # <<>> => ~cpus[h].intena)
    BY <1>11, <2>1, Begin DEF EnableOf
  <2>3. x.sie => Depth(r.pc, r.ks) = 0 /\ r.frame = <<>>
    <3>1. cpus[h].noff = Depth(o.pc, o.ks)  BY Begin
    <3>2. x.sie => Reenable(cpus[h])  BY <1>6, <2>2
    <3>3. Reenable(cpus[h]) => cpus[h].noff = 1 /\ cpus[h].intena  BY DEF Reenable
    <3>4. cpus[h].noff = 1 => Depth(r.pc, r.ks) = 0  BY <1>12, <3>1
    <3> QED  BY <1>4, <2>2, <3>2, <3>3, <3>4
  <2> QED  BY <1>4, <1>6, <1>7, <1>11, <2>2, <2>3 DEF EnableOf
<1>15. RegsOf(h, x, r, tf[t])  BY <1>11 DEF RegsOf, UserSide
<1>16. FrameOf(t, r)  BY <1>4, Begin DEF FrameOf
<1>17. \A l \in Locks : lock'[l] = h <=> Holds(t, r.pc, r.ks, l)
  <2>1. Unlocked # h  BY TrapAssumption DEF Unlocked
  <2> QED  BY <1>9, <1>13, <2>1, Begin
<1>18. c.noff = Depth(r.pc, r.ks)  BY <1>7, <1>12, Begin
<1>19. /\ c.proc = IF Me(h) \in KProcs THEN Me(h) ELSE NoThread
       /\ t \in KProcs => tf[t].epc = tf[t].want
  BY <1>7, <1>11, Begin DEF UserSide
<1>20. \A l \in Locks : \/ lock'[l] = lock[l]
                        \/ lock[l] \in {h, Unlocked} /\ lock'[l] \in {h, Unlocked}
  <2>1. lock[L] = h  BY <1>1, <1>2, Begin DEF Holds
  <2> QED  BY <1>9, <2>1
<1>21. tf' \in [KProcs -> TfRecs] /\ upc' \in [KProcs -> Instructions]  BY <1>1, Begin
<1> QED
  BY <1>1, <1>4, <1>5, <1>6, <1>7, <1>8, <1>9, <1>11, <1>14, <1>15, <1>16, <1>17, <1>18, <1>19, <1>20, <1>21, Settle

\* The same for a step that takes and gives back no lock.
LEMMA SettleFree ==
  ASSUME TrapIInv, NEW h \in Harts, NEW r \in ThreadRecs, NEW x \in RegRecs, NEW c \in CpuRecs,
         th' = [th EXCEPT ![Me(h)] = r], reg' = [reg EXCEPT ![h] = x], cpus' = [cpus EXCEPT ![h] = c],
         x.run = Me(h), x.tp = h, c.proc = cpus[h].proc, c.noff = cpus[h].noff,
         r.pc[1] \notin {"sched", "back"}, th[Me(h)].pc[1] \notin {"sched", "back"},
         UNCHANGED <<lock, pstate>>,
         tf' \in [KProcs -> TfRecs], upc' \in [KProcs -> Instructions],
         \A p \in KProcs \ {Me(h)} : tf'[p] = tf[p],
         Depth(r.pc, r.ks) = Depth(th[Me(h)].pc, th[Me(h)].ks),
         \A l \in Locks : Holds(Me(h), r.pc, r.ks, l) <=> Holds(Me(h), th[Me(h)].pc, th[Me(h)].ks, l),
         EnableOf(x, c, r), RegsOf(h, x, r, tf'[Me(h)]),
         Stack(Me(h), r.frame # <<>>, r.pc, r.ks), FrameOf(Me(h), r),
         Me(h) \in KProcs /\ r.pc[1] \notin {"user", "uservec", "usertrap"} =>
           tf'[Me(h)].epc = tf'[Me(h)].want
  PROVE  TrapIInv'
<1>1. c.proc = IF Me(h) \in KProcs THEN Me(h) ELSE NoThread  BY Begin
<1>2. c.noff = Depth(r.pc, r.ks)  BY Begin
<1>3. \A l \in Locks : lock'[l] = h <=> Holds(Me(h), r.pc, r.ks, l)  BY Begin
<1>4. lock' \in [Locks -> Harts \cup {Unlocked}]  BY Begin
<1> QED  BY <1>1, <1>2, <1>3, <1>4, Settle

\* Nothing is nested at label b.
AtRest == {"loop", "scan", "yield", "user", "uservec", "usertrap", "usertrap2", "syscall",
           "usertrapret", "userret", "devintr", "kerneltrap", "kerneltrap2", "sret"}

LEMMA RestDepth ==
  ASSUME NEW t, NEW b, NEW s, b[1] \in AtRest
  PROVE  Depth(b, s) = 0 /\ \A l : ~Holds(t, b, s, l)
  BY DEF AtRest, Depth, Holds, Acquiring

LEMMA sched2OK == ASSUME TrapIInv, NEW h \in Harts, sched2(h) PROVE TrapIInv'
<1> DEFINE t == Me(h)
<1> DEFINE o == th[Me(h)]
<1> DEFINE r == [Returned(o) EXCEPT !.intena = FALSE]
<1> DEFINE c == RestoreIntena(cpus[h], Me(h))
<1>0. /\ o \in ThreadRecs /\ reg[h] \in RegRecs /\ cpus[h] \in CpuRecs
      /\ reg[h].run = Me(h) /\ reg[h].tp = h
  BY Begin
<1>1. o.pc[1] = "sched2" /\ UNCHANGED <<reg, lock, tf, upc, pstate>>  BY DEF sched2, At
<1>2. t \in KProcs /\ o.ks # <<>> /\ Head(o.ks)[1] = "release" /\ Head(o.ks)[2] = t
  BY <1>1, Here DEF Link, Bottom, Follows, Acquiring
<1>3. /\ Returned(o) \in ThreadRecs /\ Returned(o).pc = Head(o.ks) /\ Returned(o).ks = Tail(o.ks)
      /\ Returned(o).frame = o.frame /\ Returned(o).old = o.old /\ Tail(o.ks) \in Seq(PCs)
  BY <1>0, <1>2, Return
<1>4. /\ r \in ThreadRecs /\ r.pc = Head(o.ks) /\ r.ks = Tail(o.ks)
      /\ r.frame = o.frame /\ r.old = o.old /\ ~r.intena
  BY <1>3 DEF ThreadRecs
<1>5. c \in CpuRecs /\ c.noff = cpus[h].noff /\ c.proc = cpus[h].proc /\ c.intena = o.intena
  <2>1. o.intena \in BOOLEAN  BY <1>0 DEF ThreadRecs
  <2> QED  BY <1>0, <2>1 DEF CpuRecs, RestoreIntena
<1>6. th' = [th EXCEPT ![Me(h)] = r] /\ reg' = [reg EXCEPT ![h] = reg[h]] /\ cpus' = [cpus EXCEPT ![h] = c]
  BY <1>0, <1>1, Begin DEF sched2
<1> HIDE DEF r, c
<1>7. Stack(t, r.frame # <<>>, r.pc, r.ks)
  <2>1. o.pc \in PCs /\ o.ks \in Seq(PCs)  BY Here
  <2> QED  BY <1>2, <1>4, <2>1, Here, StackPop
<1>8. Head(r.ks)[1] \notin {"sleep3", "wakeup"}
  <2>1. Link(t, r.frame # <<>>, r.pc, r.ks)  BY <1>7, LinkOK
  <2>2. Follows(t, r.pc, Head(r.ks)) /\ r.ks # <<>>  BY <1>2, <1>4, <2>1 DEF Link, Bottom
  <2>3. t # tickslock  BY <1>2, Labels
  <2> QED  BY <1>2, <1>4, <2>2, <2>3 DEF Follows, Acquiring
<1>9. Depth(r.pc, r.ks) = Depth(o.pc, o.ks)  BY <1>1, <1>2, <1>4, <1>8 DEF Depth, Acquiring
<1>10. \A l \in Locks : Holds(t, r.pc, r.ks, l) <=> Holds(t, o.pc, o.ks, l)
  BY <1>1, <1>2, <1>4, <1>8 DEF Holds, Acquiring
<1>11. FrameOf(t, o)  BY Begin
<1>12. EnableOf(reg[h], c, r)
  <2>1. EnableOf(reg[h], cpus[h], o)  BY Begin
  <2>2. o.frame # <<>> => ~c.intena  BY <1>5, <1>11 DEF FrameOf
  <2>3. r.pc[1] = "release" /\ ~reg[h].sie  BY <1>1, <1>2, <1>4, <2>1 DEF EnableOf, Depth, Acquiring
  <2>4. reg[h].stvec = "kernelvec"  BY <1>1, <2>1 DEF EnableOf, UserSide
  <2> QED  BY <1>4, <2>2, <2>3, <2>4 DEF EnableOf
<1>13. RegsOf(h, reg[h], r, tf[t])  BY <1>2, <1>4 DEF RegsOf
<1>14. FrameOf(t, r)  BY <1>4, <1>11 DEF FrameOf
<1>15. tf[t].epc = tf[t].want  BY <1>1, <1>2, Begin
<1>16. r.pc[1] \notin {"sched", "back"} /\ o.pc[1] \notin {"sched", "back"}  BY <1>1, <1>2, <1>4
<1>17. tf' \in [KProcs -> TfRecs] /\ upc' \in [KProcs -> Instructions]  BY <1>1, Begin
<1> QED
  BY <1>0, <1>1, <1>4, <1>5, <1>6, <1>7, <1>9, <1>10, <1>12, <1>13, <1>14, <1>15, <1>16, <1>17, SettleFree

\* A label of a process that is on its way between user and kernel mode.
LEMMA OnTheWay ==
  ASSUME TrapIInv, NEW h \in Harts,
         th[Me(h)].pc[1] \in UserSide \cup {"usertrapret", "syscall"}
  PROVE  Me(h) \in KProcs /\ th[Me(h)].ks = <<>> /\ th[Me(h)].frame = <<>>
  BY Here DEF Link, Bottom, Follows, Acquiring, UserSide

LEMMA TrapFromUserOK == ASSUME TrapIInv, NEW h \in Harts, TrapFromUser(h) PROVE TrapIInv'
<1> DEFINE t == Me(h)
<1> DEFINE o == th[Me(h)]
<1> DEFINE b == <<"uservec">>
<1>0. /\ o \in ThreadRecs /\ reg[h] \in RegRecs /\ cpus[h] \in CpuRecs
      /\ reg[h].run = Me(h) /\ reg[h].tp = h /\ Me(h) \in Threads
  BY Begin
<1>1. o.pc[1] = "user" /\ UNCHANGED <<cpus, lock, upc, pstate>>  BY DEF TrapFromUser, At
<1>2. t \in KProcs /\ o.ks = <<>> /\ o.frame = <<>>  BY <1>1, OnTheWay DEF UserSide
<1>3. PICK cause \in {"ecall", "timer", "external"} :
        /\ th' = [th EXCEPT ![t].pc = b, ![t].dev = cause]
        /\ tf' = [tf EXCEPT ![t].want = IF cause = "ecall" THEN NextInstruction(upc[t]) ELSE upc[t]]
  BY DEF TrapFromUser
<1> DEFINE r == [o EXCEPT !.pc = b, !.dev = cause]
<1> DEFINE x == [reg[h] EXCEPT !.sie = FALSE, !.spie = TRUE, !.spp = "U", !.sepc = upc[t]]
<1> DEFINE want == IF cause = "ecall" THEN NextInstruction(upc[t]) ELSE upc[t]
<1>4. /\ r \in ThreadRecs /\ r.pc = b /\ r.ks = <<>> /\ r.frame = <<>> /\ r.dev = cause
  BY <1>0, <1>2, Labels DEF ThreadRecs, PlainLabels, Devs
<1>5. upc[t] \in Instructions /\ want \in Instructions
  <2>1. upc[t] \in Instructions  BY <1>2, Begin
  <2> QED  BY <2>1 DEF Instructions, NextInstruction
<1>6. /\ x \in RegRecs /\ x.run = t /\ x.tp = h /\ ~x.sie /\ x.spp = "U" /\ x.sepc = upc[t]
  BY <1>0, <1>5 DEF RegRecs
<1>7. reg' = [reg EXCEPT ![h] = x] /\ th' = [th EXCEPT ![Me(h)] = r] /\ cpus' = [cpus EXCEPT ![h] = cpus[h]]
  <2>1. th \in [Threads -> ThreadRecs] /\ reg \in [Harts -> RegRecs] /\ cpus \in [Harts -> CpuRecs]  BY Begin
  <2>2. reg' = [reg EXCEPT ![h] = x]  BY <2>1 DEF TrapFromUser
  <2>3. th' = [th EXCEPT ![Me(h)] = r]  BY <1>0, <1>3, <2>1
  <2> QED  BY <1>1, <2>1, <2>2, <2>3
<1>8. /\ tf' \in [KProcs -> TfRecs] /\ tf'[t].want = want /\ tf'[t].hart = tf[t].hart
      /\ \A p \in KProcs \ {t} : tf'[p] = tf[p]
  <2>1. tf \in [KProcs -> TfRecs]  BY Begin
  <2> HIDE DEF want
  <2>2. tf' = [tf EXCEPT ![t].want = want]  BY <1>3 DEF want
  <2> QED  BY <1>2, <1>5, <2>1, <2>2 DEF TfRecs
<1>9. RegsOf(h, x, r, tf'[t])
  <2>1. tf[t].hart = h  BY <1>1, Begin DEF RegsOf
  <2> QED  BY <1>4, <1>6, <1>8, <2>1 DEF RegsOf
<1> HIDE DEF r, x, want
<1>10. EnableOf(x, cpus[h], r)  BY <1>4, <1>6 DEF EnableOf, UserSide
<1>11. Stack(t, r.frame # <<>>, r.pc, r.ks)  BY <1>2, <1>4 DEF Stack, Link, Bottom
<1>12. FrameOf(t, r)  BY <1>4 DEF FrameOf
<1>13. /\ Depth(r.pc, r.ks) = Depth(o.pc, o.ks)
       /\ \A l \in Locks : Holds(t, r.pc, r.ks, l) <=> Holds(t, o.pc, o.ks, l)
  <2>1. r.pc[1] \in AtRest /\ o.pc[1] \in AtRest  BY <1>1, <1>4 DEF AtRest
  <2> QED  BY <2>1, RestDepth
<1>14. upc' \in [KProcs -> Instructions]  BY <1>1, Begin
<1>15. r.pc[1] = "uservec"  BY <1>4
<1> QED
  BY <1>0, <1>1, <1>4, <1>6, <1>7, <1>8, <1>9, <1>10, <1>11, <1>12, <1>13, <1>14, <1>15, SettleFree

LEMMA uservecOK == ASSUME TrapIInv, NEW h \in Harts, uservec(h) PROVE TrapIInv'
<1> DEFINE t == Me(h)
<1> DEFINE o == th[Me(h)]
<1> DEFINE b == <<"usertrap">>
<1> DEFINE r == [o EXCEPT !.pc = b]
<1> DEFINE x == [reg[h] EXCEPT !.tp = tf[t].hart]
<1>0. /\ o \in ThreadRecs /\ reg[h] \in RegRecs /\ cpus[h] \in CpuRecs
      /\ reg[h].run = Me(h) /\ reg[h].tp = h /\ Me(h) \in Threads
  BY Begin
<1>1. o.pc[1] = "uservec" /\ UNCHANGED <<cpus, lock, tf, upc, pstate>>  BY DEF uservec, At
<1>2. t \in KProcs /\ o.ks = <<>> /\ o.frame = <<>>  BY <1>1, OnTheWay DEF UserSide
<1>3. /\ tf[t].hart = h /\ reg[h].spp = "U" /\ ~reg[h].sie
      /\ tf[t].want = IF o.dev = "ecall" THEN NextInstruction(reg[h].sepc) ELSE reg[h].sepc
  <2>1. RegsOf(h, reg[h], o, tf[t]) /\ EnableOf(reg[h], cpus[h], o)  BY Begin
  <2> QED  BY <1>1, <2>1 DEF RegsOf, EnableOf, UserSide
<1>4. /\ r \in ThreadRecs /\ r.pc = b /\ r.ks = <<>> /\ r.frame = <<>> /\ r.dev = o.dev
  BY <1>0, <1>2, Labels DEF ThreadRecs, PlainLabels
<1>5. x \in RegRecs /\ x.run = t /\ x.tp = h /\ ~x.sie /\ x.spp = "U" /\ x.sepc = reg[h].sepc
  BY <1>0, <1>3 DEF RegRecs
<1>6. reg' = [reg EXCEPT ![h] = x] /\ th' = [th EXCEPT ![Me(h)] = r] /\ cpus' = [cpus EXCEPT ![h] = cpus[h]]
  BY <1>0, <1>1, Begin DEF uservec, Goto
<1> HIDE DEF r, x
<1>7. RegsOf(h, x, r, tf'[t])  BY <1>1, <1>3, <1>4, <1>5 DEF RegsOf
<1>8. EnableOf(x, cpus[h], r)  BY <1>4, <1>5 DEF EnableOf, UserSide
<1>9. Stack(t, r.frame # <<>>, r.pc, r.ks)  BY <1>2, <1>4 DEF Stack, Link, Bottom
<1>10. FrameOf(t, r)  BY <1>4 DEF FrameOf
<1>11. /\ Depth(r.pc, r.ks) = Depth(o.pc, o.ks)
       /\ \A l \in Locks : Holds(t, r.pc, r.ks, l) <=> Holds(t, o.pc, o.ks, l)
  BY <1>1, <1>4, RestDepth DEF AtRest
<1>12. upc' \in [KProcs -> Instructions] /\ tf' \in [KProcs -> TfRecs]  BY <1>1, Begin
<1>13. r.pc[1] = "usertrap"  BY <1>4
<1> QED
  BY <1>0, <1>1, <1>4, <1>5, <1>6, <1>7, <1>8, <1>9, <1>10, <1>11, <1>12, <1>13, SettleFree

LEMMA usertrapOK == ASSUME TrapIInv, NEW h \in Harts, usertrap(h) PROVE TrapIInv'
<1> DEFINE t == Me(h)
<1> DEFINE o == th[Me(h)]
<1> DEFINE ecall == o.dev = "ecall"
<1> DEFINE a == IF ecall THEN <<"syscall">> ELSE <<"devintr">>
<1> DEFINE s == IF ecall THEN <<>> ELSE << <<"usertrap2">> >>
<1> DEFINE r == [o EXCEPT !.pc = a, !.ks = s]
<1> DEFINE x == [reg[h] EXCEPT !.stvec = "kernelvec", !.sie = ecall]
<1> DEFINE w == [tf[t] EXCEPT !.epc = tf[t].want]
<1>0. /\ o \in ThreadRecs /\ reg[h] \in RegRecs /\ cpus[h] \in CpuRecs
      /\ reg[h].run = Me(h) /\ reg[h].tp = h /\ Me(h) \in Threads
  BY Begin
<1>1. o.pc[1] = "usertrap" /\ UNCHANGED <<cpus, lock, upc, pstate>>  BY DEF usertrap, At
<1>2. t \in KProcs /\ o.ks = <<>> /\ o.frame = <<>> /\ myproc(h) = t
  BY <1>1, OnTheWay, Running DEF UserSide
<1>3. tf[t].want = IF ecall THEN NextInstruction(reg[h].sepc) ELSE reg[h].sepc
  <2>1. RegsOf(h, reg[h], o, tf[t])  BY Begin
  <2> QED  BY <1>1, <2>1 DEF RegsOf
<1>4. a \in PCs /\ s \in Seq(PCs)
  <2>1. <<"syscall">> \in PCs /\ <<"devintr">> \in PCs /\ <<"usertrap2">> \in PCs  BY Labels DEF PlainLabels
  <2>2. <<>> \in Seq(PCs) /\ << <<"usertrap2">> >> \in Seq(PCs)  BY <2>1
  <2> QED  BY <2>1, <2>2
<1>5. /\ r \in ThreadRecs /\ r.pc = a /\ r.ks = s /\ r.frame = <<>>
  <2> HIDE DEF a, s
  <2> QED  BY <1>0, <1>2, <1>4 DEF ThreadRecs
<1>6. x \in RegRecs /\ x.run = t /\ x.tp = h /\ x.stvec = "kernelvec" /\ (x.sie <=> ecall)
  <2>1. ecall \in BOOLEAN  OBVIOUS
  <2> QED  BY <1>0, <2>1 DEF RegRecs
<1>7. th' = [th EXCEPT ![Me(h)] = r]
  <2>1. th \in [Threads -> ThreadRecs]  BY Begin
  <2>2. CASE ecall
    <3>1. Goto(t, a) /\ s = o.ks  BY <1>2, <2>2 DEF usertrap
    <3>2. r = [o EXCEPT !.pc = a]  BY <1>0, <3>1 DEF ThreadRecs
    <3> QED  BY <1>0, <2>1, <3>1, <3>2 DEF Goto
  <2>3. CASE ~ecall
    <3>1. Call(t, a, <<"usertrap2">>)  BY <1>2, <2>3 DEF usertrap
    <3>2. s = << <<"usertrap2">> >> \o o.ks  BY <1>2, <2>3
    <3> HIDE DEF s, a
    <3> QED  BY <1>0, <2>1, <3>1, <3>2 DEF Call
  <2> QED  BY <2>2, <2>3
<1>8. reg' = [reg EXCEPT ![h] = x] /\ cpus' = [cpus EXCEPT ![h] = cpus[h]]
  <2>1. reg \in [Harts -> RegRecs] /\ cpus \in [Harts -> CpuRecs]  BY Begin
  <2>2. reg' = [reg EXCEPT ![h].stvec = "kernelvec", ![h].sie = ecall]  BY <1>2 DEF usertrap
  <2>3. reg' = [reg EXCEPT ![h] = x]  BY <2>1, <2>2
  <2> QED  BY <1>1, <2>1, <2>3
<1>9. /\ tf' \in [KProcs -> TfRecs] /\ tf'[t].epc = tf'[t].want
      /\ \A p \in KProcs \ {t} : tf'[p] = tf[p]
  <2>1. tf \in [KProcs -> TfRecs]  BY Begin
  <2>2. tf' = [tf EXCEPT ![t].epc = tf[t].want]  BY <1>2, <1>3 DEF usertrap
  <2> QED  BY <1>2, <2>1, <2>2 DEF TfRecs
<1>10. a[1] \in {"syscall", "devintr"} /\ (ecall => a[1] = "syscall") /\ (~ecall => a[1] = "devintr")  OBVIOUS
<1>11. Stack(t, FALSE, a, s)
  <2>1. CASE ecall  BY <1>2, <2>1 DEF Stack, Link, Bottom
  <2>2. CASE ~ecall
    <3>1. s = << <<"usertrap2">> >> /\ a = <<"devintr">>  BY <2>2
    <3>2. s # <<>> /\ Len(s) = 1 /\ s[1] = <<"usertrap2">> /\ Head(s) = <<"usertrap2">>  BY <3>1
    <3> HIDE DEF s, a
    <3> QED  BY <1>2, <3>1, <3>2 DEF Stack, Link, Bottom, Follows
  <2> QED  BY <2>1, <2>2
<1> HIDE DEF r, x, a, s
<1>12. RegsOf(h, x, r, tf'[t])  BY <1>5, <1>10 DEF RegsOf
<1>13. /\ Depth(r.pc, r.ks) = Depth(o.pc, o.ks) /\ Depth(r.pc, r.ks) = 0
       /\ \A l \in Locks : Holds(t, r.pc, r.ks, l) <=> Holds(t, o.pc, o.ks, l)
  <2>1. r.pc[1] \in AtRest /\ o.pc[1] \in AtRest  BY <1>1, <1>5, <1>10 DEF AtRest
  <2> QED  BY <2>1, RestDepth
<1>14. EnableOf(x, cpus[h], r)  BY <1>5, <1>6, <1>10, <1>13 DEF EnableOf, UserSide
<1>15. FrameOf(t, r)  BY <1>5 DEF FrameOf
<1>16. upc' \in [KProcs -> Instructions]  BY <1>1, Begin
<1>17. r.pc[1] \notin {"sched", "back"} /\ Stack(t, r.frame # <<>>, r.pc, r.ks)  BY <1>5, <1>10, <1>11
<1> QED
  BY <1>0, <1>1, <1>5, <1>6, <1>7, <1>8, <1>9, <1>12, <1>13, <1>14, <1>15, <1>16, <1>17, SettleFree

LEMMA usertrapretOK == ASSUME TrapIInv, NEW h \in Harts, usertrapret(h) PROVE TrapIInv'
<1> DEFINE t == Me(h)
<1> DEFINE o == th[Me(h)]
<1> DEFINE b == <<"userret">>
<1> DEFINE r == [o EXCEPT !.pc = b]
<1> DEFINE x == [reg[h] EXCEPT !.sie = FALSE, !.stvec = "uservec", !.spp = "U", !.spie = TRUE, !.sepc = tf[t].epc]
<1>0. /\ o \in ThreadRecs /\ reg[h] \in RegRecs /\ cpus[h] \in CpuRecs
      /\ reg[h].run = Me(h) /\ reg[h].tp = h /\ Me(h) \in Threads
  BY Begin
<1>1. o.pc[1] = "usertrapret" /\ UNCHANGED <<cpus, lock, upc, pstate>>  BY DEF usertrapret, At
<1>2. t \in KProcs /\ o.ks = <<>> /\ o.frame = <<>> /\ myproc(h) = t
  BY <1>1, OnTheWay, Running DEF UserSide
<1>3. tf \in [KProcs -> TfRecs] /\ tf[t] \in TfRecs /\ tf[t].epc = tf[t].want  BY <1>1, <1>2, Begin
<1>4. /\ r \in ThreadRecs /\ r.pc = b /\ r.ks = <<>> /\ r.frame = <<>>
  BY <1>0, <1>2, Labels DEF ThreadRecs, PlainLabels
<1>5. x \in RegRecs /\ x.run = t /\ x.tp = h /\ ~x.sie /\ x.spp = "U" /\ x.sepc = tf[t].epc
  <2>1. tf[t].epc \in Instructions  BY <1>3 DEF TfRecs
  <2> QED  BY <1>0, <2>1 DEF RegRecs
<1>6. reg' = [reg EXCEPT ![h] = x] /\ th' = [th EXCEPT ![Me(h)] = r] /\ cpus' = [cpus EXCEPT ![h] = cpus[h]]
  <2>1. th \in [Threads -> ThreadRecs] /\ reg \in [Harts -> RegRecs] /\ cpus \in [Harts -> CpuRecs]  BY Begin
  <2>2. reg' = [reg EXCEPT ![h] = x]  BY <1>2, <2>1 DEF usertrapret
  <2>3. th' = [th EXCEPT ![Me(h)] = r]  BY <1>0, <1>2, <2>1 DEF usertrapret, Goto
  <2> QED  BY <1>1, <2>1, <2>2, <2>3
<1>7. /\ tf' \in [KProcs -> TfRecs] /\ tf'[t].epc = tf[t].epc /\ tf'[t].want = tf[t].want /\ tf'[t].hart = h
      /\ \A p \in KProcs \ {t} : tf'[p] = tf[p]
  <2>1. tf' = [tf EXCEPT ![t].hart = h]  BY <1>0, <1>2 DEF usertrapret, SavedHart
  <2> QED  BY <1>2, <1>3, <2>1 DEF TfRecs
<1> HIDE DEF r, x
<1>8. RegsOf(h, x, r, tf'[t])  BY <1>3, <1>4, <1>5, <1>7 DEF RegsOf
<1>9. EnableOf(x, cpus[h], r)  BY <1>4, <1>5 DEF EnableOf, UserSide
<1>10. Stack(t, r.frame # <<>>, r.pc, r.ks)  BY <1>2, <1>4 DEF Stack, Link, Bottom
<1>11. FrameOf(t, r)  BY <1>4 DEF FrameOf
<1>12. /\ Depth(r.pc, r.ks) = Depth(o.pc, o.ks)
       /\ \A l \in Locks : Holds(t, r.pc, r.ks, l) <=> Holds(t, o.pc, o.ks, l)
  <2>1. r.pc[1] \in AtRest /\ o.pc[1] \in AtRest  BY <1>1, <1>4 DEF AtRest
  <2> QED  BY <2>1, RestDepth
<1>13. upc' \in [KProcs -> Instructions]  BY <1>1, Begin
<1>14. r.pc[1] = "userret" /\ tf'[t].epc = tf'[t].want  BY <1>3, <1>4, <1>7
<1> QED
  BY <1>0, <1>1, <1>4, <1>5, <1>6, <1>7, <1>8, <1>9, <1>10, <1>11, <1>12, <1>13, <1>14, SettleFree

LEMMA userretOK == ASSUME TrapIInv, NEW h \in Harts, userret(h) PROVE TrapIInv'
<1> DEFINE t == Me(h)
<1> DEFINE o == th[Me(h)]
<1> DEFINE b == <<"user">>
<1> DEFINE r == [o EXCEPT !.pc = b, !.dev = "none"]
<1> DEFINE x == [reg[h] EXCEPT !.sepc = Unset, !.spie = FALSE]
<1>0. /\ o \in ThreadRecs /\ reg[h] \in RegRecs /\ cpus[h] \in CpuRecs
      /\ reg[h].run = Me(h) /\ reg[h].tp = h /\ Me(h) \in Threads
  BY Begin
<1>1. o.pc[1] = "userret" /\ UNCHANGED <<cpus, lock, tf, pstate>>  BY DEF userret, At
<1>2. t \in KProcs /\ o.ks = <<>> /\ o.frame = <<>>  BY <1>1, OnTheWay DEF UserSide
<1>3. reg[h].sepc = tf[t].want /\ tf[t].hart = h /\ ~reg[h].sie
  <2>1. RegsOf(h, reg[h], o, tf[t]) /\ EnableOf(reg[h], cpus[h], o)  BY Begin
  <2> QED  BY <1>1, <2>1 DEF RegsOf, EnableOf, UserSide
<1>4. /\ r \in ThreadRecs /\ r.pc = b /\ r.ks = <<>> /\ r.frame = <<>>
  BY <1>0, <1>2, Labels DEF ThreadRecs, PlainLabels, Devs
<1>5. x \in RegRecs /\ x.run = t /\ x.tp = h /\ ~x.sie
  BY <1>0, <1>3 DEF RegRecs
<1>6. reg' = [reg EXCEPT ![h] = x] /\ th' = [th EXCEPT ![Me(h)] = r] /\ cpus' = [cpus EXCEPT ![h] = cpus[h]]
  <2>1. th \in [Threads -> ThreadRecs] /\ reg \in [Harts -> RegRecs] /\ cpus \in [Harts -> CpuRecs]  BY Begin
  <2>2. reg' = [reg EXCEPT ![h] = x]  BY <2>1 DEF userret
  <2>3. th' = [th EXCEPT ![Me(h)] = r]  BY <1>0, <2>1 DEF userret
  <2> QED  BY <1>1, <2>1, <2>2, <2>3
<1>7. upc' \in [KProcs -> Instructions] /\ tf' \in [KProcs -> TfRecs]
  <2>1. tf \in [KProcs -> TfRecs] /\ upc \in [KProcs -> Instructions]  BY Begin
  <2>2. tf[t].want \in Instructions  BY <1>2, <2>1 DEF TfRecs
  <2>3. upc' = [upc EXCEPT ![t] = tf[t].want]  BY <1>3 DEF userret
  <2> QED  BY <1>1, <2>1, <2>2, <2>3
<1> HIDE DEF r, x
<1>8. RegsOf(h, x, r, tf'[t])  BY <1>1, <1>3, <1>4 DEF RegsOf
<1>9. EnableOf(x, cpus[h], r)  BY <1>4, <1>5 DEF EnableOf, UserSide
<1>10. Stack(t, r.frame # <<>>, r.pc, r.ks)  BY <1>2, <1>4 DEF Stack, Link, Bottom
<1>11. FrameOf(t, r)  BY <1>4 DEF FrameOf
<1>12. /\ Depth(r.pc, r.ks) = Depth(o.pc, o.ks)
       /\ \A l \in Locks : Holds(t, r.pc, r.ks, l) <=> Holds(t, o.pc, o.ks, l)
  <2>1. r.pc[1] \in AtRest /\ o.pc[1] \in AtRest  BY <1>1, <1>4 DEF AtRest
  <2> QED  BY <2>1, RestDepth
<1>13. r.pc[1] = "user"  BY <1>4
<1> QED
  BY <1>0, <1>1, <1>4, <1>5, <1>6, <1>7, <1>8, <1>9, <1>10, <1>11, <1>12, <1>13, SettleFree

LEMMA kernelvecOK == ASSUME TrapIInv, NEW h \in Harts, kernelvec(h) PROVE TrapIInv'
<1> DEFINE t == Me(h)
<1> DEFINE o == th[Me(h)]
<1> DEFINE b == <<"devintr">>
<1> DEFINE s == << <<"kerneltrap">> >>
<1> DEFINE n == NewThread(b, s)
<1> DEFINE f == [regs |-> o, sepc |-> o.pc, spie |-> TRUE]
<1>0. /\ o \in ThreadRecs /\ reg[h] \in RegRecs /\ cpus[h] \in CpuRecs
      /\ reg[h].run = Me(h) /\ reg[h].tp = h /\ Me(h) \in Threads
  BY Begin
<1>1. reg[h].sie /\ UNCHANGED <<cpus, lock, tf, upc, pstate>>  BY DEF kernelvec
<1>2. Depth(o.pc, o.ks) = 0 /\ o.frame = <<>> /\ o.pc[1] \notin UserSide /\ reg[h].stvec = "kernelvec"
  <2>1. EnableOf(reg[h], cpus[h], o)  BY Begin
  <2> QED  BY <1>1, <2>1 DEF EnableOf
<1>3. PICK cause \in {"timer", "external"} :
        th' = [th EXCEPT ![t] = [n EXCEPT !.frame = <<f>> \o o.frame, !.dev = cause]]
  BY DEF kernelvec
<1> DEFINE r == [n EXCEPT !.frame = <<f>>, !.dev = cause]
<1> DEFINE x == [reg[h] EXCEPT !.sie = FALSE, !.spie = TRUE, !.spp = "S", !.sepc = o.pc]
<1>4. o.pc \in PCs /\ f \in Frames
  BY <1>0, <1>2 DEF ThreadRecs, Frames
<1>5. b \in PCs /\ s \in Seq(PCs) /\ <<f>> \in Seq(Frames)
  <2>1. b \in PCs /\ <<"kerneltrap">> \in PCs  BY Labels DEF PlainLabels
  <2> HIDE DEF f
  <2> QED  BY <1>4, <2>1
<1>6. r \in ThreadRecs /\ r.pc = b /\ r.ks = s /\ r.frame = <<f>> /\ ~r.old /\ ~r.intena
  <2> HIDE DEF s, f
  <2>1. <<>> \in Seq(Frames)  OBVIOUS
  <2>2. n \in ThreadRecs /\ n.pc = b /\ n.ks = s /\ ~n.old /\ ~n.intena
    BY <1>5, <2>1 DEF NewThread, ThreadRecs, Devs
  <2> HIDE DEF n
  <2> QED  BY <1>5, <2>2 DEF ThreadRecs, Devs
<1>7. x \in RegRecs /\ x.run = t /\ x.tp = h /\ ~x.sie /\ x.spp = "S" /\ x.stvec = "kernelvec"
  BY <1>0, <1>2, <1>4 DEF RegRecs
<1>8. reg' = [reg EXCEPT ![h] = x] /\ th' = [th EXCEPT ![Me(h)] = r] /\ cpus' = [cpus EXCEPT ![h] = cpus[h]]
  <2>1. th \in [Threads -> ThreadRecs] /\ reg \in [Harts -> RegRecs] /\ cpus \in [Harts -> CpuRecs]  BY Begin
  <2>2. reg' = [reg EXCEPT ![h] = x]  BY <2>1 DEF kernelvec
  <2>3. <<f>> \o o.frame = <<f>>
    <3> HIDE DEF f
    <3> QED  BY <1>2
  <2>4. th' = [th EXCEPT ![Me(h)] = r]
    <3> HIDE DEF n, f
    <3> QED  BY <1>3, <2>3
  <2> QED  BY <1>1, <2>1, <2>2, <2>4
<1>9. Stack(t, TRUE, b, s)
  <2>1. s # <<>> /\ Len(s) = 1 /\ s[1] = <<"kerneltrap">> /\ Head(s) = <<"kerneltrap">>  OBVIOUS
  <2> HIDE DEF s
  <2> QED  BY <2>1 DEF Stack, Link, Bottom, Follows
<1>10. r.frame # <<>> /\ Len(r.frame) = 1 /\ Head(r.frame) = f
  <2> HIDE DEF f, r
  <2> QED  BY <1>6
<1> HIDE DEF r, x, s
<1>11. FrameOf(t, r)
  <2>1. f.regs = o /\ f.sepc = o.pc /\ f.spie  OBVIOUS
  <2>2. Stack(t, FALSE, o.pc, o.ks)  BY <1>2, Here
  <2> HIDE DEF f
  <2> QED  BY <1>2, <1>6, <1>10, <2>1, <2>2 DEF FrameOf
<1> HIDE DEF f
<1>12. RegsOf(h, x, r, tf'[t])  BY <1>6, <1>7 DEF RegsOf
<1>13. /\ Depth(r.pc, r.ks) = 0 /\ Depth(r.pc, r.ks) = Depth(o.pc, o.ks)
       /\ \A l \in Locks : Holds(t, r.pc, r.ks, l) <=> Holds(t, o.pc, o.ks, l)
  <2>1. r.pc[1] \in AtRest  BY <1>6 DEF AtRest
  <2>2. Depth(r.pc, r.ks) = 0 /\ \A l : ~Holds(t, r.pc, r.ks, l)  BY <2>1, RestDepth
  <2> QED  BY <1>2, <2>2, NothingHeld
<1>14. EnableOf(x, cpus[h], r)  BY <1>6, <1>7, <1>13 DEF EnableOf, UserSide
<1>15. /\ r.pc[1] \notin {"sched", "back"} /\ o.pc[1] \notin {"sched", "back"}
       /\ Stack(t, r.frame # <<>>, r.pc, r.ks)
  <2>1. o.pc[1] \notin {"sched", "back"}  BY <1>2 DEF Depth, Acquiring
  <2>2. (r.frame # <<>>) = TRUE  BY <1>10
  <2>3. Stack(t, r.frame # <<>>, r.pc, r.ks)  BY <1>6, <1>9, <2>2
  <2>4. r.pc[1] = "devintr"  BY <1>6
  <2> QED  BY <2>1, <2>3, <2>4
<1>16. /\ tf' \in [KProcs -> TfRecs] /\ upc' \in [KProcs -> Instructions]
       /\ t \in KProcs => tf'[t].epc = tf'[t].want
  BY <1>1, <1>2, Begin DEF UserSide
<1> QED
  BY <1>0, <1>1, <1>6, <1>7, <1>8, <1>11, <1>12, <1>13, <1>14, <1>15, <1>16, SettleFree

\* At the end of a kernel trap.
LEMMA InTrap ==
  ASSUME TrapIInv, NEW h \in Harts, th[Me(h)].pc[1] \in {"kerneltrap2", "sret"}
  PROVE  th[Me(h)].ks = <<>> /\ th[Me(h)].frame # <<>> /\ Head(th[Me(h)].frame) \in Frames
<1>1. th[Me(h)].ks = <<>> /\ th[Me(h)].frame # <<>>
  BY Here DEF Link, Bottom, Follows, Acquiring
<1>2. th[Me(h)].frame \in Seq(Frames)  BY Begin DEF ThreadRecs
<1> QED  BY <1>1, <1>2, PopSeq

LEMMA kerneltrap2OK == ASSUME TrapIInv, NEW h \in Harts, kerneltrap2(h) PROVE TrapIInv'
<1> DEFINE t == Me(h)
<1> DEFINE o == th[Me(h)]
<1> DEFINE b == <<"sret">>
<1> DEFINE f == Head(o.frame)
<1> DEFINE r == [o EXCEPT !.pc = b]
<1> DEFINE x == RestoreTrapRegs(reg[h], f)
<1>0. /\ o \in ThreadRecs /\ reg[h] \in RegRecs /\ cpus[h] \in CpuRecs
      /\ reg[h].run = Me(h) /\ reg[h].tp = h /\ Me(h) \in Threads
  BY Begin
<1>1. o.pc[1] = "kerneltrap2" /\ UNCHANGED <<cpus, lock, tf, upc, pstate>>  BY DEF kerneltrap2, At
<1>2. o.ks = <<>> /\ o.frame # <<>> /\ f \in Frames  BY <1>1, InTrap
<1>3. FrameOf(t, o) /\ EnableOf(reg[h], cpus[h], o)  BY Begin
<1>4. f.sepc = f.regs.pc /\ f.spie  BY <1>2, <1>3 DEF FrameOf
<1>5. /\ r \in ThreadRecs /\ r.pc = b /\ r.ks = <<>> /\ r.frame = o.frame /\ r.old = o.old /\ r.intena = o.intena
  BY <1>0, <1>2, Labels DEF ThreadRecs, PlainLabels
<1>6. /\ x \in RegRecs /\ x.run = t /\ x.tp = h /\ x.sie = reg[h].sie /\ x.stvec = reg[h].stvec
      /\ x.sepc = f.sepc /\ x.spie = f.spie
  <2>1. f.sepc \in PCs /\ f.spie \in BOOLEAN  BY <1>2 DEF Frames
  <2> QED  BY <1>0, <2>1 DEF RegRecs, RestoreTrapRegs
<1>7. reg' = [reg EXCEPT ![h] = x] /\ th' = [th EXCEPT ![Me(h)] = r] /\ cpus' = [cpus EXCEPT ![h] = cpus[h]]
  <2>1. th \in [Threads -> ThreadRecs] /\ reg \in [Harts -> RegRecs] /\ cpus \in [Harts -> CpuRecs]  BY Begin
  <2>2. reg' = [reg EXCEPT ![h] = x]  BY <2>1 DEF kerneltrap2
  <2>3. th' = [th EXCEPT ![Me(h)] = r]  BY <1>0, <2>1 DEF kerneltrap2, Goto
  <2> QED  BY <1>1, <2>1, <2>2, <2>3
<1> HIDE DEF r, x
<1>8. RegsOf(h, x, r, tf'[t])  BY <1>4, <1>5, <1>6 DEF RegsOf
<1>9. EnableOf(x, cpus[h], r)
  <2>1. ~reg[h].sie /\ reg[h].stvec = "kernelvec"  BY <1>1, <1>2, <1>3 DEF EnableOf, UserSide
  <2>2. Depth(r.pc, r.ks) = 0  BY <1>5, RestDepth DEF AtRest
  <2> QED  BY <1>5, <1>6, <2>1, <2>2 DEF EnableOf
<1>10. Stack(t, r.frame # <<>>, r.pc, r.ks)  BY <1>2, <1>5 DEF Stack, Link, Bottom
<1>11. FrameOf(t, r)  BY <1>3, <1>5 DEF FrameOf
<1>12. /\ Depth(r.pc, r.ks) = Depth(o.pc, o.ks)
       /\ \A l \in Locks : Holds(t, r.pc, r.ks, l) <=> Holds(t, o.pc, o.ks, l)
  <2>1. r.pc[1] \in AtRest /\ o.pc[1] \in AtRest  BY <1>1, <1>5 DEF AtRest
  <2> QED  BY <2>1, RestDepth
<1>13. r.pc[1] = "sret"  BY <1>5
<1>14. /\ tf' \in [KProcs -> TfRecs] /\ upc' \in [KProcs -> Instructions]
       /\ t \in KProcs => tf'[t].epc = tf'[t].want
  BY <1>1, Begin
<1> QED
  BY <1>0, <1>1, <1>5, <1>6, <1>7, <1>8, <1>9, <1>10, <1>11, <1>12, <1>13, <1>14, SettleFree

LEMMA kernelvec_endOK == ASSUME TrapIInv, NEW h \in Harts, kernelvec_end(h) PROVE TrapIInv'
<1> DEFINE t == Me(h)
<1> DEFINE o == th[Me(h)]
<1> DEFINE f == Head(o.frame)
<1> DEFINE r == f.regs
<1> DEFINE x == [reg[h] EXCEPT !.sie = reg[h].sie \/ reg[h].spie, !.sepc = Unset, !.spie = FALSE]
<1>0. /\ o \in ThreadRecs /\ reg[h] \in RegRecs /\ cpus[h] \in CpuRecs
      /\ reg[h].run = Me(h) /\ reg[h].tp = h /\ Me(h) \in Threads
  BY Begin
<1>1. o.pc[1] = "sret" /\ UNCHANGED <<cpus, lock, tf, upc, pstate>>  BY DEF kernelvec_end, At
<1>2. o.ks = <<>> /\ o.frame # <<>> /\ f \in Frames  BY <1>1, InTrap
<1>3. FrameOf(t, o) /\ EnableOf(reg[h], cpus[h], o) /\ RegsOf(h, reg[h], o, tf[t])  BY Begin
<1>4. /\ Stack(t, FALSE, r.pc, r.ks) /\ Depth(r.pc, r.ks) = 0 /\ r.pc[1] \notin UserSide
      /\ reg[h].sepc = r.pc
  BY <1>1, <1>2, <1>3 DEF FrameOf, RegsOf
<1>5. r.frame = <<>> /\ r \in ThreadRecs
  <2>1. <<>> \in Seq(Frames)  OBVIOUS
  <2> QED  BY <1>2, <2>1 DEF Frames, ThreadRecs
<1>6. x \in RegRecs /\ x.run = t /\ x.tp = h /\ x.stvec = reg[h].stvec
  BY <1>0 DEF RegRecs
<1>7. reg' = [reg EXCEPT ![h] = x] /\ th' = [th EXCEPT ![Me(h)] = r] /\ cpus' = [cpus EXCEPT ![h] = cpus[h]]
  <2>1. th \in [Threads -> ThreadRecs] /\ reg \in [Harts -> RegRecs] /\ cpus \in [Harts -> CpuRecs]  BY Begin
  <2>2. reg' = [reg EXCEPT ![h] = [@ EXCEPT !.sie = reg[h].sie \/ reg[h].spie, !.sepc = Unset, !.spie = FALSE]]
    BY DEF kernelvec_end
  <2>3. [reg[h] EXCEPT !.sie = reg[h].sie \/ reg[h].spie, !.sepc = Unset, !.spie = FALSE] = x  OBVIOUS
  <2>4. reg' = [reg EXCEPT ![h] = x]
    <3> HIDE DEF x
    <3> QED  BY <2>1, <2>2, <2>3, Zenon
  <2>5. [r EXCEPT !.pc = r.pc] = r  BY <1>5 DEF ThreadRecs
  <2>6. th' = [th EXCEPT ![Me(h)] = r]  BY <1>4, <2>5 DEF kernelvec_end
  <2>7. cpus' = [cpus EXCEPT ![h] = cpus[h]]  BY <1>1, <2>1
  <2> QED  BY <2>4, <2>6, <2>7
<1> HIDE DEF r, x
<1>8. o.pc[1] \in AtRest /\ reg[h].stvec = "kernelvec"
  BY <1>1, <1>3 DEF AtRest, EnableOf, UserSide
<1>9. r.pc[1] \notin {"uservec", "usertrap", "userret", "user", "sret", "sched", "back"}
  <2>1. Link(t, FALSE, r.pc, r.ks)  BY <1>4, LinkOK
  <2>2. r.pc[1] \notin {"sret", "sched", "back"}
    BY <1>4, <2>1 DEF Depth, Acquiring, Link, Bottom, Follows
  <2> QED  BY <1>4, <2>2 DEF UserSide
<1>10. RegsOf(h, x, r, tf'[t])  BY <1>5, <1>9 DEF RegsOf
<1>11. EnableOf(x, cpus[h], r)  BY <1>4, <1>5, <1>6, <1>8 DEF EnableOf
<1>12. FrameOf(t, r)  BY <1>5 DEF FrameOf
<1>13. Stack(t, r.frame # <<>>, r.pc, r.ks)
  <2>1. (r.frame # <<>>) = FALSE  BY <1>5
  <2> QED  BY <1>4, <2>1
<1>14. /\ Depth(r.pc, r.ks) = Depth(o.pc, o.ks)
       /\ \A l \in Locks : Holds(t, r.pc, r.ks, l) <=> Holds(t, o.pc, o.ks, l)
  <2>1. Depth(o.pc, o.ks) = 0 /\ \A l : ~Holds(t, o.pc, o.ks, l)  BY <1>8, RestDepth
  <2> QED  BY <1>4, <2>1, NothingHeld
<1>15. /\ tf' \in [KProcs -> TfRecs] /\ upc' \in [KProcs -> Instructions]
       /\ t \in KProcs => tf'[t].epc = tf'[t].want
  BY <1>1, Begin
<1>16. o.pc[1] \notin {"sched", "back"}  BY <1>1
<1> QED
  BY <1>0, <1>1, <1>5, <1>6, <1>7, <1>9, <1>10, <1>11, <1>12, <1>13, <1>14, <1>15, <1>16, SettleFree


-----------------------------------------------------------------------------
(* Context switches.                                                       *)

\* CPU h switches from thread t to thread u, which no CPU runs.
LEMMA Switch ==
  ASSUME TrapIInv, NEW h \in Harts, NEW t \in Threads, t = Me(h),
         NEW u \in Threads, \A g \in Harts : Me(g) # u,
         Touch(h), TrapTypeOK', Me(h)' = u, HartInv(h)', ThreadInv(t)',
         u \in KProcs => pstate'[u] = "RUNNING" /\ th[u].pc[1] # "sched",
         t \in KProcs => pstate'[t] # "RUNNING" /\ Parked(t)',
         \A p \in KProcs \ {t, u} : pstate'[p] = pstate[p]
  PROVE  TrapIInv'
<1>1. ASSUME NEW g \in Harts, g # h
      PROVE  HartInv(g)' /\ Me(g)' = Me(g) /\ Me(g) # t /\ Me(g) # u /\ th'[Me(g)] = th[Me(g)]
  <2>1. Me(g) # t  BY <1>1 DEF TrapIInv, OneCpuEach
  <2> QED  BY <1>1, <2>1, OtherHarts
<1>2. u # t /\ th'[u] = th[u]  BY DEF Touch
<1>3. ASSUME NEW v \in Threads PROVE ThreadInv(v)'
  BY OtherThreads
<1>4. OneCpuEach'  BY <1>1 DEF TrapIInv, OneCpuEach
<1>5. StateInv'
  <2> SUFFICES ASSUME NEW g \in Harts, Me(g)' \in KProcs
               PROVE  pstate'[Me(g)'] = "RUNNING" <=> th'[Me(g)'].pc[1] # "sched"
    BY DEF StateInv
  <2>1. CASE g = h  BY <1>2, <2>1
  <2>2. CASE g # h
    <3>1. pstate[Me(g)] = "RUNNING" <=> th[Me(g)].pc[1] # "sched"
      BY <1>1, <2>2 DEF TrapIInv, StateInv
    <3> QED  BY <1>1, <2>2, <3>1
  <2> QED  BY <2>1, <2>2
<1>6. ParkInv'
  <2> SUFFICES ASSUME NEW p \in KProcs, \A g \in Harts : Me(g)' # p
               PROVE  pstate'[p] # "RUNNING" /\ Parked(p)'
    BY DEF ParkInv
  <2>1. CASE p = t  BY <2>1
  <2>2. CASE p # t
    <3>1. \A g \in Harts : Me(g) # p  BY <1>1, <2>2
    <3>2. p # u  OBVIOUS
    <3>3. pstate[p] # "RUNNING" /\ Parked(p)  BY <3>1 DEF TrapIInv, ParkInv
    <3>4. p \in Threads  BY DEF Threads
    <3> QED  BY <2>2, <3>2, <3>3, <3>4, OtherThreads
  <2> QED  BY <2>1, <2>2
<1> QED  BY <1>1, <1>3, <1>4, <1>5, <1>6 DEF TrapIInv

LEMMA schedOK == ASSUME TrapIInv, NEW h \in Harts, sched(h) PROVE TrapIInv'
<1> DEFINE o == th[Me(h)]
<1> DEFINE b == <<"sched2">>
<1> DEFINE r == [o EXCEPT !.intena = cpus[h].intena, !.pc = b]
<1>s. PICK s : s = <<"sched", h>>  OBVIOUS
<1> DEFINE x == [reg[h] EXCEPT !.run = s]
<1>0. /\ o \in ThreadRecs /\ reg[h] \in RegRecs /\ cpus[h] \in CpuRecs
      /\ reg[h].tp = h /\ Me(h) \in Threads /\ mycpu(h) = cpus[h]
  BY Running
<1>t. PICK t \in Threads : t = Me(h)  BY <1>0
<1>1. o.pc[1] = "sched" /\ UNCHANGED <<cpus, lock, tf, upc, pstate>>  BY DEF sched, At
<1>2. t \in KProcs /\ o.ks # <<>> /\ Head(o.ks)[1] = "release" /\ Head(o.ks)[2] = t
  BY <1>1, <1>t, Here DEF Link, Bottom, Follows, Acquiring
<1>3. s \in Scheds /\ s \in Threads /\ s # t /\ t \in Locks /\ s \notin KProcs /\ t \notin Scheds
  BY <1>2, <1>s, TrapAssumption DEF Scheds, Threads, Locks
<1>4. th[s].pc[1] = "back" /\ th[s].pc[2] = t /\ th[s].ks = <<>> /\ th[s].frame = <<>> /\ cpus[h].proc = t
  BY <1>2, <1>s, <1>t, Running DEF HartInv, RunInv
<1>5. FrameOf(t, o) /\ EnableOf(reg[h], cpus[h], o)  BY <1>t, Begin
<1>6. Depth(o.pc, o.ks) = 1 /\ \A l : Holds(t, o.pc, o.ks, l) <=> l = t
  BY <1>1 DEF Depth, Holds, Acquiring
<1>7. ~reg[h].sie /\ reg[h].stvec = "kernelvec" /\ (o.frame # <<>> => ~cpus[h].intena)
  BY <1>1, <1>5, <1>6 DEF EnableOf, UserSide
<1>8. /\ r \in ThreadRecs /\ r.pc = b /\ r.ks = o.ks /\ r.frame = o.frame /\ r.old = o.old
      /\ r.intena = cpus[h].intena
  <2>1. b \in PCs  BY Labels DEF PlainLabels
  <2>2. cpus[h].intena \in BOOLEAN  BY <1>0 DEF CpuRecs
  <2> QED  BY <1>0, <2>1, <2>2 DEF ThreadRecs
<1>9. /\ x \in RegRecs /\ x.run = s /\ x.tp = h /\ x.sie = reg[h].sie /\ x.stvec = reg[h].stvec
  BY <1>0, <1>3 DEF RegRecs
<1>10. reg' = [reg EXCEPT ![h] = x] /\ th' = [th EXCEPT ![t] = r]
  <2>1. th \in [Threads -> ThreadRecs] /\ reg \in [Harts -> RegRecs]  BY Begin
  <2>2. reg' = [reg EXCEPT ![h].run = s]  BY <1>0, <1>s DEF sched
  <2>3. th' = [th EXCEPT ![t].intena = cpus[h].intena, ![t].pc = b]  BY <1>0, <1>t DEF sched
  <2>4. reg' = [reg EXCEPT ![h] = x]  BY <2>1, <2>2
  <2>5. th' = [th EXCEPT ![t] = r]  BY <1>t, <2>1, <2>3
  <2> QED  BY <2>4, <2>5
<1> HIDE DEF r, x
<1>11. /\ reg'[h] = x /\ \A g \in Harts \ {h} : reg'[g] = reg[g]
       /\ th'[t] = r /\ \A v \in Threads \ {t} : th'[v] = th[v]
  BY <1>10, Begin
<1>12. Me(h)' = s  BY <1>9, <1>11 DEF Me
<1>13. Touch(h)  BY <1>1, <1>11, <1>t DEF Touch
<1>14. TrapTypeOK'  BY <1>1, <1>8, <1>9, <1>10 DEF TrapIInv, TrapTypeOK
<1>15. th'[s] = th[s]  BY <1>3, <1>11
<1>16. HartInv(h)'
  <2>1. RunInv(h)'  BY <1>3, <1>4, <1>9, <1>11, <1>12, <1>15, <1>s DEF RunInv
  <2>2. Depth(th[s].pc, th[s].ks) = 1 /\ \A l : Holds(s, th[s].pc, th[s].ks, l) <=> l = t
    BY <1>4 DEF Depth, Holds, Acquiring
  <2>3. LocksInv(h)'
    <3>1. cpus[h].noff = 1 /\ \A l \in Locks : lock[l] = h <=> l = t  BY <1>6, <1>t, Begin
    <3> QED  BY <1>1, <1>12, <1>15, <2>2, <3>1 DEF LocksInv
  <2>4. EnableInv(h)'
    BY <1>4, <1>7, <1>9, <1>11, <1>12, <1>15 DEF EnableInv, EnableOf
  <2>5. RegsInv(h)'  BY <1>4, <1>12, <1>15 DEF RegsInv, RegsOf
  <2> QED  BY <2>1, <2>3, <2>4, <2>5 DEF HartInv
<1>17. ThreadInv(t)'
  <2>1. Stack(t, r.frame # <<>>, r.pc, r.ks)
    <3>1. Stack(t, o.frame # <<>>, o.pc, o.ks)  BY <1>t, Here
    <3>2. Link(t, o.frame # <<>>, b, o.ks)  BY <1>2 DEF Link, Follows
    <3> QED  BY <1>8, <3>1, <3>2, StackGoto
  <2>2. FrameOf(t, r)  BY <1>5, <1>7, <1>8 DEF FrameOf
  <2>3. tf[t].epc = tf[t].want  BY <1>1, <1>2, <1>t, Begin
  <2> QED  BY <1>1, <1>11, <2>1, <2>2, <2>3 DEF ThreadInv, FrameInv
<1>18. \A g \in Harts : Me(g) # s
  <2>1. ASSUME NEW g \in Harts, Me(g) = s PROVE FALSE
    <3>1. Me(g) = <<"sched", g>>  BY <1>3, <2>1, Running
    <3>2. g = h  BY <1>s, <2>1, <3>1
    <3> QED  BY <1>3, <1>t, <2>1, <3>2
  <2> QED  BY <2>1
<1>19. pstate'[t] # "RUNNING" /\ Parked(t)'
  <2>1. pstate[t] # "RUNNING"  BY <1>1, <1>2, <1>t, Here
  <2>2. Parked(t)'  BY <1>8, <1>11 DEF Parked
  <2> QED  BY <1>1, <2>1, <2>2
<1> QED  BY <1>1, <1>3, <1>12, <1>13, <1>14, <1>16, <1>17, <1>18, <1>19, <1>t, Switch


\* Where the scheduler's own code can be.
LEMMA AtScheduler ==
  ASSUME TrapIInv, NEW h \in Harts, th[Me(h)].pc[1] \in {"loop", "scan", "pick", "back"}
  PROVE  /\ Me(h) \notin KProcs /\ Me(h) = <<"sched", h>> /\ Me(h)[2] = h
         /\ th[Me(h)].ks = <<>> /\ th[Me(h)].frame = <<>>
<1>1. Me(h) \notin KProcs /\ th[Me(h)].ks = <<>> /\ th[Me(h)].frame = <<>>
  BY Here DEF Link, Bottom, Follows, Acquiring
<1>2. Me(h) = <<"sched", h>>  BY <1>1, Running
<1> QED  BY <1>1, <1>2

LEMMA schedulerLoopOK ==
  ASSUME TrapIInv, NEW h \in Harts, At(h, "loop"), reg' = [reg EXCEPT ![h].sie = TRUE],
         Goto(Me(h), <<"scan">>), UNCHANGED <<cpus, lock, tf, upc, pstate>>
  PROVE  TrapIInv'
<1> DEFINE t == Me(h)
<1> DEFINE o == th[Me(h)]
<1> DEFINE b == <<"scan">>
<1> DEFINE r == [o EXCEPT !.pc = b]
<1> DEFINE x == [reg[h] EXCEPT !.sie = TRUE]
<1>0. /\ o \in ThreadRecs /\ reg[h] \in RegRecs /\ cpus[h] \in CpuRecs
      /\ reg[h].run = Me(h) /\ reg[h].tp = h /\ Me(h) \in Threads
  BY Begin
<1>1. o.pc[1] = "loop"  BY DEF At
<1>2. t \notin KProcs /\ o.ks = <<>> /\ o.frame = <<>>  BY <1>1, AtScheduler
<1>3. /\ r \in ThreadRecs /\ r.pc = b /\ r.ks = <<>> /\ r.frame = <<>>
  BY <1>0, <1>2, Labels DEF ThreadRecs, PlainLabels
<1>4. x \in RegRecs /\ x.run = t /\ x.tp = h /\ x.stvec = reg[h].stvec
  BY <1>0 DEF RegRecs
<1>5. reg' = [reg EXCEPT ![h] = x] /\ th' = [th EXCEPT ![Me(h)] = r] /\ cpus' = [cpus EXCEPT ![h] = cpus[h]]
  <2>1. th \in [Threads -> ThreadRecs] /\ reg \in [Harts -> RegRecs] /\ cpus \in [Harts -> CpuRecs]  BY Begin
  <2>2. reg' = [reg EXCEPT ![h] = x]  BY <2>1
  <2>3. th' = [th EXCEPT ![Me(h)] = r]  BY <1>0, <2>1 DEF Goto
  <2> QED  BY <2>1, <2>2, <2>3
<1> HIDE DEF r, x
<1>6. RegsOf(h, x, r, tf'[t])  BY <1>3 DEF RegsOf
<1>7. /\ Depth(r.pc, r.ks) = 0 /\ Depth(r.pc, r.ks) = Depth(o.pc, o.ks)
      /\ \A l \in Locks : Holds(t, r.pc, r.ks, l) <=> Holds(t, o.pc, o.ks, l)
  <2>1. r.pc[1] \in AtRest /\ o.pc[1] \in AtRest  BY <1>1, <1>3 DEF AtRest
  <2> QED  BY <2>1, RestDepth
<1>8. EnableOf(x, cpus[h], r)
  <2>1. reg[h].stvec = "kernelvec"
    <3>1. EnableOf(reg[h], cpus[h], o)  BY Begin
    <3> QED  BY <1>1, <3>1 DEF EnableOf, UserSide
  <2> QED  BY <1>3, <1>4, <1>7, <2>1 DEF EnableOf, UserSide
<1>9. Stack(t, r.frame # <<>>, r.pc, r.ks)  BY <1>2, <1>3 DEF Stack, Link, Bottom
<1>10. FrameOf(t, r)  BY <1>3 DEF FrameOf
<1>11. tf' \in [KProcs -> TfRecs] /\ upc' \in [KProcs -> Instructions]  BY Begin
<1>12. r.pc[1] = "scan"  BY <1>3
<1> QED
  BY <1>0, <1>1, <1>2, <1>3, <1>4, <1>5, <1>6, <1>7, <1>8, <1>9, <1>10, <1>11, <1>12, SettleFree

LEMMA schedulerScanOK ==
  ASSUME TrapIInv, NEW h \in Harts, At(h, "scan"), UNCHANGED <<reg, cpus, lock, tf, upc, pstate>>,
         \/ \E p \in InTable : Call(Me(h), <<"acquire", p>>, <<"pick", p>>)
         \/ Goto(Me(h), <<"loop">>)
  PROVE  TrapIInv'
<1> DEFINE pc == th[Me(h)].pc
<1> DEFINE ks == th[Me(h)].ks
<1>1. pc[1] = "scan"  BY DEF At
<1>2. Me(h) \notin KProcs /\ ks = <<>> /\ th[Me(h)].frame = <<>>  BY <1>1, AtScheduler
<1>3. CASE \E p \in InTable : Call(Me(h), <<"acquire", p>>, <<"pick", p>>)
  <2>0. PICK p \in KProcs : Call(Me(h), <<"acquire", p>>, <<"pick", p>>)  BY <1>3 DEF InTable
  <2> DEFINE a == <<"acquire", p>>
  <2> DEFINE b == <<"pick", p>>
  <2>1. Call(Me(h), a, b)  BY <2>0
  <2>2. a \in PCs /\ b \in PCs  BY Labels DEF Acquiring
  <2>3. Link(Me(h), th[Me(h)].frame # <<>>, b, ks)  BY <1>2 DEF Link, Bottom
  <2>4. Follows(Me(h), a, b)  BY DEF Follows, Acquiring
  <2>5. ASSUME NEW s, Head(s) = b
        PROVE  /\ Depth(a, s) = Depth(pc, ks)
               /\ \A l \in Locks : Holds(Me(h), a, s, l) <=> Holds(Me(h), pc, ks, l)
    BY <1>1, <2>5 DEF Depth, Holds, Acquiring
  <2>6. /\ a[1] \notin UserSide \cup {"sret", "devintr", "back", "sched2", "sched"}
        /\ pc[1] \notin UserSide \cup {"back", "sched2", "sched"}
    BY <1>1 DEF UserSide
  <2> HIDE DEF a, b
  <2> QED  BY <2>1, <2>2, <2>3, <2>4, <2>5, <2>6, CalmCall
<1>4. CASE Goto(Me(h), <<"loop">>)
  <2> DEFINE b == <<"loop">>
  <2>1. Goto(Me(h), b)  BY <1>4
  <2>2. b \in PCs  BY Labels DEF PlainLabels
  <2>3. Link(Me(h), th[Me(h)].frame # <<>>, b, ks)  BY <1>2 DEF Link, Bottom
  <2>4. /\ Depth(b, ks) = Depth(pc, ks)
        /\ \A l \in Locks : Holds(Me(h), b, ks, l) <=> Holds(Me(h), pc, ks, l)
    BY <1>1 DEF Depth, Holds, Acquiring
  <2>5. /\ b[1] \notin UserSide \cup {"sret", "devintr", "back", "sched2", "sched"}
        /\ pc[1] \notin UserSide \cup {"back", "sched2", "sched"}
    BY <1>1 DEF UserSide
  <2> HIDE DEF b
  <2> QED  BY <2>1, <2>2, <2>3, <2>4, <2>5, CalmGoto
<1> QED  BY <1>3, <1>4

\* A process that is not RUNNABLE is let go.
LEMMA schedulerPassOK ==
  ASSUME TrapIInv, NEW h \in Harts, At(h, "pick"), UNCHANGED <<reg, cpus, lock, tf, upc, pstate>>,
         Call(Me(h), <<"release", Arg(h)>>, <<"scan">>)
  PROVE  TrapIInv'
<1> DEFINE pc == th[Me(h)].pc
<1> DEFINE ks == th[Me(h)].ks
<1> DEFINE a == <<"release", pc[2]>>
<1> DEFINE b == <<"scan">>
<1>1. pc[1] = "pick" /\ Call(Me(h), a, b)  BY DEF At, Arg
<1>2. Me(h) \notin KProcs /\ ks = <<>> /\ th[Me(h)].frame = <<>>  BY <1>1, AtScheduler
<1>3. pc[2] \in KProcs  BY <1>1, Here DEF Arg
<1>4. a \in PCs /\ b \in PCs  BY <1>3, Labels DEF PlainLabels
<1>5. Link(Me(h), th[Me(h)].frame # <<>>, b, ks)  BY <1>2 DEF Link, Bottom
<1>6. Follows(Me(h), a, b)  BY <1>3 DEF Follows
<1>7. ASSUME NEW s, Head(s) = b
      PROVE  /\ Depth(a, s) = Depth(pc, ks)
             /\ \A l \in Locks : Holds(Me(h), a, s, l) <=> Holds(Me(h), pc, ks, l)
  BY <1>1, <1>7 DEF Depth, Holds, Acquiring
<1>8. /\ a[1] \notin UserSide \cup {"sret", "devintr", "back", "sched2", "sched"}
      /\ pc[1] \notin UserSide \cup {"back", "sched2", "sched"}
  BY <1>1 DEF UserSide
<1> HIDE DEF a, b
<1> QED  BY <1>1, <1>4, <1>5, <1>6, <1>7, <1>8, CalmCall


\* The scheduler has found a RUNNABLE process, which holds still: its lock
\* is held by this CPU, so that no other CPU is in its sched().
LEMMA schedulerPickOK ==
  ASSUME TrapIInv, NEW h \in Harts, At(h, "pick"), pstate[Arg(h)] = "RUNNABLE",
         pstate' = [pstate EXCEPT ![Arg(h)] = "RUNNING"],
         cpus' = [cpus EXCEPT ![Me(h)[2]].proc = Arg(h)],
         reg' = [reg EXCEPT ![h].run = Arg(h)],
         Goto(Me(h), <<"back", Arg(h)>>), UNCHANGED <<lock, tf, upc>>
  PROVE  TrapIInv'
<1> DEFINE o == th[Me(h)]
<1>p. PICK p : p = Arg(h)  OBVIOUS
<1>0. /\ o \in ThreadRecs /\ reg[h] \in RegRecs /\ cpus[h] \in CpuRecs
      /\ reg[h].tp = h /\ Me(h) \in Threads
  BY Running
<1>s. PICK s \in Threads : s = Me(h)  BY <1>0
<1> DEFINE b == <<"back", p>>
<1> DEFINE r == [o EXCEPT !.pc = b]
<1> DEFINE x == [reg[h] EXCEPT !.run = p]
<1> DEFINE c == [cpus[h] EXCEPT !.proc = p]
<1>1. o.pc[1] = "pick" /\ o.pc[2] = p  BY <1>p DEF At, Arg
<1>2. s \notin KProcs /\ s = <<"sched", h>> /\ Me(h)[2] = h /\ o.ks = <<>> /\ o.frame = <<>>
  BY <1>1, <1>s, AtScheduler
<1>3. p \in KProcs /\ p \in Threads /\ p \in Locks /\ p # s /\ p \notin Scheds
  <2>1. p \in KProcs  BY <1>1, <1>p, Here
  <2> QED  BY <1>2, <2>1, TrapAssumption DEF Threads, Locks
<1>4. Depth(o.pc, o.ks) = 1 /\ \A l : Holds(s, o.pc, o.ks, l) <=> l = p
  BY <1>1 DEF Depth, Holds, Acquiring
<1>5. cpus[h].noff = 1 /\ \A l \in Locks : lock[l] = h <=> l = p  BY <1>4, <1>s, Begin
<1>6. ~reg[h].sie /\ reg[h].stvec = "kernelvec"
  <2>1. EnableOf(reg[h], cpus[h], o)  BY Begin
  <2> QED  BY <1>1, <1>4, <2>1 DEF EnableOf, UserSide
<1>7. \A g \in Harts : Me(g) # p
  <2>1. ASSUME NEW g \in Harts, Me(g) = p PROVE FALSE
    <3>1. th[p].pc[1] = "sched"  BY <1>3, <1>p, <2>1, Here
    <3>2. Holds(p, th[p].pc, th[p].ks, p)  BY <3>1 DEF Holds, Acquiring
    <3>3. lock[p] = g  BY <1>3, <2>1, <3>2, Begin
    <3>4. g = h  BY <1>3, <1>5, <3>3
    <3> QED  BY <1>3, <1>s, <2>1, <3>4
  <2> QED  BY <2>1
<1>8. Parked(p) /\ ThreadInv(p)  BY <1>3, <1>7 DEF TrapIInv, ParkInv
<1>9. /\ r \in ThreadRecs /\ r.pc = b /\ r.ks = <<>> /\ r.frame = <<>>
  <2>1. b \in PCs  BY <1>3, Labels
  <2> QED  BY <1>0, <1>2, <2>1 DEF ThreadRecs
<1>10. x \in RegRecs /\ x.run = p /\ x.tp = h /\ x.sie = reg[h].sie /\ x.stvec = reg[h].stvec
  BY <1>0, <1>3 DEF RegRecs
<1>11. c \in CpuRecs /\ c.noff = cpus[h].noff /\ c.proc = p  BY <1>0, <1>3 DEF CpuRecs
<1>12. reg' = [reg EXCEPT ![h] = x] /\ th' = [th EXCEPT ![s] = r] /\ cpus' = [cpus EXCEPT ![h] = c]
  <2>1. th \in [Threads -> ThreadRecs] /\ reg \in [Harts -> RegRecs] /\ cpus \in [Harts -> CpuRecs]  BY Begin
  <2>2. reg' = [reg EXCEPT ![h] = x]  BY <1>p, <2>1
  <2>3. th' = [th EXCEPT ![s] = r]  BY <1>p, <1>s, <2>1 DEF Goto
  <2>4. cpus' = [cpus EXCEPT ![h] = c]  BY <1>2, <1>p, <2>1
  <2> QED  BY <2>2, <2>3, <2>4
<1> HIDE DEF r, x, c
<1>13. /\ reg'[h] = x /\ cpus'[h] = c /\ \A g \in Harts \ {h} : reg'[g] = reg[g] /\ cpus'[g] = cpus[g]
       /\ th'[s] = r /\ \A v \in Threads \ {s} : th'[v] = th[v]
  BY <1>12, Begin
<1>14. Me(h)' = p  BY <1>10, <1>13 DEF Me
<1>15. Touch(h)  BY <1>13, <1>s DEF Touch
<1>16. /\ pstate' \in [KProcs -> {"UNUSED", "RUNNABLE", "RUNNING", "SLEEPING"}]
       /\ pstate'[p] = "RUNNING" /\ \A q \in KProcs \ {p} : pstate'[q] = pstate[q]
  BY <1>3, <1>p DEF TrapIInv, TrapTypeOK
<1>17. TrapTypeOK'
  <2>0. /\ th \in [Threads -> ThreadRecs] /\ reg \in [Harts -> RegRecs] /\ cpus \in [Harts -> CpuRecs]  BY Begin
  <2>1. /\ th' \in [Threads -> ThreadRecs] /\ reg' \in [Harts -> RegRecs] /\ cpus' \in [Harts -> CpuRecs]
    <3>1. r \in ThreadRecs /\ x \in RegRecs /\ c \in CpuRecs  BY <1>9, <1>10, <1>11
    <3>2. th' \in [Threads -> ThreadRecs]  BY <1>12, <1>s, <2>0, <3>1
    <3>3. reg' \in [Harts -> RegRecs]  BY <1>12, <2>0, <3>1
    <3>4. cpus' \in [Harts -> CpuRecs]  BY <1>12, <2>0, <3>1
    <3> QED  BY <3>2, <3>3, <3>4
  <2>2. lock' \in [Locks -> Harts \cup {Unlocked}] /\ tf' \in [KProcs -> TfRecs] /\ upc' \in [KProcs -> Instructions]
    BY Begin
  <2> QED  BY <1>16, <2>1, <2>2 DEF TrapTypeOK
<1>18. th'[p] = th[p]  BY <1>3, <1>13
<1>19. HartInv(h)'
  <2>1. RunInv(h)'
    <3>1. th'[<<"sched", h>>] = r /\ r.pc[1] = "back" /\ r.pc[2] = p  BY <1>2, <1>9, <1>13
    <3>2. reg'[h].tp = h /\ cpus'[h].proc = p  BY <1>10, <1>11, <1>13
    <3> QED  BY <1>3, <1>9, <1>14, <3>1, <3>2 DEF RunInv
  <2>2. Depth(th[p].pc, th[p].ks) = 1 /\ \A l : Holds(p, th[p].pc, th[p].ks, l) <=> l = p
    BY <1>8 DEF Parked, Depth, Holds, Acquiring
  <2>3. LocksInv(h)'  BY <1>5, <1>11, <1>13, <1>14, <1>18, <2>2 DEF LocksInv
  <2>4. EnableInv(h)'
    BY <1>6, <1>8, <1>10, <1>13, <1>14, <1>18 DEF EnableInv, EnableOf, Parked
  <2>5. RegsInv(h)'  BY <1>8, <1>14, <1>18 DEF RegsInv, RegsOf, Parked
  <2> QED  BY <2>1, <2>3, <2>4, <2>5 DEF HartInv
<1>20. ThreadInv(s)'
  <2>1. Stack(s, r.frame # <<>>, r.pc, r.ks)  BY <1>2, <1>9 DEF Stack, Link, Bottom
  <2>2. FrameOf(s, r)  BY <1>9 DEF FrameOf
  <2> QED  BY <1>2, <1>13, <2>1, <2>2 DEF ThreadInv, FrameInv
<1>21. th[p].pc[1] # "sched"  BY <1>8 DEF Parked
<1> QED  BY <1>2, <1>3, <1>7, <1>14, <1>15, <1>16, <1>17, <1>19, <1>20, <1>21, <1>s, Switch

\* The process has given up the CPU.
LEMMA schedulerBackOK ==
  ASSUME TrapIInv, NEW h \in Harts, At(h, "back"),
         cpus' = [cpus EXCEPT ![Me(h)[2]].proc = NoThread],
         Call(Me(h), <<"release", Arg(h)>>, <<"scan">>), UNCHANGED <<reg, lock, tf, upc, pstate>>
  PROVE  TrapIInv'
<1> DEFINE t == Me(h)
<1> DEFINE o == th[Me(h)]
<1>p. PICK p : p = Arg(h)  OBVIOUS
<1> DEFINE a == <<"release", p>>
<1> DEFINE s == << <<"scan">> >>
<1> DEFINE r == [o EXCEPT !.pc = a, !.ks = s]
<1> DEFINE c == [cpus[h] EXCEPT !.proc = NoThread]
<1>0. /\ o \in ThreadRecs /\ reg[h] \in RegRecs /\ cpus[h] \in CpuRecs
      /\ reg[h].run = Me(h) /\ reg[h].tp = h /\ Me(h) \in Threads
  BY Begin
<1>1. o.pc[1] = "back" /\ o.pc[2] = p  BY <1>p DEF At, Arg
<1>2. t \notin KProcs /\ Me(h)[2] = h /\ o.ks = <<>> /\ o.frame = <<>>  BY <1>1, AtScheduler
<1>3. p \in KProcs  BY <1>1, <1>p, Here
<1>4. a \in PCs /\ s \in Seq(PCs) /\ s # <<>> /\ Head(s) = <<"scan">> /\ Len(s) = 1 /\ s[1] = <<"scan">>
  <2>1. a \in PCs /\ <<"scan">> \in PCs  BY <1>3, Labels DEF PlainLabels
  <2> QED  BY <2>1
<1>5. r \in ThreadRecs /\ r.pc = a /\ r.ks = s /\ r.frame = <<>>
  <2> HIDE DEF s, a
  <2> QED  BY <1>0, <1>2, <1>4 DEF ThreadRecs
<1>6. c \in CpuRecs /\ c.noff = cpus[h].noff /\ c.proc = NoThread  BY <1>0 DEF CpuRecs
<1>7. reg' = [reg EXCEPT ![h] = reg[h]] /\ th' = [th EXCEPT ![Me(h)] = r] /\ cpus' = [cpus EXCEPT ![h] = c]
  <2>1. th \in [Threads -> ThreadRecs] /\ reg \in [Harts -> RegRecs] /\ cpus \in [Harts -> CpuRecs]  BY Begin
  <2>2. cpus' = [cpus EXCEPT ![h] = c]  BY <1>2, <2>1
  <2>3. << <<"scan">> >> \o o.ks = s  BY <1>2
  <2>4. th' = [th EXCEPT ![Me(h)].pc = a, ![Me(h)].ks = << <<"scan">> >> \o o.ks]  BY <1>p, <2>1 DEF Call
  <2>5. th' = [th EXCEPT ![Me(h)].pc = a, ![Me(h)].ks = s]  BY <2>3, <2>4
  <2>6. th' = [th EXCEPT ![Me(h)] = r]
    <3> HIDE DEF s, a
    <3> QED  BY <2>1, <2>5
  <2> QED  BY <2>1, <2>2, <2>6
<1>8. Stack(t, FALSE, a, s)
  <2> HIDE DEF s
  <2> QED  BY <1>2, <1>3, <1>4 DEF Stack, Link, Bottom, Follows
<1>9. /\ Depth(a, s) = 1 /\ \A l : Holds(t, a, s, l) <=> l = p
      /\ Depth(o.pc, o.ks) = 1 /\ \A l : Holds(t, o.pc, o.ks, l) <=> l = p
  BY <1>1, <1>4 DEF Depth, Holds, Acquiring
<1>10. a[1] = "release"  OBVIOUS
<1> HIDE DEF r, c, s, a
<1>11. EnableOf(reg[h], c, r)
  <2>1. EnableOf(reg[h], cpus[h], o)  BY Begin
  <2>2. ~reg[h].sie /\ reg[h].stvec = "kernelvec"  BY <1>1, <1>9, <2>1 DEF EnableOf, UserSide
  <2> QED  BY <1>5, <2>2 DEF EnableOf
<1>12. RegsOf(h, reg[h], r, tf'[t])  BY <1>5, <1>10 DEF RegsOf
<1>13. FrameOf(t, r)  BY <1>5 DEF FrameOf
<1>14. Stack(t, r.frame # <<>>, r.pc, r.ks)
  <2>1. (r.frame # <<>>) = FALSE  BY <1>5
  <2> QED  BY <1>5, <1>8, <2>1
<1>15. c.noff = Depth(r.pc, r.ks) /\ \A l \in Locks : lock'[l] = h <=> Holds(t, r.pc, r.ks, l)
  BY <1>5, <1>6, <1>9, Begin
<1>16. /\ tf' \in [KProcs -> TfRecs] /\ upc' \in [KProcs -> Instructions]
       /\ lock' \in [Locks -> Harts \cup {Unlocked}]
  BY Begin
<1>17. r.pc[1] = "release"  BY <1>5, <1>10
<1> QED
  BY <1>0, <1>1, <1>2, <1>5, <1>6, <1>7, <1>11, <1>12, <1>13, <1>14, <1>15, <1>16, <1>17, Settle

LEMMA schedulerOK == ASSUME TrapIInv, NEW h \in Harts, scheduler(h) PROVE TrapIInv'
  BY schedulerLoopOK, schedulerScanOK, schedulerPickOK, schedulerPassOK, schedulerBackOK DEF scheduler

-----------------------------------------------------------------------------
(* The theorems.                                                           *)

LEMMA TrapStepOK == ASSUME TrapIInv, [TrapNext]_trapvars PROVE TrapIInv'
<1>1. CASE UNCHANGED trapvars
  <2>1. UNCHANGED <<reg, cpus, lock, th, tf, upc, pstate>>  BY <1>1 DEF trapvars
  <2>2. \A h \in Harts : Me(h)' = Me(h)  BY <2>1 DEF Me
  <2>3. TrapTypeOK'  BY <2>1 DEF TrapIInv, TrapTypeOK
  <2>4. ASSUME NEW h \in Harts PROVE HartInv(h)'
    <3>1. RunInv(h) /\ LocksInv(h) /\ EnableInv(h) /\ RegsInv(h)  BY DEF TrapIInv, HartInv
    <3>2. RunInv(h)'  BY <2>1, <2>2, <3>1 DEF RunInv
    <3>3. LocksInv(h)'  BY <2>1, <2>2, <3>1 DEF LocksInv
    <3>4. EnableInv(h)'  BY <2>1, <2>2, <3>1 DEF EnableInv
    <3>5. RegsInv(h)'  BY <2>1, <2>2, <3>1 DEF RegsInv
    <3> QED  BY <3>2, <3>3, <3>4, <3>5 DEF HartInv
  <2>5. \A t \in Threads : ThreadInv(t)'  BY <2>1 DEF TrapIInv, ThreadInv, FrameInv
  <2>6. OneCpuEach' /\ StateInv' /\ ParkInv'
    BY <2>1, <2>2 DEF TrapIInv, OneCpuEach, StateInv, ParkInv, Parked
  <2> QED  BY <2>3, <2>4, <2>5, <2>6 DEF TrapIInv
<1>2. ASSUME NEW h \in Harts, HartStep(h) PROVE TrapIInv'
  <2>1. CASE push_off1(h) \/ push_off2(h) \/ acquire(h) \/ release(h)
    BY <2>1, push_off1OK, push_off2OK, acquireOK, releaseOK
  <2>2. CASE yield(h) \/ sched(h) \/ sched2(h) \/ scheduler(h) \/ sleep(h)
    BY <2>2, yieldOK, schedOK, sched2OK, schedulerOK, sleepOK
  <2>3. CASE TrapFromUser(h) \/ uservec(h) \/ usertrap(h) \/ usertrap2(h) \/ sys_sleep(h)
    BY <2>3, TrapFromUserOK, uservecOK, usertrapOK, usertrap2OK, sys_sleepOK
  <2>4. CASE usertrapret(h) \/ userret(h)  BY <2>4, usertrapretOK, userretOK
  <2>5. CASE kernelvec(h) \/ kerneltrap(h) \/ kerneltrap2(h) \/ kernelvec_end(h)
    BY <2>5, kernelvecOK, kerneltrapOK, kerneltrap2OK, kernelvec_endOK
  <2>6. CASE devintr(h) \/ wakeup(h)  BY <2>6, devintrOK, wakeupOK
  <2> QED  BY <1>2, <2>1, <2>2, <2>3, <2>4, <2>5, <2>6 DEF HartStep
<1> QED  BY <1>1, <1>2 DEF TrapNext

LEMMA TrapInductive == TrapSpec => []TrapIInv
<1>1. TrapInit => TrapIInv  BY TrapInitOK
<1>2. TrapIInv /\ [TrapNext]_trapvars => TrapIInv'  BY TrapStepOK
<1> QED  BY <1>1, <1>2, PTL DEF TrapSpec

\* Whatever the number of CPUs and processes, tp names the CPU that runs
\* kernel code (cpuid() and mycpu() of proc.c), a trap returns to the
\* instruction it interrupted with interrupts as they were (usertrapret()
\* and kerneltrap() of trap.c, kernelvec.S), and interrupts are on in the
\* kernel only where no spin-lock is held (push_off() and pop_off() of
\* spinlock.c).
THEOREM TrapSound == TrapSpec => []TrapInv
<1>1. TrapIInv => TrapInv  BY TrapInvOK
<1> QED  BY <1>1, TrapInductive, PTL

\* Whatever the number of CPUs and processes, acquire(), release() and
\* pop_off() of spinlock.c, sched() of proc.c and usertrap() and
\* kerneltrap() of trap.c never panic.
THEOREM TrapsNeverPanic == TrapSpec => []NoTrapPanic
<1>1. TrapIInv => NoTrapPanic  BY NoPanicOK
<1> QED  BY <1>1, TrapInductive, PTL
=============================================================================
