-------------------------------- MODULE Trap --------------------------------
(***************************************************************************)
(* Traps, spin-locks and context switches of xv6: the registers and the    *)
(* per-CPU bookkeeping that let a kernel thread be interrupted, give up    *)
(* its CPU and go on elsewhere (kernel/spinlock.c, trap.c, trampoline.S,   *)
(* kernelvec.S, swtch.S, and sched, yield, sleep, scheduler of proc.c).    *)
(*                                                                         *)
(* Every CPU runs a process or its scheduler.  A thread has a program      *)
(* counter, a stack of return addresses and the C locals that outlive a    *)
(* switch; mycpu() is what the tp register says.  Interrupts arrive at any *)
(* time they are enabled.  Which processes exist and when they are woken   *)
(* is module Proc; here a process is in user mode or calls sleep(1).       *)
(***************************************************************************)
EXTENDS Integers, Sequences, FiniteSets

CONSTANTS Harts,      \* CPU numbers, 0 among them
          KProcs,     \* processes
          NoThread    \* c->proc of a CPU in its scheduler

Scheds == {<<"sched", h>> : h \in Harts}
Threads == KProcs \cup Scheds
tickslock == <<"tickslock">>
Locks == KProcs \cup {tickslock}     \* p->lock of every process, and tickslock

ASSUME TrapAssumption ==
  /\ Harts \subseteq Nat /\ 0 \in Harts
  /\ KProcs \cap (Scheds \cup {tickslock, NoThread}) = {}

Unlocked == -1
Unset == <<"none">>     \* sepc after sret, which nobody reads before the next trap sets it

\* Two instructions of user code, an ecall among them: the next one is
\* where an ecall must return.
UserStart == <<"instruction", 0>>
NextInstruction(u) == <<"instruction", 1 - u[2]>>

VARIABLES reg,     \* [run, sie, tp, sepc, spie, spp, stvec] of every CPU
          cpus,    \* cpus[]: [noff, intena, proc]
          lock,    \* the CPU that has locked each lock, or Unlocked
          th,      \* [pc, ks, old, intena, frame, dev] of every thread
          tf,      \* p->trapframe: [epc, hart], and want: where user code must go on
          upc,     \* the program counter of user code
          pstate,  \* p->state
          ticked   \* has ticks changed since the process read it?

trapvars == <<reg, cpus, lock, th, tf, upc, pstate, ticked>>

NewThread(pc, ks) == [pc |-> pc, ks |-> ks, old |-> FALSE, intena |-> FALSE, frame |-> <<>>, dev |-> "none"]

\* After boot: every scheduler is about to run, and every process will
\* return through forkret, in which it holds its own lock.
TrapInit ==
  /\ reg = [h \in Harts |-> [run |-> <<"sched", h>>, sie |-> FALSE, tp |-> h, sepc |-> Unset,
                             spie |-> FALSE, spp |-> "S", stvec |-> "kernelvec"]]
  /\ cpus = [h \in Harts |-> [noff |-> 0, intena |-> FALSE, proc |-> NoThread]]
  /\ lock = [l \in Locks |-> Unlocked]
  /\ th = [t \in Threads |-> IF t \in Scheds THEN NewThread(<<"loop">>, <<>>)
                             ELSE NewThread(<<"release", t>>, <<<<"usertrapret">>>>)]
  /\ tf = [p \in KProcs |-> [epc |-> UserStart, hart |-> 0, want |-> UserStart]]
  /\ upc = [p \in KProcs |-> UserStart]
  /\ pstate \in [KProcs -> {"UNUSED", "RUNNABLE"}]
  /\ ticked = [p \in KProcs |-> FALSE]

\* The loops over proc[]; locking a slot that is UNUSED and stays so would
\* change nothing.
InTable == {p \in KProcs : pstate[p] # "UNUSED"}

Me(h) == reg[h].run
At(h, label) == th[Me(h)].pc[1] = label
Arg(h) == th[Me(h)].pc[2]
mycpu(h) == cpus[reg[h].tp]
myproc(h) == mycpu(h).proc

Goto(t, pc) == th' = [th EXCEPT ![t].pc = pc]
Call(t, pc, ret) == th' = [th EXCEPT ![t].pc = pc, ![t].ks = <<ret>> \o @]
Returned(r) == [r EXCEPT !.pc = Head(r.ks), !.ks = Tail(@)]

-----------------------------------------------------------------------------
(* spinlock.c                                                              *)

\* push_off reads the interrupt state first; an interrupt may still come,
\* and the thread may go on with another CPU.
push_off1(h) ==
  /\ At(h, "acquire")
  /\ th' = [th EXCEPT ![Me(h)].old = reg[h].sie, ![Me(h)].pc = <<"push_off", Arg(h)>>]
  /\ UNCHANGED <<reg, cpus, lock, tf, upc, pstate, ticked>>

\* Only the outermost push_off remembers whether interrupts were on.
Pushed(c, old) == [c EXCEPT !.noff = @ + 1, !.intena = IF c.noff = 0 THEN old ELSE @]

push_off2(h) ==
  /\ At(h, "push_off")
  /\ reg' = [reg EXCEPT ![h].sie = FALSE]
  /\ cpus' = [cpus EXCEPT ![reg[h].tp] = Pushed(@, th[Me(h)].old)]
  /\ th' = [th EXCEPT ![Me(h)].old = FALSE, ![Me(h)].pc = <<"spin", Arg(h)>>]
  /\ UNCHANGED <<lock, tf, upc, pstate, ticked>>

\* The atomic swap of acquire succeeds.
acquire(h) ==
  /\ At(h, "spin") /\ lock[Arg(h)] = Unlocked
  /\ lock' = [lock EXCEPT ![Arg(h)] = reg[h].tp]
  /\ th' = [th EXCEPT ![Me(h)] = Returned(@)]
  /\ UNCHANGED <<reg, cpus, tf, upc, pstate, ticked>>

holding(h, l) == lock[l] = reg[h].tp

EvenIfNested(c) == c.intena

\* pop_off turns interrupts on when the outermost lock is gone.
Reenable(c) == c.noff = 1 /\ c.intena

\* release and pop_off.
release(h) ==
  LET c == mycpu(h) IN
  /\ At(h, "release")
  /\ lock' = [lock EXCEPT ![Arg(h)] = Unlocked]
  /\ cpus' = [cpus EXCEPT ![reg[h].tp].noff = @ - 1]
  /\ reg' = [reg EXCEPT ![h].sie = Reenable(c) \/ @]
  /\ th' = [th EXCEPT ![Me(h)] = Returned(@)]
  /\ UNCHANGED <<tf, upc, pstate, ticked>>

-----------------------------------------------------------------------------
(* proc.c and swtch.S                                                      *)

\* yield: take p->lock, become RUNNABLE, sched, release.
yield(h) ==
  LET p == myproc(h) IN
  \/ At(h, "yield") /\ Call(p, <<"acquire", p>>, <<"yield2">>) /\ UNCHANGED <<reg, cpus, lock, tf, upc, pstate, ticked>>
  \/ /\ At(h, "yield2")
     /\ pstate' = [pstate EXCEPT ![p] = "RUNNABLE"]
     /\ Call(p, <<"sched">>, <<"release", p>>)
     /\ UNCHANGED <<reg, cpus, lock, tf, upc, ticked>>

\* sched: keep intena, which belongs to this thread, and switch to the
\* scheduler of this CPU.
sched(h) ==
  LET p == Me(h)
      s == <<"sched", reg[h].tp>>
  IN
  /\ At(h, "sched")
  /\ th' = [th EXCEPT ![p].intena = mycpu(h).intena, ![p].pc = <<"sched2">>]
  /\ reg' = [reg EXCEPT ![h].run = s]
  /\ UNCHANGED <<cpus, lock, tf, upc, pstate, ticked>>

RestoreIntena(c, t) == [c EXCEPT !.intena = th[t].intena]

\* swtch returns into sched, perhaps on another CPU.
sched2(h) ==
  /\ At(h, "sched2")
  /\ cpus' = [cpus EXCEPT ![reg[h].tp] = RestoreIntena(@, Me(h))]
  /\ th' = [th EXCEPT ![Me(h)] = [Returned(@) EXCEPT !.intena = FALSE]]
  /\ UNCHANGED <<reg, lock, tf, upc, pstate, ticked>>

\* The loop of scheduler: interrupts on once per scan, then every process.
scheduler(h) ==
  LET s == Me(h) IN
  \/ /\ At(h, "loop")
     /\ reg' = [reg EXCEPT ![h].sie = TRUE]
     /\ Goto(s, <<"scan">>)
     /\ UNCHANGED <<cpus, lock, tf, upc, pstate, ticked>>
  \/ /\ At(h, "scan")
     /\ \/ \E p \in InTable : Call(s, <<"acquire", p>>, <<"pick", p>>)
        \/ Goto(s, <<"loop">>)
     /\ UNCHANGED <<reg, cpus, lock, tf, upc, pstate, ticked>>
  \/ /\ At(h, "pick") /\ pstate[Arg(h)] = "RUNNABLE"
     /\ pstate' = [pstate EXCEPT ![Arg(h)] = "RUNNING"]
     /\ cpus' = [cpus EXCEPT ![s[2]].proc = Arg(h)]
     /\ reg' = [reg EXCEPT ![h].run = Arg(h)]
     /\ Goto(s, <<"back", Arg(h)>>)
     /\ UNCHANGED <<lock, tf, upc, ticked>>
  \/ /\ At(h, "pick") /\ pstate[Arg(h)] # "RUNNABLE"
     /\ Call(s, <<"release", Arg(h)>>, <<"scan">>)
     /\ UNCHANGED <<reg, cpus, lock, tf, upc, pstate, ticked>>
  \/ /\ At(h, "back")
     /\ cpus' = [cpus EXCEPT ![s[2]].proc = NoThread]
     /\ Call(s, <<"release", Arg(h)>>, <<"scan">>)
     /\ UNCHANGED <<reg, lock, tf, upc, pstate, ticked>>

\* sleep(&ticks, &tickslock), after it has taken p->lock: release
\* tickslock, sched, release p->lock, and tickslock again.
sleep(h) ==
  LET p == Me(h) IN
  \/ /\ At(h, "sleep") /\ Call(p, <<"acquire", p>>, <<"sleep2">>)
     /\ UNCHANGED <<reg, cpus, lock, tf, upc, pstate, ticked>>
  \/ /\ At(h, "sleep2") /\ Call(p, <<"release", tickslock>>, <<"sleep3">>)
     /\ UNCHANGED <<reg, cpus, lock, tf, upc, pstate, ticked>>
  \/ /\ At(h, "sleep3")
     /\ pstate' = [pstate EXCEPT ![p] = "SLEEPING"]
     /\ th' = [th EXCEPT ![p].pc = <<"sched">>, ![p].ks = <<<<"release", p>>, <<"acquire", tickslock>>>> \o @]
     /\ UNCHANGED <<reg, cpus, lock, tf, upc, ticked>>

-----------------------------------------------------------------------------
(* trap.c, from user mode                                                  *)

\* An ecall or an interrupt in user mode; interrupts are always on there.
TrapFromUser(h) ==
  /\ At(h, "user")
  /\ \E cause \in {"ecall", "timer", "external"} :
       /\ th' = [th EXCEPT ![Me(h)].pc = <<"uservec">>, ![Me(h)].dev = cause]
       /\ tf' = [tf EXCEPT ![Me(h)].want = IF cause = "ecall" THEN NextInstruction(upc[Me(h)]) ELSE upc[Me(h)]]
  /\ reg' = [reg EXCEPT ![h] = [@ EXCEPT !.sie = FALSE, !.spie = TRUE, !.spp = "U", !.sepc = upc[Me(h)]]]
  /\ UNCHANGED <<cpus, lock, upc, pstate, ticked>>

\* trampoline.S: the kernel's tp comes from the trapframe.
uservec(h) ==
  /\ At(h, "uservec")
  /\ reg' = [reg EXCEPT ![h].tp = tf[Me(h)].hart]
  /\ Goto(Me(h), <<"usertrap">>)
  /\ UNCHANGED <<cpus, lock, tf, upc, pstate, ticked>>

\* usertrap, with intr_on only when sepc has been saved.  That a killed process
\* exits here, and that another scause kills it, is in Proc and in Os.
usertrap(h) ==
  LET p == myproc(h) IN
  /\ At(h, "usertrap")
  /\ tf' = [tf EXCEPT ![p].epc = IF th[p].dev = "ecall" THEN NextInstruction(reg[h].sepc) ELSE reg[h].sepc]
  /\ reg' = [reg EXCEPT ![h].stvec = "kernelvec", ![h].sie = th[p].dev = "ecall"]
  /\ IF th[p].dev = "ecall" THEN Goto(p, <<"syscall">>) ELSE Call(p, <<"devintr">>, <<"usertrap2">>)
  /\ UNCHANGED <<cpus, lock, upc, pstate, ticked>>

usertrap2(h) ==
  /\ At(h, "usertrap2")
  /\ IF th[Me(h)].dev = "timer" THEN Call(Me(h), <<"yield">>, <<"usertrapret">>) ELSE Goto(Me(h), <<"usertrapret">>)
  /\ UNCHANGED <<reg, cpus, lock, tf, upc, pstate, ticked>>

\* sys_sleep(1), or a call that does nothing here.
sys_sleep(h) ==
  LET p == Me(h) IN
  \/ /\ At(h, "syscall")
     /\ \/ Call(p, <<"acquire", tickslock>>, <<"ticks0">>)
        \/ Goto(p, <<"usertrapret">>)
     /\ UNCHANGED <<reg, cpus, lock, tf, upc, pstate, ticked>>
  \/ /\ At(h, "ticks0")
     /\ ticked' = [ticked EXCEPT ![p] = FALSE]
     /\ Goto(p, <<"tickloop">>)
     /\ UNCHANGED <<reg, cpus, lock, tf, upc, pstate>>
  \/ /\ At(h, "tickloop")
     /\ IF ticked[p] THEN Call(p, <<"release", tickslock>>, <<"usertrapret">>)
                     ELSE Call(p, <<"sleep">>, <<"tickloop">>)
     /\ UNCHANGED <<reg, cpus, lock, tf, upc, pstate, ticked>>

\* kernel_hartid, which uservec will load.
SavedHart(h, p) == reg[h].tp

usertrapret(h) ==
  LET p == myproc(h) IN
  /\ At(h, "usertrapret")
  /\ tf' = [tf EXCEPT ![p].hart = SavedHart(h, p)]
  /\ reg' = [reg EXCEPT ![h] = [@ EXCEPT !.sie = FALSE, !.stvec = "uservec", !.spp = "U", !.spie = TRUE,
                                         !.sepc = tf[p].epc]]
  /\ Goto(p, <<"userret">>)
  /\ UNCHANGED <<cpus, lock, upc, pstate, ticked>>

\* sret into user mode; tp is the user's again.
userret(h) ==
  /\ At(h, "userret")
  /\ upc' = [upc EXCEPT ![Me(h)] = reg[h].sepc]
  /\ th' = [th EXCEPT ![Me(h)].pc = <<"user">>, ![Me(h)].dev = "none"]
  /\ reg' = [reg EXCEPT ![h].sepc = Unset, ![h].spie = FALSE]
  /\ UNCHANGED <<cpus, lock, tf, pstate, ticked>>

-----------------------------------------------------------------------------
(* trap.c, from the kernel                                                 *)

InUser(h) == th[Me(h)].pc[1] \in {"user", "uservec"}

\* An interrupt in kernel code: kernelvec saves the registers on the stack,
\* kerneltrap the trap registers.
kernelvec(h) ==
  LET t == Me(h) IN
  /\ reg[h].sie /\ ~InUser(h)
  /\ \E cause \in {"timer", "external"} :
       th' = [th EXCEPT ![t] = [NewThread(<<"devintr">>, <<<<"kerneltrap">>>>) EXCEPT
                !.frame = <<[regs |-> th[t], sepc |-> th[t].pc, spie |-> TRUE]>> \o th[t].frame, !.dev = cause]]
  /\ reg' = [reg EXCEPT ![h] = [@ EXCEPT !.sie = FALSE, !.spie = TRUE, !.spp = "S", !.sepc = th[t].pc]]
  /\ UNCHANGED <<cpus, lock, tf, upc, pstate, ticked>>

\* Give up the CPU after a timer interrupt, if there is a process.  The code
\* asks that it be RUNNING as well: the model yields wherever the code does.
kerneltrap(h) ==
  LET t == Me(h) IN
  /\ At(h, "kerneltrap")
  /\ IF th[t].dev = "timer" /\ myproc(h) # NoThread
     THEN Call(t, <<"yield">>, <<"kerneltrap2">>)
     ELSE Goto(t, <<"kerneltrap2">>)
  /\ UNCHANGED <<reg, cpus, lock, tf, upc, pstate, ticked>>

AsTheyAre(r, f) == r
RestoreTrapRegs(r, f) == [r EXCEPT !.sepc = f.sepc, !.spie = f.spie, !.spp = "S"]

kerneltrap2(h) ==
  /\ At(h, "kerneltrap2")
  /\ reg' = [reg EXCEPT ![h] = RestoreTrapRegs(@, Head(th[Me(h)].frame))]
  /\ Goto(Me(h), <<"sret">>)
  /\ UNCHANGED <<cpus, lock, tf, upc, pstate, ticked>>

\* The end of kernelvec: all registers but tp, and sret.
kernelvec_end(h) ==
  LET f == Head(th[Me(h)].frame) IN
  /\ At(h, "sret")
  /\ th' = [th EXCEPT ![Me(h)] = [f.regs EXCEPT !.pc = reg[h].sepc]]
  /\ reg' = [reg EXCEPT ![h] = [@ EXCEPT !.sie = reg[h].sie \/ reg[h].spie, !.sepc = Unset, !.spie = FALSE]]
  /\ UNCHANGED <<cpus, lock, tf, upc, pstate, ticked>>

\* devintr: CPU 0 counts the tick in clockintr, which wakes everybody; the
\* handlers of the UART and the disk take a lock as well.
devintr(h) ==
  LET t == Me(h) IN
  \/ /\ At(h, "devintr")
     /\ IF th[t].dev = "timer" /\ reg[h].tp # 0
        THEN th' = [th EXCEPT ![t] = Returned(@)]
        ELSE Call(t, <<"acquire", tickslock>>, <<"clockintr">>)
     /\ UNCHANGED <<reg, cpus, lock, tf, upc, pstate, ticked>>
  \/ /\ At(h, "clockintr") /\ th[t].dev # "timer"
     /\ Goto(t, <<"release", tickslock>>)
     /\ UNCHANGED <<reg, cpus, lock, tf, upc, pstate, ticked>>
  \/ /\ At(h, "clockintr") /\ th[t].dev = "timer"
     /\ ticked' = [p \in KProcs |-> TRUE]
     /\ Goto(t, <<"wakeup", InTable \ {myproc(h)}>>)
     /\ UNCHANGED <<reg, cpus, lock, tf, upc, pstate>>

\* wakeup takes the lock of every other process in turn.
wakeup(h) ==
  LET t == Me(h) IN
  \/ /\ At(h, "wakeup") /\ Arg(h) = {}
     /\ Goto(t, <<"release", tickslock>>)
     /\ UNCHANGED <<reg, cpus, lock, tf, upc, pstate, ticked>>
  \/ /\ At(h, "wakeup")
     /\ \E p \in Arg(h) :
          th' = [th EXCEPT ![t].pc = <<"acquire", p>>,
                           ![t].ks = <<<<"wake", p>>, <<"wakeup", Arg(h) \ {p}>>>> \o @]
     /\ UNCHANGED <<reg, cpus, lock, tf, upc, pstate, ticked>>
  \/ /\ At(h, "wake")
     /\ pstate' = [pstate EXCEPT ![Arg(h)] = IF @ = "SLEEPING" THEN "RUNNABLE" ELSE @]
     /\ Goto(t, <<"release", Arg(h)>>)
     /\ UNCHANGED <<reg, cpus, lock, tf, upc, ticked>>

-----------------------------------------------------------------------------
HartStep(h) ==
  \/ push_off1(h) \/ push_off2(h) \/ acquire(h) \/ release(h)
  \/ yield(h) \/ sched(h) \/ sched2(h) \/ scheduler(h) \/ sleep(h)
  \/ TrapFromUser(h) \/ uservec(h) \/ usertrap(h) \/ usertrap2(h) \/ sys_sleep(h)
  \/ usertrapret(h) \/ userret(h)
  \/ kernelvec(h) \/ kerneltrap(h) \/ kerneltrap2(h) \/ kernelvec_end(h)
  \/ devintr(h) \/ wakeup(h)

TrapNext == \E h \in Harts : HartStep(h)

TrapSpec == TrapInit /\ [][TrapNext]_trapvars

-----------------------------------------------------------------------------
\* The panics of spinlock.c, trap.c and sched().
TrapPanics(h) ==
  \/ At(h, "spin") /\ holding(h, Arg(h))
  \/ At(h, "release") /\ (~holding(h, Arg(h)) \/ reg[h].sie \/ mycpu(h).noff < 1)
  \/ At(h, "sched") /\ \/ ~holding(h, Me(h)) \/ mycpu(h).noff # 1
                       \/ pstate[Me(h)] = "RUNNING" \/ reg[h].sie
  \/ At(h, "usertrap") /\ reg[h].spp # "U"
  \/ At(h, "devintr") /\ th[Me(h)].frame # <<>> /\ (reg[h].spp # "S" \/ reg[h].sie)

\* Interrupts, preemption and migration never lead a lock, sched() or a
\* trap handler into a panic: a thread that is switched away finds its
\* nesting and its locks as it left them, on whatever CPU it goes on.
NoTrapPanic == \A h \in Harts : ~TrapPanics(h)

\* In the kernel tp names the CPU that runs, its scheduler and its process.
TpIsHart ==
  \A h \in Harts : ~InUser(h) =>
    /\ reg[h].tp = h
    /\ Me(h) \in KProcs => cpus[h].proc = Me(h)
    /\ Me(h) \in Scheds => Me(h) = <<"sched", h>>

\* A trap returns to the code it interrupted, with interrupts as they were,
\* whatever other traps the CPU has seen meanwhile.
ResumesWhereInterrupted ==
  \A h \in Harts :
    /\ At(h, "sret") => reg[h].sepc = Head(th[Me(h)].frame).regs.pc /\ reg[h].spie
    /\ At(h, "userret") => reg[h].sepc = tf[Me(h)].want /\ reg[h].spp = "U"

\* No lock is held where an interrupt can come, interrupts do not nest in
\* the kernel, so that a kernel stack has room, and no CPU runs kernel code
\* while traps would go to uservec.
InterruptsContained ==
  /\ \A h \in Harts : reg[h].sie /\ ~InUser(h) =>
       cpus[h].noff = 0 /\ reg[h].stvec = "kernelvec" /\ \A l \in Locks : lock[l] # h
  /\ \A t \in Threads : Len(th[t].frame) <= 1

\* What a trap handler and sched() leave as they found it.
TrapInv == TpIsHart /\ ResumesWhereInterrupted /\ InterruptsContained
=============================================================================
