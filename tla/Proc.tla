-------------------------------- MODULE Proc --------------------------------
(***************************************************************************)
(* Processes of xv6 (kernel/proc.c): fork, exit, wait, kill, yield, the    *)
(* per-CPU scheduler and the context switches between them, with the       *)
(* process locks p->lock and wait_lock.                                    *)
(*                                                                         *)
(* A step is a critical section, or the part of one before or after a      *)
(* swtch: p->lock is held across a swtch, taken on one stack and released  *)
(* on the other.  A lock belongs to a CPU.  wakeup() and the scans of wait *)
(* and kill go through the table one p->lock at a time; as a sleeper in    *)
(* wait and an exiting child both need wait_lock, which the caller holds,  *)
(* the scan of wait and the wakeups of exit are single steps here.         *)
(***************************************************************************)
EXTENDS Naturals, FiniteSets

CONSTANTS Procs,       \* slots of the process table
          CPUs,
          InitProc,    \* the slot of the first process, initproc
          None,        \* no process, no CPU, no channel (0)
          MaxPid,      \* bound of the model on the pids given out
          KillPids     \* the arguments user programs give to kill

ASSUME ProcAssumption ==
  /\ InitProc \in Procs
  /\ None \notin Procs \cup CPUs
  /\ MaxPid \in Nat \ {0}
  /\ KillPids \subseteq 0..MaxPid

VARIABLES state,       \* p->state
          parent,      \* p->parent
          chan,        \* p->chan; a process in wait sleeps on itself
          killed,      \* p->killed
          pid,         \* p->pid
          nextpid,
          plock,       \* the CPU that holds p->lock
          wlock,       \* the CPU that holds wait_lock
          cproc,       \* c->proc
          onstack,     \* the CPU runs on the kernel stack of c->proc
          pc,          \* where the kernel thread of a process is
          back,        \* where it goes on when it is switched to again
          np,          \* the child that a process in fork is making
          targets,     \* pids that kill was called with (history)
          panicked     \* the kernel has panicked

table == <<state, parent, chan, killed, pid, nextpid>>
vars == <<state, parent, chan, killed, pid, nextpid, plock, wlock, cproc,
          onstack, pc, back, np, targets, panicked>>

States == {"UNUSED", "USED", "SLEEPING", "RUNNABLE", "RUNNING", "ZOMBIE"}

\* "sched": about to call swtch; "resume": swtch will return into the end of
\* yield, forkret or sleep.
PCs == {"user", "fork2", "fork3", "exit", "exit2", "sched", "resume",
        "wait", "waitsleep", "zombie"}

\* Kernel places at which no lock is held, so that interrupts are on.
Preemptible == {"user", "fork2", "fork3", "exit", "wait"}

TypeOK ==
  /\ state \in [Procs -> States]
  /\ parent \in [Procs -> Procs \cup {None}]
  /\ chan \in [Procs -> Procs \cup {None}]
  /\ killed \in [Procs -> BOOLEAN]
  /\ pid \in [Procs -> 0..MaxPid]
  /\ nextpid \in 1..MaxPid + 1
  /\ plock \in [Procs -> CPUs \cup {None}]
  /\ wlock \in CPUs \cup {None}
  /\ cproc \in [CPUs -> Procs \cup {None}]
  /\ onstack \in [CPUs -> BOOLEAN]
  /\ pc \in [Procs -> PCs]
  /\ back \in [Procs -> Preemptible]
  /\ np \in [Procs -> Procs \cup {None}]
  /\ targets \subseteq 0..MaxPid
  /\ panicked \in BOOLEAN

\* procinit and userinit: one process, RUNNABLE, about to start at forkret.
Init ==
  /\ state = [p \in Procs |-> IF p = InitProc THEN "RUNNABLE" ELSE "UNUSED"]
  /\ parent = [p \in Procs |-> None]
  /\ chan = [p \in Procs |-> None]
  /\ killed = [p \in Procs |-> FALSE]
  /\ pid = [p \in Procs |-> IF p = InitProc THEN 1 ELSE 0]
  /\ nextpid = 2
  /\ plock = [p \in Procs |-> None]
  /\ wlock = None
  /\ cproc = [c \in CPUs |-> None]
  /\ onstack = [c \in CPUs |-> FALSE]
  /\ pc = [p \in Procs |-> "resume"]
  /\ back = [p \in Procs |-> "user"]
  /\ np = [p \in Procs |-> None]
  /\ targets = {}
  /\ panicked = FALSE

\* CPU c executes the kernel thread of p, which is at place.
Running(c, p, place) == ~panicked /\ cproc[c] = p /\ onstack[c] /\ pc[p] = place

Goto(p, place) == pc' = [pc EXCEPT ![p] = place]

Acquire(c, p) == plock[p] = None /\ plock' = [plock EXCEPT ![p] = c]

Release(c, p) == plock' = [plock EXCEPT ![p] = None]

-----------------------------------------------------------------------------
(* The scheduler and the switches *)

\* scheduler(): takes the lock of a RUNNABLE process and switches to it.
Schedule(c, p) ==
  /\ ~panicked /\ cproc[c] = None
  /\ state[p] = "RUNNABLE"
  /\ Acquire(c, p)
  /\ state' = [state EXCEPT ![p] = "RUNNING"]
  /\ cproc' = [cproc EXCEPT ![c] = p]
  /\ onstack' = [onstack EXCEPT ![c] = TRUE]
  /\ UNCHANGED <<parent, chan, killed, pid, nextpid, wlock, pc, back, np,
                 targets,
                 panicked>>

\* The thread comes back from swtch in yield, forkret or sleep.
Resume(c, p) ==
  /\ Running(c, p, "resume")
  /\ chan' = [chan EXCEPT ![p] = None]
  /\ Release(c, p)
  /\ Goto(p, back[p])
  /\ back' = [back EXCEPT ![p] = "user"]
  /\ UNCHANGED <<state, parent, killed, pid, nextpid, wlock, cproc, onstack, np,
                 targets, panicked>>

\* A timer interrupt makes the process yield: in user mode, unless it is
\* killed (usertrap), and in the kernel while it holds no lock (kerneltrap).
yield(c, p) ==
  /\ \E place \in Preemptible : Running(c, p, place)
  /\ pc[p] = "user" => ~killed[p]
  /\ Acquire(c, p)
  /\ state' = [state EXCEPT ![p] = "RUNNABLE"]
  /\ Goto(p, "sched")
  /\ back' = [back EXCEPT ![p] = pc[p]]
  /\ UNCHANGED <<parent, chan, killed, pid, nextpid, wlock, cproc, onstack, np,
                 targets, panicked>>

\* swtch to the scheduler of this CPU, with p->lock held.
sched(c, p) ==
  /\ Running(c, p, "sched")
  /\ onstack' = [onstack EXCEPT ![c] = FALSE]
  /\ Goto(p, IF state[p] = "ZOMBIE" THEN "zombie" ELSE "resume")
  /\ UNCHANGED <<table, plock, wlock, cproc, back, np, targets, panicked>>

\* The scheduler, back from swtch, lets the process go.
Switched(c, p) ==
  /\ ~panicked /\ cproc[c] = p /\ ~onstack[c]
  /\ cproc' = [cproc EXCEPT ![c] = None]
  /\ Release(c, p)
  /\ UNCHANGED <<table, wlock, onstack, pc, back, np, targets, panicked>>

-----------------------------------------------------------------------------
(* fork *)

\* allocpid
NewPid == nextpid

KilledForever(q) == killed

\* freeproc leaves no kill behind for the next process in the slot.
ClearKilled(q) == [killed EXCEPT ![q] = FALSE]

\* allocproc finds slot q: its lock is free and the slot UNUSED.
Allocatable(q) == state[q] = "UNUSED" /\ plock[q] = None

\* allocproc finds a free slot and the copying succeeds or runs out of
\* memory, all with the child's lock held.
fork(c, p, q) ==
  /\ Running(c, p, "user") /\ ~killed[p]
  /\ Allocatable(q)
  /\ nextpid <= MaxPid
  /\ nextpid' = nextpid + 1
  /\ \/ /\ state' = [state EXCEPT ![q] = "USED"]
        /\ pid' = [pid EXCEPT ![q] = NewPid]
        /\ np' = [np EXCEPT ![p] = q]
        /\ pc' = [pc EXCEPT ![p] = "fork2", ![q] = "resume"]
        /\ back' = [back EXCEPT ![q] = "user"]
        /\ UNCHANGED <<chan, killed, parent>>
     \/ /\ chan' = [chan EXCEPT ![q] = None]
        /\ killed' = ClearKilled(q)
        /\ UNCHANGED <<state, pid, parent, np, pc, back>>
  /\ UNCHANGED <<plock, wlock, cproc, onstack, targets, panicked>>

fork2(c, p) ==
  /\ Running(c, p, "fork2")
  /\ wlock = None
  /\ parent' = [parent EXCEPT ![np[p]] = p]
  /\ Goto(p, "fork3")
  /\ UNCHANGED <<state, chan, killed, pid, nextpid, plock, wlock, cproc,
                 onstack,
                 back, np, targets, panicked>>

fork3(c, p) ==
  /\ Running(c, p, "fork3")
  /\ plock[np[p]] = None
  /\ state' = [state EXCEPT ![np[p]] = "RUNNABLE"]
  /\ np' = [np EXCEPT ![p] = None]
  /\ Goto(p, "user")
  /\ UNCHANGED <<parent, chan, killed, pid, nextpid, plock, wlock, cproc,
                 onstack,
                 back, targets, panicked>>

-----------------------------------------------------------------------------
(* exit *)

\* A process calls exit, or a trap finds it killed.
SysExit(c, p) ==
  /\ Running(c, p, "user")
  /\ p # InitProc \/ killed[p]
  /\ panicked' = (p = InitProc)
  /\ Goto(p, "exit")
  /\ UNCHANGED <<table, plock, wlock, cproc, onstack, back, np, targets>>

Children(p) == {q \in Procs : parent[q] = p}

NoWakeSleepers(sleepers) == state

WakeSleepers(sleepers) ==
  [q \in Procs |-> IF q \in sleepers THEN "RUNNABLE" ELSE state[q]]

\* Processes asleep on one of these channels.
Asleep(chans) == {q \in Procs : state[q] = "SLEEPING" /\ chan[q] \in chans}

NoReparent(p) == parent

\* The children of p go to init.
Reparent(p) == [q \in Procs |-> IF parent[q] = p THEN InitProc ELSE parent[q]]

\* wait_lock, reparent and the wakeups of init and of the parent.
exit(c, p) ==
  /\ Running(c, p, "exit")
  /\ wlock = None
  /\ LET chans == {parent[p]} \cup IF Children(p) = {} THEN {} ELSE {InitProc}
         sleepers == Asleep(chans) \ {p}
     IN  /\ \A q \in sleepers : plock[q] = None
         /\ state' = WakeSleepers(sleepers)
  /\ wlock' = c
  /\ parent' = Reparent(p)
  /\ Goto(p, "exit2")
  /\ UNCHANGED <<chan, killed, pid, nextpid, plock, cproc, onstack, back, np,
                 targets, panicked>>

\* release(&wait_lock) before the last sched().
DropWaitLock(c) == None

\* ZOMBIE is set with both locks held, so that wait cannot reap the process
\* before the scheduler has left its stack.
exit2(c, p) ==
  /\ Running(c, p, "exit2")
  /\ Acquire(c, p)
  /\ state' = [state EXCEPT ![p] = "ZOMBIE"]
  /\ wlock' = DropWaitLock(c)
  /\ Goto(p, "sched")
  /\ UNCHANGED <<parent, chan, killed, pid, nextpid, cproc, onstack, back, np,
                 targets, panicked>>

-----------------------------------------------------------------------------
(* wait *)

SysWait(c, p) ==
  /\ Running(c, p, "user") /\ ~killed[p]
  /\ Goto(p, "wait")
  /\ UNCHANGED <<table, plock, wlock, cproc, onstack, back, np, targets,
                 panicked>>

LocklessReap(c, q) == state[q] = "ZOMBIE"

\* wait acquires pp->lock to look at the state of a child.
CanReap(c, q) == state[q] = "ZOMBIE" /\ plock[q] = None

\* wait finds an exited child: freeproc, or a fault in copyout.
Reap(c, p, q) ==
  /\ Running(c, p, "wait") /\ wlock = None
  /\ parent[q] = p /\ CanReap(c, q)
  /\ Goto(p, "user")
  /\ \/ /\ state' = [state EXCEPT ![q] = "UNUSED"]
        /\ parent' = [parent EXCEPT ![q] = None]
        /\ chan' = [chan EXCEPT ![q] = None]
        /\ killed' = ClearKilled(q)
        /\ pid' = [pid EXCEPT ![q] = 0]
     \/ UNCHANGED <<state, parent, chan, killed, pid>>
  /\ UNCHANGED <<nextpid, plock, wlock, cproc, onstack, back, np, targets,
                 panicked>>

\* No child has exited: give up, or go to sleep keeping wait_lock for now.
NoneExited(c, p) ==
  /\ Running(c, p, "wait") /\ wlock = None
  /\ \A q \in Children(p) : state[q] # "ZOMBIE" /\ plock[q] = None
  /\ IF Children(p) = {} \/ killed[p]
     THEN Goto(p, "user") /\ UNCHANGED wlock
     ELSE Goto(p, "waitsleep") /\ wlock' = c
  /\ UNCHANGED <<table, plock, cproc, onstack, back, np, targets, panicked>>

\* sleep(p, &wait_lock)
sleep(c, p) ==
  /\ Running(c, p, "waitsleep")
  /\ Acquire(c, p)
  /\ wlock' = None
  /\ chan' = [chan EXCEPT ![p] = p]
  /\ state' = [state EXCEPT ![p] = "SLEEPING"]
  /\ Goto(p, "sched")
  /\ back' = [back EXCEPT ![p] = "wait"]
  /\ UNCHANGED <<parent, killed, pid, nextpid, cproc, onstack, np, targets,
                 panicked>>

-----------------------------------------------------------------------------
\* kill(k), called by a process that is running.
kill(c, p, k) ==
  /\ Running(c, p, "user") /\ ~killed[p]
  /\ \E q \in Procs :
       /\ pid[q] = k /\ plock[q] = None
       /\ killed' = [killed EXCEPT ![q] = TRUE]
       /\ state' = WakeSleepers({q} \cap {r \in Procs : state[r] = "SLEEPING"})
  /\ targets' = targets \cup {k}
  /\ UNCHANGED <<parent, chan, pid, nextpid, plock, wlock, cproc, onstack, pc,
                 back, np, panicked>>

-----------------------------------------------------------------------------
\* Steps a CPU takes by itself in the kernel.
Kernel(c, p) == \/ Resume(c, p) \/ sched(c, p) \/ Switched(c, p)
                \/ fork2(c, p) \/ fork3(c, p)
                \/ exit(c, p) \/ exit2(c, p)
                \/ (\E q \in Procs : Reap(c, p, q))
                \/ NoneExited(c, p) \/ sleep(c, p)

\* What user programs ask for.
User(c, p) == \/ \E q \in Procs : fork(c, p, q)
              \/ SysExit(c, p) \/ SysWait(c, p)
              \/ \E k \in KillPids : kill(c, p, k)

\* panic() stops every CPU.
Halted == panicked /\ UNCHANGED vars

Next == \/ \E c \in CPUs, p \in Procs :
             Schedule(c, p) \/ Kernel(c, p) \/ yield(c, p) \/ User(c, p)
        \/ Halted

Spec == Init /\ [][Next]_vars

-----------------------------------------------------------------------------
(* Properties *)

OnStack(p) == {c \in CPUs : cproc[c] = p /\ onstack[c]}

\* No kernel stack is used by two CPUs, and none while its process is not
\* RUNNING and not locked: a process that has yielded, gone to sleep or
\* exited is picked up or reaped only when its CPU has left its stack.
OneStackOneCPU ==
  \A p \in Procs :
    /\ Cardinality(OnStack(p)) <= 1
    /\ OnStack(p) # {} =>
         /\ state[p] # "UNUSED"
         /\ state[p] = "RUNNING" \/ plock[p] \in OnStack(p)

\* sched() does not panic: the CPU holds p->lock and no other lock.
SchedLocks ==
  \A c \in CPUs, p \in Procs : Running(c, p, "sched") =>
    /\ plock[p] = c
    /\ wlock # c
    /\ state[p] # "RUNNING"
    /\ \A q \in Procs \ {p} : plock[q] # c

\* Every process that can exit has a parent to reap it: the parent is in
\* the table and has not itself exited.
NoOrphans ==
  wlock = None =>
    \A p \in Procs \ {InitProc} :
      state[p] \in {"SLEEPING", "RUNNABLE", "RUNNING", "ZOMBIE"} =>
        parent[p] # None /\ state[parent[p]] \notin {"UNUSED", "USED", "ZOMBIE"}

\* A process does not sleep in wait with an exited child, whatever the order
\* in which the child exits and the parent goes to sleep.
NoMissedExit ==
  wlock = None =>
    \A p, q \in Procs :
      state[p] = "SLEEPING" /\ parent[q] = p => state[q] # "ZOMBIE"

\* Only a process whose pid was passed to kill is marked killed.
KilledByPid ==
  \A p \in Procs : killed[p] => pid[p] \in targets

\* The invariant of the process table: no stack is shared, and whoever gives
\* up the CPU holds the one lock that sched() asks for.
ProcInv == TypeOK /\ SchedLocks /\ OneStackOneCPU
=============================================================================
