----------------------------- MODULE ProcProofs -----------------------------
(***************************************************************************)
(* Proofs about kernel/proc.c (Proc), for any number of processes, CPUs    *)
(* and pids: no kernel stack is shared and sched() never panics, nobody    *)
(* sleeps in wait with an exited child, nobody who can exit is without a   *)
(* parent, and, unless kill is called with 0, only the process whose pid   *)
(* was given is marked killed.                                             *)
(*                                                                         *)
(* None of these is inductive: each depends on which CPU may hold which    *)
(* lock at which place of the code.  The parts of the inductive invariant  *)
(* are one per idea, and each is proved by a lemma of its own.             *)
(***************************************************************************)
EXTENDS Proc, FiniteSetTheorems, TLAPS

\* The states of a process that has started and has not exited.
Active == {"SLEEPING", "RUNNABLE", "RUNNING"}

\* Where a process is, or will go on when it is switched to.
Place(p) == IF pc[p] \in {"sched", "resume"} THEN back[p] ELSE pc[p]

\* c->proc is nobody else's, and what it is doing says who holds its lock:
\* the CPU across the two halves of a swtch.
StackInv ==
  /\ \A c, d \in CPUs : cproc[c] = cproc[d] /\ cproc[c] # None => c = d
  /\ \A c \in CPUs, p \in Procs : cproc[c] = p /\ onstack[c] =>
       /\ state[p] = "RUNNING" \/ pc[p] = "sched"
       /\ pc[p] \in {"sched", "resume"} => plock[p] = c
  /\ \A c \in CPUs, p \in Procs : cproc[c] = p /\ ~onstack[c] =>
       /\ plock[p] = c
       /\ pc[p] \in {"resume", "zombie"}
       /\ state[p] \in {"RUNNABLE", "SLEEPING", "ZOMBIE"}

\* p->lock outlives a step only across a swtch, on the CPU that p is on.
LockInv ==
  \A c \in CPUs, p \in Procs : plock[p] = c =>
    /\ cproc[c] = p
    /\ onstack[c] => pc[p] \in {"sched", "resume"}

\* The state of a process says where it stopped.
ParkInv ==
  \A p \in Procs :
    /\ pc[p] = "sched" =>
         plock[p] # None /\ state[p] \in {"RUNNABLE", "SLEEPING", "ZOMBIE"}
    /\ state[p] = "RUNNING" => pc[p] # "zombie"
    /\ state[p] = "RUNNABLE" => pc[p] \in {"sched", "resume"}
    /\ state[p] = "USED" => pc[p] = "resume" /\ back[p] = "user"
    /\ state[p] = "SLEEPING" =>
         pc[p] \in {"sched", "resume"} /\ back[p] = "wait" /\ chan[p] = p
    /\ state[p] = "ZOMBIE" => pc[p] \in {"sched", "zombie"}
    /\ state[p] = "UNUSED" => pc[p] \in {"resume", "zombie"}
    /\ back[p] # "user" => pc[p] \in {"sched", "resume"}
    /\ back[p] # "user" => state[p] \in Active

\* wait_lock outlives a step only between the two halves of exit and of the
\* sleep in wait, and whoever is there has it.
WaitLockInv ==
  /\ \A c \in CPUs : wlock = c =>
       /\ cproc[c] \in Procs
       /\ onstack[c]
       /\ pc[cproc[c]] \in {"exit2", "waitsleep"}
  /\ \A p \in Procs : pc[p] \in {"exit2", "waitsleep"} =>
       wlock # None /\ cproc[wlock] = p

\* The child that a process in fork is making is nobody else's, and is in no
\* state that the other processes act on.
ForkInv ==
  /\ \A p \in Procs : Place(p) \in {"fork2", "fork3"} =>
       np[p] \in Procs /\ state[np[p]] = "USED"
  /\ \A p, q \in Procs :
       /\ Place(p) \in {"fork2", "fork3"}
       /\ Place(q) \in {"fork2", "fork3"}
       /\ np[p] = np[q]
       => p = q

\* A process asleep in wait, or about to be, has no exited child, nor one
\* that is past its wakeup.
WaitInv ==
  \A p, q \in Procs : parent[q] = p =>
    /\ state[p] = "SLEEPING" => state[q] # "ZOMBIE" /\ pc[q] # "exit2"
    /\ pc[p] = "waitsleep" => state[q] # "ZOMBIE"

\* init never exits without a panic.
InitInv ==
  /\ state[InitProc] \in Active
  /\ pc[InitProc] # "exit2"
  /\ Place(InitProc) = "exit" => panicked

\* A parent has neither exited nor given its children away.
ParentInv ==
  /\ \A p \in Procs : parent[p] # None =>
       state[parent[p]] \in Active /\ pc[parent[p]] # "exit2"
  /\ \A p \in Procs : Place(p) = "fork3" => parent[np[p]] = p
  /\ \A p \in Procs \ {InitProc} :
       state[p] \in Active \cup {"ZOMBIE"} => parent[p] # None

\* The slots that are free have no pid, and kill was called with the pids
\* of KillPids only.
PidInv ==
  /\ \A p \in Procs : state[p] = "UNUSED" => pid[p] = 0
  /\ targets \subseteq KillPids

\* The inductive invariant.
ProcIInv ==
  /\ TypeOK /\ StackInv /\ LockInv /\ ParkInv /\ WaitLockInv /\ ForkInv
  /\ WaitInv /\ InitInv /\ ParentInv /\ PidInv

-----------------------------------------------------------------------------
(* The parts of the invariant, one lemma each                              *)

\* Every step keeps the types.
LEMMA StepType ==
  ASSUME TypeOK, [Next]_vars
  PROVE  TypeOK'
  <1> USE ProcAssumption DEF ProcAssumption
  <1>1. ASSUME NEW c \in CPUs, NEW p \in Procs, Schedule(c, p)
        PROVE  TypeOK'
    BY <1>1 DEF Schedule, Acquire, TypeOK, States, PCs, Preemptible
  <1>2. ASSUME NEW c \in CPUs, NEW p \in Procs, Resume(c, p)
        PROVE  TypeOK'
    BY <1>2 DEF Resume, Running, Goto, Release, TypeOK, States, PCs,
           Preemptible
  <1>3. ASSUME NEW c \in CPUs, NEW p \in Procs, yield(c, p)
        PROVE  TypeOK'
    BY <1>3 DEF yield, Running, Goto, Acquire, TypeOK, States, PCs,
           Preemptible
  <1>4. ASSUME NEW c \in CPUs, NEW p \in Procs, sched(c, p)
        PROVE  TypeOK'
    BY <1>4 DEF sched, Running, Goto, table, TypeOK, States, PCs, Preemptible
  <1>5. ASSUME NEW c \in CPUs, NEW p \in Procs, Switched(c, p)
        PROVE  TypeOK'
    BY <1>5 DEF Switched, Release, table, TypeOK, States, PCs, Preemptible
  <1>6. ASSUME NEW c \in CPUs, NEW p \in Procs, NEW q \in Procs, fork(c, p, q)
        PROVE  TypeOK'
    <2>1. CASE /\ state' = [state EXCEPT ![q] = "USED"]
               /\ pid' = [pid EXCEPT ![q] = NewPid]
               /\ np' = [np EXCEPT ![p] = q]
               /\ pc' = [pc EXCEPT ![p] = "fork2", ![q] = "resume"]
               /\ back' = [back EXCEPT ![q] = "user"]
               /\ UNCHANGED <<chan, killed, parent>>
      BY <1>6, <2>1 DEF fork, Running, Allocatable, NewPid, ClearKilled,
         TypeOK, States, PCs, Preemptible
    <2>2. CASE /\ chan' = [chan EXCEPT ![q] = None]
               /\ killed' = ClearKilled(q)
               /\ UNCHANGED <<state, pid, parent, np, pc, back>>
      BY <1>6, <2>2 DEF fork, Running, Allocatable, NewPid, ClearKilled,
         TypeOK, States, PCs, Preemptible
    <2> QED BY <1>6, <2>1, <2>2 DEF fork
  <1>7. ASSUME NEW c \in CPUs, NEW p \in Procs, fork2(c, p)
        PROVE  TypeOK'
    BY <1>7 DEF fork2, Running, Goto, TypeOK, States, PCs, Preemptible
  <1>8. ASSUME NEW c \in CPUs, NEW p \in Procs, fork3(c, p)
        PROVE  TypeOK'
    BY <1>8 DEF fork3, Running, Goto, TypeOK, States, PCs, Preemptible
  <1>9. ASSUME NEW c \in CPUs, NEW p \in Procs, SysExit(c, p)
        PROVE  TypeOK'
    BY <1>9 DEF SysExit, Running, Goto, table, TypeOK, States, PCs,
           Preemptible
  <1>10. ASSUME NEW c \in CPUs, NEW p \in Procs, exit(c, p)
        PROVE  TypeOK'
    BY <1>10 DEF exit, Running, Goto, Asleep, WakeSleepers, Reparent, TypeOK,
           States, PCs, Preemptible
  <1>11. ASSUME NEW c \in CPUs, NEW p \in Procs, exit2(c, p)
        PROVE  TypeOK'
    BY <1>11 DEF exit2, Running, Goto, Acquire, DropWaitLock, TypeOK, States,
           PCs, Preemptible
  <1>12. ASSUME NEW c \in CPUs, NEW p \in Procs, SysWait(c, p)
        PROVE  TypeOK'
    BY <1>12 DEF SysWait, Running, Goto, table, TypeOK, States, PCs,
           Preemptible
  <1>13. ASSUME NEW c \in CPUs, NEW p \in Procs, NEW q \in Procs, Reap(c, p, q)
        PROVE  TypeOK'
    <2>1. CASE UNCHANGED <<state, parent, chan, killed, pid>>
      BY <1>13, <2>1 DEF Reap, Running, Goto, CanReap, TypeOK, States, PCs
    <2>2. CASE /\ state' = [state EXCEPT ![q] = "UNUSED"]
               /\ parent' = [parent EXCEPT ![q] = None]
               /\ chan' = [chan EXCEPT ![q] = None]
               /\ killed' = ClearKilled(q)
               /\ pid' = [pid EXCEPT ![q] = 0]
      BY <1>13, <2>2 DEF Reap, Running, Goto, CanReap, ClearKilled, TypeOK, States, PCs
    <2> QED BY <1>13, <2>1, <2>2 DEF Reap
  <1>14. ASSUME NEW c \in CPUs, NEW p \in Procs, NoneExited(c, p)
        PROVE  TypeOK'
    BY <1>14 DEF NoneExited, Running, Goto, Children, table, TypeOK, States,
           PCs, Preemptible
  <1>15. ASSUME NEW c \in CPUs, NEW p \in Procs, sleep(c, p)
        PROVE  TypeOK'
    BY <1>15 DEF sleep, Running, Goto, Acquire, TypeOK, States, PCs,
           Preemptible
  <1>16. ASSUME NEW c \in CPUs, NEW p \in Procs, NEW k \in KillPids, kill(c, p, k)
        PROVE  TypeOK'
    BY <1>16 DEF kill, Running, WakeSleepers, TypeOK, States, PCs, Preemptible
  <1>17. CASE UNCHANGED vars
    BY <1>17 DEF vars, TypeOK, States, PCs, Preemptible
  <1> QED BY <1>1, <1>2, <1>3, <1>4, <1>5, <1>6, <1>7, <1>8, <1>9, <1>10,
         <1>11, <1>12, <1>13, <1>14, <1>15, <1>16, <1>17
          DEF Next, Kernel, User, Halted

\* No two CPUs run one process, and a swtch keeps the lock.
LEMMA StepStack ==
  ASSUME TypeOK, StackInv, LockInv, ParkInv, ForkInv, [Next]_vars
  PROVE  StackInv'
  <1> USE ProcAssumption DEF ProcAssumption
  <1>1. ASSUME NEW c \in CPUs, NEW p \in Procs, Schedule(c, p)
        PROVE  StackInv'
    BY <1>1 DEF Schedule, Acquire, TypeOK, StackInv, LockInv, ParkInv,
           ForkInv, Place, Preemptible
  <1>2. ASSUME NEW c \in CPUs, NEW p \in Procs, Resume(c, p)
        PROVE  StackInv'
    BY <1>2 DEF Resume, Running, Goto, Release, TypeOK, StackInv, LockInv,
           ParkInv, ForkInv, Place, Preemptible
  <1>3. ASSUME NEW c \in CPUs, NEW p \in Procs, yield(c, p)
        PROVE  StackInv'
    BY <1>3 DEF yield, Running, Goto, Acquire, TypeOK, StackInv, LockInv,
           ParkInv, ForkInv, Place, Preemptible
  <1>4. ASSUME NEW c \in CPUs, NEW p \in Procs, sched(c, p)
        PROVE  StackInv'
    BY <1>4 DEF sched, Running, Goto, table, TypeOK, StackInv, LockInv,
           ParkInv, ForkInv, Place, Preemptible
  <1>5. ASSUME NEW c \in CPUs, NEW p \in Procs, Switched(c, p)
        PROVE  StackInv'
    BY <1>5 DEF Switched, Release, table, TypeOK, StackInv, LockInv, ParkInv,
           ForkInv, Place, Preemptible
  <1>6. ASSUME NEW c \in CPUs, NEW p \in Procs, NEW q \in Procs, fork(c, p, q)
        PROVE  StackInv'
    BY <1>6 DEF fork, Running, Allocatable, NewPid, ClearKilled, TypeOK,
           StackInv, LockInv, ParkInv, ForkInv, Place, Preemptible
  <1>7. ASSUME NEW c \in CPUs, NEW p \in Procs, fork2(c, p)
        PROVE  StackInv'
    BY <1>7 DEF fork2, Running, Goto, TypeOK, StackInv, LockInv, ParkInv,
           ForkInv, Place, Preemptible
  <1>8. ASSUME NEW c \in CPUs, NEW p \in Procs, fork3(c, p)
        PROVE  StackInv'
    BY <1>8 DEF fork3, Running, Goto, TypeOK, StackInv, LockInv, ParkInv,
           ForkInv, Place, Preemptible
  <1>9. ASSUME NEW c \in CPUs, NEW p \in Procs, SysExit(c, p)
        PROVE  StackInv'
    BY <1>9 DEF SysExit, Running, Goto, table, TypeOK, StackInv, LockInv,
           ParkInv, ForkInv, Place, Preemptible
  <1>10. ASSUME NEW c \in CPUs, NEW p \in Procs, exit(c, p)
        PROVE  StackInv'
    BY <1>10 DEF exit, Running, Goto, Asleep, WakeSleepers, Reparent, TypeOK,
           StackInv, LockInv, ParkInv, ForkInv, Place, Preemptible
  <1>11. ASSUME NEW c \in CPUs, NEW p \in Procs, exit2(c, p)
        PROVE  StackInv'
    BY <1>11 DEF exit2, Running, Goto, Acquire, DropWaitLock, TypeOK,
           StackInv, LockInv, ParkInv, ForkInv, Place, Preemptible
  <1>12. ASSUME NEW c \in CPUs, NEW p \in Procs, SysWait(c, p)
        PROVE  StackInv'
    BY <1>12 DEF SysWait, Running, Goto, table, TypeOK, StackInv, LockInv,
           ParkInv, ForkInv, Place, Preemptible
  <1>13. ASSUME NEW c \in CPUs, NEW p \in Procs, NEW q \in Procs, Reap(c, p, q)
        PROVE  StackInv'
    BY <1>13 DEF Reap, Running, Goto, CanReap, ClearKilled, TypeOK, StackInv,
           LockInv, ParkInv, ForkInv, Place, Preemptible
  <1>14. ASSUME NEW c \in CPUs, NEW p \in Procs, NoneExited(c, p)
        PROVE  StackInv'
    BY <1>14 DEF NoneExited, Running, Goto, Children, table, TypeOK, StackInv,
           LockInv, ParkInv, ForkInv, Place, Preemptible
  <1>15. ASSUME NEW c \in CPUs, NEW p \in Procs, sleep(c, p)
        PROVE  StackInv'
    BY <1>15 DEF sleep, Running, Goto, Acquire, TypeOK, StackInv, LockInv,
           ParkInv, ForkInv, Place, Preemptible
  <1>16. ASSUME NEW c \in CPUs, NEW p \in Procs, NEW k \in KillPids, kill(c, p, k)
        PROVE  StackInv'
    BY <1>16 DEF kill, Running, WakeSleepers, TypeOK, StackInv, LockInv,
           ParkInv, ForkInv, Place, Preemptible
  <1>17. CASE UNCHANGED vars
    BY <1>17 DEF vars, TypeOK, StackInv, LockInv, ParkInv, ForkInv, Place,
           Preemptible
  <1> QED BY <1>1, <1>2, <1>3, <1>4, <1>5, <1>6, <1>7, <1>8, <1>9, <1>10,
         <1>11, <1>12, <1>13, <1>14, <1>15, <1>16, <1>17
          DEF Next, Kernel, User, Halted

\* A lock that is kept is kept across a swtch.
LEMMA StepLock ==
  ASSUME TypeOK, StackInv, LockInv, ParkInv, ForkInv, [Next]_vars
  PROVE  LockInv'
  <1> USE ProcAssumption DEF ProcAssumption
  <1>1. ASSUME NEW c \in CPUs, NEW p \in Procs, Schedule(c, p)
        PROVE  LockInv'
    BY <1>1 DEF Schedule, Acquire, TypeOK, StackInv, LockInv, ParkInv,
           Preemptible
  <1>2. ASSUME NEW c \in CPUs, NEW p \in Procs, Resume(c, p)
        PROVE  LockInv'
    BY <1>2 DEF Resume, Running, Goto, Release, TypeOK, StackInv, LockInv,
           ParkInv, Preemptible
  <1>3. ASSUME NEW c \in CPUs, NEW p \in Procs, yield(c, p)
        PROVE  LockInv'
    BY <1>3 DEF yield, Running, Goto, Acquire, TypeOK, StackInv, LockInv,
           ParkInv, Preemptible
  <1>4. ASSUME NEW c \in CPUs, NEW p \in Procs, sched(c, p)
        PROVE  LockInv'
    BY <1>4 DEF sched, Running, Goto, table, TypeOK, StackInv, LockInv,
           ParkInv, Preemptible
  <1>5. ASSUME NEW c \in CPUs, NEW p \in Procs, Switched(c, p)
        PROVE  LockInv'
    BY <1>5 DEF Switched, Release, table, TypeOK, StackInv, LockInv, ParkInv,
           Preemptible
  <1>6. ASSUME NEW c \in CPUs, NEW p \in Procs, NEW q \in Procs, fork(c, p, q)
        PROVE  LockInv'
    BY <1>6 DEF fork, Running, Allocatable, NewPid, ClearKilled, TypeOK,
           StackInv, LockInv, ParkInv, Preemptible
  <1>7. ASSUME NEW c \in CPUs, NEW p \in Procs, fork2(c, p)
        PROVE  LockInv'
    BY <1>7 DEF fork2, Running, Goto, TypeOK, StackInv, LockInv, ParkInv,
           Preemptible
  <1>8. ASSUME NEW c \in CPUs, NEW p \in Procs, fork3(c, p)
        PROVE  LockInv'
    BY <1>8 DEF fork3, Running, Goto, TypeOK, StackInv, LockInv, ParkInv,
           Preemptible
  <1>9. ASSUME NEW c \in CPUs, NEW p \in Procs, SysExit(c, p)
        PROVE  LockInv'
    BY <1>9 DEF SysExit, Running, Goto, table, TypeOK, StackInv, LockInv,
           ParkInv, Preemptible
  <1>10. ASSUME NEW c \in CPUs, NEW p \in Procs, exit(c, p)
        PROVE  LockInv'
    BY <1>10 DEF exit, Running, Goto, Asleep, WakeSleepers, Reparent, TypeOK,
           StackInv, LockInv, ParkInv, Preemptible
  <1>11. ASSUME NEW c \in CPUs, NEW p \in Procs, exit2(c, p)
        PROVE  LockInv'
    BY <1>11 DEF exit2, Running, Goto, Acquire, DropWaitLock, TypeOK,
           StackInv, LockInv, ParkInv, Preemptible
  <1>12. ASSUME NEW c \in CPUs, NEW p \in Procs, SysWait(c, p)
        PROVE  LockInv'
    BY <1>12 DEF SysWait, Running, Goto, table, TypeOK, StackInv, LockInv,
           ParkInv, Preemptible
  <1>13. ASSUME NEW c \in CPUs, NEW p \in Procs, NEW q \in Procs, Reap(c, p, q)
        PROVE  LockInv'
    BY <1>13 DEF Reap, Running, Goto, CanReap, ClearKilled, TypeOK, StackInv,
           LockInv, ParkInv, Preemptible
  <1>14. ASSUME NEW c \in CPUs, NEW p \in Procs, NoneExited(c, p)
        PROVE  LockInv'
    BY <1>14 DEF NoneExited, Running, Goto, Children, table, TypeOK, StackInv,
           LockInv, ParkInv, Preemptible
  <1>15. ASSUME NEW c \in CPUs, NEW p \in Procs, sleep(c, p)
        PROVE  LockInv'
    BY <1>15 DEF sleep, Running, Goto, Acquire, TypeOK, StackInv, LockInv,
           ParkInv, Preemptible
  <1>16. ASSUME NEW c \in CPUs, NEW p \in Procs, NEW k \in KillPids, kill(c, p, k)
        PROVE  LockInv'
    BY <1>16 DEF kill, Running, WakeSleepers, TypeOK, StackInv, LockInv,
           ParkInv, Preemptible
  <1>17. CASE UNCHANGED vars
    BY <1>17 DEF vars, TypeOK, StackInv, LockInv, ParkInv, Preemptible
  <1> QED BY <1>1, <1>2, <1>3, <1>4, <1>5, <1>6, <1>7, <1>8, <1>9, <1>10,
         <1>11, <1>12, <1>13, <1>14, <1>15, <1>16, <1>17
          DEF Next, Kernel, User, Halted

\* Places and states agree.
LEMMA StepPark ==
  ASSUME TypeOK, StackInv, LockInv, ParkInv, ForkInv, [Next]_vars
  PROVE  ParkInv'
  <1> USE ProcAssumption DEF ProcAssumption
  <1>1. ASSUME NEW c \in CPUs, NEW p \in Procs, Schedule(c, p)
        PROVE  ParkInv'
    BY <1>1 DEF Schedule, Acquire, TypeOK, StackInv, LockInv, ParkInv,
           Preemptible, Active, ForkInv, Place
  <1>2. ASSUME NEW c \in CPUs, NEW p \in Procs, Resume(c, p)
        PROVE  ParkInv'
    BY <1>2 DEF Resume, Running, Goto, Release, TypeOK, StackInv, LockInv,
           ParkInv, Preemptible, Active, ForkInv, Place
  <1>3. ASSUME NEW c \in CPUs, NEW p \in Procs, yield(c, p)
        PROVE  ParkInv'
    BY <1>3 DEF yield, Running, Goto, Acquire, TypeOK, StackInv, LockInv,
           ParkInv, Preemptible, Active, ForkInv, Place
  <1>4. ASSUME NEW c \in CPUs, NEW p \in Procs, sched(c, p)
        PROVE  ParkInv'
    BY <1>4 DEF sched, Running, Goto, table, TypeOK, StackInv, LockInv,
           ParkInv, Preemptible, Active, ForkInv, Place
  <1>5. ASSUME NEW c \in CPUs, NEW p \in Procs, Switched(c, p)
        PROVE  ParkInv'
    BY <1>5 DEF Switched, Release, table, TypeOK, StackInv, LockInv, ParkInv,
           Preemptible, Active, ForkInv, Place
  <1>6. ASSUME NEW c \in CPUs, NEW p \in Procs, NEW q \in Procs, fork(c, p, q)
        PROVE  ParkInv'
    BY <1>6 DEF fork, Running, Allocatable, NewPid, ClearKilled, TypeOK,
           StackInv, LockInv, ParkInv, Preemptible, Active, ForkInv, Place
  <1>7. ASSUME NEW c \in CPUs, NEW p \in Procs, fork2(c, p)
        PROVE  ParkInv'
    BY <1>7 DEF fork2, Running, Goto, TypeOK, StackInv, LockInv, ParkInv,
           Preemptible, Active, ForkInv, Place
  <1>8. ASSUME NEW c \in CPUs, NEW p \in Procs, fork3(c, p)
        PROVE  ParkInv'
    BY <1>8 DEF fork3, Running, Goto, TypeOK, StackInv, LockInv, ParkInv,
           Preemptible, Active, ForkInv, Place
  <1>9. ASSUME NEW c \in CPUs, NEW p \in Procs, SysExit(c, p)
        PROVE  ParkInv'
    BY <1>9 DEF SysExit, Running, Goto, table, TypeOK, StackInv, LockInv,
           ParkInv, Preemptible, Active, ForkInv, Place
  <1>10. ASSUME NEW c \in CPUs, NEW p \in Procs, exit(c, p)
        PROVE  ParkInv'
    BY <1>10 DEF exit, Running, Goto, Asleep, WakeSleepers, Reparent, TypeOK,
           StackInv, LockInv, ParkInv, Preemptible, Active, ForkInv, Place
  <1>11. ASSUME NEW c \in CPUs, NEW p \in Procs, exit2(c, p)
        PROVE  ParkInv'
    BY <1>11 DEF exit2, Running, Goto, Acquire, DropWaitLock, TypeOK,
           StackInv, LockInv, ParkInv, Preemptible, Active, ForkInv, Place
  <1>12. ASSUME NEW c \in CPUs, NEW p \in Procs, SysWait(c, p)
        PROVE  ParkInv'
    BY <1>12 DEF SysWait, Running, Goto, table, TypeOK, StackInv, LockInv,
           ParkInv, Preemptible, Active, ForkInv, Place
  <1>13. ASSUME NEW c \in CPUs, NEW p \in Procs, NEW q \in Procs, Reap(c, p, q)
        PROVE  ParkInv'
    BY <1>13 DEF Reap, Running, Goto, CanReap, ClearKilled, TypeOK, StackInv,
           LockInv, ParkInv, Preemptible, Active, ForkInv, Place
  <1>14. ASSUME NEW c \in CPUs, NEW p \in Procs, NoneExited(c, p)
        PROVE  ParkInv'
    BY <1>14 DEF NoneExited, Running, Goto, Children, table, TypeOK, StackInv,
           LockInv, ParkInv, Preemptible, Active, ForkInv, Place
  <1>15. ASSUME NEW c \in CPUs, NEW p \in Procs, sleep(c, p)
        PROVE  ParkInv'
    BY <1>15 DEF sleep, Running, Goto, Acquire, TypeOK, StackInv, LockInv,
           ParkInv, Preemptible, Active, ForkInv, Place
  <1>16. ASSUME NEW c \in CPUs, NEW p \in Procs, NEW k \in KillPids, kill(c, p, k)
        PROVE  ParkInv'
    BY <1>16 DEF kill, Running, WakeSleepers, TypeOK, StackInv, LockInv,
           ParkInv, Preemptible, Active, ForkInv, Place
  <1>17. CASE UNCHANGED vars
    BY <1>17 DEF vars, TypeOK, StackInv, LockInv, ParkInv, Preemptible,
           Active, ForkInv, Place
  <1> QED BY <1>1, <1>2, <1>3, <1>4, <1>5, <1>6, <1>7, <1>8, <1>9, <1>10,
         <1>11, <1>12, <1>13, <1>14, <1>15, <1>16, <1>17
          DEF Next, Kernel, User, Halted

\* Whoever has wait_lock keeps it until it is done.
LEMMA StepWaitLock ==
  ASSUME TypeOK, StackInv, LockInv, ParkInv, WaitLockInv, [Next]_vars
  PROVE  WaitLockInv'
  <1> USE ProcAssumption DEF ProcAssumption
  <1>1. ASSUME NEW c \in CPUs, NEW p \in Procs, Schedule(c, p)
        PROVE  WaitLockInv'
    BY <1>1 DEF Schedule, Acquire, TypeOK, StackInv, LockInv, ParkInv,
           WaitLockInv, Preemptible
  <1>2. ASSUME NEW c \in CPUs, NEW p \in Procs, Resume(c, p)
        PROVE  WaitLockInv'
    BY <1>2 DEF Resume, Running, Goto, Release, TypeOK, StackInv, LockInv,
           ParkInv, WaitLockInv, Preemptible
  <1>3. ASSUME NEW c \in CPUs, NEW p \in Procs, yield(c, p)
        PROVE  WaitLockInv'
    BY <1>3 DEF yield, Running, Goto, Acquire, TypeOK, StackInv, LockInv,
           ParkInv, WaitLockInv, Preemptible
  <1>4. ASSUME NEW c \in CPUs, NEW p \in Procs, sched(c, p)
        PROVE  WaitLockInv'
    BY <1>4 DEF sched, Running, Goto, table, TypeOK, StackInv, LockInv,
           ParkInv, WaitLockInv, Preemptible
  <1>5. ASSUME NEW c \in CPUs, NEW p \in Procs, Switched(c, p)
        PROVE  WaitLockInv'
    BY <1>5 DEF Switched, Release, table, TypeOK, StackInv, LockInv, ParkInv,
           WaitLockInv, Preemptible
  <1>6. ASSUME NEW c \in CPUs, NEW p \in Procs, NEW q \in Procs, fork(c, p, q)
        PROVE  WaitLockInv'
    BY <1>6 DEF fork, Running, Allocatable, NewPid, ClearKilled, TypeOK,
           StackInv, LockInv, ParkInv, WaitLockInv, Preemptible
  <1>7. ASSUME NEW c \in CPUs, NEW p \in Procs, fork2(c, p)
        PROVE  WaitLockInv'
    BY <1>7 DEF fork2, Running, Goto, TypeOK, StackInv, LockInv, ParkInv,
           WaitLockInv, Preemptible
  <1>8. ASSUME NEW c \in CPUs, NEW p \in Procs, fork3(c, p)
        PROVE  WaitLockInv'
    BY <1>8 DEF fork3, Running, Goto, TypeOK, StackInv, LockInv, ParkInv,
           WaitLockInv, Preemptible
  <1>9. ASSUME NEW c \in CPUs, NEW p \in Procs, SysExit(c, p)
        PROVE  WaitLockInv'
    BY <1>9 DEF SysExit, Running, Goto, table, TypeOK, StackInv, LockInv,
           ParkInv, WaitLockInv, Preemptible
  <1>10. ASSUME NEW c \in CPUs, NEW p \in Procs, exit(c, p)
        PROVE  WaitLockInv'
    BY <1>10 DEF exit, Running, Goto, Asleep, WakeSleepers, Reparent, TypeOK,
           StackInv, LockInv, ParkInv, WaitLockInv, Preemptible
  <1>11. ASSUME NEW c \in CPUs, NEW p \in Procs, exit2(c, p)
        PROVE  WaitLockInv'
    BY <1>11 DEF exit2, Running, Goto, Acquire, DropWaitLock, TypeOK,
           StackInv, LockInv, ParkInv, WaitLockInv, Preemptible
  <1>12. ASSUME NEW c \in CPUs, NEW p \in Procs, SysWait(c, p)
        PROVE  WaitLockInv'
    BY <1>12 DEF SysWait, Running, Goto, table, TypeOK, StackInv, LockInv,
           ParkInv, WaitLockInv, Preemptible
  <1>13. ASSUME NEW c \in CPUs, NEW p \in Procs, NEW q \in Procs, Reap(c, p, q)
        PROVE  WaitLockInv'
    BY <1>13 DEF Reap, Running, Goto, CanReap, ClearKilled, TypeOK, StackInv,
           LockInv, ParkInv, WaitLockInv, Preemptible
  <1>14. ASSUME NEW c \in CPUs, NEW p \in Procs, NoneExited(c, p)
        PROVE  WaitLockInv'
    BY <1>14 DEF NoneExited, Running, Goto, Children, table, TypeOK, StackInv,
           LockInv, ParkInv, WaitLockInv, Preemptible
  <1>15. ASSUME NEW c \in CPUs, NEW p \in Procs, sleep(c, p)
        PROVE  WaitLockInv'
    BY <1>15 DEF sleep, Running, Goto, Acquire, TypeOK, StackInv, LockInv,
           ParkInv, WaitLockInv, Preemptible
  <1>16. ASSUME NEW c \in CPUs, NEW p \in Procs, NEW k \in KillPids, kill(c, p, k)
        PROVE  WaitLockInv'
    BY <1>16 DEF kill, Running, WakeSleepers, TypeOK, StackInv, LockInv,
           ParkInv, WaitLockInv, Preemptible
  <1>17. CASE UNCHANGED vars
    BY <1>17 DEF vars, TypeOK, StackInv, LockInv, ParkInv, WaitLockInv,
           Preemptible
  <1> QED BY <1>1, <1>2, <1>3, <1>4, <1>5, <1>6, <1>7, <1>8, <1>9, <1>10,
         <1>11, <1>12, <1>13, <1>14, <1>15, <1>16, <1>17
          DEF Next, Kernel, User, Halted

\* A child belongs to the one process that is making it.
LEMMA StepFork ==
  ASSUME TypeOK, StackInv, LockInv, ParkInv, ForkInv, [Next]_vars
  PROVE  ForkInv'
  <1> USE ProcAssumption DEF ProcAssumption
  <1>1. ASSUME NEW c \in CPUs, NEW p \in Procs, Schedule(c, p)
        PROVE  ForkInv'
    BY <1>1 DEF Schedule, Acquire, TypeOK, StackInv, LockInv, ParkInv,
           ForkInv, Place, Active, Preemptible
  <1>2. ASSUME NEW c \in CPUs, NEW p \in Procs, Resume(c, p)
        PROVE  ForkInv'
    BY <1>2 DEF Resume, Running, Goto, Release, TypeOK, StackInv, LockInv,
           ParkInv, ForkInv, Place, Active, Preemptible
  <1>3. ASSUME NEW c \in CPUs, NEW p \in Procs, yield(c, p)
        PROVE  ForkInv'
    BY <1>3 DEF yield, Running, Goto, Acquire, TypeOK, StackInv, LockInv,
           ParkInv, ForkInv, Place, Active, Preemptible
  <1>4. ASSUME NEW c \in CPUs, NEW p \in Procs, sched(c, p)
        PROVE  ForkInv'
    BY <1>4 DEF sched, Running, Goto, table, TypeOK, StackInv, LockInv,
           ParkInv, ForkInv, Place, Active, Preemptible
  <1>5. ASSUME NEW c \in CPUs, NEW p \in Procs, Switched(c, p)
        PROVE  ForkInv'
    BY <1>5 DEF Switched, Release, table, TypeOK, StackInv, LockInv, ParkInv,
           ForkInv, Place, Active, Preemptible
  <1>6. ASSUME NEW c \in CPUs, NEW p \in Procs, NEW q \in Procs, fork(c, p, q)
        PROVE  ForkInv'
    <2>1. CASE /\ state' = [state EXCEPT ![q] = "USED"]
               /\ pid' = [pid EXCEPT ![q] = NewPid]
               /\ np' = [np EXCEPT ![p] = q]
               /\ pc' = [pc EXCEPT ![p] = "fork2", ![q] = "resume"]
               /\ back' = [back EXCEPT ![q] = "user"]
               /\ UNCHANGED <<chan, killed, parent>>
      BY <1>6, <2>1, SMTT(30) DEF fork, Running, Allocatable, NewPid,
         ClearKilled, TypeOK, StackInv, LockInv, ParkInv, ForkInv, Place,
         Active, Preemptible
    <2>2. CASE /\ chan' = [chan EXCEPT ![q] = None]
               /\ killed' = ClearKilled(q)
               /\ UNCHANGED <<state, pid, parent, np, pc, back>>
      BY <1>6, <2>2 DEF fork, Running, Allocatable, NewPid, ClearKilled,
         TypeOK, StackInv, LockInv, ParkInv, ForkInv, Place, Active,
         Preemptible
    <2> QED BY <1>6, <2>1, <2>2 DEF fork
  <1>7. ASSUME NEW c \in CPUs, NEW p \in Procs, fork2(c, p)
        PROVE  ForkInv'
    BY <1>7 DEF fork2, Running, Goto, TypeOK, StackInv, LockInv, ParkInv,
           ForkInv, Place, Active, Preemptible
  <1>8. ASSUME NEW c \in CPUs, NEW p \in Procs, fork3(c, p)
        PROVE  ForkInv'
    BY <1>8 DEF fork3, Running, Goto, TypeOK, StackInv, LockInv, ParkInv,
           ForkInv, Place, Active, Preemptible
  <1>9. ASSUME NEW c \in CPUs, NEW p \in Procs, SysExit(c, p)
        PROVE  ForkInv'
    BY <1>9 DEF SysExit, Running, Goto, table, TypeOK, StackInv, LockInv,
           ParkInv, ForkInv, Place, Active, Preemptible
  <1>10. ASSUME NEW c \in CPUs, NEW p \in Procs, exit(c, p)
        PROVE  ForkInv'
    BY <1>10 DEF exit, Running, Goto, Asleep, WakeSleepers, Reparent, TypeOK,
           StackInv, LockInv, ParkInv, ForkInv, Place, Active, Preemptible
  <1>11. ASSUME NEW c \in CPUs, NEW p \in Procs, exit2(c, p)
        PROVE  ForkInv'
    BY <1>11 DEF exit2, Running, Goto, Acquire, DropWaitLock, TypeOK,
           StackInv, LockInv, ParkInv, ForkInv, Place, Active, Preemptible
  <1>12. ASSUME NEW c \in CPUs, NEW p \in Procs, SysWait(c, p)
        PROVE  ForkInv'
    BY <1>12 DEF SysWait, Running, Goto, table, TypeOK, StackInv, LockInv,
           ParkInv, ForkInv, Place, Active, Preemptible
  <1>13. ASSUME NEW c \in CPUs, NEW p \in Procs, NEW q \in Procs, Reap(c, p, q)
        PROVE  ForkInv'
    BY <1>13 DEF Reap, Running, Goto, CanReap, ClearKilled, TypeOK, StackInv,
           LockInv, ParkInv, ForkInv, Place, Active, Preemptible
  <1>14. ASSUME NEW c \in CPUs, NEW p \in Procs, NoneExited(c, p)
        PROVE  ForkInv'
    BY <1>14 DEF NoneExited, Running, Goto, Children, table, TypeOK, StackInv,
           LockInv, ParkInv, ForkInv, Place, Active, Preemptible
  <1>15. ASSUME NEW c \in CPUs, NEW p \in Procs, sleep(c, p)
        PROVE  ForkInv'
    BY <1>15 DEF sleep, Running, Goto, Acquire, TypeOK, StackInv, LockInv,
           ParkInv, ForkInv, Place, Active, Preemptible
  <1>16. ASSUME NEW c \in CPUs, NEW p \in Procs, NEW k \in KillPids, kill(c, p, k)
        PROVE  ForkInv'
    BY <1>16 DEF kill, Running, WakeSleepers, TypeOK, StackInv, LockInv,
           ParkInv, ForkInv, Place, Active, Preemptible
  <1>17. CASE UNCHANGED vars
    BY <1>17 DEF vars, TypeOK, StackInv, LockInv, ParkInv, ForkInv, Place,
           Active, Preemptible
  <1> QED BY <1>1, <1>2, <1>3, <1>4, <1>5, <1>6, <1>7, <1>8, <1>9, <1>10,
         <1>11, <1>12, <1>13, <1>14, <1>15, <1>16, <1>17
          DEF Next, Kernel, User, Halted

\* No exit is missed by a sleeping parent.
LEMMA StepWait ==
  ASSUME TypeOK, StackInv, LockInv, ParkInv, WaitLockInv, ForkInv, WaitInv,
         InitInv, [Next]_vars
  PROVE  WaitInv'
  <1> USE ProcAssumption DEF ProcAssumption
  <1>1. ASSUME NEW c \in CPUs, NEW p \in Procs, Schedule(c, p)
        PROVE  WaitInv'
    BY <1>1 DEF Schedule, Acquire, TypeOK, StackInv, LockInv, ParkInv,
           WaitLockInv, WaitInv, InitInv, Preemptible, Children
  <1>2. ASSUME NEW c \in CPUs, NEW p \in Procs, Resume(c, p)
        PROVE  WaitInv'
    BY <1>2 DEF Resume, Running, Goto, Release, TypeOK, StackInv, LockInv,
           ParkInv, WaitLockInv, WaitInv, InitInv, Preemptible, Children
  <1>3. ASSUME NEW c \in CPUs, NEW p \in Procs, yield(c, p)
        PROVE  WaitInv'
    BY <1>3 DEF yield, Running, Goto, Acquire, TypeOK, StackInv, LockInv,
           ParkInv, WaitLockInv, WaitInv, InitInv, Preemptible, Children
  <1>4. ASSUME NEW c \in CPUs, NEW p \in Procs, sched(c, p)
        PROVE  WaitInv'
    BY <1>4 DEF sched, Running, Goto, table, TypeOK, StackInv, LockInv,
           ParkInv, WaitLockInv, WaitInv, InitInv, Preemptible, Children
  <1>5. ASSUME NEW c \in CPUs, NEW p \in Procs, Switched(c, p)
        PROVE  WaitInv'
    BY <1>5 DEF Switched, Release, table, TypeOK, StackInv, LockInv, ParkInv,
           WaitLockInv, WaitInv, InitInv, Preemptible, Children
  <1>6. ASSUME NEW c \in CPUs, NEW p \in Procs, NEW q \in Procs, fork(c, p, q)
        PROVE  WaitInv'
    BY <1>6 DEF fork, Running, Allocatable, NewPid, ClearKilled, TypeOK,
           StackInv, LockInv, ParkInv, WaitLockInv, WaitInv, InitInv,
           Preemptible, Children
  <1>7. ASSUME NEW c \in CPUs, NEW p \in Procs, fork2(c, p)
        PROVE  WaitInv'
    BY <1>7 DEF fork2, Running, Goto, TypeOK, StackInv, LockInv, ParkInv,
           WaitLockInv, WaitInv, InitInv, Preemptible, Children
  <1>8. ASSUME NEW c \in CPUs, NEW p \in Procs, fork3(c, p)
        PROVE  WaitInv'
    BY <1>8 DEF fork3, Running, Goto, TypeOK, StackInv, LockInv, ParkInv,
           WaitLockInv, WaitInv, InitInv, Preemptible, Children
  <1>9. ASSUME NEW c \in CPUs, NEW p \in Procs, SysExit(c, p)
        PROVE  WaitInv'
    BY <1>9 DEF SysExit, Running, Goto, table, TypeOK, StackInv, LockInv,
           ParkInv, WaitLockInv, WaitInv, InitInv, Preemptible, Children
  <1>10. ASSUME NEW c \in CPUs, NEW p \in Procs, exit(c, p)
        PROVE  WaitInv'
    BY <1>10 DEF exit, Running, Goto, Asleep, WakeSleepers, Reparent, TypeOK,
           StackInv, LockInv, ParkInv, WaitLockInv, WaitInv, InitInv,
           Preemptible, Children
  <1>11. ASSUME NEW c \in CPUs, NEW p \in Procs, exit2(c, p)
        PROVE  WaitInv'
    BY <1>11 DEF exit2, Running, Goto, Acquire, DropWaitLock, TypeOK,
           StackInv, LockInv, ParkInv, WaitLockInv, WaitInv, InitInv,
           Preemptible, Children
  <1>12. ASSUME NEW c \in CPUs, NEW p \in Procs, SysWait(c, p)
        PROVE  WaitInv'
    BY <1>12 DEF SysWait, Running, Goto, table, TypeOK, StackInv, LockInv,
           ParkInv, WaitLockInv, WaitInv, InitInv, Preemptible, Children
  <1>13. ASSUME NEW c \in CPUs, NEW p \in Procs, NEW q \in Procs, Reap(c, p, q)
        PROVE  WaitInv'
    BY <1>13 DEF Reap, Running, Goto, CanReap, ClearKilled, TypeOK, StackInv,
           LockInv, ParkInv, WaitLockInv, WaitInv, InitInv, Preemptible,
           Children
  <1>14. ASSUME NEW c \in CPUs, NEW p \in Procs, NoneExited(c, p)
        PROVE  WaitInv'
    BY <1>14 DEF NoneExited, Running, Goto, Children, table, TypeOK, StackInv,
           LockInv, ParkInv, WaitLockInv, WaitInv, InitInv, Preemptible,
           Children
  <1>15. ASSUME NEW c \in CPUs, NEW p \in Procs, sleep(c, p)
        PROVE  WaitInv'
    BY <1>15 DEF sleep, Running, Goto, Acquire, TypeOK, StackInv, LockInv,
           ParkInv, WaitLockInv, WaitInv, InitInv, Preemptible, Children
  <1>16. ASSUME NEW c \in CPUs, NEW p \in Procs, NEW k \in KillPids, kill(c, p, k)
        PROVE  WaitInv'
    BY <1>16 DEF kill, Running, WakeSleepers, TypeOK, StackInv, LockInv,
           ParkInv, WaitLockInv, WaitInv, InitInv, Preemptible, Children
  <1>17. CASE UNCHANGED vars
    BY <1>17 DEF vars, TypeOK, StackInv, LockInv, ParkInv, WaitLockInv,
           WaitInv, InitInv, Preemptible, Children
  <1> QED BY <1>1, <1>2, <1>3, <1>4, <1>5, <1>6, <1>7, <1>8, <1>9, <1>10,
         <1>11, <1>12, <1>13, <1>14, <1>15, <1>16, <1>17
          DEF Next, Kernel, User, Halted

\* init keeps out of the second half of exit.
LEMMA StepInit ==
  ASSUME TypeOK, StackInv, LockInv, ParkInv, InitInv, ForkInv, [Next]_vars
  PROVE  InitInv'
  <1> USE ProcAssumption DEF ProcAssumption
  <1>1. ASSUME NEW c \in CPUs, NEW p \in Procs, Schedule(c, p)
        PROVE  InitInv'
    BY <1>1 DEF Schedule, Acquire, TypeOK, StackInv, LockInv, ParkInv,
           InitInv, Place, Active, Preemptible
  <1>2. ASSUME NEW c \in CPUs, NEW p \in Procs, Resume(c, p)
        PROVE  InitInv'
    BY <1>2 DEF Resume, Running, Goto, Release, TypeOK, StackInv, LockInv,
           ParkInv, InitInv, Place, Active, Preemptible
  <1>3. ASSUME NEW c \in CPUs, NEW p \in Procs, yield(c, p)
        PROVE  InitInv'
    BY <1>3 DEF yield, Running, Goto, Acquire, TypeOK, StackInv, LockInv,
           ParkInv, InitInv, Place, Active, Preemptible
  <1>4. ASSUME NEW c \in CPUs, NEW p \in Procs, sched(c, p)
        PROVE  InitInv'
    BY <1>4 DEF sched, Running, Goto, table, TypeOK, StackInv, LockInv,
           ParkInv, InitInv, Place, Active, Preemptible
  <1>5. ASSUME NEW c \in CPUs, NEW p \in Procs, Switched(c, p)
        PROVE  InitInv'
    BY <1>5 DEF Switched, Release, table, TypeOK, StackInv, LockInv, ParkInv,
           InitInv, Place, Active, Preemptible
  <1>6. ASSUME NEW c \in CPUs, NEW p \in Procs, NEW q \in Procs, fork(c, p, q)
        PROVE  InitInv'
    BY <1>6 DEF fork, Running, Allocatable, NewPid, ClearKilled, TypeOK,
           StackInv, LockInv, ParkInv, InitInv, Place, Active, Preemptible
  <1>7. ASSUME NEW c \in CPUs, NEW p \in Procs, fork2(c, p)
        PROVE  InitInv'
    BY <1>7 DEF fork2, Running, Goto, TypeOK, StackInv, LockInv, ParkInv,
           InitInv, Place, Active, Preemptible
  <1>8. ASSUME NEW c \in CPUs, NEW p \in Procs, fork3(c, p)
        PROVE  InitInv'
    BY <1>8 DEF fork3, Running, Goto, TypeOK, StackInv, LockInv, ParkInv,
           InitInv, Place, Active, Preemptible
  <1>9. ASSUME NEW c \in CPUs, NEW p \in Procs, SysExit(c, p)
        PROVE  InitInv'
    BY <1>9 DEF SysExit, Running, Goto, table, TypeOK, StackInv, LockInv,
           ParkInv, InitInv, Place, Active, Preemptible
  <1>10. ASSUME NEW c \in CPUs, NEW p \in Procs, exit(c, p)
        PROVE  InitInv'
    BY <1>10 DEF exit, Running, Goto, Asleep, WakeSleepers, Reparent, TypeOK,
           StackInv, LockInv, ParkInv, InitInv, Place, Active, Preemptible
  <1>11. ASSUME NEW c \in CPUs, NEW p \in Procs, exit2(c, p)
        PROVE  InitInv'
    BY <1>11 DEF exit2, Running, Goto, Acquire, DropWaitLock, TypeOK,
           StackInv, LockInv, ParkInv, InitInv, Place, Active, Preemptible
  <1>12. ASSUME NEW c \in CPUs, NEW p \in Procs, SysWait(c, p)
        PROVE  InitInv'
    BY <1>12 DEF SysWait, Running, Goto, table, TypeOK, StackInv, LockInv,
           ParkInv, InitInv, Place, Active, Preemptible
  <1>13. ASSUME NEW c \in CPUs, NEW p \in Procs, NEW q \in Procs, Reap(c, p, q)
        PROVE  InitInv'
    BY <1>13 DEF Reap, Running, Goto, CanReap, ClearKilled, TypeOK, StackInv,
           LockInv, ParkInv, InitInv, Place, Active, Preemptible
  <1>14. ASSUME NEW c \in CPUs, NEW p \in Procs, NoneExited(c, p)
        PROVE  InitInv'
    BY <1>14 DEF NoneExited, Running, Goto, Children, table, TypeOK, StackInv,
           LockInv, ParkInv, InitInv, Place, Active, Preemptible
  <1>15. ASSUME NEW c \in CPUs, NEW p \in Procs, sleep(c, p)
        PROVE  InitInv'
    BY <1>15 DEF sleep, Running, Goto, Acquire, TypeOK, StackInv, LockInv,
           ParkInv, InitInv, Place, Active, Preemptible
  <1>16. ASSUME NEW c \in CPUs, NEW p \in Procs, NEW k \in KillPids, kill(c, p, k)
        PROVE  InitInv'
    BY <1>16 DEF kill, Running, WakeSleepers, TypeOK, StackInv, LockInv,
           ParkInv, InitInv, Place, Active, Preemptible
  <1>17. CASE UNCHANGED vars
    BY <1>17 DEF vars, TypeOK, StackInv, LockInv, ParkInv, InitInv, Place,
           Active, Preemptible
  <1> QED BY <1>1, <1>2, <1>3, <1>4, <1>5, <1>6, <1>7, <1>8, <1>9, <1>10,
         <1>11, <1>12, <1>13, <1>14, <1>15, <1>16, <1>17
          DEF Next, Kernel, User, Halted

\* reparent() leaves no child to a process that goes on to exit.
LEMMA StepParent ==
  ASSUME TypeOK, StackInv, LockInv, ParkInv, WaitLockInv, ForkInv, InitInv,
         ParentInv, [Next]_vars
  PROVE  ParentInv'
  <1> USE ProcAssumption DEF ProcAssumption
  <1>1. ASSUME NEW c \in CPUs, NEW p \in Procs, Schedule(c, p)
        PROVE  ParentInv'
    BY <1>1 DEF Schedule, Acquire, TypeOK, StackInv, LockInv, ParkInv,
           WaitLockInv, ForkInv, InitInv, ParentInv, Place, Active,
           Preemptible
  <1>2. ASSUME NEW c \in CPUs, NEW p \in Procs, Resume(c, p)
        PROVE  ParentInv'
    BY <1>2 DEF Resume, Running, Goto, Release, TypeOK, StackInv, LockInv,
           ParkInv, WaitLockInv, ForkInv, InitInv, ParentInv, Place, Active,
           Preemptible
  <1>3. ASSUME NEW c \in CPUs, NEW p \in Procs, yield(c, p)
        PROVE  ParentInv'
    BY <1>3 DEF yield, Running, Goto, Acquire, TypeOK, StackInv, LockInv,
           ParkInv, WaitLockInv, ForkInv, InitInv, ParentInv, Place, Active,
           Preemptible
  <1>4. ASSUME NEW c \in CPUs, NEW p \in Procs, sched(c, p)
        PROVE  ParentInv'
    BY <1>4 DEF sched, Running, Goto, table, TypeOK, StackInv, LockInv,
           ParkInv, WaitLockInv, ForkInv, InitInv, ParentInv, Place, Active,
           Preemptible
  <1>5. ASSUME NEW c \in CPUs, NEW p \in Procs, Switched(c, p)
        PROVE  ParentInv'
    BY <1>5 DEF Switched, Release, table, TypeOK, StackInv, LockInv, ParkInv,
           WaitLockInv, ForkInv, InitInv, ParentInv, Place, Active,
           Preemptible
  <1>6. ASSUME NEW c \in CPUs, NEW p \in Procs, NEW q \in Procs, fork(c, p, q)
        PROVE  ParentInv'
    <2>1. CASE /\ state' = [state EXCEPT ![q] = "USED"]
               /\ pid' = [pid EXCEPT ![q] = NewPid]
               /\ np' = [np EXCEPT ![p] = q]
               /\ pc' = [pc EXCEPT ![p] = "fork2", ![q] = "resume"]
               /\ back' = [back EXCEPT ![q] = "user"]
               /\ UNCHANGED <<chan, killed, parent>>
      BY <1>6, <2>1 DEF fork, Running, Allocatable, NewPid, ClearKilled,
         TypeOK, StackInv, LockInv, ParkInv, WaitLockInv, ForkInv,
         InitInv, ParentInv, Place, Active, Preemptible
    <2>2. CASE /\ chan' = [chan EXCEPT ![q] = None]
               /\ killed' = ClearKilled(q)
               /\ UNCHANGED <<state, pid, parent, np, pc, back>>
      BY <1>6, <2>2 DEF fork, Running, Allocatable, NewPid, ClearKilled,
         TypeOK, StackInv, LockInv, ParkInv, WaitLockInv, ForkInv,
         InitInv, ParentInv, Place, Active, Preemptible
    <2> QED BY <1>6, <2>1, <2>2 DEF fork
  <1>7. ASSUME NEW c \in CPUs, NEW p \in Procs, fork2(c, p)
        PROVE  ParentInv'
    BY <1>7 DEF fork2, Running, Goto, TypeOK, StackInv, LockInv, ParkInv,
           WaitLockInv, ForkInv, InitInv, ParentInv, Place, Active,
           Preemptible
  <1>8. ASSUME NEW c \in CPUs, NEW p \in Procs, fork3(c, p)
        PROVE  ParentInv'
    BY <1>8 DEF fork3, Running, Goto, TypeOK, StackInv, LockInv, ParkInv,
           WaitLockInv, ForkInv, InitInv, ParentInv, Place, Active,
           Preemptible
  <1>9. ASSUME NEW c \in CPUs, NEW p \in Procs, SysExit(c, p)
        PROVE  ParentInv'
    BY <1>9 DEF SysExit, Running, Goto, table, TypeOK, StackInv, LockInv,
           ParkInv, WaitLockInv, ForkInv, InitInv, ParentInv, Place, Active,
           Preemptible
  <1>10. ASSUME NEW c \in CPUs, NEW p \in Procs, exit(c, p)
        PROVE  ParentInv'
    BY <1>10 DEF exit, Running, Goto, Asleep, WakeSleepers, Reparent, TypeOK,
           StackInv, LockInv, ParkInv, WaitLockInv, ForkInv, InitInv,
           ParentInv, Place, Active, Preemptible
  <1>11. ASSUME NEW c \in CPUs, NEW p \in Procs, exit2(c, p)
        PROVE  ParentInv'
    BY <1>11 DEF exit2, Running, Goto, Acquire, DropWaitLock, TypeOK,
           StackInv, LockInv, ParkInv, WaitLockInv, ForkInv, InitInv,
           ParentInv, Place, Active, Preemptible
  <1>12. ASSUME NEW c \in CPUs, NEW p \in Procs, SysWait(c, p)
        PROVE  ParentInv'
    BY <1>12 DEF SysWait, Running, Goto, table, TypeOK, StackInv, LockInv,
           ParkInv, WaitLockInv, ForkInv, InitInv, ParentInv, Place, Active,
           Preemptible
  <1>13. ASSUME NEW c \in CPUs, NEW p \in Procs, NEW q \in Procs, Reap(c, p, q)
        PROVE  ParentInv'
    <2>1. CASE UNCHANGED <<state, parent, chan, killed, pid>>
      BY <1>13, <2>1 DEF Reap, Running, Goto, CanReap, TypeOK, StackInv,
         LockInv, ParkInv, ForkInv, ParentInv, Place, Active
    <2>2. CASE /\ state' = [state EXCEPT ![q] = "UNUSED"]
               /\ parent' = [parent EXCEPT ![q] = None]
               /\ chan' = [chan EXCEPT ![q] = None]
               /\ killed' = ClearKilled(q)
               /\ pid' = [pid EXCEPT ![q] = 0]
      BY <1>13, <2>2 DEF Reap, Running, Goto, CanReap, ClearKilled, TypeOK, StackInv,
         LockInv, ParkInv, ForkInv, ParentInv, Place, Active
    <2> QED BY <1>13, <2>1, <2>2 DEF Reap
  <1>14. ASSUME NEW c \in CPUs, NEW p \in Procs, NoneExited(c, p)
        PROVE  ParentInv'
    BY <1>14 DEF NoneExited, Running, Goto, Children, table, TypeOK, StackInv,
           LockInv, ParkInv, WaitLockInv, ForkInv, InitInv, ParentInv, Place,
           Active, Preemptible
  <1>15. ASSUME NEW c \in CPUs, NEW p \in Procs, sleep(c, p)
        PROVE  ParentInv'
    BY <1>15 DEF sleep, Running, Goto, Acquire, TypeOK, StackInv, LockInv,
           ParkInv, WaitLockInv, ForkInv, InitInv, ParentInv, Place, Active,
           Preemptible
  <1>16. ASSUME NEW c \in CPUs, NEW p \in Procs, NEW k \in KillPids, kill(c, p, k)
        PROVE  ParentInv'
    BY <1>16 DEF kill, Running, WakeSleepers, TypeOK, StackInv, LockInv,
           ParkInv, WaitLockInv, ForkInv, InitInv, ParentInv, Place, Active,
           Preemptible
  <1>17. CASE UNCHANGED vars
    BY <1>17 DEF vars, TypeOK, StackInv, LockInv, ParkInv, WaitLockInv,
           ForkInv, InitInv, ParentInv, Place, Active, Preemptible
  <1> QED BY <1>1, <1>2, <1>3, <1>4, <1>5, <1>6, <1>7, <1>8, <1>9, <1>10,
         <1>11, <1>12, <1>13, <1>14, <1>15, <1>16, <1>17
          DEF Next, Kernel, User, Halted

\* freeproc takes the pid with it.
LEMMA StepPid ==
  ASSUME TypeOK, StackInv, LockInv, ParkInv, ForkInv, PidInv, [Next]_vars
  PROVE  PidInv'
  <1> USE ProcAssumption DEF ProcAssumption
  <1>1. ASSUME NEW c \in CPUs, NEW p \in Procs, Schedule(c, p)
        PROVE  PidInv'
    BY <1>1 DEF Schedule, Acquire, TypeOK, StackInv, LockInv, ParkInv,
           ForkInv, Place, PidInv
  <1>2. ASSUME NEW c \in CPUs, NEW p \in Procs, Resume(c, p)
        PROVE  PidInv'
    BY <1>2 DEF Resume, Running, Goto, Release, TypeOK, StackInv, LockInv,
           ParkInv, ForkInv, Place, PidInv
  <1>3. ASSUME NEW c \in CPUs, NEW p \in Procs, yield(c, p)
        PROVE  PidInv'
    BY <1>3 DEF yield, Running, Goto, Acquire, TypeOK, StackInv, LockInv,
           ParkInv, ForkInv, Place, PidInv
  <1>4. ASSUME NEW c \in CPUs, NEW p \in Procs, sched(c, p)
        PROVE  PidInv'
    BY <1>4 DEF sched, Running, Goto, table, TypeOK, StackInv, LockInv,
           ParkInv, ForkInv, Place, PidInv
  <1>5. ASSUME NEW c \in CPUs, NEW p \in Procs, Switched(c, p)
        PROVE  PidInv'
    BY <1>5 DEF Switched, Release, table, TypeOK, StackInv, LockInv, ParkInv,
           ForkInv, Place, PidInv
  <1>6. ASSUME NEW c \in CPUs, NEW p \in Procs, NEW q \in Procs, fork(c, p, q)
        PROVE  PidInv'
    <2>1. CASE /\ state' = [state EXCEPT ![q] = "USED"]
               /\ pid' = [pid EXCEPT ![q] = NewPid]
               /\ np' = [np EXCEPT ![p] = q]
               /\ pc' = [pc EXCEPT ![p] = "fork2", ![q] = "resume"]
               /\ back' = [back EXCEPT ![q] = "user"]
               /\ UNCHANGED <<chan, killed, parent>>
      BY <1>6, <2>1 DEF fork, Running, Allocatable, NewPid, ClearKilled,
         TypeOK, PidInv
    <2>2. CASE /\ chan' = [chan EXCEPT ![q] = None]
               /\ killed' = ClearKilled(q)
               /\ UNCHANGED <<state, pid, parent, np, pc, back>>
      BY <1>6, <2>2 DEF fork, Running, Allocatable, NewPid, ClearKilled,
         TypeOK, PidInv
    <2> QED BY <1>6, <2>1, <2>2 DEF fork
  <1>7. ASSUME NEW c \in CPUs, NEW p \in Procs, fork2(c, p)
        PROVE  PidInv'
    BY <1>7 DEF fork2, Running, Goto, TypeOK, StackInv, LockInv, ParkInv,
           ForkInv, Place, PidInv
  <1>8. ASSUME NEW c \in CPUs, NEW p \in Procs, fork3(c, p)
        PROVE  PidInv'
    BY <1>8 DEF fork3, Running, Goto, TypeOK, StackInv, LockInv, ParkInv,
           ForkInv, Place, PidInv
  <1>9. ASSUME NEW c \in CPUs, NEW p \in Procs, SysExit(c, p)
        PROVE  PidInv'
    BY <1>9 DEF SysExit, Running, Goto, table, TypeOK, StackInv, LockInv,
           ParkInv, ForkInv, Place, PidInv
  <1>10. ASSUME NEW c \in CPUs, NEW p \in Procs, exit(c, p)
        PROVE  PidInv'
    BY <1>10 DEF exit, Running, Goto, Asleep, WakeSleepers, Reparent, TypeOK,
           StackInv, LockInv, ParkInv, ForkInv, Place, PidInv
  <1>11. ASSUME NEW c \in CPUs, NEW p \in Procs, exit2(c, p)
        PROVE  PidInv'
    BY <1>11 DEF exit2, Running, Goto, Acquire, DropWaitLock, TypeOK,
           StackInv, LockInv, ParkInv, ForkInv, Place, PidInv
  <1>12. ASSUME NEW c \in CPUs, NEW p \in Procs, SysWait(c, p)
        PROVE  PidInv'
    BY <1>12 DEF SysWait, Running, Goto, table, TypeOK, StackInv, LockInv,
           ParkInv, ForkInv, Place, PidInv
  <1>13. ASSUME NEW c \in CPUs, NEW p \in Procs, NEW q \in Procs, Reap(c, p, q)
        PROVE  PidInv'
    BY <1>13 DEF Reap, Running, Goto, CanReap, ClearKilled, TypeOK, StackInv,
           LockInv, ParkInv, ForkInv, Place, PidInv
  <1>14. ASSUME NEW c \in CPUs, NEW p \in Procs, NoneExited(c, p)
        PROVE  PidInv'
    BY <1>14 DEF NoneExited, Running, Goto, Children, table, TypeOK, StackInv,
           LockInv, ParkInv, ForkInv, Place, PidInv
  <1>15. ASSUME NEW c \in CPUs, NEW p \in Procs, sleep(c, p)
        PROVE  PidInv'
    BY <1>15 DEF sleep, Running, Goto, Acquire, TypeOK, StackInv, LockInv,
           ParkInv, ForkInv, Place, PidInv
  <1>16. ASSUME NEW c \in CPUs, NEW p \in Procs, NEW k \in KillPids, kill(c, p, k)
        PROVE  PidInv'
    BY <1>16 DEF kill, Running, WakeSleepers, TypeOK, StackInv, LockInv,
           ParkInv, ForkInv, Place, PidInv
  <1>17. CASE UNCHANGED vars
    BY <1>17 DEF vars, TypeOK, StackInv, LockInv, ParkInv, ForkInv, Place,
           PidInv
  <1> QED BY <1>1, <1>2, <1>3, <1>4, <1>5, <1>6, <1>7, <1>8, <1>9, <1>10,
         <1>11, <1>12, <1>13, <1>14, <1>15, <1>16, <1>17
          DEF Next, Kernel, User, Halted

-----------------------------------------------------------------------------
(* The theorems                                                            *)

\* procinit and userinit establish the invariant.
LEMMA InitProcIInv == Init => ProcIInv
  <1> SUFFICES ASSUME Init PROVE ProcIInv
    OBVIOUS
  <1> USE ProcAssumption DEF ProcAssumption, Init
  <1>1. TypeOK
    <2>1. state \in [Procs -> States] /\ pc \in [Procs -> PCs]
      BY DEF States, PCs
    <2>2. pid \in [Procs -> 0..MaxPid] /\ nextpid \in 1..MaxPid + 1
      OBVIOUS
    <2>3. back \in [Procs -> Preemptible]
      BY DEF Preemptible
    <2>4. targets \subseteq 0..MaxPid
      BY Zenon
    <2> QED BY <2>1, <2>2, <2>3, <2>4 DEF TypeOK
  <1>2. StackInv /\ LockInv
    BY DEF StackInv, LockInv
  <1>3. ParkInv /\ InitInv
    BY DEF ParkInv, InitInv, Place, Active
  <1>4. WaitLockInv /\ ForkInv
    BY DEF WaitLockInv, ForkInv, Place
  <1>5. WaitInv /\ ParentInv /\ PidInv
    BY DEF WaitInv, ParentInv, PidInv, Place, Active
  <1> QED BY <1>1, <1>2, <1>3, <1>4, <1>5 DEF ProcIInv

\* Every step preserves the invariant.
LEMMA StepProcIInv ==
  ASSUME ProcIInv, [Next]_vars
  PROVE  ProcIInv'
  BY StepType, StepStack, StepLock, StepPark, StepWaitLock, StepFork, StepWait,
     StepInit, StepParent, StepPid
  DEF ProcIInv

\* The inductive invariant of proc.c.
THEOREM ProcIInvHolds == Spec => []ProcIInv
  BY InitProcIInv, StepProcIInv, PTL DEF Spec

\* The kernel stack of a process is used by one CPU at most, and while it is
\* the process cannot be picked up or reaped; sched() finds its lock held
\* and no other (proc.c:454-474).
THEOREM StacksSafe == Spec => []ProcInv
  <1>1. ProcIInv => ProcInv
    <2> SUFFICES ASSUME ProcIInv PROVE ProcInv
      OBVIOUS
    <2> USE ProcAssumption DEF ProcAssumption
    <2>1. SchedLocks
      <3> SUFFICES ASSUME NEW c \in CPUs, NEW p \in Procs, Running(c, p, "sched")
                   PROVE  /\ plock[p] = c
                          /\ wlock # c
                          /\ state[p] # "RUNNING"
                          /\ \A q \in Procs \ {p} : plock[q] # c
        BY DEF SchedLocks
      <3> QED BY DEF Running, ProcIInv, TypeOK, StackInv, LockInv, ParkInv,
                     WaitLockInv
    <2>2. ASSUME NEW p \in Procs
          PROVE  /\ Cardinality(OnStack(p)) <= 1
                 /\ OnStack(p) # {} =>
                      /\ state[p] # "UNUSED"
                      /\ state[p] = "RUNNING" \/ plock[p] \in OnStack(p)
      <3>1. CASE OnStack(p) = {}
        BY <3>1, FS_EmptySet
      <3>2. ASSUME NEW c \in OnStack(p)
            PROVE  /\ OnStack(p) = {c}
                   /\ state[p] # "UNUSED"
                   /\ state[p] = "RUNNING" \/ plock[p] = c
        BY DEF OnStack, ProcIInv, TypeOK, StackInv, ParkInv
      <3>3. CASE OnStack(p) # {}
        <4>1. PICK c : c \in OnStack(p)
          BY <3>3
        <4>2. Cardinality({c}) = 1
          BY FS_Singleton
        <4> QED BY <3>2, <4>1, <4>2
      <3> QED BY <3>1, <3>3
    <2> QED BY <2>1, <2>2 DEF ProcInv, OneStackOneCPU, ProcIInv
  <1> QED BY <1>1, ProcIInvHolds, PTL

\* A process asleep in wait has no child that has exited: the child's wakeup
\* and the parent's scan are ordered by wait_lock (proc.c:374, proc.c:434).
THEOREM ExitsSeen == Spec => []NoMissedExit
  <1>1. ProcIInv => NoMissedExit
    BY DEF ProcIInv, WaitInv, NoMissedExit
  <1> QED BY <1>1, ProcIInvHolds, PTL

\* A process that can exit has a parent that has not: reparent() and the
\* parent's own exit are ordered by wait_lock (proc.c:371).
THEOREM ParentsLive == Spec => []NoOrphans
  <1>1. ProcIInv => NoOrphans
    BY DEF ProcIInv, ParentInv, NoOrphans, Active
  <1> QED BY <1>1, ProcIInvHolds, PTL

-----------------------------------------------------------------------------
(* kill                                                                    *)

\* A free slot is not marked when nobody calls kill(0), so that the next
\* process in it starts unmarked.
LEMMA StepKilled ==
  ASSUME 0 \notin KillPids, ProcIInv, KilledByPid, [Next]_vars
  PROVE  KilledByPid'
  <1> USE ProcAssumption DEF ProcAssumption, ProcIInv
  <1>1. ASSUME NEW c \in CPUs, NEW p \in Procs, Schedule(c, p)
        PROVE  KilledByPid'
    BY <1>1 DEF Schedule, Acquire, TypeOK, PidInv, KilledByPid
  <1>2. ASSUME NEW c \in CPUs, NEW p \in Procs, Resume(c, p)
        PROVE  KilledByPid'
    BY <1>2 DEF Resume, Running, Goto, Release, TypeOK, PidInv, KilledByPid
  <1>3. ASSUME NEW c \in CPUs, NEW p \in Procs, yield(c, p)
        PROVE  KilledByPid'
    BY <1>3 DEF yield, Running, Goto, Acquire, TypeOK, PidInv, KilledByPid
  <1>4. ASSUME NEW c \in CPUs, NEW p \in Procs, sched(c, p)
        PROVE  KilledByPid'
    BY <1>4 DEF sched, Running, Goto, table, TypeOK, PidInv, KilledByPid
  <1>5. ASSUME NEW c \in CPUs, NEW p \in Procs, Switched(c, p)
        PROVE  KilledByPid'
    BY <1>5 DEF Switched, Release, table, TypeOK, PidInv, KilledByPid
  <1>6. ASSUME NEW c \in CPUs, NEW p \in Procs, NEW q \in Procs, fork(c, p, q)
        PROVE  KilledByPid'
    <2>1. CASE /\ state' = [state EXCEPT ![q] = "USED"]
               /\ pid' = [pid EXCEPT ![q] = NewPid]
               /\ np' = [np EXCEPT ![p] = q]
               /\ pc' = [pc EXCEPT ![p] = "fork2", ![q] = "resume"]
               /\ back' = [back EXCEPT ![q] = "user"]
               /\ UNCHANGED <<chan, killed, parent>>
      BY <1>6, <2>1 DEF fork, Running, Allocatable, NewPid, ClearKilled,
         TypeOK, PidInv, KilledByPid
    <2>2. CASE /\ chan' = [chan EXCEPT ![q] = None]
               /\ killed' = ClearKilled(q)
               /\ UNCHANGED <<state, pid, parent, np, pc, back>>
      BY <1>6, <2>2 DEF fork, Running, Allocatable, NewPid, ClearKilled,
         TypeOK, PidInv, KilledByPid
    <2> QED BY <1>6, <2>1, <2>2 DEF fork
  <1>7. ASSUME NEW c \in CPUs, NEW p \in Procs, fork2(c, p)
        PROVE  KilledByPid'
    BY <1>7 DEF fork2, Running, Goto, TypeOK, PidInv, KilledByPid
  <1>8. ASSUME NEW c \in CPUs, NEW p \in Procs, fork3(c, p)
        PROVE  KilledByPid'
    BY <1>8 DEF fork3, Running, Goto, TypeOK, PidInv, KilledByPid
  <1>9. ASSUME NEW c \in CPUs, NEW p \in Procs, SysExit(c, p)
        PROVE  KilledByPid'
    BY <1>9 DEF SysExit, Running, Goto, table, TypeOK, PidInv, KilledByPid
  <1>10. ASSUME NEW c \in CPUs, NEW p \in Procs, exit(c, p)
        PROVE  KilledByPid'
    BY <1>10 DEF exit, Running, Goto, Asleep, WakeSleepers, Reparent, TypeOK,
           PidInv, KilledByPid
  <1>11. ASSUME NEW c \in CPUs, NEW p \in Procs, exit2(c, p)
        PROVE  KilledByPid'
    BY <1>11 DEF exit2, Running, Goto, Acquire, DropWaitLock, TypeOK, PidInv,
           KilledByPid
  <1>12. ASSUME NEW c \in CPUs, NEW p \in Procs, SysWait(c, p)
        PROVE  KilledByPid'
    BY <1>12 DEF SysWait, Running, Goto, table, TypeOK, PidInv, KilledByPid
  <1>13. ASSUME NEW c \in CPUs, NEW p \in Procs, NEW q \in Procs, Reap(c, p, q)
        PROVE  KilledByPid'
    <2>1. CASE UNCHANGED <<state, parent, chan, killed, pid>>
      BY <1>13, <2>1 DEF Reap, Running, Goto, CanReap, TypeOK, KilledByPid
    <2>2. CASE /\ state' = [state EXCEPT ![q] = "UNUSED"]
               /\ parent' = [parent EXCEPT ![q] = None]
               /\ chan' = [chan EXCEPT ![q] = None]
               /\ killed' = ClearKilled(q)
               /\ pid' = [pid EXCEPT ![q] = 0]
      BY <1>13, <2>2 DEF Reap, Running, Goto, CanReap, ClearKilled, TypeOK, KilledByPid
    <2> QED BY <1>13, <2>1, <2>2 DEF Reap
  <1>14. ASSUME NEW c \in CPUs, NEW p \in Procs, NoneExited(c, p)
        PROVE  KilledByPid'
    BY <1>14 DEF NoneExited, Running, Goto, Children, table, TypeOK, PidInv,
           KilledByPid
  <1>15. ASSUME NEW c \in CPUs, NEW p \in Procs, sleep(c, p)
        PROVE  KilledByPid'
    BY <1>15 DEF sleep, Running, Goto, Acquire, TypeOK, PidInv, KilledByPid
  <1>16. ASSUME NEW c \in CPUs, NEW p \in Procs, NEW k \in KillPids, kill(c, p, k)
        PROVE  KilledByPid'
    BY <1>16 DEF kill, Running, WakeSleepers, TypeOK, PidInv, KilledByPid
  <1>17. CASE UNCHANGED vars
    BY <1>17 DEF vars, TypeOK, PidInv, KilledByPid
  <1> QED BY <1>1, <1>2, <1>3, <1>4, <1>5, <1>6, <1>7, <1>8, <1>9, <1>10,
         <1>11, <1>12, <1>13, <1>14, <1>15, <1>16, <1>17
          DEF Next, Kernel, User, Halted

\* kill marks the process whose pid it was given and no other, now or later
\* in the same slot, as long as no program calls kill(0), which finds the
\* free slots (proc.c:587-605).
THEOREM KillFollowsPid ==
  ASSUME 0 \notin KillPids
  PROVE  Spec => []KilledByPid
  <1>1. Init => KilledByPid
    BY DEF Init, KilledByPid
  <1>2. ProcIInv /\ KilledByPid /\ [Next]_vars => KilledByPid'
    BY StepKilled
  <1> QED BY <1>1, <1>2, ProcIInvHolds, PTL DEF Spec

=============================================================================
