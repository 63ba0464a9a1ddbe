-------------------------------- MODULE Log --------------------------------
(***************************************************************************)
(* The write-ahead log of the xv6 file system (kernel/log.c) on top of a   *)
(* buffer cache that may drop every buffer nobody has pinned               *)
(* (kernel/bio.c).  A crash may strike between any two disk writes, during *)
(* recovery too, and takes everything but the disk away.                   *)
(*                                                                         *)
(* A step is one critical section of log.lock or one disk write.  A        *)
(* process that modifies a block holds the block's sleep-lock from bread   *)
(* to brelse, so bread, the modification and log_write are one step.  The  *)
(* write of one block is atomic (the assumption write_head rests on).      *)
(***************************************************************************)
EXTENDS Naturals, Sequences, FiniteSets

CONSTANTS Blocks,        \* home block numbers
          Data,          \* contents of a block
          Procs,         \* processes that run file-system operations
          MAXOPBLOCKS,   \* most blocks one operation writes (param.h)
          NLOG,          \* blocks of the on-disk log, header included (sb.nlog)
          Zero,          \* a block of zeroes
          NoBuf,         \* "block is not in the buffer cache"
          MaxCrashes     \* bound of the model on the number of crashes

ASSUME LogAssumption ==
  /\ MAXOPBLOCKS \in Nat \ {0}
  /\ NLOG \in Nat
  /\ MaxCrashes \in Nat
  /\ Zero \in Data
  /\ NoBuf \notin Data
  /\ IsFiniteSet(Procs)
  /\ IsFiniteSet(Blocks)

LOGSIZE == 3 * MAXOPBLOCKS

VARIABLES home,          \* disk: home location of every block
          dlog,          \* disk: the data blocks of the log
          dhead,         \* disk: the header block, the block numbers of the log
          buf,           \* buffer cache: contents of a block, or NoBuf
          pins,          \* buffer cache: references log_write holds (bpin)
          lh,            \* log.lh, the in-memory header
          outstanding,   \* log.outstanding
          committing,    \* log.committing
          pc,            \* where each process is
          wrote,         \* blocks the current operation of a process has written
          phase,         \* where commit() or recover_from_log() is
          tail,          \* its loop variable
          panicked,      \* log_write has panicked, holding log.lock
          crashes        \* number of crashes so far

disk == <<home, dlog, dhead>>
vars == <<home, dlog, dhead, buf, pins, lh, outstanding, committing, pc,
          wrote, phase, tail, panicked, crashes>>

CommitPhases   == {"write_log", "write_head", "install", "clear", "finish"}
RecoveryPhases == {"read_head", "rinstall", "rclear"}

DiskType ==
  /\ home \in [Blocks -> Data]
  /\ dlog \in [1..LOGSIZE -> Data]
  /\ dhead \in Seq(Blocks)

CacheType ==
  /\ buf \in [Blocks -> Data \cup {NoBuf}]
  /\ pins \in [Blocks -> Nat]
  /\ lh \in Seq(Blocks)

ProcType ==
  /\ pc \in [Procs -> {"user", "begin", "asleep", "op", "commit"}]
  /\ wrote \in [Procs -> SUBSET Blocks]

ControlType ==
  /\ outstanding \in Nat
  /\ committing \in BOOLEAN
  /\ phase \in {"none"} \cup CommitPhases \cup RecoveryPhases
  /\ tail \in Nat \ {0}
  /\ panicked \in BOOLEAN
  /\ crashes \in Nat

TypeOK == DiskType /\ CacheType /\ ProcType /\ ControlType

\* The machine boots from a disk that mkfs built, log area zeroed, and runs
\* initlog.
Init ==
  /\ home \in [Blocks -> Data]
  /\ dlog = [i \in 1..LOGSIZE |-> Zero]
  /\ dhead = <<>>
  /\ buf = [b \in Blocks |-> NoBuf]
  /\ pins = [b \in Blocks |-> 0]
  /\ lh = <<>>
  /\ outstanding = 0
  /\ committing = FALSE
  /\ pc = [p \in Procs |-> "user"]
  /\ wrote = [p \in Procs |-> {}]
  /\ phase = "read_head"
  /\ tail = 1
  /\ panicked = FALSE
  /\ crashes = 0

-----------------------------------------------------------------------------
(* The buffer cache *)

\* What bread(b) returns: the cached block, or the block read from disk.
Contents(b) == IF buf[b] = NoBuf THEN home[b] ELSE buf[b]

\* A process reads a block (fileread does so outside any transaction).
Bread(b) ==
  /\ ~panicked
  /\ phase \notin RecoveryPhases
  /\ buf[b] = NoBuf
  /\ buf' = [buf EXCEPT ![b] = home[b]]
  /\ UNCHANGED <<home, dlog, dhead, pins, lh, outstanding, committing, pc,
                 wrote, phase, tail, panicked, crashes>>

\* bget recycles a buffer that nobody references.
Recycle(b) ==
  /\ ~panicked
  /\ pins[b] = 0
  /\ buf[b] # NoBuf
  /\ buf' = [buf EXCEPT ![b] = NoBuf]
  /\ UNCHANGED <<home, dlog, dhead, pins, lh, outstanding, committing, pc,
                 wrote, phase, tail, panicked, crashes>>

-----------------------------------------------------------------------------
(* System calls: begin_op, log_write, end_op *)

\* log.lock can be taken and the file system has been recovered.
Running == ~panicked /\ phase \notin RecoveryPhases

LogFullNoSelf == Len(lh) + outstanding * MAXOPBLOCKS > LOGSIZE

LogFull == Len(lh) + (outstanding + 1) * MAXOPBLOCKS > LOGSIZE

NoneWoken == pc

\* wakeup(&log) makes every process that sleeps in begin_op look again.
Woken == [p \in Procs |-> IF pc[p] = "asleep" THEN "begin" ELSE pc[p]]

Call(p) ==
  /\ Running
  /\ pc[p] = "user"
  /\ pc' = [pc EXCEPT ![p] = "begin"]
  /\ UNCHANGED <<disk, buf, pins, lh, outstanding, committing, wrote, phase,
                 tail, panicked, crashes>>

begin_op(p) ==
  /\ Running
  /\ pc[p] = "begin"
  /\ IF committing \/ LogFull
     THEN /\ pc' = [pc EXCEPT ![p] = "asleep"]
          /\ UNCHANGED <<outstanding, wrote>>
     ELSE /\ outstanding' = outstanding + 1
          /\ pc' = [pc EXCEPT ![p] = "op"]
          /\ wrote' = [wrote EXCEPT ![p] = {}]
  /\ UNCHANGED <<disk, buf, pins, lh, committing, phase, tail, panicked, crashes>>

\* The test of log_write before it looks for the block in the header.
TooBig == Len(lh) >= LOGSIZE \/ Len(lh) >= NLOG - 1

Logged(b) == \E i \in 1..Len(lh) : lh[i] = b

\* An operation modifies block b, which it must not do to more than
\* MAXOPBLOCKS different blocks, and calls log_write.
log_write(p, b, d) ==
  /\ Running
  /\ pc[p] = "op"
  /\ Cardinality(wrote[p] \cup {b}) <= MAXOPBLOCKS
  /\ buf' = [buf EXCEPT ![b] = d]
  /\ IF TooBig \/ outstanding < 1
     THEN /\ panicked' = TRUE
          /\ UNCHANGED <<lh, pins, wrote>>
     ELSE /\ wrote' = [wrote EXCEPT ![p] = @ \cup {b}]
          /\ lh' = IF Logged(b) THEN lh ELSE Append(lh, b)
          /\ pins' = IF Logged(b) THEN pins ELSE [pins EXCEPT ![b] = @ + 1]
          /\ UNCHANGED panicked
  /\ UNCHANGED <<disk, outstanding, committing, pc, phase, tail, crashes>>

\* The last operation to end becomes the committer; commit() does nothing
\* when no block was logged.
end_op(p) ==
  /\ Running
  /\ pc[p] = "op"
  /\ outstanding' = outstanding - 1
  /\ IF committing
     THEN /\ panicked' = TRUE
          /\ UNCHANGED <<committing, pc, phase, tail>>
     ELSE /\ UNCHANGED panicked
          /\ IF outstanding = 1
             THEN /\ committing' = TRUE
                  /\ pc' = [pc EXCEPT ![p] = "commit"]
                  /\ phase' = IF lh = <<>> THEN "finish" ELSE "write_log"
                  /\ tail' = 1
             ELSE /\ pc' = [Woken EXCEPT ![p] = "user"]
                  /\ UNCHANGED <<committing, phase, tail>>
  /\ UNCHANGED <<disk, buf, pins, lh, wrote, crashes>>

-----------------------------------------------------------------------------
(* commit(), run by the process whose end_op set log.committing *)

LogHomeCopy == [dlog EXCEPT ![tail] = home[lh[tail]]]

\* The log block that write_log fills from the cached block.
LogCopy == [dlog EXCEPT ![tail] = Contents(lh[tail])]

write_log ==
  /\ phase = "write_log"
  /\ dlog' = LogCopy
  /\ tail' = tail + 1
  /\ phase' = IF tail = Len(lh) THEN "write_head" ELSE "write_log"
  /\ UNCHANGED <<home, dhead, buf, pins, lh, outstanding, committing, pc,
                 wrote, panicked, crashes>>

write_head ==
  /\ phase = "write_head"
  /\ dhead' = lh
  /\ tail' = 1
  /\ phase' = "install"
  /\ UNCHANGED <<home, dlog, buf, pins, lh, outstanding, committing, pc,
                 wrote, panicked, crashes>>

\* if(recovering == 0) bunpin(dbuf)
Unpin == IF phase = "install" THEN [pins EXCEPT ![lh[tail]] = @ - 1] ELSE pins

SameTail == tail

NextTail == tail + 1

\* One turn of the loop of install_trans, for a commit or for recovery.
install_trans ==
  /\ phase \in {"install", "rinstall"}
  /\ tail <= Len(lh)
  /\ home' = [home EXCEPT ![lh[tail]] = dlog[tail]]
  /\ buf' = [buf EXCEPT ![lh[tail]] = dlog[tail]]
  /\ pins' = Unpin
  /\ tail' = NextTail
  /\ UNCHANGED <<dlog, dhead, lh, outstanding, committing, pc, wrote, phase,
                 panicked, crashes>>

InstallDone ==
  /\ phase \in {"install", "rinstall"}
  /\ tail > Len(lh)
  /\ phase' = IF phase = "install" THEN "clear" ELSE "rclear"
  /\ UNCHANGED <<disk, buf, pins, lh, outstanding, committing, pc, wrote, tail,
                 panicked, crashes>>

\* log.lh.n = 0; write_head() erases the transaction.
clear_head ==
  /\ phase \in {"clear", "rclear"}
  /\ lh' = <<>>
  /\ dhead' = <<>>
  /\ tail' = 1
  /\ phase' = IF phase = "clear" THEN "finish" ELSE "none"
  /\ UNCHANGED <<home, dlog, buf, pins, outstanding, committing, pc, wrote,
                 panicked, crashes>>

\* The second critical section of end_op.
end_commit ==
  /\ phase = "finish"
  /\ committing' = FALSE
  /\ phase' = "none"
  /\ pc' = [p \in Procs |-> IF pc[p] = "commit" THEN "user" ELSE Woken[p]]
  /\ UNCHANGED <<disk, buf, pins, lh, outstanding, wrote, tail, panicked, crashes>>

-----------------------------------------------------------------------------
(* Crash and recover_from_log() *)

Crash ==
  /\ crashes < MaxCrashes
  /\ crashes' = crashes + 1
  /\ buf' = [b \in Blocks |-> NoBuf]
  /\ pins' = [b \in Blocks |-> 0]
  /\ lh' = <<>>
  /\ outstanding' = 0
  /\ committing' = FALSE
  /\ pc' = [p \in Procs |-> "user"]
  /\ wrote' = [p \in Procs |-> {}]
  /\ phase' = "read_head"
  /\ tail' = 1
  /\ panicked' = FALSE
  /\ UNCHANGED disk

read_head ==
  /\ phase = "read_head"
  /\ lh' = dhead
  /\ tail' = 1
  /\ phase' = "rinstall"
  /\ UNCHANGED <<disk, buf, pins, outstanding, committing, pc, wrote, panicked,
                 crashes>>

-----------------------------------------------------------------------------
Kernel == write_log \/ write_head \/ install_trans \/ InstallDone
          \/ clear_head \/ end_commit \/ read_head

Next == \/ \E b \in Blocks : Bread(b) \/ Recycle(b)
        \/ \E p \in Procs : Call(p) \/ begin_op(p) \/ end_op(p)
        \/ \E p \in Procs, b \in Blocks, d \in Data : log_write(p, b, d)
        \/ Kernel
        \/ Crash

Spec == Init /\ [][Next]_vars

\* A system call that has started runs to its end_op, a process that is
\* runnable in begin_op is scheduled, and the kernel thread that commits or
\* recovers keeps running: each of them only needs to be scheduled.
Fairness == /\ WF_vars(Kernel)
            /\ \A p \in Procs : WF_vars(begin_op(p)) /\ WF_vars(end_op(p))

FairSpec == Spec /\ Fairness

-----------------------------------------------------------------------------
(* Properties *)

\* The home blocks d with the blocks that header h names redone from log l.
Redo(h, l, d) == [b \in Blocks |->
                    IF \E i \in 1..Len(h) : h[i] = b
                    THEN l[CHOOSE i \in 1..Len(h) : h[i] = b]
                    ELSE d[b]]

\* What a reboot would find.
Stable == Redo(dhead, dlog, home)

Current == IF phase \in RecoveryPhases THEN Stable
           ELSE [b \in Blocks |-> Contents(b)]

InOp == {p \in Procs : pc[p] = "op"}

AD == INSTANCE AtomicDisk WITH stable <- Stable, current <- Current, active <- InOp

\* The logging layer implements AtomicDisk: whatever the interleaving of
\* operations and wherever the crashes strike (in write_log, in install_trans,
\* in recovery), the blocks found after a reboot are those of a moment at
\* which no operation was active, and every operation that had ended before
\* the header was written is there with all of its blocks.
AtomicAndDurable == AD!ADSpec

\* The writes that the running operations have left, up to MAXOPBLOCKS each.
Reserved == {r \in InOp \X (1..MAXOPBLOCKS) : r[2] > Cardinality(wrote[r[1]])}

\* begin_op admits an operation only if the log has room for everything the
\* admitted operations may still write.
LogSpaceReserved == Len(lh) + Cardinality(Reserved) <= LOGSIZE

\* A process that sleeps in begin_op is owed a wakeup(&log): an operation is
\* active, or a commit is running that will end with a wakeup.
SleeperHasWaker ==
  (\E p \in Procs : pc[p] = "asleep") => outstanding > 0 \/ committing

\* A sleeper of begin_op gets its wakeup, unless log_write panics first.
SleeperWoken ==
  \A p \in Procs : pc[p] = "asleep" ~> (pc[p] # "asleep" \/ panicked)

\* Recovery ends although it may be interrupted by crashes.
RecoveryEnds == phase \in RecoveryPhases ~> phase = "none"

\* No operation that keeps to MAXOPBLOCKS makes log_write panic.
NoPanic == ~panicked

-----------------------------------------------------------------------------
(* The inductive invariant: what the parts of the state owe to each other   *)

Distinct(s) == \A i, j \in 1..Len(s) : s[i] = s[j] => i = j

\* Blocks lh[i] with i at least this are pinned.
FirstPinned == CASE phase = "install" -> tail
                 [] phase \in {"clear"} \cup RecoveryPhases -> Len(lh) + 1
                 [] OTHER -> 1

Pinned(b) == \E i \in FirstPinned..Len(lh) : lh[i] = b

HeaderInv ==
  /\ Distinct(lh) /\ Len(lh) <= LOGSIZE
  /\ Distinct(dhead) /\ Len(dhead) <= LOGSIZE

\* The counters of log.c agree with what the processes are doing.
OpsInv ==
  /\ outstanding = Cardinality(InOp)
  /\ committing <=> phase \in CommitPhases
  /\ phase # "none" => InOp = {}
  /\ phase \in RecoveryPhases => pc = [p \in Procs |-> "user"]
  /\ phase = "none" /\ outstanding = 0 => lh = <<>>
  /\ panicked => phase = "none"

\* Copied(n): log blocks below n hold what the cache holds of their blocks.
Copied(n) == \A i \in 1..Len(lh) : i < n => dlog[i] = Contents(lh[i])

\* Installed(n): blocks of the header below n have reached their home.
Installed(n) == \A i \in 1..Len(lh) : i < n => home[lh[i]] = dlog[i]

\* How far the disk is in each phase of commit() and recover_from_log().
PhaseInv ==
  /\ phase \in {"none", "write_log", "write_head"} => dhead = <<>>
  /\ phase = "write_log" => tail <= Len(lh) /\ Copied(tail)
  /\ phase \in {"write_head", "install", "clear"} => Copied(Len(lh) + 1)
  /\ phase \in {"install", "clear", "rinstall", "rclear"} => dhead = lh
  /\ phase \in {"install", "rinstall"} => tail <= Len(lh) + 1 /\ Installed(tail)
  /\ phase \in {"clear", "rclear"} => Installed(Len(lh) + 1)
  /\ phase = "finish" => dhead = <<>> /\ lh = <<>>
  /\ phase = "read_head" => lh = <<>>

\* A cached block differs from its home block only while log_write's pin
\* keeps it in the cache.
CacheInv ==
  \A b \in Blocks :
    /\ pins[b] = IF Pinned(b) THEN 1 ELSE 0
    /\ pins[b] = 0 /\ ~panicked => buf[b] \in {NoBuf, home[b]}
    /\ pins[b] # 0 => buf[b] # NoBuf

\* The header names each block once, log.outstanding counts the running
\* operations, commit() runs alone, and whatever a crash may take from the
\* cache is on the disk twice over: in the log or at home.
IInv == HeaderInv /\ OpsInv /\ PhaseInv /\ CacheInv
=============================================================================
