-------------------------------- MODULE Pipe --------------------------------
(***************************************************************************)
(* A pipe of xv6 (kernel/pipe.c) and the reference counts of the two files *)
(* that lead to it (kernel/file.c), with the processes that inherit them   *)
(* by fork, read, write, close, and may be killed at any moment.           *)
(*                                                                         *)
(* A step is a turn of the loop of pipewrite or piperead under pi->lock,   *)
(* since kill() does not take that lock and may strike between two turns.  *)
(* Going to sleep is a step of its own: a kill that comes after the test   *)
(* of killed() and before sleep() finds nobody asleep.                     *)
(***************************************************************************)
EXTENDS Integers, Sequences, FiniteSets

CONSTANTS PipeProcs,       \* processes
          Creator,     \* the process that called pipe()
          Nobody,      \* "the lock is free"
          PipeBytes,       \* values of a byte
          PIPESIZE,
          PUINT,        \* nread and nwrite count modulo this
          MaxN         \* bound of the model on the n of read and write

ASSUME PipeAssumption ==
  /\ PIPESIZE \in Nat \ {0}
  /\ PUINT \in Nat
  /\ PUINT % PIPESIZE = 0
  /\ PUINT > PIPESIZE
  /\ MaxN \in Nat
  /\ IsFiniteSet(PipeProcs)
  /\ Creator \in PipeProcs
  /\ Nobody \notin PipeProcs

VARIABLES pidata,        \* pi->data
          nread,       \* pi->nread
          nwrite,      \* pi->nwrite
          readopen,    \* pi->readopen
          writeopen,   \* pi->writeopen
          pilock,        \* holder of pi->lock
          freed,       \* number of times the pipe was given to kfree
          fref,         \* f->ref of the two files
          holds,       \* the ends a process has a descriptor of
          pkilled,      \* p->killed
          ppc,          \* where each process is
          left         \* n - i, bytes the current call has still to move

pipevars == <<pidata, nread, nwrite, readopen, writeopen, freed>>
filevars == <<fref, holds>>
pipestate == <<pidata, nread, nwrite, readopen, writeopen, pilock, freed, fref, holds,
               pkilled, ppc, left>>

Ends == {"r", "w"}

PCs == {"unused", "user", "dead",
        "wloop", "wfull", "wsleep",
        "rwait", "rempty", "rsleep", "rcopy",
        "close_r", "close_w", "kfree"}

PipeTypeOK ==
  /\ pidata \in [0..PIPESIZE-1 -> PipeBytes]
  /\ nread \in 0..PUINT-1
  /\ nwrite \in 0..PUINT-1
  /\ readopen \in BOOLEAN
  /\ writeopen \in BOOLEAN
  /\ pilock \in PipeProcs \cup {Nobody}
  /\ freed \in Nat
  /\ fref \in [Ends -> Nat]
  /\ holds \in [PipeProcs -> SUBSET Ends]
  /\ pkilled \in [PipeProcs -> BOOLEAN]
  /\ ppc \in [PipeProcs -> PCs]
  /\ left \in [PipeProcs -> 0..MaxN]

\* pipealloc has succeeded; the memory holds the junk kalloc put there.
PipeInit ==
  /\ pidata \in [0..PIPESIZE-1 -> PipeBytes]
  /\ \A i, j \in 0..PIPESIZE-1 : pidata[i] = pidata[j]
  /\ nread = 0
  /\ nwrite = 0
  /\ readopen = TRUE
  /\ writeopen = TRUE
  /\ pilock = Nobody
  /\ freed = 0
  /\ fref = [e \in Ends |-> 1]
  /\ holds = [p \in PipeProcs |-> IF p = Creator THEN Ends ELSE {}]
  /\ pkilled = [p \in PipeProcs |-> FALSE]
  /\ ppc = [p \in PipeProcs |-> IF p = Creator THEN "user" ELSE "unused"]
  /\ left = [p \in PipeProcs |-> 0]

-----------------------------------------------------------------------------
\* wakeup(chan) and the new place of p itself.
Wakeup(asleep, awake, p, place) ==
  [q \in PipeProcs |-> IF q = p THEN place
                   ELSE IF ppc[q] = asleep THEN awake ELSE ppc[q]]

WakePipeReaders(p, place) == Wakeup("rsleep", "rwait", p, place)

WakePipeWriters(p, place) == Wakeup("wsleep", "wloop", p, place)

\* p runs with pi->lock held, taking it if this is where it acquires it.
PipeLocked(p) == pilock \in {p, Nobody}

AdvanceOnly(p, place) == [ppc EXCEPT ![p] = place]

\* pi->nread++ and pi->nwrite++, in unsigned arithmetic.
Incremented(n) == (n + 1) % PUINT

\* The place in pi->data of the n-th byte.
DataIndex(n) == n % PIPESIZE

\* n and i are gone when a call returns.
CallEnds(p) == [left EXCEPT ![p] = 0]

-----------------------------------------------------------------------------
(* pipewrite                                                               *)

SysWrite(p, k) ==
  /\ ppc[p] = "user" /\ ~pkilled[p] /\ "w" \in holds[p]
  /\ ppc' = AdvanceOnly(p, "wloop")
  /\ left' = [left EXCEPT ![p] = k]
  /\ UNCHANGED <<pipevars, pilock, filevars, pkilled>>

OffByOneFull == nwrite = (nread + PIPESIZE + 1) % PUINT

\* pi->nwrite == pi->nread + PIPESIZE, in unsigned arithmetic.
Full == nwrite = (nread + PIPESIZE) % PUINT

\* The loop condition i < n.
MoreToWrite(p) == left[p] > 0

\* The wakeup(&pi->nread) that precedes the sleep of a writer.
NoWakeOnFull(p) == AdvanceOnly(p, "wfull")

WakeOnFull(p) == WakePipeReaders(p, "wfull")

InWriteLoop(p) == ppc[p] = "wloop" /\ PipeLocked(p) /\ MoreToWrite(p)

\* return -1
WriteStop(p) ==
  /\ InWriteLoop(p)
  /\ ~readopen \/ pkilled[p]
  /\ pilock' = Nobody
  /\ ppc' = AdvanceOnly(p, "user")
  /\ left' = CallEnds(p)
  /\ UNCHANGED <<pipevars, filevars, pkilled>>

WriteFull(p) ==
  /\ InWriteLoop(p)
  /\ readopen /\ ~pkilled[p] /\ Full
  /\ pilock' = p
  /\ ppc' = WakeOnFull(p)
  /\ UNCHANGED <<pipevars, filevars, pkilled, left>>

PutByte(p) ==
  /\ InWriteLoop(p)
  /\ readopen /\ ~pkilled[p] /\ ~Full
  /\ pilock' = p
  /\ \E ch \in PipeBytes : pidata' = [pidata EXCEPT ![DataIndex(nwrite)] = ch]
  /\ nwrite' = Incremented(nwrite)
  /\ left' = [left EXCEPT ![p] = @ - 1]
  /\ UNCHANGED <<ppc, nread, readopen, writeopen, freed, filevars, pkilled>>

\* A fault in copyin leaves the loop.
WriteFault(p) ==
  /\ InWriteLoop(p)
  /\ readopen /\ ~pkilled[p] /\ ~Full
  /\ pilock' = Nobody
  /\ ppc' = WakePipeReaders(p, "user")
  /\ left' = CallEnds(p)
  /\ UNCHANGED <<pipevars, filevars, pkilled>>

\* One turn of the loop.
WriteTurn(p) == WriteStop(p) \/ WriteFull(p) \/ PutByte(p) \/ WriteFault(p)

\* sleep(&pi->nwrite, &pi->lock)
WriteSleep(p) ==
  /\ ppc[p] = "wfull"
  /\ pilock' = Nobody
  /\ ppc' = AdvanceOnly(p, "wsleep")
  /\ UNCHANGED <<pipevars, filevars, pkilled, left>>

WriteDone(p) ==
  /\ ppc[p] = "wloop" /\ PipeLocked(p)
  /\ ~MoreToWrite(p)
  /\ pilock' = Nobody
  /\ ppc' = WakePipeReaders(p, "user")
  /\ UNCHANGED <<pipevars, filevars, pkilled, left>>

-----------------------------------------------------------------------------
(* piperead                                                                *)

SysRead(p, k) ==
  /\ ppc[p] = "user" /\ ~pkilled[p] /\ "r" \in holds[p]
  /\ ppc' = AdvanceOnly(p, "rwait")
  /\ left' = [left EXCEPT ![p] = k]
  /\ UNCHANGED <<pipevars, pilock, filevars, pkilled>>

Empty == nread = nwrite

\* There are data, or it is the end of the stream.
ReadReady(p) ==
  /\ ppc[p] = "rwait" /\ PipeLocked(p)
  /\ ~(Empty /\ writeopen)
  /\ pilock' = p
  /\ ppc' = AdvanceOnly(p, "rcopy")
  /\ UNCHANGED <<pipevars, filevars, pkilled, left>>

\* return -1
ReadStop(p) ==
  /\ ppc[p] = "rwait" /\ PipeLocked(p)
  /\ Empty /\ writeopen /\ pkilled[p]
  /\ pilock' = Nobody
  /\ ppc' = AdvanceOnly(p, "user")
  /\ left' = CallEnds(p)
  /\ UNCHANGED <<pipevars, filevars, pkilled>>

ReadEmpty(p) ==
  /\ ppc[p] = "rwait" /\ PipeLocked(p)
  /\ Empty /\ writeopen /\ ~pkilled[p]
  /\ pilock' = p
  /\ ppc' = AdvanceOnly(p, "rempty")
  /\ UNCHANGED <<pipevars, filevars, pkilled, left>>

\* The loop that waits for data or for the end of the stream.
ReadWait(p) == ReadReady(p) \/ ReadStop(p) \/ ReadEmpty(p)

\* sleep(&pi->nread, &pi->lock)
ReadSleep(p) ==
  /\ ppc[p] = "rempty"
  /\ pilock' = Nobody
  /\ ppc' = AdvanceOnly(p, "rsleep")
  /\ UNCHANGED <<pipevars, filevars, pkilled, left>>

\* wakeup(&pi->nwrite) when a read ends.
WakeAfterRead(p) == WakePipeWriters(p, "user")

InReadLoop(p) == ppc[p] = "rcopy" /\ left[p] > 0 /\ ~Empty

GetByte(p) ==
  /\ InReadLoop(p)
  /\ nread' = Incremented(nread)
  /\ left' = [left EXCEPT ![p] = @ - 1]
  /\ UNCHANGED <<pilock, ppc, pidata, nwrite, readopen, writeopen, freed, filevars, pkilled>>

\* A fault in copyout leaves the loop after the byte has left the pipe.
ReadFault(p) ==
  /\ InReadLoop(p)
  /\ nread' = Incremented(nread)
  /\ pilock' = Nobody
  /\ ppc' = WakeAfterRead(p)
  /\ left' = CallEnds(p)
  /\ UNCHANGED <<pidata, nwrite, readopen, writeopen, freed, filevars, pkilled>>

\* One turn of the loop that copies.
ReadTurn(p) == GetByte(p) \/ ReadFault(p)

ReadDone(p) ==
  /\ ppc[p] = "rcopy"
  /\ left[p] = 0 \/ Empty
  /\ pilock' = Nobody
  /\ ppc' = WakeAfterRead(p)
  /\ left' = CallEnds(p)
  /\ UNCHANGED <<pipevars, filevars, pkilled>>

-----------------------------------------------------------------------------
(* Descriptors: fork (filedup), close and exit (fileclose), pipeclose      *)

\* fork: a new process gets every descriptor of its parent.
PipeFork(p, q) ==
  /\ ppc[p] = "user" /\ ~pkilled[p] /\ ppc[q] = "unused"
  /\ holds[p] # {}
  /\ ppc' = AdvanceOnly(q, "user")
  /\ holds' = [holds EXCEPT ![q] = holds[p]]
  /\ fref' = [e \in Ends |-> IF e \in holds[p] THEN fref[e] + 1 ELSE fref[e]]
  /\ UNCHANGED <<pipevars, pilock, pkilled, left>>

EarlyLast(e) == fref[e] <= 2

\* --f->ref leaves no reference.
LastFileRef(e) == fref[e] = 1

\* The critical section of fileclose: only the last reference goes on to
\* pipeclose.
fileclose(p, e) ==
  /\ ppc[p] = "user" /\ e \in holds[p]
  /\ holds' = [holds EXCEPT ![p] = @ \ {e}]
  /\ fref' = [fref EXCEPT ![e] = IF LastFileRef(e) THEN 0 ELSE @ - 1]
  /\ ppc' = AdvanceOnly(p, IF LastFileRef(e)
                          THEN IF e = "r" THEN "close_r" ELSE "close_w"
                          ELSE "user")
  /\ UNCHANGED <<pipevars, pilock, pkilled, left>>

\* wakeup(&pi->nread) of pipeclose(pi, 1).
WakeOnClose(p, place) == WakePipeReaders(p, place)

pipeclose(p) ==
  /\ ppc[p] \in {"close_r", "close_w"} /\ pilock = Nobody
  /\ readopen' = (readopen /\ ppc[p] # "close_r")
  /\ writeopen' = (writeopen /\ ppc[p] # "close_w")
  /\ LET place == IF readopen' \/ writeopen' THEN "user" ELSE "kfree"
     IN  ppc' = IF ppc[p] = "close_w" THEN WakeOnClose(p, place)
               ELSE WakePipeWriters(p, place)
  /\ UNCHANGED <<pidata, nread, nwrite, freed, pilock, filevars, pkilled, left>>

FreePipe(p) ==
  /\ ppc[p] = "kfree"
  /\ freed' = freed + 1
  /\ ppc' = AdvanceOnly(p, "user")
  /\ UNCHANGED <<pidata, nread, nwrite, readopen, writeopen, pilock, filevars,
                 pkilled, left>>

\* A process without descriptors of the pipe goes its own way.
PipeExit(p) ==
  /\ ppc[p] = "user" /\ holds[p] = {}
  /\ ppc' = AdvanceOnly(p, "dead")
  /\ UNCHANGED <<pipevars, pilock, filevars, pkilled, left>>

\* kill(): sets p->killed and makes a sleeping process runnable.  A killed
\* process starts no new call: it closes its descriptors in exit().
PipeKill(p) ==
  /\ ppc[p] \notin {"unused", "dead"} /\ ~pkilled[p]
  /\ pkilled' = [pkilled EXCEPT ![p] = TRUE]
  /\ ppc' = AdvanceOnly(p, CASE ppc[p] = "wsleep" -> "wloop"
                            [] ppc[p] = "rsleep" -> "rwait"
                            [] OTHER -> ppc[p])
  /\ UNCHANGED <<pipevars, pilock, filevars, left>>

-----------------------------------------------------------------------------
\* What a process does without anybody's permission once it is scheduled.
PipeRun(p) == \/ WriteTurn(p) \/ WriteSleep(p) \/ WriteDone(p)
          \/ ReadWait(p) \/ ReadSleep(p) \/ ReadTurn(p) \/ ReadDone(p)
          \/ pipeclose(p) \/ FreePipe(p)

UserStep(p) == \/ \E k \in 0..MaxN : SysWrite(p, k) \/ SysRead(p, k)
               \/ \E q \in PipeProcs : PipeFork(p, q)
               \/ \E e \in Ends : fileclose(p, e)
               \/ PipeExit(p)

PipeNext == \E p \in PipeProcs : PipeRun(p) \/ UserStep(p) \/ PipeKill(p)

PipeSpec == PipeInit /\ [][PipeNext]_pipestate

\* The scheduler runs every process; spinlocks promise nothing more.
PipeFairSpec == PipeSpec /\ \A p \in PipeProcs : WF_pipestate(PipeRun(p))

-----------------------------------------------------------------------------
(* Properties                                                              *)

Occupancy == (nwrite - nread) % PUINT

PipeContents == [i \in 1..Occupancy |-> pidata[DataIndex(nread + i - 1)]]

BS == INSTANCE ByteStream WITH
        Bytes <- PipeBytes, Capacity <- PIPESIZE, queue <- PipeContents,
        canRead <- readopen, canWrite <- writeopen

\* The ring buffer and its wrapping counters are a bounded FIFO queue: no
\* byte is overwritten before it is read, read twice or read out of order,
\* and none moves through an end that has been closed.
FirstInFirstOut == BS!BSSpec

InPipe(p) == ppc[p] \notin {"unused", "user", "dead"}

\* kfree takes the pipe only once, and when no process is inside pipewrite,
\* piperead or pipeclose or has a descriptor to get there.
NoUseAfterFree ==
  /\ freed <= 1
  /\ freed = 1 => \A p \in PipeProcs : ~InPipe(p) /\ holds[p] = {}

\* A process asleep while the lock is free has nothing to do: a writer finds
\* the pipe full and somebody who can still read, a reader finds it empty
\* and somebody who can still write.  The exception: pipewrite returns -1 to
\* a killed process without the wakeup for the bytes it has already written.
SleepForAReason ==
  pilock = Nobody =>
    /\ (\E p \in PipeProcs : ppc[p] = "wsleep") => Full /\ readopen
    /\ (\E p \in PipeProcs : ppc[p] = "rsleep")
         => (Empty /\ writeopen) \/ \E p \in PipeProcs : pkilled[p]

\* A sleeping writer wakes up once the pipe is no longer full, and a
\* sleeping reader once a byte or the end of the stream is there for it,
\* as long as no writer is killed.
SleepersWoken ==
  /\ \A p \in PipeProcs : ppc[p] = "wsleep" /\ ~(Full /\ readopen) ~> ppc[p] # "wsleep"
  /\ \A p \in PipeProcs : ppc[p] = "rsleep" /\ ~(Empty /\ writeopen)
                        ~> ppc[p] # "rsleep" \/ \E q \in PipeProcs : pkilled[q]

\* The invariant of a pipe: it is freed once and not under a user, and
\* nobody sleeps whom no event will wake.
PipeInv == PipeTypeOK /\ NoUseAfterFree /\ SleepForAReason
=============================================================================
