---------------------------- MODULE StreamProofs ----------------------------
(***************************************************************************)
(* Proofs about Pipe, for every number of processes, every size of the     *)
(* buffer and every width of the counters that is a multiple of it, about  *)
(* the output side of Console, and about the threads of inorder.c.         *)
(***************************************************************************)
EXTENDS Pipe, Console, Inorder, ModArith, FiniteSetTheorems, SequenceTheorems, TLAPS

InPipewrite(p) == ppc[p] \in {"wloop", "wfull", "wsleep"}

InPiperead(p) == ppc[p] \in {"rwait", "rempty", "rsleep", "rcopy"}

HoldersOf(e) == {p \in PipeProcs : e \in holds[p]}

\* Who can have pi->lock, and who must.
LockInv ==
  \A p \in PipeProcs :
    /\ pilock = p => ppc[p] \in {"wloop", "wfull", "rempty", "rcopy"}
    /\ ppc[p] \in {"wfull", "rempty", "rcopy"} => pilock = p

\* f->ref counts the descriptors.
RefInv == \A e \in Ends : fref[e] = Cardinality(HoldersOf(e))

\* A call has the descriptor it came by, and a process that does not run none.
CallInv ==
  \A p \in PipeProcs :
    /\ ppc[p] \in {"unused", "dead"} => holds[p] = {}
    /\ InPipewrite(p) => "w" \in holds[p]
    /\ InPiperead(p) => "r" \in holds[p]

\* An end is open as long as a descriptor leads to it or the process that
\* dropped the last one is on its way to close it; kfree comes after both.
OpenInv ==
  /\ fref["r"] > 0 => readopen
  /\ fref["w"] > 0 => writeopen
  /\ \A p \in PipeProcs :
       /\ ppc[p] = "close_r" => readopen /\ fref["r"] = 0
       /\ ppc[p] = "close_w" => writeopen /\ fref["w"] = 0
       /\ ppc[p] = "kfree" => ~readopen /\ ~writeopen /\ freed = 0
  /\ \A p, q \in PipeProcs :
       ppc[p] = ppc[q] /\ ppc[p] \in {"close_r", "close_w", "kfree"} => p = q
  /\ freed > 0 => ~readopen /\ ~writeopen
  /\ freed <= 1

\* SleepForAReason while somebody has the lock: a reader that copies will
\* wake the writers, a writer in its loop will wake the readers or has been
\* killed.
SleepInv ==
  /\ \A p \in PipeProcs : ppc[p] = "wfull" => Full /\ readopen
  /\ \A p \in PipeProcs : ppc[p] = "rempty" => Empty /\ writeopen
  /\ \A p \in PipeProcs : ppc[p] = "wsleep" =>
       \/ Full /\ readopen
       \/ \E q \in PipeProcs : pilock = q /\ ppc[q] = "rcopy"
  /\ \A p \in PipeProcs : ppc[p] = "rsleep" =>
       \/ Empty /\ writeopen
       \/ \E q \in PipeProcs : pkilled[q]
       \/ \E q \in PipeProcs : pilock = q /\ ppc[q] = "wloop"

PipeIInv == LockInv /\ RefInv /\ CallInv /\ OpenInv /\ SleepInv /\ Occupancy <= PIPESIZE

-----------------------------------------------------------------------------
(* Facts about the constants and the operators.                            *)

\* PipeAssumption without the divisibility, which slows the provers down.
LEMMA Sizes ==
  /\ PIPESIZE \in Nat \ {0}
  /\ PUINT \in Nat \ {0}
  /\ PUINT > PIPESIZE
  /\ MaxN \in Nat
  /\ Nobody \notin PipeProcs
  BY PipeAssumption DEF PipeAssumption

LEMMA IncrementedType == \A n \in Nat : Incremented(n) \in 0..PUINT-1
  BY Sizes, ModRange DEF Incremented

LEMMA CallEndsType ==
  ASSUME PipeTypeOK, NEW p \in PipeProcs
  PROVE  CallEnds(p) \in [PipeProcs -> 0..MaxN]
  BY Sizes DEF PipeTypeOK, CallEnds

LEMMA MovedOneType ==
  ASSUME PipeTypeOK, NEW p \in PipeProcs, left[p] > 0
  PROVE  [left EXCEPT ![p] = @ - 1] \in [PipeProcs -> 0..MaxN]
  BY Sizes DEF PipeTypeOK

LEMMA HoldersFinite == \A e \in Ends : IsFiniteSet(HoldersOf(e))
  <1>1. \A e \in Ends : HoldersOf(e) \subseteq PipeProcs
    BY DEF HoldersOf
  <1> QED BY <1>1, FS_Subset, PipeAssumption DEF PipeAssumption

\* A descriptor counts, so that its end is open.
LEMMA HeldIsOpen ==
  ASSUME PipeTypeOK, RefInv, OpenInv, NEW p \in PipeProcs, NEW e \in holds[p]
  PROVE  /\ fref[e] > 0
         /\ e = "r" => readopen
         /\ e = "w" => writeopen
  <1>1. e \in Ends
    BY DEF PipeTypeOK
  <1>2. p \in HoldersOf(e)
    BY DEF HoldersOf
  <1>3. Cardinality(HoldersOf(e)) \in Nat /\ Cardinality(HoldersOf(e)) # 0
    BY <1>1, <1>2, HoldersFinite, FS_CardinalityType, FS_EmptySet
  <1>4. fref[e] > 0
    BY <1>1, <1>3 DEF RefInv
  <1> QED BY <1>4 DEF OpenInv

-----------------------------------------------------------------------------
(* The initial states                                                      *)

LEMMA InitType == PipeInit => PipeTypeOK
  BY Sizes DEF PipeInit, PipeTypeOK, PCs, Ends

LEMMA InitIInv == PipeInit => PipeIInv
  <1> SUFFICES ASSUME PipeInit PROVE PipeIInv
    OBVIOUS
  <1>1. \A e \in Ends : HoldersOf(e) = {Creator}
    BY PipeAssumption DEF PipeInit, HoldersOf, PipeAssumption
  <1>2. RefInv
    BY <1>1, FS_Singleton DEF PipeInit, RefInv, Ends
  <1>7. CallInv
    BY DEF PipeInit, CallInv, InPipewrite, InPiperead, Ends
  <1>3. LockInv
    BY Sizes DEF PipeInit, LockInv
  <1>4. OpenInv
    BY DEF PipeInit, OpenInv, Ends
  <1>5. SleepInv
    BY DEF PipeInit, SleepInv
  <1>6. Occupancy <= PIPESIZE
    BY Sizes, Z3 DEF PipeInit, Occupancy
  <1> QED BY <1>2, <1>3, <1>4, <1>5, <1>6, <1>7 DEF PipeIInv

-----------------------------------------------------------------------------
(* Every step, conjunct by conjunct                                        *)

\* Types; f->ref stays a natural number because every descriptor counts.
LEMMA StepType ==
  ASSUME PipeTypeOK, RefInv, OpenInv, [PipeNext]_pipestate
  PROVE  PipeTypeOK'
  <1> USE Sizes DEF pipevars, filevars
  <1>1. ASSUME NEW p \in PipeProcs, WriteStop(p)
        PROVE  PipeTypeOK'
    <2>1. left' \in [PipeProcs -> 0..MaxN]
      BY <1>1, CallEndsType DEF WriteStop
    <2> QED BY <1>1, <2>1 DEF WriteStop, AdvanceOnly, PipeTypeOK, PCs, Ends
  <1>2. ASSUME NEW p \in PipeProcs, WriteFull(p)
        PROVE  PipeTypeOK'
    BY <1>2 DEF WriteFull, InWriteLoop, WakeOnFull, WakePipeReaders, Wakeup, PipeTypeOK,
           PCs, Ends
  <1>3. ASSUME NEW p \in PipeProcs, PutByte(p)
        PROVE  PipeTypeOK'
    <2>1. left' \in [PipeProcs -> 0..MaxN]
      BY <1>3, MovedOneType DEF PutByte, InWriteLoop, MoreToWrite, PipeTypeOK
    <2>2. nwrite' \in 0..PUINT-1
      BY <1>3, IncrementedType DEF PutByte, PipeTypeOK
    <2>3. pidata' \in [0..PIPESIZE-1 -> PipeBytes]
      BY <1>3 DEF PutByte, PipeTypeOK
    <2> QED BY <1>3, <2>1, <2>2, <2>3 DEF PutByte, PipeTypeOK, PCs, Ends
  <1>4. ASSUME NEW p \in PipeProcs, WriteFault(p)
        PROVE  PipeTypeOK'
    <2>1. left' \in [PipeProcs -> 0..MaxN]
      BY <1>4, CallEndsType DEF WriteFault
    <2> QED BY <1>4, <2>1 DEF WriteFault, WakePipeReaders, Wakeup, PipeTypeOK, PCs, Ends
  <1>5. ASSUME NEW p \in PipeProcs, WriteSleep(p)
        PROVE  PipeTypeOK'
    BY <1>5 DEF WriteSleep, AdvanceOnly, PipeTypeOK, PCs, Ends
  <1>6. ASSUME NEW p \in PipeProcs, WriteDone(p)
        PROVE  PipeTypeOK'
    BY <1>6 DEF WriteDone, WakePipeReaders, Wakeup, PipeTypeOK, PCs, Ends
  <1>7. ASSUME NEW p \in PipeProcs, ReadReady(p)
        PROVE  PipeTypeOK'
    BY <1>7 DEF ReadReady, AdvanceOnly, PipeTypeOK, PCs, Ends
  <1>8. ASSUME NEW p \in PipeProcs, ReadStop(p)
        PROVE  PipeTypeOK'
    <2>1. left' \in [PipeProcs -> 0..MaxN]
      BY <1>8, CallEndsType DEF ReadStop
    <2> QED BY <1>8, <2>1 DEF ReadStop, AdvanceOnly, PipeTypeOK, PCs, Ends
  <1>9. ASSUME NEW p \in PipeProcs, ReadEmpty(p)
        PROVE  PipeTypeOK'
    BY <1>9 DEF ReadEmpty, AdvanceOnly, PipeTypeOK, PCs, Ends
  <1>10. ASSUME NEW p \in PipeProcs, ReadSleep(p)
        PROVE  PipeTypeOK'
    BY <1>10 DEF ReadSleep, AdvanceOnly, PipeTypeOK, PCs, Ends
  <1>11. ASSUME NEW p \in PipeProcs, GetByte(p)
        PROVE  PipeTypeOK'
    <2>1. left' \in [PipeProcs -> 0..MaxN]
      BY <1>11, MovedOneType DEF GetByte, InReadLoop
    <2>2. nread' \in 0..PUINT-1
      BY <1>11, IncrementedType DEF GetByte, PipeTypeOK
    <2> QED BY <1>11, <2>1, <2>2 DEF GetByte, PipeTypeOK, PCs, Ends
  <1>12. ASSUME NEW p \in PipeProcs, ReadFault(p)
        PROVE  PipeTypeOK'
    <2>1. left' \in [PipeProcs -> 0..MaxN]
      BY <1>12, CallEndsType DEF ReadFault
    <2>2. nread' \in 0..PUINT-1
      BY <1>12, IncrementedType DEF ReadFault, PipeTypeOK
    <2> QED BY <1>12, <2>1, <2>2 DEF ReadFault, WakeAfterRead, WakePipeWriters, Wakeup,
           PipeTypeOK, PCs, Ends
  <1>13. ASSUME NEW p \in PipeProcs, ReadDone(p)
        PROVE  PipeTypeOK'
    <2>1. left' \in [PipeProcs -> 0..MaxN]
      BY <1>13, CallEndsType DEF ReadDone
    <2> QED BY <1>13, <2>1 DEF ReadDone, WakeAfterRead, WakePipeWriters, Wakeup,
           PipeTypeOK, PCs, Ends
  <1>14. ASSUME NEW p \in PipeProcs, pipeclose(p)
        PROVE  PipeTypeOK'
    BY <1>14 DEF pipeclose, WakeOnClose, WakePipeReaders, WakePipeWriters, Wakeup,
           PipeTypeOK, PCs, Ends
  <1>15. ASSUME NEW p \in PipeProcs, FreePipe(p)
        PROVE  PipeTypeOK'
    <2>1. ppc' \in [PipeProcs -> PCs]
      BY <1>15 DEF FreePipe, AdvanceOnly, PipeTypeOK, PCs
    <2> QED BY <1>15, <2>1 DEF FreePipe, PipeTypeOK
  <1>16. ASSUME NEW p \in PipeProcs, NEW k \in 0..MaxN, SysWrite(p, k)
        PROVE  PipeTypeOK'
    BY <1>16 DEF SysWrite, AdvanceOnly, PipeTypeOK, PCs, Ends
  <1>17. ASSUME NEW p \in PipeProcs, NEW k \in 0..MaxN, SysRead(p, k)
        PROVE  PipeTypeOK'
    BY <1>17 DEF SysRead, AdvanceOnly, PipeTypeOK, PCs, Ends
  <1>18. ASSUME NEW p \in PipeProcs, NEW q \in PipeProcs, PipeFork(p, q)
        PROVE  PipeTypeOK'
    <2>1. ppc' \in [PipeProcs -> PCs]
      BY <1>18 DEF PipeFork, AdvanceOnly, PipeTypeOK, PCs
    <2>2. fref' \in [Ends -> Nat]
      BY <1>18 DEF PipeFork, PipeTypeOK
    <2>3. holds' \in [PipeProcs -> SUBSET Ends]
      BY <1>18 DEF PipeFork, PipeTypeOK
    <2> QED BY <1>18, <2>1, <2>2, <2>3 DEF PipeFork, PipeTypeOK
  <1>19. ASSUME NEW p \in PipeProcs, NEW e \in Ends, fileclose(p, e)
        PROVE  PipeTypeOK'
    <2>1. ppc' \in [PipeProcs -> PCs]
      BY <1>19 DEF fileclose, AdvanceOnly, PipeTypeOK, PCs
    <2>2. fref[e] # 1 /\ fref[e] \in Nat /\ fref[e] # 0 => fref[e] - 1 \in Nat
      OBVIOUS
    <2>3. fref' \in [Ends -> Nat]
      BY <1>19, <2>2, HeldIsOpen DEF fileclose, LastFileRef, PipeTypeOK
    <2>4. holds' \in [PipeProcs -> SUBSET Ends]
      BY <1>19 DEF fileclose, PipeTypeOK
    <2> QED BY <1>19, <2>1, <2>3, <2>4 DEF fileclose, PipeTypeOK
  <1>20. ASSUME NEW p \in PipeProcs, PipeExit(p)
        PROVE  PipeTypeOK'
    BY <1>20 DEF PipeExit, AdvanceOnly, PipeTypeOK, PCs, Ends
  <1>21. ASSUME NEW p \in PipeProcs, PipeKill(p)
        PROVE  PipeTypeOK'
    BY <1>21 DEF PipeKill, AdvanceOnly, PipeTypeOK, PCs, Ends
  <1>22. CASE UNCHANGED pipestate
    BY <1>22 DEF pipestate, PipeTypeOK, PCs, Ends
  <1> QED BY <1>1, <1>2, <1>3, <1>4, <1>5, <1>6, <1>7, <1>8, <1>9, <1>10, <1>11, <1>12,
         <1>13, <1>14, <1>15, <1>16, <1>17, <1>18, <1>19, <1>20, <1>21, <1>22
          DEF PipeNext, PipeRun, UserStep, WriteTurn, ReadWait, ReadTurn

\* Nobody loses pi->lock to another process.
LEMMA StepLock ==
  ASSUME PipeTypeOK, LockInv, [PipeNext]_pipestate
  PROVE  LockInv'
  <1> USE Sizes DEF pipevars, filevars
  <1>1. ASSUME NEW p \in PipeProcs, WriteStop(p)
        PROVE  LockInv'
    BY <1>1 DEF WriteStop, InWriteLoop, AdvanceOnly, CallEnds, PipeTypeOK, LockInv,
           PipeLocked, PCs
  <1>2. ASSUME NEW p \in PipeProcs, WriteFull(p)
        PROVE  LockInv'
    BY <1>2 DEF WriteFull, InWriteLoop, WakeOnFull, WakePipeReaders, Wakeup, PipeTypeOK,
           LockInv, PipeLocked, PCs
  <1>3. ASSUME NEW p \in PipeProcs, PutByte(p)
        PROVE  LockInv'
    BY <1>3 DEF PutByte, InWriteLoop, PipeTypeOK, LockInv, PipeLocked, PCs
  <1>4. ASSUME NEW p \in PipeProcs, WriteFault(p)
        PROVE  LockInv'
    BY <1>4 DEF WriteFault, InWriteLoop, WakePipeReaders, Wakeup, CallEnds, PipeTypeOK,
           LockInv, PipeLocked, PCs
  <1>5. ASSUME NEW p \in PipeProcs, WriteSleep(p)
        PROVE  LockInv'
    BY <1>5 DEF WriteSleep, AdvanceOnly, PipeTypeOK, LockInv, PipeLocked, PCs
  <1>6. ASSUME NEW p \in PipeProcs, WriteDone(p)
        PROVE  LockInv'
    BY <1>6 DEF WriteDone, WakePipeReaders, Wakeup, PipeTypeOK, LockInv, PipeLocked, PCs
  <1>7. ASSUME NEW p \in PipeProcs, ReadReady(p)
        PROVE  LockInv'
    BY <1>7 DEF ReadReady, AdvanceOnly, PipeTypeOK, LockInv, PipeLocked, PCs
  <1>8. ASSUME NEW p \in PipeProcs, ReadStop(p)
        PROVE  LockInv'
    BY <1>8 DEF ReadStop, AdvanceOnly, CallEnds, PipeTypeOK, LockInv, PipeLocked, PCs
  <1>9. ASSUME NEW p \in PipeProcs, ReadEmpty(p)
        PROVE  LockInv'
    BY <1>9 DEF ReadEmpty, AdvanceOnly, PipeTypeOK, LockInv, PipeLocked, PCs
  <1>10. ASSUME NEW p \in PipeProcs, ReadSleep(p)
        PROVE  LockInv'
    BY <1>10 DEF ReadSleep, AdvanceOnly, PipeTypeOK, LockInv, PipeLocked, PCs
  <1>11. ASSUME NEW p \in PipeProcs, GetByte(p)
        PROVE  LockInv'
    BY <1>11 DEF GetByte, InReadLoop, PipeTypeOK, LockInv, PipeLocked, PCs
  <1>12. ASSUME NEW p \in PipeProcs, ReadFault(p)
        PROVE  LockInv'
    BY <1>12 DEF ReadFault, InReadLoop, WakeAfterRead, WakePipeWriters, Wakeup,
           CallEnds, PipeTypeOK, LockInv, PipeLocked, PCs
  <1>13. ASSUME NEW p \in PipeProcs, ReadDone(p)
        PROVE  LockInv'
    BY <1>13 DEF ReadDone, WakeAfterRead, WakePipeWriters, Wakeup, CallEnds, PipeTypeOK,
           LockInv, PipeLocked, PCs
  <1>14. ASSUME NEW p \in PipeProcs, pipeclose(p)
        PROVE  LockInv'
    BY <1>14 DEF pipeclose, WakeOnClose, WakePipeReaders, WakePipeWriters, Wakeup,
           PipeTypeOK, LockInv, PipeLocked, PCs
  <1>15. ASSUME NEW p \in PipeProcs, FreePipe(p)
        PROVE  LockInv'
    BY <1>15 DEF FreePipe, AdvanceOnly, PipeTypeOK, LockInv, PipeLocked, PCs
  <1>16. ASSUME NEW p \in PipeProcs, NEW k \in 0..MaxN, SysWrite(p, k)
        PROVE  LockInv'
    BY <1>16 DEF SysWrite, AdvanceOnly, PipeTypeOK, LockInv, PipeLocked, PCs
  <1>17. ASSUME NEW p \in PipeProcs, NEW k \in 0..MaxN, SysRead(p, k)
        PROVE  LockInv'
    BY <1>17 DEF SysRead, AdvanceOnly, PipeTypeOK, LockInv, PipeLocked, PCs
  <1>18. ASSUME NEW p \in PipeProcs, NEW q \in PipeProcs, PipeFork(p, q)
        PROVE  LockInv'
    BY <1>18 DEF PipeFork, AdvanceOnly, PipeTypeOK, LockInv, PipeLocked, PCs
  <1>19. ASSUME NEW p \in PipeProcs, NEW e \in Ends, fileclose(p, e)
        PROVE  LockInv'
    BY <1>19 DEF fileclose, AdvanceOnly, LastFileRef, PipeTypeOK, LockInv, PipeLocked,
           PCs
  <1>20. ASSUME NEW p \in PipeProcs, PipeExit(p)
        PROVE  LockInv'
    BY <1>20 DEF PipeExit, AdvanceOnly, PipeTypeOK, LockInv, PipeLocked, PCs
  <1>21. ASSUME NEW p \in PipeProcs, PipeKill(p)
        PROVE  LockInv'
    BY <1>21 DEF PipeKill, AdvanceOnly, PipeTypeOK, LockInv, PipeLocked, PCs
  <1>22. CASE UNCHANGED pipestate
    BY <1>22 DEF pipestate, PipeTypeOK, LockInv, PipeLocked, PCs
  <1> QED BY <1>1, <1>2, <1>3, <1>4, <1>5, <1>6, <1>7, <1>8, <1>9, <1>10, <1>11, <1>12,
         <1>13, <1>14, <1>15, <1>16, <1>17, <1>18, <1>19, <1>20, <1>21, <1>22
          DEF PipeNext, PipeRun, UserStep, WriteTurn, ReadWait, ReadTurn

\* An end is closed once, by the process that dropped the last descriptor.
LEMMA StepOpen ==
  ASSUME PipeTypeOK, RefInv, OpenInv, [PipeNext]_pipestate
  PROVE  OpenInv'
  <1> USE Sizes DEF pipevars, filevars
  <1>1. ASSUME NEW p \in PipeProcs, WriteStop(p)
        PROVE  OpenInv'
    BY <1>1 DEF WriteStop, InWriteLoop, AdvanceOnly, CallEnds, PipeTypeOK, OpenInv, PCs,
           Ends
  <1>2. ASSUME NEW p \in PipeProcs, WriteFull(p)
        PROVE  OpenInv'
    BY <1>2 DEF WriteFull, InWriteLoop, WakeOnFull, WakePipeReaders, Wakeup, PipeTypeOK,
           OpenInv, PCs, Ends
  <1>3. ASSUME NEW p \in PipeProcs, PutByte(p)
        PROVE  OpenInv'
    BY <1>3 DEF PutByte, InWriteLoop, PipeTypeOK, OpenInv, PCs, Ends
  <1>4. ASSUME NEW p \in PipeProcs, WriteFault(p)
        PROVE  OpenInv'
    BY <1>4 DEF WriteFault, InWriteLoop, WakePipeReaders, Wakeup, CallEnds, PipeTypeOK,
           OpenInv, PCs, Ends
  <1>5. ASSUME NEW p \in PipeProcs, WriteSleep(p)
        PROVE  OpenInv'
    BY <1>5 DEF WriteSleep, AdvanceOnly, PipeTypeOK, OpenInv, PCs, Ends
  <1>6. ASSUME NEW p \in PipeProcs, WriteDone(p)
        PROVE  OpenInv'
    BY <1>6 DEF WriteDone, WakePipeReaders, Wakeup, PipeTypeOK, OpenInv, PCs, Ends
  <1>7. ASSUME NEW p \in PipeProcs, ReadReady(p)
        PROVE  OpenInv'
    BY <1>7 DEF ReadReady, AdvanceOnly, PipeTypeOK, OpenInv, PCs, Ends
  <1>8. ASSUME NEW p \in PipeProcs, ReadStop(p)
        PROVE  OpenInv'
    BY <1>8 DEF ReadStop, AdvanceOnly, CallEnds, PipeTypeOK, OpenInv, PCs, Ends
  <1>9. ASSUME NEW p \in PipeProcs, ReadEmpty(p)
        PROVE  OpenInv'
    BY <1>9 DEF ReadEmpty, AdvanceOnly, PipeTypeOK, OpenInv, PCs, Ends
  <1>10. ASSUME NEW p \in PipeProcs, ReadSleep(p)
        PROVE  OpenInv'
    BY <1>10 DEF ReadSleep, AdvanceOnly, PipeTypeOK, OpenInv, PCs, Ends
  <1>11. ASSUME NEW p \in PipeProcs, GetByte(p)
        PROVE  OpenInv'
    BY <1>11 DEF GetByte, InReadLoop, PipeTypeOK, OpenInv, PCs, Ends
  <1>12. ASSUME NEW p \in PipeProcs, ReadFault(p)
        PROVE  OpenInv'
    BY <1>12 DEF ReadFault, InReadLoop, WakeAfterRead, WakePipeWriters, Wakeup,
           CallEnds, PipeTypeOK, OpenInv, PCs, Ends
  <1>13. ASSUME NEW p \in PipeProcs, ReadDone(p)
        PROVE  OpenInv'
    BY <1>13 DEF ReadDone, WakeAfterRead, WakePipeWriters, Wakeup, CallEnds, PipeTypeOK,
           OpenInv, PCs, Ends
  <1>14. ASSUME NEW p \in PipeProcs, pipeclose(p)
        PROVE  OpenInv'
    BY <1>14 DEF pipeclose, WakeOnClose, WakePipeReaders, WakePipeWriters, Wakeup,
           PipeTypeOK, OpenInv, PCs, Ends
  <1>15. ASSUME NEW p \in PipeProcs, FreePipe(p)
        PROVE  OpenInv'
    BY <1>15 DEF FreePipe, AdvanceOnly, PipeTypeOK, OpenInv, PCs, Ends
  <1>16. ASSUME NEW p \in PipeProcs, NEW k \in 0..MaxN, SysWrite(p, k)
        PROVE  OpenInv'
    BY <1>16 DEF SysWrite, AdvanceOnly, PipeTypeOK, OpenInv, PCs, Ends
  <1>17. ASSUME NEW p \in PipeProcs, NEW k \in 0..MaxN, SysRead(p, k)
        PROVE  OpenInv'
    BY <1>17 DEF SysRead, AdvanceOnly, PipeTypeOK, OpenInv, PCs, Ends
  <1>18. ASSUME NEW p \in PipeProcs, NEW q \in PipeProcs, PipeFork(p, q)
        PROVE  OpenInv'
    <2>1. \A e \in holds[p] : (e = "r" => readopen) /\ (e = "w" => writeopen)
      BY HeldIsOpen
    <2>2. UNCHANGED <<readopen, writeopen, freed>> /\ "r" \in Ends /\ "w" \in Ends
      BY <1>18 DEF PipeFork, Ends
    <2>3. fref'["r"] > 0 => readopen
      BY <1>18, <2>1, <2>2 DEF PipeFork, OpenInv, PipeTypeOK
    <2>4. fref'["w"] > 0 => writeopen
      BY <1>18, <2>1, <2>2 DEF PipeFork, OpenInv, PipeTypeOK
    <2>5. ("r" \in holds[p] => fref["r"] > 0) /\ ("w" \in holds[p] => fref["w"] > 0)
      BY HeldIsOpen
    <2>6. \A x \in PipeProcs : ppc'[x] = ppc[x] \/ ppc'[x] = "user"
      BY <1>18 DEF PipeFork, AdvanceOnly, PipeTypeOK
    <2>7. (fref["r"] = 0 => fref'["r"] = 0) /\ (fref["w"] = 0 => fref'["w"] = 0)
      BY <1>18, <2>2, <2>5 DEF PipeFork, PipeTypeOK
    <2> QED BY <2>2, <2>3, <2>4, <2>6, <2>7 DEF OpenInv
  <1>19. ASSUME NEW p \in PipeProcs, NEW e \in Ends, fileclose(p, e)
        PROVE  OpenInv'
    <2>1. fref[e] > 0 /\ (e = "r" => readopen) /\ (e = "w" => writeopen)
      BY <1>19, HeldIsOpen DEF fileclose
    <2> QED BY <1>19, <2>1 DEF fileclose, AdvanceOnly, LastFileRef, PipeTypeOK, OpenInv, PCs, Ends
  <1>20. ASSUME NEW p \in PipeProcs, PipeExit(p)
        PROVE  OpenInv'
    BY <1>20 DEF PipeExit, AdvanceOnly, PipeTypeOK, OpenInv, PCs, Ends
  <1>21. ASSUME NEW p \in PipeProcs, PipeKill(p)
        PROVE  OpenInv'
    BY <1>21 DEF PipeKill, AdvanceOnly, PipeTypeOK, OpenInv, PCs, Ends
  <1>22. CASE UNCHANGED pipestate
    BY <1>22 DEF pipestate, PipeTypeOK, OpenInv, PCs, Ends
  <1> QED BY <1>1, <1>2, <1>3, <1>4, <1>5, <1>6, <1>7, <1>8, <1>9, <1>10, <1>11, <1>12,
         <1>13, <1>14, <1>15, <1>16, <1>17, <1>18, <1>19, <1>20, <1>21, <1>22
          DEF PipeNext, PipeRun, UserStep, WriteTurn, ReadWait, ReadTurn

\* Nobody falls asleep, or is left asleep, without a reason.
LEMMA StepSleep ==
  ASSUME PipeTypeOK, LockInv, RefInv, CallInv, OpenInv, SleepInv, [PipeNext]_pipestate
  PROVE  SleepInv'
  <1> USE Sizes DEF pipevars, filevars
  <1>1. ASSUME NEW p \in PipeProcs, WriteStop(p)
        PROVE  SleepInv'
    <2>1. ASSUME NEW q \in PipeProcs, ppc[q] = "rsleep"
          PROVE  readopen
      BY <2>1, HeldIsOpen DEF CallInv, InPiperead
    <2> QED BY <1>1, <2>1 DEF WriteStop, InWriteLoop, AdvanceOnly, PipeTypeOK, LockInv,
                              SleepInv, Full, Empty, PipeLocked
  <1>2. ASSUME NEW p \in PipeProcs, WriteFull(p)
        PROVE  SleepInv'
    BY <1>2 DEF WriteFull, InWriteLoop, WakeOnFull, WakePipeReaders, Wakeup, PipeTypeOK,
           LockInv, SleepInv, Full, Empty, PipeLocked
  <1>3. ASSUME NEW p \in PipeProcs, PutByte(p)
        PROVE  SleepInv'
    BY <1>3 DEF PutByte, InWriteLoop, PipeTypeOK, LockInv, SleepInv, Full, Empty,
           PipeLocked
  <1>4. ASSUME NEW p \in PipeProcs, WriteFault(p)
        PROVE  SleepInv'
    BY <1>4 DEF WriteFault, InWriteLoop, WakePipeReaders, Wakeup, CallEnds, PipeTypeOK,
           LockInv, SleepInv, Full, Empty, PipeLocked
  <1>5. ASSUME NEW p \in PipeProcs, WriteSleep(p)
        PROVE  SleepInv'
    BY <1>5 DEF WriteSleep, AdvanceOnly, PipeTypeOK, LockInv, SleepInv, Full, Empty,
           PipeLocked
  <1>6. ASSUME NEW p \in PipeProcs, WriteDone(p)
        PROVE  SleepInv'
    BY <1>6 DEF WriteDone, WakePipeReaders, Wakeup, PipeTypeOK, LockInv, SleepInv, Full,
           Empty, PipeLocked
  <1>7. ASSUME NEW p \in PipeProcs, ReadReady(p)
        PROVE  SleepInv'
    BY <1>7 DEF ReadReady, AdvanceOnly, PipeTypeOK, LockInv, SleepInv, Full, Empty,
           PipeLocked
  <1>8. ASSUME NEW p \in PipeProcs, ReadStop(p)
        PROVE  SleepInv'
    BY <1>8 DEF ReadStop, AdvanceOnly, CallEnds, PipeTypeOK, LockInv, SleepInv, Full,
           Empty, PipeLocked
  <1>9. ASSUME NEW p \in PipeProcs, ReadEmpty(p)
        PROVE  SleepInv'
    BY <1>9 DEF ReadEmpty, AdvanceOnly, PipeTypeOK, LockInv, SleepInv, Full, Empty,
           PipeLocked
  <1>10. ASSUME NEW p \in PipeProcs, ReadSleep(p)
        PROVE  SleepInv'
    BY <1>10 DEF ReadSleep, AdvanceOnly, PipeTypeOK, LockInv, SleepInv, Full, Empty,
           PipeLocked
  <1>11. ASSUME NEW p \in PipeProcs, GetByte(p)
        PROVE  SleepInv'
    BY <1>11 DEF GetByte, InReadLoop, PipeTypeOK, LockInv, SleepInv, Full, Empty,
           PipeLocked
  <1>12. ASSUME NEW p \in PipeProcs, ReadFault(p)
        PROVE  SleepInv'
    BY <1>12 DEF ReadFault, InReadLoop, WakeAfterRead, WakePipeWriters, Wakeup,
           CallEnds, PipeTypeOK, LockInv, SleepInv, Full, Empty, PipeLocked
  <1>13. ASSUME NEW p \in PipeProcs, ReadDone(p)
        PROVE  SleepInv'
    BY <1>13 DEF ReadDone, WakeAfterRead, WakePipeWriters, Wakeup, CallEnds, PipeTypeOK,
           LockInv, SleepInv, Full, Empty, PipeLocked
  <1>14. ASSUME NEW p \in PipeProcs, pipeclose(p)
        PROVE  SleepInv'
    BY <1>14 DEF pipeclose, WakeOnClose, WakePipeReaders, WakePipeWriters, Wakeup,
           PipeTypeOK, LockInv, SleepInv, Full, Empty, PipeLocked
  <1>15. ASSUME NEW p \in PipeProcs, FreePipe(p)
        PROVE  SleepInv'
    BY <1>15 DEF FreePipe, AdvanceOnly, PipeTypeOK, LockInv, SleepInv, Full, Empty,
           PipeLocked
  <1>16. ASSUME NEW p \in PipeProcs, NEW k \in 0..MaxN, SysWrite(p, k)
        PROVE  SleepInv'
    BY <1>16 DEF SysWrite, AdvanceOnly, PipeTypeOK, LockInv, SleepInv, Full, Empty,
           PipeLocked
  <1>17. ASSUME NEW p \in PipeProcs, NEW k \in 0..MaxN, SysRead(p, k)
        PROVE  SleepInv'
    BY <1>17 DEF SysRead, AdvanceOnly, PipeTypeOK, LockInv, SleepInv, Full, Empty,
           PipeLocked
  <1>18. ASSUME NEW p \in PipeProcs, NEW q \in PipeProcs, PipeFork(p, q)
        PROVE  SleepInv'
    BY <1>18 DEF PipeFork, AdvanceOnly, PipeTypeOK, LockInv, SleepInv, Full, Empty,
           PipeLocked
  <1>19. ASSUME NEW p \in PipeProcs, NEW e \in Ends, fileclose(p, e)
        PROVE  SleepInv'
    BY <1>19 DEF fileclose, AdvanceOnly, LastFileRef, PipeTypeOK, LockInv, SleepInv,
           Full, Empty, PipeLocked
  <1>20. ASSUME NEW p \in PipeProcs, PipeExit(p)
        PROVE  SleepInv'
    BY <1>20 DEF PipeExit, AdvanceOnly, PipeTypeOK, LockInv, SleepInv, Full, Empty,
           PipeLocked
  <1>21. ASSUME NEW p \in PipeProcs, PipeKill(p)
        PROVE  SleepInv'
    BY <1>21 DEF PipeKill, AdvanceOnly, PipeTypeOK, LockInv, SleepInv, Full, Empty,
           PipeLocked
  <1>22. CASE UNCHANGED pipestate
    BY <1>22 DEF pipestate, PipeTypeOK, LockInv, SleepInv, Full, Empty, PipeLocked
  <1> QED BY <1>1, <1>2, <1>3, <1>4, <1>5, <1>6, <1>7, <1>8, <1>9, <1>10, <1>11, <1>12,
         <1>13, <1>14, <1>15, <1>16, <1>17, <1>18, <1>19, <1>20, <1>21, <1>22
          DEF PipeNext, PipeRun, UserStep, WriteTurn, ReadWait, ReadTurn

\* Nobody is in a call without its descriptor.
LEMMA StepCall ==
  ASSUME PipeTypeOK, CallInv, [PipeNext]_pipestate
  PROVE  CallInv'
  <1> USE Sizes DEF pipevars, filevars
  <1>1. ASSUME NEW p \in PipeProcs, WriteStop(p)
        PROVE  CallInv'
    BY <1>1 DEF WriteStop, InWriteLoop, AdvanceOnly, CallEnds, PipeTypeOK, CallInv,
           InPipewrite, InPiperead, PCs, Ends
  <1>2. ASSUME NEW p \in PipeProcs, WriteFull(p)
        PROVE  CallInv'
    BY <1>2 DEF WriteFull, InWriteLoop, WakeOnFull, WakePipeReaders, Wakeup, PipeTypeOK,
           CallInv, InPipewrite, InPiperead, PCs, Ends
  <1>3. ASSUME NEW p \in PipeProcs, PutByte(p)
        PROVE  CallInv'
    BY <1>3 DEF PutByte, InWriteLoop, PipeTypeOK, CallInv, InPipewrite, InPiperead, PCs,
           Ends
  <1>4. ASSUME NEW p \in PipeProcs, WriteFault(p)
        PROVE  CallInv'
    BY <1>4 DEF WriteFault, InWriteLoop, WakePipeReaders, Wakeup, CallEnds, PipeTypeOK,
           CallInv, InPipewrite, InPiperead, PCs, Ends
  <1>5. ASSUME NEW p \in PipeProcs, WriteSleep(p)
        PROVE  CallInv'
    BY <1>5 DEF WriteSleep, AdvanceOnly, PipeTypeOK, CallInv, InPipewrite, InPiperead,
           PCs, Ends
  <1>6. ASSUME NEW p \in PipeProcs, WriteDone(p)
        PROVE  CallInv'
    BY <1>6 DEF WriteDone, WakePipeReaders, Wakeup, PipeTypeOK, CallInv, InPipewrite,
           InPiperead, PCs, Ends
  <1>7. ASSUME NEW p \in PipeProcs, ReadReady(p)
        PROVE  CallInv'
    BY <1>7 DEF ReadReady, AdvanceOnly, PipeTypeOK, CallInv, InPipewrite, InPiperead,
           PCs, Ends
  <1>8. ASSUME NEW p \in PipeProcs, ReadStop(p)
        PROVE  CallInv'
    BY <1>8 DEF ReadStop, AdvanceOnly, CallEnds, PipeTypeOK, CallInv, InPipewrite,
           InPiperead, PCs, Ends
  <1>9. ASSUME NEW p \in PipeProcs, ReadEmpty(p)
        PROVE  CallInv'
    BY <1>9 DEF ReadEmpty, AdvanceOnly, PipeTypeOK, CallInv, InPipewrite, InPiperead,
           PCs, Ends
  <1>10. ASSUME NEW p \in PipeProcs, ReadSleep(p)
        PROVE  CallInv'
    BY <1>10 DEF ReadSleep, AdvanceOnly, PipeTypeOK, CallInv, InPipewrite, InPiperead,
           PCs, Ends
  <1>11. ASSUME NEW p \in PipeProcs, GetByte(p)
        PROVE  CallInv'
    BY <1>11 DEF GetByte, InReadLoop, PipeTypeOK, CallInv, InPipewrite, InPiperead, PCs,
           Ends
  <1>12. ASSUME NEW p \in PipeProcs, ReadFault(p)
        PROVE  CallInv'
    BY <1>12 DEF ReadFault, InReadLoop, WakeAfterRead, WakePipeWriters, Wakeup,
           CallEnds, PipeTypeOK, CallInv, InPipewrite, InPiperead, PCs, Ends
  <1>13. ASSUME NEW p \in PipeProcs, ReadDone(p)
        PROVE  CallInv'
    BY <1>13 DEF ReadDone, WakeAfterRead, WakePipeWriters, Wakeup, CallEnds, PipeTypeOK,
           CallInv, InPipewrite, InPiperead, PCs, Ends
  <1>14. ASSUME NEW p \in PipeProcs, pipeclose(p)
        PROVE  CallInv'
    BY <1>14 DEF pipeclose, WakeOnClose, WakePipeReaders, WakePipeWriters, Wakeup,
           PipeTypeOK, CallInv, InPipewrite, InPiperead, PCs, Ends
  <1>15. ASSUME NEW p \in PipeProcs, FreePipe(p)
        PROVE  CallInv'
    BY <1>15 DEF FreePipe, AdvanceOnly, PipeTypeOK, CallInv, InPipewrite, InPiperead,
           PCs, Ends
  <1>16. ASSUME NEW p \in PipeProcs, NEW k \in 0..MaxN, SysWrite(p, k)
        PROVE  CallInv'
    BY <1>16 DEF SysWrite, AdvanceOnly, PipeTypeOK, CallInv, InPipewrite, InPiperead,
           PCs, Ends
  <1>17. ASSUME NEW p \in PipeProcs, NEW k \in 0..MaxN, SysRead(p, k)
        PROVE  CallInv'
    BY <1>17 DEF SysRead, AdvanceOnly, PipeTypeOK, CallInv, InPipewrite, InPiperead,
           PCs, Ends
  <1>18. ASSUME NEW p \in PipeProcs, NEW q \in PipeProcs, PipeFork(p, q)
        PROVE  CallInv'
    BY <1>18 DEF PipeFork, AdvanceOnly, PipeTypeOK, CallInv, InPipewrite, InPiperead,
           PCs, Ends
  <1>19. ASSUME NEW p \in PipeProcs, NEW e \in Ends, fileclose(p, e)
        PROVE  CallInv'
    BY <1>19 DEF fileclose, AdvanceOnly, LastFileRef, PipeTypeOK, CallInv, InPipewrite,
           InPiperead, PCs, Ends
  <1>20. ASSUME NEW p \in PipeProcs, PipeExit(p)
        PROVE  CallInv'
    BY <1>20 DEF PipeExit, AdvanceOnly, PipeTypeOK, CallInv, InPipewrite, InPiperead,
           PCs, Ends
  <1>21. ASSUME NEW p \in PipeProcs, PipeKill(p)
        PROVE  CallInv'
    BY <1>21 DEF PipeKill, AdvanceOnly, PipeTypeOK, CallInv, InPipewrite, InPiperead,
           PCs, Ends
  <1>22. CASE UNCHANGED pipestate
    BY <1>22 DEF pipestate, PipeTypeOK, CallInv, InPipewrite, InPiperead, PCs, Ends
  <1> QED BY <1>1, <1>2, <1>3, <1>4, <1>5, <1>6, <1>7, <1>8, <1>9, <1>10, <1>11, <1>12,
         <1>13, <1>14, <1>15, <1>16, <1>17, <1>18, <1>19, <1>20, <1>21, <1>22
          DEF PipeNext, PipeRun, UserStep, WriteTurn, ReadWait, ReadTurn

\* f->ref stays exact: only fork and close change it.
LEMMA StepRef ==
  ASSUME PipeTypeOK, RefInv, CallInv, OpenInv, [PipeNext]_pipestate
  PROVE  RefInv'
  <1>1. CASE UNCHANGED <<fref, holds>>
    <2>1. \A e \in Ends : HoldersOf(e)' = HoldersOf(e)
      BY <1>1 DEF HoldersOf
    <2> QED BY <1>1, <2>1 DEF RefInv
  <1>2. ASSUME NEW p \in PipeProcs, NEW q \in PipeProcs, PipeFork(p, q)
        PROVE  RefInv'
    <2>1. q # p /\ holds[q] = {}
      BY <1>2 DEF PipeFork, CallInv
    <2> SUFFICES ASSUME NEW e \in Ends
                 PROVE  fref'[e] = Cardinality(HoldersOf(e)')
      BY DEF RefInv
    <2>2. CASE e \in holds[p]
      <3>1. HoldersOf(e)' = HoldersOf(e) \cup {q} /\ q \notin HoldersOf(e)
        BY <1>2, <2>1, <2>2 DEF PipeFork, HoldersOf, PipeTypeOK
      <3>2. Cardinality(HoldersOf(e) \cup {q}) = Cardinality(HoldersOf(e)) + 1
        BY <3>1, HoldersFinite, FS_AddElement
      <3> QED BY <1>2, <2>2, <3>1, <3>2 DEF PipeFork, RefInv
    <2>3. CASE e \notin holds[p]
      <3>1. HoldersOf(e)' = HoldersOf(e)
        BY <1>2, <2>1, <2>3 DEF PipeFork, HoldersOf, PipeTypeOK
      <3> QED BY <1>2, <2>3, <3>1 DEF PipeFork, RefInv
    <2> QED BY <2>2, <2>3
  <1>3. ASSUME NEW p \in PipeProcs, NEW e \in Ends, fileclose(p, e)
        PROVE  RefInv'
    <2> SUFFICES ASSUME NEW d \in Ends
                 PROVE  fref'[d] = Cardinality(HoldersOf(d)')
      BY DEF RefInv
    <2>1. CASE d = e
      <3>1. HoldersOf(e)' = HoldersOf(e) \ {p} /\ p \in HoldersOf(e)
        BY <1>3 DEF fileclose, HoldersOf, PipeTypeOK
      <3>2. Cardinality(HoldersOf(e) \ {p}) = Cardinality(HoldersOf(e)) - 1
        BY <3>1, HoldersFinite, FS_RemoveElement
      <3>3. fref'[e] = fref[e] - 1
        BY <1>3, HeldIsOpen DEF fileclose, LastFileRef, PipeTypeOK
      <3> QED BY <2>1, <3>1, <3>2, <3>3 DEF RefInv
    <2>2. CASE d # e
      <3>1. HoldersOf(d)' = HoldersOf(d)
        BY <1>3, <2>2 DEF fileclose, HoldersOf, PipeTypeOK
      <3> QED BY <1>3, <2>2, <3>1 DEF fileclose, RefInv, PipeTypeOK
    <2> QED BY <2>1, <2>2
  <1>4. \/ UNCHANGED <<fref, holds>>
        \/ \E p, q \in PipeProcs : PipeFork(p, q)
        \/ \E p \in PipeProcs, e \in Ends : fileclose(p, e)
    BY DEF PipeNext, PipeRun, UserStep, WriteTurn, ReadWait, ReadTurn, filevars, pipestate,
           WriteStop, WriteFull, PutByte, WriteFault, WriteSleep, WriteDone, ReadReady,
           ReadStop, ReadEmpty, ReadSleep, GetByte, ReadFault, ReadDone, pipeclose,
           FreePipe, SysWrite, SysRead, PipeExit, PipeKill
  <1> QED BY <1>1, <1>2, <1>3, <1>4

-----------------------------------------------------------------------------
(* Arithmetic of the counters                                              *)

LEMMA IncrementedIs ==
  \A n \in 0..PUINT-1 : Incremented(n) = IF n = PUINT - 1 THEN 0 ELSE n + 1
  <1> SUFFICES ASSUME NEW n \in 0..PUINT-1
               PROVE  Incremented(n) = IF n = PUINT - 1 THEN 0 ELSE n + 1
    OBVIOUS
  <1>1. CASE n = PUINT - 1
    BY <1>1, Sizes, ModAbove DEF Incremented
  <1>2. CASE n # PUINT - 1
    <2>1. n + 1 \in 0..PUINT-1
      BY <1>2, Sizes
    <2> QED BY <1>2, <2>1, Sizes, ModBelow DEF Incremented
  <1> QED BY <1>1, <1>2

\* The distance from r to w, counting upwards and around.
LEMMA Distance ==
  ASSUME NEW r \in 0..PUINT-1, NEW w \in 0..PUINT-1
  PROVE  /\ (w - r) % PUINT = IF r <= w THEN w - r ELSE w - r + PUINT
         /\ (w - r) % PUINT \in 0..PUINT-1
  <1>1. CASE r <= w
    <2>1. w - r \in 0..PUINT-1
      BY <1>1, Sizes
    <2> QED BY <1>1, <2>1, Sizes, ModBelow
  <1>2. CASE ~(r <= w)
    <2>1. w - r \in Int /\ -PUINT <= w - r /\ w - r < 0
      BY <1>2, Sizes
    <2>2. (w - r) % PUINT = (w - r) + PUINT
      BY <2>1, Sizes, ModNegative
    <2> QED BY <1>2, <2>2, <2>1, Sizes
  <1> QED BY <1>1, <1>2

\* The tests of the code compare the counters, and mean the occupancy.
LEMMA FullEmptyMean ==
  ASSUME PipeTypeOK
  PROVE  (Full <=> Occupancy = PIPESIZE) /\ (Empty <=> Occupancy = 0)
  <1>1. nread \in 0..PUINT-1 /\ nwrite \in 0..PUINT-1
    BY DEF PipeTypeOK
  <1> DEFINE sum == (nread + PIPESIZE) % PUINT
  <1>2. Full <=> nwrite = sum
    BY DEF Full
  <1>3. sum = IF nread + PIPESIZE < PUINT THEN nread + PIPESIZE ELSE (nread + PIPESIZE) - PUINT
    <2>1. CASE nread + PIPESIZE < PUINT
      <3>1. nread + PIPESIZE \in 0..PUINT-1
        BY <2>1, <1>1, Sizes
      <3> QED BY <2>1, <3>1, Sizes, ModBelow
    <2>2. CASE ~(nread + PIPESIZE < PUINT)
      <3>1. nread + PIPESIZE \in PUINT..2*PUINT-1
        BY <2>2, <1>1, Sizes
      <3>2. \A x \in PUINT..2*PUINT-1 : x % PUINT = x - PUINT
        BY Sizes, ModAbove
      <3>3. (nread + PIPESIZE) % PUINT = (nread + PIPESIZE) - PUINT
        BY <3>1, <3>2, Zenon
      <3>4. sum = (nread + PIPESIZE) - PUINT
        BY <3>3, Zenon
      <3> HIDE DEF sum
      <3> QED BY <2>2, <3>4
    <2> QED BY <2>1, <2>2
  <1> HIDE DEF sum
  <1>4. Occupancy = IF nread <= nwrite THEN nwrite - nread ELSE nwrite - nread + PUINT
    BY <1>1, Distance DEF Occupancy
  <1> QED BY <1>1, <1>2, <1>3, <1>4, Sizes DEF Empty

LEMMA OccupancyPut ==
  ASSUME PipeTypeOK, Occupancy <= PIPESIZE, ~Full,
         nwrite' = Incremented(nwrite), nread' = nread
  PROVE  Occupancy' = Occupancy + 1 /\ Occupancy < PIPESIZE
  <1>1. nread \in 0..PUINT-1 /\ nwrite \in 0..PUINT-1 /\ nwrite' \in 0..PUINT-1
    BY IncrementedType DEF PipeTypeOK
  <1>2. Occupancy = IF nread <= nwrite THEN nwrite - nread ELSE nwrite - nread + PUINT
    BY <1>1, Distance DEF Occupancy
  <1>3. Occupancy' = IF nread <= nwrite' THEN nwrite' - nread ELSE nwrite' - nread + PUINT
    BY <1>1, Distance DEF Occupancy
  <1>4. Occupancy < PIPESIZE
    BY <1>1, <1>2, FullEmptyMean, Sizes
  <1>5. nwrite' = IF nwrite = PUINT - 1 THEN 0 ELSE nwrite + 1
    BY <1>1, IncrementedIs
  <1> QED BY <1>1, <1>2, <1>3, <1>4, <1>5, Sizes

LEMMA OccupancyGet ==
  ASSUME PipeTypeOK, ~Empty, nread' = Incremented(nread), nwrite' = nwrite
  PROVE  Occupancy' = Occupancy - 1 /\ Occupancy > 0
  <1>1. nread \in 0..PUINT-1 /\ nwrite \in 0..PUINT-1 /\ nread' \in 0..PUINT-1
    BY IncrementedType DEF PipeTypeOK
  <1>2. Occupancy = IF nread <= nwrite THEN nwrite - nread ELSE nwrite - nread + PUINT
    BY <1>1, Distance DEF Occupancy
  <1>3. Occupancy' = IF nread' <= nwrite THEN nwrite - nread' ELSE nwrite - nread' + PUINT
    BY <1>1, Distance DEF Occupancy
  <1>4. nread' = IF nread = PUINT - 1 THEN 0 ELSE nread + 1
    BY <1>1, IncrementedIs
  <1>5. nread # nwrite
    BY DEF Empty
  <1> QED BY <1>1, <1>2, <1>3, <1>4, <1>5, Sizes

\* The counters move only in PutByte, GetByte and ReadFault.
LEMMA StepCounters ==
  ASSUME [PipeNext]_pipestate
  PROVE  \/ UNCHANGED <<pidata, nread, nwrite>>
         \/ \E p \in PipeProcs : PutByte(p) \/ GetByte(p) \/ ReadFault(p)
  BY DEF PipeNext, PipeRun, UserStep, WriteTurn, ReadWait, ReadTurn, pipevars, pipestate,
         WriteStop, WriteFull, WriteFault, WriteSleep, WriteDone, ReadReady, ReadStop,
         ReadEmpty, ReadSleep, ReadDone, pipeclose, FreePipe, SysWrite, SysRead, PipeFork,
         fileclose, PipeExit, PipeKill

\* No byte is written over one that has not been read.
LEMMA StepOccupancy ==
  ASSUME PipeTypeOK, Occupancy <= PIPESIZE, [PipeNext]_pipestate
  PROVE  Occupancy' <= PIPESIZE
  <1>1. CASE UNCHANGED <<pidata, nread, nwrite>>
    BY <1>1 DEF Occupancy
  <1>2. ASSUME NEW p \in PipeProcs, PutByte(p)
        PROVE  Occupancy' <= PIPESIZE
    <2>1. Occupancy \in Int
      BY Distance DEF PipeTypeOK, Occupancy
    <2>2. Occupancy' = Occupancy + 1 /\ Occupancy < PIPESIZE
      BY <1>2, OccupancyPut DEF PutByte
    <2> QED BY <2>1, <2>2, Sizes
  <1>3. ASSUME NEW p \in PipeProcs, GetByte(p) \/ ReadFault(p)
        PROVE  Occupancy' <= PIPESIZE
    <2>1. Occupancy \in Int
      BY Distance DEF PipeTypeOK, Occupancy
    <2>2. ~Empty /\ nread' = Incremented(nread) /\ nwrite' = nwrite
      BY <1>3 DEF GetByte, ReadFault, InReadLoop
    <2>3. Occupancy' = Occupancy - 1
      BY <2>2, OccupancyGet
    <2> QED BY <2>1, <2>3, Sizes
  <1> QED BY <1>1, <1>2, <1>3, StepCounters

-----------------------------------------------------------------------------
(* The invariant of a pipe                                                 *)

\* The conjunction of the parts is inductive.
LEMMA PipeInductive == PipeSpec => [](PipeTypeOK /\ PipeIInv)
  <1>1. PipeInit => PipeTypeOK /\ PipeIInv
    BY InitType, InitIInv
  <1>2. PipeTypeOK /\ PipeIInv /\ [PipeNext]_pipestate => (PipeTypeOK /\ PipeIInv)'
    BY StepType, StepLock, StepRef, StepCall, StepOpen, StepSleep, StepOccupancy DEF PipeIInv
  <1> QED BY <1>1, <1>2, PTL DEF PipeSpec

\* A freed pipe has no user: nobody can have a descriptor of a closed end.
LEMMA FreedIsUnused ==
  ASSUME PipeTypeOK, PipeIInv
  PROVE  NoUseAfterFree
  <1> USE DEF PipeIInv
  <1>1. freed <= 1
    BY DEF OpenInv
  <1>2. ASSUME freed = 1, NEW p \in PipeProcs
        PROVE  ~InPipe(p) /\ holds[p] = {}
    <2>1. ~readopen /\ ~writeopen
      BY <1>2 DEF OpenInv
    <2>2. holds[p] = {}
      BY <2>1, HeldIsOpen DEF PipeTypeOK, Ends
    <2> QED BY <1>2, <2>1, <2>2
            DEF InPipe, OpenInv, CallInv, InPipewrite, InPiperead, PipeTypeOK, PCs
  <1> QED BY <1>1, <1>2 DEF NoUseAfterFree

LEMMA AsleepForAReason ==
  ASSUME PipeTypeOK, PipeIInv
  PROVE  SleepForAReason
  BY Sizes DEF PipeIInv, SleepInv, SleepForAReason

\* kfree takes a pipe once and not under a process that is in pipewrite,
\* piperead or pipeclose or can get there, and nobody sleeps in a pipe whom
\* no event will wake, whatever processes fork, close, die and are killed.
THEOREM PipeSound == PipeSpec => []PipeInv
  <1>1. PipeTypeOK /\ PipeIInv => PipeInv
    BY FreedIsUnused, AsleepForAReason DEF PipeInv
  <1> QED BY <1>1, PipeInductive, PTL

-----------------------------------------------------------------------------
(* The ring buffer is a first-in first-out queue                           *)

\* Counters that have gone around lead to the same place of pi->data, since
\* their range is a multiple of PIPESIZE.
LEMMA IndexPeriodic == \A x \in Int : DataIndex(x + PUINT) = DataIndex(x)
  <1> SUFFICES ASSUME NEW x \in Int PROVE DataIndex(x + PUINT) = DataIndex(x)
    OBVIOUS
  <1> DEFINE k == PUINT \div PIPESIZE
  <1>1. k \in Int /\ PUINT = PIPESIZE * k + (PUINT % PIPESIZE)
    BY Sizes, ModDiv
  <1>2. PUINT % PIPESIZE = 0
    BY PipeAssumption DEF PipeAssumption
  <1> HIDE DEF k
  <1>3. PIPESIZE * k \in Int
    BY <1>1, Sizes, Z3
  <1>4. PUINT = PIPESIZE * k
    BY <1>1, <1>2, <1>3
  <1>5. (x + PIPESIZE * k) % PIPESIZE = x % PIPESIZE
    BY <1>1, Sizes, ModPeriodic
  <1> QED BY <1>4, <1>5 DEF DataIndex

LEMMA IndexType == \A x \in Int : DataIndex(x) \in 0..PIPESIZE-1
  BY Sizes, ModRange DEF DataIndex

\* The next byte goes right behind the last one.
LEMMA IndexOfEnd ==
  ASSUME PipeTypeOK
  PROVE  DataIndex(nwrite) = DataIndex(nread + Occupancy)
  <1>1. nread \in 0..PUINT-1 /\ nwrite \in 0..PUINT-1
    BY DEF PipeTypeOK
  <1>2. Occupancy = IF nread <= nwrite THEN nwrite - nread ELSE nwrite - nread + PUINT
    BY <1>1, Distance DEF Occupancy
  <1>3. nread + Occupancy = nwrite \/ nread + Occupancy = nwrite + PUINT
    BY <1>1, <1>2, Sizes
  <1> QED BY <1>1, <1>3, IndexPeriodic

\* The n bytes of d from the counter r on.
Ring(d, r, n) == [i \in 1..n |-> d[DataIndex(r + i - 1)]]

LEMMA RingIs ==
  ASSUME NEW d \in [0..PIPESIZE-1 -> PipeBytes], NEW r \in Nat, NEW n \in Nat
  PROVE  /\ Ring(d, r, n) \in Seq(PipeBytes)
         /\ Len(Ring(d, r, n)) = n
         /\ \A i \in 1..n : Ring(d, r, n)[i] = d[DataIndex(r + i - 1)]
  <1>1. \A i \in 1..n : r + i - 1 \in Int
    OBVIOUS
  <1>2. \A i \in 1..n : d[DataIndex(r + i - 1)] \in PipeBytes
    BY <1>1, IndexType
  <1>3. Ring(d, r, n) \in [1..n -> PipeBytes]
    BY <1>2 DEF Ring
  <1>4. Ring(d, r, n) \in Seq(PipeBytes) /\ Len(Ring(d, r, n)) = n
    BY <1>3
  <1> QED BY <1>4 DEF Ring

LEMMA ContentsAre ==
  ASSUME PipeTypeOK
  PROVE  /\ Occupancy \in Nat
         /\ PipeContents = Ring(pidata, nread, Occupancy)
         /\ PipeContents \in Seq(PipeBytes)
         /\ Len(PipeContents) = Occupancy
         /\ \A i \in 1..Occupancy : PipeContents[i] = pidata[DataIndex(nread + i - 1)]
  <1>1. Occupancy \in Nat /\ nread \in Nat
    BY Distance DEF PipeTypeOK, Occupancy
  <1>2. PipeContents = Ring(pidata, nread, Occupancy)
    BY DEF PipeContents, Ring
  <1> QED BY <1>1, <1>2, RingIs DEF PipeTypeOK

\* A byte that is put goes to the end and disturbs no other.
LEMMA PutAppends ==
  ASSUME PipeTypeOK, PipeTypeOK', Occupancy <= PIPESIZE, NEW p \in PipeProcs, PutByte(p)
  PROVE  \E ch \in PipeBytes : PipeContents' = Append(PipeContents, ch)
  <1>1. PICK ch \in PipeBytes : pidata' = [pidata EXCEPT ![DataIndex(nwrite)] = ch]
    BY DEF PutByte
  <1>2. Occupancy' = Occupancy + 1 /\ Occupancy < PIPESIZE /\ nread' = nread
    BY OccupancyPut DEF PutByte
  <1>3. Occupancy \in Nat /\ nread \in Nat
    BY ContentsAre DEF PipeTypeOK
  <1>4. PipeContents' = Ring(pidata', nread, Occupancy + 1)
    BY <1>2 DEF PipeContents, Ring
  <1>5. /\ PipeContents' \in Seq(PipeBytes)
        /\ Len(PipeContents') = Occupancy + 1
        /\ \A i \in 1..Occupancy + 1 : PipeContents'[i] = pidata'[DataIndex(nread + i - 1)]
    <2>1. Occupancy + 1 \in Nat
      BY <1>3
    <2>2. pidata' \in [0..PIPESIZE-1 -> PipeBytes]
      BY DEF PipeTypeOK
    <2> QED BY <2>1, <2>2, <1>3, <1>4, RingIs
  <1>6. ASSUME NEW i \in 1..Occupancy
        PROVE  pidata'[DataIndex(nread + i - 1)] = pidata[DataIndex(nread + i - 1)]
    <2>1. /\ nread + i - 1 \in Int /\ nread + Occupancy \in Int
          /\ nread + i - 1 < nread + Occupancy
          /\ nread + Occupancy < (nread + i - 1) + PIPESIZE
      BY <1>2, <1>3, Sizes
    <2>2. DataIndex(nread + i - 1) # DataIndex(nread + Occupancy)
      BY <2>1, Sizes, ModInjective DEF DataIndex
    <2>3. DataIndex(nread + i - 1) \in 0..PIPESIZE-1
      BY <2>1, IndexType
    <2> QED BY <1>1, <2>2, <2>3, IndexOfEnd DEF PipeTypeOK
  <1>7. pidata'[DataIndex(nread + (Occupancy + 1) - 1)] = ch
    <2>1. nread + (Occupancy + 1) - 1 = nread + Occupancy
      BY <1>3
    <2>2. DataIndex(nwrite) \in 0..PIPESIZE-1
      BY IndexType DEF PipeTypeOK
    <2> QED BY <1>1, <2>1, <2>2, IndexOfEnd DEF PipeTypeOK
  <1>8. /\ Append(PipeContents, ch) \in Seq(PipeBytes)
        /\ Len(Append(PipeContents, ch)) = Occupancy + 1
        /\ \A i \in 1..Occupancy : Append(PipeContents, ch)[i] = PipeContents[i]
        /\ Append(PipeContents, ch)[Occupancy + 1] = ch
    BY ContentsAre, AppendProperties
  <1>9. ASSUME NEW i \in 1..Occupancy + 1
        PROVE  PipeContents'[i] = Append(PipeContents, ch)[i]
    <2>1. CASE i = Occupancy + 1
      BY <2>1, <1>3, <1>5, <1>7, <1>8
    <2>2. CASE i \in 1..Occupancy
      BY <2>2, <1>5, <1>6, <1>8, ContentsAre
    <2>3. i = Occupancy + 1 \/ i \in 1..Occupancy
      BY <1>3
    <2> QED BY <2>1, <2>2, <2>3
  <1>10. PipeContents' = Append(PipeContents, ch)
    BY <1>5, <1>8, <1>9, SeqEqual
  <1> QED BY <1>10

\* The byte that a reader takes is the oldest one.
LEMMA GetTakesFirst ==
  ASSUME PipeTypeOK, ~Empty, nread' = Incremented(nread), UNCHANGED <<pidata, nwrite>>
  PROVE  PipeContents # <<>> /\ PipeContents' = Tail(PipeContents)
  <1>1. Occupancy' = Occupancy - 1 /\ Occupancy > 0
    BY OccupancyGet
  <1>2. Occupancy \in Nat /\ nread \in 0..PUINT-1 /\ nread' \in Nat
    <2>1. Occupancy \in Nat /\ nread \in 0..PUINT-1 /\ nread \in Nat
      BY ContentsAre DEF PipeTypeOK
    <2> QED BY <2>1, IncrementedType
  <1>3. PipeContents' = Ring(pidata, nread', Occupancy - 1)
    BY <1>1 DEF PipeContents, Ring
  <1>4. /\ PipeContents' \in Seq(PipeBytes)
        /\ Len(PipeContents') = Occupancy - 1
        /\ \A i \in 1..Occupancy - 1 : PipeContents'[i] = pidata[DataIndex(nread' + i - 1)]
    <2>1. Occupancy - 1 \in Nat
      BY <1>1, <1>2
    <2> QED BY <2>1, <1>2, <1>3, RingIs DEF PipeTypeOK
  <1>5. nread' = nread + 1 \/ nread' + PUINT = nread + 1
    BY <1>2, IncrementedIs, Sizes
  <1>6. ASSUME NEW i \in 1..Occupancy - 1
        PROVE  DataIndex(nread' + i - 1) = DataIndex(nread + (i + 1) - 1)
    <2>1. CASE nread' = nread + 1
      <3>1. nread' + i - 1 = nread + (i + 1) - 1
        BY <2>1, <1>2
      <3> QED BY <3>1
    <2>2. CASE nread' + PUINT = nread + 1
      <3>1. (nread' + i - 1) + PUINT = nread + (i + 1) - 1 /\ nread' + i - 1 \in Int
        BY <2>2, <1>2, Sizes
      <3> QED BY <3>1, IndexPeriodic
    <2> QED BY <2>1, <2>2, <1>5
  <1>7. PipeContents # <<>>
    BY <1>1, <1>2, ContentsAre
  <1>8. /\ Tail(PipeContents) \in Seq(PipeBytes)
        /\ Len(Tail(PipeContents)) = Occupancy - 1
        /\ \A i \in 1..Occupancy - 1 : Tail(PipeContents)[i] = PipeContents[i + 1]
    BY <1>7, ContentsAre, HeadTailProperties
  <1>9. ASSUME NEW i \in 1..Occupancy - 1
        PROVE  PipeContents'[i] = Tail(PipeContents)[i]
    <2>1. i + 1 \in 1..Occupancy
      BY <1>2
    <2>2. PipeContents[i + 1] = pidata[DataIndex(nread + (i + 1) - 1)]
      BY <2>1, ContentsAre
    <2> QED BY <2>2, <1>4, <1>6, <1>8
  <1> QED BY <1>4, <1>7, <1>8, <1>9, SeqEqual

\* Every step of the pipe is a step of the queue or leaves it alone.
LEMMA StepStream ==
  ASSUME PipeTypeOK, PipeTypeOK', PipeIInv, [PipeNext]_pipestate
  PROVE  [BS!BSNext]_BS!bsvars
  <1> USE DEF BS!BSNext, BS!bsvars, PipeIInv
  <1>1. ASSUME NEW p \in PipeProcs, PutByte(p)
        PROVE  BS!BSNext
    <2>1. PICK ch \in PipeBytes : PipeContents' = Append(PipeContents, ch)
      BY <1>1, PutAppends
    <2>2. readopen /\ UNCHANGED <<readopen, writeopen>>
      BY <1>1 DEF PutByte
    <2>3. writeopen
      BY <1>1, HeldIsOpen DEF PutByte, InWriteLoop, CallInv, InPipewrite
    <2>4. Len(PipeContents) < PIPESIZE
      BY <1>1, OccupancyPut, ContentsAre DEF PutByte
    <2> QED BY <2>1, <2>2, <2>3, <2>4 DEF BS!Put
  <1>2. ASSUME NEW p \in PipeProcs, GetByte(p) \/ ReadFault(p)
        PROVE  BS!BSNext
    <2>1. ppc[p] = "rcopy" /\ ~Empty /\ nread' = Incremented(nread) /\ UNCHANGED <<pidata, nwrite>>
      BY <1>2 DEF GetByte, ReadFault, InReadLoop
    <2>2. UNCHANGED <<readopen, writeopen>>
      BY <1>2 DEF GetByte, ReadFault
    <2>3. readopen
      BY <2>1, HeldIsOpen DEF CallInv, InPiperead
    <2>4. PipeContents # <<>> /\ PipeContents' = Tail(PipeContents)
      BY <2>1, GetTakesFirst
    <2> QED BY <2>2, <2>3, <2>4 DEF BS!Get
  <1>3. ASSUME NEW p \in PipeProcs, pipeclose(p)
        PROVE  BS!BSNext
    <2>1. UNCHANGED PipeContents
      BY <1>3 DEF pipeclose, PipeContents, Occupancy
    <2>2. CASE ppc[p] = "close_r"
      <3>1. readopen /\ readopen' = FALSE /\ writeopen' = writeopen
        BY <1>3, <2>2 DEF pipeclose, OpenInv, PipeTypeOK
      <3> QED BY <2>1, <3>1 DEF BS!Close
    <2>3. CASE ppc[p] = "close_w"
      <3>1. writeopen /\ writeopen' = FALSE /\ readopen' = readopen
        BY <1>3, <2>3 DEF pipeclose, OpenInv, PipeTypeOK
      <3> QED BY <2>1, <3>1 DEF BS!Close
    <2> QED BY <1>3, <2>2, <2>3 DEF pipeclose
  <1>4. CASE UNCHANGED <<pidata, nread, nwrite, readopen, writeopen>>
    BY <1>4 DEF PipeContents, Occupancy
  <1>5. \/ UNCHANGED <<pidata, nread, nwrite, readopen, writeopen>>
        \/ \E p \in PipeProcs : PutByte(p) \/ GetByte(p) \/ ReadFault(p) \/ pipeclose(p)
    BY DEF PipeNext, PipeRun, UserStep, WriteTurn, ReadWait, ReadTurn, pipevars, pipestate,
           WriteStop, WriteFull, WriteFault, WriteSleep, WriteDone, ReadReady, ReadStop,
           ReadEmpty, ReadSleep, ReadDone, FreePipe, SysWrite, SysRead, PipeFork,
           fileclose, PipeExit, PipeKill
  <1> QED BY <1>1, <1>2, <1>3, <1>4, <1>5

LEMMA InitStream == PipeInit => BS!BSInit
  <1> SUFFICES ASSUME PipeInit PROVE BS!BSInit
    OBVIOUS
  <1>1. PipeContents \in Seq(PipeBytes) /\ Len(PipeContents) = 0
    <2>1. Occupancy = 0
      BY InitType, FullEmptyMean DEF PipeInit, Empty
    <2> QED BY <2>1, InitType, ContentsAre
  <1>2. PipeContents = <<>>
    BY <1>1, EmptySeq
  <1> QED BY <1>2 DEF PipeInit, BS!BSInit

\* The ring buffer of a pipe and its wrapping counters implement a bounded
\* first-in first-out stream of bytes for every PIPESIZE and every number of
\* readers and writers.
THEOREM PipeIsFIFO == PipeSpec => FirstInFirstOut
  <1>1. PipeTypeOK /\ PipeTypeOK' /\ PipeIInv /\ [PipeNext]_pipestate => [BS!BSNext]_BS!bsvars
    BY StepStream
  <1> QED BY <1>1, InitStream, PipeInductive, PTL DEF PipeSpec, FirstInFirstOut, BS!BSSpec

-----------------------------------------------------------------------------
(* The console: how many bytes can meet in the transmit FIFO.              *)

OfPrintf == IF kprint = "write" THEN 1 ELSE 0
OfEcho == IF hand.pc = "write" THEN 1 ELSE 0

HandIsRecord == hand = [pc |-> hand.pc, c |-> hand.c, echo |-> hand.echo]
FifoIsSeq == (\E S : fifo \in Seq(S)) /\ Len(fifo) \in Nat

\* A byte is written only by who has seen the UART idle.  uartstart looks
\* and writes under uart_tx_lock; printf and the echo of the handler look
\* first and write later, each with one byte on its way.
FifoInv ==
  /\ HandIsRecord /\ FifoIsSeq
  /\ Len(fifo) + OfPrintf + OfEcho <= 3

LEMMA PendingBytes == OfPrintf \in 0..1 /\ OfEcho \in 0..1
  BY DEF OfPrintf, OfEcho

LEMMA OneMoreByte ==
  ASSUME \E S : fifo \in Seq(S), NEW e, fifo' = Append(fifo, e)
  PROVE  (\E S : fifo' \in Seq(S)) /\ Len(fifo) \in Nat /\ Len(fifo') = Len(fifo) + 1
<1>1. PICK S : fifo \in Seq(S)  OBVIOUS
<1>2. fifo \in Seq(S \cup {e})  BY <1>1
<1>3. fifo' \in Seq(S \cup {e}) /\ Len(fifo) \in Nat /\ Len(fifo') = Len(fifo) + 1  BY <1>2
<1> QED  BY <1>3

LEMMA FifoUartstart ==
  ASSUME FifoInv, NEW t, NEW u, uartstart(t, u),
         kprint' = kprint, hand'.pc = "write" => hand.pc = "write", HandIsRecord'
  PROVE  FifoInv'
<1>1. CASE fifo' = fifo
  <2>1. FifoIsSeq'  BY <1>1 DEF FifoInv, FifoIsSeq
  <2>2. OfPrintf' = OfPrintf /\ OfEcho' \in 0..1 /\ OfEcho' <= OfEcho  BY DEF OfPrintf, OfEcho
  <2>3. Len(fifo') = Len(fifo) /\ Len(fifo) \in Nat  BY <1>1 DEF FifoInv, FifoIsSeq
  <2>4. Len(fifo') + OfPrintf' + OfEcho' <= 3
    BY <2>2, <2>3, PendingBytes DEF FifoInv
  <2> QED  BY <2>1, <2>4 DEF FifoInv
<1>2. CASE fifo' # fifo
  <2>1. fifo = <<>> /\ \E e : fifo' = Append(fifo, e)
    BY <1>2 DEF uartstart, TxIdle
  <2>2. (\E S : fifo' \in Seq(S)) /\ Len(fifo') = Len(fifo) + 1
    BY <2>1, OneMoreByte DEF FifoInv, FifoIsSeq
  <2> QED  BY <2>1, <2>2 DEF FifoInv, FifoIsSeq, OfPrintf, OfEcho
<1> QED  BY <1>1, <1>2

LEMMA FifoStep == FifoInv /\ [ConsNext]_consvars => FifoInv'
<1> SUFFICES ASSUME FifoInv, [ConsNext]_consvars PROVE FifoInv'  OBVIOUS
<1> USE DEF HandIsRecord, FifoIsSeq
<1>1. ASSUME NEW p \in Writers, sys_write(p) PROVE FifoInv'
  BY <1>1 DEF FifoInv, OfPrintf, OfEcho, sys_write
<1>2. ASSUME NEW p \in Writers, consolewrite(p) PROVE FifoInv'
  <2>1. CASE fifo' = fifo  BY <1>2, <2>1 DEF FifoInv, OfPrintf, OfEcho, consolewrite
  <2>2. CASE \E t, u : uartstart(t, u)
    BY <1>2, <2>2, FifoUartstart DEF FifoInv, consolewrite
  <2> QED  BY <1>2, <2>1, <2>2 DEF consolewrite
<1>3. ASSUME printf_wait PROVE FifoInv'
  BY <1>3 DEF FifoInv, OfPrintf, OfEcho, printf_wait, TxIdle
<1>4. ASSUME printf_write PROVE FifoInv'
  <2>1. (\E S : fifo' \in Seq(S)) /\ Len(fifo) \in Nat /\ Len(fifo') = Len(fifo) + 1
    BY <1>4, OneMoreByte DEF FifoInv, printf_write
  <2>2. OfPrintf = 1 /\ OfPrintf' = 0 /\ OfEcho' = OfEcho  BY <1>4 DEF OfPrintf, OfEcho, printf_write
  <2>3. Len(fifo') + OfPrintf' + OfEcho' <= 3
    BY <2>1, <2>2, PendingBytes DEF FifoInv
  <2> QED  BY <1>4, <2>1, <2>3 DEF FifoInv, printf_write
<1>5. ASSUME UartSend PROVE FifoInv'
  <2>1. PICK S : fifo \in Seq(S)  BY DEF FifoInv
  <2>2. fifo' \in Seq(S) /\ Len(fifo') <= Len(fifo)  BY <1>5, <2>1 DEF UartSend
  <2>3. Len(fifo) \in Nat /\ Len(fifo') \in Nat  BY <2>1, <2>2
  <2>4. OfPrintf' = OfPrintf /\ OfEcho' = OfEcho  BY <1>5 DEF OfPrintf, OfEcho, UartSend
  <2>5. Len(fifo') + OfPrintf' + OfEcho' <= 3
    BY <2>2, <2>3, <2>4, PendingBytes DEF FifoInv
  <2> QED  BY <1>5, <2>2, <2>3, <2>5 DEF FifoInv, UartSend
<1>6. ASSUME UartReceive PROVE FifoInv'  BY <1>6 DEF FifoInv, OfPrintf, OfEcho, UartReceive
<1>7. ASSUME uartintr PROVE FifoInv'  BY <1>7 DEF FifoInv, OfPrintf, OfEcho, uartintr
<1>8. ASSUME uartgetc PROVE FifoInv'  BY <1>8 DEF FifoInv, OfPrintf, OfEcho, uartgetc
<1>9. ASSUME consoleintr PROVE FifoInv'  BY <1>9 DEF FifoInv, OfPrintf, OfEcho, consoleintr
<1>10. ASSUME consputc_wait PROVE FifoInv'
  BY <1>10 DEF FifoInv, OfPrintf, OfEcho, consputc_wait, TxIdle
<1>11. ASSUME consputc_write PROVE FifoInv'
  <2>1. (\E S : fifo' \in Seq(S)) /\ Len(fifo) \in Nat /\ Len(fifo') = Len(fifo) + 1
    BY <1>11, OneMoreByte DEF FifoInv, consputc_write
  <2>2. HandIsRecord' /\ hand'.pc # "write"  BY <1>11 DEF FifoInv, consputc_write
  <2>3. OfPrintf' = OfPrintf /\ OfEcho = 1 /\ OfEcho' = 0
    BY <1>11, <2>2 DEF OfPrintf, OfEcho, consputc_write
  <2>4. Len(fifo') + OfPrintf' + OfEcho' <= 3
    BY <2>1, <2>3, PendingBytes DEF FifoInv
  <2> QED  BY <2>1, <2>2, <2>4 DEF FifoInv
<1>12. ASSUME consoleintr_store PROVE FifoInv'
  BY <1>12 DEF FifoInv, OfPrintf, OfEcho, consoleintr_store
<1>13. ASSUME uartintr_start PROVE FifoInv'
  BY <1>13, FifoUartstart DEF FifoInv, uartintr_start, IdleHand
<1>14. ASSUME NEW p \in Readers,
              sys_read(p) \/ consoleread_lock(p) \/ consoleread(p) \/ consoleread_sleep(p) \/ ConsKill(p)
       PROVE  FifoInv'
  BY <1>14 DEF FifoInv, OfPrintf, OfEcho, sys_read, consoleread_lock, consoleread, consoleread_sleep, ConsKill
<1>15. CASE UNCHANGED consvars  BY <1>15 DEF FifoInv, OfPrintf, OfEcho, consvars
<1> QED
  BY <1>1, <1>2, <1>3, <1>4, <1>5, <1>6, <1>7, <1>8, <1>9, <1>10, <1>11, <1>12, <1>13, <1>14, <1>15
     DEF ConsNext, InputStep, OutputStep, HandlerStep

\* uartputc_sync (uart.c:112) writes without uart_tx_lock, so that a byte of
\* printf, one of the handler's echo and one of uartstart can meet in the
\* UART; no more than these three ever do, and the FIFO has room.
THEOREM ConsoleNeverOverruns == ConsSpec => []NoOverrun
<1>1. ConsInit => FifoInv
  <2> SUFFICES ASSUME ConsInit PROVE FifoInv  OBVIOUS
  <2>1. fifo = <<>> /\ fifo \in Seq({})  BY DEF ConsInit
  <2> QED  BY <2>1 DEF ConsInit, FifoInv, HandIsRecord, FifoIsSeq, OfPrintf, OfEcho, IdleHand
<1>2. FifoInv => NoOverrun
  <2> SUFFICES ASSUME FifoInv PROVE Len(fifo) <= FIFO_SIZE  BY DEF NoOverrun, TransmitRoom
  <2>1. OfPrintf \in 0..1  BY DEF OfPrintf
  <2>2. OfEcho \in 0..1  BY DEF OfEcho
  <2>3. Len(fifo) \in Nat  BY DEF FifoInv, FifoIsSeq
  <2>4. Len(fifo) + OfPrintf + OfEcho <= 3  BY DEF FifoInv
  <2>5. Len(fifo) <= 3 BY <2>1, <2>2, <2>3, <2>4
  <2> QED  BY <2>3, <2>5, ConsoleAssumption
<1> QED  BY <1>1, <1>2, FifoStep, PTL DEF ConsSpec

-----------------------------------------------------------------------------
(* The threads of inorder.c finish in order, for any number of threads.    *)

USE InorderAssumption DEF InorderAssumption, Threads

\* A step of a thread preserves the invariant.
LEMMA InorderStep == IInv /\ [Next]_vars => IInv'
  <1> SUFFICES ASSUME IInv, [Next]_vars PROVE IInv'
    OBVIOUS
  <1> USE DEF IInv, TypeOK, MutexInv, TurnInv
  <1>1. ASSUME NEW t \in Threads, Create(t) PROVE IInv'
    BY <1>1 DEF Create
  <1>2. ASSUME NEW t \in Threads, Lock(t) PROVE IInv'
    BY <1>2 DEF Lock
  <1>3. ASSUME NEW t \in Threads, Test(t) PROVE IInv'
    BY <1>3 DEF Test, NotMyTurn
  <1>4. ASSUME NEW t \in Threads, Spurious(t) PROVE IInv'
    BY <1>4 DEF Spurious
  <1>5. ASSUME NEW t \in Threads, Turn(t) PROVE IInv'
    <2>1. t = threadNext /\ lock = t
      BY <1>5 DEF Turn
    <2>2. TypeOK'
      BY <1>5, <2>1 DEF Turn, BroadcastAll
    <2>3. MutexInv'
      BY <1>5, <2>1 DEF Turn, BroadcastAll
    <2>4. TurnInv'
      BY <1>5, <2>1 DEF Turn, BroadcastAll
    <2> QED BY <2>2, <2>3, <2>4
  <1>6. CASE UNCHANGED vars
    BY <1>6 DEF vars
  <1> QED BY <1>1, <1>2, <1>3, <1>4, <1>5, <1>6 DEF Next, Finished

\* The mutex and threadNext agree with where the threads are.
THEOREM InorderCorrect == Spec => []IInv
  <1>1. Init => IInv
    BY DEF Init, IInv, TypeOK, MutexInv, TurnInv
  <1> QED BY <1>1, InorderStep, PTL DEF Spec

\* No thread finishes before a thread with a smaller number.
THEOREM OrderCorrect == Spec => []FinishInOrder
  <1>1. IInv => FinishInOrder
    BY DEF IInv, TypeOK, TurnInv, FinishInOrder
  <1> QED BY <1>1, InorderCorrect, PTL
=============================================================================
