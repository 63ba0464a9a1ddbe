----------------------------- MODULE LogProofs -----------------------------
(***************************************************************************)
(* Proofs about Log, for every number of processes, blocks and crashes.    *)
(***************************************************************************)
EXTENDS Log, FiniteSetTheorems, TLAPS

USE DEF CommitPhases, RecoveryPhases

LEMMA LOGSIZEPos == LOGSIZE \in Nat \ {0}
  BY LogAssumption DEF LogAssumption, LOGSIZE

LEMMA InOpFinite == IsFiniteSet(InOp)
  <1>1. InOp \subseteq Procs
    BY DEF InOp
  <1> QED BY <1>1, FS_Subset, LogAssumption DEF LogAssumption

\* The initial states satisfy the invariant.
LEMMA InitInv == Init => TypeOK /\ IInv
  <1> SUFFICES ASSUME Init PROVE TypeOK /\ IInv
    OBVIOUS
  <1> USE LogAssumption DEF LogAssumption
  <1>1. DiskType /\ CacheType
    BY DEF Init, DiskType, CacheType
  <1>2. ProcType
    BY DEF Init, ProcType
  <1>3. ControlType
    <2>1. committing \in BOOLEAN /\ panicked \in BOOLEAN
      BY DEF Init
    <2> QED BY <2>1 DEF Init, ControlType
  <1>4. HeaderInv
    BY LOGSIZEPos DEF Init, HeaderInv, Distinct
  <1>5. OpsInv
    <2>1. InOp = {}
      BY DEF Init, InOp
    <2> QED BY <2>1, FS_EmptySet DEF Init, OpsInv
  <1>6. PhaseInv
    BY DEF Init, PhaseInv
  <1>7. CacheInv
    BY DEF Init, CacheInv, Pinned, FirstPinned
  <1> QED BY <1>1, <1>2, <1>3, <1>4, <1>5, <1>6, <1>7 DEF IInv, TypeOK

LEMMA Bread_Inv ==
  ASSUME TypeOK, IInv, NEW b \in Blocks, Bread(b)
  PROVE  TypeOK' /\ IInv'
  <1> USE LogAssumption DEF LogAssumption, TypeOK, IInv, Bread, disk
  <1>1. DiskType'
    BY DEF DiskType
  <1>2. CacheType'
    BY DEF CacheType, DiskType
  <1>3. ProcType'
    BY DEF ProcType, Woken
  <1>4. ControlType'
    BY DEF ControlType
  <1>5. HeaderInv'
    BY DEF HeaderInv, Distinct, CacheType, DiskType
  <1>6. OpsInv'
    BY DEF OpsInv, InOp, ProcType, ControlType
  <1>7. PhaseInv'
    BY DEF PhaseInv, Copied, Installed, Contents, DiskType, CacheType, ControlType
  <1>8. CacheInv'
    BY DEF CacheInv, Pinned, FirstPinned, DiskType, CacheType, ControlType
  <1> QED BY <1>1, <1>2, <1>3, <1>4, <1>5, <1>6, <1>7, <1>8

LEMMA Recycle_Inv ==
  ASSUME TypeOK, IInv, NEW b \in Blocks, Recycle(b)
  PROVE  TypeOK' /\ IInv'
  <1> USE LogAssumption DEF LogAssumption, TypeOK, IInv, Recycle, disk
  <1>1. DiskType'
    BY DEF DiskType
  <1>2. CacheType'
    BY DEF CacheType
  <1>3. ProcType'
    BY DEF ProcType, Woken
  <1>4. ControlType'
    BY DEF ControlType
  <1>5. HeaderInv'
    BY DEF HeaderInv, Distinct, CacheType, DiskType
  <1>6. OpsInv'
    BY DEF OpsInv, InOp, ProcType, ControlType
  <1>7. PhaseInv'
    <2>1. \A c \in Blocks : Contents(c)' = Contents(c)
      BY DEF CacheInv, Contents, CacheType, DiskType
    <2> QED BY <2>1 DEF PhaseInv, Copied, Installed, CacheType
  <1>8. CacheInv'
    BY DEF CacheInv, Pinned, FirstPinned, DiskType, CacheType, ControlType
  <1> QED BY <1>1, <1>2, <1>3, <1>4, <1>5, <1>6, <1>7, <1>8

LEMMA Call_Inv ==
  ASSUME TypeOK, IInv, NEW p \in Procs, Call(p)
  PROVE  TypeOK' /\ IInv'
  <1> USE LogAssumption DEF LogAssumption, TypeOK, IInv, Call, disk
  <1>1. DiskType'
    BY DEF DiskType
  <1>2. CacheType'
    BY DEF CacheType
  <1>3. ProcType'
    BY DEF ProcType, Woken
  <1>4. ControlType'
    BY DEF ControlType
  <1>5. HeaderInv'
    BY DEF HeaderInv, Distinct, CacheType, DiskType
  <1>6. OpsInv'
    <2>1. InOp' = InOp
      BY DEF InOp, ProcType
    <2> QED BY <2>1 DEF OpsInv, Running, ProcType
  <1>7. PhaseInv'
    BY DEF PhaseInv, Copied, Installed, Contents, DiskType, CacheType, ControlType
  <1>8. CacheInv'
    <2>1. UNCHANGED <<pins, buf, home, lh, phase, tail, panicked>>
      OBVIOUS
    <2>2. CacheInv
      OBVIOUS
    <2> HIDE DEF IInv, TypeOK, Call
    <2> QED BY <2>1, <2>2 DEF CacheInv, Pinned, FirstPinned
  <1> QED BY <1>1, <1>2, <1>3, <1>4, <1>5, <1>6, <1>7, <1>8

LEMMA begin_op_Inv ==
  ASSUME TypeOK, IInv, NEW p \in Procs, begin_op(p)
  PROVE  TypeOK' /\ IInv'
  <1> USE LogAssumption DEF LogAssumption, TypeOK, IInv, begin_op, disk
  <1>1. DiskType'
    BY DEF DiskType
  <1>2. CacheType'
    BY DEF CacheType
  <1>3. ProcType'
    BY DEF ProcType, Woken
  <1>4. ControlType'
    BY DEF ControlType
  <1>5. HeaderInv'
    BY DEF HeaderInv, Distinct, CacheType, DiskType
  <1>6. OpsInv'
    <2>1. CASE committing \/ LogFull
      <3>1. InOp' = InOp
        BY <2>1 DEF InOp, ProcType
      <3> QED BY <2>1, <3>1 DEF OpsInv, Running
    <2>2. CASE ~(committing \/ LogFull)
      <3>1. InOp' = InOp \cup {p} /\ p \notin InOp
        BY <2>2 DEF InOp, ProcType
      <3>2. Cardinality(InOp') = Cardinality(InOp) + 1
        BY <3>1, InOpFinite, FS_AddElement
      <3>3. phase = "none"
        BY <2>2 DEF OpsInv, Running, ControlType
      <3> QED BY <2>2, <3>2, <3>3 DEF OpsInv, ControlType
    <2> QED BY <2>1, <2>2
  <1>7. PhaseInv'
    BY DEF PhaseInv, Copied, Installed, Contents, DiskType, CacheType, ControlType
  <1>8. CacheInv'
    <2>1. UNCHANGED <<pins, buf, home, lh, phase, tail, panicked>>
      OBVIOUS
    <2>2. CacheInv
      OBVIOUS
    <2> HIDE DEF IInv, TypeOK, begin_op
    <2> QED BY <2>1, <2>2 DEF CacheInv, Pinned, FirstPinned
  <1> QED BY <1>1, <1>2, <1>3, <1>4, <1>5, <1>6, <1>7, <1>8

LEMMA log_write_Inv ==
  ASSUME TypeOK, IInv, NEW p \in Procs, NEW b \in Blocks, NEW d \in Data, log_write(p, b, d)
  PROVE  TypeOK' /\ IInv'
  <1> USE LogAssumption DEF LogAssumption, TypeOK, IInv, log_write, disk, Logged
  <1>0. phase = "none" /\ outstanding >= 1
    <2>1. p \in InOp
      BY DEF InOp
    <2>2. Cardinality(InOp) # 0 /\ InOp # {}
      BY <2>1, InOpFinite, FS_EmptySet
    <2> QED BY <2>2 DEF OpsInv, ControlType
  <1>1. DiskType'
    BY DEF DiskType
  <1>2. CacheType'
    <2>1. buf' \in [Blocks -> Data \cup {NoBuf}]
      BY DEF CacheType
    <2>2. pins' \in [Blocks -> Nat]
      BY DEF CacheType
    <2>3. lh' \in Seq(Blocks)
      <3>1. lh \in Seq(Blocks) /\ Append(lh, b) \in Seq(Blocks)
        BY DEF CacheType
      <3>2. lh' = lh \/ lh' = Append(lh, b)
        OBVIOUS
      <3> QED BY <3>1, <3>2
    <2> QED BY <2>1, <2>2, <2>3 DEF CacheType
  <1>3. ProcType'
    BY DEF ProcType, Woken
  <1>4. ControlType'
    BY DEF ControlType
  <1>5. HeaderInv'
    <2>1. CASE lh' = lh
      BY <2>1 DEF HeaderInv, Distinct
    <2>2. CASE lh' = Append(lh, b) /\ ~Logged(b) /\ ~TooBig
      <3>1. Len(lh') = Len(lh) + 1 /\ Len(lh) < LOGSIZE
        BY <2>2, LOGSIZEPos DEF CacheType, TooBig
      <3>2. \A i \in 1..Len(lh) : lh'[i] = lh[i] /\ lh[i] # b
        BY <2>2 DEF CacheType
      <3>3. lh'[Len(lh) + 1] = b
        BY <2>2 DEF CacheType
      <3>4. Distinct(lh)'
        <4> SUFFICES ASSUME NEW i \in 1..(Len(lh) + 1), NEW j \in 1..(Len(lh) + 1),
                            lh'[i] = lh'[j]
                     PROVE  i = j
          BY <3>1 DEF Distinct
        <4>1. Len(lh) \in Nat
          BY DEF CacheType
        <4>2. CASE i \in 1..Len(lh) /\ j \in 1..Len(lh)
          BY <4>2, <3>2 DEF HeaderInv, Distinct
        <4>3. CASE i = Len(lh) + 1 \/ j = Len(lh) + 1
          BY <4>1, <4>3, <3>2, <3>3
        <4> QED BY <4>1, <4>2, <4>3
      <3>5. Len(lh') <= LOGSIZE
        BY <3>1, LOGSIZEPos DEF CacheType
      <3> QED BY <3>4, <3>5 DEF HeaderInv, Distinct
    <2> QED BY <2>1, <2>2
  <1>6. OpsInv'
    BY DEF OpsInv, InOp, ProcType, ControlType
  <1>7. PhaseInv'
    BY <1>0 DEF PhaseInv
  <1>8. CacheInv'
    <2> SUFFICES ASSUME NEW c \in Blocks
                 PROVE  /\ pins'[c] = IF Pinned(c)' THEN 1 ELSE 0
                        /\ pins'[c] = 0 /\ ~panicked' => buf'[c] \in {NoBuf, home'[c]}
                        /\ pins'[c] # 0 => buf'[c] # NoBuf
      BY DEF CacheInv
    <2>1. Pinned(c) <=> Logged(c)
      BY <1>0 DEF Pinned, FirstPinned
    <2>2. Pinned(c)' <=> Logged(c)'
      BY <1>0 DEF Pinned, FirstPinned
    <2>3. CASE TooBig \/ outstanding < 1
      BY <2>1, <2>2, <2>3 DEF CacheInv, CacheType
    <2>4. CASE ~(TooBig \/ outstanding < 1) /\ Logged(b)
      BY <2>1, <2>2, <2>4, SMTT(30) DEF CacheInv, CacheType
    <2>5. CASE ~(TooBig \/ outstanding < 1) /\ ~Logged(b)
      <3>0. lh' = Append(lh, b) /\ Len(lh) \in Nat /\ lh \in Seq(Blocks)
        BY <2>5 DEF CacheType
      <3>1. Logged(c)' <=> Logged(c) \/ c = b
        <4>1. Len(lh') = Len(lh) + 1 /\ lh'[Len(lh) + 1] = b
          BY <3>0
        <4>2. \A i \in 1..Len(lh) : lh'[i] = lh[i]
          BY <3>0
        <4> QED BY <3>0, <4>1, <4>2
      <3> QED BY <2>1, <2>2, <2>5, <3>1 DEF CacheInv, CacheType
    <2> QED BY <2>3, <2>4, <2>5
  <1> QED BY <1>1, <1>2, <1>3, <1>4, <1>5, <1>6, <1>7, <1>8

LEMMA end_op_Inv ==
  ASSUME TypeOK, IInv, NEW p \in Procs, end_op(p)
  PROVE  TypeOK' /\ IInv'
  <1> USE LogAssumption DEF LogAssumption, TypeOK, IInv, end_op, disk
  <1>0. phase = "none" /\ outstanding >= 1 /\ ~committing
    <2>1. p \in InOp
      BY DEF InOp
    <2>2. Cardinality(InOp) # 0 /\ InOp # {}
      BY <2>1, InOpFinite, FS_EmptySet
    <2> QED BY <2>2 DEF OpsInv, ControlType
  <1>1. DiskType'
    BY DEF DiskType
  <1>2. CacheType'
    BY DEF CacheType
  <1>3. ProcType'
    BY DEF ProcType, Woken
  <1>4. ControlType'
    <2>1. outstanding' \in Nat
      BY <1>0 DEF ControlType
    <2>2. committing' \in BOOLEAN /\ panicked' \in BOOLEAN
      BY DEF ControlType
    <2>3. phase' \in {"none", "finish", "write_log"}
      BY <1>0
    <2> QED BY <2>1, <2>2, <2>3 DEF ControlType
  <1>5. HeaderInv'
    BY DEF HeaderInv, Distinct, CacheType, DiskType
  <1>6. OpsInv'
    <2>1. InOp' = InOp \ {p} /\ p \in InOp
      BY <1>0 DEF InOp, ProcType, Woken
    <2>2. Cardinality(InOp') = Cardinality(InOp) - 1 /\ IsFiniteSet(InOp')
      BY <2>1, InOpFinite, FS_RemoveElement
    <2>3. CASE outstanding = 1
      <3>1. InOp' = {}
        BY <2>2, <2>3, FS_EmptySet DEF OpsInv
      <3>2. phase' \in {"finish", "write_log"} /\ committing' = TRUE /\ panicked' = panicked
        BY <1>0, <2>3
      <3>3. outstanding' = Cardinality(InOp')
        BY <2>2 DEF OpsInv
      <3>4. ~panicked'
        BY <3>2 DEF Running
      <3> QED BY <1>0, <3>1, <3>2, <3>3, <3>4 DEF OpsInv
    <2>4. CASE outstanding # 1
      <3>1. phase' = "none" /\ ~committing' /\ outstanding' # 0
        BY <1>0, <2>4 DEF ControlType
      <3>2. outstanding' = Cardinality(InOp')
        BY <2>2 DEF OpsInv
      <3> QED BY <3>1, <3>2 DEF OpsInv
    <2> QED BY <2>3, <2>4
  <1>7. PhaseInv'
    <2>1. CASE outstanding = 1
      <3>1. dhead' = <<>> /\ tail' = 1 /\ lh' = lh /\ phase' = IF lh = <<>> THEN "finish" ELSE "write_log"
        BY <1>0, <2>1 DEF PhaseInv
      <3>2. Copied(1)'
        BY DEF Copied
      <3>3. lh # <<>> => 1 <= Len(lh)
        BY DEF CacheType
      <3> QED BY <3>1, <3>2, <3>3 DEF PhaseInv
    <2>2. CASE outstanding # 1
      BY <1>0, <2>2 DEF PhaseInv
    <2> QED BY <2>1, <2>2
  <1>8. CacheInv'
    <2>1. phase' \in {"none", "finish", "write_log"}
      BY <1>0
    <2>2. \A c \in Blocks : Pinned(c)' <=> Pinned(c)
      BY <1>0, <2>1 DEF Pinned, FirstPinned
    <2>3. panicked' = panicked
      BY <1>0
    <2> QED BY <2>2, <2>3 DEF CacheInv
  <1> QED BY <1>1, <1>2, <1>3, <1>4, <1>5, <1>6, <1>7, <1>8

LEMMA write_log_Inv ==
  ASSUME TypeOK, IInv, write_log
  PROVE  TypeOK' /\ IInv'
  <1> USE LogAssumption DEF LogAssumption, TypeOK, IInv, write_log, disk, LogCopy
  <1>0. tail \in 1..Len(lh) /\ lh[tail] \in Blocks /\ Len(lh) <= LOGSIZE
    BY DEF PhaseInv, HeaderInv, CacheType, ControlType
  <1>1. DiskType'
    <2>1. Contents(lh[tail]) \in Data
      BY <1>0 DEF Contents, DiskType, CacheType
    <2> QED BY <2>1 DEF DiskType
  <1>2. CacheType'
    BY DEF CacheType
  <1>3. ProcType'
    BY DEF ProcType, Woken
  <1>4. ControlType'
    BY DEF ControlType
  <1>5. HeaderInv'
    BY DEF HeaderInv, Distinct, CacheType, DiskType
  <1>6. OpsInv'
    BY DEF OpsInv, InOp, ProcType, ControlType
  <1>7. PhaseInv'
    <2>1. \A c \in Blocks : Contents(c)' = Contents(c)
      BY DEF Contents
    <2>2. dlog'[tail] = Contents(lh[tail]) /\ \A i \in 1..LOGSIZE : i # tail => dlog'[i] = dlog[i]
      BY <1>0, LOGSIZEPos DEF DiskType
    <2>3. \A i \in 1..Len(lh) : i < tail + 1 => dlog'[i] = Contents(lh[i])
      <3>1. \A i \in 1..Len(lh) : i < tail => dlog[i] = Contents(lh[i])
        BY DEF PhaseInv, Copied
      <3>2. \A i \in 1..Len(lh) : i \in 1..LOGSIZE /\ (i < tail + 1 => i < tail \/ i = tail)
        BY <1>0, LOGSIZEPos DEF CacheType
      <3> QED BY <1>0, <2>2, <3>1, <3>2
    <2>3a. \A i \in 1..Len(lh) : Contents(lh[i])' = Contents(lh[i])
      BY DEF Contents
    <2>4. CASE tail = Len(lh)
      BY <2>3, <2>3a, <2>4 DEF PhaseInv, Copied
    <2>5. CASE tail # Len(lh)
      <3>1. phase' = "write_log" /\ tail' = tail + 1 /\ tail + 1 <= Len(lh)
        BY <1>0, <2>5 DEF CacheType
      <3> QED BY <2>3, <2>3a, <3>1 DEF PhaseInv, Copied
    <2> QED BY <2>4, <2>5
  <1>8. CacheInv'
    BY DEF CacheInv, Pinned, FirstPinned, DiskType, CacheType, ControlType
  <1> QED BY <1>1, <1>2, <1>3, <1>4, <1>5, <1>6, <1>7, <1>8

LEMMA write_head_Inv ==
  ASSUME TypeOK, IInv, write_head
  PROVE  TypeOK' /\ IInv'
  <1> USE LogAssumption DEF LogAssumption, TypeOK, IInv, write_head, disk
  <1>1. DiskType'
    BY DEF DiskType, CacheType
  <1>2. CacheType'
    BY DEF CacheType
  <1>3. ProcType'
    BY DEF ProcType, Woken
  <1>4. ControlType'
    BY DEF ControlType
  <1>5. HeaderInv'
    BY DEF HeaderInv, Distinct, CacheType, DiskType
  <1>6. OpsInv'
    BY DEF OpsInv, InOp, ProcType, ControlType
  <1>7. PhaseInv'
    BY DEF PhaseInv, Copied, Installed, Contents, DiskType, CacheType, ControlType
  <1>8. CacheInv'
    BY DEF CacheInv, Pinned, FirstPinned, DiskType, CacheType, ControlType
  <1> QED BY <1>1, <1>2, <1>3, <1>4, <1>5, <1>6, <1>7, <1>8

LEMMA install_trans_Inv ==
  ASSUME TypeOK, IInv, install_trans
  PROVE  TypeOK' /\ IInv'
  <1> USE LogAssumption DEF LogAssumption, TypeOK, IInv, install_trans, disk, Unpin, NextTail
  <1>0. tail \in 1..Len(lh) /\ lh[tail] \in Blocks /\ Len(lh) <= LOGSIZE
    BY DEF HeaderInv, CacheType, ControlType
  <1>a. dlog[tail] \in Data
    BY <1>0, LOGSIZEPos DEF DiskType
  <1>1. DiskType'
    BY <1>0, <1>a DEF DiskType
  <1>2. CacheType'
    <2>1. buf' \in [Blocks -> Data \cup {NoBuf}]
      BY <1>0, <1>a DEF CacheType
    <2>2. CASE phase = "install"
      <3>1. pins[lh[tail]] = 1
        BY <1>0, <2>2 DEF CacheInv, Pinned, FirstPinned
      <3>2. pins' \in [Blocks -> Nat]
        BY <1>0, <2>2, <3>1 DEF CacheType
      <3> QED BY <2>1, <3>2 DEF CacheType
    <2> QED BY <2>1, <2>2 DEF CacheType
  <1>3. ProcType'
    BY DEF ProcType, Woken
  <1>4. ControlType'
    BY DEF ControlType
  <1>5. HeaderInv'
    BY DEF HeaderInv, Distinct, CacheType, DiskType
  <1>6. OpsInv'
    BY DEF OpsInv, InOp, ProcType, ControlType
  <1>7. PhaseInv'
    <2>1. \A i \in 1..Len(lh) : i # tail => lh[i] # lh[tail]
      BY <1>0 DEF HeaderInv, Distinct
    <2>2. \A i \in 1..Len(lh) : home'[lh[i]] = IF i = tail THEN dlog[tail] ELSE home[lh[i]]
      BY <1>0, <2>1 DEF DiskType, CacheType
    <2>3. \A i \in 1..Len(lh) : i # tail => Contents(lh[i])' = Contents(lh[i])
      BY <1>0, <2>1, <2>2 DEF Contents, CacheType
    <2>4. \A i \in 1..Len(lh) : i = tail => Contents(lh[i])' = dlog[i]
      BY <1>0, <1>a DEF Contents, CacheType
    <2>5. Installed(tail)'
      <3>1. \A i \in 1..Len(lh) : i < tail => home[lh[i]] = dlog[i]
        BY DEF Installed, PhaseInv
      <3>2. \A i \in 1..Len(lh) : i < tail + 1 => i < tail \/ i = tail
        BY <1>0
      <3>3. \A i \in 1..Len(lh) : i < tail + 1 => home'[lh[i]] = dlog[i]
        BY <2>2, <3>1, <3>2
      <3> QED BY <3>3 DEF Installed
    <2>6. phase = "install" => Copied(Len(lh) + 1)'
      <3>1. phase = "install" => \A i \in 1..Len(lh) : dlog[i] = Contents(lh[i])
        BY <1>0 DEF Copied, PhaseInv
      <3>2. phase = "install" => \A i \in 1..Len(lh) : dlog[i] = Contents(lh[i])'
        BY <3>1, <2>3, <2>4
      <3> QED BY <3>2 DEF Copied
    <2> QED BY <1>0, <2>5, <2>6 DEF PhaseInv, Copied, Installed
  <1>8. CacheInv'
    <2> SUFFICES ASSUME NEW c \in Blocks
                 PROVE  /\ pins'[c] = IF Pinned(c)' THEN 1 ELSE 0
                        /\ pins'[c] = 0 /\ ~panicked' => buf'[c] \in {NoBuf, home'[c]}
                        /\ pins'[c] # 0 => buf'[c] # NoBuf
      BY DEF CacheInv
    <2>1. CASE c = lh[tail]
      <3>1. ~Pinned(c)'
        BY <1>0, <2>1 DEF Pinned, FirstPinned, HeaderInv, Distinct
      <3>2. pins'[c] = 0
        <4>1. CASE phase = "install"
          <5>1. pins[c] = 1
            BY <1>0, <2>1, <4>1 DEF CacheInv, Pinned, FirstPinned
          <5> QED BY <2>1, <4>1, <5>1 DEF CacheType
        <4>2. CASE phase = "rinstall"
          <5>1. ~Pinned(c)
            BY <1>0, <4>2 DEF Pinned, FirstPinned
          <5> QED BY <4>2, <5>1 DEF CacheInv
        <4> QED BY <4>1, <4>2
      <3>3. buf'[c] = home'[c]
        BY <2>1 DEF CacheType, DiskType
      <3> QED BY <3>1, <3>2, <3>3
    <2>2. CASE c # lh[tail]
      <3>1. pins'[c] = pins[c] /\ buf'[c] = buf[c] /\ home'[c] = home[c]
        BY <2>2 DEF CacheType, DiskType
      <3>2. Pinned(c)' <=> Pinned(c)
        BY <1>0, <2>2 DEF Pinned, FirstPinned
      <3> QED BY <3>1, <3>2 DEF CacheInv
    <2> QED BY <2>1, <2>2
  <1> QED BY <1>1, <1>2, <1>3, <1>4, <1>5, <1>6, <1>7, <1>8

LEMMA InstallDone_Inv ==
  ASSUME TypeOK, IInv, InstallDone
  PROVE  TypeOK' /\ IInv'
  <1> USE LogAssumption DEF LogAssumption, TypeOK, IInv, InstallDone, disk
  <1>1. DiskType'
    BY DEF DiskType
  <1>2. CacheType'
    BY DEF CacheType
  <1>3. ProcType'
    BY DEF ProcType, Woken
  <1>4. ControlType'
    BY DEF ControlType
  <1>5. HeaderInv'
    BY DEF HeaderInv, Distinct, CacheType, DiskType
  <1>6. OpsInv'
    BY DEF OpsInv, InOp, ProcType, ControlType
  <1>7. PhaseInv'
    BY DEF PhaseInv, Copied, Installed, Contents, DiskType, CacheType, ControlType
  <1>8. CacheInv'
    BY DEF CacheInv, Pinned, FirstPinned, DiskType, CacheType, ControlType
  <1> QED BY <1>1, <1>2, <1>3, <1>4, <1>5, <1>6, <1>7, <1>8

LEMMA clear_head_Inv ==
  ASSUME TypeOK, IInv, clear_head
  PROVE  TypeOK' /\ IInv'
  <1> USE LogAssumption DEF LogAssumption, TypeOK, IInv, clear_head, disk
  <1>1. DiskType'
    BY DEF DiskType
  <1>2. CacheType'
    BY DEF CacheType
  <1>3. ProcType'
    BY DEF ProcType, Woken
  <1>4. ControlType'
    BY DEF ControlType
  <1>5. HeaderInv'
    BY LOGSIZEPos DEF HeaderInv, Distinct
  <1>6. OpsInv'
    BY DEF OpsInv, InOp, ProcType, ControlType
  <1>7. PhaseInv'
    BY DEF PhaseInv, Copied, Installed, Contents, DiskType, CacheType, ControlType
  <1>8. CacheInv'
    BY DEF CacheInv, Pinned, FirstPinned, DiskType, CacheType, ControlType
  <1> QED BY <1>1, <1>2, <1>3, <1>4, <1>5, <1>6, <1>7, <1>8

LEMMA end_commit_Inv ==
  ASSUME TypeOK, IInv, end_commit
  PROVE  TypeOK' /\ IInv'
  <1> USE LogAssumption DEF LogAssumption, TypeOK, IInv, end_commit, disk
  <1>1. DiskType'
    BY DEF DiskType
  <1>2. CacheType'
    BY DEF CacheType
  <1>3. ProcType'
    BY DEF ProcType, Woken
  <1>4. ControlType'
    BY DEF ControlType
  <1>5. HeaderInv'
    BY DEF HeaderInv, Distinct, CacheType, DiskType
  <1>6. OpsInv'
    <2>1. InOp' = InOp
      BY DEF InOp, ProcType, Woken
    <2> QED BY <2>1 DEF OpsInv, PhaseInv
  <1>7. PhaseInv'
    BY DEF PhaseInv, Copied, Installed, Contents, DiskType, CacheType, ControlType
  <1>8. CacheInv'
    BY DEF CacheInv, Pinned, FirstPinned, DiskType, CacheType, ControlType
  <1> QED BY <1>1, <1>2, <1>3, <1>4, <1>5, <1>6, <1>7, <1>8

LEMMA Crash_Inv ==
  ASSUME TypeOK, IInv, Crash
  PROVE  TypeOK' /\ IInv'
  <1> USE LogAssumption DEF LogAssumption, TypeOK, IInv, Crash, disk
  <1>1. DiskType'
    BY DEF DiskType
  <1>2. CacheType'
    BY DEF CacheType
  <1>3. ProcType'
    BY DEF ProcType, Woken
  <1>4. ControlType'
    <2>1. committing' \in BOOLEAN /\ panicked' \in BOOLEAN
      OBVIOUS
    <2> QED BY <2>1 DEF ControlType
  <1>5. HeaderInv'
    BY LOGSIZEPos DEF HeaderInv, Distinct
  <1>6. OpsInv'
    <2>1. InOp' = {}
      BY DEF InOp
    <2> QED BY <2>1, FS_EmptySet DEF OpsInv
  <1>7. PhaseInv'
    BY DEF PhaseInv, Copied, Installed, Contents, DiskType, CacheType, ControlType
  <1>8. CacheInv'
    BY DEF CacheInv, Pinned, FirstPinned, DiskType, CacheType, ControlType
  <1> QED BY <1>1, <1>2, <1>3, <1>4, <1>5, <1>6, <1>7, <1>8

LEMMA read_head_Inv ==
  ASSUME TypeOK, IInv, read_head
  PROVE  TypeOK' /\ IInv'
  <1> USE LogAssumption DEF LogAssumption, TypeOK, IInv, read_head, disk
  <1>1. DiskType'
    BY DEF DiskType
  <1>2. CacheType'
    BY DEF CacheType, DiskType
  <1>3. ProcType'
    BY DEF ProcType, Woken
  <1>4. ControlType'
    BY DEF ControlType
  <1>5. HeaderInv'
    BY DEF HeaderInv, Distinct, CacheType, DiskType
  <1>6. OpsInv'
    BY DEF OpsInv, InOp, ProcType, ControlType
  <1>7. PhaseInv'
    BY DEF PhaseInv, Copied, Installed, Contents, DiskType, CacheType, ControlType
  <1>8. CacheInv'
    BY DEF CacheInv, Pinned, FirstPinned, DiskType, CacheType, ControlType
  <1> QED BY <1>1, <1>2, <1>3, <1>4, <1>5, <1>6, <1>7, <1>8

-----------------------------------------------------------------------------
\* TypeOK and IInv together are inductive.
LEMMA InvStep == TypeOK /\ IInv /\ [Next]_vars => TypeOK' /\ IInv'
  <1> SUFFICES ASSUME TypeOK, IInv, [Next]_vars PROVE TypeOK' /\ IInv'
    OBVIOUS
  <1>1. CASE UNCHANGED vars
    <2>1. TypeOK'
      BY <1>1 DEF TypeOK, vars, DiskType, CacheType, ProcType, ControlType
    <2>2. HeaderInv' /\ OpsInv' /\ PhaseInv' /\ CacheInv'
      BY <1>1 DEF IInv, vars, HeaderInv, Distinct, OpsInv, InOp, PhaseInv, Copied,
                  Installed, Contents, CacheInv, Pinned, FirstPinned
    <2> QED BY <2>1, <2>2 DEF IInv
  <1>2. CASE \E b \in Blocks : Bread(b) \/ Recycle(b)
    BY <1>2, Bread_Inv, Recycle_Inv
  <1>3. CASE \E p \in Procs : Call(p) \/ begin_op(p) \/ end_op(p)
    BY <1>3, Call_Inv, begin_op_Inv, end_op_Inv
  <1>4. CASE \E p \in Procs, b \in Blocks, d \in Data : log_write(p, b, d)
    BY <1>4, log_write_Inv
  <1>5. CASE Kernel
    BY <1>5, write_log_Inv, write_head_Inv, install_trans_Inv, InstallDone_Inv,
       clear_head_Inv, end_commit_Inv, read_head_Inv DEF Kernel
  <1>6. CASE Crash
    BY <1>6, Crash_Inv
  <1> QED BY <1>1, <1>2, <1>3, <1>4, <1>5, <1>6 DEF Next

\* The state of log.c stays within its types: among them, the log never has
\* fewer blocks than the header names, and bunpin never takes a reference
\* that log_write did not add.
THEOREM TypeCorrect == Spec => []TypeOK
  <1>1. Init => TypeOK /\ IInv
    BY InitInv
  <1>2. TypeOK /\ IInv /\ [Next]_vars => (TypeOK /\ IInv)'
    BY InvStep
  <1> QED BY <1>1, <1>2, PTL DEF Spec

\* The invariant that ties the disk, the cache and the counters of log.c
\* together holds whatever the number of processes, blocks and crashes.
THEOREM InvCorrect == Spec => []IInv
  <1>1. Init => TypeOK /\ IInv
    BY InitInv
  <1>2. TypeOK /\ IInv /\ [Next]_vars => (TypeOK /\ IInv)'
    BY InvStep
  <1> QED BY <1>1, <1>2, PTL DEF Spec

\* A process asleep in begin_op always has somebody to wake it: it went to
\* sleep because of a commit, or because of space that the operations still
\* running, and the commit after them, give back.
THEOREM WakerCorrect == Spec => []SleeperHasWaker
  <1>1. Init => SleeperHasWaker
    BY DEF Init, SleeperHasWaker
  <1>2. TypeOK /\ IInv /\ SleeperHasWaker /\ [Next]_vars => SleeperHasWaker'
    <2> SUFFICES ASSUME TypeOK, IInv, SleeperHasWaker, [Next]_vars,
                        NEW q \in Procs, pc'[q] = "asleep"
                 PROVE  outstanding' > 0 \/ committing'
      BY DEF SleeperHasWaker
    <2> USE DEF TypeOK, ProcType, ControlType, disk
    <2>1. CASE pc[q] = "asleep" /\ outstanding' = outstanding /\ committing' = committing
      BY <2>1 DEF SleeperHasWaker
    <2>2. ASSUME NEW p \in Procs, begin_op(p) PROVE outstanding' > 0 \/ committing'
      <3>1. CASE committing \/ LogFull
        <4>1. CASE LogFull /\ ~committing
          <5>1. phase = "none"
            BY <2>2, <4>1 DEF begin_op, Running, IInv, OpsInv
          <5>2. outstanding = 0 => Len(lh) = 0
            BY <5>1 DEF IInv, OpsInv
          <5>3. outstanding # 0
            BY <4>1, <5>2, LogAssumption DEF LogAssumption, LogFull, LOGSIZE
          <5> QED BY <2>2, <3>1, <5>3 DEF begin_op
        <4> QED BY <2>2, <3>1, <4>1 DEF begin_op
      <3>2. CASE ~(committing \/ LogFull)
        BY <2>2, <3>2 DEF begin_op
      <3> QED BY <3>1, <3>2
    <2>3. ASSUME NEW p \in Procs, end_op(p) PROVE outstanding' > 0 \/ committing'
      BY <2>3 DEF end_op, Woken, SleeperHasWaker
    <2>4. CASE end_commit
      BY <2>4 DEF end_commit, Woken
    <2>5. CASE Crash
      BY <2>5 DEF Crash
    <2>6. ASSUME NEW p \in Procs, Call(p) PROVE outstanding' > 0 \/ committing'
      BY <2>6 DEF Call, SleeperHasWaker
    <2>7. ASSUME NEW p \in Procs, NEW b \in Blocks, NEW d \in Data, log_write(p, b, d)
          PROVE outstanding' > 0 \/ committing'
      BY <2>1, <2>7 DEF log_write
    <2>8. ASSUME NEW b \in Blocks, Bread(b) \/ Recycle(b)
          PROVE outstanding' > 0 \/ committing'
      BY <2>1, <2>8 DEF Bread, Recycle
    <2>9. CASE write_log \/ write_head \/ install_trans \/ InstallDone \/ clear_head \/ read_head
      BY <2>1, <2>9 DEF write_log, write_head, install_trans, InstallDone, clear_head, read_head
    <2>10. CASE UNCHANGED vars
      BY <2>1, <2>10 DEF vars
    <2> QED BY <2>2, <2>3, <2>4, <2>5, <2>6, <2>7, <2>8, <2>9, <2>10 DEF Next, Kernel
  <1> QED BY <1>1, <1>2, TypeCorrect, InvCorrect, PTL DEF Spec

-----------------------------------------------------------------------------
(* Room in the log                                                         *)

\* What a running operation has written is in the header.
WroteInv == \A p \in InOp : \A b \in wrote[p] : Logged(b)

LEMMA WroteFinite ==
  ASSUME ProcType
  PROVE  \A p \in Procs : IsFiniteSet(wrote[p]) /\ Cardinality(wrote[p]) \in Nat
  BY FS_Subset, FS_CardinalityType, LogAssumption DEF ProcType, LogAssumption

LEMMA ReservedBound ==
  /\ IsFiniteSet(Reserved)
  /\ Cardinality(Reserved) \in Nat
  /\ Cardinality(Reserved) <= Cardinality(InOp) * MAXOPBLOCKS
  <1>1. IsFiniteSet(1..MAXOPBLOCKS) /\ Cardinality(1..MAXOPBLOCKS) = MAXOPBLOCKS
    BY FS_Interval, LogAssumption DEF LogAssumption
  <1>2. /\ IsFiniteSet(InOp \X (1..MAXOPBLOCKS))
        /\ Cardinality(InOp \X (1..MAXOPBLOCKS)) = Cardinality(InOp) * MAXOPBLOCKS
    BY <1>1, InOpFinite, FS_Product
  <1>3. Reserved \subseteq InOp \X (1..MAXOPBLOCKS)
    BY DEF Reserved
  <1> QED BY <1>2, <1>3, FS_Subset, FS_CardinalityType

\* The same after a step.
LEMMA InOpFiniteNext == IsFiniteSet(InOp')
  <1>1. IsFiniteSet(InOp)'
    BY InOpFinite, PTL
  <1> QED BY <1>1

LEMMA ReservedBoundNext ==
  /\ Cardinality(Reserved') \in Nat
  /\ Cardinality(Reserved') <= Cardinality(InOp') * MAXOPBLOCKS
  <1>1. (/\ Cardinality(Reserved) \in Nat
         /\ Cardinality(Reserved) <= Cardinality(InOp) * MAXOPBLOCKS)'
    BY ReservedBound, PTL
  <1> QED BY <1>1

\* Where no operation starts and none gives up what it wrote, the room that
\* is reserved does not grow.
LEMMA ReservedShrinks ==
  ASSUME InOp' \subseteq InOp, wrote' = wrote
  PROVE  Cardinality(Reserved') <= Cardinality(Reserved)
  <1>1. Reserved' \subseteq Reserved
    BY DEF Reserved
  <1> QED BY <1>1, ReservedBound, FS_Subset

LEMMA NoneReserved ==
  ASSUME InOp' = {}
  PROVE  Cardinality(Reserved') = 0
  <1>1. Reserved' = {}
    BY DEF Reserved
  <1> QED BY <1>1, FS_EmptySet

\* Only begin_op reserves, only log_write adds to the header while an
\* operation runs.
LEMMA OtherOps ==
  ASSUME TypeOK, IInv, [Next]_vars
  PROVE  \/ \E p \in Procs, b \in Blocks, d \in Data : log_write(p, b, d)
         \/ \E p \in Procs : begin_op(p)
         \/ InOp' \subseteq InOp /\ UNCHANGED <<wrote, lh>>
         \/ InOp' = {} /\ Len(lh') <= LOGSIZE
  <1> DEFINE Shrinks == InOp' \subseteq InOp /\ UNCHANGED <<wrote, lh>>
             Empty   == InOp' = {} /\ Len(lh') <= LOGSIZE
  <1> USE DEF TypeOK, ProcType, disk
  <1>1. CASE UNCHANGED vars
    BY <1>1 DEF vars, InOp
  <1>2. ASSUME NEW b \in Blocks, Bread(b) \/ Recycle(b) PROVE Shrinks
    BY <1>2 DEF Bread, Recycle, InOp
  <1>3. ASSUME NEW p \in Procs, Call(p) PROVE Shrinks
    BY <1>3 DEF Call, InOp
  <1>4. ASSUME NEW p \in Procs, end_op(p) PROVE Shrinks
    BY <1>4 DEF end_op, InOp, Woken
  <1>5. CASE write_log \/ write_head
    BY <1>5 DEF write_log, write_head, InOp
  <1>6. CASE install_trans \/ InstallDone
    BY <1>6 DEF install_trans, InstallDone, InOp
  <1>7. CASE end_commit
    BY <1>7 DEF end_commit, InOp, Woken
  <1>8. CASE clear_head
    <2>1. InOp' = {} /\ lh' = <<>>
      BY <1>8 DEF clear_head, InOp, IInv, OpsInv
    <2> QED BY <2>1, LOGSIZEPos
  <1>9. CASE read_head
    <2>1. InOp' = {} /\ lh' = dhead
      BY <1>9 DEF read_head, InOp, IInv, OpsInv
    <2> QED BY <2>1 DEF IInv, HeaderInv
  <1>10. CASE Crash
    <2>1. InOp' = {} /\ lh' = <<>>
      BY <1>10 DEF Crash, InOp
    <2> QED BY <2>1, LOGSIZEPos
  <1> QED BY <1>1, <1>2, <1>3, <1>4, <1>5, <1>6, <1>7, <1>8, <1>9, <1>10
          DEF Next, Kernel

LEMMA WroteStep ==
  ASSUME TypeOK, IInv, WroteInv, [Next]_vars
  PROVE  WroteInv'
  <1> USE DEF TypeOK, ProcType, CacheType, disk
  <1>1. ASSUME NEW p \in Procs, NEW b \in Blocks, NEW d \in Data, log_write(p, b, d)
        PROVE  WroteInv'
    <2>1. \A a \in Blocks : Logged(a) => Logged(a)'
      <3>1. lh' = lh \/ lh' = Append(lh, b)
        BY <1>1 DEF log_write
      <3>2. Len(lh') >= Len(lh) /\ \A i \in 1..Len(lh) : i \in 1..Len(lh') /\ lh'[i] = lh[i]
        BY <3>1
      <3> QED BY <3>2 DEF Logged
    <2>2. CASE TooBig \/ outstanding < 1
      BY <1>1, <2>1, <2>2 DEF log_write, WroteInv, InOp
    <2>3. CASE ~(TooBig \/ outstanding < 1)
      <3>1. Logged(b)'
        BY <1>1, <2>3 DEF log_write, Logged
      <3>2. wrote' = [wrote EXCEPT ![p] = @ \cup {b}] /\ InOp' = InOp
        BY <1>1, <2>3 DEF log_write, InOp
      <3> QED BY <2>1, <3>1, <3>2 DEF WroteInv, InOp
    <2> QED BY <2>2, <2>3
  <1>2. ASSUME NEW p \in Procs, begin_op(p) PROVE WroteInv'
    <2>1. CASE committing \/ LogFull
      BY <1>2, <2>1 DEF begin_op, WroteInv, InOp, Logged
    <2>2. CASE ~(committing \/ LogFull)
      BY <1>2, <2>2 DEF begin_op, WroteInv, InOp, Logged
    <2> QED BY <2>1, <2>2
  <1>3. CASE InOp' \subseteq InOp /\ UNCHANGED <<wrote, lh>>
    BY <1>3 DEF WroteInv, Logged
  <1>4. CASE InOp' = {}
    BY <1>4 DEF WroteInv
  <1> QED BY <1>1, <1>2, <1>3, <1>4, OtherOps

\* begin_op does not let an operation in for which log_write might have to
\* panic, whatever the running operations still write (log.c:127-142).
THEOREM SpaceCorrect == Spec => []LogSpaceReserved
  <1>1. Init => WroteInv /\ LogSpaceReserved
    <2> SUFFICES ASSUME Init PROVE WroteInv /\ LogSpaceReserved
      OBVIOUS
    <2>1. InOp = {}
      BY DEF Init, InOp
    <2>2. Reserved = {}
      BY <2>1 DEF Reserved
    <2>3. Len(lh) = 0 /\ Cardinality(Reserved) = 0
      BY <2>2, FS_EmptySet DEF Init
    <2> QED BY <2>1, <2>3, LOGSIZEPos DEF WroteInv, LogSpaceReserved
  <1>2. ASSUME TypeOK, IInv, WroteInv, LogSpaceReserved, [Next]_vars
        PROVE  LogSpaceReserved'
    <2> USE DEF TypeOK, ProcType, CacheType, disk
    <2>1. /\ Len(lh) \in Nat /\ Len(lh') \in Nat
          /\ Cardinality(Reserved) \in Nat /\ Cardinality(Reserved') \in Nat
          /\ Cardinality(InOp') \in Nat
      <3>1. TypeOK'
        BY <1>2, InvStep
      <3>2. Cardinality(InOp) \in Nat
        BY InOpFinite, FS_CardinalityType
      <3>3. Cardinality(InOp)' \in Nat
        BY InOpFiniteNext, FS_CardinalityType
      <3> QED BY <1>2, <3>1, <3>2, <3>3, ReservedBound, ReservedBoundNext
    <2>2. ASSUME NEW p \in Procs, begin_op(p) PROVE LogSpaceReserved'
      <3>1. CASE committing \/ LogFull
        <4>1. InOp' \subseteq InOp /\ wrote' = wrote /\ lh' = lh
          BY <1>2, <2>2, <3>1 DEF begin_op, InOp
        <4> QED BY <1>2, <2>1, <4>1, ReservedShrinks, LOGSIZEPos DEF LogSpaceReserved
      <3>2. CASE ~(committing \/ LogFull)
        <4>1. lh' = lh /\ outstanding' = outstanding + 1 /\ outstanding \in Nat
          BY <1>2, <2>2, <3>2 DEF begin_op, ControlType
        <4>2. outstanding' = Cardinality(InOp')
          BY <1>2, InvStep DEF IInv, OpsInv
        <4>3. Cardinality(Reserved') <= Cardinality(InOp') * MAXOPBLOCKS
          BY ReservedBoundNext
        <4>4. Len(lh) + (outstanding + 1) * MAXOPBLOCKS <= LOGSIZE
          BY <1>2, <3>2, <4>1, <2>1, LogAssumption DEF LogFull, LOGSIZE, LogAssumption
        <4>5. Cardinality(Reserved') <= (outstanding + 1) * MAXOPBLOCKS
          BY <4>1, <4>2, <4>3
        <4>6. (outstanding + 1) * MAXOPBLOCKS \in Nat
          BY <4>1, LogAssumption DEF LogAssumption
        <4> HIDE DEF TypeOK
        <4> QED BY <2>1, <4>1, <4>4, <4>5, <4>6, LOGSIZEPos DEF LogSpaceReserved
      <3> QED BY <3>1, <3>2
    <2>3. ASSUME NEW p \in Procs, NEW b \in Blocks, NEW d \in Data,
                 log_write(p, b, d)
          PROVE  LogSpaceReserved'
      <3>1. CASE TooBig \/ outstanding < 1
        <4>1. InOp' \subseteq InOp /\ wrote' = wrote /\ lh' = lh
          BY <1>2, <2>3, <3>1 DEF log_write, InOp
        <4> QED BY <1>2, <2>1, <4>1, ReservedShrinks, LOGSIZEPos DEF LogSpaceReserved
      <3>2. CASE ~(TooBig \/ outstanding < 1)
        <4>1. /\ wrote' = [wrote EXCEPT ![p] = @ \cup {b}]
              /\ lh' = (IF Logged(b) THEN lh ELSE Append(lh, b))
              /\ InOp' = InOp /\ p \in InOp
              /\ Cardinality(wrote[p] \cup {b}) <= MAXOPBLOCKS
          BY <1>2, <2>3, <3>2 DEF log_write, InOp
        <4>2. CASE b \in wrote[p]
          <5>1. Logged(b)
            BY <1>2, <4>1, <4>2 DEF WroteInv
          <5>2. wrote' = wrote
            <6>1. wrote[p] \cup {b} = wrote[p]
              BY <4>2
            <6> QED BY <1>2, <4>1, <6>1
          <5> QED BY <1>2, <2>1, <4>1, <5>1, <5>2, ReservedShrinks, LOGSIZEPos
                  DEF LogSpaceReserved
        <4>3. CASE b \notin wrote[p]
          <5> DEFINE n == Cardinality(wrote[p])
          <5>1. /\ n \in Nat /\ IsFiniteSet(wrote[p])
                /\ \A q \in Procs : Cardinality(wrote[q]) \in Nat
            BY <1>2, WroteFinite
          <5>2. Cardinality(wrote[p] \cup {b}) = n + 1
            BY <4>3, <5>1, FS_AddElement
          <5>3. n + 1 \in 1..MAXOPBLOCKS
            BY <4>1, <5>1, <5>2, LogAssumption DEF LogAssumption
          <5>4. /\ wrote'[p] = wrote[p] \cup {b}
                /\ \A q \in Procs : q # p => wrote'[q] = wrote[q]
            BY <1>2, <4>1
          <5>5. /\ Cardinality(wrote'[p]) = n + 1
                /\ \A q \in Procs : q # p => Cardinality(wrote'[q]) = Cardinality(wrote[q])
            BY <5>2, <5>4
          <5>6. <<p, n + 1>> \in Reserved
            BY <4>1, <5>1, <5>3 DEF Reserved
          <5>7. Reserved' = Reserved \ {<<p, n + 1>>}
            <6> SUFFICES ASSUME NEW q \in InOp, NEW i \in 1..MAXOPBLOCKS
                         PROVE  i > Cardinality(wrote'[q]) <=>
                                  i > Cardinality(wrote[q]) /\ <<q, i>> # <<p, n + 1>>
              <7>1. ASSUME NEW x
                    PROVE  x \in Reserved' <=> x \in Reserved \ {<<p, n + 1>>}
                <8>1. x \in Reserved' <=> x \in InOp \X (1..MAXOPBLOCKS)
                                           /\ x[2] > Cardinality(wrote'[x[1]])
                  BY <4>1 DEF Reserved
                <8>2. x \in Reserved <=> x \in InOp \X (1..MAXOPBLOCKS)
                                          /\ x[2] > Cardinality(wrote[x[1]])
                  BY DEF Reserved
                <8>3. x \in InOp \X (1..MAXOPBLOCKS) =>
                        x[1] \in InOp /\ x[2] \in 1..MAXOPBLOCKS /\ x = <<x[1], x[2]>>
                  OBVIOUS
                <8> QED BY <8>1, <8>2, <8>3
              <7> QED BY <7>1
            <6>1. q \in Procs /\ i \in Nat
              BY LogAssumption DEF InOp, LogAssumption
            <6>2. CASE q = p
              BY <5>1, <5>5, <6>1, <6>2
            <6>3. CASE q # p
              BY <5>5, <6>1, <6>3
            <6> QED BY <6>2, <6>3
          <5>8. Cardinality(Reserved') = Cardinality(Reserved) - 1
            BY <5>6, <5>7, ReservedBound, FS_RemoveElement
          <5>9. Len(lh') <= Len(lh) + 1
            BY <1>2, <4>1, <2>1
          <5> QED BY <1>2, <2>1, <5>8, <5>9, LOGSIZEPos DEF LogSpaceReserved
        <4> QED BY <4>2, <4>3
      <3> QED BY <3>1, <3>2
    <2>4. CASE InOp' \subseteq InOp /\ UNCHANGED <<wrote, lh>>
      BY <1>2, <2>1, <2>4, ReservedShrinks, LOGSIZEPos DEF LogSpaceReserved
    <2>5. CASE InOp' = {} /\ Len(lh') <= LOGSIZE
      BY <2>1, <2>5, NoneReserved DEF LogSpaceReserved
    <2> QED BY <1>2, <2>2, <2>3, <2>4, <2>5, OtherOps
  <1>3. TypeOK /\ IInv /\ WroteInv /\ LogSpaceReserved /\ [Next]_vars
          => (WroteInv /\ LogSpaceReserved)'
    BY <1>2, WroteStep
  <1> QED BY <1>1, <1>3, TypeCorrect, InvCorrect, PTL DEF Spec

-----------------------------------------------------------------------------
(* Log implements AtomicDisk *)

\* What a reboot would find, entry by entry of the header.
LEMMA RedoValue ==
  ASSUME NEW h \in Seq(Blocks), Distinct(h), NEW l, NEW d
  PROVE  /\ \A i \in 1..Len(h) : Redo(h, l, d)[h[i]] = l[i]
         /\ \A b \in Blocks : (\A i \in 1..Len(h) : h[i] # b) => Redo(h, l, d)[b] = d[b]
  <1>1. ASSUME NEW i \in 1..Len(h) PROVE Redo(h, l, d)[h[i]] = l[i]
    <2>1. h[i] \in Blocks
      OBVIOUS
    <2>2. (CHOOSE j \in 1..Len(h) : h[j] = h[i]) = i
      BY DEF Distinct
    <2> QED BY <2>1, <2>2 DEF Redo
  <1>2. ASSUME NEW b \in Blocks, \A i \in 1..Len(h) : h[i] # b
        PROVE  Redo(h, l, d)[b] = d[b]
    BY <1>2 DEF Redo
  <1> QED BY <1>1, <1>2

LEMMA StableSame ==
  ASSUME dhead' = dhead, dlog' = dlog, home' = home
  PROVE  Stable' = Stable
  BY DEF Stable

\* Outside recovery the operations see the cached blocks.
LEMMA CurrentSame ==
  ASSUME phase \notin RecoveryPhases, phase' \notin RecoveryPhases,
         \A b \in Blocks : Contents(b)' = Contents(b)
  PROVE  Current' = Current
  BY DEF Current

LEMMA ReadRefines ==
  ASSUME TypeOK, IInv, NEW b \in Blocks, Bread(b) \/ Recycle(b)
  PROVE  UNCHANGED <<Stable, Current, InOp>>
  <1>1. Stable' = Stable /\ InOp' = InOp
    BY StableSame DEF Bread, Recycle, InOp
  <1>2. CASE phase \in RecoveryPhases
    BY <1>1, <1>2 DEF Bread, Recycle, Current
  <1>3. CASE phase \notin RecoveryPhases
    <2>1. \A c \in Blocks : Contents(c)' = Contents(c)
      BY LogAssumption DEF LogAssumption, Bread, Recycle, Contents, IInv, CacheInv,
         TypeOK, CacheType, DiskType
    <2> QED BY <1>1, <1>3, <2>1, CurrentSame DEF Bread, Recycle
  <1> QED BY <1>2, <1>3

LEMMA BeginRefines ==
  ASSUME TypeOK, IInv, NEW p \in Procs, begin_op(p)
  PROVE  AD!Begin(p) \/ UNCHANGED <<Stable, Current, InOp>>
  <1>1. Stable' = Stable /\ Current' = Current
    <2>1. Stable' = Stable
      BY StableSame DEF begin_op, disk
    <2> QED BY <2>1 DEF begin_op, disk, Current, Contents
  <1>2. p \notin InOp /\ (InOp' = InOp \/ InOp' = InOp \cup {p})
    BY DEF begin_op, InOp, TypeOK, ProcType
  <1> QED BY <1>1, <1>2 DEF AD!Begin

LEMMA UpdateRefines ==
  ASSUME TypeOK, IInv, NEW p \in Procs, NEW b \in Blocks, NEW d \in Data,
         log_write(p, b, d)
  PROVE  AD!Update(p, b, d)
  <1>1. Stable' = Stable /\ InOp' = InOp /\ p \in InOp
    BY StableSame DEF log_write, disk, InOp
  <1>2. phase \notin RecoveryPhases /\ phase' = phase
    BY DEF log_write, Running
  <1>3. \A c \in Blocks : Contents(c)' = IF c = b THEN d ELSE Contents(c)
    BY LogAssumption DEF LogAssumption, log_write, disk, Contents, TypeOK, CacheType
  <1>4. Current' = [Current EXCEPT ![b] = d]
    BY <1>2, <1>3 DEF Current
  <1> QED BY <1>1, <1>4 DEF AD!Update

LEMMA EndRefines ==
  ASSUME TypeOK, IInv, NEW p \in Procs, end_op(p)
  PROVE  AD!End(p)
  <1>1. p \in InOp /\ InOp # {}
    BY DEF end_op, InOp
  <1>2. phase = "none" /\ ~committing
    BY <1>1 DEF IInv, OpsInv
  <1>3. Stable' = Stable
    BY StableSame DEF end_op, disk
  <1>4. phase' \notin RecoveryPhases
    BY <1>2 DEF end_op
  <1>5. \A c \in Blocks : Contents(c)' = Contents(c)
    BY DEF end_op, disk, Contents
  <1>6. Current' = Current
    BY <1>2, <1>4, <1>5, CurrentSame
  <1>7. InOp' = InOp \ {p}
    BY <1>2 DEF end_op, InOp, Woken, TypeOK, ProcType
  <1> QED BY <1>1, <1>3, <1>6, <1>7 DEF AD!End

\* The write of the header is the commit point: the log then holds what the
\* cache holds, for all blocks that differ from their home blocks.
LEMMA CommitRefines ==
  ASSUME TypeOK, IInv, write_head
  PROVE  AD!Commit
  <1>0. dhead' = lh /\ lh \in Seq(Blocks) /\ Distinct(lh)
    BY DEF write_head, TypeOK, CacheType, IInv, HeaderInv
  <1>1. InOp' = InOp /\ InOp = {}
    BY DEF write_head, InOp, IInv, OpsInv
  <1>2. \A c \in Blocks : Contents(c)' = Contents(c)
    BY DEF write_head, Contents
  <1>3. Current' = Current
    BY <1>2, CurrentSame DEF write_head
  <1>4. ASSUME NEW c \in Blocks PROVE Stable'[c] = Contents(c)
    <2>1. CASE \E i \in 1..Len(lh) : lh[i] = c
      <3>1. PICK i \in 1..Len(lh) : lh[i] = c
        BY <2>1
      <3>2. dlog[i] = Contents(c)
        BY <3>1 DEF IInv, PhaseInv, Copied, write_head, TypeOK, CacheType
      <3>3. dlog' = dlog
        BY DEF write_head
      <3>4. Stable'[lh[i]] = dlog'[i]
        BY <1>0, <3>3, RedoValue DEF Stable
      <3> QED BY <3>1, <3>2, <3>3, <3>4
    <2>2. CASE ~\E i \in 1..Len(lh) : lh[i] = c
      <3>1. pins[c] = 0 /\ ~panicked
        BY <2>2 DEF IInv, CacheInv, Pinned, FirstPinned, OpsInv, write_head
      <3>2. Contents(c) = home[c]
        BY <3>1 DEF IInv, CacheInv, Contents
      <3>3. Stable'[c] = home[c]
        BY <1>0, <2>2, RedoValue DEF Stable, write_head
      <3> QED BY <3>2, <3>3
    <2> QED BY <2>1, <2>2
  <1>5. Stable' = Current
    BY <1>4 DEF Stable, Redo, Current, write_head
  <1> QED BY <1>1, <1>3, <1>5 DEF AD!Commit

\* Until the header is written the log does not matter.
LEMMA WriteLogRefines ==
  ASSUME TypeOK, IInv, write_log
  PROVE  UNCHANGED <<Stable, Current, InOp>>
  <1>1. dhead = <<>> /\ dhead' = <<>> /\ home' = home
    BY DEF write_log, IInv, PhaseInv
  <1>2. Stable' = Stable
    BY <1>1 DEF Stable, Redo
  <1>3. Current' = Current
    BY CurrentSame DEF write_log, Contents
  <1> QED BY <1>2, <1>3 DEF write_log, InOp

\* Installing a block copies to its home what a reboot would find there.
LEMMA InstallRefines ==
  ASSUME TypeOK, IInv, install_trans
  PROVE  UNCHANGED <<Stable, Current, InOp>>
  <1>1. tail \in 1..Len(lh) /\ lh[tail] \in Blocks /\ Len(lh) <= LOGSIZE
    BY DEF install_trans, IInv, HeaderInv, TypeOK, CacheType, ControlType
  <1>2. dhead = lh /\ dhead' = lh /\ dlog' = dlog
    BY DEF install_trans, IInv, PhaseInv
  <1>3. \A c \in Blocks : c # lh[tail] => home'[c] = home[c] /\ buf'[c] = buf[c]
    BY DEF install_trans, TypeOK, DiskType, CacheType
  <1>4. Stable' = Stable
    BY <1>1, <1>2, <1>3 DEF Stable, Redo
  <1>5. CASE phase = "install"
    <2>1. dlog[tail] = Contents(lh[tail])
      BY <1>1, <1>5 DEF IInv, PhaseInv, Copied, TypeOK, CacheType
    <2>2. dlog[tail] \in Data
      BY <1>1, LOGSIZEPos DEF TypeOK, DiskType
    <2>3. \A c \in Blocks : Contents(c)' = Contents(c)
      BY <1>1, <1>3, <2>1, <2>2, LogAssumption
      DEF LogAssumption, install_trans, Contents, TypeOK, CacheType
    <2>4. Current' = Current
      BY <1>5, <2>3, CurrentSame DEF install_trans
    <2> QED BY <1>4, <2>4 DEF install_trans, InOp
  <1>6. CASE phase = "rinstall"
    BY <1>4, <1>6 DEF install_trans, InOp, Current
  <1> QED BY <1>5, <1>6 DEF install_trans

\* The transaction is erased when all of its blocks are at home.
LEMMA ClearRefines ==
  ASSUME TypeOK, IInv, clear_head
  PROVE  UNCHANGED <<Stable, Current, InOp>>
  <1>1. dhead = lh /\ dhead' = <<>> /\ home' = home /\ buf' = buf
    BY DEF clear_head, IInv, PhaseInv
  <1>2. \A i \in 1..Len(lh) : home[lh[i]] = dlog[i]
    BY DEF clear_head, IInv, PhaseInv, Installed, TypeOK, CacheType
  <1>3. ASSUME NEW c \in Blocks PROVE Stable[c] = home[c]
    <2>1. lh \in Seq(Blocks) /\ Distinct(lh)
      BY DEF TypeOK, CacheType, IInv, HeaderInv
    <2> QED BY <1>1, <1>2, <2>1, RedoValue DEF Stable
  <1>4. Stable = [c \in Blocks |-> home[c]]
    <2>1. Stable = [c \in Blocks |-> Stable[c]]
      BY DEF Stable, Redo
    <2> QED BY <1>3, <2>1
  <1>5. Stable' = Stable
    <2>1. Stable' = [c \in Blocks |-> home[c]]
      BY <1>1 DEF Stable, Redo
    <2> QED BY <1>4, <2>1
  <1>6. CASE phase = "clear"
    BY <1>5, <1>6, CurrentSame DEF clear_head, InOp, Contents
  <1>7. CASE phase = "rclear"
    <2>1. ASSUME NEW c \in Blocks PROVE Contents(c)' = home[c]
      <3>1. ~Pinned(c) /\ ~panicked
        BY <1>7 DEF Pinned, FirstPinned, IInv, OpsInv, TypeOK, CacheType
      <3>2. buf[c] \in {NoBuf, home[c]}
        BY <3>1 DEF IInv, CacheInv
      <3> QED BY <1>1, <3>2 DEF Contents
    <2>2. Current' = Stable
      <3>1. Current' = [c \in Blocks |-> Contents(c)']
        BY <1>7 DEF Current, clear_head
      <3> QED BY <1>4, <2>1, <3>1
    <2> QED BY <1>5, <1>7, <2>2 DEF Current, clear_head, InOp
  <1> QED BY <1>6, <1>7 DEF clear_head

LEMMA CrashRefines ==
  ASSUME Crash
  PROVE  AD!Crash
  <1>1. Stable' = Stable
    BY StableSame DEF Crash, disk
  <1>2. Current' = Stable'
    BY DEF Current, Crash
  <1>3. InOp' = {}
    BY DEF InOp, Crash
  <1> QED BY <1>1, <1>2, <1>3 DEF AD!Crash

\* Steps that touch neither the blocks nor the set of operations.
LEMMA OtherRefines ==
  ASSUME TypeOK, IInv,
         \/ \E p \in Procs : Call(p)
         \/ InstallDone \/ end_commit \/ read_head
         \/ UNCHANGED vars
  PROVE  UNCHANGED <<Stable, Current, InOp>>
  <1>1. UNCHANGED <<home, dlog, dhead, buf>>
    BY DEF Call, InstallDone, end_commit, read_head, vars, disk
  <1>2. Stable' = Stable
    BY <1>1, StableSame
  <1>3. phase' \in RecoveryPhases <=> phase \in RecoveryPhases
    BY DEF Call, InstallDone, end_commit, read_head, vars
  <1>4. Current' = Current
    BY <1>1, <1>2, <1>3 DEF Current, Contents
  <1>5. InOp' = InOp
    BY DEF Call, InstallDone, end_commit, read_head, vars, InOp, Woken, TypeOK, ProcType
  <1> QED BY <1>2, <1>4, <1>5

\* Every behaviour of log.c is a behaviour of AtomicDisk: the blocks that
\* survive a crash are those of a moment when no operation was active.
THEOREM LogImplementsAtomicDisk == Spec => AtomicAndDurable
  <1>1. Init => AD!ADInit
    <2> SUFFICES ASSUME Init PROVE AD!ADInit
      OBVIOUS
    <2>1. Stable \in [Blocks -> Data]
      BY DEF Init, Stable, Redo
    <2>2. Current = Stable /\ InOp = {}
      BY DEF Init, Current, InOp
    <2> QED BY <2>1, <2>2 DEF AD!ADInit
  <1>2. TypeOK /\ IInv /\ [Next]_vars => [AD!ADNext]_(AD!advars)
    <2> SUFFICES ASSUME TypeOK, IInv, [Next]_vars
                 PROVE  AD!ADNext \/ UNCHANGED <<Stable, Current, InOp>>
      BY DEF AD!advars
    <2>1. CASE \E b \in Blocks : Bread(b) \/ Recycle(b)
      BY <2>1, ReadRefines
    <2>2. CASE \E p \in Procs : begin_op(p)
      BY <2>2, BeginRefines DEF AD!ADNext
    <2>3. CASE \E p \in Procs : end_op(p)
      BY <2>3, EndRefines DEF AD!ADNext
    <2>4. CASE \E p \in Procs, b \in Blocks, d \in Data : log_write(p, b, d)
      BY <2>4, UpdateRefines DEF AD!ADNext
    <2>5. CASE write_head
      BY <2>5, CommitRefines DEF AD!ADNext
    <2>6. CASE write_log \/ install_trans \/ clear_head
      BY <2>6, WriteLogRefines, InstallRefines, ClearRefines
    <2>7. CASE Crash
      BY <2>7, CrashRefines DEF AD!ADNext
    <2>8. CASE (\E p \in Procs : Call(p)) \/ InstallDone \/ end_commit \/ read_head \/ UNCHANGED vars
      BY <2>8, OtherRefines
    <2> QED BY <2>1, <2>2, <2>3, <2>4, <2>5, <2>6, <2>7, <2>8 DEF Next, Kernel
  <1> QED BY <1>1, <1>2, TypeCorrect, InvCorrect, PTL DEF Spec, AtomicAndDurable, AD!ADSpec
=============================================================================
