------------------------------ MODULE FsProofs ------------------------------
(***************************************************************************)
(* Proofs about the contents of files (FileData), for any number of        *)
(* processes, inodes, files and blocks and any block size: the bitmap and  *)
(* the inodes agree whatever fails halfway, no transaction of filewrite    *)
(* outgrows its reservation, and a file is the bytes that were written.    *)
(*                                                                         *)
(* The block addresses that an inode holds are its slots: addrs[0] to      *)
(* addrs[NDIRECT], then the entries of the indirect block.  bmap changes   *)
(* one empty slot at a time, to a block that was free.                     *)
(***************************************************************************)
EXTENDS FileData, ModArith, FiniteSetTheorems, TLAPS

Val == ByteValues \cup 0..NB
Zeros == [c \in Cells |-> 0]
InodeRec == [size : Nat, addrs : [0..NDIRECT -> 0..NB]]
DiskFun == [Blocks -> [Cells -> Val]]

\* The state of the disk that bmap works on.
Mem == [used : SUBSET Blocks, disk : DiskFun, ino : InodeRec,
        log : SUBSET ({"bitmap", "block"} \X Nat), addr : 0..NB]

Slots == 0..NDIRECT + NINDIRECT

\* The slot of block bn of a file.
SlotOf(bn) == IF bn < NDIRECT THEN bn ELSE bn + 1

\* The address in slot k of inode I with disk D.
At(D, I, k) == IF k <= NDIRECT THEN I.addrs[k]
               ELSE IF I.addrs[NDIRECT] = 0 THEN 0
               ELSE D[I.addrs[NDIRECT]][k - NDIRECT - 1]

\* f with y at x, and with y at place k of what it has at x.
With(f, x, y) == [f EXCEPT ![x] = y]
Put(f, x, k, y) == [f EXCEPT ![x][k] = y]

Tree(D, N) == [j \in FileInodes |-> [k \in Slots |-> At(D, N[j], k)]]

\* Used blocks are in one slot each, and only they are in slots.
Accounted(U, A) ==
  /\ A \in [FileInodes -> [Slots -> U \cup {0}]]
  /\ \A i, j \in FileInodes, k, l \in Slots :
       A[i][k] = A[j][l] /\ A[i][k] # 0 => i = j /\ k = l
  /\ \A b \in U : \E i \in FileInodes, k \in Slots : A[i][k] = b

\* A step of a call on inode i, in memory m, has left the accounts right.
Sound(m, i, N) ==
  /\ m \in Mem /\ N \in [FileInodes -> InodeRec]
  /\ Accounted(m.used, Tree(m.disk, With(N, i, m.ino)))

-----------------------------------------------------------------------------
(* Blocks                                                                  *)

LEMMA CellsNat == /\ Cells \subseteq Nat
                  /\ \A k \in 0..NINDIRECT-1 : k \in Cells
                  /\ \A k \in 0..BSIZE-1 : k \in Cells
  BY DataAssumption DEF DataAssumption, Cells

\* An empty slot takes a free block.
LEMMA AccountsGrow ==
  ASSUME NEW U \in SUBSET Blocks, NEW A, Accounted(U, A), NEW i \in FileInodes,
         NEW k \in Slots, A[i][k] = 0, NEW b \in Blocks, b \notin U
  PROVE  Accounted(U \cup {b}, Put(A, i, k, b))
  <1> DEFINE A2 == [A EXCEPT ![i][k] = b]
  <1>1. \A j \in FileInodes, l \in Slots :
          A2[j][l] = IF j = i /\ l = k THEN b ELSE A[j][l]
    BY DEF Accounted
  <1>2. A2 \in [FileInodes -> [Slots -> (U \cup {b}) \cup {0}]]
    BY DEF Accounted
  <1>3. ASSUME NEW j \in FileInodes, NEW h \in FileInodes, NEW l \in Slots,
               NEW m \in Slots, A2[j][l] = A2[h][m], A2[j][l] # 0
        PROVE  j = h /\ l = m
    <2>1. A[j][l] \in U \cup {0} /\ A[h][m] \in U \cup {0}
      BY DEF Accounted
    <2>2. A[j][l] # b /\ A[h][m] # b
      BY <2>1, DataAssumption DEF Blocks, DataAssumption
    <2> QED BY <1>1, <1>3, <2>2 DEF Accounted
  <1>4. ASSUME NEW c \in U \cup {b}
        PROVE  \E j \in FileInodes, l \in Slots : A2[j][l] = c
    <2>1. CASE c = b
      BY <1>1, <2>1
    <2>2. CASE c # b
      <3>1. PICK j \in FileInodes, l \in Slots : A[j][l] = c
        BY <2>2 DEF Accounted
      <3>2. c # 0
        BY <2>2, DataAssumption DEF Blocks, DataAssumption
      <3>3. A2[j][l] = c
        BY <1>1, <3>1, <3>2
      <3> QED BY <3>3
    <2> QED BY <2>1, <2>2
  <1> HIDE DEF A2
  <1>5. Accounted(U \cup {b}, A2)
    BY <1>2, <1>3, <1>4 DEF Accounted
  <1> QED BY <1>5 DEF A2, Put

\* An inode gives its blocks back.
LEMMA AccountsShrink ==
  ASSUME NEW U \in SUBSET Blocks, NEW A, Accounted(U, A), NEW i \in FileInodes
  PROVE  Accounted(U \ {A[i][k] : k \in Slots}, With(A, i, [k \in Slots |-> 0]))
  <1> DEFINE A2 == [A EXCEPT ![i] = [k \in Slots |-> 0]]
             V == U \ {A[i][k] : k \in Slots}
  <1>1. \A j \in FileInodes, l \in Slots :
          A2[j][l] = IF j = i THEN 0 ELSE A[j][l]
    BY DEF Accounted
  <1>2. ASSUME NEW j \in FileInodes, j # i, NEW l \in Slots
        PROVE  A[j][l] \in V \cup {0}
    BY <1>2 DEF Accounted
  <1>3. A2 \in [FileInodes -> [Slots -> V \cup {0}]]
    <2>1. \A j \in FileInodes : A2[j] \in [Slots -> V \cup {0}]
      <3> SUFFICES ASSUME NEW j \in FileInodes
                   PROVE  A2[j] \in [Slots -> V \cup {0}]
        OBVIOUS
      <3>1. CASE j = i
        BY <3>1 DEF Accounted
      <3>2. CASE j # i
        <4>1. A2[j] = A[j] /\ A[j] \in [Slots -> U \cup {0}]
          BY <3>2 DEF Accounted
        <4> QED BY <4>1, <1>2, <3>2
      <3> QED BY <3>1, <3>2
    <2>2. A2 = [j \in FileInodes |-> A2[j]]
      BY DEF Accounted
    <2> HIDE DEF A2
    <2> QED BY <2>1, <2>2
  <1>4. \A j, h \in FileInodes, l, m \in Slots :
          A2[j][l] = A2[h][m] /\ A2[j][l] # 0 => j = h /\ l = m
    BY <1>1 DEF Accounted
  <1>5. \A c \in V : \E j \in FileInodes, l \in Slots : A2[j][l] = c
    <2> SUFFICES ASSUME NEW c \in V
                 PROVE  \E j \in FileInodes, l \in Slots : A2[j][l] = c
      OBVIOUS
    <2>1. PICK j \in FileInodes, l \in Slots : A[j][l] = c
      BY DEF Accounted
    <2>2. j # i
      BY <2>1
    <2> QED BY <1>1, <2>1, <2>2
  <1> QED BY <1>3, <1>4, <1>5 DEF Accounted, With


\* r is memory m when balloc has taken block b.
Took(m, r, b) ==
  /\ r \in Mem /\ b \in Blocks /\ b \notin m.used
  /\ r.used = m.used \cup {b} /\ r.disk = With(m.disk, b, Zeros) /\ r.ino = m.ino
  /\ r.log = m.log \cup {BBLOCK(b), <<"block", b>>} /\ r.addr = b

LEMMA BitmapBlock ==
  ASSUME NEW b \in Nat
  PROVE  /\ BBLOCK(b) \in {"bitmap", "block"} \X Nat
         /\ <<"block", b>> \in {"bitmap", "block"} \X Nat
  <1>1. b \div BPB \in Nat
    BY DataAssumption, Z3 DEF DataAssumption
  <1> QED BY <1>1 DEF BBLOCK

LEMMA BlocksNat == Blocks \subseteq Nat \ {0} /\ Blocks \subseteq 0..NB /\ 0 \in 0..NB
  BY DataAssumption DEF Blocks, DataAssumption

LEMMA ZeroedTakes ==
  ASSUME NEW m \in Mem, NEW b \in Blocks, b \notin m.used
  PROVE  Took(m, [Zeroed(m, b) EXCEPT !.addr = b], b)
  <1> DEFINE U == m.used \cup {b}
             L == m.log \cup {BBLOCK(b), <<"block", b>>}
             z == Zeroed(m, b)
  <1>1. b \in Nat /\ b \in 0..NB
    BY BlocksNat
  <1>2. BBLOCK(b) \in {"bitmap", "block"} \X Nat /\ <<"block", b>> \in {"bitmap", "block"} \X Nat
    BY <1>1, BitmapBlock
  <1>3. Zeros \in [Cells -> Val]
    BY DataAssumption DEF Zeros, Val, DataAssumption
  <1>4. [m.disk EXCEPT ![b] = Zeros] \in DiskFun
    BY <1>3 DEF Mem, DiskFun
  <1>5. U \in SUBSET Blocks
    BY DEF Mem
  <1>6. L \in SUBSET ({"bitmap", "block"} \X Nat)
    BY <1>2 DEF Mem
  <1>7. z = [m EXCEPT !.used = U, !.disk[b] = Zeros, !.log = L]
    BY DEF Zeroed, Zeros
  <1> HIDE DEF z, U, L
  <1>8. z \in Mem
    BY <1>4, <1>5, <1>6, <1>7 DEF Mem
  <1>9. z.used = U /\ z.disk = [m.disk EXCEPT ![b] = Zeros] /\ z.ino = m.ino /\ z.log = L
    BY <1>7 DEF Mem
  <1>10. [z EXCEPT !.addr = b] \in Mem
    BY <1>1, <1>8 DEF Mem
  <1> QED BY <1>8, <1>9, <1>10 DEF Mem, Took, With, U, L, z

\* balloc finds a free block or says that there is none.
LEMMA BallocTakes ==
  ASSUME NEW m \in Mem
  PROVE  \/ balloc(m) = [m EXCEPT !.addr = 0]
         \/ \E b \in Blocks \ m.used : Took(m, balloc(m), b)
  <1> DEFINE free == Blocks \ m.used
             b == CHOOSE x \in free : \A y \in free : x <= y
  <1>1. CASE free = {}
    BY <1>1 DEF balloc
  <1>2. CASE free # {}
    <2>1. free \subseteq Nat
      BY DEF Blocks
    <2>2. \E x \in free : \A y \in free : x <= y
      <3> HIDE DEF free
      <3> QED BY <2>1, <1>2, HasSmallest
    <2>3. b \in free
      <3> HIDE DEF free
      <3> QED BY <2>2
    <2>4. balloc(m) = [Zeroed(m, b) EXCEPT !.addr = b]
      BY <1>2 DEF balloc
    <2> HIDE DEF b
    <2> QED BY <2>3, <2>4, ZeroedTakes
  <1> QED BY <1>1, <1>2

\* An indirect block is in use.
LEMMA IndirectUsed ==
  ASSUME NEW U \in SUBSET Blocks, NEW D, NEW N, NEW j \in FileInodes, Accounted(U, Tree(D, N))
  PROVE  N[j].addrs[NDIRECT] \in U \cup {0}
  <1>1. NDIRECT \in Slots
    BY DataAssumption DEF Slots, DataAssumption
  <1>2. Tree(D, N)[j][NDIRECT] = N[j].addrs[NDIRECT]
    BY <1>1, DataAssumption DEF Tree, At, DataAssumption
  <1> QED BY <1>1, <1>2 DEF Accounted

\* A block that was free and is zeroed is in nobody's slots.
LEMMA TookTree ==
  ASSUME NEW U \in SUBSET Blocks, NEW D \in DiskFun, NEW N \in [FileInodes -> InodeRec],
         Accounted(U, Tree(D, N)), NEW b \in Blocks, b \notin U
  PROVE  Tree(With(D, b, Zeros), N) = Tree(D, N)
  <1> DEFINE E == [D EXCEPT ![b] = Zeros]
  <1>1. ASSUME NEW j \in FileInodes, NEW k \in Slots
        PROVE  At(E, N[j], k) = At(D, N[j], k)
    <2>1. N[j].addrs[NDIRECT] \in U \cup {0}
      BY IndirectUsed
    <2>2. N[j].addrs[NDIRECT] # b
      BY <2>1, DataAssumption DEF Blocks, DataAssumption
    <2>3. N[j].addrs[NDIRECT] # 0 => E[N[j].addrs[NDIRECT]] = D[N[j].addrs[NDIRECT]]
      BY <2>1, <2>2 DEF DiskFun
    <2> HIDE DEF E
    <2> QED BY <2>3 DEF At
  <1> QED BY <1>1 DEF Tree, With


\* A new block in addrs[n] fills that slot; as the indirect block it is empty.
LEMMA DirectTree ==
  ASSUME NEW U \in SUBSET Blocks, NEW D \in DiskFun, NEW N \in [FileInodes -> InodeRec],
         Accounted(U, Tree(D, N)), NEW b \in Blocks, b \notin U,
         NEW i \in FileInodes, NEW n \in 0..NDIRECT, N[i].addrs[n] = 0,
         NEW I \in InodeRec, I.addrs = With(N[i].addrs, n, b)
  PROVE  Tree(With(D, b, Zeros), With(N, i, I)) = Put(Tree(D, N), i, n, b)
  <1> DEFINE E == With(D, b, Zeros)
             M == With(N, i, I)
             A == Tree(D, N)
  <1>1. A = Tree(E, N)
    BY TookTree
  <1>2. E[b] = Zeros
    BY DEF DiskFun, With
  <1> HIDE DEF E
  <1>3. \A k \in Slots : At(E, I, k) = IF k = n THEN b ELSE At(E, N[i], k)
    <2> SUFFICES ASSUME NEW k \in Slots
                 PROVE  At(E, I, k) = IF k = n THEN b ELSE At(E, N[i], k)
      OBVIOUS
    <2>0. /\ NDIRECT \in Nat /\ NINDIRECT \in Nat /\ k \in Nat /\ k <= NDIRECT + NINDIRECT
          /\ n \in Nat /\ n <= NDIRECT
      BY DataAssumption DEF DataAssumption, Slots
    <2>1. \A l \in 0..NDIRECT : I.addrs[l] = IF l = n THEN b ELSE N[i].addrs[l]
      BY DEF InodeRec, With
    <2>2. CASE k <= NDIRECT
      <3>1. k \in 0..NDIRECT
        BY <2>0, <2>2
      <3> QED BY <2>1, <2>2, <3>1 DEF At
    <2>3. CASE ~(k <= NDIRECT) /\ n = NDIRECT
      <3>1. k - NDIRECT - 1 \in 0..NINDIRECT-1
        BY <2>0, <2>3
      <3>2. E[b][k - NDIRECT - 1] = 0
        BY <1>2, <3>1, CellsNat DEF Zeros
      <3>3. I.addrs[NDIRECT] = b /\ b # 0 /\ k # n
        BY <2>0, <2>1, <2>3, BlocksNat
      <3>4. At(E, N[i], k) = 0
        BY <2>3 DEF At
      <3> QED BY <2>3, <3>2, <3>3, <3>4 DEF At
    <2>4. CASE ~(k <= NDIRECT) /\ n # NDIRECT
      <3>1. I.addrs[NDIRECT] = N[i].addrs[NDIRECT] /\ k # n
        BY <2>0, <2>1, <2>4
      <3> QED BY <2>4, <3>1 DEF At
    <2> QED BY <2>2, <2>3, <2>4
  <1>4. n \in Slots
    BY DataAssumption DEF DataAssumption, Slots
  <1>5. \A j \in FileInodes : M[j] = IF j = i THEN I ELSE N[j]
    BY DEF With
  <1> HIDE DEF M
  <1>6. Tree(E, M) = [j \in FileInodes |-> [k \in Slots |->
                        IF j = i /\ k = n THEN b ELSE At(E, N[j], k)]]
    BY <1>3, <1>5 DEF Tree
  <1>7. Put(Tree(E, N), i, n, b)
          = [j \in FileInodes |-> [k \in Slots |-> IF j = i /\ k = n THEN b ELSE At(E, N[j], k)]]
    BY <1>4 DEF Tree, Put
  <1> QED BY <1>1, <1>6, <1>7 DEF E, M

\* A new block in entry e of the indirect block fills that slot, and no slot
\* of another inode, because the indirect block is in one slot.
LEMMA EntryTree ==
  ASSUME NEW U \in SUBSET Blocks, NEW D \in DiskFun, NEW N \in [FileInodes -> InodeRec],
         Accounted(U, Tree(D, N)), NEW b \in Blocks, b \notin U,
         NEW i \in FileInodes, NEW e \in 0..NINDIRECT-1, N[i].addrs[NDIRECT] # 0,
         NEW E, E = Put(With(D, b, Zeros), N[i].addrs[NDIRECT], e, b)
  PROVE  Tree(E, N) = Put(Tree(D, N), i, NDIRECT + 1 + e, b)
  <1> DEFINE ind == N[i].addrs[NDIRECT]
             C == With(D, b, Zeros)
             A == Tree(D, N)
             s == NDIRECT + 1 + e
  <1>0. /\ NDIRECT \in Nat /\ NINDIRECT \in Nat /\ s \in Nat /\ s \in Slots
        /\ e \in Nat /\ s > NDIRECT /\ s - NDIRECT - 1 = e
    BY DataAssumption DEF DataAssumption, Slots
  <1>1. A = Tree(C, N)
    BY TookTree
  <1>2. ind \in U /\ ind \in Blocks /\ ind # b
    <2>1. ind \in U \cup {0}
      BY IndirectUsed
    <2> QED BY <2>1
  <1>3. C \in [Blocks -> [Cells -> Val]]
    BY DataAssumption DEF DiskFun, Zeros, Val, With, DataAssumption
  <1>4. e \in Cells
    BY CellsNat
  <1>5. E = [C EXCEPT ![ind][e] = b]
    BY DEF Put
  <1> HIDE DEF C
  <1>6. \A c \in Blocks, l \in Cells : E[c][l] = IF c = ind /\ l = e THEN b ELSE C[c][l]
    BY <1>2, <1>3, <1>4, <1>5
  <1>7. ASSUME NEW j \in FileInodes, NEW k \in Slots
        PROVE  At(E, N[j], k) = IF j = i /\ k = s THEN b ELSE At(C, N[j], k)
    <2>0. k \in Nat /\ k <= NDIRECT + NINDIRECT
      BY <1>0 DEF Slots
    <2>1. CASE k <= NDIRECT
      BY <2>0, <2>1, <1>0 DEF At
    <2>2. CASE ~(k <= NDIRECT) /\ N[j].addrs[NDIRECT] = 0
      <3>1. j # i
        BY <2>2
      <3> QED BY <2>2, <3>1 DEF At
    <2>3. CASE ~(k <= NDIRECT) /\ N[j].addrs[NDIRECT] # 0
      <3>1. k - NDIRECT - 1 \in 0..NINDIRECT-1
        BY <2>0, <2>3, <1>0
      <3>2. k - NDIRECT - 1 \in Cells
        BY <3>1, CellsNat
      <3>3. N[j].addrs[NDIRECT] \in Blocks
        BY <2>3, IndirectUsed
      <3>4. N[j].addrs[NDIRECT] = ind => j = i
        <4>1. NDIRECT \in Slots /\ NDIRECT <= NDIRECT
          BY <1>0 DEF Slots
        <4>2. A[j][NDIRECT] = N[j].addrs[NDIRECT] /\ A[i][NDIRECT] = ind
          BY <4>1 DEF Tree, At
        <4> QED BY <4>1, <4>2 DEF Accounted
      <3>5. k - NDIRECT - 1 = e <=> k = s
        BY <1>0, <2>0
      <3>6. At(E, N[j], k) = E[N[j].addrs[NDIRECT]][k - NDIRECT - 1]
        BY <2>3 DEF At
      <3>7. At(C, N[j], k) = C[N[j].addrs[NDIRECT]][k - NDIRECT - 1]
        BY <2>3 DEF At
      <3> QED BY <1>6, <3>2, <3>3, <3>4, <3>5, <3>6, <3>7
    <2> QED BY <2>1, <2>2, <2>3
  <1> HIDE DEF s
  <1>8. Tree(E, N) = [j \in FileInodes |-> [k \in Slots |->
                        IF j = i /\ k = s THEN b ELSE At(C, N[j], k)]]
    BY <1>7 DEF Tree
  <1>9. Put(Tree(C, N), i, s, b)
          = [j \in FileInodes |-> [k \in Slots |-> IF j = i /\ k = s THEN b ELSE At(C, N[j], k)]]
    BY <1>0 DEF Tree, Put
  <1> QED BY <1>1, <1>8, <1>9 DEF s


TreeOf(m, i, N) == Tree(m.disk, With(N, i, m.ino))

\* r is memory m with the free block b in slot s of inode i.
Filled(m, r, i, N, s, b) ==
  /\ r \in Mem /\ b \in Blocks /\ b \notin m.used /\ r.addr = b
  /\ r.used = m.used \cup {b}
  /\ TreeOf(r, i, N) = Put(TreeOf(m, i, N), i, s, b)
  /\ r.ino.size = m.ino.size
  /\ \A c \in m.used : c # m.ino.addrs[NDIRECT] => r.disk[c] = m.disk[c]

LEMMA FilledSound ==
  ASSUME NEW N, NEW i \in FileInodes, NEW m, NEW r, NEW s \in Slots, NEW b,
         Sound(m, i, N), TreeOf(m, i, N)[i][s] = 0, Filled(m, r, i, N, s, b)
  PROVE  Sound(r, i, N)
  <1>1. m.used \in SUBSET Blocks /\ Accounted(m.used, TreeOf(m, i, N))
    BY DEF Sound, Mem, TreeOf
  <1>2. Accounted(m.used \cup {b}, Put(TreeOf(m, i, N), i, s, b))
    BY <1>1, AccountsGrow DEF Filled
  <1>3. Accounted(r.used, TreeOf(r, i, N))
    BY <1>2 DEF Filled
  <1> QED BY <1>3 DEF Sound, Filled, TreeOf

\* Another result does not disturb the accounts.
LEMMA AddrSound ==
  ASSUME NEW N, NEW i \in FileInodes, NEW m, NEW x \in 0..NB, Sound(m, i, N)
  PROVE  LET r == [m EXCEPT !.addr = x]
         IN  /\ Sound(r, i, N) /\ r \in Mem
             /\ r.used = m.used /\ r.disk = m.disk /\ r.ino = m.ino /\ r.log = m.log /\ r.addr = x
             /\ TreeOf(r, i, N) = TreeOf(m, i, N)
  <1> DEFINE r == [m EXCEPT !.addr = x]
  <1>1. m \in Mem
    BY DEF Sound
  <1>2. r \in Mem /\ r.used = m.used /\ r.disk = m.disk /\ r.ino = m.ino /\ r.log = m.log /\ r.addr = x
    BY <1>1 DEF Mem
  <1> HIDE DEF r
  <1>3. TreeOf(r, i, N) = TreeOf(m, i, N)
    BY <1>2 DEF TreeOf
  <1>4. Sound(r, i, N)
    BY <1>2 DEF Sound
  <1> QED BY <1>2, <1>3, <1>4 DEF r

Answer(m, x) == [m EXCEPT !.addr = x]

\* r is what bmap finds, or does not find, for addrs[n] of inode i.
Direct(m, r, i, N, n) ==
  \/ m.ino.addrs[n] # 0 /\ r = Answer(m, m.ino.addrs[n])
  \/ m.ino.addrs[n] = 0 /\ r = Answer(m, 0)
  \/ /\ m.ino.addrs[n] = 0
     /\ \E b \in Blocks :
          /\ Filled(m, r, i, N, n, b)
          /\ r.ino.addrs = With(m.ino.addrs, n, b)
          /\ r.log = m.log \cup {BBLOCK(b), <<"block", b>>}

\* bmap for a slot of the inode itself.
LEMMA BmapDirect ==
  ASSUME NEW N, NEW i \in FileInodes, NEW m, Sound(m, i, N), NEW n \in 0..NDIRECT
  PROVE  Direct(m, bmap_direct(m, n), i, N, n)
  <1> DEFINE r == bmap_direct(m, n)
             a == balloc(m)
  <1>1. m \in Mem /\ N \in [FileInodes -> InodeRec]
    BY DEF Sound
  <1>2. CASE m.ino.addrs[n] # 0
    BY <1>2 DEF bmap_direct, Answer, Direct
  <1>3. CASE m.ino.addrs[n] = 0 /\ a = [m EXCEPT !.addr = 0]
    <2>1. a.addr = 0
      BY <1>1, <1>3 DEF Mem
    <2> QED BY <1>3, <2>1 DEF bmap_direct, Answer, Direct
  <1>4. CASE m.ino.addrs[n] = 0 /\ \E b \in Blocks \ m.used : Took(m, a, b)
    <2>1. PICK b \in Blocks \ m.used : Took(m, a, b)
      BY <1>4
    <2>2. a.addr = b /\ b # 0 /\ b \in 0..NB /\ a \in Mem
      BY <2>1, BlocksNat DEF Took
    <2>3. r = [a EXCEPT !.ino.addrs[n] = b]
      BY <1>4, <2>2 DEF bmap_direct
    <2> HIDE DEF r, a
    <2>4. a.ino \in InodeRec
      BY <2>2 DEF Mem
    <2> DEFINE I == [a.ino EXCEPT !.addrs[n] = b]
    <2>5. I \in InodeRec /\ I.addrs = With(a.ino.addrs, n, b) /\ I.size = a.ino.size
      BY <2>2, <2>4 DEF InodeRec, With
    <2>6. r = [a EXCEPT !.ino = I]
      BY <2>3
    <2> HIDE DEF I
    <2>7. r \in Mem /\ r.used = a.used /\ r.disk = a.disk /\ r.ino = I /\ r.log = a.log /\ r.addr = b
      BY <2>2, <2>5, <2>6 DEF Mem
    <2> DEFINE M == With(N, i, m.ino)
    <2>8. /\ M \in [FileInodes -> InodeRec] /\ M[i] = m.ino /\ m.ino = a.ino
          /\ With(N, i, I) = With(M, i, I)
      BY <1>1, <2>1 DEF Mem, Took, With
    <2>9. Accounted(m.used, Tree(m.disk, M))
      BY DEF Sound
    <2> HIDE DEF M
    <2>10. Tree(With(m.disk, b, Zeros), With(M, i, I)) = Put(Tree(m.disk, M), i, n, b)
      <3>1. m.used \in SUBSET Blocks /\ m.disk \in DiskFun
        BY <1>1 DEF Mem
      <3>2. M[i].addrs[n] = 0 /\ I.addrs = With(M[i].addrs, n, b)
        BY <1>4, <2>5, <2>8
      <3> QED BY <2>1, <2>5, <2>8, <2>9, <3>1, <3>2, DirectTree
    <2>11. TreeOf(r, i, N) = Put(TreeOf(m, i, N), i, n, b)
      <3>1. r.disk = With(m.disk, b, Zeros)
        BY <2>1, <2>7 DEF Took
      <3>2. TreeOf(r, i, N) = Tree(With(m.disk, b, Zeros), With(M, i, I))
        BY <2>7, <2>8, <3>1 DEF TreeOf
      <3>3. TreeOf(m, i, N) = Tree(m.disk, M)
        BY DEF TreeOf, M
      <3> QED BY <2>10, <3>2, <3>3
    <2>12. \A c \in m.used : r.disk[c] = m.disk[c]
      BY <1>1, <2>1, <2>7 DEF Took, Mem, DiskFun, With
    <2>13. r.used = m.used \cup {b} /\ r.log = m.log \cup {BBLOCK(b), <<"block", b>>}
      BY <2>1, <2>7 DEF Took
    <2>14. r.ino.size = m.ino.size /\ r.ino.addrs = With(m.ino.addrs, n, b)
      BY <2>5, <2>7, <2>8
    <2>15. Filled(m, r, i, N, n, b)
      BY <2>1, <2>7, <2>11, <2>12, <2>13, <2>14 DEF Filled
    <2> QED BY <1>4, <2>1, <2>13, <2>14, <2>15 DEF r, Direct
  <1> HIDE DEF r
  <1> QED BY <1>1, <1>2, <1>3, <1>4, BallocTakes DEF r


\* Memory a with the block that balloc has taken in entry e of block ind.
Entered(a, ind, e) == [a EXCEPT !.disk[ind][e] = a.addr, !.log = @ \cup {<<"block", ind>>}]

Indirect(m) == m.ino.addrs[NDIRECT]

\* r is memory m with block b in entry e of the indirect block of inode i.
EntryFilled(m, r, i, N, e, b) ==
  /\ Filled(m, r, i, N, NDIRECT + 1 + e, b) /\ r.ino = m.ino
  /\ r.log = m.log \cup {BBLOCK(b), <<"block", b>>, <<"block", Indirect(m)>>}

\* bmap for a missing entry of an indirect block that exists.
LEMMA BmapEntry ==
  ASSUME NEW N, NEW i \in FileInodes, NEW m, Sound(m, i, N), NEW e \in 0..NINDIRECT-1,
         Indirect(m) # 0, NEW a, NEW b \in Blocks \ m.used, Took(m, a, b)
  PROVE  EntryFilled(m, Entered(a, Indirect(m), e), i, N, e, b)
  <1> USE DEF Indirect
  <1> DEFINE ind == m.ino.addrs[NDIRECT]
             r == Entered(a, ind, e)
             D == Put(a.disk, ind, e, b)
             L == a.log \cup {<<"block", ind>>}
             M == With(N, i, m.ino)
  <1>1. m \in Mem /\ N \in [FileInodes -> InodeRec] /\ a \in Mem /\ m.used \in SUBSET Blocks
    BY DEF Sound, Took, Mem
  <1>2. M \in [FileInodes -> InodeRec] /\ M[i] = m.ino
    BY <1>1 DEF Mem, With
  <1>3. Accounted(m.used, Tree(m.disk, M))
    BY DEF Sound
  <1>4. ind \in m.used /\ ind \in Blocks /\ ind \in Nat
    <2>1. ind \in m.used \cup {0}
      <3> HIDE DEF M
      <3>1. M[i].addrs[NDIRECT] \in m.used \cup {0}
        BY <1>1, <1>3, IndirectUsed
      <3> QED BY <3>1, <1>2
    <2> QED BY <2>1, <1>1, BlocksNat
  <1>5. e \in Cells /\ b \in Val
    BY CellsNat, BlocksNat DEF Val
  <1>6. D \in DiskFun
    BY <1>1, <1>4, <1>5 DEF Mem, DiskFun, Put
  <1>7. L \in SUBSET ({"bitmap", "block"} \X Nat)
    BY <1>1, <1>4 DEF Mem
  <1>8. r = [a EXCEPT !.disk = D, !.log = L]
    BY DEF Took, Put, Entered
  <1> HIDE DEF D, L, r, M
  <1>9. /\ r \in Mem /\ r.used = a.used /\ r.disk = D /\ r.ino = a.ino
        /\ r.log = L /\ r.addr = a.addr
    BY <1>1, <1>6, <1>7, <1>8 DEF Mem
  <1>10. Tree(D, M) = Put(Tree(m.disk, M), i, NDIRECT + 1 + e, b)
    <2>1. m.disk \in DiskFun /\ D = Put(With(m.disk, b, Zeros), M[i].addrs[NDIRECT], e, b)
      BY <1>1, <1>2 DEF Mem, D, Took
    <2>2. M[i].addrs[NDIRECT] # 0 /\ b \notin m.used
      BY <1>2
    <2> QED BY <1>1, <1>2, <1>3, <2>1, <2>2, EntryTree
  <1>11. TreeOf(r, i, N) = Put(TreeOf(m, i, N), i, NDIRECT + 1 + e, b)
    <2>1. r.ino = m.ino
      BY <1>9 DEF Took
    <2> QED BY <1>9, <1>10, <2>1 DEF TreeOf, M
  <1>12. \A c \in m.used : c # m.ino.addrs[NDIRECT] => r.disk[c] = m.disk[c]
    <2> SUFFICES ASSUME NEW c \in m.used, c # ind
                 PROVE  D[c] = m.disk[c]
      BY <1>9
    <2>1. c \in Blocks /\ c # b
      BY <1>1
    <2>2. With(m.disk, b, Zeros)[c] = m.disk[c]
      BY <1>1, <2>1 DEF With, Mem, DiskFun
    <2>3. D[c] = a.disk[c]
      BY <1>1, <2>1 DEF D, Put, Mem, DiskFun
    <2> QED BY <2>2, <2>3 DEF Took
  <1>13. Filled(m, r, i, N, NDIRECT + 1 + e, b)
    BY <1>9, <1>11, <1>12 DEF Filled, Took
  <1>14. r.ino = m.ino /\ r.log = m.log \cup {BBLOCK(b), <<"block", b>>, <<"block", ind>>}
    BY <1>9 DEF Took, L
  <1> QED BY <1>13, <1>14 DEF r, EntryFilled

\* The blocks that an allocation through the indirect block logs besides the
\* new block and its bit.
Meta(I) == LET ind == I.addrs[NDIRECT]
           IN  IF ind = 0 THEN {} ELSE {BBLOCK(ind), <<"block", ind>>}

\* What bmap does to memory m when it looks for slot s of inode i.
Mapped(m, r, i, N, s) ==
  LET A == TreeOf(m, i, N)
      B == TreeOf(r, i, N)
  IN  /\ Sound(r, i, N) /\ m.used \subseteq r.used /\ r.ino.size = m.ino.size
      /\ \A j \in FileInodes, k \in Slots : A[j][k] # 0 \/ j # i => B[j][k] = A[j][k]
      /\ \A c \in m.used : c # m.ino.addrs[NDIRECT] => r.disk[c] = m.disk[c]
      /\ r.addr # 0 => B[i][s] = r.addr
      /\ A[i][s] # 0 => r.addr = A[i][s] /\ r.log = m.log
      /\ m.log \subseteq r.log
      /\ r.log \subseteq m.log \cup Meta(r.ino) \cup {BBLOCK(r.addr), <<"block", r.addr>>}

LEMMA FilledMapped ==
  ASSUME NEW N, NEW i \in FileInodes, NEW m, NEW r, NEW s \in Slots, NEW b \in Blocks,
         Sound(m, i, N), TreeOf(m, i, N)[i][s] = 0, Filled(m, r, i, N, s, b), m.log \subseteq r.log,
         r.log \subseteq m.log \cup Meta(r.ino) \cup {BBLOCK(b), <<"block", b>>}
  PROVE  Mapped(m, r, i, N, s)
  <1> DEFINE A == TreeOf(m, i, N)
             B == TreeOf(r, i, N)
  <1>1. A \in [FileInodes -> [Slots -> m.used \cup {0}]]
    BY DEF Sound, Accounted, TreeOf
  <1>2. B = Put(A, i, s, b)
    BY DEF Filled
  <1> HIDE DEF A, B
  <1>3. \A j \in FileInodes, k \in Slots : B[j][k] = IF j = i /\ k = s THEN b ELSE A[j][k]
    BY <1>1, <1>2 DEF Put
  <1>4. Sound(r, i, N)
    BY FilledSound
  <1>5. A[i][s] = 0
    BY DEF A
  <1> HIDE DEF Meta
  <1>6. r.log \subseteq m.log \cup Meta(r.ino) \cup {BBLOCK(r.addr), <<"block", r.addr>>}
    BY DEF Filled
  <1> QED BY <1>3, <1>4, <1>5, <1>6 DEF Filled, Mapped, A, B

LEMMA AddrMapped ==
  ASSUME NEW N, NEW i \in FileInodes, NEW m, NEW x \in 0..NB, Sound(m, i, N),
         NEW s \in Slots, x = TreeOf(m, i, N)[i][s]
  PROVE  Mapped(m, [m EXCEPT !.addr = x], i, N, s)
  <1> DEFINE r == [m EXCEPT !.addr = x]
  <1>1. /\ Sound(r, i, N) /\ r \in Mem
        /\ r.used = m.used /\ r.disk = m.disk /\ r.ino = m.ino /\ r.log = m.log /\ r.addr = x
        /\ TreeOf(r, i, N) = TreeOf(m, i, N)
    BY AddrSound
  <1> HIDE DEF r
  <1>2. Mapped(m, r, i, N, s)
    BY <1>1 DEF Mapped
  <1> QED BY <1>2 DEF r


LEMMA SlotDirect ==
  ASSUME NEW N, NEW i \in FileInodes, NEW m, Sound(m, i, N), NEW n \in 0..NDIRECT
  PROVE  n \in Slots /\ TreeOf(m, i, N)[i][n] = m.ino.addrs[n]
  <1> DEFINE M == With(N, i, m.ino)
  <1>1. M[i] = m.ino
    BY DEF Sound, With
  <1> HIDE DEF M
  <1>2. n \in Slots /\ n <= NDIRECT
    BY DataAssumption DEF DataAssumption, Slots
  <1>3. Tree(m.disk, M)[i][n] = m.ino.addrs[n]
    BY <1>1, <1>2 DEF Tree, At
  <1> QED BY <1>2, <1>3 DEF TreeOf, M

LEMMA SlotEntry ==
  ASSUME NEW N, NEW i \in FileInodes, NEW m, Sound(m, i, N), NEW e \in 0..NINDIRECT-1
  PROVE  /\ NDIRECT + 1 + e \in Slots
         /\ TreeOf(m, i, N)[i][NDIRECT + 1 + e]
              = IF Indirect(m) = 0 THEN 0 ELSE m.disk[Indirect(m)][e]
  <1> DEFINE M == With(N, i, m.ino)
             s == NDIRECT + 1 + e
  <1>1. M[i] = m.ino
    BY DEF Sound, With
  <1>2. s \in Slots /\ ~(s <= NDIRECT) /\ s - NDIRECT - 1 = e
    BY DataAssumption DEF DataAssumption, Slots
  <1> HIDE DEF M, s
  <1>3. Tree(m.disk, M)[i][s] = IF Indirect(m) = 0 THEN 0 ELSE m.disk[Indirect(m)][e]
    BY <1>1, <1>2 DEF Tree, At, Indirect
  <1> QED BY <1>2, <1>3 DEF TreeOf, M, s

\* The slots hold block numbers.
LEMMA SlotRange ==
  ASSUME NEW N, NEW i \in FileInodes, NEW m, Sound(m, i, N), NEW s \in Slots
  PROVE  TreeOf(m, i, N)[i][s] \in m.used \cup {0} /\ TreeOf(m, i, N)[i][s] \in 0..NB
  <1>1. m.used \in SUBSET Blocks /\ TreeOf(m, i, N)[i][s] \in m.used \cup {0}
    BY DEF Sound, Mem, Accounted, TreeOf
  <1> QED BY <1>1, BlocksNat

\* The lookup of the indirect block has found it.
OnIndirect(a) == a.addr = Indirect(a) /\ a.addr # 0

\* What the lookup of the indirect block may do to m.
Linked(m, a) == /\ a.log \subseteq m.log \cup Meta(a.ino)
                /\ Indirect(a) = Indirect(m) \/ Indirect(a) \notin m.used

LEMMA BmapSecond ==
  ASSUME NEW N, NEW i \in FileInodes, NEW a, Sound(a, i, N), NEW e \in 0..NINDIRECT-1,
         OnIndirect(a)
  PROVE  LET entry == a.disk[a.addr][e]
             b == balloc(a)
             r == IF entry # 0 THEN [a EXCEPT !.addr = entry]
                  ELSE IF b.addr = 0 THEN b
                  ELSE [b EXCEPT !.disk[a.addr][e] = b.addr,
                                 !.log = @ \cup {<<"block", a.addr>>}]
         IN  Mapped(a, r, i, N, NDIRECT + 1 + e)
  <1> DEFINE entry == a.disk[a.addr][e]
             b == balloc(a)
             s == NDIRECT + 1 + e
             q == Entered(b, a.addr, e)
  <1>1. s \in Slots /\ TreeOf(a, i, N)[i][s] = entry
    BY SlotEntry DEF OnIndirect
  <1>2. entry \in 0..NB /\ 0 \in 0..NB
    BY <1>1, SlotRange, BlocksNat
  <1>3. CASE entry # 0
    <2>1. Mapped(a, [a EXCEPT !.addr = entry], i, N, s)
      <3> HIDE DEF s, entry
      <3> QED BY <1>1, <1>2, AddrMapped
    <2> QED BY <1>3, <2>1
  <1>4. CASE entry = 0 /\ b = [a EXCEPT !.addr = 0]
    <2>1. b.addr = 0
      BY <1>4 DEF Sound, Mem
    <2>2. Mapped(a, [a EXCEPT !.addr = 0], i, N, s)
      <3> HIDE DEF s, entry
      <3> QED BY <1>1, <1>2, <1>4, AddrMapped
    <2> HIDE DEF b
    <2> QED BY <1>4, <2>1, <2>2 DEF b
  <1>5. CASE entry = 0 /\ \E x \in Blocks \ a.used : Took(a, b, x)
    <2>1. PICK x \in Blocks \ a.used : Took(a, b, x)
      BY <1>5
    <2>2. b.addr = x /\ x # 0
      BY <2>1, BlocksNat DEF Took
    <2> HIDE DEF b
    <2>3. EntryFilled(a, q, i, N, e, x)
      BY <2>1, BmapEntry DEF OnIndirect
    <2>4. a.log \subseteq q.log /\ q.log \subseteq a.log \cup Meta(q.ino) \cup {BBLOCK(x), <<"block", x>>}
      BY <2>3 DEF Meta, EntryFilled, Indirect, OnIndirect
    <2> HIDE DEF q, s, entry
    <2>5. Mapped(a, q, i, N, s)
      BY <1>1, <1>5, <2>1, <2>3, <2>4, FilledMapped DEF EntryFilled, s
    <2> QED BY <1>5, <2>2, <2>5 DEF b, q, s, entry, Entered
  <1>6. a \in Mem
    BY DEF Sound
  <1> QED BY <1>3, <1>4, <1>5, <1>6, BallocTakes

\* Two lookups, of the indirect block and of its entry.
LEMMA MappedTwice ==
  ASSUME NEW N, NEW i \in FileInodes, NEW m, NEW a, NEW r, NEW e \in 0..NINDIRECT-1,
         Sound(m, i, N), Mapped(m, a, i, N, NDIRECT), Mapped(a, r, i, N, NDIRECT + 1 + e),
         Linked(m, a)
  PROVE  Mapped(m, r, i, N, NDIRECT + 1 + e)
  <1> DEFINE A == TreeOf(m, i, N)
             B == TreeOf(a, i, N)
             C == TreeOf(r, i, N)
             s == NDIRECT + 1 + e
  <1>0. NDIRECT \in 0..NDIRECT
    BY DataAssumption DEF DataAssumption
  <1>1. NDIRECT \in Slots /\ A[i][NDIRECT] = Indirect(m)
    BY <1>0, SlotDirect DEF Indirect
  <1>2. s \in Slots /\ (A[i][s] # 0 => A[i][NDIRECT] # 0)
    <2>1. s \in Slots /\ A[i][s] = IF Indirect(m) = 0 THEN 0 ELSE m.disk[Indirect(m)][e]
      BY SlotEntry
    <2> QED BY <1>1, <2>1
  <1>3. Sound(a, i, N) /\ Sound(r, i, N)
    BY DEF Mapped
  <1>4. B[i][NDIRECT] = Indirect(a) /\ C[i][NDIRECT] = Indirect(r)
    BY <1>0, <1>3, SlotDirect DEF Indirect
  <1> HIDE DEF s
  <1>5. \A j \in FileInodes, k \in Slots :
          /\ A[j][k] # 0 \/ j # i => B[j][k] = A[j][k]
          /\ B[j][k] # 0 \/ j # i => C[j][k] = B[j][k]
    BY DEF Mapped, s
  <1>6. /\ A[i][NDIRECT] # 0 => a.log = m.log
        /\ B[i][s] # 0 => r.addr = B[i][s] /\ r.log = a.log
        /\ r.addr # 0 => C[i][s] = r.addr
    BY DEF Mapped, s
  <1>7. r.log \subseteq a.log \cup Meta(r.ino) \cup {BBLOCK(r.addr), <<"block", r.addr>>}
    BY DEF Mapped
  <1>8. \A c \in m.used : c # m.ino.addrs[NDIRECT] => r.disk[c] = m.disk[c]
    BY DEF Mapped, Linked, Indirect
  <1>9. m.used \subseteq r.used /\ r.ino.size = m.ino.size /\ m.log \subseteq r.log
    BY DEF Mapped
  <1> HIDE DEF A, B, C
  <1>10. Meta(a.ino) \subseteq Meta(r.ino)
    BY <1>1, <1>4, <1>5 DEF Meta, Indirect
  <1> HIDE DEF Meta
  <1>11. r.log \subseteq m.log \cup Meta(r.ino) \cup {BBLOCK(r.addr), <<"block", r.addr>>}
    BY <1>7, <1>10 DEF Linked
  <1>12. \A j \in FileInodes, k \in Slots : A[j][k] # 0 \/ j # i => C[j][k] = A[j][k]
    BY <1>5
  <1>13. A[i][s] # 0 => r.addr = A[i][s] /\ r.log = m.log
    BY <1>1, <1>2, <1>5, <1>6
  <1>14. Mapped(m, r, i, N, s)
    BY <1>3, <1>6, <1>8, <1>9, <1>11, <1>12, <1>13 DEF Mapped, A, C
  <1> QED BY <1>14 DEF s


\* bmap for a slot of the inode.
LEMMA BmapDirectMaps ==
  ASSUME NEW N, NEW i \in FileInodes, NEW m, Sound(m, i, N), NEW n \in 0..NDIRECT
  PROVE  Mapped(m, bmap_direct(m, n), i, N, n)
  <1> DEFINE r == bmap_direct(m, n)
  <1>1. n \in Slots /\ TreeOf(m, i, N)[i][n] = m.ino.addrs[n]
    BY SlotDirect
  <1>2. m.ino.addrs[n] \in 0..NB /\ 0 \in 0..NB
    BY <1>1, SlotRange, BlocksNat
  <1> HIDE DEF r
  <1>3. CASE m.ino.addrs[n] # 0 /\ r = Answer(m, m.ino.addrs[n])
    <2> DEFINE x == m.ino.addrs[n]
    <2> HIDE DEF x
    <2>1. x \in 0..NB /\ x = TreeOf(m, i, N)[i][n]
      BY <1>1, <1>2 DEF x
    <2>2. Mapped(m, [m EXCEPT !.addr = x], i, N, n)
      BY <1>1, <2>1, AddrMapped
    <2> QED BY <1>3, <2>2 DEF r, x, Answer
  <1>4. CASE m.ino.addrs[n] = 0 /\ r = Answer(m, 0)
    <2>1. 0 = TreeOf(m, i, N)[i][n]
      BY <1>1, <1>4
    <2>2. Mapped(m, [m EXCEPT !.addr = 0], i, N, n)
      BY <1>1, <1>2, <2>1, AddrMapped
    <2> QED BY <1>4, <2>2 DEF r, Answer
  <1>5. CASE /\ m.ino.addrs[n] = 0
             /\ \E b \in Blocks :
                  /\ Filled(m, r, i, N, n, b)
                  /\ r.ino.addrs = With(m.ino.addrs, n, b)
                  /\ r.log = m.log \cup {BBLOCK(b), <<"block", b>>}
    <2>1. PICK b \in Blocks :
                  /\ Filled(m, r, i, N, n, b)
                  /\ r.log = m.log \cup {BBLOCK(b), <<"block", b>>}
      BY <1>5
    <2>2. m.log \subseteq r.log /\ r.log \subseteq m.log \cup Meta(r.ino) \cup {BBLOCK(b), <<"block", b>>}
      BY <2>1
    <2>3. TreeOf(m, i, N)[i][n] = 0
      BY <1>1, <1>5
    <2>4. Mapped(m, r, i, N, n)
      BY <1>1, <2>1, <2>2, <2>3, FilledMapped
    <2> QED BY <2>4 DEF r
  <1>6. Direct(m, r, i, N, n)
    BY BmapDirect DEF r
  <1> QED BY <1>3, <1>4, <1>5, <1>6 DEF Direct

\* The lookup of the indirect block finds it, or there is none and nothing
\* has changed.
LEMMA BmapFirst ==
  ASSUME NEW N, NEW i \in FileInodes, NEW m, Sound(m, i, N)
  PROVE  LET a == bmap_direct(m, NDIRECT)
         IN  \/ Indirect(m) = 0 /\ a = Answer(m, 0) /\ a.addr = 0
             \/ OnIndirect(a) /\ Linked(m, a)
  <1> DEFINE a == bmap_direct(m, NDIRECT)
  <1>0. NDIRECT \in 0..NDIRECT /\ m \in Mem /\ m.ino \in InodeRec
    BY DataAssumption DEF DataAssumption, Sound, Mem
  <1> HIDE DEF a
  <1>1. CASE m.ino.addrs[NDIRECT] # 0 /\ a = Answer(m, m.ino.addrs[NDIRECT])
    <2>1. a.addr = m.ino.addrs[NDIRECT] /\ a.ino = m.ino /\ a.log = m.log
      BY <1>0, <1>1 DEF Mem, Answer
    <2>2. OnIndirect(a) /\ Linked(m, a)
      BY <1>1, <2>1 DEF OnIndirect, Linked, Indirect
    <2> QED BY <2>2 DEF a
  <1>2. CASE m.ino.addrs[NDIRECT] = 0 /\ a = Answer(m, 0)
    <2>1. a.addr = 0
      BY <1>0, <1>2 DEF Mem, Answer
    <2> QED BY <1>2, <2>1 DEF a, Indirect
  <1>3. CASE /\ m.ino.addrs[NDIRECT] = 0
             /\ \E b \in Blocks :
                  /\ Filled(m, a, i, N, NDIRECT, b)
                  /\ a.ino.addrs = With(m.ino.addrs, NDIRECT, b)
                  /\ a.log = m.log \cup {BBLOCK(b), <<"block", b>>}
    <2>1. PICK b \in Blocks :
                  /\ Filled(m, a, i, N, NDIRECT, b)
                  /\ a.ino.addrs = With(m.ino.addrs, NDIRECT, b)
                  /\ a.log = m.log \cup {BBLOCK(b), <<"block", b>>}
      BY <1>3
    <2>2. a.ino.addrs[NDIRECT] = b
      BY <1>0, <2>1 DEF With, InodeRec
    <2>3. a.addr = b /\ b # 0 /\ b \notin m.used
      BY <2>1, BlocksNat DEF Filled
    <2>4. OnIndirect(a)
      BY <2>2, <2>3 DEF OnIndirect, Indirect
    <2>5. Linked(m, a)
      BY <2>1, <2>2, <2>3 DEF Linked, Meta, Indirect
    <2> QED BY <2>4, <2>5 DEF a
  <1>4. Direct(m, a, i, N, NDIRECT)
    BY <1>0, BmapDirect DEF a
  <1> QED BY <1>1, <1>2, <1>3, <1>4 DEF Direct

\* bmap fills slots of its inode with blocks that were free and changes no
\* block of anyone else; what fails halfway is still accounted for.
LEMMA BmapMaps ==
  ASSUME NEW N, NEW i \in FileInodes, NEW m, Sound(m, i, N), NEW bn \in 0..MAXFILE-1
  PROVE  SlotOf(bn) \in Slots /\ Mapped(m, bmap(m, bn), i, N, SlotOf(bn))
  <1>0. NDIRECT \in Nat /\ NINDIRECT \in Nat /\ bn \in Nat /\ bn < NDIRECT + NINDIRECT
    BY DataAssumption DEF DataAssumption, MAXFILE
  <1>1. CASE bn < NDIRECT
    <2>1. bn \in 0..NDIRECT /\ SlotOf(bn) = bn /\ bmap(m, bn) = bmap_direct(m, bn) /\ bn \in Slots
      BY <1>0, <1>1 DEF SlotOf, bmap, Slots
    <2> QED BY <2>1, BmapDirectMaps
  <1>2. CASE ~(bn < NDIRECT)
    <2> DEFINE e == bn - NDIRECT
               a == bmap_direct(m, NDIRECT)
               s == NDIRECT + 1 + e
               r == bmap_indirect(m, e)
    <2>1. /\ e \in 0..NINDIRECT-1 /\ s \in Slots /\ SlotOf(bn) = s /\ bmap(m, bn) = r
          /\ NDIRECT \in 0..NDIRECT
      BY <1>0, <1>2 DEF SlotOf, bmap, Slots
    <2> HIDE DEF e
    <2>2. Mapped(m, a, i, N, NDIRECT)
      BY <2>1, BmapDirectMaps
    <2>3. \/ Indirect(m) = 0 /\ a = Answer(m, 0) /\ a.addr = 0
          \/ OnIndirect(a) /\ Linked(m, a)
      BY BmapFirst
    <2> HIDE DEF a
    <2>4. CASE Indirect(m) = 0 /\ a = Answer(m, 0) /\ a.addr = 0
      <3>1. r = a
        BY <2>4 DEF bmap_indirect, a
      <3>2. TreeOf(m, i, N)[i][s] = 0
        BY <2>1, <2>4, SlotEntry
      <3>3. Mapped(m, [m EXCEPT !.addr = 0], i, N, s)
        <4> HIDE DEF s
        <4> QED BY <2>1, <3>2, AddrMapped, BlocksNat
      <3> HIDE DEF r
      <3> QED BY <2>1, <2>4, <3>1, <3>3 DEF Answer
    <2>5. CASE OnIndirect(a) /\ Linked(m, a)
      <3> DEFINE entry == a.disk[a.addr][e]
                 b == balloc(a)
                 q == IF entry # 0 THEN [a EXCEPT !.addr = entry]
                      ELSE IF b.addr = 0 THEN b
                      ELSE [b EXCEPT !.disk[a.addr][e] = b.addr,
                                     !.log = @ \cup {<<"block", a.addr>>}]
      <3>1. a.addr # 0
        BY <2>5 DEF OnIndirect
      <3>2. r = q
        BY <3>1 DEF bmap_indirect, a
      <3>3. Sound(a, i, N)
        BY <2>2 DEF Mapped
      <3>4. Mapped(a, q, i, N, s)
        BY <2>1, <2>5, <3>3, BmapSecond
      <3> HIDE DEF q, r
      <3>5. Mapped(a, r, i, N, s)
        BY <3>2, <3>4
      <3>6. Mapped(m, r, i, N, s)
        BY <2>1, <2>2, <2>5, <3>5, MappedTwice
      <3> QED BY <2>1, <3>6
    <2> QED BY <2>3, <2>4, <2>5
  <1> QED BY <1>1, <1>2


\* The log has every block that is not as it was in m, and an indirect block
\* that m did not have.
Logged(m, r) ==
  /\ m.log \subseteq r.log
  /\ \A x \in Blocks : <<"block", x>> \notin r.log => r.disk[x] = m.disk[x]
  /\ Indirect(r) = Indirect(m) \/ <<"block", Indirect(r)>> \in r.log

LEMMA BallocLogs ==
  ASSUME NEW m \in Mem
  PROVE  balloc(m) \in Mem /\ Logged(m, balloc(m)) /\ balloc(m).ino = m.ino
         /\ (balloc(m).addr # 0 => <<"block", balloc(m).addr>> \in balloc(m).log)
  <1> DEFINE r == balloc(m)
  <1>1. CASE r = [m EXCEPT !.addr = 0]
    <2> HIDE DEF r
    <2>1. r \in Mem /\ r.log = m.log /\ r.disk = m.disk /\ r.ino = m.ino /\ r.addr = 0
      BY <1>1, BlocksNat DEF Mem
    <2> QED BY <2>1 DEF r, Logged, Indirect
  <1>2. CASE \E b \in Blocks \ m.used : Took(m, r, b)
    <2>1. PICK b \in Blocks \ m.used : Took(m, r, b)
      BY <1>2
    <2> HIDE DEF r
    <2>2. /\ r \in Mem /\ r.disk = With(m.disk, b, Zeros) /\ r.ino = m.ino /\ r.addr = b
          /\ r.log = m.log \cup {BBLOCK(b), <<"block", b>>}
      BY <2>1 DEF Took
    <2>3. \A x \in Blocks : x # b => r.disk[x] = m.disk[x]
      BY <2>2 DEF With, Mem, DiskFun
    <2> QED BY <2>2, <2>3 DEF r, Logged, Indirect
  <1> QED BY <1>1, <1>2, BallocTakes

LEMMA DirectLogs ==
  ASSUME NEW m \in Mem, NEW n \in 0..NDIRECT
  PROVE  Logged(m, bmap_direct(m, n))
  <1> DEFINE r == bmap_direct(m, n)
             a == balloc(m)
  <1>0. NDIRECT \in 0..NDIRECT /\ m.ino \in InodeRec
    BY DataAssumption DEF DataAssumption, Mem
  <1>1. CASE m.ino.addrs[n] # 0
    <2>1. r = [m EXCEPT !.addr = m.ino.addrs[n]]
      BY <1>1 DEF bmap_direct
    <2> HIDE DEF r
    <2>2. r.log = m.log /\ r.disk = m.disk /\ r.ino = m.ino
      BY <2>1 DEF Mem
    <2> QED BY <2>2 DEF r, Logged, Indirect
  <1>2. CASE m.ino.addrs[n] = 0
    <2>1. /\ a \in Mem /\ Logged(m, a) /\ a.ino = m.ino
          /\ a.addr # 0 => <<"block", a.addr>> \in a.log
      BY BallocLogs
    <2>2. r = IF a.addr = 0 THEN a ELSE [a EXCEPT !.ino.addrs[n] = a.addr]
      BY <1>2 DEF bmap_direct
    <2> HIDE DEF r, a
    <2>3. CASE a.addr = 0
      BY <2>1, <2>2, <2>3 DEF r
    <2>4. CASE a.addr # 0
      <3>1. r = [a EXCEPT !.ino = [a.ino EXCEPT !.addrs[n] = a.addr]]
        BY <2>2, <2>4
      <3>2. r.log = a.log /\ r.disk = a.disk /\ r.ino = [a.ino EXCEPT !.addrs[n] = a.addr]
        BY <2>1, <3>1 DEF Mem
      <3>3. r.ino.addrs[NDIRECT] = IF n = NDIRECT THEN a.addr ELSE a.ino.addrs[NDIRECT]
        BY <1>0, <2>1, <3>2 DEF InodeRec
      <3> QED BY <2>1, <2>4, <3>2, <3>3 DEF r, Logged, Indirect
    <2> QED BY <2>3, <2>4
  <1> QED BY <1>1, <1>2

\* bmap logs every block that it changes.
LEMMA BmapLogs ==
  ASSUME NEW N, NEW i \in FileInodes, NEW m, Sound(m, i, N), NEW bn \in 0..MAXFILE-1
  PROVE  Logged(m, bmap(m, bn))
  <1>0. NDIRECT \in Nat /\ NINDIRECT \in Nat /\ bn \in Nat /\ m \in Mem /\ NDIRECT \in 0..NDIRECT
    BY DataAssumption DEF DataAssumption, MAXFILE, Sound
  <1>1. CASE bn < NDIRECT
    <2>1. bn \in 0..NDIRECT /\ bmap(m, bn) = bmap_direct(m, bn)
      BY <1>0, <1>1 DEF bmap
    <2> QED BY <1>0, <2>1, DirectLogs
  <1>2. CASE ~(bn < NDIRECT)
    <2> DEFINE e == bn - NDIRECT
               a == bmap_direct(m, NDIRECT)
               b == balloc(a)
               r == bmap_indirect(m, e)
    <2>1. Logged(m, a)
      BY <1>0, DirectLogs
    <2>2. a \in Mem
      <3>1. Mapped(m, a, i, N, NDIRECT)
        BY <1>0, BmapDirectMaps
      <3> QED BY <3>1 DEF Mapped, Sound
    <2>3. /\ b \in Mem /\ Logged(a, b) /\ b.ino = a.ino
      <3> HIDE DEF a
      <3> QED BY <2>2, BallocLogs
    <2>4. \/ r = a \/ r = [a EXCEPT !.addr = a.disk[a.addr][e]] \/ r = b
          \/ r = [b EXCEPT !.disk[a.addr][e] = b.addr, !.log = @ \cup {<<"block", a.addr>>}]
      BY DEF bmap_indirect
    <2> HIDE DEF a, b, r, e
    <2>5. Logged(m, b)
      BY <2>1, <2>3 DEF Logged, Indirect
    <2>6. bmap(m, bn) = r
      BY <1>2 DEF bmap, r, e
    <2>7. SUFFICES Logged(m, r)
      BY <2>6
    <2>8. CASE r = a \/ r = b
      BY <2>1, <2>5, <2>8
    <2>9. CASE r = [a EXCEPT !.addr = a.disk[a.addr][e]]
      <3>1. r.log = a.log /\ r.disk = a.disk /\ r.ino = a.ino
        BY <2>2, <2>9 DEF Mem
      <3> QED BY <2>1, <3>1 DEF Logged, Indirect
    <2>10. CASE r = [b EXCEPT !.disk[a.addr][e] = b.addr, !.log = @ \cup {<<"block", a.addr>>}]
      <3>1. /\ r.log = b.log \cup {<<"block", a.addr>>} /\ r.ino = b.ino
            /\ r.disk = [b.disk EXCEPT ![a.addr][e] = b.addr]
        BY <2>3, <2>10 DEF Mem
      <3>2. \A x \in Blocks : x # a.addr => r.disk[x] = b.disk[x]
        BY <2>3, <3>1 DEF Mem, DiskFun
      <3>3. \A x \in Blocks : x # a.addr \/ <<"block", x>> \in r.log
        BY <3>1
      <3> QED BY <2>5, <3>1, <3>2, <3>3 DEF Logged, Indirect
    <2> QED BY <2>4, <2>8, <2>9, <2>10
  <1> QED BY <1>1, <1>2

-----------------------------------------------------------------------------
(* Offsets and counts                                                      *)

LEMMA DivUnique ==
  ASSUME NEW m \in Nat \ {0}, NEW x \in Int, NEW d \in Int, NEW r \in 0..m-1, x = m * d + r
  PROVE  x \div m = d /\ x % m = r
  <1> DEFINE e == x \div m
             s == x % m
  <1>0. e \in Int /\ x = m * e + s /\ s \in 0..m-1
    BY ModDiv, ModRange
  <1>1. e \in Int /\ x = m * e + s /\ s \in 0..m-1 /\ m * e \in Int /\ m * d \in Int
    <2> HIDE DEF e, s
    <2>1. m * e \in Int /\ m * d \in Int
      BY <1>0, Z3
    <2> QED BY <1>0, <2>1
  <1> HIDE DEF e, s
  <1>2. m * e < m * d + m /\ m * d < m * e + m
    BY <1>1
  <1>3. e <= d /\ d <= e
    BY <1>1, <1>2, Multiples
  <1>4. e = d
    BY <1>1, <1>3
  <1>5. s = r
    BY <1>1, <1>4
  <1> QED BY <1>4, <1>5 DEF e, s

LEMMA MaxBytesNat == MAXFILE \in Nat /\ MaxBytes \in Nat
  BY DataAssumption, Z3 DEF DataAssumption, MAXFILE, MaxBytes

\* A byte of a file is in a block of the file.
LEMMA BlockOfByte ==
  ASSUME NEW k \in Nat, k < MaxBytes
  PROVE  /\ k \div BSIZE \in 0..MAXFILE-1
         /\ k % BSIZE \in 0..BSIZE-1 /\ k % BSIZE \in Cells
         /\ SlotOf(k \div BSIZE) \in Slots /\ SlotOf(k \div BSIZE) # NDIRECT
  <1>0. BSIZE \in Nat \ {0} /\ NDIRECT \in Nat /\ NINDIRECT \in Nat /\ MAXFILE \in Nat
    BY DataAssumption, MaxBytesNat DEF DataAssumption
  <1> DEFINE d == k \div BSIZE
             r == k % BSIZE
  <1>1. d \in Int /\ k = BSIZE * d + r /\ r \in 0..BSIZE-1 /\ BSIZE * d \in Int
    BY <1>0, ModDiv, ModRange, Z3
  <1> HIDE DEF d, r
  <1>2. MaxBytes = BSIZE * (MAXFILE - 1) + BSIZE /\ BSIZE * (MAXFILE - 1) \in Int
    BY <1>0, Z3 DEF MaxBytes
  <1>3. d <= MAXFILE - 1
    <2>1. BSIZE * d < BSIZE * (MAXFILE - 1) + BSIZE
      BY <1>0, <1>1, <1>2
    <2>2. MAXFILE - 1 \in Int
      BY <1>0
    <2> QED BY <1>0, <1>1, <2>1, <2>2, Multiples
  <1>4. 0 <= d
    <2>1. BSIZE * 0 < BSIZE * d + BSIZE
      BY <1>0, <1>1
    <2> QED BY <1>0, <1>1, <2>1, Multiples
  <1>5. d \in 0..MAXFILE-1
    BY <1>0, <1>1, <1>3, <1>4
  <1>6. SlotOf(d) \in Slots /\ SlotOf(d) # NDIRECT
    BY <1>0, <1>5 DEF SlotOf, Slots, MAXFILE
  <1> QED BY <1>1, <1>5, <1>6, CellsNat DEF d, r

\* The bytes up to the end of the block.
LEMMA SameBlock ==
  ASSUME NEW o \in Nat, NEW k \in Nat, o <= k, k < o + (BSIZE - (o % BSIZE))
  PROVE  k \div BSIZE = o \div BSIZE /\ k % BSIZE = (o % BSIZE) + (k - o)
  <1>0. BSIZE \in Nat \ {0}
    BY DataAssumption DEF DataAssumption
  <1> DEFINE d == o \div BSIZE
             r == o % BSIZE
  <1>1. d \in Int /\ o = BSIZE * d + r /\ r \in 0..BSIZE-1 /\ BSIZE * d \in Int
    BY <1>0, ModDiv, ModRange, Z3
  <1>2. k < o + (BSIZE - r)
    OBVIOUS
  <1> DEFINE s == r + (k - o)
  <1> HIDE DEF d, r
  <1>3. k = BSIZE * d + s /\ s \in 0..BSIZE-1 /\ k \in Int
    BY <1>0, <1>1, <1>2
  <1> HIDE DEF s
  <1>4. k \div BSIZE = d /\ k % BSIZE = s
    BY <1>0, <1>1, <1>3, DivUnique
  <1> QED BY <1>4 DEF d, r, s

\* The first byte of the next block.
LEMMA NextBlock ==
  ASSUME NEW o \in Nat
  PROVE  LET k == o + (BSIZE - (o % BSIZE))
         IN  k \in Nat /\ k > o /\ k % BSIZE = 0 /\ k \div BSIZE = (o \div BSIZE) + 1
  <1>0. BSIZE \in Nat \ {0}
    BY DataAssumption DEF DataAssumption
  <1> DEFINE d == o \div BSIZE
             r == o % BSIZE
             k == o + (BSIZE - r)
             e == d + 1
  <1>1. d \in Int /\ o = BSIZE * d + r /\ r \in 0..BSIZE-1 /\ BSIZE * d \in Int
    BY <1>0, ModDiv, ModRange, Z3
  <1> HIDE DEF d, r
  <1>2. BSIZE * (d + 1) = BSIZE * d + BSIZE
    BY <1>0, <1>1, Z3
  <1>3. k = BSIZE * e + 0 /\ 0 \in 0..BSIZE-1 /\ e \in Int /\ k \in Nat /\ k > o /\ k \in Int
    BY <1>0, <1>1, <1>2
  <1> HIDE DEF k, e
  <1>4. k \div BSIZE = e /\ k % BSIZE = 0
    BY <1>0, <1>3, DivUnique
  <1> QED BY <1>3, <1>4, Zenon DEF k, d, r, e

\* readi stops at the end of the file.
LEMMA ReadStays ==
  ASSUME NEW size \in 0..MaxBytes, NEW o \in 0..MaxBytes, NEW n \in Sizes
  PROVE  o + ReadCount(size, o, n) \in 0..MaxBytes
  <1> DEFINE x == (o + n) % UINT
  <1>0. /\ UINT \in Nat \ {0} /\ MaxBytes \in Nat /\ MaxBytes < UINT
        /\ n \in Int /\ n < UINT /\ MaxBytes - n < UINT
    BY DataAssumption, MaxBytesNat DEF DataAssumption
  <1>1. x \in 0..UINT-1
    BY <1>0, ModRange
  <1>2. CASE o + n < 0
    <2>1. x = o + n + UINT
      BY <1>0, <1>2, ModNegative
    <2> HIDE DEF x
    <2> QED BY <1>0, <1>1, <2>1 DEF ReadCount, x
  <1>3. CASE o + n \in 0..UINT-1
    <2>1. x = o + n
      BY <1>0, <1>3, ModBelow
    <2> QED BY <1>0, <2>1 DEF ReadCount
  <1>4. CASE o + n >= UINT
    <2> DEFINE y == o + n
    <2>0. y \in UINT..2*UINT-1
      BY <1>0, <1>4
    <2> HIDE DEF y
    <2>1. y % UINT = y - UINT
      BY <1>0, <2>0, ModAbove
    <2>2. x = (o + n) - UINT
      BY <2>1, Zenon DEF y
    <2> QED BY <1>0, <2>2 DEF ReadCount
  <1> QED BY <1>0, <1>2, <1>3, <1>4

\* What writei does not refuse starts in the file and ends below its limit.
LEMMA WriteFits ==
  ASSUME NEW ino, NEW o \in 0..MaxBytes, NEW n \in 0..UINT-1, ino.size \in Nat, ~Refused(ino, o, n)
  PROVE  o <= ino.size /\ o + n <= MaxBytes
  <1> DEFINE x == (o + n) % UINT
  <1>0. UINT \in Nat \ {0} /\ MaxBytes \in Nat /\ MaxBytes < UINT
    BY DataAssumption, MaxBytesNat DEF DataAssumption
  <1>1. CASE o + n \in 0..UINT-1
    <2>1. x = o + n
      BY <1>0, <1>1, ModBelow
    <2> QED BY <1>0, <2>1 DEF Refused
  <1>2. CASE o + n >= UINT
    <2> DEFINE y == o + n
    <2>0. y \in UINT..2*UINT-1
      BY <1>0, <1>2
    <2> HIDE DEF y
    <2>1. y % UINT = y - UINT
      BY <1>0, <2>0, ModAbove
    <2>2. x = (o + n) - UINT
      BY <2>1, Zenon DEF y
    <2> QED BY <1>0, <2>2 DEF Refused
  <1> QED BY <1>0, <1>1, <1>2

\* The blocks of a piece of a write.
Room == (MAXOPBLOCKS - 1 - 1 - 2) \div 2

LEMMA RoomFits == Room \in Nat /\ 2 * Room + 4 <= MAXOPBLOCKS /\ BSIZE * Room \in Nat
  <1>0. MAXOPBLOCKS \in Nat /\ MAXOPBLOCKS >= 4 /\ BSIZE \in Nat
    BY DataAssumption DEF DataAssumption
  <1>1. Room \in Nat /\ 2 * Room + 4 <= MAXOPBLOCKS
    BY <1>0, Z3 DEF Room
  <1> QED BY <1>0, <1>1, Z3

LEMMA ChunkFits ==
  ASSUME NEW x \in Nat
  PROVE  Chunk(x) \in Nat /\ Chunk(x) <= x /\ Chunk(x) <= BSIZE * Room
  <1>1. Room * BSIZE = BSIZE * Room
    BY RoomFits, DataAssumption, Z3 DEF DataAssumption
  <1>2. Chunk(x) = lesser(x, BSIZE * Room)
    BY <1>1 DEF Chunk, Room
  <1> QED BY <1>2, RoomFits DEF lesser


-----------------------------------------------------------------------------
(* The inductive invariant                                                 *)

LogBlocks == {"bitmap", "block"} \X Nat

Call == [pc : {"user", "next", "loop", "end"}, f : OpenFiles \cup {0}, n : Int,
         v : ByteValues \cup {0}, i : Nat, n1 : Nat, off : Nat, tot : Nat]

DataTypeOK ==
  /\ used \in SUBSET Blocks
  /\ disk \in DiskFun
  /\ home \in DiskFun
  /\ inode \in [FileInodes -> InodeRec]
  /\ inlock \in [FileInodes -> IoProcs \cup {None}]
  /\ off \in [OpenFiles -> Nat]
  /\ wr \in [IoProcs -> Call]
  /\ dirty \in [IoProcs -> SUBSET LogBlocks]
  /\ \A p \in IoProcs : IsFiniteSet(dirty[p])

Busy(p) == wr[p].pc \in {"loop", "end"}
Ino(p) == InodeOf[wr[p].f]

\* A call that is not over has a file, a byte to write and bytes left.
CallInv ==
  \A p \in IoProcs : wr[p].pc # "user" =>
    /\ wr[p].f \in OpenFiles /\ wr[p].v \in ByteValues
    /\ wr[p].i < wr[p].n /\ wr[p].n < UINT

\* The sleep-lock of an inode is held by the process in writei.
IlockInv ==
  /\ \A p \in IoProcs : Busy(p) => inlock[Ino(p)] = p
  /\ \A i \in FileInodes : inlock[i] # None => Busy(inlock[i]) /\ Ino(inlock[i]) = i

AccountInv == Accounted(used, Tree(disk, inode))

\* The block of byte k of inode i.
ByteBlock(i, k) == Tree(disk, inode)[i][SlotOf(k \div BSIZE)]

SizeInv ==
  /\ \A i \in FileInodes :
       /\ inode[i].size <= MaxBytes
       /\ \A k \in 0..inode[i].size-1 : ByteBlock(i, k) # 0
  /\ \A f \in OpenFiles : off[f] <= MaxBytes

\* A piece in writei starts in the file, is written up to its offset, in the
\* log too, and ends below the limit of a file.
Piece(p) ==
  LET c == wr[p]
  IN  /\ off[c.f] <= inode[Ino(p)].size
      /\ c.off = off[c.f] + c.tot
      /\ c.tot <= c.n1 /\ off[c.f] + c.n1 <= MaxBytes /\ c.n1 <= BSIZE * Room
      /\ \A k \in 0..c.off-1 : ByteBlock(Ino(p), k) # 0
      /\ \A k \in off[c.f]..c.off-1 : /\ disk[ByteBlock(Ino(p), k)][k % BSIZE] = c.v
                                     /\ home[ByteBlock(Ino(p), k)][k % BSIZE] = c.v

PieceInv == \A p \in IoProcs : Busy(p) => Piece(p)

\* The blocks a transaction has logged for the blocks of the file.
Spent(p) == dirty[p] \ Meta(inode[Ino(p)])

\* A whole block costs two, its bit and itself; a block that is written from
\* the middle is there already and costs one.
Budget(p) ==
  LET c == wr[p]
      start == off[c.f]
  IN  /\ ~Busy(p) => dirty[p] = {}
      /\ Busy(p) =>
           /\ c.tot = 0 /\ c.pc = "loop" => dirty[p] = {}
           /\ Cardinality(Spent(p)) <= MAXOPBLOCKS - 3
           /\ c.pc = "loop" /\ 0 < c.tot /\ c.tot < c.n1 =>
                /\ c.off % BSIZE = 0
                /\ Cardinality(Spent(p))
                     <= 2 * ((c.off \div BSIZE) - (start \div BSIZE))
                          - (IF start % BSIZE = 0 THEN 0 ELSE 1)

BudgetInv == \A p \in IoProcs : Budget(p)

\* Block x hangs from inode i.
Holds(i, x) == \E k \in Slots : Tree(disk, inode)[i][k] = x

\* A buffer that can be lost is not an indirect block, and a transaction logs
\* the blocks of its own file.
SavedInv ==
  /\ \A i \in FileInodes :
       inode[i].addrs[NDIRECT] # 0 => home[inode[i].addrs[NDIRECT]] = disk[inode[i].addrs[NDIRECT]]
  /\ \A p \in IoProcs, x \in Blocks : <<"block", x>> \in dirty[p] => Holds(Ino(p), x)

\* What is true of the contents of files in every state.
DataIInv == CallInv /\ IlockInv /\ AccountInv /\ SizeInv /\ PieceInv /\ BudgetInv /\ SavedInv


-----------------------------------------------------------------------------
(* The steps                                                               *)

LEMMA NoCallType == NoCall \in Call /\ NoCall.pc = "user"
  BY DataAssumption DEF NoCall, Call, DataAssumption

\* Only the addresses and the blocks make the tree.
LEMMA TreeSame ==
  ASSUME disk' = disk, \A j \in FileInodes : inode'[j].addrs = inode[j].addrs
  PROVE  /\ Tree(disk', inode') = Tree(disk, inode)
         /\ \A i, k : ByteBlock(i, k)' = ByteBlock(i, k)
         /\ \A i, x : Holds(i, x)' = Holds(i, x)
  <1>1. Tree(disk', inode') = Tree(disk, inode)
    BY DEF Tree, At
  <1> QED BY <1>1 DEF ByteBlock, Holds

LEMMA InitData ==
  ASSUME DataInit
  PROVE  DataTypeOK /\ DataIInv
  <1> USE DataAssumption DEF DataAssumption, DataInit
  <1>1. DataTypeOK
    <2>1. Zeros \in [Cells -> Val]
      BY DEF Zeros, Val
    <2>2. disk \in DiskFun
      BY <2>1 DEF DiskFun, Zeros
    <2>3. inode \in [FileInodes -> InodeRec]
      BY DEF InodeRec
    <2>4. wr \in [IoProcs -> Call]
      BY NoCallType
    <2>5. \A p \in IoProcs : IsFiniteSet(dirty[p])
      BY FS_EmptySet
    <2> QED BY <2>2, <2>3, <2>4, <2>5 DEF DataTypeOK
  <1>2. \A p \in IoProcs : wr[p].pc = "user" /\ ~Busy(p)
    BY NoCallType DEF Busy
  <1>3. \A j \in FileInodes, k \in Slots : Tree(disk, inode)[j][k] = 0
    BY DEF Tree, At, Slots
  <1>4. AccountInv
    <2>1. Tree(disk, inode) = [j \in FileInodes |-> [k \in Slots |-> 0]]
      BY <1>3 DEF Tree
    <2>2. \A A : A = [j \in FileInodes |-> [k \in Slots |-> 0]] => Accounted({}, A)
      BY DEF Accounted
    <2> QED BY <2>1, <2>2 DEF AccountInv
  <1>5. SizeInv
    BY MaxBytesNat DEF SizeInv
  <1>6. CallInv /\ PieceInv /\ BudgetInv
    BY <1>2 DEF CallInv, PieceInv, Piece, BudgetInv, Budget
  <1>7. IlockInv
    BY <1>2 DEF IlockInv
  <1>8. SavedInv
    BY DEF SavedInv
  <1> QED BY <1>1, <1>4, <1>5, <1>6, <1>7, <1>8 DEF DataIInv

LEMMA StutterData ==
  ASSUME DataTypeOK, DataIInv, UNCHANGED datavars
  PROVE  DataTypeOK' /\ DataIInv'
  <1> USE DEF datavars
  <1>1. /\ Tree(disk', inode') = Tree(disk, inode)
        /\ \A i, k : ByteBlock(i, k)' = ByteBlock(i, k)
        /\ \A i, x : Holds(i, x)' = Holds(i, x)
    BY TreeSame
  <1>2. DataTypeOK'
    BY DEF DataTypeOK
  <1>3. CallInv' /\ IlockInv' /\ AccountInv' /\ SizeInv'
    BY <1>1 DEF DataIInv, CallInv, IlockInv, AccountInv, SizeInv, Busy, Ino
  <1>4. PieceInv'
    BY <1>1 DEF DataIInv, PieceInv, Piece, Busy, Ino
  <1>5. BudgetInv'
    BY DEF DataIInv, BudgetInv, Budget, Busy, Ino, Spent
  <1>6. SavedInv'
    BY <1>1 DEF DataIInv, SavedInv, Ino
  <1> QED BY <1>2, <1>3, <1>4, <1>5, <1>6 DEF DataIInv

\* fileread moves the offset of a file whose inode is not locked.
LEMMA FilereadData ==
  ASSUME DataTypeOK, DataIInv, NEW p \in IoProcs, NEW f \in OpenFiles, NEW n \in Sizes,
         fileread(p, f, n)
  PROVE  DataTypeOK' /\ DataIInv'
  <1> USE DataAssumption DEF DataAssumption, DataIInv
  <1>1. UNCHANGED <<used, disk, home, inode, inlock, wr, dirty>> /\ inlock[InodeOf[f]] = None
    BY DEF fileread, ReadLock
  <1>2. /\ Tree(disk', inode') = Tree(disk, inode)
        /\ \A i, k : ByteBlock(i, k)' = ByteBlock(i, k)
        /\ \A i, x : Holds(i, x)' = Holds(i, x)
    BY <1>1, TreeSame
  <1>3. /\ \A g \in OpenFiles : g # f => off'[g] = off[g]
        /\ off'[f] \in 0..MaxBytes /\ off' \in [OpenFiles -> Nat]
    <2> DEFINE size == inode[InodeOf[f]].size
               x == off[f] + ReadCount(size, off[f], n)
    <2>1. size \in 0..MaxBytes /\ off[f] \in 0..MaxBytes
      BY MaxBytesNat DEF SizeInv, DataTypeOK, InodeRec
    <2> HIDE DEF size
    <2>2. x \in 0..MaxBytes
      BY <2>1, ReadStays
    <2>3. off' = off \/ off' = [off EXCEPT ![f] = x]
      BY DEF fileread, size
    <2> HIDE DEF x
    <2> QED BY <2>1, <2>2, <2>3, MaxBytesNat DEF DataTypeOK
  <1>4. \A q \in IoProcs : Busy(q) => wr[q].f \in OpenFiles /\ wr[q].f # f
    BY <1>1 DEF IlockInv, CallInv, Busy, Ino
  <1>5. DataTypeOK'
    BY <1>1, <1>3 DEF DataTypeOK
  <1>6. CallInv' /\ IlockInv' /\ AccountInv'
    BY <1>1, <1>2 DEF CallInv, IlockInv, AccountInv, Busy, Ino
  <1>7. SizeInv'
    BY <1>1, <1>2, <1>3, MaxBytesNat DEF SizeInv
  <1>8. \A q \in IoProcs : /\ Busy(q)' = Busy(q) /\ Ino(q)' = Ino(q) /\ Spent(q)' = Spent(q)
                           /\ Busy(q) => off'[wr[q].f] = off[wr[q].f]
    BY <1>1, <1>3, <1>4 DEF Busy, Ino, Spent
  <1>9. PieceInv'
    BY <1>1, <1>2, <1>8 DEF PieceInv, Piece
  <1>10. BudgetInv'
    BY <1>1, <1>8 DEF BudgetInv, Budget
  <1>11. SavedInv'
    BY <1>1, <1>2, <1>8 DEF SavedInv
  <1> QED BY <1>5, <1>6, <1>7, <1>9, <1>10, <1>11

\* sys_write begins.
LEMMA FilewriteData ==
  ASSUME DataTypeOK, DataIInv, NEW p \in IoProcs, NEW f \in OpenFiles, NEW n \in Sizes,
         NEW v \in ByteValues, filewrite(p, f, n, v)
  PROVE  DataTypeOK' /\ DataIInv'
  <1> USE DataAssumption DEF DataAssumption, DataIInv
  <1>1. UNCHANGED <<used, disk, home, inode, inlock, off, dirty>> /\ wr[p].pc = "user"
    BY DEF filewrite
  <1>2. /\ Tree(disk', inode') = Tree(disk, inode)
        /\ \A i, k : ByteBlock(i, k)' = ByteBlock(i, k)
        /\ \A i, x : Holds(i, x)' = Holds(i, x)
    BY <1>1, TreeSame
  <1> DEFINE d == [NoCall EXCEPT !.pc = "next", !.f = f, !.n = n, !.v = v]
  <1>3. n \in Int
    OBVIOUS
  <1>4. d \in Call /\ d.pc = "next" /\ d.f = f /\ d.n = n /\ d.v = v /\ d.i = 0
    BY <1>3 DEF NoCall, Call
  <1>5. wr' = wr \/ (n > 0 /\ wr' = [wr EXCEPT ![p] = d])
    BY <1>3 DEF filewrite
  <1> HIDE DEF d
  <1>6. /\ wr' \in [IoProcs -> Call]
        /\ \A q \in IoProcs : q # p => wr'[q] = wr[q]
        /\ wr'[p] = wr[p] \/ (wr'[p] = d /\ n > 0)
    BY <1>4, <1>5 DEF DataTypeOK
  <1>7. ~Busy(p) /\ ~Busy(p)'
    BY <1>1, <1>4, <1>6 DEF Busy
  <1>8. DataTypeOK'
    BY <1>1, <1>6 DEF DataTypeOK
  <1>9. CallInv'
    BY <1>1, <1>4, <1>6 DEF CallInv
  <1>10. \A q \in IoProcs : /\ Busy(q)' = Busy(q)
                            /\ Busy(q) => wr'[q] = wr[q] /\ Ino(q)' = Ino(q) /\ Spent(q)' = Spent(q)
    BY <1>1, <1>6, <1>7 DEF Busy, Ino, Spent
  <1>11. IlockInv'
    BY <1>1, <1>10 DEF IlockInv, DataTypeOK
  <1>12. AccountInv' /\ SizeInv'
    BY <1>1, <1>2 DEF AccountInv, SizeInv
  <1>13. PieceInv'
    BY <1>1, <1>2, <1>10 DEF PieceInv, Piece
  <1>14. BudgetInv'
    BY <1>1, <1>10 DEF BudgetInv, Budget
  <1>15. SavedInv'
    <2>1. \A q \in IoProcs : Busy(q) \/ dirty[q] = {}
      BY DEF BudgetInv, Budget
    <2> QED BY <1>1, <1>2, <1>10, <2>1 DEF SavedInv
  <1> QED BY <1>8, <1>9, <1>11, <1>12, <1>13, <1>14, <1>15


\* BlocksOf lists the slots.
LEMMA BlocksOfTree ==
  ASSUME DataTypeOK, NEW i \in FileInodes
  PROVE  BlocksOf(inode[i]) = {Tree(disk, inode)[i][k] : k \in Slots} \ {0}
  <1> DEFINE ind == inode[i].addrs[NDIRECT]
             T == Tree(disk, inode)[i]
  <1>0. NDIRECT \in Nat /\ NINDIRECT \in Nat
    BY DataAssumption DEF DataAssumption
  <1>1. \A k \in 0..NDIRECT : k \in Slots /\ T[k] = inode[i].addrs[k]
    BY <1>0 DEF Tree, At, Slots
  <1>2. ASSUME NEW e \in 0..NINDIRECT-1
        PROVE  /\ NDIRECT + 1 + e \in Slots
               /\ T[NDIRECT + 1 + e] = IF ind = 0 THEN 0 ELSE disk[ind][e]
    <2> DEFINE s == NDIRECT + 1 + e
    <2>1. s \in Slots /\ ~(s <= NDIRECT) /\ s - NDIRECT - 1 = e
      BY <1>0 DEF Slots
    <2> HIDE DEF s
    <2>2. T[s] = IF ind = 0 THEN 0 ELSE disk[ind][e]
      BY <2>1 DEF Tree, At
    <2> QED BY <2>1, <2>2 DEF s
  <1>3. ASSUME NEW k \in Slots
        PROVE  k \in 0..NDIRECT \/ \E e \in 0..NINDIRECT-1 : k = NDIRECT + 1 + e
    <2>1. CASE k <= NDIRECT
      BY <1>0, <2>1 DEF Slots
    <2>2. CASE k > NDIRECT
      <3>1. k - NDIRECT - 1 \in 0..NINDIRECT-1 /\ k = NDIRECT + 1 + (k - NDIRECT - 1)
        BY <1>0, <2>2 DEF Slots
      <3> QED BY <3>1
    <2> QED BY <1>0, <2>1, <2>2 DEF Slots
  <1> HIDE DEF T, ind
  <1>4. BlocksOf(inode[i]) = ({inode[i].addrs[k] : k \in 0..NDIRECT}
          \cup (IF ind = 0 THEN {} ELSE {disk[ind][k] : k \in 0..NINDIRECT-1})) \ {0}
    BY DEF BlocksOf, ind
  <1>5. ASSUME NEW b \in BlocksOf(inode[i])
        PROVE  b \in {T[k] : k \in Slots} \ {0}
    <2>1. CASE b \in {inode[i].addrs[k] : k \in 0..NDIRECT}
      BY <1>1, <1>4, <1>5, <2>1
    <2>2. CASE ind # 0 /\ b \in {disk[ind][k] : k \in 0..NINDIRECT-1}
      <3>1. PICK e \in 0..NINDIRECT-1 : b = disk[ind][e]
        BY <2>2
      <3>2. b = T[NDIRECT + 1 + e] /\ NDIRECT + 1 + e \in Slots
        BY <1>2, <2>2, <3>1
      <3> QED BY <1>4, <1>5, <3>2
    <2> QED BY <1>4, <1>5, <2>1, <2>2
  <1>6. ASSUME NEW k \in Slots, T[k] # 0
        PROVE  T[k] \in BlocksOf(inode[i])
    <2>1. CASE k \in 0..NDIRECT
      BY <1>1, <1>4, <1>6, <2>1
    <2>2. CASE \E e \in 0..NINDIRECT-1 : k = NDIRECT + 1 + e
      <3>1. PICK e \in 0..NINDIRECT-1 : k = NDIRECT + 1 + e
        BY <2>2
      <3>2. ind # 0 /\ T[k] = disk[ind][e]
        BY <1>2, <1>6, <3>1
      <3> QED BY <1>4, <1>6, <3>2
    <2> QED BY <1>3, <2>1, <2>2
  <1>7. BlocksOf(inode[i]) = {T[k] : k \in Slots} \ {0}
    BY <1>5, <1>6
  <1> QED BY <1>7 DEF T

\* itrunc gives back the blocks of an inode that nobody has locked.
LEMMA ItruncData ==
  ASSUME DataTypeOK, DataIInv, NEW p \in IoProcs, NEW i \in FileInodes, itrunc(p, i)
  PROVE  DataTypeOK' /\ DataIInv'
  <1> USE DataAssumption DEF DataAssumption, DataIInv
  <1> DEFINE A == Tree(disk, inode)
             I == [size |-> 0, addrs |-> [k \in 0..NDIRECT |-> 0]]
             Z == [k \in Slots |-> 0]
  <1>1. /\ UNCHANGED <<disk, home, inlock, off, wr, dirty>> /\ inlock[i] = None
        /\ used' = used \ Freed(inode[i]) /\ inode' = [inode EXCEPT ![i] = I]
    BY DEF itrunc
  <1>2. I \in InodeRec /\ I.size = 0 /\ I.addrs[NDIRECT] = 0
    BY DEF InodeRec
  <1>3. \A j \in FileInodes : inode'[j] = IF j = i THEN I ELSE inode[j]
    BY <1>1 DEF DataTypeOK
  <1>4. Tree(disk', inode') = With(A, i, Z)
    <2>1. \A k \in Slots : At(disk, I, k) = 0
      BY DEF At, Slots
    <2>2. Tree(disk', inode') = [j \in FileInodes |-> [k \in Slots |->
                                   IF j = i THEN 0 ELSE At(disk, inode[j], k)]]
      BY <1>1, <1>3, <2>1 DEF Tree
    <2>3. With(A, i, Z) = [j \in FileInodes |-> [k \in Slots |->
                             IF j = i THEN 0 ELSE At(disk, inode[j], k)]]
      BY DEF Tree, With
    <2> QED BY <2>2, <2>3
  <1>5. used' = used \ {A[i][k] : k \in Slots}
    <2>1. 0 \notin used
      BY BlocksNat DEF DataTypeOK
    <2> QED BY <1>1, <2>1, BlocksOfTree DEF Freed
  <1>6. AccountInv'
    <2>1. used \in SUBSET Blocks /\ Accounted(used, A)
      BY DEF DataTypeOK, AccountInv
    <2> HIDE DEF A
    <2>2. Accounted(used', With(A, i, Z))
      BY <1>5, <2>1, AccountsShrink
    <2> QED BY <1>4, <2>2 DEF AccountInv
  <1> HIDE DEF I
  <1>7. DataTypeOK'
    BY <1>1, <1>2, <1>3 DEF DataTypeOK
  <1>8. \A j \in FileInodes : \A k : j # i => ByteBlock(j, k)' = ByteBlock(j, k)
    BY <1>4 DEF ByteBlock, With, Tree
  <1>9. \A q \in IoProcs : /\ Busy(q)' = Busy(q) /\ Ino(q)' = Ino(q)
                           /\ Busy(q) => Ino(q) \in FileInodes /\ Ino(q) # i
    BY <1>1 DEF Busy, Ino, IlockInv, CallInv
  <1>10. CallInv' /\ IlockInv'
    BY <1>1, <1>9 DEF CallInv, IlockInv, DataTypeOK
  <1>11. SizeInv'
    BY <1>1, <1>2, <1>3, <1>8, MaxBytesNat DEF SizeInv
  <1>12. PieceInv'
    BY <1>1, <1>3, <1>8, <1>9 DEF PieceInv, Piece
  <1>13. \A q \in IoProcs : Busy(q) => Spent(q)' = Spent(q)
    BY <1>1, <1>3, <1>9 DEF Spent
  <1>14. BudgetInv'
    BY <1>1, <1>9, <1>13 DEF BudgetInv, Budget
  <1>15. SavedInv'
    <2>1. \A j \in FileInodes : \A x : j # i => Holds(j, x)' = Holds(j, x)
      BY <1>4 DEF Holds, With, Tree
    <2>2. \A q \in IoProcs : Busy(q) \/ dirty[q] = {}
      BY DEF BudgetInv, Budget
    <2> QED BY <1>1, <1>2, <1>3, <1>9, <2>1, <2>2 DEF SavedInv
  <1> QED BY <1>6, <1>7, <1>10, <1>11, <1>12, <1>14, <1>15


\* writei locks the inode and begins with a piece, or refuses it.
LEMMA WriteiData ==
  ASSUME DataTypeOK, DataIInv, NEW p \in IoProcs, writei(p)
  PROVE  DataTypeOK' /\ DataIInv'
  <1> USE DataAssumption DEF DataAssumption, DataIInv
  <1> DEFINE c == wr[p]
             i == Ino(p)
             n1 == Chunk(c.n - c.i)
             d == [c EXCEPT !.pc = "loop", !.n1 = n1, !.off = off[c.f], !.tot = 0]
  <1>1. UNCHANGED <<used, disk, home, inode, off, dirty>> /\ c.pc = "next" /\ inlock[i] = None
    BY DEF writei, Ino
  <1>2. /\ Tree(disk', inode') = Tree(disk, inode)
        /\ \A j, k : ByteBlock(j, k)' = ByteBlock(j, k)
        /\ \A j, x : Holds(j, x)' = Holds(j, x)
    BY <1>1, TreeSame
  <1>3. /\ c \in Call /\ c.f \in OpenFiles /\ i \in FileInodes /\ c.v \in ByteValues
        /\ c.i < c.n /\ c.n < UINT /\ c.n - c.i \in Nat /\ c.n - c.i < UINT
    BY <1>1 DEF DataTypeOK, CallInv, Ino, Call
  <1>4. n1 \in Nat /\ n1 < UINT /\ n1 <= BSIZE * Room
    <2> DEFINE x == c.n - c.i
    <2>1. x \in Nat /\ x < UINT
      BY <1>3
    <2> HIDE DEF x
    <2>2. Chunk(x) \in Nat /\ Chunk(x) <= x /\ Chunk(x) <= BSIZE * Room
      BY <2>1, ChunkFits
    <2>3. Chunk(x) < UINT
      BY <2>1, <2>2
    <2> QED BY <2>2, <2>3 DEF x
  <1>5. \/ wr' = [wr EXCEPT ![p] = NoCall] /\ UNCHANGED inlock
        \/ /\ ~Refused(inode[i], off[c.f], n1)
           /\ wr' = [wr EXCEPT ![p] = d] /\ inlock' = [inlock EXCEPT ![i] = p]
    BY DEF writei, Ino
  <1> HIDE DEF n1
  <1>6. /\ d \in Call /\ d.pc = "loop" /\ d.n1 = n1 /\ d.off = off[c.f] /\ d.tot = 0
        /\ d.f = c.f /\ d.v = c.v /\ d.i = c.i /\ d.n = c.n
    BY <1>3, <1>4 DEF Call, DataTypeOK
  <1> HIDE DEF d
  <1>7. ~Busy(p) /\ dirty[p] = {}
    BY <1>1 DEF Busy, BudgetInv, Budget
  <1>8. CASE wr' = [wr EXCEPT ![p] = NoCall] /\ UNCHANGED inlock
    <2>1. /\ wr' \in [IoProcs -> Call] /\ wr'[p].pc = "user"
          /\ \A q \in IoProcs : q # p => wr'[q] = wr[q]
      BY <1>8, NoCallType DEF DataTypeOK
    <2>2. ~Busy(p)'
      BY <2>1 DEF Busy
    <2>3. DataTypeOK'
      BY <1>1, <1>8, <2>1 DEF DataTypeOK
    <2>4. CallInv'
      BY <1>1, <2>1 DEF CallInv
    <2>5. \A q \in IoProcs : /\ Busy(q)' = Busy(q)
                             /\ Busy(q) => wr'[q] = wr[q] /\ Ino(q)' = Ino(q) /\ Spent(q)' = Spent(q)
      BY <1>1, <1>7, <2>1, <2>2 DEF Busy, Ino, Spent
    <2>6. IlockInv'
      BY <1>8, <2>5 DEF IlockInv, DataTypeOK
    <2>7. AccountInv' /\ SizeInv'
      BY <1>1, <1>2 DEF AccountInv, SizeInv
    <2>8. PieceInv'
      BY <1>1, <1>2, <2>5 DEF PieceInv, Piece
    <2>9. BudgetInv'
      BY <1>1, <2>5 DEF BudgetInv, Budget
    <2>10. SavedInv'
      <3>1. \A q \in IoProcs : dirty[q] = {} \/ Ino(q)' = Ino(q)
        BY <1>7, <2>1 DEF Ino
      <3> QED BY <1>1, <1>2, <3>1 DEF SavedInv
    <2> QED BY <2>3, <2>4, <2>6, <2>7, <2>8, <2>9, <2>10
  <1>9. CASE /\ ~Refused(inode[i], off[c.f], n1)
             /\ wr' = [wr EXCEPT ![p] = d] /\ inlock' = [inlock EXCEPT ![i] = p]
    <2>1. /\ wr' \in [IoProcs -> Call] /\ wr'[p] = d
          /\ \A q \in IoProcs : q # p => wr'[q] = wr[q]
      BY <1>6, <1>9 DEF DataTypeOK
    <2>2. /\ inlock' \in [FileInodes -> IoProcs \cup {None}] /\ inlock'[i] = p
          /\ \A j \in FileInodes : j # i => inlock'[j] = inlock[j]
      BY <1>3, <1>9 DEF DataTypeOK
    <2>3. Busy(p)' /\ Ino(p)' = i
      BY <1>6, <2>1 DEF Busy, Ino
    <2>4. \A q \in IoProcs : q # p =>
            /\ Busy(q)' = Busy(q) /\ Ino(q)' = Ino(q) /\ Spent(q)' = Spent(q)
      BY <1>1, <2>1 DEF Busy, Ino, Spent
    <2>5. DataTypeOK'
      BY <1>1, <2>1, <2>2 DEF DataTypeOK
    <2>6. CallInv'
      BY <1>1, <1>3, <1>6, <2>1 DEF CallInv
    <2>7. IlockInv'
      <3>1. ASSUME NEW q \in IoProcs, Busy(q)'
            PROVE  inlock'[Ino(q)'] = q
        <4>1. CASE q = p
          BY <2>2, <2>3, <4>1
        <4>2. CASE q # p
          <5>1. Busy(q) /\ Ino(q)' = Ino(q) /\ inlock[Ino(q)] = q
            BY <2>4, <3>1, <4>2 DEF IlockInv
          <5>2. Ino(q) \in FileInodes
            BY <5>1 DEF Ino, CallInv, Busy
          <5>3. Ino(q) # i
            BY <1>1, <5>1
          <5> QED BY <2>2, <5>1, <5>2, <5>3
        <4> QED BY <4>1, <4>2
      <3>2. ASSUME NEW j \in FileInodes, inlock'[j] # None
            PROVE  wr'[inlock'[j]].pc \in {"loop", "end"} /\ InodeOf[wr'[inlock'[j]].f] = j
        <4>1. CASE j = i
          BY <2>2, <2>3, <4>1 DEF Busy, Ino
        <4>2. CASE j # i
          <5> DEFINE q == inlock[j]
          <5>1. inlock'[j] = q /\ q \in IoProcs /\ Busy(q) /\ Ino(q) = j
            BY <2>2, <3>2, <4>2 DEF IlockInv, DataTypeOK
          <5> HIDE DEF q
          <5>2. q # p
            BY <1>7, <5>1
          <5>3. wr'[q] = wr[q]
            BY <2>1, <5>1, <5>2
          <5> QED BY <5>1, <5>3 DEF Busy, Ino
        <4> QED BY <4>1, <4>2
      <3> QED BY <3>1, <3>2 DEF IlockInv, Busy, Ino
    <2>8. AccountInv' /\ SizeInv'
      BY <1>1, <1>2 DEF AccountInv, SizeInv
    <2>9. off[c.f] \in Nat /\ off[c.f] <= inode[i].size /\ off[c.f] + n1 <= MaxBytes
      <3> DEFINE o == off[c.f]
                 ino == inode[i]
      <3>1. o \in 0..MaxBytes /\ n1 \in 0..UINT-1 /\ ino.size \in Nat
        BY <1>3, <1>4, MaxBytesNat DEF SizeInv, DataTypeOK, InodeRec
      <3>2. ~Refused(ino, o, n1)
        BY <1>9
      <3> HIDE DEF o, ino
      <3>3. o <= ino.size /\ o + n1 <= MaxBytes
        BY <3>1, <3>2, WriteFits
      <3> QED BY <3>1, <3>3, MaxBytesNat DEF o, ino
    <2>10. PieceInv'
      <3> SUFFICES ASSUME NEW q \in IoProcs, Busy(q)'
                   PROVE  LET e == wr'[q]
                          IN  /\ off'[e.f] <= inode'[Ino(q)'].size
                              /\ e.off = off'[e.f] + e.tot
                              /\ e.tot <= e.n1 /\ off'[e.f] + e.n1 <= MaxBytes
                              /\ e.n1 <= BSIZE * Room
                              /\ \A k \in 0..e.off-1 : ByteBlock(Ino(q), k)' # 0
                              /\ \A k \in off'[e.f]..e.off-1 :
                                   /\ disk'[ByteBlock(Ino(q), k)'][k % BSIZE] = e.v
                                   /\ home'[ByteBlock(Ino(q), k)'][k % BSIZE] = e.v
        BY DEF PieceInv, Piece
      <3>1. CASE q # p
        <4>1. Busy(q) /\ wr'[q] = wr[q] /\ Ino(q)' = Ino(q)
          BY <2>1, <2>4, <3>1
        <4> QED BY <1>1, <1>2, <4>1 DEF PieceInv, Piece
      <3>2. CASE q = p
        <4>1. \A k \in 0..off[c.f]-1 : ByteBlock(i, k) # 0
          BY <1>3, <2>9 DEF SizeInv, DataTypeOK, InodeRec
        <4>2. \A k \in 0..d.off-1 : ByteBlock(Ino(p), k)' # 0
          BY <1>2, <1>6, <2>3, <4>1 DEF ByteBlock
        <4> QED BY <1>1, <1>4, <1>6, <2>1, <2>3, <2>9, <3>2, <4>2
      <3> QED BY <3>1, <3>2
    <2>11. BudgetInv'
      <3>1. dirty'[p] = {} /\ Spent(p)' = {}
        BY <1>1, <1>7 DEF BudgetInv, Budget, Spent
      <3>2. Cardinality({}) = 0
        BY FS_EmptySet
      <3>3. \A q \in IoProcs : q # p => wr'[q] = wr[q] /\ Busy(q)' = Busy(q) /\ Spent(q)' = Spent(q)
        BY <2>1, <2>4
      <3>4. Budget(p)'
        BY <1>6, <2>1, <2>3, <3>1, <3>2 DEF Budget
      <3>5. \A q \in IoProcs : q # p => Budget(q)'
        BY <1>1, <3>3 DEF BudgetInv, Budget
      <3> QED BY <3>4, <3>5 DEF BudgetInv
    <2>12. SavedInv'
      <3>1. \A q \in IoProcs : dirty[q] = {} \/ Ino(q)' = Ino(q)
        BY <1>7, <2>4
      <3> QED BY <1>1, <1>2, <3>1 DEF SavedInv
    <2> QED BY <2>5, <2>6, <2>7, <2>8, <2>10, <2>11, <2>12
  <1> QED BY <1>5, <1>8, <1>9


\* Processes in writei have different inodes and files.
LEMMA BusyApart ==
  ASSUME DataTypeOK, DataIInv, NEW p \in IoProcs, NEW q \in IoProcs, Busy(p), Busy(q), p # q
  PROVE  /\ Ino(p) \in FileInodes /\ Ino(q) \in FileInodes /\ Ino(p) # Ino(q)
         /\ wr[p].f \in OpenFiles /\ wr[q].f \in OpenFiles /\ wr[p].f # wr[q].f
  <1>1. wr[p].f \in OpenFiles /\ wr[q].f \in OpenFiles
    BY DEF DataIInv, CallInv, Busy
  <1>2. inlock[Ino(p)] = p /\ inlock[Ino(q)] = q
    BY DEF DataIInv, IlockInv
  <1> QED BY <1>1, <1>2, DataAssumption DEF Ino, DataAssumption

\* The end of a piece: the size and the offset follow what was written.
LEMMA WriteiEndData ==
  ASSUME DataTypeOK, DataIInv, NEW p \in IoProcs, writei_end(p)
  PROVE  DataTypeOK' /\ DataIInv'
  <1> USE DataAssumption DEF DataAssumption, DataIInv
  <1> DEFINE c == wr[p]
             i == Ino(p)
             more == c.tot = c.n1 /\ c.i + c.tot < c.n
             d == [c EXCEPT !.pc = "next", !.i = @ + c.tot, !.n1 = 0, !.off = 0, !.tot = 0]
  <1>1. /\ UNCHANGED <<used, disk, home>> /\ Busy(p)
        /\ inode' = [inode EXCEPT ![i].size = IF c.off > @ THEN c.off ELSE @]
        /\ off' = [off EXCEPT ![c.f] = @ + c.tot]
        /\ inlock' = [inlock EXCEPT ![i] = None]
        /\ wr' = [wr EXCEPT ![p] = IF more THEN d ELSE NoCall]
        /\ dirty' = [dirty EXCEPT ![p] = {}]
    BY DEF writei_end, Busy, Ino
  <1>2. /\ c \in Call /\ c.f \in OpenFiles /\ i \in FileInodes /\ c.v \in ByteValues
        /\ c.i < c.n /\ c.n < UINT /\ inode[i] \in InodeRec
    BY <1>1 DEF DataTypeOK, CallInv, Ino, Call, Busy
  <1>3. /\ c.off \in Nat /\ c.tot \in Nat /\ off[c.f] \in Nat /\ inode[i].size \in Nat
        /\ c.off = off[c.f] + c.tot /\ c.off <= MaxBytes /\ inode[i].size <= MaxBytes
        /\ \A k \in 0..c.off-1 : ByteBlock(i, k) # 0
    <2>1. c.off \in Nat /\ c.tot \in Nat /\ c.n1 \in Nat /\ off[c.f] \in Nat /\ inode[i].size \in Nat
      BY <1>2 DEF Call, DataTypeOK, InodeRec
    <2>2. Piece(p) /\ inode[i].size <= MaxBytes
      BY <1>1, <1>2 DEF PieceInv, SizeInv
    <2> QED BY <2>1, <2>2, MaxBytesNat DEF Piece
  <1> DEFINE size == IF c.off > inode[i].size THEN c.off ELSE inode[i].size
  <1>4. /\ inode' \in [FileInodes -> InodeRec]
        /\ inode'[i].size = size /\ inode'[i].addrs = inode[i].addrs
        /\ \A j \in FileInodes : j # i => inode'[j] = inode[j]
    <2>1. size \in Nat
      BY <1>3
    <2>2. inode' = [inode EXCEPT ![i] = [inode[i] EXCEPT !.size = size]]
      BY <1>1
    <2> DEFINE I == [inode[i] EXCEPT !.size = size]
    <2> HIDE DEF size
    <2>3. I \in InodeRec /\ I.size = size /\ I.addrs = inode[i].addrs
      BY <1>2, <2>1 DEF InodeRec
    <2> HIDE DEF I
    <2> QED BY <1>2, <2>2, <2>3 DEF DataTypeOK, I
  <1>5. /\ Tree(disk', inode') = Tree(disk, inode)
        /\ \A j, k : ByteBlock(j, k)' = ByteBlock(j, k)
        /\ \A j, x : Holds(j, x)' = Holds(j, x)
        /\ \A j \in FileInodes : inode'[j].addrs = inode[j].addrs
    <2>1. disk' = disk /\ \A j \in FileInodes : inode'[j].addrs = inode[j].addrs
      BY <1>1, <1>4
    <2> QED BY <2>1, TreeSame
  <1>6. /\ off' \in [OpenFiles -> Nat] /\ off'[c.f] = c.off
        /\ \A f \in OpenFiles : f # c.f => off'[f] = off[f]
    BY <1>1, <1>2, <1>3 DEF DataTypeOK
  <1>7. /\ inlock' \in [FileInodes -> IoProcs \cup {None}] /\ inlock'[i] = None
        /\ \A j \in FileInodes : j # i => inlock'[j] = inlock[j]
    BY <1>1, <1>2 DEF DataTypeOK
  <1>8. /\ dirty' \in [IoProcs -> SUBSET LogBlocks] /\ dirty'[p] = {}
        /\ \A q \in IoProcs : q # p => dirty'[q] = dirty[q]
    BY <1>1 DEF DataTypeOK
  <1>9. d \in Call /\ d.pc = "next" /\ d.f = c.f /\ d.v = c.v /\ d.i = c.i + c.tot /\ d.n = c.n
    <2> DEFINE x == c.i + c.tot
    <2>1. x \in Nat
      BY <1>2, <1>3 DEF Call
    <2>2. d = [c EXCEPT !.pc = "next", !.i = x, !.n1 = 0, !.off = 0, !.tot = 0]
      OBVIOUS
    <2> HIDE DEF d, x, c
    <2>3. d \in Call /\ d.pc = "next" /\ d.f = c.f /\ d.v = c.v /\ d.i = x /\ d.n = c.n
      BY <1>2, <2>1, <2>2 DEF Call
    <2> QED BY <2>3 DEF x
  <1> HIDE DEF d
  <1>10. /\ wr' \in [IoProcs -> Call]
         /\ wr'[p].pc \in {"user", "next"}
         /\ wr'[p].pc # "user" => wr'[p] = d /\ c.i + c.tot < c.n
         /\ \A q \in IoProcs : q # p => wr'[q] = wr[q]
    BY <1>1, <1>9, NoCallType DEF DataTypeOK
  <1>11. ~Busy(p)'
    BY <1>10 DEF Busy
  <1>12. \A q \in IoProcs : q # p => /\ Busy(q)' = Busy(q) /\ Ino(q)' = Ino(q)
                                     /\ Busy(q) => Ino(q) \in FileInodes /\ Ino(q) # i /\ off'[wr[q].f] = off[wr[q].f]
    BY <1>1, <1>6, <1>10, BusyApart DEF Busy, Ino
  <1>13. DataTypeOK'
    <2>1. \A q \in IoProcs : IsFiniteSet(dirty'[q])
      BY <1>8, FS_EmptySet DEF DataTypeOK
    <2> QED BY <1>1, <1>4, <1>6, <1>7, <1>8, <1>10, <2>1 DEF DataTypeOK
  <1>14. CallInv'
    BY <1>2, <1>9, <1>10 DEF CallInv
  <1>15. IlockInv'
    <2>1. ASSUME NEW q \in IoProcs, Busy(q)'
          PROVE  inlock'[Ino(q)'] = q
      <3>1. q # p /\ Busy(q) /\ Ino(q)' = Ino(q) /\ Ino(q) \in FileInodes /\ Ino(q) # i
        BY <1>11, <1>12, <2>1
      <3> QED BY <1>7, <3>1 DEF IlockInv
    <2>2. ASSUME NEW j \in FileInodes, inlock'[j] # None
          PROVE  wr'[inlock'[j]].pc \in {"loop", "end"} /\ InodeOf[wr'[inlock'[j]].f] = j
      <3> DEFINE q == inlock[j]
      <3>1. j # i /\ inlock'[j] = q
        BY <1>7, <2>2
      <3>2. q \in IoProcs /\ Busy(q) /\ Ino(q) = j
        BY <2>2, <3>1 DEF IlockInv, DataTypeOK
      <3> HIDE DEF q
      <3>3. q # p
        BY <3>1, <3>2
      <3>4. wr'[q] = wr[q]
        BY <1>10, <3>2, <3>3
      <3> QED BY <3>1, <3>2, <3>4 DEF Busy, Ino
    <2> QED BY <2>1, <2>2 DEF IlockInv, Busy, Ino
  <1>16. AccountInv'
    BY <1>1, <1>5 DEF AccountInv
  <1>17. SizeInv'
    <2>1. ASSUME NEW j \in FileInodes
          PROVE  inode'[j].size <= MaxBytes /\ \A k \in 0..inode'[j].size-1 : ByteBlock(j, k)' # 0
      <3>1. CASE j # i
        BY <1>4, <1>5, <3>1 DEF SizeInv
      <3>2. CASE j = i
        <4>1. \A k \in 0..inode[i].size-1 : ByteBlock(i, k) # 0
          BY <1>2 DEF SizeInv
        <4> QED BY <1>3, <1>4, <1>5, <3>2, <4>1
      <3> QED BY <3>1, <3>2
    <2>2. \A f \in OpenFiles : off'[f] <= MaxBytes
      BY <1>3, <1>6 DEF SizeInv
    <2> QED BY <2>1, <2>2 DEF SizeInv
  <1>18. PieceInv'
    <2> SUFFICES ASSUME NEW q \in IoProcs, Busy(q)'
                 PROVE  Piece(q)'
      BY DEF PieceInv
    <2>1. /\ q # p /\ Busy(q) /\ wr'[q] = wr[q] /\ Ino(q)' = Ino(q) /\ inode'[Ino(q)] = inode[Ino(q)]
          /\ off'[wr[q].f] = off[wr[q].f]
      BY <1>4, <1>10, <1>11, <1>12
    <2>2. Piece(q)
      BY <2>1 DEF PieceInv
    <2> QED BY <1>1, <1>5, <2>1, <2>2 DEF Piece
  <1>19. BudgetInv'
    <2>1. Budget(p)'
      BY <1>8, <1>11 DEF Budget
    <2>2. ASSUME NEW q \in IoProcs, q # p
          PROVE  Budget(q)'
      <3>1. Busy(q)' = Busy(q) /\ wr'[q] = wr[q] /\ dirty'[q] = dirty[q]
        BY <1>8, <1>10, <1>12, <2>2
      <3>2. Busy(q) => Spent(q)' = Spent(q) /\ off'[wr[q].f] = off[wr[q].f]
        BY <1>4, <1>12, <2>2, <3>1 DEF Spent
      <3>3. Budget(q)
        BY DEF BudgetInv
      <3> QED BY <3>1, <3>2, <3>3 DEF Budget
    <2> QED BY <2>1, <2>2 DEF BudgetInv
  <1>20. SavedInv'
    <2>1. \A q \in IoProcs : dirty'[q] = {} \/ (dirty'[q] = dirty[q] /\ Ino(q)' = Ino(q))
      BY <1>8, <1>12
    <2> QED BY <1>1, <1>5, <2>1 DEF SavedInv
  <1> QED BY <1>13, <1>14, <1>15, <1>16, <1>17, <1>18, <1>19, <1>20


-----------------------------------------------------------------------------
(* A turn of the loop of writei                                            *)

TurnMem(p) == [used |-> used, disk |-> disk, ino |-> inode[Ino(p)], log |-> dirty[p], addr |-> 0]
TurnMap(p) == bmap(TurnMem(p), wr[p].off \div BSIZE)
TurnSlot(p) == SlotOf(wr[p].off \div BSIZE)
TurnLen(p) == lesser(wr[p].n1 - wr[p].tot, BSIZE - (wr[p].off % BSIZE))

InLoop(p) == wr[p].pc = "loop" /\ wr[p].tot < wr[p].n1

LEMMA InLoopType ==
  ASSUME DataTypeOK, DataIInv, NEW p \in IoProcs, InLoop(p)
  PROVE  /\ Busy(p) /\ wr[p] \in Call /\ wr[p].f \in OpenFiles /\ Ino(p) \in FileInodes
         /\ wr[p].v \in ByteValues
         /\ wr[p].off \in Nat /\ wr[p].tot \in Nat /\ wr[p].n1 \in Nat /\ off[wr[p].f] \in Nat
         /\ inode[Ino(p)] \in InodeRec
         /\ wr[p].off = off[wr[p].f] + wr[p].tot
         /\ wr[p].off + (wr[p].n1 - wr[p].tot) <= MaxBytes /\ wr[p].off < MaxBytes
  <1>1. Busy(p) /\ wr[p] \in Call /\ wr[p].f \in OpenFiles /\ wr[p].v \in ByteValues
    BY DEF DataTypeOK, DataIInv, CallInv, Busy, InLoop
  <1>2. Ino(p) \in FileInodes
    BY <1>1, DataAssumption DEF Ino, DataAssumption
  <1>3. /\ wr[p].off \in Nat /\ wr[p].tot \in Nat /\ wr[p].n1 \in Nat /\ off[wr[p].f] \in Nat
        /\ inode[Ino(p)] \in InodeRec
    BY <1>1, <1>2 DEF DataTypeOK, Call
  <1>4. Piece(p)
    BY <1>1 DEF DataIInv, PieceInv
  <1>5. /\ wr[p].off = off[wr[p].f] + wr[p].tot
        /\ wr[p].off + (wr[p].n1 - wr[p].tot) <= MaxBytes /\ wr[p].off < MaxBytes
    BY <1>3, <1>4, MaxBytesNat DEF Piece, InLoop
  <1> QED BY <1>1, <1>2, <1>3, <1>5

\* The piece goes on by at least one byte, and not beyond its block.
LEMMA TurnLenType ==
  ASSUME DataTypeOK, DataIInv, NEW p \in IoProcs, InLoop(p)
  PROVE  /\ TurnLen(p) \in Nat /\ TurnLen(p) >= 1
         /\ TurnLen(p) <= wr[p].n1 - wr[p].tot /\ TurnLen(p) <= BSIZE - (wr[p].off % BSIZE)
         /\ TurnLen(p) < wr[p].n1 - wr[p].tot => TurnLen(p) = BSIZE - (wr[p].off % BSIZE)
  <1> DEFINE x == wr[p].n1 - wr[p].tot
             y == BSIZE - (wr[p].off % BSIZE)
  <1>1. x \in Nat /\ x >= 1
    BY InLoopType DEF InLoop
  <1>2. y \in Nat /\ y >= 1
    <2>1. BSIZE \in Nat \ {0} /\ wr[p].off \in Int
      BY InLoopType, DataAssumption DEF DataAssumption
    <2>2. wr[p].off % BSIZE \in 0..BSIZE-1
      BY <2>1, ModRange
    <2> DEFINE z == wr[p].off % BSIZE
    <2> HIDE DEF z
    <2>3. z \in 0..BSIZE-1
      BY <2>2 DEF z
    <2>4. BSIZE - z \in Nat /\ BSIZE - z >= 1
      BY <2>1, <2>3
    <2> QED BY <2>4 DEF z
  <1> HIDE DEF x, y
  <1>3. TurnLen(p) = lesser(x, y)
    BY DEF TurnLen, x, y
  <1>4. /\ TurnLen(p) \in Nat /\ TurnLen(p) >= 1 /\ TurnLen(p) <= x /\ TurnLen(p) <= y
        /\ TurnLen(p) < x => TurnLen(p) = y
    BY <1>1, <1>2, <1>3 DEF lesser
  <1> QED BY <1>4 DEF x, y

LEMMA TurnSound ==
  ASSUME DataTypeOK, DataIInv, NEW p \in IoProcs, InLoop(p)
  PROVE  /\ Sound(TurnMem(p), Ino(p), inode)
         /\ TreeOf(TurnMem(p), Ino(p), inode) = Tree(disk, inode)
         /\ TurnSlot(p) \in Slots /\ TurnSlot(p) # NDIRECT
         /\ Mapped(TurnMem(p), TurnMap(p), Ino(p), inode, TurnSlot(p))
         /\ Logged(TurnMem(p), TurnMap(p))
  <1> DEFINE i == Ino(p)
             m == TurnMem(p)
             bn == wr[p].off \div BSIZE
  <1>0. i \in FileInodes /\ inode[i] \in InodeRec /\ wr[p].off \in Nat /\ wr[p].off < MaxBytes
    BY InLoopType
  <1>1. m \in Mem
    <2>1. dirty[p] \in SUBSET LogBlocks /\ used \in SUBSET Blocks /\ disk \in DiskFun
      BY DEF DataTypeOK
    <2>2. 0 \in 0..NB
      BY BlocksNat
    <2> QED BY <1>0, <2>1, <2>2 DEF Mem, TurnMem, LogBlocks
  <1>2. With(inode, i, m.ino) = inode
    BY <1>0 DEF With, DataTypeOK, TurnMem
  <1>3. m.used = used /\ m.disk = disk
    BY DEF TurnMem
  <1> HIDE DEF m, i
  <1>4. TreeOf(m, i, inode) = Tree(disk, inode)
    BY <1>2, <1>3 DEF TreeOf
  <1>5. Sound(m, i, inode)
    BY <1>1, <1>2, <1>3 DEF Sound, DataTypeOK, DataIInv, AccountInv
  <1>6. bn \in 0..MAXFILE-1 /\ SlotOf(bn) \in Slots /\ SlotOf(bn) # NDIRECT
    BY <1>0, BlockOfByte
  <1> HIDE DEF bn
  <1>7. Mapped(m, bmap(m, bn), i, inode, SlotOf(bn))
    BY <1>0, <1>5, <1>6, BmapMaps
  <1>8. Logged(m, bmap(m, bn))
    BY <1>0, <1>5, <1>6, BmapLogs
  <1> QED BY <1>4, <1>5, <1>6, <1>7, <1>8 DEF m, i, bn, TurnMap, TurnSlot

\* r.addr is a block of the file, no inode's indirect block.
LEMMA WriteTree ==
  ASSUME NEW U \in SUBSET Blocks, NEW D \in DiskFun, NEW N, NEW E,
         Accounted(U, Tree(D, N)), NEW i \in FileInodes, NEW s \in Slots, s # NDIRECT,
         Tree(D, N)[i][s] # 0,
         \A b \in Blocks : b # Tree(D, N)[i][s] => E[b] = D[b]
  PROVE  Tree(E, N) = Tree(D, N)
  <1> DEFINE A == Tree(D, N)
  <1>0. NDIRECT \in Slots /\ NDIRECT \in Nat
    BY DataAssumption DEF DataAssumption, Slots
  <1>1. ASSUME NEW j \in FileInodes, NEW k \in Slots
        PROVE  At(E, N[j], k) = At(D, N[j], k)
    <2>1. N[j].addrs[NDIRECT] \in U \cup {0}
      BY IndirectUsed
    <2>2. A[j][NDIRECT] = N[j].addrs[NDIRECT]
      BY <1>0 DEF Tree, At
    <2>0. Accounted(U, A)
      OBVIOUS
    <2> HIDE DEF A
    <2>3. N[j].addrs[NDIRECT] # 0 => N[j].addrs[NDIRECT] # A[i][s]
      BY <1>0, <2>0, <2>2 DEF Accounted
    <2>4. N[j].addrs[NDIRECT] # 0 => E[N[j].addrs[NDIRECT]] = D[N[j].addrs[NDIRECT]]
      BY <2>1, <2>3 DEF A
    <2> QED BY <2>4 DEF At
  <1> QED BY <1>1 DEF Tree


\* A turn that cannot get a block or all of the bytes, and one that writes.
Stopped(p) == /\ wr' = [wr EXCEPT ![p].pc = "end"]
              /\ dirty' = [dirty EXCEPT ![p] = TurnMap(p).log]

Wrote(p) ==
  LET c == wr[p]
      r == TurnMap(p)
      m == TurnLen(p)
  IN  /\ r.addr # 0
      /\ wr' = [wr EXCEPT ![p] = [c EXCEPT !.tot = c.tot + m, !.off = c.off + m]]
      /\ dirty' = [dirty EXCEPT ![p] = r.log \cup {<<"block", r.addr>>}]

\* n bytes reach the block of the turn.
Reach(p, n) ==
  LET r == TurnMap(p)
  IN  /\ r.addr = 0 => n = 0 /\ disk' = r.disk
      /\ r.addr # 0 => disk' = Copied(r.disk, r.addr, wr[p].off % BSIZE, n, wr[p].v)
      /\ Wrote(p) => n = TurnLen(p)

\* The bytes that reach it, and their cells.
Got(p) == CHOOSE n \in 0..TurnLen(p) : Reach(p, n)
TurnCells(p) == (wr[p].off % BSIZE)..((wr[p].off % BSIZE) + Got(p) - 1)

LEMMA StoppedOrWrote ==
  ASSUME DataTypeOK, NEW p \in IoProcs, InLoop(p)
  PROVE  ~(Stopped(p) /\ Wrote(p))
  <1>1. Stopped(p) => wr'[p].pc = "end"
    BY DEF Stopped, DataTypeOK, Call
  <1>2. Wrote(p) => wr'[p].pc = "loop"
    BY DEF Wrote, DataTypeOK, Call, InLoop
  <1> QED BY <1>1, <1>2

LEMMA TurnSteps ==
  ASSUME DataTypeOK, DataIInv, NEW p \in IoProcs, writei_turn(p)
  PROVE  /\ InLoop(p) /\ used' = TurnMap(p).used /\ inode' = With(inode, Ino(p), TurnMap(p).ino)
         /\ UNCHANGED <<inlock, off>>
         /\ Stopped(p) \/ Wrote(p)
         /\ Got(p) \in 0..TurnLen(p) /\ Reach(p, Got(p))
         /\ \E log \in {dirty'[p], dirty'[p] \cup {<<"block", TurnMap(p).addr>>}} :
              home' = [x \in Blocks |-> IF <<"block", x>> \in log THEN disk'[x] ELSE home[x]]
  <1> DEFINE c == wr[p]
             b == bmap([used |-> used, disk |-> disk, ino |-> inode[InodeOf[c.f]],
                        log |-> dirty[p], addr |-> 0], c.off \div BSIZE)
             m == lesser(c.n1 - c.tot, BSIZE - (c.off % BSIZE))
             End == /\ wr' = [wr EXCEPT ![p].pc = "end"]
                    /\ dirty' = [dirty EXCEPT ![p] = b.log]
             None0 == b.addr = 0 /\ disk' = b.disk /\ End
             Torn == /\ b.addr # 0
                     /\ \E n \in 0..m-1 : disk' = Copied(b.disk, b.addr, c.off % BSIZE, n, c.v)
                     /\ End
             Whole == /\ b.addr # 0
                      /\ disk' = Copied(b.disk, b.addr, c.off % BSIZE, m, c.v)
                      /\ wr' = [wr EXCEPT ![p] = [c EXCEPT !.tot = @ + m, !.off = @ + m]]
                      /\ dirty' = [dirty EXCEPT ![p] = b.log \cup {<<"block", b.addr>>}]
  <1>1. b = TurnMap(p) /\ m = TurnLen(p)
    BY DEF TurnMap, TurnMem, TurnLen, Ino
  <1>2. /\ c.pc = "loop" /\ c.tot < c.n1 /\ used' = b.used
        /\ inode' = [inode EXCEPT ![InodeOf[c.f]] = b.ino]
        /\ UNCHANGED <<inlock, off>>
        /\ None0 \/ Torn \/ Whole
        /\ \E log \in {dirty'[p], dirty'[p] \cup {<<"block", b.addr>>}} :
             home' = [x \in Blocks |-> IF <<"block", x>> \in log THEN disk'[x] ELSE home[x]]
    BY DEF writei_turn
  <1> HIDE DEF b, m
  <1>3. InLoop(p)
    BY <1>2 DEF InLoop
  <1>4. m \in Nat /\ m >= 1
    BY <1>1, <1>3, TurnLenType
  <1>5. None0 \/ Torn => Stopped(p)
    BY <1>1 DEF Stopped
  <1>6. Whole => Wrote(p)
    BY <1>1 DEF Wrote
  <1>7. \E n \in 0..TurnLen(p) : Reach(p, n)
    <2>0. ~(Stopped(p) /\ Wrote(p))
      BY <1>3, StoppedOrWrote
    <2>1. CASE None0
      <3>1. Reach(p, 0)
        BY <1>1, <1>5, <2>0, <2>1 DEF Reach
      <3> QED BY <1>1, <1>4, <3>1
    <2>2. CASE Torn
      <3>1. PICK n \in 0..m-1 : disk' = Copied(b.disk, b.addr, c.off % BSIZE, n, c.v)
        BY <2>2
      <3>2. Reach(p, n) /\ n \in 0..m
        BY <1>1, <1>4, <1>5, <2>0, <2>2, <3>1 DEF Reach
      <3> QED BY <1>1, <3>2
    <2>3. CASE Whole
      <3>1. Reach(p, m) /\ m \in 0..m
        BY <1>1, <1>4, <2>3 DEF Reach
      <3> QED BY <1>1, <3>1
    <2> QED BY <1>2, <2>1, <2>2, <2>3
  <1>8. Got(p) \in 0..TurnLen(p) /\ Reach(p, Got(p))
    BY <1>7, Zenon DEF Got
  <1> HIDE DEF None0, Torn, Whole
  <1>9. used' = TurnMap(p).used /\ inode' = With(inode, Ino(p), TurnMap(p).ino)
    BY <1>1, <1>2 DEF With, Ino
  <1>10. \E log \in {dirty'[p], dirty'[p] \cup {<<"block", TurnMap(p).addr>>}} :
           home' = [x \in Blocks |-> IF <<"block", x>> \in log THEN disk'[x] ELSE home[x]]
    BY <1>1, <1>2
  <1> QED BY <1>2, <1>3, <1>5, <1>6, <1>8, <1>9, <1>10

\* What a turn does to the inodes and to the blocks of files.
LEMMA TurnTree ==
  ASSUME DataTypeOK, DataIInv, NEW p \in IoProcs, writei_turn(p)
  PROVE  LET A == Tree(disk, inode)
             B == Tree(disk', inode')
             i == Ino(p)
             s == TurnSlot(p)
         IN  /\ used' \in SUBSET Blocks /\ disk' \in DiskFun /\ inode' \in [FileInodes -> InodeRec]
             /\ \A j \in FileInodes : inode'[j].size = inode[j].size
             /\ \A j \in FileInodes : j # i => inode'[j] = inode[j]
             /\ inode'[i] = TurnMap(p).ino
             /\ Accounted(used', B)
             /\ \A j \in FileInodes, k \in Slots : A[j][k] # 0 \/ j # i => B[j][k] = A[j][k]
             /\ \A j \in FileInodes, k \in Slots :
                  k # NDIRECT /\ A[j][k] # 0 /\ ~(j = i /\ k = s) => disk'[A[j][k]] = disk[A[j][k]]
             /\ A[i][s] # 0 => TurnMap(p).addr # 0
             /\ TurnMap(p).addr # 0 =>
                  /\ B[i][s] = TurnMap(p).addr
                  /\ \A k \in Cells : k \in TurnCells(p) => disk'[B[i][s]][k] = wr[p].v
                  /\ \A k \in Cells : k \notin TurnCells(p) /\ A[i][s] # 0
                       => disk'[B[i][s]][k] = disk[A[i][s]][k]
             /\ \A j \in FileInodes : inode'[j].addrs[NDIRECT] # 0 =>
                  disk'[inode'[j].addrs[NDIRECT]] = TurnMap(p).disk[inode'[j].addrs[NDIRECT]]
  <1> DEFINE A == Tree(disk, inode)
             i == Ino(p)
             s == TurnSlot(p)
             m == TurnMem(p)
             r == TurnMap(p)
             C == TreeOf(r, i, inode)
  <1>1. InLoop(p) /\ used' = r.used /\ inode' = With(inode, i, r.ino) /\ Reach(p, Got(p))
    BY TurnSteps
  <1>2. /\ Sound(m, i, inode) /\ TreeOf(m, i, inode) = A
        /\ s \in Slots /\ s # NDIRECT /\ Mapped(m, r, i, inode, s)
    BY <1>1, TurnSound
  <1>3. i \in FileInodes /\ wr[p].v \in ByteValues
    BY <1>1, InLoopType
  <1>4. m.used = used /\ m.disk = disk /\ m.ino = inode[i]
    BY DEF TurnMem
  <1> HIDE DEF i, s, m, r
  <1>5. Sound(r, i, inode) /\ r.ino.size = inode[i].size /\ used \subseteq r.used
    BY <1>2, <1>4 DEF Mapped
  <1>6. r \in Mem /\ Accounted(r.used, C)
    BY <1>5 DEF Sound, TreeOf
  <1>7. r.used \in SUBSET Blocks /\ r.disk \in DiskFun /\ r.ino \in InodeRec
    BY <1>6 DEF Mem
  <1>8. \A j \in FileInodes, k \in Slots : A[j][k] # 0 \/ j # i => C[j][k] = A[j][k]
    BY <1>2 DEF Mapped
  <1>9. (r.addr # 0 => C[i][s] = r.addr) /\ (A[i][s] # 0 => r.addr # 0)
    BY <1>2 DEF Mapped
  <1>10. \A c \in used : c # inode[i].addrs[NDIRECT] => r.disk[c] = disk[c]
    BY <1>2, <1>4 DEF Mapped
  <1>11. /\ inode' \in [FileInodes -> InodeRec] /\ inode'[i] = r.ino
         /\ \A j \in FileInodes : j # i => inode'[j] = inode[j]
    BY <1>1, <1>3, <1>7 DEF With, DataTypeOK
  <1>12. \A j \in FileInodes : inode'[j].size = inode[j].size
    BY <1>5, <1>11
  <1>13. C = Tree(r.disk, inode')
    BY <1>1 DEF TreeOf
  <1>14. \A j \in FileInodes, k \in Slots :
           k # NDIRECT /\ A[j][k] # 0 => A[j][k] \in used /\ r.disk[A[j][k]] = disk[A[j][k]]
    <2> SUFFICES ASSUME NEW j \in FileInodes, NEW k \in Slots, k # NDIRECT, A[j][k] # 0
                 PROVE  A[j][k] \in used /\ r.disk[A[j][k]] = disk[A[j][k]]
      OBVIOUS
    <2>1. NDIRECT \in Slots /\ A[i][NDIRECT] = inode[i].addrs[NDIRECT]
      BY <1>3, DataAssumption DEF Tree, At, Slots, DataAssumption
    <2>2. Accounted(used, A)
      BY DEF DataIInv, AccountInv
    <2> HIDE DEF A
    <2>3. A[j][k] \in used /\ A[j][k] # A[i][NDIRECT]
      BY <1>3, <2>1, <2>2 DEF Accounted
    <2> QED BY <1>10, <2>1, <2>3
  <1>15. CASE r.addr = 0
    <2>1. disk' = r.disk
      BY <1>1, <1>15 DEF Reach, r
    <2>2. Tree(disk', inode') = C
      BY <1>13, <2>1
    <2>3. Accounted(used', Tree(disk', inode'))
      BY <1>1, <1>6, <2>2
    <2>4. \A j \in FileInodes, k \in Slots : k # NDIRECT /\ A[j][k] # 0 => disk'[A[j][k]] = disk[A[j][k]]
      BY <1>14, <2>1
    <2> HIDE DEF A, C
    <2> QED BY <1>1, <1>7, <1>8, <1>9, <1>11, <1>12, <1>15, <2>1, <2>2, <2>3, <2>4 DEF A, i, s, r
  <1>16. CASE r.addr # 0
    <2> DEFINE x == r.addr
               z == [k \in Cells |-> IF k \in TurnCells(p) THEN wr[p].v ELSE r.disk[x][k]]
    <2>1. x # 0 /\ disk' = [r.disk EXCEPT ![x] = z]
      BY <1>1, <1>16 DEF Reach, Copied, TurnCells, r
    <2>2. x = C[i][s] /\ x \in Blocks
      BY <1>2, <1>3, <1>6, <1>7, <1>9, <2>1 DEF Accounted
    <2>3. z \in [Cells -> Val]
      BY <1>3, <1>7, <2>2 DEF DiskFun, Val
    <2> HIDE DEF z, x
    <2>4. disk' \in DiskFun /\ disk'[x] = z /\ \A b \in Blocks : b # x => disk'[b] = r.disk[b]
      BY <1>7, <2>1, <2>2, <2>3 DEF DiskFun
    <2>5. Tree(disk', inode') = C
      <3>1. Accounted(r.used, Tree(r.disk, inode')) /\ Tree(r.disk, inode')[i][s] = x
        BY <1>6, <1>13, <2>2
      <3>2. Tree(disk', inode') = Tree(r.disk, inode')
        <4> DEFINE N == inode'
                   D == r.disk
                   E == disk'
        <4>1. /\ Accounted(r.used, Tree(D, N)) /\ Tree(D, N)[i][s] # 0
              /\ \A b \in Blocks : b # Tree(D, N)[i][s] => E[b] = D[b]
          BY <2>1, <2>4, <3>1
        <4>2. r.used \in SUBSET Blocks /\ D \in DiskFun
          BY <1>7
        <4> HIDE DEF N, D, E
        <4>3. Tree(E, N) = Tree(D, N)
          BY <1>2, <1>3, <4>1, <4>2, WriteTree
        <4> QED BY <4>3 DEF N, D, E
      <3> QED BY <1>13, <3>2
    <2>6. Accounted(used', Tree(disk', inode'))
      BY <1>1, <1>6, <2>5
    <2>7. \A j \in FileInodes, k \in Slots :
            k # NDIRECT /\ A[j][k] # 0 /\ ~(j = i /\ k = s) => disk'[A[j][k]] = disk[A[j][k]]
      <3> SUFFICES ASSUME NEW j \in FileInodes, NEW k \in Slots,
                          k # NDIRECT, A[j][k] # 0, ~(j = i /\ k = s)
                   PROVE  disk'[A[j][k]] = disk[A[j][k]]
        OBVIOUS
      <3> HIDE DEF A, C
      <3>1. C[j][k] = A[j][k]
        BY <1>8
      <3>2. A[j][k] # x
        BY <1>2, <1>3, <1>6, <2>2, <3>1 DEF Accounted
      <3>3. A[j][k] \in Blocks
        BY <1>14 DEF DataTypeOK
      <3> QED BY <1>14, <2>4, <3>2, <3>3
    <2>8. \A k \in Cells : k \in TurnCells(p) => disk'[x][k] = wr[p].v
      BY <2>4 DEF z
    <2>9. \A k \in Cells : k \notin TurnCells(p) /\ A[i][s] # 0 => disk'[x][k] = disk[A[i][s]][k]
      <3> SUFFICES ASSUME NEW k \in Cells, k \notin TurnCells(p), A[i][s] # 0
                   PROVE  disk'[x][k] = disk[A[i][s]][k]
        OBVIOUS
      <3> HIDE DEF A, C
      <3>1. disk'[x][k] = r.disk[x][k]
        BY <2>4 DEF z
      <3>2. x = A[i][s]
        BY <1>2, <1>3, <1>8, <2>2
      <3>3. r.disk[A[i][s]] = disk[A[i][s]]
        BY <1>2, <1>3, <1>14
      <3> QED BY <3>1, <3>2, <3>3
    <2>10. \A j \in FileInodes : inode'[j].addrs[NDIRECT] # 0 =>
             disk'[inode'[j].addrs[NDIRECT]] = r.disk[inode'[j].addrs[NDIRECT]]
      <3> SUFFICES ASSUME NEW j \in FileInodes, inode'[j].addrs[NDIRECT] # 0
                   PROVE  disk'[inode'[j].addrs[NDIRECT]] = r.disk[inode'[j].addrs[NDIRECT]]
        OBVIOUS
      <3>1. NDIRECT \in Slots /\ C[j][NDIRECT] = inode'[j].addrs[NDIRECT]
        BY <1>13, DataAssumption DEF Tree, At, Slots, DataAssumption
      <3> HIDE DEF C
      <3>2. C[j][NDIRECT] # x /\ C[j][NDIRECT] \in Blocks
        BY <1>2, <1>3, <1>6, <1>7, <2>2, <3>1 DEF Accounted
      <3> QED BY <2>4, <3>1, <3>2
    <2> HIDE DEF A, C
    <2> QED BY <1>1, <1>7, <1>8, <1>11, <1>12, <1>16, <2>1, <2>2, <2>4, <2>5, <2>6,
               <2>7, <2>8, <2>9, <2>10 DEF A, i, s, r, x
  <1> QED BY <1>15, <1>16


\* A set grows by at most one with one more element.
LEMMA AddOne ==
  ASSUME NEW S, IsFiniteSet(S), NEW x
  PROVE  IsFiniteSet(S \cup {x}) /\ Cardinality(S \cup {x}) \in Nat /\ Cardinality(S \cup {x}) <= Cardinality(S) + 1
  <1>1. /\ IsFiniteSet(S \cup {x})
        /\ Cardinality(S \cup {x}) = IF x \in S THEN Cardinality(S) ELSE Cardinality(S) + 1
    BY FS_AddElement
  <1>2. Cardinality(S) \in Nat
    BY FS_CardinalityType
  <1> QED BY <1>1, <1>2

\* A turn logs at most a block of the file and its bit, besides what the
\* indirect block costs, and only the block when the file has it already.
LEMMA TurnLog ==
  ASSUME DataTypeOK, DataIInv, NEW p \in IoProcs, writei_turn(p)
  PROVE  /\ dirty' \in [IoProcs -> SUBSET LogBlocks] /\ IsFiniteSet(dirty'[p])
         /\ \A q \in IoProcs : q # p => dirty'[q] = dirty[q]
         /\ LET x == Cardinality(Spent(p))
                y == Cardinality(dirty'[p] \ Meta(inode'[Ino(p)]))
            IN  /\ x \in Nat /\ y \in Nat /\ y <= x + 2
                /\ Tree(disk, inode)[Ino(p)][TurnSlot(p)] # 0 => y <= x + 1
  <1> DEFINE A == Tree(disk, inode)
             i == Ino(p)
             s == TurnSlot(p)
             m == TurnMem(p)
             r == TurnMap(p)
             C == TreeOf(r, i, inode)
             L == dirty'[p]
             S == dirty[p] \ Meta(inode[i])
  <1>1. InLoop(p) /\ (Stopped(p) \/ Wrote(p))
    BY TurnSteps
  <1>2. /\ Sound(m, i, inode) /\ TreeOf(m, i, inode) = A
        /\ s \in Slots /\ Mapped(m, r, i, inode, s)
    BY <1>1, TurnSound
  <1>3. i \in FileInodes /\ inode'[i] = r.ino
    BY <1>1, InLoopType, TurnTree
  <1>4. m.log = dirty[p]
    BY DEF TurnMem
  <1> HIDE DEF m, r
  <1>5. PICK b : /\ r.log \subseteq dirty[p] \cup Meta(r.ino) \cup {BBLOCK(b), <<"block", b>>}
                 /\ b = r.addr
    BY <1>2, <1>4 DEF Mapped
  <1>6. A[i][s] # 0 => r.log = dirty[p]
    BY <1>2, <1>4 DEF Mapped
  <1>7. Sound(r, i, inode) /\ r \in Mem
    BY <1>2 DEF Mapped, Sound
  <1>8. r.log \in SUBSET LogBlocks /\ r.addr \in Nat
    BY <1>7, BlocksNat DEF Mem, LogBlocks
  <1>9. /\ dirty' = [dirty EXCEPT ![p] = L] /\ r.log \subseteq L
        /\ L \subseteq r.log \cup (IF r.addr = 0 THEN {} ELSE {<<"block", r.addr>>})
    <2>1. \/ dirty' = [dirty EXCEPT ![p] = r.log]
          \/ r.addr # 0 /\ dirty' = [dirty EXCEPT ![p] = r.log \cup {<<"block", r.addr>>}]
      BY <1>1 DEF Stopped, Wrote, r
    <2> QED BY <2>1 DEF DataTypeOK
  <1> HIDE DEF L
  <1>10. L \in SUBSET LogBlocks
    BY <1>8, <1>9 DEF LogBlocks
  <1>11. /\ dirty' \in [IoProcs -> SUBSET LogBlocks] /\ dirty'[p] = L
         /\ \A q \in IoProcs : q # p => dirty'[q] = dirty[q]
    BY <1>9, <1>10 DEF DataTypeOK
  <1>12. Meta(inode[i]) \subseteq Meta(r.ino)
    <2>1. A[i][NDIRECT] = inode[i].addrs[NDIRECT] /\ NDIRECT \in Slots
      BY <1>3, DataAssumption DEF Tree, At, Slots, DataAssumption
    <2>2. NDIRECT \in 0..NDIRECT
      BY DataAssumption DEF DataAssumption
    <2>3. C[i][NDIRECT] = r.ino.addrs[NDIRECT]
      BY <1>3, <1>7, <2>2, SlotDirect
    <2>4. A[i][NDIRECT] # 0 => C[i][NDIRECT] = A[i][NDIRECT]
      BY <1>2, <1>3, <2>1 DEF Mapped
    <2> HIDE DEF A, C
    <2> QED BY <2>1, <2>3, <2>4 DEF Meta
  <1> HIDE DEF Meta
  <1>13. IsFiniteSet(dirty[p]) /\ IsFiniteSet(S) /\ Cardinality(S) \in Nat
    <2>1. IsFiniteSet(dirty[p])
      BY DEF DataTypeOK
    <2>2. IsFiniteSet(S)
      BY <2>1, FS_Subset
    <2> QED BY <2>1, <2>2, FS_CardinalityType
  <1>14. L \ Meta(r.ino) \subseteq (S \cup {BBLOCK(b)}) \cup {<<"block", b>>}
    BY <1>5, <1>9, <1>12
  <1>15. /\ IsFiniteSet(L \ Meta(r.ino)) /\ Cardinality(L \ Meta(r.ino)) \in Nat
         /\ Cardinality(L \ Meta(r.ino)) <= Cardinality(S) + 2
    <2> DEFINE S1 == S \cup {BBLOCK(b)}
               S2 == S1 \cup {<<"block", b>>}
    <2>1. IsFiniteSet(S1) /\ Cardinality(S1) \in Nat /\ Cardinality(S1) <= Cardinality(S) + 1
      BY <1>13, AddOne
    <2> HIDE DEF S1, S
    <2>2. IsFiniteSet(S2) /\ Cardinality(S2) \in Nat /\ Cardinality(S2) <= Cardinality(S1) + 1
      BY <2>1, AddOne
    <2>3. L \ Meta(r.ino) \subseteq S2
      BY <1>14 DEF S1
    <2> HIDE DEF S2
    <2>4. /\ IsFiniteSet(L \ Meta(r.ino)) /\ Cardinality(L \ Meta(r.ino)) <= Cardinality(S2)
      BY <2>2, <2>3, FS_Subset
    <2>5. Cardinality(L \ Meta(r.ino)) \in Nat
      BY <2>4, FS_CardinalityType
    <2> QED BY <1>13, <2>1, <2>2, <2>4, <2>5 DEF S
  <1>16. A[i][s] # 0 => Cardinality(L \ Meta(r.ino)) <= Cardinality(S) + 1
    <2> SUFFICES ASSUME A[i][s] # 0
                 PROVE  Cardinality(L \ Meta(r.ino)) <= Cardinality(S) + 1
      OBVIOUS
    <2> DEFINE S1 == S \cup {<<"block", r.addr>>}
    <2>1. L \ Meta(r.ino) \subseteq S1
      BY <1>6, <1>9, <1>12
    <2>2. IsFiniteSet(S1) /\ Cardinality(S1) \in Nat /\ Cardinality(S1) <= Cardinality(S) + 1
      BY <1>13, AddOne
    <2> HIDE DEF S1, S
    <2>3. Cardinality(L \ Meta(r.ino)) <= Cardinality(S1)
      BY <2>1, <2>2, FS_Subset
    <2> QED BY <1>13, <1>15, <2>2, <2>3 DEF S
  <1>17. IsFiniteSet(L)
    <2> DEFINE T1 == dirty[p] \cup Meta(r.ino)
               T2 == T1 \cup {BBLOCK(b)}
               T3 == T2 \cup {<<"block", b>>}
    <2>1. IsFiniteSet(Meta(r.ino))
      <3> DEFINE ind == r.ino.addrs[NDIRECT]
      <3>1. IsFiniteSet({})
        BY FS_EmptySet
      <3>2. IsFiniteSet({} \cup {BBLOCK(ind)})
        BY <3>1, AddOne
      <3>3. IsFiniteSet({BBLOCK(ind)} \cup {<<"block", ind>>})
        BY <3>2, AddOne
      <3>4. {BBLOCK(ind)} \cup {<<"block", ind>>} = {BBLOCK(ind), <<"block", ind>>}
        OBVIOUS
      <3> QED BY <3>1, <3>3, <3>4 DEF Meta
    <2>2. IsFiniteSet(T1)
      BY <1>13, <2>1, FS_Union
    <2> HIDE DEF T1
    <2>3. IsFiniteSet(T2)
      BY <2>2, AddOne
    <2> HIDE DEF T2
    <2>4. IsFiniteSet(T3)
      BY <2>3, AddOne
    <2>5. L \subseteq T3
      BY <1>5, <1>9 DEF T1, T2
    <2> HIDE DEF T3
    <2> QED BY <2>4, <2>5, FS_Subset
  <1> QED BY <1>3, <1>11, <1>13, <1>15, <1>16, <1>17 DEF Spent


\* Two bytes of one block are as far apart as their places in it.
LEMMA Offsets ==
  ASSUME NEW o \in Nat, NEW k \in Nat, k \div BSIZE = o \div BSIZE
  PROVE  (k % BSIZE) - (o % BSIZE) = k - o /\ k % BSIZE \in Int /\ o % BSIZE \in Int
  <1> DEFINE d == o \div BSIZE
             r == o % BSIZE
             s == k % BSIZE
  <1>0. BSIZE \in Nat \ {0} /\ o \in Int /\ k \in Int
    BY DataAssumption DEF DataAssumption
  <1>1. d \in Int /\ o = BSIZE * d + r /\ r \in 0..BSIZE-1 /\ BSIZE * d \in Int
    BY <1>0, ModDiv, ModRange, Z3
  <1>2. k = BSIZE * (k \div BSIZE) + s /\ s \in 0..BSIZE-1
    BY <1>0, ModDiv, ModRange
  <1>3. k = BSIZE * d + s
    BY <1>2
  <1> HIDE DEF d, r, s
  <1>4. s - r = k - o /\ s \in Int /\ r \in Int
    BY <1>0, <1>1, <1>2, <1>3
  <1> QED BY <1>4 DEF r, s

LEMMA SlotsApart ==
  ASSUME NEW x \in Nat, NEW y \in Nat, SlotOf(x) = SlotOf(y)
  PROVE  x = y
  BY DataAssumption DEF DataAssumption, SlotOf

\* The bytes that a turn writes, and the others.
Written(p, j, k) == j = Ino(p) /\ wr[p].off <= k /\ k < wr[p].off + Got(p)

\* A turn changes the bytes it writes, all or the first of them, and no others,
\* and takes no block from a file.
LEMMA TurnBytes ==
  ASSUME DataTypeOK, DataIInv, NEW p \in IoProcs, writei_turn(p)
  PROVE  /\ \A j \in FileInodes, k \in 0..MaxBytes-1 : ByteBlock(j, k) # 0 \/ j # Ino(p)
              => ByteBlock(j, k)' = ByteBlock(j, k)
         /\ \A j \in FileInodes, k \in 0..MaxBytes-1 : ByteBlock(j, k) # 0 /\ ~Written(p, j, k)
              => disk'[ByteBlock(j, k)][k % BSIZE] = disk[ByteBlock(j, k)][k % BSIZE]
         /\ \A j \in FileInodes, k \in 0..MaxBytes-1 : Written(p, j, k)
              => /\ ByteBlock(j, k)' # 0 /\ ByteBlock(j, k)' = TurnMap(p).addr
                 /\ disk'[ByteBlock(j, k)'][k % BSIZE] = wr[p].v
  <1> DEFINE A == Tree(disk, inode)
             B == Tree(disk', inode')
             i == Ino(p)
             s == TurnSlot(p)
             o == wr[p].off
             n == Got(p)
  <1>1. /\ InLoop(p) /\ (n > 0 => TurnMap(p).addr # 0)
        /\ i \in FileInodes /\ o \in Nat /\ n \in Nat /\ n <= BSIZE - (o % BSIZE)
        /\ o \div BSIZE \in Nat /\ o % BSIZE \in Nat /\ s \in Slots /\ s # NDIRECT
    <2>1. InLoop(p) /\ n \in 0..TurnLen(p) /\ (TurnMap(p).addr = 0 => n = 0)
      BY TurnSteps DEF Reach
    <2>2. i \in FileInodes /\ o \in Nat /\ o < MaxBytes
      BY <2>1, InLoopType
    <2>3. o \div BSIZE \in 0..MAXFILE-1 /\ o % BSIZE \in 0..BSIZE-1
      BY <2>2, BlockOfByte
    <2>4. o \div BSIZE \in Nat /\ o % BSIZE \in Nat
      BY <2>3
    <2>5. n \in Nat /\ n <= BSIZE - (o % BSIZE)
      <3>1. TurnLen(p) \in Nat /\ TurnLen(p) <= BSIZE - (o % BSIZE)
        BY <2>1, TurnLenType
      <3>2. BSIZE \in Nat
        BY DataAssumption DEF DataAssumption
      <3> HIDE DEF n, o
      <3> QED BY <2>1, <2>4, <3>1, <3>2
    <2> HIDE DEF n
    <2> QED BY <2>1, <2>2, <2>4, <2>5, TurnSound
  <1>2. /\ \A j \in FileInodes, k \in Slots : A[j][k] # 0 \/ j # i => B[j][k] = A[j][k]
        /\ \A j \in FileInodes, k \in Slots :
             k # NDIRECT /\ A[j][k] # 0 /\ ~(j = i /\ k = s) => disk'[A[j][k]] = disk[A[j][k]]
        /\ A[i][s] # 0 => TurnMap(p).addr # 0
        /\ TurnMap(p).addr # 0 =>
             /\ B[i][s] # 0 /\ B[i][s] = TurnMap(p).addr
             /\ \A k \in Cells : k \in TurnCells(p) => disk'[B[i][s]][k] = wr[p].v
             /\ \A k \in Cells : k \notin TurnCells(p) /\ A[i][s] # 0
                  => disk'[B[i][s]][k] = disk[A[i][s]][k]
    BY TurnTree
  <1>3. \A j, k : ByteBlock(j, k) = A[j][SlotOf(k \div BSIZE)] /\ ByteBlock(j, k)' = B[j][SlotOf(k \div BSIZE)]
    BY DEF ByteBlock
  <1>4. \A k \in 0..MaxBytes-1 : /\ k \in Nat /\ k \div BSIZE \in Nat /\ k % BSIZE \in Cells
                                 /\ SlotOf(k \div BSIZE) \in Slots /\ SlotOf(k \div BSIZE) # NDIRECT
    <2> TAKE k \in 0..MaxBytes-1
    <2>1. k \in Nat /\ k < MaxBytes
      BY MaxBytesNat
    <2>2. /\ k \div BSIZE \in 0..MAXFILE-1 /\ k % BSIZE \in Cells
          /\ SlotOf(k \div BSIZE) \in Slots /\ SlotOf(k \div BSIZE) # NDIRECT
      BY <2>1, BlockOfByte
    <2>3. k \div BSIZE \in Nat
      BY <2>2
    <2> QED BY <2>1, <2>2, <2>3
  <1>5. TurnCells(p) = (o % BSIZE)..((o % BSIZE) + n - 1)
    BY DEF TurnCells
  <1>6. s = SlotOf(o \div BSIZE)
    BY DEF TurnSlot
  <1> HIDE DEF A, B, i, s, o, n
  <1>7. \A j \in FileInodes, k \in 0..MaxBytes-1 : ByteBlock(j, k) # 0 \/ j # i
              => ByteBlock(j, k)' = ByteBlock(j, k)
    BY <1>2, <1>3, <1>4
  <1>8. ASSUME NEW j \in FileInodes, NEW k \in 0..MaxBytes-1, j = i, o <= k, k < o + n
        PROVE  /\ ByteBlock(j, k)' # 0 /\ ByteBlock(j, k)' = TurnMap(p).addr
               /\ disk'[ByteBlock(j, k)'][k % BSIZE] = wr[p].v
    <2> DEFINE e == o % BSIZE
               x == k % BSIZE
    <2>1. k \in Nat /\ x \in Cells
      BY <1>4
    <2>2. e \in Nat /\ n <= BSIZE - e
      BY <1>1
    <2>3. k < o + (BSIZE - e)
      <3> HIDE DEF e
      <3> QED BY <1>1, <1>8, <2>1, <2>2, DataAssumption DEF DataAssumption
    <2>4. k \div BSIZE = o \div BSIZE /\ x = e + (k - o)
      BY <1>1, <1>8, <2>1, <2>3, SameBlock
    <2>5. x \in TurnCells(p)
      <3> HIDE DEF e, x
      <3>1. x \in e..(e + n - 1)
        BY <1>1, <1>8, <2>1, <2>2, <2>4
      <3> QED BY <1>5, <3>1 DEF e
    <2> HIDE DEF x
    <2>6. ByteBlock(j, k)' = B[i][s]
      BY <1>3, <1>6, <1>8, <2>4
    <2>7. TurnMap(p).addr # 0
      BY <1>1, <1>8, <2>1
    <2>8. disk'[B[i][s]][x] = wr[p].v /\ B[i][s] # 0 /\ B[i][s] = TurnMap(p).addr
      BY <1>2, <2>1, <2>5, <2>7
    <2> QED BY <2>6, <2>8 DEF x
  <1>9. ASSUME NEW j \in FileInodes, NEW k \in 0..MaxBytes-1, ByteBlock(j, k) # 0,
               ~(j = i /\ o <= k /\ k < o + n)
        PROVE  disk'[ByteBlock(j, k)][k % BSIZE] = disk[ByteBlock(j, k)][k % BSIZE]
    <2> DEFINE t == SlotOf(k \div BSIZE)
               x == k % BSIZE
    <2>1. /\ ByteBlock(j, k) = A[j][t] /\ A[j][t] # 0 /\ t \in Slots /\ t # NDIRECT
          /\ k \in Nat /\ k \div BSIZE \in Nat /\ x \in Cells
      BY <1>3, <1>4, <1>9
    <2>2. CASE ~(j = i /\ t = s)
      <3> HIDE DEF t
      <3>1. disk'[A[j][t]] = disk[A[j][t]]
        BY <1>2, <2>1, <2>2
      <3> QED BY <2>1, <3>1
    <2>3. CASE j = i /\ t = s
      <3>1. k \div BSIZE = o \div BSIZE
        BY <1>1, <1>6, <2>1, <2>3, SlotsApart
      <3> DEFINE e == o % BSIZE
      <3>2. x - e = k - o /\ x \in Int /\ e \in Int
        BY <1>1, <2>1, <3>1, Offsets
      <3>3. x \notin TurnCells(p)
        <4> HIDE DEF e, x
        <4>1. x \notin e..(e + n - 1)
          BY <1>1, <1>9, <2>1, <2>3, <3>2
        <4> QED BY <1>5, <4>1 DEF e
      <3> HIDE DEF t, x
      <3>4. B[i][s] = A[i][s] /\ A[i][s] # 0
        BY <1>1, <1>2, <2>1, <2>3
      <3>5. disk'[A[i][s]][x] = disk[A[i][s]][x]
        BY <1>2, <2>1, <2>3, <3>3, <3>4
      <3> QED BY <2>1, <2>3, <3>5 DEF x
    <2> QED BY <2>2, <2>3
  <1> QED BY <1>7, <1>8, <1>9 DEF Written, i, o, n


\* What a turn does to the call.
LEMMA TurnCall ==
  ASSUME DataTypeOK, DataIInv, NEW p \in IoProcs, writei_turn(p)
  PROVE  LET c == wr[p]
             d == wr'[p]
         IN  /\ wr' \in [IoProcs -> Call] /\ \A q \in IoProcs : q # p => wr'[q] = wr[q]
             /\ d.f = c.f /\ d.v = c.v /\ d.n = c.n /\ d.i = c.i /\ d.n1 = c.n1
             /\ Ino(p)' = Ino(p) /\ Busy(p) /\ Busy(p)'
             /\ Stopped(p) => d.pc = "end" /\ d.off = c.off /\ d.tot = c.tot
             /\ Wrote(p) => d.pc = "loop" /\ d.off = c.off + TurnLen(p) /\ d.tot = c.tot + TurnLen(p)
  <1> DEFINE c == wr[p]
             x == c.tot + TurnLen(p)
             y == c.off + TurnLen(p)
             e == [c EXCEPT !.pc = "end"]
             g == [c EXCEPT !.tot = x, !.off = y]
  <1>1. InLoop(p) /\ (Stopped(p) \/ Wrote(p))
    BY TurnSteps
  <1>2. Busy(p) /\ c \in Call /\ x \in Nat /\ y \in Nat /\ c.pc = "loop"
    BY <1>1, InLoopType, TurnLenType DEF InLoop
  <1>3. wr' = [wr EXCEPT ![p] = e] \/ wr' = [wr EXCEPT ![p] = g]
    BY <1>1 DEF Stopped, Wrote
  <1>4. Stopped(p) => wr' = [wr EXCEPT ![p] = e]
    BY DEF Stopped
  <1>5. Wrote(p) => wr' = [wr EXCEPT ![p] = g]
    BY DEF Wrote
  <1>6. wr \in [IoProcs -> Call]
    BY DEF DataTypeOK
  <1> HIDE DEF x, y
  <1>7. /\ e \in Call /\ e.pc = "end" /\ e.f = c.f /\ e.v = c.v /\ e.n = c.n /\ e.i = c.i /\ e.n1 = c.n1
        /\ e.off = c.off /\ e.tot = c.tot
    <2> HIDE DEF c
    <2> QED BY <1>2 DEF Call
  <1>8. /\ g \in Call /\ g.pc = "loop" /\ g.f = c.f /\ g.v = c.v /\ g.n = c.n /\ g.i = c.i /\ g.n1 = c.n1
        /\ g.off = y /\ g.tot = x
    <2> HIDE DEF c
    <2> QED BY <1>2 DEF Call
  <1> HIDE DEF c, e, g
  <1>9. /\ wr' \in [IoProcs -> Call] /\ \A q \in IoProcs : q # p => wr'[q] = wr[q]
        /\ wr'[p] = e \/ wr'[p] = g
    BY <1>3, <1>6, <1>7, <1>8
  <1>10. (Stopped(p) => wr'[p] = e) /\ (Wrote(p) => wr'[p] = g)
    BY <1>4, <1>5, <1>6
  <1>11. Busy(p)' /\ Ino(p)' = Ino(p)
    BY <1>7, <1>8, <1>9 DEF Busy, Ino, c
  <1> QED BY <1>2, <1>7, <1>8, <1>9, <1>10, <1>11 DEF c, x, y

\* Other processes do not notice.
LEMMA TurnOthers ==
  ASSUME DataTypeOK, DataIInv, NEW p \in IoProcs, writei_turn(p), NEW q \in IoProcs, q # p
  PROVE  /\ wr'[q] = wr[q] /\ Busy(q)' = Busy(q) /\ Ino(q)' = Ino(q)
         /\ dirty'[q] = dirty[q]
         /\ Busy(q) => Ino(q) \in FileInodes /\ Ino(q) # Ino(p) /\ inode'[Ino(q)] = inode[Ino(q)]
  <1>1. wr'[q] = wr[q] /\ dirty'[q] = dirty[q] /\ Busy(p)
    BY TurnCall, TurnLog
  <1>2. Busy(q)' = Busy(q) /\ Ino(q)' = Ino(q)
    BY <1>1 DEF Busy, Ino
  <1>3. Busy(q) => Ino(q) \in FileInodes /\ Ino(q) # Ino(p)
    BY <1>1, BusyApart
  <1>4. \A j \in FileInodes : j # Ino(p) => inode'[j] = inode[j]
    BY TurnTree
  <1> QED BY <1>1, <1>2, <1>3, <1>4


\* What a turn saves: blocks of its own file, and what it has written unless
\* it fails.
LEMMA TurnSaved ==
  ASSUME DataTypeOK, DataIInv, NEW p \in IoProcs, writei_turn(p)
  PROVE  /\ home' \in DiskFun
         /\ \A x \in Blocks : home'[x] = home[x] \/ home'[x] = disk'[x]
         /\ \A j \in FileInodes, k \in Slots :
              Tree(disk, inode)[j][k] # 0 /\ j # Ino(p)
                => home'[Tree(disk, inode)[j][k]] = home[Tree(disk, inode)[j][k]]
         /\ Wrote(p) => home'[TurnMap(p).addr] = disk'[TurnMap(p).addr]
         /\ SavedInv'
  <1> DEFINE A == Tree(disk, inode)
             B == Tree(disk', inode')
             i == Ino(p)
             s == TurnSlot(p)
             m == TurnMem(p)
             r == TurnMap(p)
             D == dirty'[p]
  <1>0. PICK L \in {D, D \cup {<<"block", r.addr>>}} :
          home' = [x \in Blocks |-> IF <<"block", x>> \in L THEN disk'[x] ELSE home[x]]
    BY TurnSteps
  <1>1. /\ InLoop(p) /\ (Stopped(p) \/ Wrote(p))
        /\ home' = [x \in Blocks |-> IF <<"block", x>> \in L THEN disk'[x] ELSE home[x]]
    BY <1>0, TurnSteps
  <1>2. /\ Mapped(m, r, i, inode, s) /\ Logged(m, r) /\ s \in Slots
    BY <1>1, TurnSound
  <1>3. m.log = dirty[p] /\ m.disk = disk /\ m.ino = inode[i]
    BY DEF TurnMem
  <1>4. /\ i \in FileInodes /\ used' \in SUBSET Blocks /\ disk' \in DiskFun
        /\ inode' \in [FileInodes -> InodeRec]
        /\ \A j \in FileInodes : j # i => inode'[j] = inode[j]
        /\ inode'[i] = r.ino /\ Accounted(used', B)
        /\ \A j \in FileInodes, k \in Slots : A[j][k] # 0 \/ j # i => B[j][k] = A[j][k]
        /\ r.addr # 0 => B[i][s] = r.addr
        /\ \A j \in FileInodes : inode'[j].addrs[NDIRECT] # 0 =>
             disk'[inode'[j].addrs[NDIRECT]] = r.disk[inode'[j].addrs[NDIRECT]]
    BY <1>1, InLoopType, TurnTree
  <1>5. r.log \subseteq L /\ L \subseteq r.log \cup {<<"block", r.addr>>} /\ r.addr \in 0..NB
        /\ (Wrote(p) => r.addr # 0 /\ <<"block", r.addr>> \in L)
    <2>1. r \in Mem
      BY <1>2 DEF Mapped, Sound
    <2>2. (Stopped(p) => D = r.log) /\ (Wrote(p) => r.addr # 0 /\ D = r.log \cup {<<"block", r.addr>>})
      BY DEF Stopped, Wrote, DataTypeOK
    <2>3. ~(Stopped(p) /\ Wrote(p))
      BY <1>1, StoppedOrWrote
    <2> HIDE DEF D, r
    <2> QED BY <1>0, <1>1, <2>1, <2>2, <2>3 DEF Mem
  <1>6. r.log \subseteq dirty[p] \cup Meta(r.ino) \cup {BBLOCK(r.addr), <<"block", r.addr>>}
    BY <1>2, <1>3 DEF Mapped
  <1>7. /\ \A x \in Blocks : <<"block", x>> \notin r.log => r.disk[x] = disk[x]
        /\ r.ino.addrs[NDIRECT] = inode[i].addrs[NDIRECT] \/ <<"block", r.ino.addrs[NDIRECT]>> \in r.log
    BY <1>2, <1>3 DEF Logged, Indirect
  <1>8. home \in DiskFun /\ AccountInv /\ SavedInv
    BY DEF DataTypeOK, DataIInv
  <1>9. NDIRECT \in Slots /\ NDIRECT \in Nat
    BY DataAssumption DEF DataAssumption, Slots
  <1>10. \A j \in FileInodes : B[j][NDIRECT] = inode'[j].addrs[NDIRECT]
    BY <1>9 DEF Tree, At
  <1>11. Accounted(used, A)
    BY <1>8 DEF AccountInv
  <1> HIDE DEF A, B, i, s, m, r, D
  <1>12. home' \in DiskFun /\ \A x \in Blocks : home'[x] = home[x] \/ home'[x] = disk'[x]
    BY <1>1, <1>4, <1>8 DEF DiskFun
  <1>13. Wrote(p) => home'[r.addr] = disk'[r.addr]
    <2>1. r.addr # 0 => r.addr \in Blocks
      BY <1>5, DataAssumption DEF Blocks, DataAssumption
    <2> QED BY <1>1, <1>5, <2>1
  \* The blocks in the log hang from the inode.
  <1>14. ASSUME NEW x \in Blocks, <<"block", x>> \in L
         PROVE  \E k \in Slots : B[i][k] = x
    <2>0. x # 0
      BY BlocksNat
    <2>1. CASE x = r.addr
      BY <1>2, <1>4, <2>0, <2>1
    <2>2. CASE <<"block", x>> \in Meta(r.ino)
      <3>1. x = r.ino.addrs[NDIRECT]
        BY <2>2 DEF Meta, BBLOCK
      <3> QED BY <1>4, <1>9, <1>10, <3>1
    <2>3. CASE <<"block", x>> \in dirty[p]
      <3>1. PICK k \in Slots : A[i][k] = x
        BY <1>8, <2>3 DEF SavedInv, Holds, A, i
      <3> QED BY <1>4, <2>0, <3>1
    <2>4. <<"block", x>> # BBLOCK(r.addr)
      BY DEF BBLOCK
    <2> QED BY <1>5, <1>6, <1>14, <2>1, <2>2, <2>3, <2>4
  <1>15. ASSUME NEW j \in FileInodes, NEW k \in Slots, A[j][k] # 0, j # i
         PROVE  home'[A[j][k]] = home[A[j][k]]
    <2>1. A[j][k] \in Blocks /\ B[j][k] = A[j][k]
      BY <1>4, <1>11, <1>15 DEF Accounted, DataTypeOK
    <2>2. <<"block", A[j][k]>> \notin L
      BY <1>4, <1>14, <1>15, <2>1 DEF Accounted
    <2> QED BY <1>1, <2>1, <2>2
  <1>16. ASSUME NEW j \in FileInodes, inode'[j].addrs[NDIRECT] # 0
         PROVE  home'[inode'[j].addrs[NDIRECT]] = disk'[inode'[j].addrs[NDIRECT]]
    <2> DEFINE ind == inode'[j].addrs[NDIRECT]
    <2>1. ind \in Blocks
      BY <1>4, <1>9, <1>10, <1>16 DEF Accounted
    <2>2. CASE <<"block", ind>> \in L
      BY <1>1, <2>1, <2>2
    <2>3. CASE <<"block", ind>> \notin L
      <3>1. home'[ind] = home[ind] /\ disk'[ind] = disk[ind]
        BY <1>1, <1>4, <1>5, <1>7, <1>16, <2>1, <2>3
      <3>2. ind = inode[j].addrs[NDIRECT]
        BY <1>4, <1>5, <1>7, <2>3
      <3> QED BY <1>8, <1>16, <3>1, <3>2 DEF SavedInv
    <2> QED BY <2>2, <2>3
  <1>17. ASSUME NEW q \in IoProcs, NEW x \in Blocks, <<"block", x>> \in dirty'[q]
         PROVE  \E k \in Slots : B[Ino(q)'][k] = x
    <2>1. CASE q = p
      <3>1. Ino(q)' = i
        BY <2>1, TurnCall DEF i
      <3>2. <<"block", x>> \in L
        BY <1>0, <1>17, <2>1 DEF D
      <3> QED BY <1>14, <3>1, <3>2
    <2>2. CASE q # p
      <3>1. dirty'[q] = dirty[q] /\ Ino(q)' = Ino(q) /\ (Busy(q) => Ino(q) \in FileInodes /\ Ino(q) # i)
        BY <2>2, TurnOthers DEF i
      <3>2. Busy(q)
        BY <1>17, <3>1 DEF DataIInv, BudgetInv, Budget
      <3>3. PICK k \in Slots : A[Ino(q)][k] = x
        BY <1>8, <1>17, <3>1 DEF SavedInv, Holds, A
      <3> QED BY <1>4, <3>1, <3>2, <3>3
    <2> QED BY <2>1, <2>2
  <1>18. SavedInv'
    BY <1>16, <1>17 DEF SavedInv, Holds, B
  <1> QED BY <1>12, <1>13, <1>15, <1>18 DEF A, i, r

\* What a piece says, with its inode as a constant.
PieceAt(c, start, size, j) ==
  /\ start <= size /\ c.off = start + c.tot
  /\ c.tot <= c.n1 /\ start + c.n1 <= MaxBytes /\ c.n1 <= BSIZE * Room
  /\ \A k \in 0..c.off-1 : ByteBlock(j, k) # 0
  /\ \A k \in start..c.off-1 : /\ disk[ByteBlock(j, k)][k % BSIZE] = c.v
                              /\ home[ByteBlock(j, k)][k % BSIZE] = c.v

\* A byte that has a block has one of the disk.
LEMMA ByteBlockType ==
  ASSUME DataTypeOK, DataIInv, NEW j \in FileInodes, NEW k \in 0..MaxBytes-1, ByteBlock(j, k) # 0
  PROVE  /\ ByteBlock(j, k) \in Blocks /\ SlotOf(k \div BSIZE) \in Slots
         /\ SlotOf(k \div BSIZE) # NDIRECT
  <1>1. SlotOf(k \div BSIZE) \in Slots /\ SlotOf(k \div BSIZE) # NDIRECT
    BY MaxBytesNat, BlockOfByte
  <1>2. Accounted(used, Tree(disk, inode)) /\ used \in SUBSET Blocks
    BY DEF DataTypeOK, DataIInv, AccountInv
  <1> QED BY <1>1, <1>2 DEF Accounted, ByteBlock

LEMMA TurnPieces ==
  ASSUME DataTypeOK, DataIInv, NEW p \in IoProcs, writei_turn(p)
  PROVE  PieceInv'
  <1> SUFFICES ASSUME NEW q \in IoProcs, Busy(q)'
               PROVE  Piece(q)'
    BY DEF PieceInv
  <1>1. Busy(q) /\ Ino(q)' = Ino(q) /\ wr'[q].f = wr[q].f
    BY TurnCall, TurnOthers
  <1>2. /\ wr[q] \in Call /\ wr'[q] \in Call /\ wr[q].f \in OpenFiles /\ Ino(q) \in FileInodes
        /\ off[wr[q].f] \in Nat /\ inode[Ino(q)].size \in Nat
    <2>1. wr[q].f \in OpenFiles /\ wr[q] \in Call /\ wr'[q] \in Call
      BY <1>1, TurnCall DEF DataTypeOK, DataIInv, CallInv, Busy
    <2>2. Ino(q) \in FileInodes
      BY <2>1, DataAssumption DEF Ino, DataAssumption
    <2> QED BY <2>1, <2>2 DEF DataTypeOK, InodeRec
  <1>3. PICK j \in FileInodes : j = Ino(q)
    BY <1>2
  <1>4. PICK start \in Nat : start = off[wr[q].f]
    BY <1>2
  <1>5. PICK size \in Nat : size = inode[j].size
    BY <1>2, <1>3
  <1>6. off'[wr'[q].f] = start /\ inode'[j].size = size /\ Ino(q)' = j
    BY <1>1, <1>3, <1>4, <1>5, TurnSteps, TurnTree
  <1>7. PieceAt(wr[q], start, size, j)
    <2>1. Piece(q)
      BY <1>1 DEF DataIInv, PieceInv
    <2> QED BY <1>3, <1>4, <1>5, <2>1 DEF Piece, PieceAt
  <1> DEFINE c == wr[q]
             d == wr'[q]
  <1>8. /\ start <= size /\ c.off = start + c.tot /\ c.tot <= c.n1 /\ start + c.n1 <= MaxBytes
        /\ c.n1 <= BSIZE * Room /\ c.off \in Nat /\ c.tot \in Nat /\ c.n1 \in Nat
        /\ d.off \in Nat /\ d.tot \in Nat
        /\ \A k \in 0..c.off-1 : ByteBlock(j, k) # 0
        /\ \A k \in start..c.off-1 : /\ disk[ByteBlock(j, k)][k % BSIZE] = c.v
                                    /\ home[ByteBlock(j, k)][k % BSIZE] = c.v
    BY <1>2, <1>7 DEF PieceAt, Call
  <1>9. /\ d.n1 = c.n1 /\ d.v = c.v /\ d.off = start + d.tot /\ d.tot <= d.n1 /\ c.off <= d.off
        /\ d.off \in 0..MaxBytes
        /\ \A k \in c.off..d.off-1 : Written(p, j, k) /\ Wrote(p)
        /\ \A k \in 0..c.off-1 : ~Written(p, j, k)
    <2>1. CASE q # p
      <3>1. d = c /\ j # Ino(p)
        BY <1>1, <1>3, <2>1, TurnOthers
      <3> QED BY <1>8, <3>1, MaxBytesNat DEF Written
    <2>2. CASE q = p
      <3>1. /\ d.n1 = c.n1 /\ d.v = c.v /\ j = Ino(p) /\ InLoop(p)
            /\ Stopped(p) => d.off = c.off /\ d.tot = c.tot
            /\ Wrote(p) => d.off = c.off + TurnLen(p) /\ d.tot = c.tot + TurnLen(p)
            /\ Stopped(p) \/ Wrote(p)
        BY <1>3, <2>2, TurnCall, TurnSteps
      <3>2. TurnLen(p) \in Nat /\ TurnLen(p) <= c.n1 - c.tot
        BY <2>2, <3>1, TurnLenType
      <3>3. /\ \A k : Written(p, j, k) <=> c.off <= k /\ k < c.off + Got(p)
            /\ Wrote(p) => Got(p) = TurnLen(p)
        BY <2>2, <3>1, TurnSteps DEF Written, Reach
      <3> HIDE DEF c, d
      <3>4. CASE Stopped(p) /\ ~Wrote(p)
        BY <1>8, <3>1, <3>3, <3>4, MaxBytesNat
      <3>5. CASE Wrote(p)
        BY <1>8, <3>1, <3>2, <3>3, <3>5, MaxBytesNat
      <3> QED BY <3>1, <3>4, <3>5
    <2> QED BY <2>1, <2>2
  <1>10. ASSUME NEW k \in 0..d.off-1
         PROVE  ByteBlock(j, k)' # 0
    <2>1. k \in 0..MaxBytes-1
      BY <1>9, MaxBytesNat
    <2>2. k \in 0..c.off-1 \/ k \in c.off..d.off-1
      BY <1>8, <1>9
    <2> QED BY <1>8, <1>9, <2>1, <2>2, TurnBytes
  <1>11. ASSUME NEW k \in start..d.off-1
         PROVE  /\ disk'[ByteBlock(j, k)'][k % BSIZE] = d.v
                /\ home'[ByteBlock(j, k)'][k % BSIZE] = d.v
    <2>1. k \in 0..MaxBytes-1
      BY <1>9, MaxBytesNat
    <2>2. CASE k \in start..c.off-1
      <3>1. k \in 0..c.off-1
        BY <2>2
      <3>2. /\ ByteBlock(j, k) # 0 /\ ~Written(p, j, k) /\ disk[ByteBlock(j, k)][k % BSIZE] = c.v
            /\ home[ByteBlock(j, k)][k % BSIZE] = c.v
        BY <1>8, <1>9, <2>2, <3>1
      <3>3. ByteBlock(j, k)' = ByteBlock(j, k) /\ disk'[ByteBlock(j, k)][k % BSIZE] = c.v
        BY <2>1, <3>2, TurnBytes
      <3>4. ByteBlock(j, k) \in Blocks
        BY <2>1, <3>2, ByteBlockType
      <3>5. home'[ByteBlock(j, k)] = home[ByteBlock(j, k)] \/ home'[ByteBlock(j, k)] = disk'[ByteBlock(j, k)]
        BY <3>4, TurnSaved
      <3> QED BY <1>9, <3>2, <3>3, <3>5
    <2>3. CASE k \in c.off..d.off-1
      <3>1. Written(p, j, k)
        BY <1>9, <2>3
      <3>2. /\ disk'[ByteBlock(j, k)'][k % BSIZE] = wr[p].v
            /\ home'[ByteBlock(j, k)'] = disk'[ByteBlock(j, k)']
        BY <1>9, <2>1, <2>3, <3>1, TurnBytes, TurnSaved
      <3>3. j = Ino(p)
        BY <3>1 DEF Written
      <3>4. q = p
        BY <1>1, <1>3, <3>3, TurnOthers
      <3> QED BY <1>9, <3>2, <3>4
    <2>4. k \in start..c.off-1 \/ k \in c.off..d.off-1
      BY <1>8, <1>9
    <2> QED BY <2>2, <2>3, <2>4
  <1>12. PieceAt(wr[q], start, size, j)'
    <2> HIDE DEF c
    <2>1. c.n1 = d.n1 /\ start' = start /\ size' = size /\ j' = j
      BY <1>9
    <2> QED BY <1>8, <1>9, <1>10, <1>11, <2>1 DEF PieceAt
  <1> QED BY <1>6, <1>12 DEF PieceAt, Piece

LEMMA TurnSizes ==
  ASSUME DataTypeOK, DataIInv, NEW p \in IoProcs, writei_turn(p)
  PROVE  SizeInv'
  <1>1. off' = off /\ \A j \in FileInodes : inode'[j].size = inode[j].size
    BY TurnSteps, TurnTree
  <1>2. ASSUME NEW j \in FileInodes
        PROVE  /\ inode'[j].size <= MaxBytes
               /\ \A k \in 0..inode'[j].size-1 : ByteBlock(j, k)' # 0
    <2>1. /\ inode[j].size <= MaxBytes /\ inode[j].size \in Nat
          /\ \A k \in 0..inode[j].size-1 : ByteBlock(j, k) # 0
      BY DEF DataIInv, SizeInv, DataTypeOK, InodeRec
    <2>2. \A k \in 0..inode[j].size-1 : k \in 0..MaxBytes-1
      BY <2>1, MaxBytesNat
    <2> QED BY <1>1, <2>1, <2>2, TurnBytes
  <1>3. \A f \in OpenFiles : off'[f] <= MaxBytes
    BY <1>1 DEF DataIInv, SizeInv
  <1> QED BY <1>2, <1>3 DEF SizeInv


\* A piece of Room whole blocks that starts in block b, with r bytes before
\* it, does not go on behind block b + Room.
LEMMA PieceBlocks ==
  ASSUME NEW start \in Nat, NEW o \in Nat, o % BSIZE = 0, o < start + (BSIZE * Room)
  PROVE  /\ o \div BSIZE \in Int /\ start \div BSIZE \in Int
         /\ start % BSIZE = 0 => o \div BSIZE <= (start \div BSIZE) + Room - 1
         /\ start % BSIZE # 0 => o \div BSIZE <= (start \div BSIZE) + Room
  <1>0. BSIZE \in Nat \ {0} /\ o \in Int /\ start \in Int /\ Room \in Nat /\ BSIZE * Room \in Nat
    BY DataAssumption, RoomFits DEF DataAssumption
  <1> DEFINE q == o \div BSIZE
             b == start \div BSIZE
             r == start % BSIZE
  <1>1. q \in Int /\ o = BSIZE * q + (o % BSIZE) /\ BSIZE * q \in Int
    BY <1>0, ModDiv, Z3
  <1>2. o = BSIZE * q
    BY <1>1
  <1>3. b \in Int /\ start = BSIZE * b + r /\ r \in 0..BSIZE-1 /\ BSIZE * b \in Int
    BY <1>0, ModDiv, ModRange, Z3
  <1> HIDE DEF q, b, r
  <1>4. /\ BSIZE * (b + Room) = BSIZE * b + BSIZE * Room
        /\ BSIZE * (b + Room - 1) = BSIZE * b + BSIZE * Room - BSIZE
    BY <1>0, <1>3, Z3
  <1>5. q <= b + Room
    <2>1. BSIZE * q < BSIZE * (b + Room) + BSIZE
      BY <1>0, <1>1, <1>2, <1>3, <1>4
    <2>2. b + Room \in Int
      BY <1>0, <1>3
    <2> QED BY <1>0, <1>1, <2>1, <2>2, Multiples
  <1>6. r = 0 => q <= b + Room - 1
    <2> SUFFICES ASSUME r = 0
                 PROVE  q <= b + Room - 1
      OBVIOUS
    <2>1. BSIZE * q < BSIZE * (b + Room - 1) + BSIZE
      BY <1>0, <1>1, <1>2, <1>3, <1>4
    <2>2. b + Room - 1 \in Int
      BY <1>0, <1>3
    <2> QED BY <1>0, <1>1, <2>1, <2>2, Multiples
  <1> QED BY <1>1, <1>3, <1>5, <1>6 DEF q, b, r

\* The byte before one in the middle of a block is in the same block.
LEMMA ByteBefore ==
  ASSUME NEW o \in Nat, o % BSIZE # 0
  PROVE  o >= 1 /\ (o - 1) \div BSIZE = o \div BSIZE
  <1>0. BSIZE \in Nat \ {0} /\ o \in Int
    BY DataAssumption DEF DataAssumption
  <1> DEFINE d == o \div BSIZE
             r == o % BSIZE
             s == r - 1
             k == o - 1
  <1>1. d \in Int /\ o = BSIZE * d + r /\ r \in 0..BSIZE-1 /\ r # 0 /\ BSIZE * d \in Int
    BY <1>0, ModDiv, ModRange, Z3
  <1>2. o # 0
    <2>1. 0 % BSIZE = 0
      BY <1>0, ModBelow
    <2> QED BY <2>1
  <1> HIDE DEF d, r
  <1>3. k \in Int /\ k = BSIZE * d + s /\ s \in 0..BSIZE-1
    BY <1>0, <1>1
  <1> HIDE DEF k, s
  <1>4. k \div BSIZE = d
    BY <1>0, <1>1, <1>3, DivUnique
  <1> QED BY <1>2, <1>4 DEF k, d


\* A turn pays for its block out of the room of the piece.
LEMMA TurnPays ==
  ASSUME DataTypeOK, DataIInv, NEW p \in IoProcs, writei_turn(p)
  PROVE  LET c == wr[p]
             start == off[c.f]
             u == IF start % BSIZE = 0 THEN 0 ELSE 1
             y == Cardinality(dirty'[p] \ Meta(inode'[Ino(p)]))
         IN  /\ y <= MAXOPBLOCKS - 3
             /\ y <= 2 * (((c.off \div BSIZE) + 1) - (start \div BSIZE)) - u
  <1> DEFINE c == wr[p]
             start == off[c.f]
             u == IF start % BSIZE = 0 THEN 0 ELSE 1
             x == Cardinality(Spent(p))
             y == Cardinality(dirty'[p] \ Meta(inode'[Ino(p)]))
             q == c.off \div BSIZE
             b == start \div BSIZE
             i == Ino(p)
  <1>1. InLoop(p)
    BY TurnSteps
  <1>2. /\ Busy(p) /\ i \in FileInodes /\ c.off \in Nat /\ c.tot \in Nat /\ c.n1 \in Nat /\ start \in Nat
        /\ c.off = start + c.tot /\ c.off < MaxBytes /\ c.pc = "loop" /\ c.tot < c.n1
    BY <1>1, InLoopType DEF InLoop
  <1>3. /\ x \in Nat /\ y \in Nat /\ y <= x + 2
        /\ Tree(disk, inode)[i][TurnSlot(p)] # 0 => y <= x + 1
    BY TurnLog
  <1>4. /\ c.tot = 0 => dirty[p] = {}
        /\ 0 < c.tot => c.off % BSIZE = 0 /\ x <= 2 * (q - b) - u
    <2>1. Budget(p)
      BY DEF DataIInv, BudgetInv
    <2> QED BY <1>2, <2>1 DEF Budget
  <1>5. c.n1 <= BSIZE * Room /\ \A k \in 0..c.off-1 : ByteBlock(i, k) # 0
    <2>1. Piece(p)
      BY <1>2 DEF DataIInv, PieceInv
    <2> QED BY <2>1 DEF Piece
  <1>6. /\ MAXOPBLOCKS \in Nat /\ Room \in Nat /\ 2 * Room + 4 <= MAXOPBLOCKS
        /\ BSIZE * Room \in Nat /\ BSIZE \in Nat \ {0}
    BY RoomFits, DataAssumption DEF DataAssumption
  <1>7. q \in Int /\ b \in Int
    BY <1>2, <1>6, ModDiv
  <1>8. c.tot = 0 => x = 0
    <2>1. dirty[p] = {} => Spent(p) = {}
      BY DEF Spent
    <2> QED BY <1>4, <2>1, FS_EmptySet
  <1>9. CASE c.tot = 0
    <2>1. c.off = start
      BY <1>2, <1>9
    <2>2. q = b
      BY <2>1
    <2>3. start % BSIZE # 0 => y <= 1
      <3> SUFFICES ASSUME start % BSIZE # 0
                   PROVE  y <= 1
        OBVIOUS
      <3> DEFINE k == c.off - 1
      <3>1. c.off >= 1 /\ k \div BSIZE = q
        BY <1>2, <2>1, ByteBefore
      <3>2. k \in 0..c.off-1
        BY <1>2, <3>1
      <3>3. ByteBlock(i, k) # 0
        BY <1>5, <3>2
      <3>4. Tree(disk, inode)[i][TurnSlot(p)] # 0
        BY <3>1, <3>3 DEF ByteBlock, TurnSlot
      <3> QED BY <1>3, <1>8, <1>9, <3>4
    <2>4. Room >= 1
      <3>1. Room # 0
        <4> SUFFICES ASSUME Room = 0
                     PROVE  FALSE
          OBVIOUS
        <4>1. BSIZE * Room = 0
          BY <1>6, Z3
        <4> QED BY <1>2, <1>5, <4>1
      <3> QED BY <1>6, <3>1
    <2> HIDE DEF q, b, x, y
    <2>5. y <= MAXOPBLOCKS - 3
      BY <1>3, <1>6, <1>8, <1>9, <2>4
    <2>6. y <= 2 - u
      BY <1>3, <1>8, <1>9, <2>3
    <2>7. 2 * ((q + 1) - b) = 2
      BY <1>7, <2>2
    <2> HIDE DEF u
    <2>8. y <= 2 * ((q + 1) - b) - u
      BY <2>6, <2>7
    <2> QED BY <2>5, <2>8 DEF q, b, y, u
  <1>10. CASE 0 < c.tot
    <2>1. c.off < start + BSIZE * Room
      <3> DEFINE z == BSIZE * Room
      <3>1. z \in Nat /\ c.n1 <= z
        BY <1>5, <1>6
      <3> HIDE DEF z
      <3>2. c.off < start + z
        BY <1>2, <3>1
      <3> QED BY <3>2 DEF z
    <2>2. /\ start % BSIZE = 0 => q <= b + Room - 1
          /\ start % BSIZE # 0 => q <= b + Room
      BY <1>2, <1>4, <1>10, <2>1, PieceBlocks
    <2>3. u \in {0, 1} /\ q <= b + Room - 1 + u
      <3> HIDE DEF q, b
      <3> QED BY <1>6, <1>7, <2>2
    <2>4. x <= 2 * (q - b) - u
      BY <1>4, <1>10
    <2> HIDE DEF q, b, x, y, u
    <2>5. y <= MAXOPBLOCKS - 3
      BY <1>3, <1>6, <1>7, <2>3, <2>4
    <2>6. y <= 2 * ((q + 1) - b) - u
      BY <1>3, <1>7, <2>3, <2>4
    <2> QED BY <2>5, <2>6 DEF q, b, y, u
  <1> QED BY <1>2, <1>9, <1>10

LEMMA TurnBudget ==
  ASSUME DataTypeOK, DataIInv, NEW p \in IoProcs, writei_turn(p)
  PROVE  BudgetInv'
  <1>1. ASSUME NEW q \in IoProcs, q # p
        PROVE  Budget(q)'
    <2>1. /\ wr'[q] = wr[q] /\ Busy(q)' = Busy(q) /\ dirty'[q] = dirty[q] /\ off' = off
          /\ Busy(q) => Spent(q)' = Spent(q)
      BY <1>1, TurnOthers, TurnSteps DEF Spent
    <2>2. Budget(q)
      BY DEF DataIInv, BudgetInv
    <2> QED BY <2>1, <2>2 DEF Budget
  <1>2. Budget(p)'
    <2> DEFINE c == wr[p]
               d == wr'[p]
               y == Cardinality(Spent(p)')
               start == off[c.f]
               q == c.off \div BSIZE
               z == IF start % BSIZE = 0 THEN 0 ELSE 1
    <2>1. /\ InLoop(p) /\ (Stopped(p) \/ Wrote(p)) /\ off' = off
      BY TurnSteps
    <2>2. /\ d.f = c.f /\ d.n1 = c.n1 /\ Busy(p)' /\ Ino(p)' = Ino(p)
          /\ Stopped(p) => d.pc = "end"
          /\ Wrote(p) => d.off = c.off + TurnLen(p) /\ d.tot = c.tot + TurnLen(p)
      BY TurnCall
    <2>3. c.off \in Nat /\ c.tot \in Nat /\ c.n1 \in Nat
      BY <2>1, InLoopType
    <2>4. /\ TurnLen(p) \in Nat /\ TurnLen(p) >= 1
          /\ TurnLen(p) < c.n1 - c.tot => TurnLen(p) = BSIZE - (c.off % BSIZE)
      BY <2>1, TurnLenType
    <2>5. y <= MAXOPBLOCKS - 3 /\ y <= 2 * ((q + 1) - (start \div BSIZE)) - z
      <3>1. Spent(p)' = dirty'[p] \ Meta(inode'[Ino(p)])
        BY <2>2 DEF Spent
      <3> QED BY <3>1, TurnPays
    <2>6. ~(d.tot = 0 /\ d.pc = "loop")
      BY <2>1, <2>2, <2>3, <2>4
    <2>7. ASSUME d.pc = "loop", d.tot < d.n1
          PROVE  d.off % BSIZE = 0 /\ d.off \div BSIZE = q + 1
      <3>1. d.off = c.off + TurnLen(p) /\ d.tot = c.tot + TurnLen(p)
        BY <2>1, <2>2, <2>7
      <3>2. TurnLen(p) < c.n1 - c.tot
        BY <2>2, <2>3, <2>4, <2>7, <3>1
      <3>3. d.off = c.off + (BSIZE - (c.off % BSIZE))
        BY <2>4, <3>1, <3>2
      <3> QED BY <2>3, <3>3, NextBlock
    <2> HIDE DEF c, y, z
    <2>8. d.pc = "loop" /\ 0 < d.tot /\ d.tot < d.n1 =>
            d.off % BSIZE = 0 /\ y <= 2 * ((d.off \div BSIZE) - (start \div BSIZE)) - z
      BY <2>5, <2>7
    <2> QED BY <2>1, <2>2, <2>5, <2>6, <2>8 DEF Budget, y, z, c
  <1> QED BY <1>1, <1>2 DEF BudgetInv

\* A turn of writei keeps the invariant.
LEMMA TurnData ==
  ASSUME DataTypeOK, DataIInv, NEW p \in IoProcs, writei_turn(p)
  PROVE  DataTypeOK' /\ DataIInv'
  <1>1. inlock' = inlock /\ off' = off
    BY TurnSteps
  <1>2. /\ wr' \in [IoProcs -> Call] /\ Busy(p) /\ Busy(p)' /\ Ino(p)' = Ino(p)
        /\ wr'[p].f = wr[p].f /\ wr'[p].v = wr[p].v /\ wr'[p].n = wr[p].n /\ wr'[p].i = wr[p].i
    BY TurnCall
  <1>3. /\ dirty' \in [IoProcs -> SUBSET LogBlocks] /\ IsFiniteSet(dirty'[p])
        /\ \A q \in IoProcs : q # p => dirty'[q] = dirty[q]
    BY TurnLog
  <1>4. DataTypeOK'
    <2>1. \A q \in IoProcs : IsFiniteSet(dirty'[q])
      BY <1>3 DEF DataTypeOK
    <2>2. /\ used' \in SUBSET Blocks /\ disk' \in DiskFun /\ home' \in DiskFun
          /\ inode' \in [FileInodes -> InodeRec]
      BY TurnTree, TurnSaved
    <2> QED BY <1>1, <1>2, <1>3, <2>1, <2>2 DEF DataTypeOK
  <1>5. ASSUME NEW q \in IoProcs
        PROVE  (Busy(q)' <=> Busy(q)) /\ Ino(q)' = Ino(q) /\ (q # p => wr'[q] = wr[q])
    <2>1. CASE q # p
      BY <2>1, TurnOthers
    <2>2. CASE q = p
      BY <1>2, <2>2
    <2> QED BY <2>1, <2>2
  <1>6. CallInv'
    BY <1>2, <1>5 DEF DataIInv, CallInv, Busy
  <1>7. IlockInv'
    <2>1. ASSUME NEW q \in IoProcs, Busy(q)'
          PROVE  inlock'[Ino(q)'] = q
      BY <1>1, <1>5, <2>1 DEF DataIInv, IlockInv
    <2>2. ASSUME NEW j \in FileInodes, inlock'[j] # None
          PROVE  wr'[inlock'[j]].pc \in {"loop", "end"} /\ InodeOf[wr'[inlock'[j]].f] = j
      <3>1. inlock[j] \in IoProcs /\ Busy(inlock[j]) /\ Ino(inlock[j]) = j /\ inlock'[j] = inlock[j]
        BY <1>1, <2>2 DEF DataIInv, IlockInv, DataTypeOK
      <3>2. PICK q \in IoProcs : q = inlock[j]
        BY <3>1
      <3>3. Busy(q)' /\ Ino(q)' = j
        BY <1>5, <3>1, <3>2
      <3> QED BY <3>1, <3>2, <3>3 DEF Busy, Ino
    <2> QED BY <2>1, <2>2 DEF IlockInv, Busy, Ino
  <1>8. AccountInv'
    BY TurnTree DEF AccountInv
  <1> QED BY <1>4, <1>6, <1>7, <1>8, TurnSizes, TurnPieces, TurnBudget, TurnSaved DEF DataIInv



-----------------------------------------------------------------------------
(* A buffer that bget takes for another block                              *)

\* An indirect block is as the disk has it, so no slot changes.
LEMMA RecycleTree ==
  ASSUME DataTypeOK, DataIInv, NEW b \in Blocks, bget_recycles(b)
  PROVE  /\ UNCHANGED <<used, home, inode, inlock, off, wr, dirty>>
         /\ Tree(disk', inode') = Tree(disk, inode)
         /\ \A x \in Blocks : disk'[x] = IF x = b THEN home[b] ELSE disk[x]
         /\ \A i \in FileInodes : inode[i].addrs[NDIRECT] # b
  <1>1. /\ UNCHANGED <<used, home, inode, inlock, off, wr, dirty>>
        /\ disk[b] # home[b] /\ disk' = [disk EXCEPT ![b] = home[b]]
    BY DEF bget_recycles
  <1>2. \A x \in Blocks : disk'[x] = IF x = b THEN home[b] ELSE disk[x]
    BY <1>1 DEF DataTypeOK, DiskFun
  <1>3. ASSUME NEW i \in FileInodes
        PROVE  /\ inode[i].addrs[NDIRECT] # b /\ inode[i].addrs[NDIRECT] \in Blocks \cup {0}
    <2>1. inode[i].addrs[NDIRECT] \in used \cup {0} /\ used \in SUBSET Blocks
      BY IndirectUsed DEF DataTypeOK, DataIInv, AccountInv
    <2>2. b # 0
      BY BlocksNat
    <2> QED BY <1>1, <2>1, <2>2 DEF DataIInv, SavedInv
  <1>4. \A i \in FileInodes, k \in Slots : At(disk', inode'[i], k) = At(disk, inode[i], k)
    BY <1>1, <1>2, <1>3 DEF At
  <1>5. Tree(disk', inode') = Tree(disk, inode)
    BY <1>4 DEF Tree
  <1> QED BY <1>1, <1>2, <1>3, <1>5

LEMMA RecycleData ==
  ASSUME DataTypeOK, DataIInv, NEW b \in Blocks, bget_recycles(b)
  PROVE  DataTypeOK' /\ DataIInv'
  <1>1. /\ UNCHANGED <<used, home, inode, inlock, off, wr, dirty>>
        /\ Tree(disk', inode') = Tree(disk, inode)
        /\ \A x \in Blocks : disk'[x] = IF x = b THEN home[b] ELSE disk[x]
        /\ \A i \in FileInodes : inode[i].addrs[NDIRECT] # b
    BY RecycleTree
  <1>2. /\ \A i, k : ByteBlock(i, k)' = ByteBlock(i, k)
        /\ \A i, x : Holds(i, x)' = Holds(i, x)
    BY <1>1 DEF ByteBlock, Holds
  <1>3. DataTypeOK'
    <2>1. disk' \in DiskFun
      BY DEF bget_recycles, DataTypeOK, DiskFun
    <2> QED BY <1>1, <2>1 DEF DataTypeOK
  <1>4. \A q \in IoProcs : Busy(q)' = Busy(q) /\ Ino(q)' = Ino(q) /\ Spent(q)' = Spent(q)
    BY <1>1 DEF Busy, Ino, Spent
  <1>5. CallInv' /\ IlockInv' /\ AccountInv' /\ SizeInv' /\ BudgetInv'
    <2>1. CallInv'
      BY <1>1 DEF DataIInv, CallInv
    <2>2. IlockInv'
      BY <1>1 DEF DataIInv, IlockInv, Busy, Ino
    <2>3. AccountInv' /\ SizeInv'
      BY <1>1, <1>2 DEF DataIInv, AccountInv, SizeInv
    <2>4. BudgetInv'
      BY <1>1, <1>4 DEF DataIInv, BudgetInv, Budget
    <2> QED BY <2>1, <2>2, <2>3, <2>4
  <1>6. SavedInv'
    <2>1. \A i \in FileInodes : inode[i].addrs[NDIRECT] # 0 => inode[i].addrs[NDIRECT] \in Blocks
      BY IndirectUsed DEF DataTypeOK, DataIInv, AccountInv
    <2> QED BY <1>1, <1>2, <1>4, <2>1 DEF DataIInv, SavedInv
  <1>7. PieceInv'
    <2> SUFFICES ASSUME NEW q \in IoProcs, Busy(q)
                 PROVE  Piece(q)'
      BY <1>4 DEF PieceInv
    <2>1. Piece(q) /\ Ino(q) \in FileInodes /\ wr[q].off \in Nat /\ off[wr[q].f] \in Nat
          /\ wr[q].off <= MaxBytes
      <3>1. Piece(q) /\ wr[q] \in Call /\ wr[q].f \in OpenFiles
        BY DEF DataTypeOK, DataIInv, PieceInv, CallInv, Busy
      <3>2. Ino(q) \in FileInodes /\ off[wr[q].f] \in Nat /\ wr[q].off \in Nat /\ wr[q].tot \in Nat
            /\ wr[q].n1 \in Nat
        BY <3>1, DataAssumption DEF Ino, DataAssumption, DataTypeOK, Call
      <3> QED BY <3>1, <3>2, MaxBytesNat DEF Piece
    <2>2. ASSUME NEW k \in off[wr[q].f]..wr[q].off-1
          PROVE  disk'[ByteBlock(Ino(q), k)][k % BSIZE] = wr[q].v
      <3>1. k \in 0..wr[q].off-1 /\ k \in 0..MaxBytes-1
        BY <2>1, MaxBytesNat
      <3>2. ByteBlock(Ino(q), k) # 0
        BY <2>1, <3>1 DEF Piece
      <3>3. ByteBlock(Ino(q), k) \in Blocks
        BY <2>1, <3>1, <3>2, ByteBlockType
      <3> QED BY <1>1, <2>1, <3>3 DEF Piece
    <2> QED BY <1>1, <1>2, <1>4, <2>1, <2>2 DEF Piece
  <1> QED BY <1>3, <1>5, <1>6, <1>7 DEF DataIInv

-----------------------------------------------------------------------------
(* What the invariant says                                                 *)

\* The invariant holds in every state, of any number of processes, inodes,
\* open files and blocks.
LEMMA DataInvariant == DataSpec => [](DataTypeOK /\ DataIInv)
  <1>1. DataInit => DataTypeOK /\ DataIInv
    BY InitData
  <1>2. DataTypeOK /\ DataIInv /\ [DataNext]_datavars => (DataTypeOK /\ DataIInv)'
    <2> SUFFICES ASSUME DataTypeOK, DataIInv, [DataNext]_datavars
                 PROVE  DataTypeOK' /\ DataIInv'
      OBVIOUS
    <2>1. ASSUME NEW p \in IoProcs, NEW i \in FileInodes, itrunc(p, i)
          PROVE  DataTypeOK' /\ DataIInv'
      BY <2>1, ItruncData
    <2>2. ASSUME NEW p \in IoProcs, NEW f \in OpenFiles, NEW n \in Sizes, fileread(p, f, n)
          PROVE  DataTypeOK' /\ DataIInv'
      BY <2>2, FilereadData
    <2>3. ASSUME NEW p \in IoProcs, NEW f \in OpenFiles, NEW n \in Sizes, NEW v \in ByteValues,
                 filewrite(p, f, n, v)
          PROVE  DataTypeOK' /\ DataIInv'
      BY <2>3, FilewriteData
    <2>4. ASSUME NEW p \in IoProcs, writei(p)
          PROVE  DataTypeOK' /\ DataIInv'
      BY <2>4, WriteiData
    <2>5. ASSUME NEW p \in IoProcs, writei_turn(p)
          PROVE  DataTypeOK' /\ DataIInv'
      BY <2>5, TurnData
    <2>6. ASSUME NEW p \in IoProcs, writei_end(p)
          PROVE  DataTypeOK' /\ DataIInv'
      BY <2>6, WriteiEndData
    <2>7. ASSUME NEW b \in Blocks, bget_recycles(b)
          PROVE  DataTypeOK' /\ DataIInv'
      BY <2>7, RecycleData
    <2>8. CASE UNCHANGED datavars
      BY <2>8, StutterData
    <2> QED BY <2>1, <2>2, <2>3, <2>4, <2>5, <2>6, <2>7, <2>8 DEF DataNext, DataDone
  <1> QED BY <1>1, <1>2, PTL DEF DataSpec


\* The block that bmap finds without allocating is the one in the slot.
LEMMA AddrOfSlot ==
  ASSUME DataTypeOK, NEW i \in FileInodes, NEW bn \in 0..MAXFILE-1
  PROVE  AddrOf(i, bn) = Tree(disk, inode)[i][SlotOf(bn)]
  <1>0. NDIRECT \in Nat /\ NINDIRECT \in Nat
    BY DataAssumption DEF DataAssumption
  <1>1. SlotOf(bn) \in Slots
    BY <1>0 DEF SlotOf, Slots, MAXFILE
  <1>2. Tree(disk, inode)[i][SlotOf(bn)] = At(disk, inode[i], SlotOf(bn))
    BY <1>1 DEF Tree
  <1>3. CASE bn < NDIRECT
    BY <1>0, <1>2, <1>3 DEF SlotOf, At, AddrOf
  <1>4. CASE ~(bn < NDIRECT)
    <2> DEFINE l == bn + 1
    <2>1. SlotOf(bn) = l /\ ~(l <= NDIRECT) /\ l - NDIRECT - 1 = bn - NDIRECT
      BY <1>0, <1>4 DEF SlotOf
    <2> HIDE DEF l
    <2> QED BY <1>2, <1>4, <2>1 DEF At, AddrOf
  <1> QED BY <1>3, <1>4

\* In every state the bitmap marks exactly the blocks that hang from an inode
\* of the disk, no block has two uses and no file has a hole: balloc, bmap and
\* itrunc keep the accounts when the disk fills up halfway through bmap, when
\* copyin fails, and when other processes take and free blocks in between.
THEOREM BlocksAccountedHolds == DataSpec => []BlocksAccounted
  <1>1. ASSUME DataTypeOK, DataIInv
        PROVE  BlocksAccounted
    <2> DEFINE A == Tree(disk, inode)
               Role == UNION {Roles(i) : i \in FileInodes}
    <2>0. NDIRECT \in Nat /\ NINDIRECT \in Nat
      BY DataAssumption DEF DataAssumption
    <2>1. Accounted(used, A) /\ 0 \notin used
      BY <1>1, BlocksNat DEF DataIInv, AccountInv, DataTypeOK
    <2>2. \A i \in FileInodes : BlocksOf(inode[i]) = {A[i][k] : k \in Slots} \ {0}
      BY <1>1, BlocksOfTree
    <2>3. \A i \in FileInodes, bn \in 0..MAXFILE-1 : AddrOf(i, bn) = A[i][SlotOf(bn)]
      BY <1>1, AddrOfSlot
    <2>4. \A i \in FileInodes, k \in 0..NDIRECT : k \in Slots /\ A[i][k] = inode[i].addrs[k]
      BY <2>0 DEF Tree, At, Slots
    <2>5. NoHoles
      <3> SUFFICES ASSUME NEW i \in FileInodes, NEW k \in 0..inode[i].size-1
                   PROVE  AddrOf(i, k \div BSIZE) # 0
        BY DEF NoHoles
      <3>1. /\ inode[i].size <= MaxBytes /\ inode[i].size \in Nat /\ ByteBlock(i, k) # 0
        BY <1>1 DEF DataIInv, SizeInv, DataTypeOK, InodeRec
      <3>2. k \in Nat /\ k < MaxBytes
        BY <3>1, MaxBytesNat
      <3>3. k \div BSIZE \in 0..MAXFILE-1
        BY <3>2, BlockOfByte
      <3> QED BY <2>3, <3>1, <3>3 DEF ByteBlock
    <2> HIDE DEF A
    <2>6. /\ \A i \in FileInodes, k \in Slots : A[i][k] \in used \cup {0}
          /\ \A i, j \in FileInodes, k, l \in Slots :
               A[i][k] = A[j][l] /\ A[i][k] # 0 => i = j /\ k = l
          /\ \A b \in used : \E i \in FileInodes, k \in Slots : A[i][k] = b
      BY <2>1 DEF Accounted
    <2>7. used = UNION {BlocksOf(inode[i]) : i \in FileInodes}
      <3>1. \A b \in used : \E i \in FileInodes : b \in BlocksOf(inode[i])
        BY <2>1, <2>2, <2>6
      <3>2. \A i \in FileInodes : BlocksOf(inode[i]) \subseteq used
        BY <2>2, <2>6
      <3> QED BY <3>1, <3>2
    <2>8. ASSUME NEW r \in Role
          PROVE  \E i \in FileInodes, k \in Slots :
                   /\ BlockIn(r) = A[i][k] /\ A[i][k] # 0
                   /\ \/ r = <<i, "addr", k>> /\ k <= NDIRECT
                      \/ r = <<i, "entry", k - 1>> /\ k > NDIRECT
      <3>1. PICK i \in FileInodes : r \in Roles(i)
        OBVIOUS
      <3>2. CASE \E k \in 0..NDIRECT : r = <<i, "addr", k>> /\ inode[i].addrs[k] # 0
        <4>1. PICK k \in 0..NDIRECT : r = <<i, "addr", k>> /\ inode[i].addrs[k] # 0
          BY <3>2
        <4>2. BlockIn(r) = A[i][k] /\ A[i][k] # 0 /\ k \in Slots /\ k <= NDIRECT
          BY <2>0, <2>4, <4>1 DEF BlockIn
        <4> QED BY <4>1, <4>2
      <3>3. CASE \E k \in NDIRECT..MAXFILE-1 : r = <<i, "entry", k>> /\ AddrOf(i, k) # 0
        <4>1. PICK k \in NDIRECT..MAXFILE-1 : r = <<i, "entry", k>> /\ AddrOf(i, k) # 0
          BY <3>3
        <4> DEFINE l == k + 1
        <4>2. k \in 0..MAXFILE-1 /\ SlotOf(k) = l /\ l \in Slots /\ l > NDIRECT /\ k = l - 1
          BY <2>0 DEF SlotOf, Slots, MAXFILE
        <4>3. BlockIn(r) = A[i][l] /\ A[i][l] # 0
          BY <2>3, <4>1, <4>2 DEF BlockIn
        <4> HIDE DEF l
        <4> QED BY <4>1, <4>2, <4>3
      <3> QED BY <3>1, <3>2, <3>3 DEF Roles
    <2>9. ASSUME NEW r \in Role, NEW s \in Role, BlockIn(r) = BlockIn(s)
          PROVE  r = s
      <3>1. PICK i \in FileInodes, k \in Slots :
              /\ BlockIn(r) = A[i][k] /\ A[i][k] # 0
              /\ \/ r = <<i, "addr", k>> /\ k <= NDIRECT
                 \/ r = <<i, "entry", k - 1>> /\ k > NDIRECT
        BY <2>8
      <3>2. PICK j \in FileInodes, l \in Slots :
              /\ BlockIn(s) = A[j][l] /\ A[j][l] # 0
              /\ \/ s = <<j, "addr", l>> /\ l <= NDIRECT
                 \/ s = <<j, "entry", l - 1>> /\ l > NDIRECT
        BY <2>8
      <3>3. i = j /\ k = l
        <4>1. A[i][k] = A[j][l] /\ A[i][k] # 0
          BY <2>9, <3>1, <3>2
        <4> QED BY <2>6, <4>1
      <3>4. k \in Int /\ NDIRECT \in Int
        BY <2>0 DEF Slots
      <3> QED BY <3>1, <3>2, <3>3, <3>4
    <2> QED BY <2>5, <2>7, <2>9 DEF BlocksAccounted
  <1> QED BY <1>1, DataInvariant, PTL

\* No transaction of filewrite outgrows what begin_op reserved for it, and the
\* offset of an open file stays where a process in writei found it as long as
\* it is there: filewrite's (MAXOPBLOCKS-1-1-2) / 2 blocks are few enough, with
\* the indirect block, the bits of the bitmap and the slop of a write that is
\* not aligned, and the lock of the inode covers f->off within a chunk.
THEOREM ChunksSafeHolds == DataSpec => []ChunksSafe
  <1>1. ASSUME DataTypeOK, DataIInv
        PROVE  ChunksSafe
    <2>0. MAXOPBLOCKS \in Nat /\ MAXOPBLOCKS >= 4
      BY DataAssumption DEF DataAssumption
    <2>1. WriterOwnsOffset
      BY <1>1 DEF WriterOwnsOffset, DataIInv, PieceInv, Piece, Busy
    <2>2. ASSUME NEW p \in IoProcs
          PROVE  Cardinality(dirty[p] \cup {<<"inode", 0>>}) <= MAXOPBLOCKS
      <3> DEFINE S == Spent(p)
                 ind == inode[Ino(p)].addrs[NDIRECT]
                 S1 == S \cup {BBLOCK(ind)}
                 S2 == S1 \cup {<<"block", ind>>}
                 S3 == S2 \cup {<<"inode", 0>>}
                 D == dirty[p] \cup {<<"inode", 0>>}
      <3>1. Budget(p) /\ IsFiniteSet(dirty[p])
        BY <1>1 DEF DataIInv, BudgetInv, DataTypeOK
      <3>2. IsFiniteSet(S) /\ Cardinality(S) \in Nat
        <4>1. IsFiniteSet(S)
          BY <3>1, FS_Subset DEF Spent
        <4> QED BY <4>1, FS_CardinalityType
      <3>3. Cardinality(S) <= MAXOPBLOCKS - 3
        <4>1. CASE Busy(p)
          BY <3>1, <4>1 DEF Budget
        <4>2. CASE ~Busy(p)
          <5>1. S = {}
            BY <3>1, <4>2 DEF Budget, Spent
          <5> QED BY <2>0, <5>1, FS_EmptySet
        <4> QED BY <4>1, <4>2
      <3>4. dirty[p] \subseteq S2
        BY DEF Spent, Meta
      <3>5. D \subseteq S3
        BY <3>4
      <3> HIDE DEF S, D
      <3>6. IsFiniteSet(S1) /\ Cardinality(S1) \in Nat /\ Cardinality(S1) <= Cardinality(S) + 1
        BY <3>2, AddOne
      <3> HIDE DEF S1
      <3>7. IsFiniteSet(S2) /\ Cardinality(S2) \in Nat /\ Cardinality(S2) <= Cardinality(S1) + 1
        BY <3>6, AddOne
      <3> HIDE DEF S2
      <3>8. IsFiniteSet(S3) /\ Cardinality(S3) \in Nat /\ Cardinality(S3) <= Cardinality(S2) + 1
        BY <3>7, AddOne
      <3> HIDE DEF S3
      <3>9. IsFiniteSet(D) /\ Cardinality(D) <= Cardinality(S3)
        BY <3>5, <3>8, FS_Subset
      <3>10. Cardinality(D) \in Nat
        BY <3>9, FS_CardinalityType
      <3>11. Cardinality(D) <= MAXOPBLOCKS
        BY <2>0, <3>2, <3>3, <3>6, <3>7, <3>8, <3>9, <3>10
      <3> QED BY <3>11 DEF D
    <2> QED BY <2>1, <2>2 DEF ChunksSafe, TransactionFits
  <1> QED BY <1>1, DataInvariant, PTL



-----------------------------------------------------------------------------
(* Files are sequences of bytes                                            *)

\* Byte k of a file, and its bytes, when it has the blocks: what read() gets
\* and what is on disk or in the log.
Byte(j, k) == disk[ByteBlock(j, k)][k % BSIZE]
Bytes(j) == [x \in 1..inode[j].size |-> Byte(j, x - 1)]
SavedByte(j, k) == home[ByteBlock(j, k)][k % BSIZE]
SavedBytes(j) == [x \in 1..inode[j].size |-> SavedByte(j, x - 1)]

Contents == [j \in FileInodes |-> ContentIn(disk, j)]
SavedContents == [j \in FileInodes |-> ContentIn(home, j)]

LEMMA ContentBytes ==
  DataTypeOK /\ DataIInv => /\ Contents = [j \in FileInodes |-> Bytes(j)]
                            /\ SavedContents = [j \in FileInodes |-> SavedBytes(j)]
  <1> SUFFICES ASSUME DataTypeOK, DataIInv, NEW j \in FileInodes
               PROVE  ContentIn(disk, j) = Bytes(j) /\ ContentIn(home, j) = SavedBytes(j)
    BY DEF Contents, SavedContents
  <1> DEFINE size == inode[j].size
  <1>1. size \in Nat /\ size <= MaxBytes /\ \A k \in 0..size-1 : ByteBlock(j, k) # 0
    BY DEF DataTypeOK, InodeRec, DataIInv, SizeInv
  <1>2. ASSUME NEW x \in 1..size
        PROVE  /\ AddrOf(j, (x - 1) \div BSIZE) = ByteBlock(j, x - 1)
               /\ ByteBlock(j, x - 1) # 0
    <2> DEFINE k == x - 1
    <2> HIDE DEF size
    <2>1. k \in 0..size-1 /\ k \in Nat /\ k < MaxBytes
      BY <1>1, MaxBytesNat
    <2> HIDE DEF k
    <2>2. k \div BSIZE \in 0..MAXFILE-1
      BY <2>1, BlockOfByte
    <2>3. AddrOf(j, k \div BSIZE) = ByteBlock(j, k)
      BY <2>2, AddrOfSlot DEF ByteBlock
    <2>4. ByteBlock(j, k) # 0
      BY <1>1, <2>1
    <2> QED BY <2>3, <2>4 DEF k
  <1>3. ContentIn(disk, j) = Bytes(j)
    BY <1>2 DEF ContentIn, Bytes, Byte
  <1>4. ContentIn(home, j) = SavedBytes(j)
    BY <1>2 DEF ContentIn, SavedBytes, SavedByte
  <1> QED BY <1>3, <1>4

LEMMA ContentBytesNext ==
  (DataTypeOK /\ DataIInv => /\ Contents = [j \in FileInodes |-> Bytes(j)]
                             /\ SavedContents = [j \in FileInodes |-> SavedBytes(j)])'
  BY ContentBytes, PTL


LEMMA BytesLen ==
  ASSUME DataTypeOK, NEW j \in FileInodes
  PROVE  /\ Len(Bytes(j)) = inode[j].size /\ Len(SavedBytes(j)) = inode[j].size
         /\ inode[j].size \in Nat
  <1>1. inode[j].size \in Nat
    BY DEF DataTypeOK, InodeRec
  <1> QED BY <1>1 DEF Bytes, SavedBytes

\* The other files are as they were.
Others(j) == \A l \in FileInodes : l # j => Bytes(l)' = Bytes(l) /\ SavedBytes(l)' = SavedBytes(l)

LEMMA OnlyFile ==
  ASSUME DataTypeOK, DataIInv, DataTypeOK', DataIInv', NEW j \in FileInodes, Others(j)
  PROVE  /\ Abstract!Only(j)
         /\ Contents[j] = Bytes(j) /\ Contents'[j] = Bytes(j)'
         /\ SavedContents[j] = SavedBytes(j) /\ SavedContents'[j] = SavedBytes(j)'
  <1>1. /\ Contents = [i \in FileInodes |-> Bytes(i)]
        /\ SavedContents = [i \in FileInodes |-> SavedBytes(i)]
    BY ContentBytes
  <1>2. /\ Contents' = [i \in FileInodes |-> Bytes(i)']
        /\ SavedContents' = [i \in FileInodes |-> SavedBytes(i)']
    BY ContentBytesNext
  <1>3. Contents' = [Contents EXCEPT ![j] = Contents'[j]]
    BY <1>1, <1>2 DEF Others
  <1>4. SavedContents' = [SavedContents EXCEPT ![j] = SavedContents'[j]]
    BY <1>1, <1>2 DEF Others
  <1>5. Abstract!Only(j)
    BY <1>3, <1>4 DEF Abstract!Only, Contents, SavedContents
  <1> QED BY <1>1, <1>2, <1>5

\* A step that puts n bytes of v into the file j, after its first at bytes.
LEMMA PutsBytes ==
  ASSUME DataTypeOK, DataIInv, DataTypeOK', DataIInv',
         NEW j \in FileInodes, NEW at \in 0..inode[j].size, NEW n \in 0..MaxBytes, NEW v \in ByteValues,
         Others(j),
         inode'[j].size = IF at + n > inode[j].size THEN at + n ELSE inode[j].size,
         \A k \in 0..inode'[j].size-1 :
           Byte(j, k)' = IF at <= k /\ k < at + n THEN v ELSE Byte(j, k),
         \A k \in 0..inode'[j].size-1 :
           \/ SavedByte(j, k)' = Byte(j, k)'
           \/ k < inode[j].size /\ SavedByte(j, k)' = SavedByte(j, k)
  PROVE  Abstract!BytesNext
  <1> DEFINE size == inode[j].size
             new == inode'[j].size
             old == Bytes(j)
             P == Abstract!Patched(old, at, n, v)
  <1>1. /\ Abstract!Only(j)
        /\ Contents[j] = Bytes(j) /\ Contents'[j] = Bytes(j)'
        /\ SavedContents[j] = SavedBytes(j) /\ SavedContents'[j] = SavedBytes(j)'
    BY OnlyFile
  <1>2. Len(old) = size /\ Len(SavedBytes(j)) = size /\ size \in Nat /\ new \in Nat
    <2>1. new \in Nat
      BY DEF DataTypeOK, InodeRec
    <2> QED BY <2>1, BytesLen
  <1>3. /\ Bytes(j)' = [x \in 1..new |-> Byte(j, x - 1)']
        /\ SavedBytes(j)' = [x \in 1..new |-> SavedByte(j, x - 1)']
    BY DEF Bytes, SavedBytes
  <1>4. Bytes(j)' = P
    <2>1. /\ P = [k \in 1..new |-> IF k \in at+1..at+n THEN v ELSE old[k]]
      BY <1>2 DEF Abstract!Patched
    <2>2. ASSUME NEW x \in 1..new
          PROVE  Byte(j, x - 1)' = IF x \in at+1..at+n THEN v ELSE old[x]
      <3> DEFINE k == x - 1
      <3> HIDE DEF size, new
      <3>1. k \in 0..new-1 /\ (at <= k /\ k < at + n <=> x \in at+1..at+n)
        BY <1>2
      <3>2. Byte(j, k)' = IF at <= k /\ k < at + n THEN v ELSE Byte(j, k)
        BY <3>1 DEF new
      <3>3. x \notin at+1..at+n => old[x] = Byte(j, k)
        <4> SUFFICES ASSUME x \notin at+1..at+n
                     PROVE  old[x] = Byte(j, k)
          OBVIOUS
        <4>1. x \in 1..size
          BY <1>2 DEF size, new
        <4> QED BY <4>1 DEF Bytes, size
      <3> QED BY <3>1, <3>2, <3>3
    <2> HIDE DEF P, old
    <2> QED BY <1>3, <2>1, <2>2
  <1>5. Abstract!Saves(SavedBytes(j), SavedBytes(j)', Bytes(j)')
    <2>1. Len(SavedBytes(j)') = new /\ Len(Bytes(j)') = new
      BY <1>2, <1>3
    <2>2. ASSUME NEW x \in 1..new
          PROVE  \/ SavedBytes(j)'[x] = Bytes(j)'[x]
                 \/ x <= Len(SavedBytes(j)) /\ SavedBytes(j)'[x] = SavedBytes(j)[x]
      <3> DEFINE k == x - 1
      <3>1. SavedBytes(j)'[x] = SavedByte(j, k)' /\ Bytes(j)'[x] = Byte(j, k)'
        BY <1>3
      <3>2. x \in 1..size => SavedBytes(j)[x] = SavedByte(j, k)
        BY DEF SavedBytes
      <3>3. \/ SavedByte(j, k)' = Byte(j, k)'
            \/ k < size /\ SavedByte(j, k)' = SavedByte(j, k)
        <4>1. k \in 0..new-1
          BY <1>2
        <4> QED BY <4>1
      <3>4. k < size => x \in 1..size /\ x <= size
        BY <1>2
      <3> QED BY <1>2, <3>1, <3>2, <3>3, <3>4
    <2> QED BY <2>1, <2>2 DEF Abstract!Saves
  <1>6. at \in 0..Len(old)
    BY <1>2
  <1> HIDE DEF P, old
  <1>7. Abstract!PutBytes(j)
    <2>1. \E a \in 0..Len(old), m \in 0..MaxBytes, w \in ByteValues :
            Contents'[j] = Abstract!Patched(old, a, m, w)
      BY <1>1, <1>4, <1>6 DEF P
    <2>2. \E a \in 0..Len(Contents[j]), m \in 0..MaxBytes, w \in ByteValues :
            Contents'[j] = Abstract!Patched(Contents[j], a, m, w)
      BY <1>1, <2>1 DEF old
    <2>3. Abstract!Saves(SavedContents[j], SavedContents'[j], Contents'[j])
      BY <1>1, <1>5
    <2> QED BY <1>1, <2>2, <2>3 DEF Abstract!PutBytes, Contents, SavedContents
  <1> QED BY <1>7 DEF Abstract!BytesNext

\* A step that loses bytes of file j which are not saved.
LEMMA ForgetsBytes ==
  ASSUME DataTypeOK, DataIInv, DataTypeOK', DataIInv', NEW j \in FileInodes, Others(j),
         inode'[j].size = inode[j].size, SavedBytes(j)' = SavedBytes(j),
         \A k \in 0..inode[j].size-1 : Byte(j, k)' = Byte(j, k) \/ Byte(j, k)' = SavedByte(j, k)
  PROVE  Abstract!BytesNext
  <1> DEFINE size == inode[j].size
  <1>1. /\ Abstract!Only(j)
        /\ Contents[j] = Bytes(j) /\ Contents'[j] = Bytes(j)'
        /\ SavedContents[j] = SavedBytes(j) /\ SavedContents'[j] = SavedBytes(j)'
    BY OnlyFile
  <1>2. Len(Bytes(j)) = size /\ size \in Nat
    BY BytesLen
  <1>3. Bytes(j)' = [x \in 1..size |-> Byte(j, x - 1)'] /\ Len(Bytes(j)') = size
    BY <1>2 DEF Bytes
  <1>4. ASSUME NEW x \in 1..size
        PROVE  Bytes(j)'[x] \in {Bytes(j)[x], SavedBytes(j)[x]}
    <2>1. x - 1 \in 0..size-1
      BY <1>2
    <2>2. Bytes(j)'[x] = Byte(j, x - 1)'
      BY <1>3
    <2>3. Bytes(j)[x] = Byte(j, x - 1) /\ SavedBytes(j)[x] = SavedByte(j, x - 1)
      BY DEF Bytes, SavedBytes
    <2> QED BY <2>1, <2>2, <2>3
  <1>5. SavedContents' = SavedContents
    <2>1. SavedContents = [i \in FileInodes |-> SavedBytes(i)]
      BY ContentBytes
    <2>2. SavedContents' = [i \in FileInodes |-> SavedBytes(i)']
      BY ContentBytesNext
    <2> QED BY <2>1, <2>2 DEF Others
  <1>6. Len(Contents'[j]) = Len(Contents[j])
        /\ \A x \in 1..Len(Contents'[j]) : Contents'[j][x] \in {Contents[j][x], SavedContents[j][x]}
    BY <1>1, <1>2, <1>3, <1>4
  <1>7. Abstract!Forget(j)
    BY <1>1, <1>5, <1>6 DEF Abstract!Forget, Contents, SavedContents
  <1> QED BY <1>7 DEF Abstract!BytesNext


\* The bytes a turn leaves alone.
LEMMA TurnKeeps ==
  ASSUME DataTypeOK, DataIInv, NEW p \in IoProcs, writei_turn(p), NEW j \in FileInodes
  PROVE  /\ inode'[j].size = inode[j].size /\ inode[j].size \in 0..MaxBytes
         /\ \A k \in 0..inode[j].size-1 :
              /\ Byte(j, k)' = IF Written(p, j, k) THEN wr[p].v ELSE Byte(j, k)
              /\ SavedByte(j, k)' = SavedByte(j, k) \/ (j = Ino(p) /\ SavedByte(j, k)' = Byte(j, k)')
  <1>1. inode'[j].size = inode[j].size
    BY TurnTree
  <1>2. /\ inode[j].size \in 0..MaxBytes /\ \A k \in 0..inode[j].size-1 : ByteBlock(j, k) # 0
    BY MaxBytesNat DEF DataTypeOK, InodeRec, DataIInv, SizeInv
  <1>3. ASSUME NEW k \in 0..inode[j].size-1
        PROVE  Byte(j, k)' = IF Written(p, j, k) THEN wr[p].v ELSE Byte(j, k)
    <2>1. ByteBlock(j, k) # 0 /\ k \in 0..MaxBytes-1
      BY <1>2, MaxBytesNat
    <2>2. Byte(j, k)' = disk'[ByteBlock(j, k)'][k % BSIZE]
      BY DEF Byte
    <2>3. CASE Written(p, j, k)
      BY <2>1, <2>2, <2>3, TurnBytes
    <2>4. CASE ~Written(p, j, k)
      <3>1. ByteBlock(j, k)' = ByteBlock(j, k)
        BY <2>1, TurnBytes
      <3>2. disk'[ByteBlock(j, k)][k % BSIZE] = disk[ByteBlock(j, k)][k % BSIZE]
        BY <2>1, <2>4, TurnBytes
      <3> QED BY <2>2, <2>4, <3>1, <3>2 DEF Byte
    <2> QED BY <2>3, <2>4
  <1>4. ASSUME NEW k \in 0..inode[j].size-1
        PROVE  SavedByte(j, k)' = SavedByte(j, k) \/ (j = Ino(p) /\ SavedByte(j, k)' = Byte(j, k)')
    <2>1. ByteBlock(j, k) # 0 /\ k \in 0..MaxBytes-1
      BY <1>2, MaxBytesNat
    <2>2. ByteBlock(j, k) \in Blocks /\ SlotOf(k \div BSIZE) \in Slots
      BY <2>1, ByteBlockType
    <2>3. ByteBlock(j, k)' = ByteBlock(j, k)
      BY <2>1, TurnBytes
    <2>4. \/ home'[ByteBlock(j, k)] = home[ByteBlock(j, k)]
          \/ j = Ino(p) /\ home'[ByteBlock(j, k)] = disk'[ByteBlock(j, k)]
      <3>1. j # Ino(p) => home'[ByteBlock(j, k)] = home[ByteBlock(j, k)]
        BY <2>1, <2>2, TurnSaved DEF ByteBlock
      <3> QED BY <2>2, <3>1, TurnSaved
    <2>5. SavedByte(j, k)' = home'[ByteBlock(j, k)'][k % BSIZE] /\ Byte(j, k)' = disk'[ByteBlock(j, k)'][k % BSIZE]
      BY DEF Byte, SavedByte
    <2> QED BY <2>3, <2>4, <2>5 DEF SavedByte
  <1> QED BY <1>1, <1>2, <1>3, <1>4

LEMMA TurnRefines ==
  ASSUME DataTypeOK, DataIInv, DataTypeOK', DataIInv', NEW p \in IoProcs, writei_turn(p)
  PROVE  Abstract!BytesNext
  <1>1. InLoop(p) /\ Got(p) \in 0..TurnLen(p)
    BY TurnSteps
  <1>2. /\ Ino(p) \in FileInodes /\ wr[p].off \in Nat /\ wr[p].v \in ByteValues
        /\ Got(p) \in Nat
    BY <1>1, InLoopType, TurnLenType
  <1>3. PICK j \in FileInodes : j = Ino(p)
    BY <1>2
  <1>4. PICK v \in ByteValues : v = wr[p].v
    BY <1>2
  <1> DEFINE size == inode[j].size
             end == wr[p].off + Got(p)
  <1>5. /\ inode'[j].size = size /\ size \in 0..MaxBytes
        /\ \A k \in 0..size-1 : Byte(j, k)' = IF Written(p, j, k) THEN v ELSE Byte(j, k)
        /\ \A k \in 0..size-1 : SavedByte(j, k)' = SavedByte(j, k) \/ SavedByte(j, k)' = Byte(j, k)'
    BY <1>4, TurnKeeps
  <1>6. Others(j)
    <2> SUFFICES ASSUME NEW l \in FileInodes, l # j
                 PROVE  Bytes(l)' = Bytes(l) /\ SavedBytes(l)' = SavedBytes(l)
      BY DEF Others
    <2>1. /\ inode'[l].size = inode[l].size /\ inode[l].size \in 0..MaxBytes
          /\ \A k \in 0..inode[l].size-1 : Byte(l, k)' = Byte(l, k) /\ SavedByte(l, k)' = SavedByte(l, k)
      BY <1>3, TurnKeeps DEF Written
    <2>2. \A x \in 1..inode[l].size : /\ Byte(l, x - 1)' = Byte(l, x - 1)
                                      /\ SavedByte(l, x - 1)' = SavedByte(l, x - 1)
      BY <2>1, MaxBytesNat
    <2> QED BY <2>1, <2>2 DEF Bytes, SavedBytes
  <1>7. PICK at \in 0..size : at = IF wr[p].off < size THEN wr[p].off ELSE size
    BY <1>2, <1>5, MaxBytesNat
  <1>8. PICK n \in 0..MaxBytes : at + n = IF end < size THEN (IF at < end THEN end ELSE at) ELSE size
    <2> DEFINE to == IF end < size THEN (IF at < end THEN end ELSE at) ELSE size
    <2>1. end \in Nat
      BY <1>2
    <2> HIDE DEF end, size
    <2>2. to - at \in 0..MaxBytes /\ at + (to - at) = to
      BY <1>5, <1>7, <2>1, MaxBytesNat
    <2> HIDE DEF to
    <2> QED BY <2>2 DEF to
  <1>9. \A k \in 0..size-1 : Written(p, j, k) <=> at <= k /\ k < at + n
    <2>1. \A k \in Nat : Written(p, j, k) <=> wr[p].off <= k /\ k < end
      BY <1>3 DEF Written
    <2>2. end \in Nat /\ wr[p].off <= end
      BY <1>2
    <2> HIDE DEF end, size
    <2> QED BY <1>2, <1>5, <1>7, <1>8, <2>1, <2>2, MaxBytesNat
  <1>10. at + n <= size
    <2>1. end \in Nat
      BY <1>2
    <2> HIDE DEF end, size
    <2> QED BY <1>5, <1>7, <1>8, <2>1, MaxBytesNat
  <1>11. inode'[j].size = IF at + n > inode[j].size THEN at + n ELSE inode[j].size
    BY <1>5, <1>10, MaxBytesNat
  <1>12. \A k \in 0..inode'[j].size-1 :
           Byte(j, k)' = IF at <= k /\ k < at + n THEN v ELSE Byte(j, k)
    BY <1>5, <1>9
  <1>13. \A k \in 0..inode'[j].size-1 :
           \/ SavedByte(j, k)' = Byte(j, k)'
           \/ k < inode[j].size /\ SavedByte(j, k)' = SavedByte(j, k)
    <2>1. \A k \in 0..size-1 : k < size
      BY <1>5, MaxBytesNat
    <2> QED BY <1>5, <2>1
  <1> QED BY <1>6, <1>11, <1>12, <1>13, PutsBytes

LEMMA EndRefines ==
  ASSUME DataTypeOK, DataIInv, DataTypeOK', DataIInv', NEW p \in IoProcs, writei_end(p)
  PROVE  Abstract!BytesNext
  <1> DEFINE c == wr[p]
  <1>1. /\ disk' = disk /\ home' = home /\ Busy(p)
        /\ inode' = [inode EXCEPT ![Ino(p)].size = IF c.off > @ THEN c.off ELSE @]
    BY DEF writei_end, Busy, Ino
  <1>2. c \in Call /\ c.f \in OpenFiles /\ c.v \in ByteValues /\ Ino(p) \in FileInodes
    BY <1>1, DataAssumption DEF DataTypeOK, DataIInv, CallInv, Busy, Ino, DataAssumption
  <1>3. PICK j \in FileInodes : j = Ino(p)
    BY <1>2
  <1>4. PICK v \in ByteValues : v = c.v
    BY <1>2
  <1>5. PICK o \in Nat : o = c.off
    BY <1>2 DEF Call
  <1> DEFINE size == inode[j].size
  <1>6. /\ size \in Nat /\ size <= MaxBytes /\ off[c.f] \in Nat /\ off[c.f] <= size /\ o <= MaxBytes
        /\ \A k \in off[c.f]..o-1 : Byte(j, k) = v /\ SavedByte(j, k) = v
    <2>1. Piece(p) /\ c.tot \in Nat /\ c.n1 \in Nat /\ off[c.f] \in Nat
      BY <1>1, <1>2 DEF DataIInv, PieceInv, Call, DataTypeOK
    <2>2. size \in Nat /\ size <= MaxBytes
      BY DEF DataTypeOK, InodeRec, DataIInv, SizeInv
    <2>3. o <= MaxBytes
      BY <1>5, <2>1, MaxBytesNat DEF Piece
    <2> QED BY <1>3, <1>4, <1>5, <2>1, <2>2, <2>3 DEF Piece, Byte, SavedByte
  <1>7. /\ inode'[j].size = (IF o > size THEN o ELSE size) /\ inode'[j].addrs = inode[j].addrs
        /\ \A l \in FileInodes : l # j => inode'[l] = inode[l]
    BY <1>1, <1>3, <1>5 DEF DataTypeOK, InodeRec
  <1>8. \A l, k : Byte(l, k)' = Byte(l, k) /\ SavedByte(l, k)' = SavedByte(l, k)
    <2>1. \A l \in FileInodes : inode'[l].addrs = inode[l].addrs
      BY <1>7
    <2>2. \A l, k : ByteBlock(l, k)' = ByteBlock(l, k)
      BY <1>1, <2>1, TreeSame
    <2> QED BY <1>1, <2>2 DEF Byte, SavedByte
  <1>9. Others(j)
    BY <1>7, <1>8 DEF Bytes, SavedBytes, Others
  <1>10. PICK at \in 0..size : at = size
    BY <1>6
  <1>11. PICK n \in 0..MaxBytes : at + n = IF o > size THEN o ELSE size
    <2> DEFINE m == IF o > size THEN o - size ELSE 0
    <2> HIDE DEF size
    <2>1. m \in 0..MaxBytes /\ at + m = IF o > size THEN o ELSE size
      BY <1>6, <1>10, MaxBytesNat
    <2> HIDE DEF m
    <2> QED BY <2>1
  <1>12. inode'[j].size = IF at + n > inode[j].size THEN at + n ELSE inode[j].size
    BY <1>6, <1>7, <1>11
  <1>13. \A k \in 0..inode'[j].size-1 :
           Byte(j, k)' = IF at <= k /\ k < at + n THEN v ELSE Byte(j, k)
    <2> SUFFICES ASSUME NEW k \in 0..inode'[j].size-1
                 PROVE  Byte(j, k)' = IF at <= k /\ k < at + n THEN v ELSE Byte(j, k)
      OBVIOUS
    <2>1. ASSUME at <= k, k < at + n
          PROVE  Byte(j, k) = v
      <3>1. k \in off[c.f]..o-1
        BY <1>6, <1>7, <1>10, <1>11, <2>1
      <3> QED BY <1>6, <3>1
    <2> QED BY <1>8, <2>1
  <1>14. \A k \in 0..inode'[j].size-1 :
           \/ SavedByte(j, k)' = Byte(j, k)'
           \/ k < inode[j].size /\ SavedByte(j, k)' = SavedByte(j, k)
    <2> SUFFICES ASSUME NEW k \in 0..inode'[j].size-1, ~(k < size)
                 PROVE  SavedByte(j, k)' = Byte(j, k)'
      BY <1>8
    <2>1. k \in off[c.f]..o-1
      BY <1>6, <1>7
    <2> QED BY <1>6, <1>8, <2>1
  <1> QED BY <1>9, <1>12, <1>13, <1>14, PutsBytes

LEMMA ItruncRefines ==
  ASSUME DataTypeOK, DataIInv, DataTypeOK', DataIInv', NEW p \in IoProcs, NEW i \in FileInodes,
         itrunc(p, i)
  PROVE  Abstract!BytesNext
  <1>1. /\ disk' = disk /\ home' = home
        /\ inode' = [inode EXCEPT ![i] = [size |-> 0, addrs |-> [k \in 0..NDIRECT |-> 0]]]
    BY DEF itrunc
  <1>2. inode'[i].size = 0 /\ \A j \in FileInodes : j # i => inode'[j] = inode[j]
    BY <1>1 DEF DataTypeOK
  <1>3. ContentIn(disk, i)' = <<>> /\ ContentIn(home, i)' = <<>>
    <2>1. 1..0 = {}
      OBVIOUS
    <2> QED BY <1>2, <2>1 DEF ContentIn
  <1>4. \A j \in FileInodes : j # i => /\ ContentIn(disk, j)' = ContentIn(disk, j)
                                       /\ ContentIn(home, j)' = ContentIn(home, j)
    BY <1>1, <1>2 DEF ContentIn, AddrOf
  <1>5. Contents' = [Contents EXCEPT ![i] = <<>>] /\ SavedContents' = [SavedContents EXCEPT ![i] = <<>>]
    BY <1>3, <1>4 DEF Contents, SavedContents
  <1>6. Abstract!Truncate(i)
    BY <1>5 DEF Abstract!Truncate, Contents, SavedContents
  <1> QED BY <1>6 DEF Abstract!BytesNext

LEMMA RecycleRefines ==
  ASSUME DataTypeOK, DataIInv, DataTypeOK', DataIInv', NEW b \in Blocks, bget_recycles(b)
  PROVE  Abstract!BytesNext \/ (Contents' = Contents /\ SavedContents' = SavedContents)
  <1> DEFINE A == Tree(disk, inode)
  <1>1. /\ UNCHANGED <<home, inode>> /\ Tree(disk', inode') = A
        /\ \A x \in Blocks : disk'[x] = IF x = b THEN home[b] ELSE disk[x]
    BY RecycleTree
  <1>2. \A j, k : ByteBlock(j, k)' = ByteBlock(j, k)
    BY <1>1 DEF ByteBlock
  <1>3. \A j \in FileInodes : SavedBytes(j)' = SavedBytes(j) /\ inode'[j].size = inode[j].size
    BY <1>1, <1>2 DEF SavedBytes, SavedByte
  <1>4. ASSUME NEW j \in FileInodes, NEW k \in 0..inode[j].size-1
        PROVE  /\ Byte(j, k)' = IF ByteBlock(j, k) = b THEN SavedByte(j, k) ELSE Byte(j, k)
               /\ SlotOf(k \div BSIZE) \in Slots /\ b # 0
    <2>1. k \in 0..MaxBytes-1 /\ ByteBlock(j, k) # 0
      BY MaxBytesNat DEF DataTypeOK, InodeRec, DataIInv, SizeInv
    <2>2. ByteBlock(j, k) \in Blocks /\ SlotOf(k \div BSIZE) \in Slots
      BY <2>1, ByteBlockType
    <2>3. Byte(j, k)' = disk'[ByteBlock(j, k)][k % BSIZE]
      BY <1>2 DEF Byte
    <2> QED BY <1>1, <2>2, <2>3, BlocksNat DEF Byte, SavedByte
  <1>5. ASSUME NEW j \in FileInodes, \A k \in Slots : A[j][k] # b
        PROVE  Bytes(j)' = Bytes(j)
    <2>1. \A k \in 0..inode[j].size-1 : Byte(j, k)' = Byte(j, k)
      BY <1>4, <1>5 DEF ByteBlock
    <2>2. \A x \in 1..inode[j].size : Byte(j, x - 1)' = Byte(j, x - 1)
      BY <2>1 DEF DataTypeOK, InodeRec
    <2> QED BY <1>3, <2>2 DEF Bytes
  <1>6. CASE \E j \in FileInodes, k \in Slots : A[j][k] = b
    <2>1. PICK j \in FileInodes, k \in Slots : A[j][k] = b
      BY <1>6
    <2>2. Accounted(used, A) /\ b # 0
      BY BlocksNat DEF DataIInv, AccountInv
    <2> HIDE DEF A
    <2>3. \A l \in FileInodes : l # j => \A m \in Slots : A[l][m] # b
      BY <2>1, <2>2 DEF Accounted
    <2>4. Others(j)
      BY <1>3, <1>5, <2>3 DEF Others
    <2>5. \A m \in 0..inode[j].size-1 : Byte(j, m)' = Byte(j, m) \/ Byte(j, m)' = SavedByte(j, m)
      BY <1>4
    <2> QED BY <1>3, <2>4, <2>5, ForgetsBytes
  <1>7. CASE \A j \in FileInodes, k \in Slots : A[j][k] # b
    <2>1. \A j \in FileInodes : Bytes(j)' = Bytes(j)
      BY <1>5, <1>7
    <2>2. /\ Contents = [j \in FileInodes |-> Bytes(j)]
          /\ SavedContents = [j \in FileInodes |-> SavedBytes(j)]
      BY ContentBytes
    <2>3. /\ Contents' = [j \in FileInodes |-> Bytes(j)']
          /\ SavedContents' = [j \in FileInodes |-> SavedBytes(j)']
      BY ContentBytesNext
    <2> QED BY <1>3, <2>1, <2>2, <2>3
  <1> QED BY <1>6, <1>7

\* The contents of files, through direct and indirect blocks, implement the
\* sequences of bytes of FileBytes: each step of writei puts bytes of the
\* write's value into one file, at or before its end (the first of them when
\* copyin fails halfway), itrunc empties one file, a buffer that is recycled
\* takes back bytes that no log has, of one file, and nothing else shows.
THEOREM FilesAreBytesHolds == DataSpec => FilesAreBytes
  <1>1. DataInit => Abstract!BytesInit
    <2> SUFFICES ASSUME DataInit
                 PROVE  Abstract!BytesInit
      OBVIOUS
    <2>1. 1..0 = {}
      OBVIOUS
    <2>2. \A j \in FileInodes : inode[j].size = 0
      BY DEF DataInit
    <2>3. \A j \in FileInodes : ContentIn(disk, j) = <<>> /\ ContentIn(home, j) = <<>>
      BY <2>1, <2>2 DEF ContentIn
    <2> QED BY <2>3 DEF Abstract!BytesInit
  <1>2. /\ DataTypeOK /\ DataIInv /\ (DataTypeOK /\ DataIInv)' /\ [DataNext]_datavars
        => [Abstract!BytesNext]_<<[i \in FileInodes |-> ContentIn(disk, i)],
                                 [i \in FileInodes |-> ContentIn(home, i)]>>
    <2> SUFFICES ASSUME DataTypeOK, DataIInv, DataTypeOK', DataIInv', [DataNext]_datavars
                 PROVE  Abstract!BytesNext \/ (Contents' = Contents /\ SavedContents' = SavedContents)
      BY DEF Contents, SavedContents
    <2>1. ASSUME UNCHANGED <<disk, home, inode>>
          PROVE  Contents' = Contents /\ SavedContents' = SavedContents
      BY <2>1 DEF Contents, SavedContents, ContentIn, AddrOf
    <2>2. ASSUME NEW p \in IoProcs, NEW i \in FileInodes, itrunc(p, i)
          PROVE  Abstract!BytesNext
      BY <2>2, ItruncRefines
    <2>3. ASSUME NEW p \in IoProcs, writei_turn(p)
          PROVE  Abstract!BytesNext
      BY <2>3, TurnRefines
    <2>4. ASSUME NEW p \in IoProcs, writei_end(p)
          PROVE  Abstract!BytesNext
      BY <2>4, EndRefines
    <2>5. ASSUME NEW p \in IoProcs, NEW f \in OpenFiles, NEW n \in Sizes,
                 fileread(p, f, n) \/ \E v \in ByteValues : filewrite(p, f, n, v)
          PROVE  UNCHANGED <<disk, home, inode>>
      BY <2>5 DEF fileread, filewrite
    <2>6. ASSUME NEW p \in IoProcs, writei(p)
          PROVE  UNCHANGED <<disk, home, inode>>
      BY <2>6 DEF writei
    <2>7. ASSUME NEW b \in Blocks, bget_recycles(b)
          PROVE  Abstract!BytesNext \/ (Contents' = Contents /\ SavedContents' = SavedContents)
      BY <2>7, RecycleRefines
    <2>8. UNCHANGED datavars => UNCHANGED <<disk, home, inode>>
      BY DEF datavars
    <2> QED BY <2>1, <2>2, <2>3, <2>4, <2>5, <2>6, <2>7, <2>8 DEF DataNext, DataDone
  <1> QED BY <1>1, <1>2, DataInvariant, PTL DEF DataSpec, FilesAreBytes, Abstract!BytesSpec
=============================================================================
