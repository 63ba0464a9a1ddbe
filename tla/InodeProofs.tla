---------------------------- MODULE InodeProofs ----------------------------
(***************************************************************************)
(* Proofs about Inode, for every number of processes, names, inodes and    *)
(* entries of the inode table: reference counts are exact, the table and   *)
(* the disk agree, links cover names, and no panic is reached but that of  *)
(* a full inode table.                                                     *)
(*                                                                         *)
(* Paths with ".." are left out (GoodPaths), and have to be: the ".." of a *)
(* removed directory may name an inode that has been freed, and ilock then *)
(* panics (see the run fs_dotdot).  A run of namex down a path without it  *)
(* only meets inodes that a name or a pointer keeps.                       *)
(***************************************************************************)
EXTENDS Inode, ModArith, FiniteSetTheorems, SequenceTheorems, TLAPS

-----------------------------------------------------------------------------
(* The inductive invariant.                                                *)

\* A path without "..", and with "/" at its head only.
GoodPath(path) == /\ path \in Seq(Names \cup {".", "/"})
                  /\ \A j \in 2..Len(path) : path[j] # "/"
GoodPaths == \A path \in FsPaths : GoodPath(path)

Comps == Names \cup {"."}

Putting == {"iput", "itrunc", "ifree"}
Conts == {"user", "namex", "create2", "createfail", "open2", "created", "chdir2",
          "linktaken", "link3", "linkbad", "unlinkbad", "unlink3"}
Walks == {"namex0", "namex"}
DpOnly == {"create1", "ialloc", "createfail", "unlink1", "unlinkbad"}
IpDp == {"create3", "link2", "linktaken", "unlink2"}
IpOnly == {"created", "create2", "open", "open2", "chdir", "chdir2", "link1", "link3",
           "linkbad", "unlink3"}
Parents == {"create1", "unlink1", "link2"}
Finds == {"create1", "open", "chdir", "unlink1", "link1", "link2"}
HoldsDp == {"ialloc", "create3", "createfail", "unlink2", "unlinkbad", "linktaken"}
HoldsIp == {"open2", "created", "unlink3"}

\* Where a call is, the iput it may be in the middle of left aside.
Place(l) == IF l.pc \in Putting THEN l.k ELSE l.pc

\* A link counted in nlink that no name stands for yet, or any more.
Linking(l) == \/ Place(l) \in {"link2", "linktaken", "linkbad"}
              \/ Place(l) \in Walks /\ l.nk = "link2"
Pending(l) == Linking(l) \/ Place(l) = "unlink3"

HasIp(l) == \/ Place(l) \in IpDp \cup IpOnly
            \/ Place(l) \in Walks /\ l.nk = "link2"

Creating(l) == \/ Place(l) \in {"create1", "create2", "ialloc", "create3", "createfail"}
               \/ Place(l) \in Walks /\ l.nk = "create1"

Pcs == {"user"} \cup Putting \cup Walks \cup DpOnly \cup IpDp \cup IpOnly

LocType == [pc : Pcs, call : Creates \cup {"", "open", "openw"}, name : Comps \cup {""},
            rest : Seq(Names \cup {".", "/"}), new : Seq(Names \cup {".", "/"}),
            cur : 0..NINODE, ip : 0..NINODE, dp : 0..NINODE, vic : 0..NINODE,
            parent : BOOLEAN, k : Conts \cup {""}, nk : Finds \cup {""}]

\* Which pointers a call has at each place, and what it remembers there.
Shape(l) ==
  /\ l.vic # 0 <=> l.pc \in Putting
  /\ l.pc \in Putting => l.k \in Conts
  /\ l.cur # 0 <=> Place(l) = "namex"
  /\ l.dp # 0 <=> Place(l) \in DpOnly \cup IpDp
  /\ l.ip # 0 <=> HasIp(l)
  /\ Place(l) \in Walks => l.nk \in Finds /\ (l.parent <=> l.nk \in Parents)
  /\ Creating(l) => l.call \in Creates
  /\ l.dp # 0 => l.name \in Comps
  /\ Place(l) = "link1" \/ (Place(l) \in Walks /\ l.nk = "link1") => GoodPath(l.new)
  /\ Place(l) = "namex0" => GoodPath(l.rest)
  /\ Place(l) = "namex" => l.rest \in Seq(Comps)
  /\ l.pc = "unlink2" => l.name \in Names

Entry == [inum : 0..NINODES, ref : Nat, valid : BOOLEAN, type : Types, nlink : Int]
Dinode == [type : Types, nlink : Nat, ents : [Names \cup {".", ".."} -> 0..NINODES], holes : Nat]

TypeInv ==
  /\ dinode \in [Inums -> Dinode]
  /\ itable \in [Slots -> Entry]
  /\ ilk \in [Slots -> FsProcs \cup {NoProc}]
  /\ ftable \in [Files -> 0..NINODE]
  /\ ofile \in [FsProcs -> 0..NFILE]
  /\ cwd \in [FsProcs -> 0..NINODE]
  /\ loc \in [FsProcs -> LocType]

ShapeP(p) == Shape(loc[p]) /\ (cwd[p] # 0 <=> Place(loc[p]) # "chdir2")

\* An open file is the file of exactly one process.
FilesInv ==
  /\ \A f \in Files : ftable[f] # 0 => \E p \in FsProcs : ofile[p] = f
  /\ \A p \in FsProcs : ofile[p] # 0 => ftable[ofile[p]] # 0
  /\ \A p, q \in FsProcs : ofile[p] # 0 /\ ofile[p] = ofile[q] => p = q

\* The sleep-locks are held by the calls at the places where the code has them.
LockP(p) ==
    /\ Place(loc[p]) \in HoldsDp => ilk[loc[p].dp] = p
    /\ Place(loc[p]) \in HoldsIp => ilk[loc[p].ip] = p
    /\ loc[p].pc = "itrunc" => ilk[loc[p].vic] = p
    /\ \A s \in Slots : ilk[s] = p =>
         \/ Place(loc[p]) \in HoldsDp /\ s = loc[p].dp
         \/ Place(loc[p]) \in HoldsIp /\ s = loc[p].ip
         \/ loc[p].pc = "itrunc" /\ s = loc[p].vic

\* The pointers to inodes that a process has.
Tags == {"cur", "ip", "dp", "vic", "cwd", "file"}
Ptrs == FsProcs \X Tags
FileOf(p) == IF ofile[p] = 0 THEN 0 ELSE ftable[ofile[p]]
To(x) == CASE x[2] = "cur" -> loc[x[1]].cur
           [] x[2] = "ip" -> loc[x[1]].ip
           [] x[2] = "dp" -> loc[x[1]].dp
           [] x[2] = "vic" -> loc[x[1]].vic
           [] x[2] = "cwd" -> cwd[x[1]]
           [] x[2] = "file" -> FileOf(x[1])
Held == [x \in Ptrs |-> To(x)]
Count(h, s) == Cardinality({x \in Ptrs : h[x] = s})

RefInv == \A s \in Slots : itable[s].ref = Count(Held, s)

\* An inode has at most one entry, a valid one agrees with the disk, and an
\* entry is not valid once its inode has been freed.
Coh(t, dn) ==
  \A s \in Slots : t[s].ref > 0 =>
    /\ t[s].inum \in Inums
    /\ \A u \in Slots \ {s} : t[u].ref > 0 => t[u].inum # t[s].inum
    /\ t[s].valid => /\ t[s].type = dn[t[s].inum].type
                     /\ t[s].nlink = dn[t[s].inum].nlink
                     /\ t[s].type # "free"

CohInv == Coh(itable, dinode)

\* The inode an entry stands for.
Node(s) == dinode[itable[s].inum]

\* A pointer that iput has still to drop from a freed inode.
Gone(x) == x[2] = "vic" /\ loc[x[1]].pc = "ifree"

Live(s) == Node(s).type # "free"
Dot(s) == Node(s).type = "dir" => Node(s).ents["."] = itable[s].inum

\* Nobody refers to a freed inode, and directories in use know themselves.
LiveP(p) ==
  /\ loc[p].cur # 0 => Live(loc[p].cur) /\ Dot(loc[p].cur)
  /\ loc[p].ip # 0 => Live(loc[p].ip) /\ (loc[p].pc # "create3" => Dot(loc[p].ip))
  /\ loc[p].dp # 0 => Live(loc[p].dp) /\ Dot(loc[p].dp)
  /\ loc[p].vic # 0 /\ loc[p].pc # "ifree" => Live(loc[p].vic)
  /\ cwd[p] # 0 => Live(cwd[p]) /\ Dot(cwd[p])
  /\ FileOf(p) # 0 => Live(FileOf(p)) /\ Dot(FileOf(p))

\* s has no user but x.
Alone(x, s) == /\ To(x) = s
               /\ Node(s).nlink = 0
               /\ \A y \in Ptrs : To(y) = s => y = x \/ Gone(y)

\* What a process knows of its inodes between two steps.
KnowP(p) ==
    /\ loc[p].dp # 0 => Node(loc[p].dp).type = "dir"
    /\ Linking(loc[p]) => Node(loc[p].ip).type # "dir"
    /\ loc[p].pc \in {"ialloc", "create3"} => Node(loc[p].dp).ents[loc[p].name] = 0
    /\ loc[p].pc = "unlink2" => Node(loc[p].dp).ents[loc[p].name] = itable[loc[p].ip].inum
    /\ loc[p].pc = "itrunc" => Alone(<<p, "vic">>, loc[p].vic)
    /\ loc[p].pc = "create3" =>
         /\ Alone(<<p, "ip">>, loc[p].ip)
         /\ Node(loc[p].ip) = NewInode(NewType[loc[p].call])

Root(i) == IF i = ROOTINO THEN 1 ELSE 0
Pends(i) == {p \in FsProcs : Pending(loc[p]) /\ itable[loc[p].ip].inum = i}

DiskInv ==
  /\ dinode[ROOTINO].type = "dir"
  /\ \A i \in Inums :
       /\ dinode[i].type = "free" => dinode[i] = NewInode("free")
       /\ dinode[i].type = "dir" /\ dinode[i].nlink > 0 => dinode[i].ents["."] = i
       /\ \A n \in Names : dinode[i].ents[n] # 0 => dinode[dinode[i].ents[n]].type # "free"

LinkInv ==
  \A i \in Inums : dinode[i].nlink >= Cardinality(NamesOf(i)) + Cardinality(Subdirs(i))
                                      + Cardinality(Pends(i)) + Root(i)

ProcInv == \A p \in FsProcs : ShapeP(p) /\ LockP(p) /\ LiveP(p) /\ KnowP(p)

FsInv == TypeInv /\ ProcInv /\ FilesInv /\ RefInv /\ CohInv /\ DiskInv /\ LinkInv

-----------------------------------------------------------------------------
(* Counting pointers.                                                      *)

\* The assumption on the constants, in the form the provers want it.
LEMMA Consts ==
  /\ IsFiniteSet(FsProcs) /\ NoProc \notin FsProcs
  /\ IsFiniteSet(Names) /\ Names \cap {".", "..", "/"} = {}
  /\ NINODES \in Nat \ {0} /\ NINODE \in Nat \ {0} /\ NFILE \in Nat
  BY InodeAssumption

\* There are finitely many pointers.
LEMMA PtrsFinite == IsFiniteSet(Ptrs)
  <1>1. IsFiniteSet({"cur"} \cup {"ip"} \cup {"dp"} \cup {"vic"} \cup {"cwd"} \cup {"file"})
    BY FS_Singleton, FS_Union
  <1>2. Tags = {"cur"} \cup {"ip"} \cup {"dp"} \cup {"vic"} \cup {"cwd"} \cup {"file"}
    BY DEF Tags
  <1> QED BY <1>1, <1>2, Consts, FS_Product DEF Ptrs

\* Pointers to an entry can be counted.
LEMMA CountNat ==
  ASSUME NEW h, NEW s
  PROVE  /\ IsFiniteSet({x \in Ptrs : h[x] = s})
         /\ Count(h, s) \in Nat
  BY PtrsFinite, FS_Subset, FS_CardinalityType DEF Count

\* One more pointer to v, from a, which was free.
LEMMA CountTook ==
  ASSUME NEW h, NEW h2, NEW a \in Ptrs, NEW v,
         h[a] = 0, h2[a] = v, v # 0, \A x \in Ptrs \ {a} : h2[x] = h[x]
  PROVE  \A u : u # 0 => Count(h2, u) = IF u = v THEN Count(h, u) + 1 ELSE Count(h, u)
  <1> SUFFICES ASSUME NEW u, u # 0
               PROVE  Count(h2, u) = IF u = v THEN Count(h, u) + 1 ELSE Count(h, u)
    OBVIOUS
  <1> DEFINE S == {x \in Ptrs : h[x] = u}
             T == {x \in Ptrs : h2[x] = u}
  <1>1. IsFiniteSet(S)
    BY CountNat
  <1>2. CASE u = v
    <2>1. T = S \cup {a} /\ a \notin S
      BY <1>2
    <2> HIDE DEF S, T
    <2>2. Cardinality(T) = Cardinality(S) + 1
      BY <1>1, <2>1, FS_AddElement
    <2> QED BY <1>2, <2>2 DEF Count, S, T
  <1>3. CASE u # v
    <2>1. T = S
      BY <1>3
    <2> QED BY <1>3, <2>1 DEF Count
  <1> QED BY <1>2, <1>3

\* One pointer to v less.
LEMMA CountDropped ==
  ASSUME NEW h, NEW h2, NEW a \in Ptrs, NEW v,
         h[a] = v, h2[a] = 0, v # 0, \A x \in Ptrs \ {a} : h2[x] = h[x]
  PROVE  \A u : u # 0 => Count(h2, u) = IF u = v THEN Count(h, u) - 1 ELSE Count(h, u)
  <1> SUFFICES ASSUME NEW u, u # 0
               PROVE  Count(h2, u) = IF u = v THEN Count(h, u) - 1 ELSE Count(h, u)
    OBVIOUS
  <1>1. \A w : w # 0 => Count(h, w) = IF w = v THEN Count(h2, w) + 1 ELSE Count(h2, w)
    BY CountTook
  <1>2. Count(h, u) \in Nat /\ Count(h2, u) \in Nat
    BY CountNat
  <1> QED BY <1>1, <1>2

\* A pointer moves from a to b.
LEMMA CountMoved ==
  ASSUME NEW h, NEW h2, NEW a \in Ptrs, NEW b \in Ptrs, a # b, NEW v,
         h[a] = v, h[b] = 0, h2[a] = 0, h2[b] = v, v # 0, \A x \in Ptrs \ {a, b} : h2[x] = h[x]
  PROVE  \A u : u # 0 => Count(h2, u) = Count(h, u)
  <1> SUFFICES ASSUME NEW u, u # 0 PROVE Count(h2, u) = Count(h, u)
    OBVIOUS
  <1> DEFINE m == [x \in Ptrs |-> IF x = a THEN 0 ELSE h[x]]
  <1>1. m[a] = 0 /\ m[b] = 0 /\ \A x \in Ptrs \ {a} : m[x] = h[x]
    OBVIOUS
  <1>2. \A x \in Ptrs \ {b} : h2[x] = m[x]
    OBVIOUS
  <1> HIDE DEF m
  <1>3. Count(m, u) = IF u = v THEN Count(h, u) - 1 ELSE Count(h, u)
    BY <1>1, CountDropped
  <1>4. Count(h2, u) = IF u = v THEN Count(m, u) + 1 ELSE Count(m, u)
    BY <1>1, <1>2, CountTook
  <1>5. Count(h, u) \in Nat /\ Count(m, u) \in Nat
    BY CountNat
  <1> QED BY <1>3, <1>4, <1>5

\* The same pointers, the same count.
LEMMA CountSame ==
  ASSUME NEW h, NEW h2, \A x \in Ptrs : h2[x] = h[x]
  PROVE  \A u : Count(h2, u) = Count(h, u)
  <1>1. \A u : {x \in Ptrs : h2[x] = u} = {x \in Ptrs : h[x] = u}
    OBVIOUS
  <1> QED BY <1>1 DEF Count

\* A counted entry has a pointer, and an entry counted once has only one.
LEMMA CountPos ==
  ASSUME NEW h, NEW s
  PROVE  /\ \A x \in Ptrs : h[x] = s => Count(h, s) > 0
         /\ Count(h, s) > 0 => \E x \in Ptrs : h[x] = s
         /\ Count(h, s) = 1 => \A x, y \in Ptrs : h[x] = s /\ h[y] = s => x = y
  <1> DEFINE S == {x \in Ptrs : h[x] = s}
  <1>1. IsFiniteSet(S) /\ Cardinality(S) \in Nat /\ Count(h, s) = Cardinality(S)
    BY CountNat DEF Count
  <1>2. \A x \in Ptrs : h[x] = s <=> x \in S
    OBVIOUS
  <1> HIDE DEF S
  <1>3. Cardinality(S) = 0 <=> S = {}
    BY <1>1, FS_EmptySet
  <1>4. Cardinality(S) = 1 => \E x : S = {x}
    BY <1>1, FS_Singleton
  <1>5. \A x \in S : x \in Ptrs
    BY DEF S
  <1> QED BY <1>1, <1>2, <1>3, <1>4, <1>5

-----------------------------------------------------------------------------
(* What a step does to the pointers.                                       *)

KSame == \A x \in Ptrs : To(x)' = To(x)
KTook(a, g) == /\ To(a) = 0 /\ To(a)' = g /\ g # 0
               /\ \A x \in Ptrs \ {a} : To(x)' = To(x)
KDropped(a) == /\ To(a) # 0 /\ To(a)' = 0
               /\ \A x \in Ptrs \ {a} : To(x)' = To(x)
KMoved(a, b) == /\ To(a) # 0 /\ To(b) = 0 /\ To(a)' = 0 /\ To(b)' = To(a) /\ a # b
                /\ \A x \in Ptrs \ {a, b} : To(x)' = To(x)
KMovedTook(a, b, c, g) ==
  /\ To(a) # 0 /\ To(b) = 0 /\ To(b)' = To(a) /\ To(c)' = g /\ g # 0 /\ a # b /\ b # c
  /\ c # a => To(c) = 0 /\ To(a)' = 0
  /\ \A x \in Ptrs \ {a, b, c} : To(x)' = To(x)

RefsUp(g) == \A s \in Slots : itable'[s].ref = IF s = g THEN itable[s].ref + 1 ELSE itable[s].ref
RefsDown(g) == \A s \in Slots : itable'[s].ref = IF s = g THEN itable[s].ref - 1 ELSE itable[s].ref
RefsSame == \A s \in Slots : itable'[s].ref = itable[s].ref

\* Held is the table of all pointers.
LEMMA HeldIs == \A x \in Ptrs : Held[x] = To(x) /\ Held'[x] = To(x)'
  BY DEF Held

\* 0 is no entry of the inode table.
LEMMA SlotPos == \A s \in Slots : s # 0 /\ s \in 0..NINODE
  BY Consts DEF Slots

\* A step that moves no pointer and changes no count.
LEMMA RefSame ==
  ASSUME RefInv, KSame, RefsSame
  PROVE  RefInv'
  <1>1. \A x \in Ptrs : Held'[x] = Held[x]
    BY HeldIs DEF KSame
  <1>2. \A u : Count(Held', u) = Count(Held, u)
    BY <1>1, CountSame
  <1> QED BY <1>2 DEF RefInv, RefsSame

\* A step that moves a pointer from a to b.
LEMMA RefMoved ==
  ASSUME RefInv, NEW a \in Ptrs, NEW b \in Ptrs, KMoved(a, b), RefsSame
  PROVE  RefInv'
  <1>1. /\ Held[a] = To(a) /\ Held[b] = 0 /\ Held'[a] = 0 /\ Held'[b] = To(a) /\ To(a) # 0 /\ a # b
        /\ \A x \in Ptrs \ {a, b} : Held'[x] = Held[x]
    BY HeldIs DEF KMoved
  <1>2. \A u : u # 0 => Count(Held', u) = Count(Held, u)
    BY ONLY a \in Ptrs, b \in Ptrs, <1>1, CountMoved
  <1> QED BY <1>2, SlotPos DEF RefInv, RefsSame

\* A step that takes a reference, as iget and idup do.
LEMMA RefTook ==
  ASSUME RefInv, NEW a \in Ptrs, NEW g, KTook(a, g), RefsUp(g)
  PROVE  RefInv'
  <1>1. /\ Held[a] = 0 /\ Held'[a] = g /\ g # 0
        /\ \A x \in Ptrs \ {a} : Held'[x] = Held[x]
    BY HeldIs DEF KTook
  <1>2. \A u : u # 0 => Count(Held', u) = IF u = g THEN Count(Held, u) + 1 ELSE Count(Held, u)
    BY ONLY a \in Ptrs, <1>1, CountTook
  <1> QED BY <1>2, SlotPos DEF RefInv, RefsUp

\* A step that drops a reference, as iput does.
LEMMA RefDropped ==
  ASSUME RefInv, NEW a \in Ptrs, KDropped(a), RefsDown(To(a))
  PROVE  RefInv'
  <1>1. /\ Held[a] = To(a) /\ Held'[a] = 0 /\ To(a) # 0
        /\ \A x \in Ptrs \ {a} : Held'[x] = Held[x]
    BY HeldIs DEF KDropped
  <1>2. \A u : u # 0 => Count(Held', u) = IF u = To(a) THEN Count(Held, u) - 1 ELSE Count(Held, u)
    BY ONLY a \in Ptrs, <1>1, CountDropped
  <1> QED BY <1>2, SlotPos DEF RefInv, RefsDown

\* A step that moves a pointer out of the way of a new one.
LEMMA RefMovedTook ==
  ASSUME RefInv, NEW a \in Ptrs, NEW b \in Ptrs, NEW c \in Ptrs, NEW g,
         KMovedTook(a, b, c, g), RefsUp(g)
  PROVE  RefInv'
  <1>1. /\ Held[a] = To(a) /\ Held[b] = 0 /\ (c # a => Held[c] = 0 /\ Held'[a] = 0)
        /\ Held'[b] = To(a) /\ Held'[c] = g /\ To(a) # 0 /\ g # 0 /\ a # b /\ b # c
        /\ \A x \in Ptrs \ {a, b, c} : Held'[x] = Held[x]
    BY HeldIs DEF KMovedTook
  <1>2. \A u : u # 0 => Count(Held', u) = IF u = g THEN Count(Held, u) + 1 ELSE Count(Held, u)
    <2>1. PICK h, h2, v : h = Held /\ h2 = Held' /\ v = To(a)
      OBVIOUS
    <2>2. /\ h[a] = v /\ h[b] = 0 /\ (c # a => h[c] = 0 /\ h2[a] = 0) /\ h2[c] = g /\ h2[b] = v
          /\ v # 0 /\ g # 0 /\ a # b /\ b # c /\ \A x \in Ptrs \ {a, b, c} : h2[x] = h[x]
      BY <1>1, <2>1
    <2> DEFINE m == [x \in Ptrs |-> IF x = a THEN 0 ELSE IF x = b THEN v ELSE h[x]]
    <2>3. m[a] = 0 /\ m[b] = v /\ m[c] = 0 /\ \A x \in Ptrs \ {a, b} : m[x] = h[x]
      BY <2>2
    <2>4. \A x \in Ptrs \ {c} : h2[x] = m[x]
      BY <2>2
    <2> HIDE DEF m
    <2>5. \A u : u # 0 => Count(m, u) = Count(h, u)
      BY <2>2, <2>3, CountMoved
    <2>6. \A u : u # 0 => Count(h2, u) = IF u = g THEN Count(m, u) + 1 ELSE Count(m, u)
      <3>1. m[c] = 0 /\ h2[c] = g /\ g # 0 /\ c \in Ptrs
        BY <2>2, <2>3
      <3> QED BY ONLY <2>4, <3>1, CountTook
    <2> QED BY <2>1, <2>5, <2>6
  <1> QED BY <1>2, SlotPos DEF RefInv, RefsUp

\* The pointers of a process, one by one.
LEMMA ToTag ==
  ASSUME NEW p \in FsProcs
  PROVE  /\ <<p, "cur">> \in Ptrs /\ To(<<p, "cur">>) = loc[p].cur
         /\ <<p, "ip">> \in Ptrs /\ To(<<p, "ip">>) = loc[p].ip
         /\ <<p, "dp">> \in Ptrs /\ To(<<p, "dp">>) = loc[p].dp
         /\ <<p, "vic">> \in Ptrs /\ To(<<p, "vic">>) = loc[p].vic
         /\ <<p, "cwd">> \in Ptrs /\ To(<<p, "cwd">>) = cwd[p]
         /\ <<p, "file">> \in Ptrs /\ To(<<p, "file">>) = FileOf(p)
  BY DEF Ptrs, Tags, To

\* The same after a step.
LEMMA ToTagNext ==
  ASSUME NEW p \in FsProcs
  PROVE  /\ To(<<p, "cur">>)' = loc'[p].cur
         /\ To(<<p, "ip">>)' = loc'[p].ip
         /\ To(<<p, "dp">>)' = loc'[p].dp
         /\ To(<<p, "vic">>)' = loc'[p].vic
         /\ To(<<p, "cwd">>)' = cwd'[p]
         /\ To(<<p, "file">>)' = FileOf(p)'
  BY DEF To

\* A pointer is one of the six that a process has.
LEMMA PtrCases ==
  ASSUME NEW x \in Ptrs
  PROVE  /\ x[1] \in FsProcs /\ x[2] \in Tags /\ x = <<x[1], x[2]>>
         /\ \/ x = <<x[1], "cur">> \/ x = <<x[1], "ip">> \/ x = <<x[1], "dp">>
            \/ x = <<x[1], "vic">> \/ x = <<x[1], "cwd">> \/ x = <<x[1], "file">>
  BY DEF Ptrs, Tags

\* A process that does nothing keeps its pointers.
Rest(p) == \A q \in FsProcs \ {p} : loc'[q] = loc[q] /\ cwd'[q] = cwd[q] /\ FileOf(q)' = FileOf(q)

\* A step of p leaves the pointers of the others alone.
LEMMA RestTo ==
  ASSUME NEW p \in FsProcs, Rest(p)
  PROVE  /\ \A x \in Ptrs : x[1] # p => To(x)' = To(x)
         /\ \A x \in Ptrs : x[1] # p => (Gone(x)' <=> Gone(x))
  <1> SUFFICES ASSUME NEW x \in Ptrs, x[1] # p PROVE To(x)' = To(x) /\ (Gone(x)' <=> Gone(x))
    OBVIOUS
  <1>1. x[1] \in FsProcs /\ x[1] # p
    BY PtrCases
  <1>2. loc'[x[1]] = loc[x[1]] /\ cwd'[x[1]] = cwd[x[1]] /\ FileOf(x[1])' = FileOf(x[1])
    BY <1>1 DEF Rest
  <1> QED BY <1>2 DEF To, Gone

-----------------------------------------------------------------------------
(* The inode table.                                                        *)

\* An entry in use keeps its inode.
Stable == \A s \in Slots : itable[s].ref > 0 => itable'[s].inum = itable[s].inum

\* What iget returns, on any table with the inode in it or room for it.
LEMMA GetFacts ==
  ASSUME NEW t \in [Slots -> Entry], NEW i \in Inums, InTable(t, i) # {} \/ Empty(t) # {},
         NEW g, g = iget(t, i).slot, NEW u, u = iget(t, i).table
  PROVE  /\ g \in Slots /\ u \in [Slots -> Entry]
         /\ u[g].inum = i /\ u[g].ref = t[g].ref + 1
         /\ \A s \in Slots \ {g} : u[s] = t[s]
         /\ t[g].ref > 0 => /\ t[g].inum = i /\ u[g].valid = t[g].valid
                            /\ u[g].type = t[g].type /\ u[g].nlink = t[g].nlink
         /\ t[g].ref = 0 => ~u[g].valid /\ \A s \in Slots : t[s].ref > 0 => t[s].inum # i
  <1>1. CASE InTable(t, i) # {}
    <2> DEFINE s == CHOOSE x \in InTable(t, i) : TRUE
    <2>1. s \in Slots /\ t[s].ref > 0 /\ t[s].inum = i
      BY <1>1 DEF InTable
    <2>2. g = s /\ u = [t EXCEPT ![s] = Shared(t[s])]
      BY <1>1 DEF iget
    <2> HIDE DEF s
    <2>3. t[s] \in Entry
      BY <2>1
    <2>4. Shared(t[s]) \in Entry
      BY <2>3 DEF Shared, Entry
    <2>5. u \in [Slots -> Entry] /\ u[s] = Shared(t[s]) /\ \A x \in Slots \ {s} : u[x] = t[x]
      BY <2>1, <2>2, <2>4
    <2>6. /\ u[s].inum = t[s].inum /\ u[s].ref = t[s].ref + 1 /\ u[s].valid = t[s].valid
          /\ u[s].type = t[s].type /\ u[s].nlink = t[s].nlink
      BY <2>3, <2>5 DEF Shared, Entry
    <2> QED BY <2>1, <2>2, <2>5, <2>6
  <1>2. CASE InTable(t, i) = {}
    <2> DEFINE s == CHOOSE x \in Empty(t) : \A y \in Empty(t) : x <= y
    <2>1. s \in Empty(t)
      <3>1. Empty(t) \subseteq Nat /\ Empty(t) # {}
        BY <1>2 DEF Empty, Slots
      <3>2. \E x \in Empty(t) : \A y \in Empty(t) : x <= y
        BY <3>1, HasSmallest
      <3> QED BY <3>2
    <2>2. g = s /\ u = [t EXCEPT ![s] = Recycled(t[s], i)]
      BY <1>2 DEF iget
    <2> HIDE DEF s
    <2>3. s \in Slots /\ t[s] \in Entry /\ t[s].ref = 0
      BY <2>1 DEF Empty
    <2>4. Recycled(t[s], i) \in Entry
      <3>1. i \in 0..NINODES
        BY Consts DEF Inums
      <3> QED BY <2>3, <3>1 DEF Recycled, Entry
    <2>5. u \in [Slots -> Entry] /\ u[s] = Recycled(t[s], i) /\ \A x \in Slots \ {s} : u[x] = t[x]
      BY <2>2, <2>3, <2>4
    <2>6. u[s].inum = i /\ u[s].ref = t[s].ref + 1 /\ u[s].valid = FALSE
      BY <2>3, <2>5 DEF Recycled, Entry
    <2>7. \A x \in Slots : t[x].ref > 0 => t[x].inum # i
      BY <1>2 DEF InTable
    <2> QED BY <2>2, <2>3, <2>5, <2>6, <2>7
  <1> QED BY <1>1, <1>2

\* iget keeps the table coherent.
LEMMA CohGet ==
  ASSUME NEW t \in [Slots -> Entry], NEW dn, Coh(t, dn), NEW i \in Inums,
         InTable(t, i) # {} \/ Empty(t) # {}
  PROVE  Coh(iget(t, i).table, dn)
  <1>1. PICK g, u : g = iget(t, i).slot /\ u = iget(t, i).table
    OBVIOUS
  <1>2. /\ g \in Slots /\ u \in [Slots -> Entry]
        /\ u[g].inum = i /\ u[g].ref = t[g].ref + 1
        /\ \A s \in Slots \ {g} : u[s] = t[s]
        /\ t[g].ref > 0 => /\ t[g].inum = i /\ u[g].valid = t[g].valid
                           /\ u[g].type = t[g].type /\ u[g].nlink = t[g].nlink
        /\ t[g].ref = 0 => ~u[g].valid /\ \A s \in Slots : t[s].ref > 0 => t[s].inum # i
    BY <1>1, GetFacts
  <1>3. t[g].ref \in Nat
    BY <1>2 DEF Entry
  <1>4. t[g].ref > 0 \/ t[g].ref = 0
    BY <1>3
  <1>5. \A s \in Slots \ {g} : t[s].ref > 0 => t[s].inum # i
    BY <1>2, <1>4 DEF Coh
  <1>6. Coh(u, dn)
    <2> SUFFICES ASSUME NEW s \in Slots, u[s].ref > 0
                 PROVE  /\ u[s].inum \in Inums
                        /\ \A x \in Slots \ {s} : u[x].ref > 0 => u[x].inum # u[s].inum
                        /\ u[s].valid => /\ u[s].type = dn[u[s].inum].type
                                         /\ u[s].nlink = dn[u[s].inum].nlink
                                         /\ u[s].type # "free"
      BY DEF Coh
    <2>1. CASE s = g
      BY <2>1, <1>2, <1>4, <1>5 DEF Coh
    <2>2. CASE s # g
      BY <2>2, <1>2, <1>4, <1>5 DEF Coh
    <2> QED BY <2>1, <2>2
  <1> QED BY <1>1, <1>6

\* What ilock leaves in an entry is what the disk has.
LEMMA LoadFacts ==
  ASSUME TypeInv, CohInv, NEW s \in Slots, itable[s].ref > 0
  PROVE  /\ Loaded(s) \in Entry
         /\ Loaded(s).inum = itable[s].inum /\ Loaded(s).ref = itable[s].ref /\ Loaded(s).valid
         /\ Loaded(s).type = Node(s).type /\ Loaded(s).nlink = Node(s).nlink
         /\ Node(s) \in Dinode /\ itable[s].inum \in Inums
  <1>1. itable[s] \in Entry /\ itable[s].inum \in Inums
    BY DEF TypeInv, CohInv, Coh
  <1>2. Node(s) \in Dinode
    BY <1>1 DEF TypeInv, Node
  <1>3. CASE itable[s].valid
    BY <1>1, <1>2, <1>3 DEF Loaded, CohInv, Coh, Node
  <1>4. CASE ~itable[s].valid
    <2>1. Loaded(s) = [itable[s] EXCEPT !.valid = TRUE, !.type = Node(s).type, !.nlink = Node(s).nlink]
      BY <1>4 DEF Loaded, Node
    <2>2. Node(s).type \in Types /\ Node(s).nlink \in Int
      BY <1>2 DEF Dinode
    <2> QED BY <1>1, <1>2, <2>1, <2>2 DEF Entry
  <1> QED BY <1>3, <1>4

\* ilock reads the inode: nobody sees a difference.
LEMMA TLoad ==
  ASSUME TypeInv, CohInv, NEW s \in Slots, itable[s].ref > 0, Loaded(s).type # "free",
         NEW t, t = [itable EXCEPT ![s] = Loaded(s)]
  PROVE  /\ t \in [Slots -> Entry] /\ Coh(t, dinode)
         /\ \A u \in Slots : t[u].inum = itable[u].inum /\ t[u].ref = itable[u].ref
         /\ \A i : InTable(t, i) = InTable(itable, i)
         /\ Empty(t) = Empty(itable)
  <1>1. /\ Loaded(s) \in Entry
        /\ Loaded(s).inum = itable[s].inum /\ Loaded(s).ref = itable[s].ref /\ Loaded(s).valid
        /\ Loaded(s).type = Node(s).type /\ Loaded(s).nlink = Node(s).nlink
    BY LoadFacts
  <1>2. itable \in [Slots -> Entry]
    BY DEF TypeInv
  <1>3. t \in [Slots -> Entry] /\ t[s] = Loaded(s) /\ \A u \in Slots \ {s} : t[u] = itable[u]
    BY <1>1, <1>2
  <1>4. \A u \in Slots : t[u].inum = itable[u].inum /\ t[u].ref = itable[u].ref
    BY <1>1, <1>3
  <1>5. Coh(t, dinode)
    BY <1>1, <1>3, <1>4 DEF CohInv, Coh, Node
  <1>6. (\A i : InTable(t, i) = InTable(itable, i)) /\ Empty(t) = Empty(itable)
    BY <1>4 DEF InTable, Empty
  <1> QED BY <1>3, <1>4, <1>5, <1>6

\* What every step on the table keeps, the disk being as it was.
TabStep == itable' \in [Slots -> Entry] /\ Stable /\ Coh(itable', dinode)

\* A step that leaves the table alone.
LEMMA StepSame ==
  ASSUME TypeInv, CohInv, itable' = itable
  PROVE  TabStep /\ RefsSame
  BY DEF TypeInv, CohInv, TabStep, Stable, RefsSame

\* A step that only locks an inode.
LEMMA StepLoad ==
  ASSUME TypeInv, CohInv, NEW s \in Slots, itable[s].ref > 0, Loaded(s).type # "free",
         itable' = [itable EXCEPT ![s] = Loaded(s)]
  PROVE  TabStep /\ RefsSame
  BY TLoad DEF TabStep, Stable, RefsSame

\* A step with an iget.
LEMMA StepGet ==
  ASSUME TypeInv, NEW t \in [Slots -> Entry], Coh(t, dinode),
         \A u \in Slots : t[u].inum = itable[u].inum /\ t[u].ref = itable[u].ref,
         \A j : InTable(t, j) = InTable(itable, j), Empty(t) = Empty(itable),
         NEW i \in Inums, ~NoEntry(i), itable' = iget(t, i).table,
         NEW g, g = iget(t, i).slot
  PROVE  /\ TabStep /\ RefsUp(g)
         /\ g \in Slots /\ itable'[g].inum = i
         /\ itable[g].ref > 0 => itable[g].inum = i
         /\ itable[g].ref = 0 => \A s \in Slots : itable[s].ref > 0 => itable[s].inum # i
  <1>1. InTable(t, i) # {} \/ Empty(t) # {}
    BY DEF NoEntry
  <1>2. PICK u : u = iget(t, i).table
    OBVIOUS
  <1>3. /\ g \in Slots /\ u \in [Slots -> Entry]
        /\ u[g].inum = i /\ u[g].ref = t[g].ref + 1
        /\ \A s \in Slots \ {g} : u[s] = t[s]
        /\ t[g].ref > 0 => t[g].inum = i
        /\ t[g].ref = 0 => \A s \in Slots : t[s].ref > 0 => t[s].inum # i
    BY <1>1, <1>2, GetFacts
  <1>4. Coh(u, dinode)
    BY <1>1, <1>2, CohGet
  <1>5. itable' = u
    BY <1>2
  <1>6. Stable
    BY <1>3, <1>5 DEF Stable
  <1>7. RefsUp(g)
    BY <1>3, <1>5 DEF RefsUp
  <1> QED BY <1>3, <1>4, <1>5, <1>6, <1>7 DEF TabStep

\* iget right after ilock of s.
LEMMA StepUp ==
  ASSUME TypeInv, CohInv, NEW s \in Slots, itable[s].ref > 0,
         itable' = [itable EXCEPT ![s].ref = @ + 1]
  PROVE  TabStep /\ RefsUp(s)
  <1>1. itable[s] \in Entry
    BY DEF TypeInv
  <1>2. /\ itable' \in [Slots -> Entry]
        /\ \A u \in Slots : /\ itable'[u].inum = itable[u].inum /\ itable'[u].valid = itable[u].valid
                            /\ itable'[u].type = itable[u].type /\ itable'[u].nlink = itable[u].nlink
                            /\ itable'[u].ref = IF u = s THEN itable[u].ref + 1 ELSE itable[u].ref
    BY <1>1 DEF TypeInv, Entry
  <1>3. \A u \in Slots : itable'[u].ref > 0 => itable[u].ref > 0
    BY <1>2
  <1>4. Coh(itable', dinode)
    BY <1>2, <1>3 DEF CohInv, Coh
  <1> QED BY <1>2, <1>4 DEF TabStep, RefsUp, Stable

\* A step of iput that drops a reference.
LEMMA StepDown ==
  ASSUME TypeInv, CohInv, NEW s \in Slots, itable[s].ref > 0,
         itable' = [itable EXCEPT ![s].ref = @ - 1]
  PROVE  TabStep /\ RefsDown(s)
  <1>1. itable[s] \in Entry
    BY DEF TypeInv
  <1>2. itable[s].ref - 1 \in Nat
    BY <1>1 DEF Entry
  <1>3. /\ itable' \in [Slots -> Entry]
        /\ \A u \in Slots : /\ itable'[u].inum = itable[u].inum /\ itable'[u].valid = itable[u].valid
                            /\ itable'[u].type = itable[u].type /\ itable'[u].nlink = itable[u].nlink
                            /\ itable'[u].ref = IF u = s THEN itable[u].ref - 1 ELSE itable[u].ref
    BY <1>1, <1>2 DEF TypeInv, Entry
  <1>4. \A u \in Slots : itable'[u].ref > 0 => itable[u].ref > 0
    BY <1>2, <1>3
  <1>5. Coh(itable', dinode)
    BY <1>3, <1>4 DEF CohInv, Coh
  <1> QED BY <1>3, <1>5 DEF TabStep, RefsDown, Stable

-----------------------------------------------------------------------------
(* What a step leaves to the other processes.                              *)

\* A pointer leads to an entry in use.
LEMMA Used ==
  ASSUME TypeInv, RefInv, CohInv, NEW x \in Ptrs, To(x) # 0
  PROVE  To(x) \in Slots /\ itable[To(x)].ref > 0 /\ itable[To(x)].inum \in Inums
  <1>1. To(x) \in 0..NINODE
    <2>1. x[1] \in FsProcs
      BY PtrCases
    <2>2. loc[x[1]] \in LocType /\ cwd[x[1]] \in 0..NINODE
      BY <2>1 DEF TypeInv
    <2>3. FileOf(x[1]) \in 0..NINODE
      BY <2>1, Consts DEF TypeInv, FileOf, Files
    <2>4. /\ loc[x[1]].cur \in 0..NINODE /\ loc[x[1]].ip \in 0..NINODE
          /\ loc[x[1]].dp \in 0..NINODE /\ loc[x[1]].vic \in 0..NINODE
      BY <2>2 DEF LocType
    <2> QED BY <2>2, <2>3, <2>4, PtrCases DEF To, Tags
  <1>2. To(x) \in Slots
    BY <1>1, Consts DEF Slots
  <1>3. Count(Held, To(x)) > 0
    BY HeldIs, CountPos
  <1>4. itable[To(x)].ref > 0
    BY <1>2, <1>3 DEF RefInv
  <1> QED BY <1>2, <1>4 DEF CohInv, Coh

\* The same for the pointers of a process by their names.
LEMMA UsedBy ==
  ASSUME TypeInv, RefInv, CohInv, NEW p \in FsProcs, NEW s,
         s \in {loc[p].cur, loc[p].ip, loc[p].dp, loc[p].vic, cwd[p], FileOf(p)}, s # 0
  PROVE  s \in Slots /\ itable[s].ref > 0 /\ itable[s].inum \in Inums
  <1>1. PICK x \in Ptrs : To(x) = s
    BY ToTag
  <1> QED BY <1>1, Used

\* Inodes that somebody else refers to keep their type and their ".".
FrameA(p) ==
  \A x \in Ptrs : \A s \in Slots : x[1] # p /\ To(x) = s /\ ~Gone(x) =>
    /\ itable'[s].inum = itable[s].inum
    /\ dinode'[itable[s].inum].type = dinode[itable[s].inum].type
    /\ dinode'[itable[s].inum].ents["."] = dinode[itable[s].inum].ents["."]

\* The inode that process q is freeing, or has just allocated.
Owns(q, s) == \/ loc[q].pc = "itrunc" /\ loc[q].vic = s
              \/ loc[q].pc = "create3" /\ loc[q].ip = s

\* It stays as it is, and is out of everybody's reach.
FrameB(p) ==
  \A q \in FsProcs \ {p} : \A s \in Slots : Owns(q, s) =>
    /\ itable'[s].inum = itable[s].inum
    /\ dinode'[itable[s].inum] = dinode[itable[s].inum]
    /\ \A y \in Ptrs : y[1] = p => To(y)' # s

\* A locked directory keeps its entries.
FrameC(p) ==
  \A s \in Slots : ilk[s] \in FsProcs \ {p} => /\ itable'[s].inum = itable[s].inum
                                             /\ dinode'[itable[s].inum].ents = dinode[itable[s].inum].ents

\* What the others point at stays allocated.
LEMMA OthersLive ==
  ASSUME FsInv, NEW p \in FsProcs, Rest(p), FrameA(p), NEW q \in FsProcs \ {p}
  PROVE  LiveP(q)'
  <1>1. loc'[q] = loc[q] /\ cwd'[q] = cwd[q] /\ FileOf(q)' = FileOf(q)
    BY DEF Rest
  <1>2. TypeInv /\ RefInv /\ CohInv /\ LiveP(q)
    BY DEF FsInv, ProcInv
  <1> DEFINE K(s) == /\ itable'[s].inum = itable[s].inum
                     /\ dinode'[itable[s].inum].type = dinode[itable[s].inum].type
                     /\ dinode'[itable[s].inum].ents["."] = dinode[itable[s].inum].ents["."]
  <1>3. \A t \in Tags : /\ To(<<q, t>>) # 0 => To(<<q, t>>) \in Slots
                        /\ To(<<q, t>>) # 0 /\ ~Gone(<<q, t>>) => K(To(<<q, t>>))
    <2> SUFFICES ASSUME NEW t \in Tags, To(<<q, t>>) # 0
                 PROVE  To(<<q, t>>) \in Slots /\ (~Gone(<<q, t>>) => K(To(<<q, t>>)))
      OBVIOUS
    <2>1. <<q, t>> \in Ptrs /\ <<q, t>>[1] = q
      BY DEF Ptrs
    <2>2. To(<<q, t>>) \in Slots
      BY <1>2, <2>1, Used
    <2> QED BY <2>1, <2>2 DEF FrameA
  <1> HIDE DEF K
  <1>4. /\ loc[q].cur # 0 => K(loc[q].cur)
        /\ loc[q].ip # 0 => K(loc[q].ip)
        /\ loc[q].dp # 0 => K(loc[q].dp)
        /\ loc[q].vic # 0 /\ loc[q].pc # "ifree" => K(loc[q].vic)
        /\ cwd[q] # 0 => K(cwd[q])
        /\ FileOf(q) # 0 => K(FileOf(q))
    BY <1>3, ToTag DEF Tags, Gone
  <1> DEFINE L(s) == dinode'[itable'[s].inum].type # "free"
             D(s) == dinode'[itable'[s].inum].type = "dir"
                       => dinode'[itable'[s].inum].ents["."] = itable'[s].inum
  <1>5. \A s : K(s) => (Live(s) => L(s))
    BY DEF K, Live, Node
  <1>6. \A s : K(s) => (Dot(s) => D(s))
    BY DEF K, Dot, Node
  <1> HIDE DEF L, D
  <1>7. /\ loc[q].cur # 0 => L(loc[q].cur) /\ D(loc[q].cur)
        /\ loc[q].ip # 0 => L(loc[q].ip) /\ (loc[q].pc # "create3" => D(loc[q].ip))
        /\ loc[q].dp # 0 => L(loc[q].dp) /\ D(loc[q].dp)
        /\ loc[q].vic # 0 /\ loc[q].pc # "ifree" => L(loc[q].vic)
        /\ cwd[q] # 0 => L(cwd[q]) /\ D(cwd[q])
        /\ FileOf(q) # 0 => L(FileOf(q)) /\ D(FileOf(q))
    BY ONLY <1>2, <1>4, <1>5, <1>6 DEF LiveP
  <1> QED BY ONLY <1>1, <1>7 DEF LiveP, Live, Dot, Node, L, D

\* What the others know of their inodes stays true.
LEMMA OthersKnow ==
  ASSUME FsInv, NEW p \in FsProcs, Rest(p), FrameA(p), FrameB(p), FrameC(p), NEW q \in FsProcs \ {p}
  PROVE  KnowP(q)'
  <1>1. loc'[q] = loc[q] /\ q \in FsProcs
    BY DEF Rest
  <1>2. TypeInv /\ RefInv /\ CohInv /\ LiveP(q) /\ KnowP(q) /\ LockP(q) /\ ShapeP(q)
    BY DEF FsInv, ProcInv
  <1> DEFINE l == loc[q]
  <1>3. /\ l.dp # 0 => /\ l.dp \in Slots /\ itable'[l.dp].inum = itable[l.dp].inum
                       /\ dinode'[itable[l.dp].inum].type = dinode[itable[l.dp].inum].type
        /\ l.ip # 0 => /\ l.ip \in Slots /\ itable'[l.ip].inum = itable[l.ip].inum
                       /\ dinode'[itable[l.ip].inum].type = dinode[itable[l.ip].inum].type
    <2>1. /\ <<q, "dp">> \in Ptrs /\ <<q, "dp">>[1] # p /\ To(<<q, "dp">>) = l.dp /\ ~Gone(<<q, "dp">>)
          /\ <<q, "ip">> \in Ptrs /\ <<q, "ip">>[1] # p /\ To(<<q, "ip">>) = l.ip /\ ~Gone(<<q, "ip">>)
      BY ToTag DEF Gone
    <2>2. (l.dp # 0 => l.dp \in Slots) /\ (l.ip # 0 => l.ip \in Slots)
      BY <1>1, <1>2, UsedBy
    <2> QED BY <2>1, <2>2 DEF FrameA
  <1>4. l.dp # 0 => dinode'[itable'[l.dp].inum].type = "dir"
    BY <1>2, <1>3 DEF KnowP, Node
  <1>5. Linking(l) => dinode'[itable'[l.ip].inum].type # "dir"
    <2> SUFFICES ASSUME Linking(l) PROVE dinode'[itable'[l.ip].inum].type # "dir"
      OBVIOUS
    <2>1. l.ip # 0
      BY <1>2 DEF ShapeP, Shape, HasIp, Linking, IpDp, IpOnly
    <2> QED BY <1>2, <1>3, <2>1 DEF KnowP, Node
  <1>6. l.pc \in {"ialloc", "create3", "unlink2"} =>
          l.dp \in Slots /\ dinode'[itable'[l.dp].inum].ents = dinode[itable[l.dp].inum].ents
    <2> SUFFICES ASSUME l.pc \in {"ialloc", "create3", "unlink2"}
                 PROVE  l.dp \in Slots /\ dinode'[itable'[l.dp].inum].ents = dinode[itable[l.dp].inum].ents
      OBVIOUS
    <2>1. l.dp # 0 /\ ilk[l.dp] = q
      BY <1>2 DEF ShapeP, Shape, LockP, Place, Putting, HoldsDp, DpOnly, IpDp
    <2> QED BY <1>3, <2>1 DEF FrameC
  <1>7. l.pc = "unlink2" => l.ip \in Slots /\ itable'[l.ip].inum = itable[l.ip].inum
    <2> SUFFICES ASSUME l.pc = "unlink2" PROVE l.ip # 0
      BY <1>3
    <2> QED BY <1>2 DEF ShapeP, Shape, HasIp, Place, Putting, IpDp
  <1>8. ASSUME NEW s \in Slots, NEW x \in Ptrs, x[1] = q, Owns(q, s), Alone(x, s)
        PROVE  Alone(x, s)' /\ Node(s)' = Node(s)
    <2>1. /\ itable'[s].inum = itable[s].inum /\ dinode'[itable[s].inum] = dinode[itable[s].inum]
          /\ \A y \in Ptrs : y[1] = p => To(y)' # s
      BY <1>8 DEF FrameB
    <2>2. Node(s)' = Node(s)
      BY <2>1 DEF Node
    <2>3. To(x)' = s
      BY <1>8, RestTo DEF Alone
    <2>4. ASSUME NEW y \in Ptrs, To(y)' = s PROVE y = x \/ Gone(y)'
      <3>1. y[1] # p
        BY <2>1, <2>4
      <3>2. To(y) = s /\ (Gone(y)' <=> Gone(y))
        BY <2>4, <3>1, RestTo
      <3> QED BY <1>8, <3>2 DEF Alone
    <2> QED BY <1>8, <2>2, <2>3, <2>4 DEF Alone
  <1>9. l.pc = "itrunc" => \A s : s = l.vic => Alone(<<q, "vic">>, s)'
    <2> SUFFICES ASSUME l.pc = "itrunc", NEW s, s = l.vic PROVE Alone(<<q, "vic">>, s)'
      OBVIOUS
    <2>1. Alone(<<q, "vic">>, s) /\ Owns(q, s) /\ <<q, "vic">> \in Ptrs /\ <<q, "vic">>[1] = q
      BY <1>2, ToTag DEF KnowP, Owns
    <2>2. s \in Slots
      <3>1. s # 0
        BY <1>2 DEF ShapeP, Shape, Putting
      <3> QED BY <1>1, <1>2, <3>1, UsedBy
    <2> QED BY <1>8, <2>1, <2>2
  <1>10. l.pc = "create3" => \A s : s = l.ip => Alone(<<q, "ip">>, s)' /\ Node(s)' = Node(s)
    <2> SUFFICES ASSUME l.pc = "create3", NEW s, s = l.ip
                 PROVE  Alone(<<q, "ip">>, s)' /\ Node(s)' = Node(s)
      OBVIOUS
    <2>1. Alone(<<q, "ip">>, s) /\ Owns(q, s) /\ <<q, "ip">> \in Ptrs /\ <<q, "ip">>[1] = q
      BY <1>2, ToTag DEF KnowP, Owns
    <2>2. s \in Slots
      <3>1. s # 0
        BY <1>2 DEF ShapeP, Shape, HasIp, Place, Putting, IpDp
      <3> QED BY <1>1, <1>2, <3>1, UsedBy
    <2> QED BY <1>8, <2>1, <2>2
  <1>11. l.pc = "itrunc" => Alone(<<q, "vic">>, loc[q].vic)'
    <2>1. PICK s : s = l.vic /\ s = loc'[q].vic
      BY <1>1
    <2> QED BY <1>9, <2>1
  <1>12. l.pc = "create3" => /\ Alone(<<q, "ip">>, loc[q].ip)'
                             /\ Node(loc[q].ip)' = NewInode(NewType[loc[q].call])
    <2>1. PICK s : s = l.ip /\ s = loc'[q].ip
      BY <1>1
    <2> QED BY <1>2, <1>10, <2>1 DEF KnowP
  <1>13. l.pc \in {"ialloc", "create3"} => dinode'[itable'[l.dp].inum].ents[l.name] = 0
    BY <1>2, <1>6 DEF KnowP, Node
  <1>14. l.pc = "unlink2" => dinode'[itable'[l.dp].inum].ents[l.name] = itable'[l.ip].inum
    BY <1>2, <1>6, <1>7 DEF KnowP, Node
  <1> QED BY <1>1, <1>4, <1>5, <1>11, <1>12, <1>13, <1>14 DEF KnowP, Node, NewInode

LockStep(p) == \A s \in Slots : \/ ilk'[s] = ilk[s]
                                \/ ilk[s] \in {p, NoProc} /\ ilk'[s] \in {p, NoProc}

\* The others keep their locks.
LEMMA OthersLock ==
  ASSUME FsInv, NEW p \in FsProcs, Rest(p), LockStep(p), NEW q \in FsProcs \ {p}
  PROVE  LockP(q)' /\ ShapeP(q)'
  <1>1. loc'[q] = loc[q] /\ cwd'[q] = cwd[q]
    BY DEF Rest
  <1>2. TypeInv /\ RefInv /\ CohInv /\ LockP(q) /\ ShapeP(q)
    BY DEF FsInv, ProcInv
  <1>3. \A s \in Slots : ilk[s] = q <=> ilk'[s] = q
    BY Consts DEF LockStep
  <1>4. /\ Place(loc[q]) \in HoldsDp => loc[q].dp \in Slots
        /\ Place(loc[q]) \in HoldsIp => loc[q].ip \in Slots
        /\ loc[q].pc = "itrunc" => loc[q].vic \in Slots
    <2>1. /\ Place(loc[q]) \in HoldsDp => loc[q].dp # 0
          /\ Place(loc[q]) \in HoldsIp => loc[q].ip # 0
          /\ loc[q].pc = "itrunc" => loc[q].vic # 0
      BY <1>2 DEF ShapeP, Shape, HasIp, HoldsDp, HoldsIp, DpOnly, IpDp, IpOnly, Putting
    <2> QED BY <1>2, <2>1, UsedBy
  <1>5. LockP(q)'
    BY <1>1, <1>2, <1>3, <1>4 DEF LockP
  <1>6. ShapeP(q)'
    BY <1>1, <1>2 DEF ShapeP
  <1> QED BY <1>5, <1>6

\* A locked entry is in use.
LEMMA LockUsed ==
  ASSUME FsInv, NEW s \in Slots, NEW q \in FsProcs, ilk[s] = q
  PROVE  /\ itable[s].ref > 0 /\ itable[s].inum \in Inums
         /\ \E x \in Ptrs : x[1] = q /\ To(x) = s /\ ~Gone(x) /\ (x[2] = "vic" => loc[q].pc = "itrunc")
  <1>1. TypeInv /\ RefInv /\ CohInv /\ LockP(q)
    BY DEF FsInv, ProcInv
  <1>2. s = loc[q].dp \/ s = loc[q].ip \/ (loc[q].pc = "itrunc" /\ s = loc[q].vic)
    BY <1>1 DEF LockP
  <1>3. s # 0
    BY SlotPos
  <1>4. \E x \in Ptrs : x[1] = q /\ To(x) = s /\ ~Gone(x) /\ (x[2] = "vic" => loc[q].pc = "itrunc")
    <2>1. <<q, "dp">> \in Ptrs /\ <<q, "dp">>[1] = q /\ To(<<q, "dp">>) = loc[q].dp /\ ~Gone(<<q, "dp">>)
      BY ToTag DEF Gone
    <2>2. <<q, "ip">> \in Ptrs /\ <<q, "ip">>[1] = q /\ To(<<q, "ip">>) = loc[q].ip /\ ~Gone(<<q, "ip">>)
      BY ToTag DEF Gone
    <2>3. /\ <<q, "vic">> \in Ptrs /\ <<q, "vic">>[1] = q /\ To(<<q, "vic">>) = loc[q].vic
          /\ loc[q].pc = "itrunc" => ~Gone(<<q, "vic">>)
      BY ToTag DEF Gone
    <2> QED BY <1>2, <2>1, <2>2, <2>3
  <1> QED BY <1>1, <1>3, <1>4, Used

\* Process p may take a pointer to s: no other process owns it.
Safe(p, s) == \/ itable[s].ref = 0 \/ Node(s).nlink > 0 \/ Node(s).type = "free"
              \/ \E y \in Ptrs : y[1] = p /\ y[2] # "vic" /\ To(y) = s

NewOk(p) == /\ loc[p].pc = "ifree" => loc'[p].vic = 0
            /\ \A x \in Ptrs : \A s \in Slots : x[1] = p /\ To(x)' = s /\ To(x) # s => Safe(p, s)

\* Nobody gets a pointer to an inode that another process owns.
LEMMA OwnedKept ==
  ASSUME FsInv, NEW p \in FsProcs, NewOk(p), NEW q \in FsProcs \ {p}, NEW s \in Slots, Owns(q, s)
  PROVE  \A y \in Ptrs : y[1] = p => To(y)' # s
  <1> SUFFICES ASSUME NEW y \in Ptrs, y[1] = p, To(y)' = s PROVE FALSE
    OBVIOUS
  <1>1. TypeInv /\ RefInv /\ CohInv /\ LiveP(q) /\ KnowP(q)
    BY DEF FsInv, ProcInv
  <1>2. PICK x \in Ptrs : x[1] = q /\ Alone(x, s)
    BY <1>1, ToTag DEF Owns, KnowP
  <1>3. itable[s].ref > 0 /\ To(x) = s /\ s # 0
    BY <1>1, <1>2, SlotPos, Used DEF Alone
  <1>4. Node(s).nlink = 0 /\ Node(s).type # "free"
    BY <1>1, <1>2, <1>3 DEF Alone, LiveP, Live, Owns
  <1>5. To(y) # s
    <2> SUFFICES ASSUME To(y) = s PROVE FALSE
      OBVIOUS
    <2>1. Gone(y)
      BY <1>2 DEF Alone
    <2>2. y = <<p, "vic">> /\ loc[p].pc = "ifree"
      BY <2>1, PtrCases DEF Gone
    <2> QED BY <2>2, <1>3, ToTagNext DEF NewOk
  <1>6. Safe(p, s)
    BY <1>5 DEF NewOk
  <1>7. PICK z \in Ptrs : z[1] = p /\ z[2] # "vic" /\ To(z) = s
    BY <1>3, <1>4, <1>6 DEF Safe
  <1> QED BY <1>2, <1>7 DEF Alone, Gone

\* The frame of a step that leaves the disk alone.
LEMMA FrameSame ==
  ASSUME FsInv, NEW p \in FsProcs, NewOk(p), Stable, dinode' = dinode
  PROVE  FrameA(p) /\ FrameB(p) /\ FrameC(p)
  <1>1. TypeInv /\ RefInv /\ CohInv
    BY DEF FsInv
  <1>2. FrameA(p)
    <2> SUFFICES ASSUME NEW x \in Ptrs, NEW s \in Slots, To(x) = s
                 PROVE  itable'[s].inum = itable[s].inum
      BY DEF FrameA
    <2> QED BY <1>1, SlotPos, Used DEF Stable
  <1>3. FrameB(p)
    <2> SUFFICES ASSUME NEW q \in FsProcs \ {p}, NEW s \in Slots, Owns(q, s)
                 PROVE  itable'[s].inum = itable[s].inum
      BY OwnedKept DEF FrameB
    <2> QED BY <1>1, SlotPos, UsedBy DEF Owns, Stable
  <1>4. FrameC(p)
    BY LockUsed DEF FrameC, Stable
  <1> QED BY <1>2, <1>3, <1>4

\* A step without a new pointer gets no pointer to the inode of another.
LEMMA NewSame ==
  ASSUME NEW p \in FsProcs, KSame, loc[p].pc # "ifree"
  PROVE  NewOk(p)
  BY DEF NewOk, KSame

\* Nor does one that drops a pointer,
LEMMA NewDropped ==
  ASSUME NEW p \in FsProcs, KDropped(<<p, "vic">>)
  PROVE  NewOk(p)
  BY ToTag, ToTagNext, SlotPos DEF NewOk, KDropped

\* nor one that moves a pointer,
LEMMA NewMoved ==
  ASSUME NEW p \in FsProcs, NEW a \in Ptrs, NEW b \in Ptrs, a[1] = p, a[2] # "vic",
         KMoved(a, b), loc[p].pc # "ifree"
  PROVE  NewOk(p)
  BY SlotPos DEF NewOk, KMoved, Safe

\* nor one that takes a reference where that is safe,
LEMMA NewTook ==
  ASSUME NEW p \in FsProcs, NEW a \in Ptrs, NEW g, KTook(a, g), loc[p].pc # "ifree", Safe(p, g)
  PROVE  NewOk(p)
  BY DEF NewOk, KTook

\* nor one that does both.
LEMMA NewMovedTook ==
  ASSUME NEW p \in FsProcs, NEW a \in Ptrs, NEW b \in Ptrs, NEW c \in Ptrs, NEW g,
         a[1] = p, a[2] # "vic", KMovedTook(a, b, c, g), loc[p].pc # "ifree", Safe(p, g)
  PROVE  NewOk(p)
  BY SlotPos DEF NewOk, KMovedTook, Safe

-----------------------------------------------------------------------------
(* Steps that leave the disk alone.                                        *)

PendSame(p) == /\ Pending(loc'[p]) <=> Pending(loc[p])
               /\ Pending(loc[p]) => loc'[p].ip = loc[p].ip

\* A call with a link under way has the inode.
LEMMA PendIp ==
  ASSUME NEW p \in FsProcs, ShapeP(p), Pending(loc[p])
  PROVE  loc[p].ip # 0
  BY DEF ShapeP, Shape, HasIp, Pending, Linking, IpDp, IpOnly

\* A step that leaves the links under way alone.
LEMMA PendsSame ==
  ASSUME FsInv, NEW p \in FsProcs, Rest(p), Stable, PendSame(p), NEW i
  PROVE  Pends(i)' = Pends(i)
  <1>1. TypeInv /\ RefInv /\ CohInv
    BY DEF FsInv
  <1>2. ASSUME NEW q \in FsProcs
        PROVE  /\ Pending(loc'[q]) <=> Pending(loc[q])
               /\ Pending(loc[q]) => itable'[loc'[q].ip].inum = itable[loc[q].ip].inum
    <2>1. /\ Pending(loc'[q]) <=> Pending(loc[q])
          /\ Pending(loc[q]) => loc'[q].ip = loc[q].ip
      BY <1>2 DEF Rest, PendSame
    <2>2. Pending(loc[q]) => loc[q].ip \in Slots /\ itable[loc[q].ip].ref > 0
      BY <1>1, PendIp, UsedBy DEF FsInv, ProcInv
    <2> QED BY <2>1, <2>2 DEF Stable
  <1> QED BY <1>2 DEF Pends

\* A step that leaves the disk and the links under way alone.
LEMMA LinkSame ==
  ASSUME FsInv, NEW p \in FsProcs, Rest(p), Stable, PendSame(p), dinode' = dinode
  PROVE  LinkInv' /\ DiskInv'
  <1>1. \A i : Pends(i)' = Pends(i)
    BY PendsSame
  <1>2. \A i : NamesOf(i)' = NamesOf(i) /\ Subdirs(i)' = Subdirs(i)
    BY DEF NamesOf, Subdirs
  <1>3. LinkInv'
    BY <1>1, <1>2 DEF LinkInv, FsInv, Root
  <1>4. DiskInv'
    BY DEF DiskInv, FsInv
  <1> QED BY <1>3, <1>4

OwnTypes(p) ==
  /\ loc' = [loc EXCEPT ![p] = loc'[p]] /\ loc'[p] \in LocType
  /\ ilk' \in [Slots -> FsProcs \cup {NoProc}]
  /\ ftable' \in [Files -> 0..NINODE]
  /\ ofile' \in [FsProcs -> 0..NFILE]
  /\ cwd' \in [FsProcs -> 0..NINODE]

\* The parts of the invariant of the process that steps.
OwnInv(p) == ShapeP(p)' /\ LockP(p)' /\ LiveP(p)' /\ KnowP(p)'

\* The processes after a step of p: what is left to show is about p.
LEMMA OthersInv ==
  ASSUME FsInv, NEW p \in FsProcs, Rest(p), LockStep(p), FrameA(p), FrameB(p), FrameC(p), OwnInv(p)
  PROVE  ProcInv'
  <1> SUFFICES ASSUME NEW q \in FsProcs
               PROVE  ShapeP(q)' /\ LockP(q)' /\ LiveP(q)' /\ KnowP(q)'
    BY DEF ProcInv
  <1>1. CASE q = p
    BY <1>1 DEF OwnInv
  <1>2. CASE q # p
    BY <1>2, OthersLock, OthersLive, OthersKnow
  <1> QED BY <1>1, <1>2

\* A step of p that leaves the disk alone.
LEMMA QuietStep ==
  ASSUME FsInv, NEW p \in FsProcs, Rest(p), dinode' = dinode, OwnTypes(p), TabStep, NewOk(p),
         LockStep(p), RefInv', FilesInv', OwnInv(p), PendSame(p)
  PROVE  FsInv'
  <1>1. FrameA(p) /\ FrameB(p) /\ FrameC(p)
    BY FrameSame DEF TabStep
  <1>2. ProcInv'
    BY <1>1, OthersInv
  <1>3. LinkInv' /\ DiskInv'
    BY LinkSame DEF TabStep
  <1>4. TypeInv'
    BY DEF OwnTypes, TabStep, FsInv, TypeInv
  <1>5. CohInv'
    BY DEF TabStep, CohInv
  <1> QED BY <1>2, <1>3, <1>4, <1>5 DEF FsInv

\* The pointers of a process that lead to inodes in use.
OldOk(p) == ({loc[p].cur, loc[p].dp, cwd[p], FileOf(p)}
              \cup (IF loc[p].pc = "create3" THEN {} ELSE {loc[p].ip})) \ {0}

\* The pointers that p can rely on lead to allocated inodes.
LEMMA OldOkFacts ==
  ASSUME FsInv, NEW p \in FsProcs, NEW s \in OldOk(p)
  PROVE  s \in Slots /\ itable[s].ref > 0 /\ itable[s].inum \in Inums /\ Live(s) /\ Dot(s)
  <1>1. TypeInv /\ RefInv /\ CohInv /\ LiveP(p)
    BY DEF FsInv, ProcInv
  <1>2. s # 0 /\ s \in {loc[p].cur, loc[p].ip, loc[p].dp, loc[p].vic, cwd[p], FileOf(p)}
    BY DEF OldOk
  <1>3. s \in Slots /\ itable[s].ref > 0 /\ itable[s].inum \in Inums
    BY <1>1, <1>2, UsedBy
  <1>4. Live(s) /\ Dot(s)
    BY <1>1, <1>2 DEF OldOk, LiveP
  <1> QED BY <1>3, <1>4

\* An entry in use stands for the same inode after a quiet step.
LEMMA NodeSame ==
  ASSUME Stable, dinode' = dinode, NEW s \in Slots, itable[s].ref > 0
  PROVE  /\ Node(s)' = Node(s) /\ itable'[s].inum = itable[s].inum
         /\ Live(s)' <=> Live(s)
         /\ Dot(s)' <=> Dot(s)
  BY DEF Stable, Node, Live, Dot

\* After a quiet step p points at allocated inodes.
LEMMA OwnLive ==
  ASSUME FsInv, NEW p \in FsProcs, Stable, dinode' = dinode, NEW g,
         g # 0 => Live(g)' /\ Dot(g)',
         loc'[p].cur \in {0, g} \cup OldOk(p), loc'[p].dp \in {0, g} \cup OldOk(p),
         loc'[p].ip \in {0, g} \cup OldOk(p),
         cwd'[p] \in {0, g} \cup OldOk(p), FileOf(p)' \in {0, g} \cup OldOk(p),
         \/ loc'[p].vic \in {0, g, loc[p].ip} \cup OldOk(p)
         \/ loc'[p].vic = loc[p].vic /\ loc[p].pc # "ifree"
  PROVE  LiveP(p)'
  <1>1. ASSUME NEW s, s \in {0, g} \cup OldOk(p), s # 0
        PROVE  Live(s)' /\ Dot(s)'
    <2>1. CASE s = g
      BY <1>1, <2>1
    <2>2. CASE s \in OldOk(p)
      BY <2>2, OldOkFacts, NodeSame
    <2> QED BY <1>1, <2>1, <2>2
  <1>2. ASSUME NEW s, s # 0, s = loc[p].ip \/ (s = loc[p].vic /\ loc[p].pc # "ifree")
        PROVE  Live(s)'
    <2>1. TypeInv /\ RefInv /\ CohInv /\ LiveP(p)
      BY DEF FsInv, ProcInv
    <2>2. s \in Slots /\ itable[s].ref > 0
      BY <1>2, <2>1, UsedBy
    <2>3. Live(s)
      BY <1>2, <2>1 DEF LiveP
    <2> QED BY <2>2, <2>3, NodeSame
  <1>3. PICK c, i, d, v, w, f : /\ c = loc'[p].cur /\ i = loc'[p].ip /\ d = loc'[p].dp
                                /\ v = loc'[p].vic /\ w = cwd'[p] /\ f = FileOf(p)'
    OBVIOUS
  <1>4. /\ c # 0 => Live(c)' /\ Dot(c)'
        /\ i # 0 => Live(i)' /\ Dot(i)'
        /\ d # 0 => Live(d)' /\ Dot(d)'
        /\ w # 0 => Live(w)' /\ Dot(w)'
        /\ f # 0 => Live(f)' /\ Dot(f)'
    BY <1>1, <1>3
  <1>5. v # 0 => Live(v)'
    <2>1. v \in {0, g} \cup OldOk(p) \/ v = loc[p].ip \/ (v = loc[p].vic /\ loc[p].pc # "ifree")
      BY <1>3
    <2>2. CASE v \in {0, g} \cup OldOk(p)
      BY <2>2, <1>1
    <2>3. CASE v = loc[p].ip \/ (v = loc[p].vic /\ loc[p].pc # "ifree")
      <3> SUFFICES ASSUME v # 0 PROVE Live(v)'
        OBVIOUS
      <3> QED BY ONLY <2>3, <1>2, v # 0
    <2> QED BY <2>1, <2>2, <2>3
  <1> QED BY <1>3, <1>4, <1>5 DEF LiveP

\* After a quiet step to a place where p knows little of its inodes.
LEMMA OwnKnow ==
  ASSUME FsInv, NEW p \in FsProcs, Stable, dinode' = dinode,
         loc'[p].pc \notin {"ialloc", "create3", "unlink2", "itrunc"},
         loc'[p].dp \in {0, loc[p].dp} \/ Node(loc[p].dp)'.type = "dir",
         Linking(loc'[p]) => Linking(loc[p]) /\ loc'[p].ip = loc[p].ip
  PROVE  KnowP(p)'
  <1>1. TypeInv /\ RefInv /\ CohInv /\ KnowP(p) /\ ShapeP(p)
    BY DEF FsInv, ProcInv
  <1>2. loc'[p].dp # 0 => Node(loc[p].dp)'.type = "dir"
    <2> SUFFICES ASSUME loc'[p].dp = loc[p].dp, loc[p].dp # 0 PROVE Node(loc[p].dp)'.type = "dir"
      OBVIOUS
    <2>1. PICK d : d = loc[p].dp /\ d = loc'[p].dp
      OBVIOUS
    <2>2. d \in Slots /\ itable[d].ref > 0 /\ Node(d).type = "dir"
      BY <1>1, <2>1, UsedBy DEF KnowP
    <2> QED BY <2>1, <2>2, NodeSame
  <1>3. Linking(loc'[p]) => Node(loc[p].ip)'.type # "dir"
    <2> SUFFICES ASSUME Linking(loc[p]), loc'[p].ip = loc[p].ip PROVE Node(loc[p].ip)'.type # "dir"
      OBVIOUS
    <2>1. PICK s : s = loc[p].ip /\ s = loc'[p].ip
      OBVIOUS
    <2>2. s # 0
      BY <1>1, <2>1, PendIp DEF Pending
    <2>3. s \in Slots /\ itable[s].ref > 0 /\ Node(s).type # "dir"
      BY <1>1, <2>1, <2>2, UsedBy DEF KnowP
    <2> QED BY <2>1, <2>3, NodeSame
  <1> QED BY <1>2, <1>3 DEF KnowP

-----------------------------------------------------------------------------
(* Steps that put an inode and go on.                                      *)

\* What Go does to the locals.
LEMMA GoFacts ==
  ASSUME TypeInv, NEW p \in FsProcs, NEW l, Go(p, l)
  PROVE  /\ loc'[p] = l /\ loc' = [loc EXCEPT ![p] = loc'[p]]
         /\ \A q \in FsProcs \ {p} : loc'[q] = loc[q]
         /\ loc[p] \in LocType
  BY DEF TypeInv, Go

\* A step of p that changes no file and no current directory.
LEMMA RestSame ==
  ASSUME TypeInv, NEW p \in FsProcs, NEW l, Go(p, l), UNCHANGED <<ftable, ofile, cwd>>
  PROVE  /\ Rest(p) /\ FileOf(p)' = FileOf(p)
         /\ FilesInv => FilesInv'
         /\ \A x \in Ptrs : x[1] # p => To(x)' = To(x)
         /\ To(<<p, "cwd">>)' = To(<<p, "cwd">>) /\ To(<<p, "file">>)' = To(<<p, "file">>)
  <1>1. \A q \in FsProcs : FileOf(q)' = FileOf(q)
    BY DEF FileOf
  <1>2. Rest(p)
    BY <1>1, GoFacts DEF Rest
  <1>3. FilesInv => FilesInv'
    BY DEF FilesInv
  <1> QED BY <1>1, <1>2, <1>3, RestTo, ToTag, ToTagNext

\* The kind of a step from the six pointers of its process.
LEMMA KindSame ==
  ASSUME NEW p \in FsProcs, Rest(p),
         loc'[p].cur = loc[p].cur, loc'[p].ip = loc[p].ip, loc'[p].dp = loc[p].dp,
         loc'[p].vic = loc[p].vic, cwd'[p] = cwd[p], FileOf(p)' = FileOf(p)
  PROVE  KSame
  <1> SUFFICES ASSUME NEW x \in Ptrs PROVE To(x)' = To(x)
    BY DEF KSame
  <1>1. CASE x[1] # p
    BY <1>1, RestTo
  <1>2. CASE x[1] = p
    <2>1. \/ x = <<p, "cur">> \/ x = <<p, "ip">> \/ x = <<p, "dp">>
          \/ x = <<p, "vic">> \/ x = <<p, "cwd">> \/ x = <<p, "file">>
      BY <1>2, PtrCases
    <2>2. /\ To(<<p, "cur">>)' = To(<<p, "cur">>) /\ To(<<p, "ip">>)' = To(<<p, "ip">>)
          /\ To(<<p, "dp">>)' = To(<<p, "dp">>) /\ To(<<p, "vic">>)' = To(<<p, "vic">>)
          /\ To(<<p, "cwd">>)' = To(<<p, "cwd">>) /\ To(<<p, "file">>)' = To(<<p, "file">>)
      BY ToTag, ToTagNext, SMTT(40)
    <2> QED BY <2>1, <2>2, Zenon
  <1> QED BY <1>1, <1>2

\* The pointers of p but those of T are as before.
OtherTags(p, T) ==
  /\ "cur" \in T \/ loc'[p].cur = loc[p].cur
  /\ "ip" \in T \/ loc'[p].ip = loc[p].ip
  /\ "dp" \in T \/ loc'[p].dp = loc[p].dp
  /\ "vic" \in T \/ loc'[p].vic = loc[p].vic
  /\ "cwd" \in T \/ cwd'[p] = cwd[p]
  /\ "file" \in T \/ FileOf(p)' = FileOf(p)

\* The pointers that a step does not name stay.
LEMMA KindRest ==
  ASSUME NEW p \in FsProcs, Rest(p), NEW T, OtherTags(p, T)
  PROVE  \A x \in Ptrs : (\A t \in T : x # <<p, t>>) => To(x)' = To(x)
  <1> SUFFICES ASSUME NEW x \in Ptrs, \A t \in T : x # <<p, t>> PROVE To(x)' = To(x)
    OBVIOUS
  <1>1. CASE x[1] # p
    BY <1>1, RestTo
  <1>2. CASE x[1] = p
    <2>1. x = <<p, x[2]>> /\ x[2] \in Tags /\ x[2] \notin T
      BY <1>2, PtrCases
    <2>2. ASSUME NEW t \in Tags, t \notin T PROVE To(<<p, t>>)' = To(<<p, t>>)
      <3>1. /\ "cur" \in T \/ To(<<p, "cur">>)' = To(<<p, "cur">>)
            /\ "ip" \in T \/ To(<<p, "ip">>)' = To(<<p, "ip">>)
            /\ "dp" \in T \/ To(<<p, "dp">>)' = To(<<p, "dp">>)
            /\ "vic" \in T \/ To(<<p, "vic">>)' = To(<<p, "vic">>)
            /\ "cwd" \in T \/ To(<<p, "cwd">>)' = To(<<p, "cwd">>)
            /\ "file" \in T \/ To(<<p, "file">>)' = To(<<p, "file">>)
        BY ToTag, ToTagNext, SMTT(40) DEF OtherTags
      <3> QED BY <2>2, <3>1, Zenon DEF Tags
    <2> QED BY <2>1, <2>2
  <1> QED BY <1>1, <1>2

PutIpOf(l, k) == [Iput(l, l.ip, k) EXCEPT !.ip = 0]

\* The locals after iput(ip) was called.
LEMMA PutIpFields ==
  ASSUME NEW l \in LocType, NEW k \in Conts, NEW r, r = PutIpOf(l, k)
  PROVE  /\ r \in LocType /\ r.pc = "iput" /\ r.vic = l.ip /\ r.k = k /\ r.ip = 0
         /\ r.cur = l.cur /\ r.dp = l.dp /\ r.nk = l.nk /\ r.parent = l.parent /\ r.call = l.call
         /\ r.name = l.name /\ r.rest = l.rest /\ r.new = l.new
  <1>1. 0 \in 0..NINODE /\ "iput" \in Pcs
    BY Consts DEF Pcs, Putting
  <1>2. r = [l EXCEPT !.pc = "iput", !.vic = l.ip, !.k = k, !.ip = 0]
    BY DEF Iput, PutIpOf
  <1> QED BY <1>1, <1>2, ZenonT(40) DEF LocType

PutDpOf(l, k) == [Iput(l, l.dp, k) EXCEPT !.dp = 0]

\* The locals after iput(dp) was called.
LEMMA PutDpFields ==
  ASSUME NEW l \in LocType, NEW k \in Conts, NEW r, r = PutDpOf(l, k)
  PROVE  /\ r \in LocType /\ r.pc = "iput" /\ r.vic = l.dp /\ r.k = k /\ r.dp = 0
         /\ r.cur = l.cur /\ r.ip = l.ip /\ r.nk = l.nk /\ r.parent = l.parent /\ r.call = l.call
         /\ r.name = l.name /\ r.rest = l.rest /\ r.new = l.new
  <1>1. 0 \in 0..NINODE /\ "iput" \in Pcs
    BY Consts DEF Pcs, Putting
  <1>2. r = [l EXCEPT !.pc = "iput", !.vic = l.dp, !.k = k, !.dp = 0]
    BY DEF Iput, PutDpOf
  <1> QED BY <1>1, <1>2, ZenonT(40) DEF LocType

\* A process in a call is at one place, and outside iput it has no victim.
LEMMA Unput ==
  ASSUME FsInv, NEW p \in FsProcs, loc[p].pc \notin Putting
  PROVE  Place(loc[p]) = loc[p].pc /\ loc[p].vic = 0 /\ To(<<p, "vic">>) = 0 /\ loc[p].pc # "ifree"
  BY ToTag DEF FsInv, ProcInv, ShapeP, Shape, Place, Putting

\* Which places may put ip, and where they go on.
PutsIp(l, k) ==
  \/ k = "user" /\ l.pc \in {"create2", "created", "open", "open2", "chdir", "link1", "link3"}
  \/ k = "createfail" /\ l.pc = "create3"
  \/ k = "unlinkbad" /\ l.pc = "unlink2"

\* A call gives ip back, and the lock if it has it.
LEMMA PutIp ==
  ASSUME FsInv, NEW p \in FsProcs, NEW k, PutsIp(loc[p], k),
         Go(p, PutIpOf(loc[p], k)),
         TabStep, RefsSame, dinode' = dinode, UNCHANGED <<ftable, ofile, cwd>>,
         IF loc[p].pc \in HoldsIp THEN ilk' = [ilk EXCEPT ![loc[p].ip] = NoProc] ELSE ilk' = ilk
  PROVE  FsInv'
  <1> DEFINE l == loc[p]
             r == loc'[p]
  <1>1. TypeInv /\ RefInv /\ CohInv /\ FilesInv /\ ShapeP(p) /\ LockP(p) /\ LiveP(p) /\ KnowP(p)
    BY DEF FsInv, ProcInv
  <1>2. k \in Conts /\ l.pc \notin Putting /\ l.pc # "chdir2" /\ l.pc # "linkbad" /\ l.pc # "unlink3"
    BY DEF PutsIp, Conts, Putting
  <1>3. Place(l) = l.pc /\ l.vic = 0 /\ To(<<p, "vic">>) = 0 /\ l.pc # "ifree"
    BY <1>2, Unput
  <1>4. l.ip # 0 /\ l.cur = 0
    BY <1>1, <1>3 DEF PutsIp, ShapeP, Shape, HasIp, IpDp, IpOnly
  <1>5. l.ip \in Slots
    BY <1>1, <1>4, UsedBy
  <1>6. /\ r = PutIpOf(l, k) /\ loc' = [loc EXCEPT ![p] = r] /\ l \in LocType
        /\ Rest(p) /\ FileOf(p)' = FileOf(p) /\ FilesInv'
    BY <1>1, GoFacts, RestSame DEF PutIpOf
  <1> HIDE DEF l, r
  <1>7. /\ r \in LocType /\ r.pc = "iput" /\ r.vic = l.ip /\ r.k = k /\ r.ip = 0
        /\ r.cur = l.cur /\ r.dp = l.dp /\ r.nk = l.nk /\ r.parent = l.parent /\ r.call = l.call
        /\ r.name = l.name /\ r.rest = l.rest /\ r.new = l.new
    BY <1>2, <1>6, PutIpFields
  <1>8. Place(r) = k
    BY <1>7 DEF Place, Putting
  <1>9. OwnTypes(p)
    <2>1. ilk' \in [Slots -> FsProcs \cup {NoProc}]
      BY <1>1 DEF TypeInv
    <2> QED BY <1>1, <1>6, <1>7, <2>1 DEF OwnTypes, TypeInv, r
  <1>10. KMoved(<<p, "ip">>, <<p, "vic">>)
    <2>1. OtherTags(p, {"ip", "vic"})
      BY <1>6, <1>7 DEF OtherTags, l, r
    <2>2. \A x \in Ptrs \ {<<p, "ip">>, <<p, "vic">>} : To(x)' = To(x)
      BY <1>6, <2>1, KindRest
    <2> QED BY <1>3, <1>4, <1>7, <2>2, ToTag, ToTagNext, ZenonT(40) DEF KMoved, l, r
  <1>11. RefInv' /\ NewOk(p)
    BY <1>1, <1>3, <1>10, ToTag, RefMoved, NewMoved DEF l
  <1>12. ShapeP(p)'
    <2>1. Shape(r)
      BY <1>1, <1>3, <1>4, <1>5, <1>7, <1>8, SlotPos
         DEF ShapeP, Shape, PutsIp, HasIp, Creating, Place, Putting, Conts, Walks, DpOnly, IpDp, IpOnly, l
    <2>2. cwd[p] # 0
      BY <1>1, <1>2, <1>3 DEF ShapeP, l
    <2> QED BY <1>8, <2>1, <2>2 DEF ShapeP, PutsIp, r
  <1>13. LockP(p)' /\ LockStep(p)
    BY <1>1, <1>3, <1>5, <1>7, <1>8, Consts DEF LockP, LockStep, PutsIp, HoldsIp, HoldsDp, TypeInv, l, r
  <1>14. LiveP(p)'
    <2>1. /\ r.cur \in {0, 0} \cup OldOk(p) /\ r.ip \in {0, 0} \cup OldOk(p) /\ r.dp \in {0, 0} \cup OldOk(p)
          /\ cwd'[p] \in {0, 0} \cup OldOk(p) /\ FileOf(p)' \in {0, 0} \cup OldOk(p)
          /\ r.vic \in {0, 0, loc[p].ip} \cup OldOk(p)
      BY <1>6, <1>7 DEF OldOk, l
    <2> QED BY <2>1, OwnLive DEF r, TabStep
  <1>15. ~Pending(l) /\ ~Pending(r)
    BY <1>3, <1>8 DEF PutsIp, Pending, Linking, Walks, l
  <1>16. KnowP(p)'
    BY <1>7, <1>15, OwnKnow DEF Pending, l, r, TabStep
  <1> QED BY <1>6, <1>9, <1>11, <1>12, <1>13, <1>14, <1>15, <1>16, QuietStep DEF OwnInv, PendSame, l, r

PutsDp(l, k) ==
  \/ k = "user" /\ l.pc \in {"ialloc", "createfail", "unlinkbad", "unlink1"}
  \/ k = "linkbad" /\ l.pc \in {"link2", "linktaken"}

\* A call gives dp back, and the lock if it has it.
LEMMA PutDp ==
  ASSUME FsInv, NEW p \in FsProcs, NEW k, PutsDp(loc[p], k),
         Go(p, PutDpOf(loc[p], k)),
         TabStep, RefsSame, dinode' = dinode, UNCHANGED <<ftable, ofile, cwd>>,
         IF loc[p].pc \in HoldsDp THEN ilk' = [ilk EXCEPT ![loc[p].dp] = NoProc] ELSE ilk' = ilk
  PROVE  FsInv'
  <1> DEFINE l == loc[p]
             r == loc'[p]
  <1>1. TypeInv /\ RefInv /\ CohInv /\ FilesInv /\ ShapeP(p) /\ LockP(p) /\ LiveP(p) /\ KnowP(p)
    BY DEF FsInv, ProcInv
  <1>2. k \in Conts /\ l.pc \notin Putting /\ l.pc # "chdir2" /\ l.pc # "create3"
    BY DEF PutsDp, Conts, Putting
  <1>3. Place(l) = l.pc /\ l.vic = 0 /\ To(<<p, "vic">>) = 0 /\ l.pc # "ifree"
    BY <1>2, Unput
  <1>4. l.dp # 0 /\ l.cur = 0
    BY <1>1, <1>3 DEF PutsDp, ShapeP, Shape, DpOnly, IpDp
  <1>5. l.dp \in Slots
    BY <1>1, <1>4, UsedBy
  <1>6. /\ r = PutDpOf(l, k) /\ loc' = [loc EXCEPT ![p] = r] /\ l \in LocType
        /\ Rest(p) /\ FileOf(p)' = FileOf(p) /\ FilesInv'
    BY <1>1, GoFacts, RestSame DEF PutDpOf
  <1> HIDE DEF l, r
  <1>7. /\ r \in LocType /\ r.pc = "iput" /\ r.vic = l.dp /\ r.k = k /\ r.dp = 0
        /\ r.cur = l.cur /\ r.ip = l.ip /\ r.nk = l.nk /\ r.parent = l.parent /\ r.call = l.call
        /\ r.name = l.name /\ r.rest = l.rest /\ r.new = l.new
    BY <1>2, <1>6, PutDpFields
  <1>8. Place(r) = k
    BY <1>7 DEF Place, Putting
  <1>9. OwnTypes(p)
    <2>1. ilk' \in [Slots -> FsProcs \cup {NoProc}]
      BY <1>1 DEF TypeInv
    <2> QED BY <1>1, <1>6, <1>7, <2>1 DEF OwnTypes, TypeInv, r
  <1>10. KMoved(<<p, "dp">>, <<p, "vic">>)
    <2>1. OtherTags(p, {"dp", "vic"})
      BY <1>6, <1>7 DEF OtherTags, l, r
    <2>2. \A x \in Ptrs \ {<<p, "dp">>, <<p, "vic">>} : To(x)' = To(x)
      BY <1>6, <2>1, KindRest
    <2> QED BY <1>3, <1>4, <1>7, <2>2, ToTag, ToTagNext, ZenonT(40) DEF KMoved, l, r
  <1>11. RefInv' /\ NewOk(p)
    BY <1>1, <1>3, <1>10, ToTag, RefMoved, NewMoved DEF l
  <1>12. ShapeP(p)'
    <2>1. Shape(r)
      BY <1>1, <1>3, <1>4, <1>5, <1>7, <1>8, SlotPos
         DEF ShapeP, Shape, PutsDp, HasIp, Creating, Place, Putting, Conts, Walks, DpOnly, IpDp, IpOnly, l
    <2>2. cwd[p] # 0
      BY <1>1, <1>2, <1>3 DEF ShapeP, l
    <2> QED BY <1>8, <2>1, <2>2 DEF ShapeP, PutsDp, r
  <1>13. LockP(p)' /\ LockStep(p)
    BY <1>1, <1>3, <1>5, <1>7, <1>8, Consts DEF LockP, LockStep, PutsDp, HoldsIp, HoldsDp, TypeInv, l, r
  <1>14. LiveP(p)'
    <2>1. /\ r.cur \in {0, 0} \cup OldOk(p) /\ r.ip \in {0, 0} \cup OldOk(p) /\ r.dp \in {0, 0} \cup OldOk(p)
          /\ cwd'[p] \in {0, 0} \cup OldOk(p) /\ FileOf(p)' \in {0, 0} \cup OldOk(p)
          /\ r.vic \in {0, 0, loc[p].ip} \cup OldOk(p)
      BY <1>2, <1>6, <1>7 DEF OldOk, l
    <2> QED BY <2>1, OwnLive DEF r, TabStep
  <1>15. (Pending(r) <=> Pending(l)) /\ (Linking(r) <=> Linking(l))
    BY <1>3, <1>8 DEF PutsDp, Pending, Linking, Walks, l
  <1>16. KnowP(p)'
    BY <1>7, <1>15, OwnKnow DEF l, r, TabStep
  <1> QED BY <1>6, <1>7, <1>9, <1>11, <1>12, <1>13, <1>14, <1>15, <1>16, QuietStep DEF OwnInv, PendSame, l, r

-----------------------------------------------------------------------------
(* iput and namex.                                                         *)

\* The locals after iput has returned.
LEMMA BackFields ==
  ASSUME NEW l \in LocType, l.k \in Conts, Shape(l), l.pc \in Putting, NEW r, r = Back(l)
  PROVE  /\ r \in LocType /\ r.pc = l.k /\ r.vic = 0
         /\ r.cur = l.cur /\ r.dp = l.dp /\ r.ip = l.ip
         /\ l.k # "user" => /\ r.nk = l.nk /\ r.parent = l.parent /\ r.call = l.call
                            /\ r.name = l.name /\ r.rest = l.rest /\ r.new = l.new
  <1>1. l.k \in Pcs /\ 0 \in 0..NINODE
    BY Consts DEF Conts, Pcs, Putting, Walks, DpOnly, IpDp, IpOnly
  <1>2. CASE l.k = "user"
    <2>1. Place(l) = "user"
      BY <1>2 DEF Place
    <2>2. l.cur = 0 /\ l.dp = 0 /\ l.ip = 0
      BY <2>1 DEF Shape, HasIp, DpOnly, IpDp, IpOnly, Walks
    <2>3. r = Idle /\ Idle.pc = "user" /\ Idle.vic = 0 /\ Idle.cur = 0 /\ Idle.dp = 0 /\ Idle.ip = 0
      BY <1>2 DEF Back, Idle
    <2>4. Idle \in LocType
      <3>1. <<>> \in Seq(Names \cup {".", "/"})
        OBVIOUS
      <3> QED BY <1>1, <1>2, <3>1 DEF Idle, LocType
    <2> QED BY <1>2, <2>2, <2>3, <2>4
  <1>3. CASE l.k # "user"
    <2>1. r = [l EXCEPT !.pc = l.k, !.vic = 0, !.k = ""]
      BY <1>3 DEF Back
    <2> QED BY <1>1, <2>1 DEF LocType
  <1> QED BY <1>2, <1>3

\* iput drops its reference and returns.
LEMMA BackStep ==
  ASSUME FsInv, NEW p \in FsProcs, loc[p].pc \in {"iput", "ifree"}, Go(p, Back(loc[p])),
         itable' = [itable EXCEPT ![loc[p].vic].ref = @ - 1],
         UNCHANGED <<dinode, ilk, ftable, ofile, cwd>>
  PROVE  FsInv'
  <1> DEFINE l == loc[p]
             r == loc'[p]
  <1>1. TypeInv /\ RefInv /\ CohInv /\ FilesInv /\ ShapeP(p) /\ LockP(p) /\ LiveP(p) /\ KnowP(p)
    BY DEF FsInv, ProcInv
  <1>2. l.pc \in Putting /\ l.k \in Conts /\ l.vic # 0 /\ l.pc # "create3" /\ Shape(l) /\ Place(l) = l.k
    BY <1>1 DEF ShapeP, Shape, Putting, Place
  <1>3. l.vic \in Slots /\ itable[l.vic].ref > 0
    BY <1>1, <1>2, UsedBy
  <1>4. TabStep /\ RefsDown(l.vic)
    BY <1>1, <1>3, StepDown
  <1>5. /\ r = Back(l) /\ loc' = [loc EXCEPT ![p] = r] /\ l \in LocType
        /\ Rest(p) /\ FileOf(p)' = FileOf(p) /\ FilesInv'
    BY <1>1, GoFacts, RestSame
  <1> HIDE DEF l, r
  <1>6. /\ r \in LocType /\ r.pc = l.k /\ r.vic = 0
        /\ r.cur = l.cur /\ r.dp = l.dp /\ r.ip = l.ip
        /\ l.k # "user" => /\ r.nk = l.nk /\ r.parent = l.parent /\ r.call = l.call
                           /\ r.name = l.name /\ r.rest = l.rest /\ r.new = l.new
    BY <1>2, <1>5, BackFields
  <1>7. Place(r) = Place(l) /\ r.pc \notin Putting
    BY <1>2, <1>6 DEF Place, Conts, Putting
  <1>8. OwnTypes(p)
    BY <1>1, <1>5, <1>6 DEF OwnTypes, TypeInv, r
  <1>9. KDropped(<<p, "vic">>)
    <2>1. OtherTags(p, {"vic"})
      BY <1>5, <1>6 DEF OtherTags, l, r
    <2>2. \A x \in Ptrs \ {<<p, "vic">>} : To(x)' = To(x)
      BY <1>5, <2>1, KindRest
    <2> QED BY <1>2, <1>6, <2>2, ToTag, ToTagNext DEF KDropped, l, r
  <1>10. RefInv' /\ NewOk(p)
    BY <1>1, <1>4, <1>9, ToTag, RefDropped, NewDropped DEF l
  <1>11. (Linking(r) <=> Linking(l)) /\ (Pending(r) <=> Pending(l)) /\ (HasIp(r) <=> HasIp(l)) /\
         (Creating(r) <=> Creating(l))
    BY <1>2, <1>6, <1>7 DEF Linking, Pending, HasIp, Creating, Walks, IpDp, IpOnly
  <1>12. ShapeP(p)'
    <2>1. Shape(r)
      BY <1>2, <1>6, <1>7, <1>11 DEF Shape, DpOnly, IpDp, Walks, Conts, Creating, Place
    <2> QED BY <1>1, <1>7, <2>1 DEF ShapeP, l, r
  <1>13. LockP(p)' /\ LockStep(p)
    BY <1>1, <1>2, <1>6, <1>7 DEF LockP, LockStep, Putting, l, r
  <1>14. LiveP(p)'
    <2>1. /\ r.cur \in {0, 0} \cup OldOk(p) /\ r.ip \in {0, 0} \cup OldOk(p) /\ r.dp \in {0, 0} \cup OldOk(p)
          /\ cwd'[p] \in {0, 0} \cup OldOk(p) /\ FileOf(p)' \in {0, 0} \cup OldOk(p)
          /\ r.vic \in {0, 0, loc[p].ip} \cup OldOk(p)
      BY <1>2, <1>5, <1>6 DEF OldOk, l
    <2> QED BY <2>1, <1>4, OwnLive DEF r, TabStep
  <1>15. KnowP(p)'
    BY <1>2, <1>4, <1>6, <1>11, OwnKnow DEF l, r, TabStep, Conts
  <1> QED BY <1>4, <1>5, <1>6, <1>8, <1>10, <1>11, <1>12, <1>13, <1>14, <1>15, QuietStep
      DEF OwnInv, PendSame, l, r

\* iput, first part.
LEMMA iput_Inv ==
  ASSUME FsInv, NEW p \in FsProcs, iput(p)
  PROVE  FsInv'
  <1> DEFINE l == loc[p]
             r == loc'[p]
  <1>1. TypeInv /\ RefInv /\ CohInv /\ FilesInv /\ ShapeP(p) /\ LockP(p) /\ LiveP(p) /\ KnowP(p)
    BY DEF FsInv, ProcInv
  <1>2. CASE ~LastRef(l.vic)
    BY <1>2, BackStep DEF iput
  <1>3. CASE LastRef(l.vic)
    <2>1. /\ l.pc = "iput" /\ ilk[l.vic] = NoProc /\ ilk' = [ilk EXCEPT ![l.vic] = p]
          /\ Go(p, At(l, "itrunc")) /\ UNCHANGED <<dinode, itable, ftable, ofile, cwd>>
      BY <1>3 DEF iput
    <2>2. l.vic # 0 /\ l.k \in Conts /\ Place(l) = l.k
      BY <1>1, <2>1 DEF ShapeP, Shape, Putting, Place
    <2>3. l.vic \in Slots /\ itable[l.vic].ref > 0 /\ itable[l.vic].inum \in Inums
      BY <1>1, <2>2, UsedBy
    <2>4. TabStep /\ RefsSame
      BY <1>1, <2>1, StepSame
    <2>5. /\ r = At(l, "itrunc") /\ loc' = [loc EXCEPT ![p] = r] /\ l \in LocType
          /\ Rest(p) /\ FileOf(p)' = FileOf(p) /\ FilesInv'
      BY <1>1, <2>1, GoFacts, RestSame
    <2> HIDE DEF l, r
    <2>6. /\ r \in LocType /\ r.pc = "itrunc" /\ r.vic = l.vic /\ r.k = l.k /\ r.ip = l.ip
          /\ r.cur = l.cur /\ r.dp = l.dp /\ r.nk = l.nk /\ r.parent = l.parent /\ r.call = l.call
          /\ r.name = l.name /\ r.rest = l.rest /\ r.new = l.new
      BY <2>5 DEF At, LocType, Pcs, Putting
    <2>7. Place(r) = Place(l)
      BY <2>1, <2>6 DEF Place, Putting
    <2>8. OwnTypes(p)
      BY <1>1, <2>1, <2>3, <2>5, <2>6 DEF OwnTypes, TypeInv, r
    <2>9. KSame
      BY <2>1, <2>5, <2>6, KindSame DEF l, r
    <2>10. RefInv' /\ NewOk(p)
      BY <1>1, <2>1, <2>4, <2>9, RefSame, NewSame DEF l
    <2>11. (Linking(r) <=> Linking(l)) /\ (Pending(r) <=> Pending(l)) /\ (HasIp(r) <=> HasIp(l)) /\
           (Creating(r) <=> Creating(l))
      BY <2>6, <2>7 DEF Linking, Pending, HasIp, Creating
    <2>12. ShapeP(p)'
      <3>1. Shape(r)
        BY <1>1, <2>1, <2>6, <2>7, <2>11 DEF ShapeP, Shape, Putting, l
      <3> QED BY <1>1, <2>1, <2>7, <3>1 DEF ShapeP, l, r
    <2>13. LockP(p)' /\ LockStep(p)
      BY <1>1, <2>1, <2>3, <2>6, <2>7, Consts DEF LockP, LockStep, TypeInv, l, r
    <2>14. LiveP(p)'
      <3>1. /\ r.cur \in {0, 0} \cup OldOk(p) /\ r.ip \in {0, 0} \cup OldOk(p) /\
               r.dp \in {0, 0} \cup OldOk(p)
            /\ cwd'[p] \in {0, 0} \cup OldOk(p) /\ FileOf(p)' \in {0, 0} \cup OldOk(p)
            /\ r.vic = loc[p].vic /\ loc[p].pc # "ifree"
        BY <2>1, <2>5, <2>6 DEF OldOk, l
      <3> QED BY <2>1, <2>4, <3>1, OwnLive DEF r, TabStep
    <2>15. KnowP(p)'
      <3>1. PICK s : s = l.vic /\ s = r.vic
        BY <2>6
      <3>2. Alone(<<p, "vic">>, s)
        <4>1. itable[s].ref = 1 /\ itable[s].valid /\ itable[s].nlink = 0
          BY <1>3, <3>1 DEF LastRef
        <4>2. To(<<p, "vic">>) = s /\ <<p, "vic">> \in Ptrs
          BY <3>1, ToTag DEF l
        <4>3. Node(s).nlink = 0
          BY <1>1, <2>3, <3>1, <4>1 DEF CohInv, Coh, Node
        <4>4. Count(Held, s) = 1
          BY <1>1, <2>3, <3>1, <4>1 DEF RefInv
        <4>5. \A x, y \in Ptrs : Held[x] = s /\ Held[y] = s => x = y
          BY <4>4, CountPos
        <4> QED BY <4>2, <4>3, <4>5, HeldIs DEF Alone
      <3>3. Alone(<<p, "vic">>, s)'
        <4>1. Node(s)' = Node(s)
          BY <2>1 DEF Node
        <4>2. \A y \in Ptrs : To(y)' = To(y)
          BY <2>9 DEF KSame
        <4>3. \A y \in Ptrs : y # <<p, "vic">> => (Gone(y)' <=> Gone(y))
          <5> SUFFICES ASSUME NEW y \in Ptrs, y # <<p, "vic">> PROVE Gone(y)' <=> Gone(y)
            OBVIOUS
          <5>1. CASE y[1] # p
            BY <2>5, <5>1, RestTo
          <5>2. CASE y[1] = p
            BY <5>2, PtrCases DEF Gone
          <5> QED BY <5>1, <5>2
        <4> QED BY <3>2, <4>1, <4>2, <4>3, ToTag DEF Alone
      <3> QED BY <1>1, <2>1, <2>6, <2>11, <3>1, <3>3 DEF KnowP, Node, l, r
    <2> QED BY <2>1, <2>4, <2>5, <2>6, <2>8, <2>10, <2>11, <2>12, <2>13, <2>14, <2>15, QuietStep
        DEF OwnInv, PendSame, l, r
  <1> QED BY <1>2, <1>3

\* iput, last part.
LEMMA iput_done_Inv ==
  ASSUME FsInv, NEW p \in FsProcs, iput_done(p)
  PROVE  FsInv'
  BY BackStep DEF iput_done

\* A sequence over the set of its elements.
LEMMA SeqRange ==
  ASSUME NEW S, NEW T, NEW seq \in Seq(S), \A j \in 1..Len(seq) : seq[j] \in T
  PROVE  seq \in Seq(T)
  <1>1. Len(seq) \in Nat /\ seq \in [1..Len(seq) -> S]
    BY LenProperties
  <1>2. seq \in [1..Len(seq) -> T]
    BY <1>1
  <1> QED BY <1>1, <1>2, SeqDef

\* A path: what is left of it after its first component.
LEMMA PathTail ==
  ASSUME NEW path, GoodPath(path)
  PROVE  /\ Absolute(path) => Tail(path) \in Seq(Comps)
         /\ ~Absolute(path) => path \in Seq(Comps)
  <1> DEFINE S == Names \cup {".", "/"}
  <1>1. path \in Seq(S) /\ Len(path) \in Nat /\ \A j \in 1..Len(path) : path[j] \in S
    BY DEF GoodPath
  <1>2. CASE path # <<>>
    <2>1. Tail(path) \in Seq(S) /\ Len(Tail(path)) = Len(path) - 1 /\ Len(path) > 0
      BY <1>1, <1>2, HeadTailProperties
    <2>2. \A j \in 1..Len(Tail(path)) : Tail(path)[j] = path[j + 1]
      BY <1>1, <1>2, HeadTailProperties
    <2>3. \A j \in 1..Len(Tail(path)) : Tail(path)[j] \in Comps
      <3> SUFFICES ASSUME NEW j \in 1..Len(Tail(path)) PROVE Tail(path)[j] \in Comps
        OBVIOUS
      <3>1. j + 1 \in 2..Len(path) /\ j + 1 \in 1..Len(path)
        BY <1>1, <2>1
      <3> QED BY <1>1, <2>2, <3>1 DEF GoodPath, Comps
    <2>4. Tail(path) \in Seq(Comps)
      BY <2>1, <2>3, SeqRange
    <2>5. ~Absolute(path) => \A j \in 1..Len(path) : path[j] \in Comps
      <3> SUFFICES ASSUME ~Absolute(path), NEW j \in 1..Len(path) PROVE path[j] \in Comps
        OBVIOUS
      <3>1. path[1] # "/"
        BY <1>2 DEF Absolute
      <3>2. j = 1 \/ j \in 2..Len(path)
        BY <1>1
      <3> QED BY <1>1, <3>1, <3>2 DEF GoodPath, Comps
    <2> QED BY <1>1, <2>4, <2>5
  <1>3. CASE path = <<>>
    BY <1>3 DEF Absolute
  <1> QED BY <1>2, <1>3

NamesFinite(i) ==
  /\ IsFiniteSet(NamesOf(i)) /\ Cardinality(NamesOf(i)) \in Nat
  /\ IsFiniteSet(Subdirs(i)) /\ Cardinality(Subdirs(i)) \in Nat
  /\ IsFiniteSet(Pends(i)) /\ Cardinality(Pends(i)) \in Nat

\* The disk is finite.
LEMMA InumsFinite == IsFiniteSet(Inums) /\ IsFiniteSet(Inums \X Names)
  <1>1. 1 \in Int /\ NINODES \in Int
    BY Consts
  <1>2. IsFiniteSet(1..NINODES)
    BY <1>1, FS_Interval
  <1> QED BY <1>2, Consts, FS_Product DEF Inums

\* Names, subdirectories and links under way can be counted.
LEMMA LinkFinite ==
  ASSUME NEW i
  PROVE  NamesFinite(i)
  <1>1. NamesOf(i) \in SUBSET (Inums \X Names) /\ Subdirs(i) \in SUBSET Names /\ Pends(i) \in SUBSET FsProcs
    BY DEF NamesOf, Subdirs, Pends
  <1> QED BY <1>1, InumsFinite, Consts, FS_Subset, FS_CardinalityType DEF NamesFinite

\* The inode that a name of a directory leads to is in use.
LEMMA Lookup ==
  ASSUME FsInv, NEW p \in FsProcs, NEW s \in OldOk(p), Node(s).type = "dir", NEW n \in Comps,
         NEW i, i = Node(s).ents[n], i # 0
  PROVE  /\ i \in Inums /\ dinode[i].type # "free"
         /\ dinode[i].type = "dir" => dinode[i].ents["."] = i
         /\ dinode[i].nlink > 0 \/ i = itable[s].inum
  <1>1. s \in Slots /\ itable[s].ref > 0 /\ itable[s].inum \in Inums /\ Live(s) /\ Dot(s)
    BY OldOkFacts
  <1>2. Node(s) \in Dinode
    BY <1>1 DEF FsInv, TypeInv, Node
  <1>3. i \in 0..NINODES
    BY <1>2 DEF Dinode, Comps
  <1>4. i \in Inums
    BY <1>3, Consts DEF Inums
  <1>5. CASE n = "."
    BY <1>1, <1>4, <1>5 DEF Dot, Live, Node
  <1>6. CASE n \in Names
    <2>1. dinode[i].type # "free"
      BY <1>1, <1>6 DEF FsInv, DiskInv, Node
    <2>2. <<itable[s].inum, n>> \in NamesOf(i)
      BY <1>1, <1>6 DEF NamesOf, Node
    <2>3. dinode[i].nlink > 0
      <3>1. NamesFinite(i)
        BY <1>4, LinkFinite
      <3>2. Cardinality(NamesOf(i)) # 0
        BY <2>2, <3>1, FS_EmptySet DEF NamesFinite
      <3>3. dinode[i].nlink >= Cardinality(NamesOf(i)) + Cardinality(Subdirs(i)) + Cardinality(Pends(i)) + Root(i)
        BY <1>4 DEF FsInv, LinkInv
      <3>4. dinode[i].nlink \in Nat
        BY <1>4 DEF FsInv, TypeInv, Dinode
      <3> QED BY <3>1, <3>2, <3>3, <3>4 DEF NamesFinite, Root
    <2>4. dinode[i].type = "dir" => dinode[i].ents["."] = i
      BY <1>4, <2>3 DEF FsInv, DiskInv
    <2> QED BY <1>4, <2>1, <2>3, <2>4
  <1> QED BY <1>5, <1>6 DEF Comps

\* The first component of a path, and the rest of it.
LEMMA HeadTail ==
  ASSUME NEW w \in Seq(Comps), w # <<>>
  PROVE  Head(w) \in Comps /\ Tail(w) \in Seq(Comps)
  OBVIOUS

\* What is left of a path is a path.
LEMMA CompsSeq ==
  ASSUME NEW rest \in Seq(Comps)
  PROVE  rest \in Seq(Names \cup {".", "/"})
  <1>1. Comps \subseteq Names \cup {".", "/"}
    BY DEF Comps
  <1> QED BY <1>1, SeqMonotonic

WalkOf(l, g, rest) == [l EXCEPT !.pc = "namex", !.cur = g, !.rest = rest]

\* The first pointer of a walk.
LEMMA WalkStart ==
  ASSUME FsInv, NEW p \in FsProcs, loc[p].pc = "namex0", NEW g \in Slots, Safe(p, g), Live(g)' /\
         Dot(g)', NEW rest \in Seq(Comps),
         Go(p, WalkOf(loc[p], g, rest)), TabStep, RefsUp(g), dinode' = dinode,
         UNCHANGED <<ftable, ofile, cwd, ilk>>
  PROVE  FsInv'
  <1> DEFINE l == loc[p]
             r == loc'[p]
  <1>1. TypeInv /\ RefInv /\ CohInv /\ FilesInv /\ ShapeP(p) /\ LockP(p) /\ LiveP(p) /\ KnowP(p)
    BY DEF FsInv, ProcInv
  <1>2. Place(l) = l.pc /\ l.vic = 0 /\ To(<<p, "vic">>) = 0 /\ l.pc # "ifree" /\ l.pc \notin Putting
    BY Unput DEF Putting
  <1>3. l.pc = "namex0" /\ l.cur = 0 /\ l.dp = 0 /\ l.nk \in Finds /\ cwd[p] # 0 /\
        (l.ip # 0 <=> l.nk = "link2")
    BY <1>1, <1>2 DEF ShapeP, Shape, HasIp, Creating, Putting, Conts, Walks, Finds, Parents,
       DpOnly, IpDp, IpOnly
  <1>4. /\ loc' = [loc EXCEPT ![p] = r] /\ l \in LocType /\ Rest(p) /\ FileOf(p)' = FileOf(p) /\ FilesInv'
        /\ r = WalkOf(l, g, rest)
    BY <1>1, <1>3, GoFacts, RestSame
  <1> HIDE DEF l, r
  <1>5. /\ r \in LocType
        /\ r.pc = "namex" /\ r.call = l.call /\ r.name = l.name /\ r.rest = rest
        /\ r.new = l.new /\ r.cur = g /\ r.ip = l.ip /\ r.dp = l.dp
        /\ r.vic = l.vic /\ r.parent = l.parent /\ r.k = l.k /\ r.nk = l.nk
    BY <1>1, <1>2, <1>3, <1>4, Consts, SlotPos, CompsSeq DEF WalkOf, LocType, Pcs, Putting, Conts,
       Walks, Finds, Parents, DpOnly, IpDp, IpOnly
  <1>6. Place(r) = "namex"
    BY <1>2, <1>3, <1>5 DEF Place, Putting, Finds
  <1>7. OwnTypes(p)
    BY <1>1, <1>3, <1>4, <1>5, Consts DEF OwnTypes, TypeInv, Slots, Files, l, r
  <1>8. KTook(<<p, "cur">>, g)
    <2>1. OtherTags(p, {"cur"})
      BY <1>4, <1>5 DEF OtherTags, l, r
    <2>2. \A x \in Ptrs \ {<<p, "cur">>} : To(x)' = To(x)
      BY <1>4, <2>1, KindRest
    <2> QED BY <1>2, <1>3, <1>5, <2>2, ToTag, ToTagNext, SlotPos DEF KTook, l, r
  <1>9. RefInv' /\ NewOk(p)
    BY <1>1, <1>2, <1>8, ToTag, RefTook, NewTook DEF l
  <1>10. ShapeP(p)'
    <2>1. Shape(r)
      BY <1>1, <1>2, <1>3, <1>5, <1>6, SlotPos
         DEF ShapeP, Shape, HasIp, Creating, Putting, Conts, Walks, Finds, Parents, DpOnly, IpDp, IpOnly, l
    <2> QED BY <1>1, <1>2, <1>3, <1>6, <2>1 DEF ShapeP, l, r
  <1>11. LockP(p)' /\ LockStep(p)
    BY <1>1, <1>2, <1>3, <1>5, <1>6, Consts DEF LockP, LockStep, HoldsIp, HoldsDp, TypeInv, Finds, l, r
  <1>12. LiveP(p)'
    <2>1. /\ r.cur \in {0, g} \cup OldOk(p) /\ r.ip \in {0, g} \cup OldOk(p)
          /\ r.dp \in {0, g} \cup OldOk(p) /\ cwd'[p] \in {0, g} \cup OldOk(p)
          /\ FileOf(p)' \in {0, g} \cup OldOk(p) /\ r.vic \in {0, g, loc[p].ip} \cup OldOk(p)
      BY <1>2, <1>3, <1>4, <1>5 DEF OldOk, l
    <2> QED BY <2>1, OwnLive DEF r, TabStep
  <1>13. (Pending(r) <=> Pending(l)) /\ (Linking(r) <=> Linking(l)) /\ (Pending(l) => r.ip = l.ip)
    BY <1>1, <1>2, <1>3, <1>5, <1>6 DEF Pending, Linking, Walks, Finds, l
  <1>14. KnowP(p)'
    BY <1>2, <1>3, <1>5, <1>13, OwnKnow DEF l, r, TabStep, Finds
  <1> QED BY <1>4, <1>5, <1>7, <1>9, <1>10, <1>11, <1>12, <1>13, <1>14, QuietStep DEF OwnInv, PendSame, l, r

\* The locals after namex has failed.
LEMMA NotFoundFields ==
  ASSUME NEW l \in LocType, NEW r, r = NotFound(l)
  PROVE  /\ r \in LocType
         /\ r.pc = "iput" /\ r.call = l.call /\ r.name = l.name /\ r.rest = <<>>
         /\ r.new = l.new /\ r.cur = 0 /\ r.ip = l.ip /\ r.dp = l.dp
         /\ r.vic = l.cur /\ r.parent = l.parent /\
            r.k = (IF l.nk = "link2" THEN "linkbad" ELSE "user") /\ r.nk = l.nk
  <1>1. PICK k : k = IF l.nk = "link2" THEN "linkbad" ELSE "user"
    OBVIOUS
  <1>2. k \in Conts /\ "iput" \in Pcs /\ 0 \in 0..NINODE /\ <<>> \in Seq(Names \cup {".", "/"})
    BY <1>1, Consts DEF Conts, Pcs, Putting
  <1>3. r = [l EXCEPT !.pc = "iput", !.vic = l.cur, !.k = k, !.cur = 0, !.rest = <<>>]
    BY <1>1 DEF NotFound, Iput
  <1>4. /\ r \in LocType
        /\ r.pc = "iput" /\ r.call = l.call /\ r.name = l.name /\ r.rest = <<>>
        /\ r.new = l.new /\ r.cur = 0 /\ r.ip = l.ip /\ r.dp = l.dp
        /\ r.vic = l.cur /\ r.parent = l.parent /\ r.k = k /\ r.nk = l.nk
    BY <1>2, <1>3, ZenonT(40) DEF LocType
  <1> QED BY <1>1, <1>4

FoundDpOf(l, n) == [l EXCEPT !.pc = l.nk, !.nk = "", !.rest = <<>>, !.cur = 0, !.dp = l.cur, !.name = n]
FoundIpOf(l) == [l EXCEPT !.pc = l.nk, !.nk = "", !.cur = 0, !.ip = l.cur]

FoundDpRec(l, n, r) ==
  /\ r \in LocType
  /\ r.pc = l.nk /\ r.call = l.call /\ r.name = n /\ r.rest = <<>>
  /\ r.new = l.new /\ r.cur = 0 /\ r.ip = l.ip /\ r.dp = l.cur
  /\ r.vic = l.vic /\ r.parent = l.parent /\ r.k = l.k /\ r.nk = ""

\* The locals after nameiparent has returned a directory.
LEMMA FoundDpFields ==
  ASSUME NEW l \in LocType, l.nk \in Finds, NEW n \in Comps
  PROVE  FoundDpRec(l, n, FoundDpOf(l, n))
  <1>1. l.nk \in Pcs /\ 0 \in 0..NINODE /\ <<>> \in Seq(Names \cup {".", "/"})
    BY Consts DEF Finds, Pcs, DpOnly, IpDp, IpOnly
  <1> QED BY <1>1 DEF LocType, FoundDpOf, FoundDpRec

\* The locals after namei has returned an inode.
LEMMA FoundIpFields ==
  ASSUME NEW l \in LocType, l.nk \in Finds, NEW r, r = FoundIpOf(l)
  PROVE  /\ r \in LocType
         /\ r.pc = l.nk /\ r.call = l.call /\ r.name = l.name /\ r.rest = l.rest
         /\ r.new = l.new /\ r.cur = 0 /\ r.ip = l.cur /\ r.dp = l.dp
         /\ r.vic = l.vic /\ r.parent = l.parent /\ r.k = l.k /\ r.nk = ""
  <1>1. l.nk \in Pcs /\ 0 \in 0..NINODE
    BY Consts DEF Finds, Pcs, DpOnly, IpDp, IpOnly
  <1> QED BY <1>1 DEF LocType, FoundIpOf
\* A walk finds nothing.
LEMMA WalkFails ==
  ASSUME FsInv, NEW p \in FsProcs, loc[p].pc = "namex",
         Go(p, NotFound(loc[p])), TabStep, RefsSame, dinode' = dinode,
         UNCHANGED <<ftable, ofile, cwd, ilk>>
  PROVE  FsInv'
  <1> DEFINE l == loc[p]
             r == loc'[p]
  <1>1. TypeInv /\ RefInv /\ CohInv /\ FilesInv /\ ShapeP(p) /\ LockP(p) /\ LiveP(p) /\ KnowP(p)
    BY DEF FsInv, ProcInv
  <1>2. Place(l) = l.pc /\ l.vic = 0 /\ To(<<p, "vic">>) = 0 /\ l.pc # "ifree" /\ l.pc \notin Putting
    BY Unput DEF Putting
  <1>3. l.pc = "namex" /\ l.cur # 0 /\ l.dp = 0 /\ l.nk \in Finds /\ cwd[p] # 0 /\
        (l.ip # 0 <=> l.nk = "link2")
    BY <1>1, <1>2 DEF ShapeP, Shape, HasIp, Creating, Putting, Conts, Walks, Finds, Parents,
       DpOnly, IpDp, IpOnly
  <1>4. /\ loc' = [loc EXCEPT ![p] = r] /\ l \in LocType /\ Rest(p) /\ FileOf(p)' = FileOf(p) /\ FilesInv'
        /\ r = NotFound(l)
    BY <1>1, <1>3, GoFacts, RestSame
  <1> HIDE DEF l, r
  <1>5. /\ r \in LocType
        /\ r.pc = "iput" /\ r.call = l.call /\ r.name = l.name /\ r.rest = <<>>
        /\ r.new = l.new /\ r.cur = 0 /\ r.ip = l.ip /\ r.dp = l.dp
        /\ r.vic = l.cur /\ r.parent = l.parent /\
           r.k = (IF l.nk = "link2" THEN "linkbad" ELSE "user") /\ r.nk = l.nk
    BY <1>3, <1>4, NotFoundFields
  <1>6. Place(r) = IF l.nk = "link2" THEN "linkbad" ELSE "user"
    BY <1>2, <1>3, <1>5 DEF Place, Putting, Finds
  <1>7. OwnTypes(p)
    BY <1>1, <1>3, <1>4, <1>5, Consts DEF OwnTypes, TypeInv, Slots, Files, l, r
  <1>8. KMoved(<<p, "cur">>, <<p, "vic">>)
    <2>1. OtherTags(p, {"cur", "vic"})
      BY <1>4, <1>5 DEF OtherTags, l, r
    <2>2. \A x \in Ptrs \ {<<p, "cur">>, <<p, "vic">>} : To(x)' = To(x)
      BY <1>4, <2>1, KindRest
    <2>3. /\ To(<<p, "cur">>) = l.cur /\ To(<<p, "cur">>)' = r.cur
          /\ To(<<p, "vic">>) = l.vic /\ To(<<p, "vic">>)' = r.vic
      BY ToTag, ToTagNext DEF l, r
    <2> QED BY <1>2, <1>3, <1>5, <2>2, <2>3, SlotPos DEF KMoved
  <1>9. RefInv' /\ NewOk(p)
    BY <1>1, <1>2, <1>8, ToTag, RefMoved, NewMoved DEF l
  <1>10. ShapeP(p)'
    <2>1. Shape(r)
      BY <1>1, <1>2, <1>3, <1>5, <1>6, SlotPos
         DEF ShapeP, Shape, HasIp, Creating, Putting, Conts, Walks, Finds, Parents, DpOnly, IpDp, IpOnly, l
    <2> QED BY <1>1, <1>2, <1>3, <1>6, <2>1 DEF ShapeP, l, r
  <1>11. LockP(p)' /\ LockStep(p)
    BY <1>1, <1>2, <1>3, <1>5, <1>6, Consts DEF LockP, LockStep, HoldsIp, HoldsDp, TypeInv, Finds, l, r
  <1>12. LiveP(p)'
    <2>1. /\ r.cur \in {0, 0} \cup OldOk(p) /\ r.ip \in {0, 0} \cup OldOk(p)
          /\ r.dp \in {0, 0} \cup OldOk(p) /\ cwd'[p] \in {0, 0} \cup OldOk(p)
          /\ FileOf(p)' \in {0, 0} \cup OldOk(p) /\ r.vic \in {0, 0, loc[p].ip} \cup OldOk(p)
      BY <1>2, <1>3, <1>4, <1>5 DEF OldOk, l
    <2> QED BY <2>1, OwnLive DEF r, TabStep
  <1>13. (Pending(r) <=> Pending(l)) /\ (Linking(r) <=> Linking(l)) /\ (Pending(l) => r.ip = l.ip)
    BY <1>1, <1>2, <1>3, <1>5, <1>6 DEF Pending, Linking, Walks, Finds, l
  <1>14. KnowP(p)'
    BY <1>2, <1>3, <1>5, <1>13, OwnKnow DEF l, r, TabStep, Finds
  <1> QED BY <1>4, <1>5, <1>7, <1>9, <1>10, <1>11, <1>12, <1>13, <1>14, QuietStep DEF OwnInv, PendSame, l, r

\* A walk finds the parent directory.
LEMMA WalkFindsParent ==
  ASSUME FsInv, NEW p \in FsProcs, loc[p].pc = "namex", loc[p].nk \in Parents,
         Node(loc[p].cur).type = "dir", NEW n \in Comps,
         Go(p, FoundDpOf(loc[p], n)), TabStep, RefsSame, dinode' = dinode,
         UNCHANGED <<ftable, ofile, cwd, ilk>>
  PROVE  FsInv'
  <1> DEFINE l == loc[p]
             r == loc'[p]
  <1>1. TypeInv /\ RefInv /\ CohInv /\ FilesInv /\ ShapeP(p) /\ LockP(p) /\ LiveP(p) /\ KnowP(p)
    BY DEF FsInv, ProcInv
  <1>2. Place(l) = l.pc /\ l.vic = 0 /\ To(<<p, "vic">>) = 0 /\ l.pc # "ifree" /\ l.pc \notin Putting
    BY Unput DEF Putting
  <1>3. l.pc = "namex" /\ l.cur # 0 /\ l.dp = 0 /\ l.nk \in Parents /\ l.nk \in Finds /\
        l.nk # "chdir2" /\ l.nk \notin Putting /\ cwd[p] # 0 /\ (l.ip # 0 <=> l.nk = "link2") /\
        (l.nk = "create1" => l.call \in Creates)
    BY <1>1, <1>2 DEF ShapeP, Shape, HasIp, Creating, Putting, Conts, Walks, Finds, Parents,
       DpOnly, IpDp, IpOnly
  <1>4. /\ loc' = [loc EXCEPT ![p] = r] /\ l \in LocType /\ Rest(p) /\ FileOf(p)' = FileOf(p) /\ FilesInv'
        /\ r = FoundDpOf(l, n)
    BY <1>1, <1>3, GoFacts, RestSame
  <1> HIDE DEF l, r
  <1>5. /\ r \in LocType
        /\ r.pc = l.nk /\ r.call = l.call /\ r.name = n /\ r.rest = <<>>
        /\ r.new = l.new /\ r.cur = 0 /\ r.ip = l.ip /\ r.dp = l.cur
        /\ r.vic = l.vic /\ r.parent = l.parent /\ r.k = l.k /\ r.nk = ""
    <2>1. l \in LocType /\ l.nk \in Finds /\ r = FoundDpOf(l, n) /\ n \in Comps
      BY <1>3, <1>4
    <2>2. FoundDpRec(l, n, r)
      BY ONLY <2>1, FoundDpFields
    <2> QED BY ONLY <2>2 DEF FoundDpRec
  <1>6. Place(r) = l.nk
    BY <1>2, <1>3, <1>5 DEF Place, Putting, Finds
  <1>7. OwnTypes(p)
    BY <1>1, <1>3, <1>4, <1>5, Consts DEF OwnTypes, TypeInv, Slots, Files, l, r
  <1>8. KMoved(<<p, "cur">>, <<p, "dp">>)
    <2>1. OtherTags(p, {"cur", "dp"})
      BY <1>4, <1>5 DEF OtherTags, l, r
    <2>2. \A x \in Ptrs \ {<<p, "cur">>, <<p, "dp">>} : To(x)' = To(x)
      BY <1>4, <2>1, KindRest
    <2>3. /\ To(<<p, "cur">>) = l.cur /\ To(<<p, "cur">>)' = r.cur
          /\ To(<<p, "dp">>) = l.dp /\ To(<<p, "dp">>)' = r.dp
      BY ToTag, ToTagNext DEF l, r
    <2> QED BY <1>2, <1>3, <1>5, <2>2, <2>3, SlotPos DEF KMoved
  <1>9. RefInv' /\ NewOk(p)
    BY <1>1, <1>2, <1>8, ToTag, RefMoved, NewMoved DEF l
  <1>10. ShapeP(p)'
    <2>1. Shape(r)
      BY <1>1, <1>2, <1>3, <1>5, <1>6, SlotPos
         DEF ShapeP, Shape, HasIp, Creating, Putting, Conts, Walks, Finds, Parents, DpOnly, IpDp, IpOnly, l
    <2> QED BY <1>1, <1>2, <1>3, <1>6, <2>1 DEF ShapeP, l, r
  <1>11. LockP(p)' /\ LockStep(p)
    BY <1>1, <1>2, <1>3, <1>5, <1>6, Consts DEF LockP, LockStep, HoldsIp, HoldsDp, TypeInv, Finds, l, r
  <1>12. LiveP(p)'
    <2>1. /\ r.cur \in {0, 0} \cup OldOk(p) /\ r.ip \in {0, 0} \cup OldOk(p)
          /\ r.dp \in {0, 0} \cup OldOk(p) /\ cwd'[p] \in {0, 0} \cup OldOk(p)
          /\ FileOf(p)' \in {0, 0} \cup OldOk(p) /\ r.vic \in {0, 0, loc[p].ip} \cup OldOk(p)
      BY <1>2, <1>3, <1>4, <1>5 DEF OldOk, l
    <2> QED BY <2>1, OwnLive DEF r, TabStep
  <1>13. (Pending(r) <=> Pending(l)) /\ (Linking(r) <=> Linking(l)) /\ (Pending(l) => r.ip = l.ip)
    BY <1>1, <1>2, <1>3, <1>5, <1>6 DEF Parents, Pending, Linking, Walks, Finds, l
  <1>14. KnowP(p)'
    <2>1. PICK s : s = l.cur /\ s = r.dp
      BY <1>5
    <2>2. s \in Slots /\ itable[s].ref > 0
      BY <1>1, <1>3, <2>1, UsedBy DEF l
    <2>3. Node(s)'.type = "dir"
      BY <2>1, <2>2, NodeSame DEF TabStep, l
    <2>4. r.dp \in {0, l.dp} \/ Node(loc[p].dp)'.type = "dir"
      BY <2>1, <2>3 DEF r
    <2> QED BY <1>2, <1>3, <1>5, <1>13, <2>4, OwnKnow DEF l, r, TabStep, Finds, Parents
  <1> QED BY <1>4, <1>5, <1>7, <1>9, <1>10, <1>11, <1>12, <1>13, <1>14, QuietStep DEF OwnInv, PendSame, l, r

\* A walk finds its inode.
LEMMA WalkFinds ==
  ASSUME FsInv, NEW p \in FsProcs, loc[p].pc = "namex", loc[p].nk \notin Parents,
         Go(p, FoundIpOf(loc[p])), TabStep, RefsSame, dinode' = dinode,
         UNCHANGED <<ftable, ofile, cwd, ilk>>
  PROVE  FsInv'
  <1> DEFINE l == loc[p]
             r == loc'[p]
  <1>1. TypeInv /\ RefInv /\ CohInv /\ FilesInv /\ ShapeP(p) /\ LockP(p) /\ LiveP(p) /\ KnowP(p)
    BY DEF FsInv, ProcInv
  <1>2. Place(l) = l.pc /\ l.vic = 0 /\ To(<<p, "vic">>) = 0 /\ l.pc # "ifree" /\ l.pc \notin Putting
    BY Unput DEF Putting
  <1>3. l.pc = "namex" /\ l.cur # 0 /\ l.dp = 0 /\ l.nk \in Finds \ Parents /\ l.nk # "chdir2" /\
        l.nk \notin Putting /\ cwd[p] # 0 /\ l.ip = 0 /\ (l.nk = "link1" => GoodPath(l.new)) /\
        l.nk \in Finds
    BY <1>1, <1>2 DEF ShapeP, Shape, HasIp, Creating, Putting, Conts, Walks, Finds, Parents,
       DpOnly, IpDp, IpOnly
  <1>4. /\ loc' = [loc EXCEPT ![p] = r] /\ l \in LocType /\ Rest(p) /\ FileOf(p)' = FileOf(p) /\ FilesInv'
        /\ r = FoundIpOf(l)
    BY <1>1, <1>3, GoFacts, RestSame
  <1> HIDE DEF l, r
  <1>5. /\ r \in LocType
        /\ r.pc = l.nk /\ r.call = l.call /\ r.name = l.name /\ r.rest = l.rest
        /\ r.new = l.new /\ r.cur = 0 /\ r.ip = l.cur /\ r.dp = l.dp
        /\ r.vic = l.vic /\ r.parent = l.parent /\ r.k = l.k /\ r.nk = ""
    BY <1>3, <1>4, FoundIpFields, ZenonT(40)
  <1>6. Place(r) = l.nk
    BY <1>2, <1>3, <1>5 DEF Place, Putting, Finds
  <1>7. OwnTypes(p)
    BY <1>1, <1>3, <1>4, <1>5, Consts DEF OwnTypes, TypeInv, Slots, Files, l, r
  <1>8. KMoved(<<p, "cur">>, <<p, "ip">>)
    <2>1. OtherTags(p, {"cur", "ip"})
      BY <1>4, <1>5 DEF OtherTags, l, r
    <2>2. \A x \in Ptrs \ {<<p, "cur">>, <<p, "ip">>} : To(x)' = To(x)
      BY <1>4, <2>1, KindRest
    <2>3. /\ To(<<p, "cur">>) = l.cur /\ To(<<p, "cur">>)' = r.cur
          /\ To(<<p, "ip">>) = l.ip /\ To(<<p, "ip">>)' = r.ip
      BY ToTag, ToTagNext DEF l, r
    <2> QED BY <1>2, <1>3, <1>5, <2>2, <2>3, SlotPos DEF KMoved
  <1>9. RefInv' /\ NewOk(p)
    BY <1>1, <1>2, <1>8, ToTag, RefMoved, NewMoved DEF l
  <1>10. ShapeP(p)'
    <2>1. Shape(r)
      BY <1>1, <1>2, <1>3, <1>5, <1>6, SlotPos
         DEF ShapeP, Shape, HasIp, Creating, Putting, Conts, Walks, Finds, Parents, DpOnly, IpDp, IpOnly, l
    <2> QED BY <1>1, <1>2, <1>3, <1>6, <2>1 DEF ShapeP, l, r
  <1>11. LockP(p)' /\ LockStep(p)
    BY <1>1, <1>2, <1>3, <1>5, <1>6, Consts DEF LockP, LockStep, HoldsIp, HoldsDp, TypeInv, Finds, l, r
  <1>12. LiveP(p)'
    <2>1. /\ r.cur \in {0, 0} \cup OldOk(p) /\ r.ip \in {0, 0} \cup OldOk(p)
          /\ r.dp \in {0, 0} \cup OldOk(p) /\ cwd'[p] \in {0, 0} \cup OldOk(p)
          /\ FileOf(p)' \in {0, 0} \cup OldOk(p) /\ r.vic \in {0, 0, loc[p].ip} \cup OldOk(p)
      BY <1>2, <1>3, <1>4, <1>5 DEF OldOk, l
    <2> QED BY <2>1, OwnLive DEF r, TabStep
  <1>13. (Pending(r) <=> Pending(l)) /\ (Linking(r) <=> Linking(l)) /\ (Pending(l) => r.ip = l.ip)
    BY <1>1, <1>2, <1>3, <1>5, <1>6 DEF Parents, Pending, Linking, Walks, Finds, l
  <1>14. KnowP(p)'
    <2>1. r.pc \notin {"ialloc", "create3", "unlink2", "itrunc"} /\ r.dp = 0 /\ ~Linking(r)
      BY <1>3, <1>5, <1>6 DEF Linking, Walks, Finds, Parents
    <2> QED BY <2>1, OwnKnow DEF r, TabStep
  <1> QED BY <1>4, <1>5, <1>7, <1>9, <1>10, <1>11, <1>12, <1>13, <1>14, QuietStep DEF OwnInv, PendSame, l, r

WalkOnOf(l, g, rest) == [Iput(l, l.cur, "namex") EXCEPT !.cur = g, !.rest = rest]

\* A walk enters the next directory.
LEMMA WalkGoesOn ==
  ASSUME FsInv, NEW p \in FsProcs, loc[p].pc = "namex", NEW g \in Slots, Safe(p, g), Live(g)' /\
         Dot(g)', NEW rest \in Seq(Comps),
         Go(p, WalkOnOf(loc[p], g, rest)), TabStep, RefsUp(g), dinode' = dinode,
         UNCHANGED <<ftable, ofile, cwd, ilk>>
  PROVE  FsInv'
  <1> DEFINE l == loc[p]
             r == loc'[p]
  <1>1. TypeInv /\ RefInv /\ CohInv /\ FilesInv /\ ShapeP(p) /\ LockP(p) /\ LiveP(p) /\ KnowP(p)
    BY DEF FsInv, ProcInv
  <1>2. Place(l) = l.pc /\ l.vic = 0 /\ To(<<p, "vic">>) = 0 /\ l.pc # "ifree" /\ l.pc \notin Putting
    BY Unput DEF Putting
  <1>3. l.pc = "namex" /\ l.cur # 0 /\ l.dp = 0 /\ l.nk \in Finds /\ cwd[p] # 0 /\
        (l.ip # 0 <=> l.nk = "link2")
    BY <1>1, <1>2 DEF ShapeP, Shape, HasIp, Creating, Putting, Conts, Walks, Finds, Parents,
       DpOnly, IpDp, IpOnly
  <1>4. /\ loc' = [loc EXCEPT ![p] = r] /\ l \in LocType /\ Rest(p) /\ FileOf(p)' = FileOf(p) /\ FilesInv'
        /\ r = WalkOnOf(l, g, rest)
    BY <1>1, <1>3, GoFacts, RestSame
  <1> HIDE DEF l, r
  <1>5. /\ r \in LocType
        /\ r.pc = "iput" /\ r.call = l.call /\ r.name = l.name /\ r.rest = rest
        /\ r.new = l.new /\ r.cur = g /\ r.ip = l.ip /\ r.dp = l.dp
        /\ r.vic = l.cur /\ r.parent = l.parent /\ r.k = "namex" /\ r.nk = l.nk
    BY <1>1, <1>2, <1>3, <1>4, Consts, SlotPos, CompsSeq DEF WalkOnOf, LocType, Pcs, Putting,
       Conts, Walks, Finds, Parents, DpOnly, IpDp, IpOnly, Iput
  <1>6. Place(r) = "namex"
    BY <1>2, <1>3, <1>5 DEF Place, Putting, Finds
  <1>7. OwnTypes(p)
    BY <1>1, <1>3, <1>4, <1>5, Consts DEF OwnTypes, TypeInv, Slots, Files, l, r
  <1>8. KMovedTook(<<p, "cur">>, <<p, "vic">>, <<p, "cur">>, g)
    <2>1. OtherTags(p, {"cur", "vic", "cur"})
      BY <1>4, <1>5 DEF OtherTags, l, r
    <2>2. \A x \in Ptrs \ {<<p, "cur">>, <<p, "vic">>, <<p, "cur">>} : To(x)' = To(x)
      BY <1>4, <2>1, KindRest
    <2>3. /\ To(<<p, "cur">>) = l.cur /\ To(<<p, "cur">>)' = r.cur
          /\ To(<<p, "vic">>) = l.vic /\ To(<<p, "vic">>)' = r.vic
      BY ToTag, ToTagNext DEF l, r
    <2> QED BY <1>2, <1>3, <1>5, <2>2, <2>3, SlotPos DEF KMovedTook
  <1>9. RefInv' /\ NewOk(p)
    BY <1>1, <1>2, <1>8, ToTag, RefMovedTook, NewMovedTook DEF l
  <1>10. ShapeP(p)'
    <2>1. Shape(r)
      BY <1>1, <1>2, <1>3, <1>5, <1>6, SlotPos
         DEF ShapeP, Shape, HasIp, Creating, Putting, Conts, Walks, Finds, Parents, DpOnly, IpDp, IpOnly, l
    <2> QED BY <1>1, <1>2, <1>3, <1>6, <2>1 DEF ShapeP, l, r
  <1>11. LockP(p)' /\ LockStep(p)
    BY <1>1, <1>2, <1>3, <1>5, <1>6, Consts DEF LockP, LockStep, HoldsIp, HoldsDp, TypeInv, Finds, l, r
  <1>12. LiveP(p)'
    <2>1. /\ r.cur \in {0, g} \cup OldOk(p) /\ r.ip \in {0, g} \cup OldOk(p)
          /\ r.dp \in {0, g} \cup OldOk(p) /\ cwd'[p] \in {0, g} \cup OldOk(p)
          /\ FileOf(p)' \in {0, g} \cup OldOk(p) /\ r.vic \in {0, g, loc[p].ip} \cup OldOk(p)
      BY <1>2, <1>3, <1>4, <1>5 DEF OldOk, l
    <2> QED BY <2>1, OwnLive DEF r, TabStep
  <1>13. (Pending(r) <=> Pending(l)) /\ (Linking(r) <=> Linking(l)) /\ (Pending(l) => r.ip = l.ip)
    BY <1>1, <1>2, <1>3, <1>5, <1>6 DEF Pending, Linking, Walks, Finds, l
  <1>14. KnowP(p)'
    BY <1>2, <1>3, <1>5, <1>13, OwnKnow DEF l, r, TabStep, Finds
  <1> QED BY <1>4, <1>5, <1>7, <1>9, <1>10, <1>11, <1>12, <1>13, <1>14, QuietStep DEF OwnInv, PendSame, l, r

\* After a quiet step to a place where p knows an entry of its directory.
LEMMA OwnKnowAt ==
  ASSUME FsInv, NEW p \in FsProcs, Stable, dinode' = dinode,
         loc'[p].pc \notin {"create3", "itrunc"},
         loc'[p].dp \in {0, loc[p].dp},
         Linking(loc'[p]) => Linking(loc[p]) /\ loc'[p].ip = loc[p].ip,
         loc'[p].pc = "ialloc" => Node(loc[p].dp).ents[loc'[p].name] = 0,
         loc'[p].pc = "unlink2" => Node(loc[p].dp).ents[loc'[p].name] = itable'[loc'[p].ip].inum,
         loc'[p].pc \in {"ialloc", "unlink2"} => loc'[p].dp = loc[p].dp /\ loc[p].dp # 0
  PROVE  KnowP(p)'
  <1>1. TypeInv /\ RefInv /\ CohInv /\ KnowP(p) /\ ShapeP(p)
    BY DEF FsInv, ProcInv
  <1>2. loc'[p].dp # 0 => /\ Node(loc[p].dp)'.type = "dir"
                          /\ Node(loc[p].dp)' = Node(loc[p].dp)
    <2> SUFFICES ASSUME loc'[p].dp = loc[p].dp, loc[p].dp # 0
                 PROVE  Node(loc[p].dp)'.type = "dir" /\ Node(loc[p].dp)' = Node(loc[p].dp)
      OBVIOUS
    <2>1. PICK d : d = loc[p].dp /\ d = loc'[p].dp
      OBVIOUS
    <2>2. d \in Slots /\ itable[d].ref > 0 /\ Node(d).type = "dir"
      BY <1>1, <2>1, UsedBy DEF KnowP
    <2> QED BY <2>1, <2>2, NodeSame
  <1>3. Linking(loc'[p]) => Node(loc[p].ip)'.type # "dir"
    <2> SUFFICES ASSUME Linking(loc[p]), loc'[p].ip = loc[p].ip PROVE Node(loc[p].ip)'.type # "dir"
      OBVIOUS
    <2>1. PICK s : s = loc[p].ip /\ s = loc'[p].ip
      OBVIOUS
    <2>2. s # 0
      BY <1>1, <2>1, PendIp DEF Pending
    <2>3. s \in Slots /\ itable[s].ref > 0 /\ Node(s).type # "dir"
      BY <1>1, <2>1, <2>2, UsedBy DEF KnowP
    <2> QED BY <2>1, <2>3, NodeSame
  <1>4. /\ loc'[p].pc = "ialloc" => Node(loc[p].dp)'.ents[loc'[p].name] = 0
        /\ loc'[p].pc = "unlink2" => Node(loc[p].dp)'.ents[loc'[p].name] = itable'[loc'[p].ip].inum
    BY <1>2
  <1> QED BY <1>2, <1>3, <1>4 DEF KnowP

\* A process enters a system call.
LEMMA CallStep ==
  ASSUME FsInv, NEW p \in FsProcs, loc[p].pc = "user", NEW r0 \in LocType,
         r0.pc = "namex0", r0.cur = 0, r0.ip = 0, r0.dp = 0, r0.vic = 0, r0.nk \in Finds \ {"link2"},
         r0.parent <=> r0.nk \in Parents, r0.nk = "create1" => r0.call \in Creates,
         GoodPath(r0.rest), r0.nk = "link1" => GoodPath(r0.new),
         Go(p, r0), TabStep, RefsSame, dinode' = dinode,
         UNCHANGED <<ftable, ofile, cwd, ilk>>
  PROVE  FsInv'
  <1> DEFINE l == loc[p]
             r == loc'[p]
  <1>1. TypeInv /\ RefInv /\ CohInv /\ FilesInv /\ ShapeP(p) /\ LockP(p) /\ LiveP(p) /\ KnowP(p)
    BY DEF FsInv, ProcInv
  <1>2. Place(l) = l.pc /\ l.vic = 0 /\ To(<<p, "vic">>) = 0 /\ l.pc # "ifree" /\ l.pc \notin Putting
    BY Unput DEF Putting
  <1>3. l.pc = "user" /\ l.cur = 0 /\ l.ip = 0 /\ l.dp = 0 /\ cwd[p] # 0 /\ r0.nk \in Finds
    BY <1>1, <1>2 DEF ShapeP, Shape, HasIp, Creating, Putting, Conts, Walks, Finds, Parents,
       DpOnly, IpDp, IpOnly
  <1>4. /\ loc' = [loc EXCEPT ![p] = r] /\ l \in LocType /\ Rest(p) /\ FileOf(p)' = FileOf(p) /\ FilesInv'
        /\ r = r0
    BY <1>1, <1>3, GoFacts, RestSame
  <1> HIDE DEF l, r
  <1>5. /\ r \in LocType
        /\ r.pc = r0.pc /\ r.call = r0.call /\ r.name = r0.name /\ r.rest = r0.rest
        /\ r.new = r0.new /\ r.cur = l.cur /\ r.ip = l.ip /\ r.dp = l.dp
        /\ r.vic = l.vic /\ r.parent = r0.parent /\ r.k = r0.k /\ r.nk = r0.nk
    BY <1>2, <1>3, <1>4
  <1>6. Place(r) = "namex0"
    BY <1>2, <1>3, <1>5 DEF Place, Putting, Finds
  <1>7. OwnTypes(p)
    BY <1>1, <1>3, <1>4, <1>5, Consts DEF OwnTypes, TypeInv, Slots, Files, l, r
  <1>8. KSame
    BY <1>2, <1>3, <1>4, <1>5, KindSame DEF l, r
  <1>9. RefInv' /\ NewOk(p)
    BY <1>1, <1>2, <1>8, RefSame, NewSame DEF l
  <1>10. ShapeP(p)'
    <2>1. Shape(r)
      BY <1>1, <1>2, <1>3, <1>5, <1>6, SlotPos
         DEF ShapeP, Shape, HasIp, Creating, Putting, Conts, Walks, Finds, Parents, DpOnly, IpDp, IpOnly, l
    <2> QED BY <1>1, <1>2, <1>3, <1>6, <2>1 DEF ShapeP, l, r
  <1>11. LockP(p)' /\ LockStep(p)
    BY <1>1, <1>2, <1>3, <1>5, <1>6, Consts DEF LockP, LockStep, HoldsIp, HoldsDp, TypeInv, Finds, l, r
  <1>12. LiveP(p)'
    <2>1. /\ r.cur \in {0, 0} \cup OldOk(p) /\ r.ip \in {0, 0} \cup OldOk(p)
          /\ r.dp \in {0, 0} \cup OldOk(p) /\ cwd'[p] \in {0, 0} \cup OldOk(p)
          /\ FileOf(p)' \in {0, 0} \cup OldOk(p) /\ r.vic \in {0, 0, loc[p].ip} \cup OldOk(p)
      BY <1>2, <1>3, <1>4, <1>5 DEF OldOk, l
    <2> QED BY <2>1, OwnLive DEF r, TabStep
  <1>13. (Pending(r) <=> Pending(l)) /\ (Linking(r) <=> Linking(l)) /\ (Pending(l) => r.ip = l.ip)
    BY <1>1, <1>2, <1>3, <1>5, <1>6 DEF Pending, Linking, Walks, Finds, l
  <1>14. KnowP(p)'
    BY <1>2, <1>3, <1>5, <1>13, OwnKnow DEF l, r, TabStep, Finds
  <1> QED BY <1>4, <1>5, <1>7, <1>9, <1>10, <1>11, <1>12, <1>13, <1>14, QuietStep DEF OwnInv, PendSame, l, r

CreateFoundOf(l, g) == [Iput(l, l.dp, "create2") EXCEPT !.ip = g, !.dp = 0]

CreateFoundRec(l, g, r) ==
  /\ r \in LocType
  /\ r.pc = "iput" /\ r.call = l.call /\ r.name = l.name /\ r.rest = l.rest
  /\ r.new = l.new /\ r.cur = l.cur /\ r.ip = g /\ r.dp = 0
  /\ r.vic = l.dp /\ r.parent = l.parent /\ r.k = "create2" /\ r.nk = l.nk

\* The locals after create has found the name.
LEMMA CreateFoundFields ==
  ASSUME NEW l \in LocType, NEW g \in Slots
  PROVE  CreateFoundRec(l, g, CreateFoundOf(l, g))
  <1>1. g \in 0..NINODE /\ 0 \in 0..NINODE /\ "iput" \in Pcs /\ "create2" \in Conts
    BY SlotPos, Consts DEF Pcs, Putting, Conts
  <1>2. CreateFoundOf(l, g) = [l EXCEPT !.pc = "iput", !.vic = l.dp, !.k = "create2", !.ip = g, !.dp = 0]
    BY DEF CreateFoundOf, Iput
  <1> QED BY <1>1, <1>2, ZenonT(40) DEF LocType, CreateFoundRec

\* create finds the name taken.
LEMMA CreateFinds ==
  ASSUME FsInv, NEW p \in FsProcs, loc[p].pc = "create1", NEW g \in Slots, Safe(p, g), Live(g)' /\ Dot(g)',
         Go(p, CreateFoundOf(loc[p], g)), TabStep, RefsUp(g), dinode' = dinode,
         UNCHANGED <<ftable, ofile, cwd, ilk>>
  PROVE  FsInv'
  <1> DEFINE l == loc[p]
             r == loc'[p]
  <1>1. TypeInv /\ RefInv /\ CohInv /\ FilesInv /\ ShapeP(p) /\ LockP(p) /\ LiveP(p) /\ KnowP(p)
    BY DEF FsInv, ProcInv
  <1>2. Place(l) = l.pc /\ l.vic = 0 /\ To(<<p, "vic">>) = 0 /\ l.pc # "ifree" /\ l.pc \notin Putting
    BY Unput DEF Putting
  <1>3. l.pc = "create1" /\ l.cur = 0 /\ l.dp # 0 /\ l.ip = 0 /\ cwd[p] # 0 /\ l.call \in Creates
    BY <1>1, <1>2 DEF ShapeP, Shape, HasIp, Creating, Putting, Conts, Walks, Finds, Parents,
       DpOnly, IpDp, IpOnly
  <1>4. /\ loc' = [loc EXCEPT ![p] = r] /\ l \in LocType /\ Rest(p) /\ FileOf(p)' = FileOf(p) /\ FilesInv'
        /\ r = CreateFoundOf(l, g)
    BY <1>1, <1>3, GoFacts, RestSame
  <1> HIDE DEF l, r
  <1>5. /\ r \in LocType
        /\ r.pc = "iput" /\ r.call = l.call /\ r.name = l.name /\ r.rest = l.rest
        /\ r.new = l.new /\ r.cur = l.cur /\ r.ip = g /\ r.dp = 0
        /\ r.vic = l.dp /\ r.parent = l.parent /\ r.k = "create2" /\ r.nk = l.nk
    <2>1. CreateFoundRec(l, g, r)
      BY <1>4, CreateFoundFields
    <2> QED BY <2>1 DEF CreateFoundRec
  <1>6. Place(r) = "create2"
    BY <1>2, <1>3, <1>5 DEF Place, Putting, Finds
  <1>7. OwnTypes(p)
    BY <1>1, <1>3, <1>4, <1>5, Consts DEF OwnTypes, TypeInv, Slots, Files, l, r
  <1>8. KMovedTook(<<p, "dp">>, <<p, "vic">>, <<p, "ip">>, g)
    <2>1. OtherTags(p, {"dp", "vic", "ip"})
      BY <1>4, <1>5 DEF OtherTags, l, r
    <2>2. \A x \in Ptrs \ {<<p, "dp">>, <<p, "vic">>, <<p, "ip">>} : To(x)' = To(x)
      BY <1>4, <2>1, KindRest
    <2>3. /\ To(<<p, "dp">>) = l.dp /\ To(<<p, "dp">>)' = r.dp
          /\ To(<<p, "vic">>) = l.vic /\ To(<<p, "vic">>)' = r.vic
          /\ To(<<p, "ip">>) = l.ip /\ To(<<p, "ip">>)' = r.ip
      BY ToTag, ToTagNext DEF l, r
    <2> QED BY <1>2, <1>3, <1>5, <2>2, <2>3, SlotPos DEF KMovedTook
  <1>9. RefInv' /\ NewOk(p)
    BY <1>1, <1>2, <1>8, ToTag, RefMovedTook, NewMovedTook DEF l
  <1>10. ShapeP(p)'
    <2>1. Shape(r)
      BY <1>1, <1>2, <1>3, <1>5, <1>6, SlotPos
         DEF ShapeP, Shape, HasIp, Creating, Putting, Conts, Walks, Finds, Parents, DpOnly, IpDp, IpOnly, l
    <2> QED BY <1>1, <1>2, <1>3, <1>6, <2>1 DEF ShapeP, l, r
  <1>11. LockP(p)' /\ LockStep(p)
    BY <1>1, <1>2, <1>3, <1>5, <1>6, Consts DEF LockP, LockStep, HoldsIp, HoldsDp, TypeInv, Finds, l, r
  <1>12. LiveP(p)'
    <2>1. /\ r.cur \in {0, g} \cup OldOk(p) /\ r.ip \in {0, g} \cup OldOk(p)
          /\ r.dp \in {0, g} \cup OldOk(p) /\ cwd'[p] \in {0, g} \cup OldOk(p)
          /\ FileOf(p)' \in {0, g} \cup OldOk(p) /\ r.vic \in {0, g, loc[p].ip} \cup OldOk(p)
      BY <1>2, <1>3, <1>4, <1>5 DEF OldOk, l
    <2> QED BY <2>1, OwnLive DEF r, TabStep
  <1>13. (Pending(r) <=> Pending(l)) /\ (Linking(r) <=> Linking(l)) /\ (Pending(l) => r.ip = l.ip)
    BY <1>1, <1>2, <1>3, <1>5, <1>6 DEF Pending, Linking, Walks, Finds, l
  <1>14. KnowP(p)'
    <2>1. r.pc \notin {"ialloc", "create3", "unlink2", "itrunc"} /\ r.dp = 0 /\ ~Linking(r)
      BY <1>3, <1>5, <1>6 DEF Linking, Walks
    <2> QED BY <2>1, OwnKnow DEF r, TabStep
  <1> QED BY <1>4, <1>5, <1>7, <1>9, <1>10, <1>11, <1>12, <1>13, <1>14, QuietStep DEF OwnInv, PendSame, l, r

AtRec(l, pc, r) ==
  /\ r \in LocType
  /\ r.pc = pc /\ r.call = l.call /\ r.name = l.name /\ r.rest = l.rest
  /\ r.new = l.new /\ r.cur = l.cur /\ r.ip = l.ip /\ r.dp = l.dp
  /\ r.vic = l.vic /\ r.parent = l.parent /\ r.k = l.k /\ r.nk = l.nk

\* The locals after a step to another place.
LEMMA AtFields ==
  ASSUME NEW l \in LocType, NEW pc \in Pcs
  PROVE  AtRec(l, pc, At(l, pc))
  BY DEF At, AtRec, LocType

\* create goes on to ialloc, the parent locked.
LEMMA CreateLocks ==
  ASSUME FsInv, NEW p \in FsProcs, loc[p].pc = "create1", Node(loc[p].dp).ents[loc[p].name] = 0,
         ilk[loc[p].dp] = NoProc,
         Go(p, At(loc[p], "ialloc")), TabStep, RefsSame, dinode' = dinode,
         UNCHANGED <<ftable, ofile, cwd>>,
         ilk' = [ilk EXCEPT ![loc[p].dp] = p]
  PROVE  FsInv'
  <1> DEFINE l == loc[p]
             r == loc'[p]
  <1>1. TypeInv /\ RefInv /\ CohInv /\ FilesInv /\ ShapeP(p) /\ LockP(p) /\ LiveP(p) /\ KnowP(p)
    BY DEF FsInv, ProcInv
  <1>2. Place(l) = l.pc /\ l.vic = 0 /\ To(<<p, "vic">>) = 0 /\ l.pc # "ifree" /\ l.pc \notin Putting
    BY Unput DEF Putting
  <1>3. l.pc = "create1" /\ l.cur = 0 /\ l.dp # 0 /\ l.ip = 0 /\ cwd[p] # 0 /\ l.call \in Creates
    BY <1>1, <1>2 DEF ShapeP, Shape, HasIp, Creating, Putting, Conts, Walks, Finds, Parents,
       DpOnly, IpDp, IpOnly
  <1>4. /\ loc' = [loc EXCEPT ![p] = r] /\ l \in LocType /\ Rest(p) /\ FileOf(p)' = FileOf(p) /\ FilesInv'
        /\ r = At(l, "ialloc")
    BY <1>1, <1>3, GoFacts, RestSame
  <1> HIDE DEF l, r
  <1>5. /\ r \in LocType
        /\ r.pc = "ialloc" /\ r.call = l.call /\ r.name = l.name /\ r.rest = l.rest
        /\ r.new = l.new /\ r.cur = l.cur /\ r.ip = l.ip /\ r.dp = l.dp
        /\ r.vic = l.vic /\ r.parent = l.parent /\ r.k = l.k /\ r.nk = l.nk
    <2>1. "ialloc" \in Pcs
      BY DEF Pcs, DpOnly
    <2>2. AtRec(l, "ialloc", r)
      BY <1>4, <2>1, AtFields
    <2> QED BY <2>2 DEF AtRec
  <1>6. Place(r) = "ialloc"
    BY <1>2, <1>3, <1>5 DEF Place, Putting, Finds
  <1>7. OwnTypes(p)
    BY <1>1, <1>3, <1>4, <1>5, Consts DEF OwnTypes, TypeInv, Slots, Files, l, r
  <1>8. KSame
    BY <1>4, <1>5, KindSame DEF l, r
  <1>9. RefInv' /\ NewOk(p)
    BY <1>1, <1>2, <1>8, RefSame, NewSame DEF l
  <1>10. ShapeP(p)'
    <2>1. Shape(r)
      BY <1>1, <1>2, <1>3, <1>5, <1>6, SlotPos
         DEF ShapeP, Shape, HasIp, Creating, Putting, Conts, Walks, Finds, Parents, DpOnly, IpDp, IpOnly, l
    <2> QED BY <1>1, <1>2, <1>3, <1>6, <2>1 DEF ShapeP, l, r
  <1>11. LockP(p)' /\ LockStep(p)
    <2>1. l.dp \in Slots
      BY <1>1, <1>3, UsedBy DEF l
    <2>2. \A s \in Slots : ilk'[s] = IF s = l.dp THEN p ELSE ilk[s]
      BY <1>1, <2>1 DEF TypeInv, l
    <2>3. \A s \in Slots : ilk[s] # p
      BY <1>1, <1>2, <1>3 DEF LockP, HoldsIp, HoldsDp, l
    <2>4. ilk[l.dp] = NoProc
      BY DEF l
    <2>5. LockStep(p)
      BY <2>2, <2>4 DEF LockStep
    <2> QED BY <1>5, <1>6, <2>1, <2>2, <2>3, <2>5 DEF LockP, HoldsIp, HoldsDp, r
  <1>12. LiveP(p)'
    <2>1. /\ r.cur \in {0, 0} \cup OldOk(p) /\ r.ip \in {0, 0} \cup OldOk(p)
          /\ r.dp \in {0, 0} \cup OldOk(p) /\ cwd'[p] \in {0, 0} \cup OldOk(p)
          /\ FileOf(p)' \in {0, 0} \cup OldOk(p) /\ r.vic \in {0, 0, loc[p].ip} \cup OldOk(p)
      BY <1>2, <1>3, <1>4, <1>5 DEF OldOk, l
    <2> QED BY <2>1, OwnLive DEF r, TabStep
  <1>13. (Pending(r) <=> Pending(l)) /\ (Linking(r) <=> Linking(l)) /\ (Pending(l) => r.ip = l.ip)
    BY <1>1, <1>2, <1>3, <1>5, <1>6 DEF Pending, Linking, Walks, Finds, l
  <1>14. KnowP(p)'
    <2>1. r.pc = "ialloc" /\ r.dp = l.dp /\ l.dp # 0 /\ r.name = l.name /\ ~Linking(r)
      BY <1>2, <1>3, <1>5, <1>6 DEF Linking, Walks
    <2>2. Node(loc[p].dp).ents[r.name] = 0
      BY <2>1 DEF l
    <2> QED BY <2>1, <2>2, OwnKnowAt DEF l, r, TabStep
  <1> QED BY <1>4, <1>5, <1>7, <1>9, <1>10, <1>11, <1>12, <1>13, <1>14, QuietStep DEF OwnInv, PendSame, l, r

\* open locks the inode it has found.
LEMMA OpenLocks ==
  ASSUME FsInv, NEW p \in FsProcs, loc[p].pc \in {"create2", "open"}, ilk[loc[p].ip] = NoProc,
         Go(p, At(loc[p], "open2")), TabStep, RefsSame, dinode' = dinode,
         UNCHANGED <<ftable, ofile, cwd>>,
         ilk' = [ilk EXCEPT ![loc[p].ip] = p]
  PROVE  FsInv'
  <1> DEFINE l == loc[p]
             r == loc'[p]
  <1>1. TypeInv /\ RefInv /\ CohInv /\ FilesInv /\ ShapeP(p) /\ LockP(p) /\ LiveP(p) /\ KnowP(p)
    BY DEF FsInv, ProcInv
  <1>2. Place(l) = l.pc /\ l.vic = 0 /\ To(<<p, "vic">>) = 0 /\ l.pc # "ifree" /\ l.pc \notin Putting
    BY Unput DEF Putting
  <1>3. l.pc \in {"create2", "open"} /\ l.cur = 0 /\ l.dp = 0 /\ l.ip # 0 /\ cwd[p] # 0
    BY <1>1, <1>2 DEF ShapeP, Shape, HasIp, Creating, Putting, Conts, Walks, Finds, Parents,
       DpOnly, IpDp, IpOnly
  <1>4. /\ loc' = [loc EXCEPT ![p] = r] /\ l \in LocType /\ Rest(p) /\ FileOf(p)' = FileOf(p) /\ FilesInv'
        /\ r = At(l, "open2")
    BY <1>1, <1>3, GoFacts, RestSame
  <1> HIDE DEF l, r
  <1>5. /\ r \in LocType
        /\ r.pc = "open2" /\ r.call = l.call /\ r.name = l.name /\ r.rest = l.rest
        /\ r.new = l.new /\ r.cur = l.cur /\ r.ip = l.ip /\ r.dp = l.dp
        /\ r.vic = l.vic /\ r.parent = l.parent /\ r.k = l.k /\ r.nk = l.nk
    <2>1. "open2" \in Pcs
      BY DEF Pcs, IpOnly
    <2>2. AtRec(l, "open2", r)
      BY <1>4, <2>1, AtFields
    <2> QED BY <2>2 DEF AtRec
  <1>6. Place(r) = "open2"
    BY <1>2, <1>3, <1>5 DEF Place, Putting, Finds
  <1>7. OwnTypes(p)
    BY <1>1, <1>3, <1>4, <1>5, Consts DEF OwnTypes, TypeInv, Slots, Files, l, r
  <1>8. KSame
    BY <1>4, <1>5, KindSame DEF l, r
  <1>9. RefInv' /\ NewOk(p)
    BY <1>1, <1>2, <1>8, RefSame, NewSame DEF l
  <1>10. ShapeP(p)'
    <2>1. Shape(r)
      BY <1>1, <1>2, <1>3, <1>5, <1>6, SlotPos
         DEF ShapeP, Shape, HasIp, Creating, Putting, Conts, Walks, Finds, Parents, DpOnly, IpDp, IpOnly, l
    <2> QED BY <1>1, <1>2, <1>3, <1>6, <2>1 DEF ShapeP, l, r
  <1>11. LockP(p)' /\ LockStep(p)
    <2>1. l.ip \in Slots
      BY <1>1, <1>3, UsedBy DEF l
    <2>2. \A s \in Slots : ilk'[s] = IF s = l.ip THEN p ELSE ilk[s]
      BY <1>1, <2>1 DEF TypeInv, l
    <2>3. \A s \in Slots : ilk[s] # p
      BY <1>1, <1>2, <1>3 DEF LockP, HoldsIp, HoldsDp, l
    <2>4. ilk[l.ip] = NoProc
      BY DEF l
    <2>5. LockStep(p)
      BY <2>2, <2>4 DEF LockStep
    <2> QED BY <1>5, <1>6, <2>1, <2>2, <2>3, <2>5 DEF LockP, HoldsIp, HoldsDp, r
  <1>12. LiveP(p)'
    <2>1. /\ r.cur \in {0, 0} \cup OldOk(p) /\ r.ip \in {0, 0} \cup OldOk(p)
          /\ r.dp \in {0, 0} \cup OldOk(p) /\ cwd'[p] \in {0, 0} \cup OldOk(p)
          /\ FileOf(p)' \in {0, 0} \cup OldOk(p) /\ r.vic \in {0, 0, loc[p].ip} \cup OldOk(p)
      BY <1>2, <1>3, <1>4, <1>5 DEF OldOk, l
    <2> QED BY <2>1, OwnLive DEF r, TabStep
  <1>13. (Pending(r) <=> Pending(l)) /\ (Linking(r) <=> Linking(l)) /\ (Pending(l) => r.ip = l.ip)
    BY <1>1, <1>2, <1>3, <1>5, <1>6 DEF Pending, Linking, Walks, Finds, l
  <1>14. KnowP(p)'
    BY <1>2, <1>3, <1>5, <1>13, OwnKnow DEF l, r, TabStep, Finds
  <1> QED BY <1>4, <1>5, <1>7, <1>9, <1>10, <1>11, <1>12, <1>13, <1>14, QuietStep DEF OwnInv, PendSame, l, r

\* close keeps files and descriptors together.
LEMMA CloseFiles ==
  ASSUME TypeInv, FilesInv, NEW p \in FsProcs, ofile[p] # 0, NEW l, Go(p, l),
         ofile' = [ofile EXCEPT ![p] = 0], ftable' = [ftable EXCEPT ![ofile[p]] = 0], cwd' = cwd
  PROVE  /\ Rest(p) /\ FilesInv' /\ FileOf(p) = ftable[ofile[p]] /\ FileOf(p) # 0 /\ FileOf(p)' = 0
         /\ ofile' \in [FsProcs -> 0..NFILE] /\ ftable' \in [Files -> 0..NINODE]
  <1>1. ofile \in [FsProcs -> 0..NFILE] /\ ftable \in [Files -> 0..NINODE] /\ ofile[p] \in Files
    BY Consts DEF TypeInv, Files
  <1>2. /\ ofile'[p] = 0 /\ \A q \in FsProcs \ {p} : ofile'[q] = ofile[q] /\ ofile[q] # ofile[p]
        /\ ftable'[ofile[p]] = 0 /\ \A f \in Files \ {ofile[p]} : ftable'[f] = ftable[f]
    BY <1>1 DEF FilesInv
  <1>3. FilesInv'
    BY <1>1, <1>2 DEF FilesInv
  <1>4. \A q \in FsProcs \ {p} : FileOf(q)' = FileOf(q)
    <2> SUFFICES ASSUME NEW q \in FsProcs \ {p} PROVE FileOf(q)' = FileOf(q)
      OBVIOUS
    <2>1. ofile[q] # 0 => ofile[q] \in Files \ {ofile[p]}
      BY <1>1, <1>2 DEF Files
    <2> QED BY <1>2, <2>1 DEF FileOf
  <1>5. Rest(p)
    BY <1>4, GoFacts DEF Rest
  <1>6. FileOf(p) = ftable[ofile[p]] /\ FileOf(p) # 0 /\ FileOf(p)' = 0
    BY <1>2 DEF FileOf, FilesInv
  <1>7. 0 \in 0..NFILE /\ 0 \in 0..NINODE
    BY Consts
  <1> QED BY <1>1, <1>3, <1>5, <1>6, <1>7

\* open keeps files and descriptors together.
LEMMA OpenFiles ==
  ASSUME TypeInv, FilesInv, NEW p \in FsProcs, ofile[p] = 0, NEW l, Go(p, l),
         NEW f \in Files, ftable[f] = 0, NEW s \in Slots,
         ofile' = [ofile EXCEPT ![p] = f], ftable' = [ftable EXCEPT ![f] = s], cwd' = cwd
  PROVE  /\ Rest(p) /\ FilesInv' /\ FileOf(p) = 0 /\ FileOf(p)' = s
         /\ ofile' \in [FsProcs -> 0..NFILE] /\ ftable' \in [Files -> 0..NINODE]
  <1>1. ofile \in [FsProcs -> 0..NFILE] /\ ftable \in [Files -> 0..NINODE] /\ f # 0 /\ f \in 0..NFILE
    BY Consts DEF TypeInv, Files
  <1>2. /\ ofile'[p] = f /\ \A q \in FsProcs \ {p} : ofile'[q] = ofile[q] /\ ofile[q] # f
        /\ ftable'[f] = s /\ \A u \in Files \ {f} : ftable'[u] = ftable[u]
    BY <1>1 DEF FilesInv
  <1>3. s # 0 /\ s \in 0..NINODE
    BY SlotPos
  <1>4. FilesInv'
    <2>1. \A u \in Files : ftable'[u] # 0 => \E q \in FsProcs : ofile'[q] = u
      <3> SUFFICES ASSUME NEW u \in Files, ftable'[u] # 0 PROVE \E q \in FsProcs : ofile'[q] = u
        OBVIOUS
      <3>1. CASE u = f
        BY <1>2, <3>1
      <3>2. CASE u # f
        BY <1>1, <1>2, <3>2 DEF FilesInv, Files
      <3> QED BY <3>1, <3>2
    <2>2. \A q \in FsProcs : ofile'[q] # 0 => ftable'[ofile'[q]] # 0
      <3> SUFFICES ASSUME NEW q \in FsProcs, ofile'[q] # 0 PROVE ftable'[ofile'[q]] # 0
        OBVIOUS
      <3>1. CASE q = p
        BY <1>2, <1>3, <3>1
      <3>2. CASE q # p
        <4>1. ofile[q] \in Files \ {f} /\ ofile'[q] = ofile[q]
          BY <1>1, <1>2, <3>2 DEF Files
        <4> QED BY <1>2, <3>2, <4>1 DEF FilesInv
      <3> QED BY <3>1, <3>2
    <2>3. \A q, w \in FsProcs : ofile'[q] # 0 /\ ofile'[q] = ofile'[w] => q = w
      BY <1>2 DEF FilesInv
    <2> QED BY <2>1, <2>2, <2>3 DEF FilesInv
  <1>5. \A q \in FsProcs \ {p} : FileOf(q)' = FileOf(q)
    <2> SUFFICES ASSUME NEW q \in FsProcs \ {p} PROVE FileOf(q)' = FileOf(q)
      OBVIOUS
    <2>1. ofile[q] # 0 => ofile[q] \in Files \ {f}
      BY <1>1, <1>2 DEF Files
    <2> QED BY <1>2, <2>1 DEF FileOf
  <1>6. Rest(p)
    BY <1>5, GoFacts DEF Rest
  <1>7. FileOf(p) = 0 /\ FileOf(p)' = s
    BY <1>1, <1>2 DEF FileOf
  <1> QED BY <1>1, <1>3, <1>4, <1>6, <1>7

PutRec(l, s, k, r) ==
  /\ r \in LocType
  /\ r.pc = "iput" /\ r.call = l.call /\ r.name = l.name /\ r.rest = l.rest
  /\ r.new = l.new /\ r.cur = l.cur /\ r.ip = l.ip /\ r.dp = l.dp
  /\ r.vic = s /\ r.parent = l.parent /\ r.k = k /\ r.nk = l.nk

\* The locals after iput(s) was called.
LEMMA PutFields ==
  ASSUME NEW l \in LocType, NEW s \in Slots, NEW k \in Conts
  PROVE  PutRec(l, s, k, Iput(l, s, k))
  <1>1. s \in 0..NINODE /\ "iput" \in Pcs
    BY SlotPos DEF Pcs, Putting
  <1> QED BY <1>1 DEF LocType, Iput, PutRec

IdleRec(r) ==
  /\ r \in LocType
  /\ r.pc = "user" /\ r.call = "" /\ r.name = "" /\ r.rest = <<>>
  /\ r.new = <<>> /\ r.cur = 0 /\ r.ip = 0 /\ r.dp = 0
  /\ r.vic = 0 /\ r.parent = FALSE /\ r.k = "" /\ r.nk = ""

\* The locals of a process outside system calls.
LEMMA IdleFields == IdleRec(Idle)
  <1>1. <<>> \in Seq(Names \cup {".", "/"}) /\ 0 \in 0..NINODE /\ "user" \in Pcs
    BY Consts DEF Pcs
  <1> QED BY <1>1 DEF Idle, IdleRec, LocType

\* close.
LEMMA CloseStep ==
  ASSUME FsInv, NEW p \in FsProcs, loc[p].pc = "user", ofile[p] # 0, NEW f, f = ftable[ofile[p]],
         ofile' = [ofile EXCEPT ![p] = 0], ftable' = [ftable EXCEPT ![ofile[p]] = 0],
         Go(p, Iput(loc[p], f, "user")), TabStep, RefsSame, dinode' = dinode,
         UNCHANGED <<cwd, ilk>>
  PROVE  FsInv'
  <1> DEFINE l == loc[p]
             r == loc'[p]
  <1>1. TypeInv /\ RefInv /\ CohInv /\ FilesInv /\ ShapeP(p) /\ LockP(p) /\ LiveP(p) /\ KnowP(p)
    BY DEF FsInv, ProcInv
  <1>2. Place(l) = l.pc /\ l.vic = 0 /\ To(<<p, "vic">>) = 0 /\ l.pc # "ifree" /\ l.pc \notin Putting
    BY Unput DEF Putting
  <1>3. l.pc = "user" /\ l.cur = 0 /\ l.ip = 0 /\ l.dp = 0 /\ cwd[p] # 0 /\ FileOf(p) = f /\ f # 0 /\
        f \in Slots
    <2>1. FileOf(p) = f /\ f # 0
      BY <1>1 DEF FileOf, FilesInv
    <2>2. f \in Slots
      BY <1>1, <2>1, UsedBy
    <2> QED BY <1>1, <1>2, <2>1, <2>2 DEF ShapeP, Shape, HasIp, Creating, Putting, Conts, Walks,
        Finds, Parents, DpOnly, IpDp, IpOnly
  <1>4. /\ loc' = [loc EXCEPT ![p] = r] /\ l \in LocType /\ Rest(p) /\ FilesInv' /\
           ofile' \in [FsProcs -> 0..NFILE] /\ ftable' \in [Files -> 0..NINODE] /\ FileOf(p)' = 0
        /\ r = Iput(l, f, "user")
    BY <1>1, <1>3, GoFacts, CloseFiles
  <1> HIDE DEF l, r
  <1>5. /\ r \in LocType
        /\ r.pc = "iput" /\ r.call = l.call /\ r.name = l.name /\ r.rest = l.rest
        /\ r.new = l.new /\ r.cur = l.cur /\ r.ip = l.ip /\ r.dp = l.dp
        /\ r.vic = f /\ r.parent = l.parent /\ r.k = "user" /\ r.nk = l.nk
    <2>1. "user" \in Conts
      BY DEF Conts
    <2>2. PutRec(l, f, "user", r)
      BY <1>3, <1>4, <2>1, PutFields
    <2> QED BY <2>2 DEF PutRec
  <1>6. Place(r) = "user"
    BY <1>2, <1>3, <1>5 DEF Place, Putting, Finds
  <1>7. OwnTypes(p)
    BY <1>1, <1>3, <1>4, <1>5, Consts DEF OwnTypes, TypeInv, Slots, Files, l, r
  <1>8. KMoved(<<p, "file">>, <<p, "vic">>)
    <2>1. OtherTags(p, {"file", "vic"})
      BY <1>2, <1>3, <1>4, <1>5 DEF OtherTags, l, r
    <2>2. \A x \in Ptrs \ {<<p, "file">>, <<p, "vic">>} : To(x)' = To(x)
      BY <1>4, <2>1, KindRest
    <2>3. /\ To(<<p, "file">>) = FileOf(p) /\ To(<<p, "file">>)' = FileOf(p)'
          /\ To(<<p, "vic">>) = l.vic /\ To(<<p, "vic">>)' = r.vic
      BY ToTag, ToTagNext DEF l, r
    <2>4. /\ To(<<p, "file">>) # 0 /\ To(<<p, "vic">>) = 0
          /\ To(<<p, "file">>)' = 0 /\ To(<<p, "vic">>)' = To(<<p, "file">>)
      BY ONLY <1>2, <1>3, <1>4, <1>5, <2>3
    <2> QED BY ONLY <2>2, <2>4 DEF KMoved
  <1>9. RefInv' /\ NewOk(p)
    BY <1>1, <1>2, <1>8, ToTag, RefMoved, NewMoved DEF l
  <1>10. ShapeP(p)'
    <2>1. Shape(r)
      BY <1>1, <1>2, <1>3, <1>5, <1>6, SlotPos
         DEF ShapeP, Shape, HasIp, Creating, Putting, Conts, Walks, Finds, Parents, DpOnly, IpDp, IpOnly, l
    <2> QED BY <1>1, <1>2, <1>3, <1>6, <2>1 DEF ShapeP, l, r
  <1>11. LockP(p)' /\ LockStep(p)
    BY <1>1, <1>2, <1>3, <1>5, <1>6, Consts DEF LockP, LockStep, HoldsIp, HoldsDp, TypeInv, Finds, l, r
  <1>12. LiveP(p)'
    <2>1. /\ r.cur \in {0, 0} \cup OldOk(p) /\ r.ip \in {0, 0} \cup OldOk(p)
          /\ r.dp \in {0, 0} \cup OldOk(p) /\ cwd'[p] \in {0, 0} \cup OldOk(p)
          /\ FileOf(p)' \in {0, 0} \cup OldOk(p) /\ r.vic \in {0, 0, loc[p].ip} \cup OldOk(p)
      BY <1>2, <1>3, <1>4, <1>5 DEF OldOk, l
    <2> QED BY <2>1, OwnLive DEF r, TabStep
  <1>13. (Pending(r) <=> Pending(l)) /\ (Linking(r) <=> Linking(l)) /\ (Pending(l) => r.ip = l.ip)
    BY <1>1, <1>2, <1>3, <1>5, <1>6 DEF Pending, Linking, Walks, Finds, l
  <1>14. KnowP(p)'
    <2>1. r.pc \notin {"ialloc", "create3", "unlink2", "itrunc"} /\ r.dp = 0 /\ ~Linking(r)
      BY <1>3, <1>5, <1>6 DEF Linking, Walks
    <2> QED BY <2>1, OwnKnow DEF r, TabStep
  <1> QED BY <1>4, <1>5, <1>7, <1>9, <1>10, <1>11, <1>12, <1>13, <1>14, QuietStep DEF OwnInv, PendSame, l, r

\* open succeeds.
LEMMA OpenDone ==
  ASSUME FsInv, NEW p \in FsProcs, loc[p].pc = "open2", ofile[p] = 0, NEW f \in Files,
         ftable[f] = 0, NEW s, s = loc[p].ip, ofile' = [ofile EXCEPT ![p] = f],
         ftable' = [ftable EXCEPT ![f] = s],
         Go(p, Idle), TabStep, RefsSame, dinode' = dinode,
         UNCHANGED <<cwd>>,
         ilk' = [ilk EXCEPT ![loc[p].ip] = NoProc]
  PROVE  FsInv'
  <1> DEFINE l == loc[p]
             r == loc'[p]
  <1>1. TypeInv /\ RefInv /\ CohInv /\ FilesInv /\ ShapeP(p) /\ LockP(p) /\ LiveP(p) /\ KnowP(p)
    BY DEF FsInv, ProcInv
  <1>2. Place(l) = l.pc /\ l.vic = 0 /\ To(<<p, "vic">>) = 0 /\ l.pc # "ifree" /\ l.pc \notin Putting
    BY Unput DEF Putting
  <1>3. l.pc = "open2" /\ l.cur = 0 /\ l.ip = s /\ s # 0 /\ l.dp = 0 /\ cwd[p] # 0 /\ s \in Slots
    <2>1. l.cur = 0 /\ l.dp = 0 /\ cwd[p] # 0 /\ s # 0
      BY <1>1, <1>2 DEF ShapeP, Shape, HasIp, Walks, DpOnly, IpDp, IpOnly
    <2>2. s \in Slots
      BY <1>1, <2>1, UsedBy
    <2> QED BY <2>1, <2>2
  <1>4. /\ loc' = [loc EXCEPT ![p] = r] /\ l \in LocType /\ Rest(p) /\ FilesInv' /\
           ofile' \in [FsProcs -> 0..NFILE] /\ ftable' \in [Files -> 0..NINODE] /\ FileOf(p)' = s /\
           FileOf(p) = 0
        /\ r = Idle
    BY <1>1, <1>3, GoFacts, OpenFiles
  <1> HIDE DEF l, r
  <1>5. /\ r \in LocType
        /\ r.pc = "user" /\ r.call = "" /\ r.name = "" /\ r.rest = <<>>
        /\ r.new = <<>> /\ r.cur = 0 /\ r.ip = 0 /\ r.dp = 0
        /\ r.vic = 0 /\ r.parent = FALSE /\ r.k = "" /\ r.nk = ""
    <2>1. IdleRec(r)
      BY <1>4, IdleFields
    <2> QED BY <2>1 DEF IdleRec
  <1>6. Place(r) = "user"
    BY <1>2, <1>3, <1>5 DEF Place, Putting, Finds
  <1>7. OwnTypes(p)
    BY <1>1, <1>3, <1>4, <1>5, Consts DEF OwnTypes, TypeInv, Slots, Files, l, r
  <1>8. KMoved(<<p, "ip">>, <<p, "file">>)
    <2>1. OtherTags(p, {"ip", "file"})
      BY <1>2, <1>3, <1>4, <1>5 DEF OtherTags, l, r
    <2>2. \A x \in Ptrs \ {<<p, "ip">>, <<p, "file">>} : To(x)' = To(x)
      BY <1>4, <2>1, KindRest
    <2>3. /\ To(<<p, "ip">>) = l.ip /\ To(<<p, "ip">>)' = r.ip
          /\ To(<<p, "file">>) = FileOf(p) /\ To(<<p, "file">>)' = FileOf(p)'
      BY ToTag, ToTagNext DEF l, r
    <2>4. /\ To(<<p, "ip">>) # 0 /\ To(<<p, "file">>) = 0
          /\ To(<<p, "ip">>)' = 0 /\ To(<<p, "file">>)' = To(<<p, "ip">>)
      BY ONLY <1>2, <1>3, <1>4, <1>5, <2>3
    <2> QED BY ONLY <2>2, <2>4 DEF KMoved
  <1>9. RefInv' /\ NewOk(p)
    BY <1>1, <1>2, <1>8, ToTag, RefMoved, NewMoved DEF l
  <1>10. ShapeP(p)'
    <2>1. Shape(r)
      BY <1>1, <1>2, <1>3, <1>5, <1>6, SlotPos
         DEF ShapeP, Shape, HasIp, Creating, Putting, Conts, Walks, Finds, Parents, DpOnly, IpDp, IpOnly, l
    <2> QED BY <1>1, <1>2, <1>3, <1>6, <2>1 DEF ShapeP, l, r
  <1>11. LockP(p)' /\ LockStep(p)
    <2>1. \A u \in Slots : ilk'[u] = IF u = s THEN NoProc ELSE ilk[u]
      BY <1>1, <1>3 DEF TypeInv, l
    <2>2. ilk[s] = p /\ \A u \in Slots \ {s} : ilk[u] # p
      BY <1>1, <1>2, <1>3 DEF LockP, HoldsIp, HoldsDp, l
    <2>3. LockStep(p)
      BY <2>1, <2>2 DEF LockStep
    <2> QED BY <1>5, <1>6, <2>1, <2>2, <2>3, Consts, ZenonT(40) DEF LockP, HoldsIp, HoldsDp, r
  <1>12. LiveP(p)'
    <2>1. /\ r.cur \in {0, 0} \cup OldOk(p) /\ r.ip \in {0, 0} \cup OldOk(p)
          /\ r.dp \in {0, 0} \cup OldOk(p) /\ cwd'[p] \in {0, 0} \cup OldOk(p)
          /\ FileOf(p)' \in {0, 0} \cup OldOk(p) /\ r.vic \in {0, 0, loc[p].ip} \cup OldOk(p)
      BY <1>2, <1>3, <1>4, <1>5 DEF OldOk, l
    <2> QED BY <2>1, OwnLive DEF r, TabStep
  <1>13. (Pending(r) <=> Pending(l)) /\ (Linking(r) <=> Linking(l)) /\ (Pending(l) => r.ip = l.ip)
    BY <1>1, <1>2, <1>3, <1>5, <1>6 DEF Pending, Linking, Walks, Finds, l
  <1>14. KnowP(p)'
    <2>1. r.pc \notin {"ialloc", "create3", "unlink2", "itrunc"} /\ r.dp = 0 /\ ~Linking(r)
      BY <1>3, <1>5, <1>6 DEF Linking, Walks
    <2> QED BY <2>1, OwnKnow DEF r, TabStep
  <1> QED BY <1>4, <1>5, <1>7, <1>9, <1>10, <1>11, <1>12, <1>13, <1>14, QuietStep DEF OwnInv, PendSame, l, r

\* A step of p that changes its current directory.
LEMMA RestCwd ==
  ASSUME TypeInv, NEW p \in FsProcs, NEW l, Go(p, l), UNCHANGED <<ftable, ofile>>,
         NEW w \in 0..NINODE, cwd' = [cwd EXCEPT ![p] = w]
  PROVE  /\ Rest(p) /\ FileOf(p)' = FileOf(p) /\ cwd'[p] = w /\ cwd' \in [FsProcs -> 0..NINODE]
         /\ FilesInv => FilesInv'
  <1>1. cwd \in [FsProcs -> 0..NINODE]
    BY DEF TypeInv
  <1>2. cwd'[p] = w /\ cwd' \in [FsProcs -> 0..NINODE] /\ \A q \in FsProcs \ {p} : cwd'[q] = cwd[q]
    BY <1>1
  <1>3. \A q \in FsProcs : FileOf(q)' = FileOf(q)
    BY DEF FileOf
  <1>4. FilesInv => FilesInv'
    BY DEF FilesInv
  <1> QED BY <1>2, <1>3, <1>4, GoFacts DEF Rest

\* chdir puts the old directory.
LEMMA ChdirPuts ==
  ASSUME FsInv, NEW p \in FsProcs, loc[p].pc = "chdir", NEW w, w = cwd[p],
         UNCHANGED <<ftable, ofile>>, cwd' = [cwd EXCEPT ![p] = 0],
         Go(p, Iput(loc[p], w, "chdir2")), TabStep, RefsSame, dinode' = dinode,
         UNCHANGED <<ilk>>
  PROVE  FsInv'
  <1> DEFINE l == loc[p]
             r == loc'[p]
  <1>1. TypeInv /\ RefInv /\ CohInv /\ FilesInv /\ ShapeP(p) /\ LockP(p) /\ LiveP(p) /\ KnowP(p)
    BY DEF FsInv, ProcInv
  <1>2. Place(l) = l.pc /\ l.vic = 0 /\ To(<<p, "vic">>) = 0 /\ l.pc # "ifree" /\ l.pc \notin Putting
    BY Unput DEF Putting
  <1>3. l.pc = "chdir" /\ l.cur = 0 /\ l.ip # 0 /\ l.dp = 0 /\ w # 0 /\ w \in Slots /\ 0 \in 0..NINODE
    <2>1. l.cur = 0 /\ l.dp = 0 /\ cwd[p] # 0 /\ l.ip # 0
      BY <1>1, <1>2 DEF ShapeP, Shape, HasIp, Walks, DpOnly, IpDp, IpOnly
    <2>2. w \in Slots
      BY <1>1, <2>1, UsedBy
    <2> QED BY <2>1, <2>2, Consts
  <1>4. /\ loc' = [loc EXCEPT ![p] = r] /\ l \in LocType /\ Rest(p) /\ FileOf(p)' = FileOf(p) /\
           FilesInv' /\ cwd'[p] = 0 /\ cwd' \in [FsProcs -> 0..NINODE]
        /\ r = Iput(l, w, "chdir2")
    BY <1>1, <1>3, GoFacts, RestCwd
  <1> HIDE DEF l, r
  <1>5. /\ r \in LocType
        /\ r.pc = "iput" /\ r.call = l.call /\ r.name = l.name /\ r.rest = l.rest
        /\ r.new = l.new /\ r.cur = l.cur /\ r.ip = l.ip /\ r.dp = l.dp
        /\ r.vic = w /\ r.parent = l.parent /\ r.k = "chdir2" /\ r.nk = l.nk
    <2>1. "chdir2" \in Conts
      BY DEF Conts
    <2>2. PutRec(l, w, "chdir2", r)
      BY <1>3, <1>4, <2>1, PutFields
    <2> QED BY <2>2 DEF PutRec
  <1>6. Place(r) = "chdir2"
    BY <1>2, <1>3, <1>5 DEF Place, Putting, Finds
  <1>7. OwnTypes(p)
    BY <1>1, <1>3, <1>4, <1>5, Consts DEF OwnTypes, TypeInv, Slots, Files, l, r
  <1>8. KMoved(<<p, "cwd">>, <<p, "vic">>)
    <2>1. OtherTags(p, {"cwd", "vic"})
      BY <1>2, <1>3, <1>4, <1>5 DEF OtherTags, l, r
    <2>2. \A x \in Ptrs \ {<<p, "cwd">>, <<p, "vic">>} : To(x)' = To(x)
      BY <1>4, <2>1, KindRest
    <2>3. /\ To(<<p, "cwd">>) = cwd[p] /\ To(<<p, "cwd">>)' = cwd'[p]
          /\ To(<<p, "vic">>) = l.vic /\ To(<<p, "vic">>)' = r.vic
      BY ToTag, ToTagNext DEF l, r
    <2>4. /\ To(<<p, "cwd">>) # 0 /\ To(<<p, "vic">>) = 0
          /\ To(<<p, "cwd">>)' = 0 /\ To(<<p, "vic">>)' = To(<<p, "cwd">>)
      BY ONLY <1>2, <1>3, <1>4, <1>5, <2>3, w = cwd[p]
    <2> QED BY ONLY <2>2, <2>4 DEF KMoved
  <1>9. RefInv' /\ NewOk(p)
    BY <1>1, <1>2, <1>8, ToTag, RefMoved, NewMoved DEF l
  <1>10. ShapeP(p)'
    <2>1. Shape(r)
      BY <1>1, <1>2, <1>3, <1>5, <1>6, SlotPos
         DEF ShapeP, Shape, HasIp, Creating, Putting, Conts, Walks, Finds, Parents, DpOnly, IpDp, IpOnly, l
    <2> QED BY <1>1, <1>2, <1>3, <1>6, <2>1, <1>4 DEF ShapeP, l, r
  <1>11. LockP(p)' /\ LockStep(p)
    BY <1>1, <1>2, <1>3, <1>5, <1>6, Consts DEF LockP, LockStep, HoldsIp, HoldsDp, TypeInv, Finds, l, r
  <1>12. LiveP(p)'
    <2>1. /\ r.cur \in {0, 0} \cup OldOk(p) /\ r.ip \in {0, 0} \cup OldOk(p)
          /\ r.dp \in {0, 0} \cup OldOk(p) /\ cwd'[p] \in {0, 0} \cup OldOk(p)
          /\ FileOf(p)' \in {0, 0} \cup OldOk(p) /\ r.vic \in {0, 0, loc[p].ip} \cup OldOk(p)
      BY <1>2, <1>3, <1>4, <1>5 DEF OldOk, l
    <2> QED BY <2>1, OwnLive DEF r, TabStep
  <1>13. (Pending(r) <=> Pending(l)) /\ (Linking(r) <=> Linking(l)) /\ (Pending(l) => r.ip = l.ip)
    BY <1>1, <1>2, <1>3, <1>5, <1>6 DEF Pending, Linking, Walks, Finds, l
  <1>14. KnowP(p)'
    <2>1. r.pc \notin {"ialloc", "create3", "unlink2", "itrunc"} /\ r.dp = 0 /\ ~Linking(r)
      BY <1>3, <1>5, <1>6 DEF Linking, Walks
    <2> QED BY <2>1, OwnKnow DEF r, TabStep
  <1> QED BY <1>4, <1>5, <1>7, <1>9, <1>10, <1>11, <1>12, <1>13, <1>14, QuietStep DEF OwnInv, PendSame, l, r

\* chdir enters the new directory.
LEMMA ChdirDone ==
  ASSUME FsInv, NEW p \in FsProcs, loc[p].pc = "chdir2", NEW s, s = loc[p].ip,
         UNCHANGED <<ftable, ofile>>, cwd' = [cwd EXCEPT ![p] = s],
         Go(p, Idle), TabStep, RefsSame, dinode' = dinode,
         UNCHANGED <<ilk>>
  PROVE  FsInv'
  <1> DEFINE l == loc[p]
             r == loc'[p]
  <1>1. TypeInv /\ RefInv /\ CohInv /\ FilesInv /\ ShapeP(p) /\ LockP(p) /\ LiveP(p) /\ KnowP(p)
    BY DEF FsInv, ProcInv
  <1>2. Place(l) = l.pc /\ l.vic = 0 /\ To(<<p, "vic">>) = 0 /\ l.pc # "ifree" /\ l.pc \notin Putting
    BY Unput DEF Putting
  <1>3. l.pc = "chdir2" /\ l.cur = 0 /\ l.ip = s /\ s # 0 /\ l.dp = 0 /\ cwd[p] = 0 /\ s \in Slots /\
        s \in 0..NINODE
    <2>1. l.cur = 0 /\ l.dp = 0 /\ cwd[p] = 0 /\ s # 0
      BY <1>1, <1>2 DEF ShapeP, Shape, HasIp, Walks, DpOnly, IpDp, IpOnly
    <2>2. s \in Slots
      BY <1>1, <2>1, UsedBy
    <2> QED BY <2>1, <2>2, SlotPos
  <1>4. /\ loc' = [loc EXCEPT ![p] = r] /\ l \in LocType /\ Rest(p) /\ FileOf(p)' = FileOf(p) /\
           FilesInv' /\ cwd'[p] = s /\ cwd' \in [FsProcs -> 0..NINODE]
        /\ r = Idle
    BY <1>1, <1>3, GoFacts, RestCwd
  <1> HIDE DEF l, r
  <1>5. /\ r \in LocType
        /\ r.pc = "user" /\ r.call = "" /\ r.name = "" /\ r.rest = <<>>
        /\ r.new = <<>> /\ r.cur = 0 /\ r.ip = 0 /\ r.dp = 0
        /\ r.vic = 0 /\ r.parent = FALSE /\ r.k = "" /\ r.nk = ""
    <2>1. IdleRec(r)
      BY <1>4, IdleFields
    <2> QED BY <2>1 DEF IdleRec
  <1>6. Place(r) = "user"
    BY <1>2, <1>3, <1>5 DEF Place, Putting, Finds
  <1>7. OwnTypes(p)
    BY <1>1, <1>3, <1>4, <1>5, Consts DEF OwnTypes, TypeInv, Slots, Files, l, r
  <1>8. KMoved(<<p, "ip">>, <<p, "cwd">>)
    <2>1. OtherTags(p, {"ip", "cwd"})
      BY <1>2, <1>3, <1>4, <1>5 DEF OtherTags, l, r
    <2>2. \A x \in Ptrs \ {<<p, "ip">>, <<p, "cwd">>} : To(x)' = To(x)
      BY <1>4, <2>1, KindRest
    <2>3. /\ To(<<p, "ip">>) = l.ip /\ To(<<p, "ip">>)' = r.ip
          /\ To(<<p, "cwd">>) = cwd[p] /\ To(<<p, "cwd">>)' = cwd'[p]
      BY ToTag, ToTagNext DEF l, r
    <2>4. /\ To(<<p, "ip">>) # 0 /\ To(<<p, "cwd">>) = 0
          /\ To(<<p, "ip">>)' = 0 /\ To(<<p, "cwd">>)' = To(<<p, "ip">>)
      BY ONLY <1>2, <1>3, <1>4, <1>5, <2>3
    <2> QED BY ONLY <2>2, <2>4 DEF KMoved
  <1>9. RefInv' /\ NewOk(p)
    BY <1>1, <1>2, <1>8, ToTag, RefMoved, NewMoved DEF l
  <1>10. ShapeP(p)'
    <2>1. Shape(r)
      BY <1>1, <1>2, <1>3, <1>5, <1>6, SlotPos
         DEF ShapeP, Shape, HasIp, Creating, Putting, Conts, Walks, Finds, Parents, DpOnly, IpDp, IpOnly, l
    <2> QED BY <1>1, <1>2, <1>3, <1>6, <2>1, <1>4 DEF ShapeP, l, r
  <1>11. LockP(p)' /\ LockStep(p)
    BY <1>1, <1>2, <1>3, <1>5, <1>6, Consts DEF LockP, LockStep, HoldsIp, HoldsDp, TypeInv, Finds, l, r
  <1>12. LiveP(p)'
    <2>1. /\ r.cur \in {0, 0} \cup OldOk(p) /\ r.ip \in {0, 0} \cup OldOk(p)
          /\ r.dp \in {0, 0} \cup OldOk(p) /\ cwd'[p] \in {0, 0} \cup OldOk(p)
          /\ FileOf(p)' \in {0, 0} \cup OldOk(p) /\ r.vic \in {0, 0, loc[p].ip} \cup OldOk(p)
      BY <1>2, <1>3, <1>4, <1>5 DEF OldOk, l
    <2> QED BY <2>1, OwnLive DEF r, TabStep
  <1>13. (Pending(r) <=> Pending(l)) /\ (Linking(r) <=> Linking(l)) /\ (Pending(l) => r.ip = l.ip)
    BY <1>1, <1>2, <1>3, <1>5, <1>6 DEF Pending, Linking, Walks, Finds, l
  <1>14. KnowP(p)'
    <2>1. r.pc \notin {"ialloc", "create3", "unlink2", "itrunc"} /\ r.dp = 0 /\ ~Linking(r)
      BY <1>3, <1>5, <1>6 DEF Linking, Walks
    <2> QED BY <2>1, OwnKnow DEF r, TabStep
  <1> QED BY <1>4, <1>5, <1>7, <1>9, <1>10, <1>11, <1>12, <1>13, <1>14, QuietStep DEF OwnInv, PendSame, l, r

\* link finds the name taken.
LEMMA LinkTakes ==
  ASSUME FsInv, NEW p \in FsProcs, loc[p].pc = "link2", NEW g \in Slots, Safe(p, g), Live(g)' /\
         Dot(g)', ilk[loc[p].dp] = NoProc,
         Go(p, Iput(loc[p], g, "linktaken")), TabStep, RefsUp(g), dinode' = dinode,
         UNCHANGED <<ftable, ofile, cwd>>,
         ilk' = [ilk EXCEPT ![loc[p].dp] = p]
  PROVE  FsInv'
  <1> DEFINE l == loc[p]
             r == loc'[p]
  <1>1. TypeInv /\ RefInv /\ CohInv /\ FilesInv /\ ShapeP(p) /\ LockP(p) /\ LiveP(p) /\ KnowP(p)
    BY DEF FsInv, ProcInv
  <1>2. Place(l) = l.pc /\ l.vic = 0 /\ To(<<p, "vic">>) = 0 /\ l.pc # "ifree" /\ l.pc \notin Putting
    BY Unput DEF Putting
  <1>3. l.pc = "link2" /\ l.cur = 0 /\ l.dp # 0 /\ l.ip # 0 /\ cwd[p] # 0
    BY <1>1, <1>2 DEF ShapeP, Shape, HasIp, Creating, Putting, Conts, Walks, Finds, Parents,
       DpOnly, IpDp, IpOnly
  <1>4. /\ loc' = [loc EXCEPT ![p] = r] /\ l \in LocType /\ Rest(p) /\ FileOf(p)' = FileOf(p) /\ FilesInv'
        /\ r = Iput(l, g, "linktaken")
    BY <1>1, <1>3, GoFacts, RestSame
  <1> HIDE DEF l, r
  <1>5. /\ r \in LocType
        /\ r.pc = "iput" /\ r.call = l.call /\ r.name = l.name /\ r.rest = l.rest
        /\ r.new = l.new /\ r.cur = l.cur /\ r.ip = l.ip /\ r.dp = l.dp
        /\ r.vic = g /\ r.parent = l.parent /\ r.k = "linktaken" /\ r.nk = l.nk
    <2>1. "linktaken" \in Conts
      BY DEF Conts
    <2>2. PutRec(l, g, "linktaken", r)
      BY <1>3, <1>4, <2>1, PutFields
    <2> QED BY <2>2 DEF PutRec
  <1>6. Place(r) = "linktaken"
    BY <1>2, <1>3, <1>5 DEF Place, Putting, Finds
  <1>7. OwnTypes(p)
    BY <1>1, <1>3, <1>4, <1>5, Consts DEF OwnTypes, TypeInv, Slots, Files, l, r
  <1>8. KTook(<<p, "vic">>, g)
    <2>1. OtherTags(p, {"vic"})
      BY <1>4, <1>5 DEF OtherTags, l, r
    <2>2. \A x \in Ptrs \ {<<p, "vic">>} : To(x)' = To(x)
      BY <1>4, <2>1, KindRest
    <2>3. /\ To(<<p, "vic">>) = l.vic /\ To(<<p, "vic">>)' = r.vic
      BY ToTag, ToTagNext DEF l, r
    <2> QED BY <1>2, <1>3, <1>5, <2>2, <2>3, SlotPos DEF KTook
  <1>9. RefInv' /\ NewOk(p)
    BY <1>1, <1>2, <1>8, ToTag, RefTook, NewTook DEF l
  <1>10. ShapeP(p)'
    <2>1. Shape(r)
      BY <1>1, <1>2, <1>3, <1>5, <1>6, SlotPos
         DEF ShapeP, Shape, HasIp, Creating, Putting, Conts, Walks, Finds, Parents, DpOnly, IpDp, IpOnly, l
    <2> QED BY <1>1, <1>2, <1>3, <1>6, <2>1 DEF ShapeP, l, r
  <1>11. LockP(p)' /\ LockStep(p)
    <2>1. l.dp \in Slots
      BY <1>1, <1>3, UsedBy DEF l
    <2>2. \A s \in Slots : ilk'[s] = IF s = l.dp THEN p ELSE ilk[s]
      BY <1>1, <2>1 DEF TypeInv, l
    <2>3. \A s \in Slots : ilk[s] # p
      BY <1>1, <1>2, <1>3 DEF LockP, HoldsIp, HoldsDp, l
    <2>4. ilk[l.dp] = NoProc
      BY DEF l
    <2>5. LockStep(p)
      BY <2>2, <2>4 DEF LockStep
    <2> QED BY <1>5, <1>6, <2>1, <2>2, <2>3, <2>5 DEF LockP, HoldsIp, HoldsDp, r
  <1>12. LiveP(p)'
    <2>1. /\ r.cur \in {0, g} \cup OldOk(p) /\ r.ip \in {0, g} \cup OldOk(p)
          /\ r.dp \in {0, g} \cup OldOk(p) /\ cwd'[p] \in {0, g} \cup OldOk(p)
          /\ FileOf(p)' \in {0, g} \cup OldOk(p) /\ r.vic \in {0, g, loc[p].ip} \cup OldOk(p)
      BY <1>2, <1>3, <1>4, <1>5 DEF OldOk, l
    <2> QED BY <2>1, OwnLive DEF r, TabStep
  <1>13. (Pending(r) <=> Pending(l)) /\ (Linking(r) <=> Linking(l)) /\ (Pending(l) => r.ip = l.ip)
    BY <1>1, <1>2, <1>3, <1>5, <1>6 DEF Pending, Linking, Walks, Finds, l
  <1>14. KnowP(p)'
    <2>1. r.pc = "iput" /\ r.dp = l.dp
      BY <1>3, <1>5
    <2> QED BY <1>13, <1>5, <2>1, OwnKnow DEF l, r, TabStep, Pending
  <1> QED BY <1>4, <1>5, <1>7, <1>9, <1>10, <1>11, <1>12, <1>13, <1>14, QuietStep DEF OwnInv, PendSame, l, r

UnlinkFoundOf(l, g) == [l EXCEPT !.pc = "unlink2", !.ip = g]

UnlinkFoundRec(l, g, r) ==
  /\ r \in LocType
  /\ r.pc = "unlink2" /\ r.call = l.call /\ r.name = l.name /\ r.rest = l.rest
  /\ r.new = l.new /\ r.cur = l.cur /\ r.ip = g /\ r.dp = l.dp
  /\ r.vic = l.vic /\ r.parent = l.parent /\ r.k = l.k /\ r.nk = l.nk

\* The locals after unlink has found the name.
LEMMA UnlinkFoundFields ==
  ASSUME NEW l \in LocType, NEW g \in Slots
  PROVE  UnlinkFoundRec(l, g, UnlinkFoundOf(l, g))
  <1>1. g \in 0..NINODE /\ "unlink2" \in Pcs
    BY SlotPos DEF Pcs, IpDp
  <1> QED BY <1>1 DEF LocType, UnlinkFoundRec, UnlinkFoundOf

\* unlink finds the name.
LEMMA UnlinkFinds ==
  ASSUME FsInv, NEW p \in FsProcs, loc[p].pc = "unlink1", loc[p].name \in Names, NEW g \in Slots,
         Safe(p, g), Live(g)' /\ Dot(g)', ilk[loc[p].dp] = NoProc,
         itable'[g].inum = Node(loc[p].dp).ents[loc[p].name],
         Go(p, UnlinkFoundOf(loc[p], g)), TabStep, RefsUp(g), dinode' = dinode,
         UNCHANGED <<ftable, ofile, cwd>>,
         ilk' = [ilk EXCEPT ![loc[p].dp] = p]
  PROVE  FsInv'
  <1> DEFINE l == loc[p]
             r == loc'[p]
  <1>1. TypeInv /\ RefInv /\ CohInv /\ FilesInv /\ ShapeP(p) /\ LockP(p) /\ LiveP(p) /\ KnowP(p)
    BY DEF FsInv, ProcInv
  <1>2. Place(l) = l.pc /\ l.vic = 0 /\ To(<<p, "vic">>) = 0 /\ l.pc # "ifree" /\ l.pc \notin Putting
    BY Unput DEF Putting
  <1>3. l.pc = "unlink1" /\ l.cur = 0 /\ l.dp # 0 /\ l.ip = 0 /\ cwd[p] # 0 /\ l.name \in Names
    BY <1>1, <1>2 DEF ShapeP, Shape, HasIp, Creating, Putting, Conts, Walks, Finds, Parents,
       DpOnly, IpDp, IpOnly
  <1>4. /\ loc' = [loc EXCEPT ![p] = r] /\ l \in LocType /\ Rest(p) /\ FileOf(p)' = FileOf(p) /\ FilesInv'
        /\ r = UnlinkFoundOf(l, g)
    BY <1>1, <1>3, GoFacts, RestSame
  <1> HIDE DEF l, r
  <1>5. /\ r \in LocType
        /\ r.pc = "unlink2" /\ r.call = l.call /\ r.name = l.name /\ r.rest = l.rest
        /\ r.new = l.new /\ r.cur = l.cur /\ r.ip = g /\ r.dp = l.dp
        /\ r.vic = l.vic /\ r.parent = l.parent /\ r.k = l.k /\ r.nk = l.nk
    <2>1. UnlinkFoundRec(l, g, r)
      BY <1>4, UnlinkFoundFields
    <2> QED BY <2>1 DEF UnlinkFoundRec
  <1>6. Place(r) = "unlink2"
    BY <1>2, <1>3, <1>5 DEF Place, Putting, Finds
  <1>7. OwnTypes(p)
    BY <1>1, <1>3, <1>4, <1>5, Consts DEF OwnTypes, TypeInv, Slots, Files, l, r
  <1>8. KTook(<<p, "ip">>, g)
    <2>1. OtherTags(p, {"ip"})
      BY <1>4, <1>5 DEF OtherTags, l, r
    <2>2. \A x \in Ptrs \ {<<p, "ip">>} : To(x)' = To(x)
      BY <1>4, <2>1, KindRest
    <2>3. /\ To(<<p, "ip">>) = l.ip /\ To(<<p, "ip">>)' = r.ip
      BY ToTag, ToTagNext DEF l, r
    <2> QED BY <1>2, <1>3, <1>5, <2>2, <2>3, SlotPos DEF KTook
  <1>9. RefInv' /\ NewOk(p)
    BY <1>1, <1>2, <1>8, ToTag, RefTook, NewTook DEF l
  <1>10. ShapeP(p)'
    <2>1. Shape(r)
      BY <1>1, <1>2, <1>3, <1>5, <1>6, SlotPos
         DEF ShapeP, Shape, HasIp, Creating, Putting, Conts, Walks, Finds, Parents, DpOnly, IpDp, IpOnly, l
    <2> QED BY <1>1, <1>2, <1>3, <1>6, <2>1 DEF ShapeP, l, r
  <1>11. LockP(p)' /\ LockStep(p)
    <2>1. l.dp \in Slots
      BY <1>1, <1>3, UsedBy DEF l
    <2>2. \A s \in Slots : ilk'[s] = IF s = l.dp THEN p ELSE ilk[s]
      BY <1>1, <2>1 DEF TypeInv, l
    <2>3. \A s \in Slots : ilk[s] # p
      BY <1>1, <1>2, <1>3 DEF LockP, HoldsIp, HoldsDp, l
    <2>4. ilk[l.dp] = NoProc
      BY DEF l
    <2>5. LockStep(p)
      BY <2>2, <2>4 DEF LockStep
    <2> QED BY <1>5, <1>6, <2>1, <2>2, <2>3, <2>5 DEF LockP, HoldsIp, HoldsDp, r
  <1>12. LiveP(p)'
    <2>1. /\ r.cur \in {0, g} \cup OldOk(p) /\ r.ip \in {0, g} \cup OldOk(p)
          /\ r.dp \in {0, g} \cup OldOk(p) /\ cwd'[p] \in {0, g} \cup OldOk(p)
          /\ FileOf(p)' \in {0, g} \cup OldOk(p) /\ r.vic \in {0, g, loc[p].ip} \cup OldOk(p)
      BY <1>2, <1>3, <1>4, <1>5 DEF OldOk, l
    <2> QED BY <2>1, OwnLive DEF r, TabStep
  <1>13. (Pending(r) <=> Pending(l)) /\ (Linking(r) <=> Linking(l)) /\ (Pending(l) => r.ip = l.ip)
    BY <1>1, <1>2, <1>3, <1>5, <1>6 DEF Pending, Linking, Walks, Finds, l
  <1>14. KnowP(p)'
    <2>1. r.pc = "unlink2" /\ r.dp = l.dp /\ l.dp # 0 /\ r.name = l.name /\ r.ip = g /\ ~Linking(r)
      BY <1>2, <1>3, <1>5, <1>6 DEF Linking, Walks
    <2>2. Node(loc[p].dp).ents[r.name] = itable'[r.ip].inum
      BY <2>1 DEF l
    <2> QED BY <2>1, <2>2, OwnKnowAt DEF l, r, TabStep
  <1> QED BY <1>4, <1>5, <1>7, <1>9, <1>10, <1>11, <1>12, <1>13, <1>14, QuietStep DEF OwnInv, PendSame, l, r

-----------------------------------------------------------------------------
(* Steps that change the disk.                                             *)

\* A step of p that writes the disk.
LEMMA LoudStep ==
  ASSUME FsInv, NEW p \in FsProcs, Rest(p), OwnTypes(p), FrameA(p), FrameB(p), FrameC(p), LockStep(p),
         dinode' \in [Inums -> Dinode], itable' \in [Slots -> Entry],
         RefInv', FilesInv', OwnInv(p), CohInv', DiskInv', LinkInv'
  PROVE  FsInv'
  <1>1. ProcInv'
    BY OthersInv
  <1>2. TypeInv'
    BY DEF OwnTypes, FsInv, TypeInv
  <1> QED BY <1>1, <1>2 DEF FsInv

\* A pointer that is not being dropped from a freed inode leads to one in use.
LEMMA LivePtr ==
  ASSUME FsInv, NEW x \in Ptrs, To(x) # 0, ~Gone(x)
  PROVE  Live(To(x))
  <1>1. PICK q : q = x[1] /\ q \in FsProcs
    BY PtrCases
  <1>2. LiveP(q)
    BY <1>1 DEF FsInv, ProcInv
  <1>3. /\ To(<<q, "cur">>) # 0 => Live(To(<<q, "cur">>))
        /\ To(<<q, "ip">>) # 0 => Live(To(<<q, "ip">>))
        /\ To(<<q, "dp">>) # 0 => Live(To(<<q, "dp">>))
        /\ To(<<q, "cwd">>) # 0 => Live(To(<<q, "cwd">>))
        /\ To(<<q, "file">>) # 0 => Live(To(<<q, "file">>))
        /\ To(<<q, "vic">>) # 0 /\ loc[q].pc # "ifree" => Live(To(<<q, "vic">>))
    BY <1>1, <1>2, ToTag DEF LiveP
  <1>4. x = <<q, "vic">> => loc[q].pc # "ifree"
    BY <1>1 DEF Gone
  <1>5. \/ x = <<q, "cur">> \/ x = <<q, "ip">> \/ x = <<q, "dp">>
        \/ x = <<q, "vic">> \/ x = <<q, "cwd">> \/ x = <<q, "file">>
    BY <1>1, PtrCases
  <1> QED BY <1>3, <1>4, <1>5, Zenon

\* The steps of p change inodes that p has a pointer to.
Touches(p) ==
  \A u \in Slots : itable[u].ref > 0 /\ dinode'[itable[u].inum] # dinode[itable[u].inum] =>
    \E y \in Ptrs : y[1] = p /\ y[2] # "vic" /\ To(y) = u

\* Types and "." stay.
DotsSame == \A i \in Inums : /\ dinode'[i].type = dinode[i].type
                             /\ dinode'[i].ents["."] = dinode[i].ents["."]

\* Inodes keep their types, so what the others point at stays allocated.
LEMMA FrameOfA ==
  ASSUME FsInv, NEW p \in FsProcs, Stable, DotsSame
  PROVE  FrameA(p)
  <1> SUFFICES ASSUME NEW x \in Ptrs, NEW s \in Slots, To(x) = s
               PROVE  /\ itable'[s].inum = itable[s].inum
                      /\ dinode'[itable[s].inum].type = dinode[itable[s].inum].type
                      /\ dinode'[itable[s].inum].ents["."] = dinode[itable[s].inum].ents["."]
    BY DEF FrameA
  <1>1. itable[s].ref > 0 /\ itable[s].inum \in Inums
    BY SlotPos, Used DEF FsInv
  <1> QED BY <1>1 DEF Stable, DotsSame

\* The owner of an inode has a pointer to it, and nobody else.
LEMMA OwnerAlone ==
  ASSUME FsInv, NEW q \in FsProcs, NEW s \in Slots, Owns(q, s)
  PROVE  /\ itable[s].ref > 0 /\ itable[s].inum \in Inums /\ Live(s)
         /\ \E x \in Ptrs : x[1] = q /\ ~Gone(x) /\ Alone(x, s)
  <1>1. TypeInv /\ RefInv /\ CohInv /\ KnowP(q)
    BY DEF FsInv, ProcInv
  <1>2. CASE loc[q].pc = "itrunc" /\ loc[q].vic = s
    <2>1. <<q, "vic">> \in Ptrs /\ Alone(<<q, "vic">>, s) /\ ~Gone(<<q, "vic">>) /\ <<q, "vic">>[1] = q
      BY <1>1, <1>2, ToTag DEF KnowP, Gone
    <2> QED BY <1>1, <2>1, SlotPos, Used, LivePtr DEF Alone
  <1>3. CASE loc[q].pc = "create3" /\ loc[q].ip = s
    <2>1. <<q, "ip">> \in Ptrs /\ Alone(<<q, "ip">>, s) /\ ~Gone(<<q, "ip">>) /\ <<q, "ip">>[1] = q
      BY <1>1, <1>3, ToTag DEF KnowP, Gone
    <2> QED BY <1>1, <2>1, SlotPos, Used, LivePtr DEF Alone
  <1> QED BY <1>2, <1>3 DEF Owns

\* Nobody else knows of the inodes that p changes alone.
LEMMA FrameOfB ==
  ASSUME FsInv, NEW p \in FsProcs, Stable, NewOk(p), Touches(p)
  PROVE  FrameB(p)
  <1> SUFFICES ASSUME NEW q \in FsProcs \ {p}, NEW s \in Slots, Owns(q, s)
               PROVE  /\ itable'[s].inum = itable[s].inum
                      /\ dinode'[itable[s].inum] = dinode[itable[s].inum]
                      /\ \A y \in Ptrs : y[1] = p => To(y)' # s
    BY DEF FrameB
  <1>1. /\ itable[s].ref > 0
        /\ \E x \in Ptrs : x[1] = q /\ ~Gone(x) /\ Alone(x, s)
    BY OwnerAlone
  <1>2. dinode'[itable[s].inum] = dinode[itable[s].inum]
    <2> SUFFICES ASSUME dinode'[itable[s].inum] # dinode[itable[s].inum] PROVE FALSE
      OBVIOUS
    <2>1. PICK y \in Ptrs : y[1] = p /\ y[2] # "vic" /\ To(y) = s
      BY <1>1 DEF Touches
    <2> QED BY <1>1, <2>1 DEF Alone, Gone
  <1>3. \A y \in Ptrs : y[1] = p => To(y)' # s
    BY OwnedKept
  <1> QED BY <1>1, <1>2, <1>3 DEF Stable

\* Live and Dot of an entry when no type and no "." is written.
LEMMA NodeSoft ==
  ASSUME Stable, DotsSame, NEW s \in Slots, itable[s].ref > 0, itable[s].inum \in Inums
  PROVE  /\ Node(s)'.type = Node(s).type /\ itable'[s].inum = itable[s].inum
         /\ Live(s)' <=> Live(s)
         /\ Dot(s)' <=> Dot(s)
  BY DEF Stable, DotsSame, Node, Live, Dot

\* The same for the pointers of p.
LEMMA OwnLiveSoft ==
  ASSUME FsInv, NEW p \in FsProcs, Stable, DotsSame,
         loc'[p].cur \in {0} \cup OldOk(p), loc'[p].dp \in {0} \cup OldOk(p),
         loc'[p].ip \in {0} \cup OldOk(p), loc'[p].vic \in {0} \cup OldOk(p),
         cwd'[p] \in {0} \cup OldOk(p), FileOf(p)' \in {0} \cup OldOk(p)
  PROVE  LiveP(p)'
  <1>1. ASSUME NEW s, s \in {0} \cup OldOk(p), s # 0
        PROVE  Live(s)' /\ Dot(s)'
    BY <1>1, OldOkFacts, NodeSoft
  <1>2. PICK c, i, d, v, w, f : /\ c = loc'[p].cur /\ i = loc'[p].ip /\ d = loc'[p].dp
                                /\ v = loc'[p].vic /\ w = cwd'[p] /\ f = FileOf(p)'
    OBVIOUS
  <1>3. /\ c # 0 => Live(c)' /\ Dot(c)'
        /\ i # 0 => Live(i)' /\ Dot(i)'
        /\ d # 0 => Live(d)' /\ Dot(d)'
        /\ v # 0 => Live(v)' /\ Dot(v)'
        /\ w # 0 => Live(w)' /\ Dot(w)'
        /\ f # 0 => Live(f)' /\ Dot(f)'
    BY <1>1, <1>2
  <1> QED BY <1>2, <1>3 DEF LiveP

\* After a step to a place where p has no directory and no link under way.
LEMMA OwnKnowSoft ==
  ASSUME FsInv, NEW p \in FsProcs, loc'[p].pc \notin {"ialloc", "create3", "unlink2", "itrunc"},
         loc'[p].dp = 0, ~Linking(loc'[p])
  PROVE  KnowP(p)'
  BY DEF KnowP

-----------------------------------------------------------------------------
(* Names and links.                                                        *)

\* One entry of one directory is written.
EntsStep(j, n, v) ==
  \A a \in Inums : \A m \in Names :
    dinode'[a].ents[m] = IF a = j /\ m = n THEN v ELSE dinode[a].ents[m]

EntsSame == \A a \in Inums : \A m \in Names : dinode'[a].ents[m] = dinode[a].ents[m]

TypesSame == \A a \in Inums : dinode'[a].type = dinode[a].type

\* An entry of a directory is 0 or an inode.
LEMMA EntRange ==
  ASSUME TypeInv, NEW a \in Inums, NEW m \in Names
  PROVE  dinode[a].ents[m] \in 0..NINODES /\ (dinode[a].ents[m] # 0 => dinode[a].ents[m] \in Inums)
  <1>1. dinode[a].ents[m] \in 0..NINODES
    BY DEF TypeInv, Dinode
  <1> QED BY <1>1, Consts DEF Inums

\* A step that writes no entry.
LEMMA NamesSame ==
  ASSUME TypeInv, EntsSame, TypesSame, NEW k \in Inums
  PROVE  NamesOf(k)' = NamesOf(k) /\ Subdirs(k)' = Subdirs(k)
  <1>1. NamesOf(k)' = NamesOf(k)
    BY DEF NamesOf, EntsSame
  <1>2. \A m \in Names : dinode[k].ents[m] # 0 => dinode[k].ents[m] \in Inums
    BY EntRange
  <1>3. Subdirs(k)' = Subdirs(k)
    BY <1>2 DEF Subdirs, EntsSame, TypesSame
  <1> QED BY <1>1, <1>3

\* A step that writes one entry changes the names of two inodes at most,
LEMMA NamesStep ==
  ASSUME TypeInv, NEW j \in Inums, NEW n \in Names, NEW v, EntsStep(j, n, v), NEW k \in Inums
  PROVE  /\ v = k => NamesOf(k)' = NamesOf(k) \cup {<<j, n>>}
         /\ v # k => NamesOf(k)' = NamesOf(k) \ {<<j, n>>}
         /\ <<j, n>> \in NamesOf(k) <=> dinode[j].ents[n] = k
  <1>1. ASSUME NEW x \in Inums \X Names
        PROVE  dinode'[x[1]].ents[x[2]] = IF x = <<j, n>> THEN v ELSE dinode[x[1]].ents[x[2]]
    <2>1. x[1] \in Inums /\ x[2] \in Names /\ (x = <<j, n>> <=> x[1] = j /\ x[2] = n)
      OBVIOUS
    <2> QED BY <2>1 DEF EntsStep
  <1>2. <<j, n>> \in Inums \X Names /\ <<j, n>>[1] = j /\ <<j, n>>[2] = n
    OBVIOUS
  <1>3. NamesOf(k)' = {x \in Inums \X Names : dinode'[x[1]].ents[x[2]] = k}
    BY DEF NamesOf
  <1> QED BY <1>1, <1>2, <1>3 DEF NamesOf

\* and the subdirectories of one.
LEMMA SubdirsStep ==
  ASSUME TypeInv, NEW j \in Inums, NEW n \in Names, NEW v \in 0..NINODES, EntsStep(j, n, v), TypesSame,
         NEW k \in Inums
  PROVE  /\ k # j => Subdirs(k)' = Subdirs(k)
         /\ v # 0 /\ dinode[v].type = "dir" => Subdirs(j)' = Subdirs(j) \cup {n}
         /\ v = 0 \/ dinode[v].type # "dir" => Subdirs(j)' = Subdirs(j) \ {n}
         /\ n \in Subdirs(j) <=> dinode[j].ents[n] # 0 /\ dinode[dinode[j].ents[n]].type = "dir"
  <1>1. v # 0 => v \in Inums
    BY Consts DEF Inums
  <1>2. \A a \in Inums : \A m \in Names : dinode[a].ents[m] # 0 => dinode[a].ents[m] \in Inums
    BY EntRange
  <1>3. k # j => Subdirs(k)' = Subdirs(k)
    BY <1>2 DEF Subdirs, EntsStep, TypesSame
  <1>4. \A m \in Names \ {n} : m \in Subdirs(j)' <=> m \in Subdirs(j)
    BY <1>2 DEF Subdirs, EntsStep, TypesSame
  <1>5. n \in Subdirs(j)' <=> v # 0 /\ dinode[v].type = "dir"
    BY <1>1 DEF Subdirs, EntsStep, TypesSame
  <1>6. Subdirs(j) \subseteq Names /\ Subdirs(j)' \subseteq Names
    BY DEF Subdirs
  <1>7. n \in Subdirs(j) <=> dinode[j].ents[n] # 0 /\ dinode[dinode[j].ents[n]].type = "dir"
    BY DEF Subdirs
  <1> QED BY <1>3, <1>4, <1>5, <1>6, <1>7

\* The links of one inode, in numbers.
LinkAt(i) == dinode[i].nlink >= Cardinality(NamesOf(i)) + Cardinality(Subdirs(i)) + Cardinality(Pends(i)) + Root(i)

\* The link count of one inode.
LEMMA LinkAtFacts ==
  ASSUME FsInv, NEW i \in Inums
  PROVE  /\ LinkAt(i) /\ dinode[i].nlink \in Nat /\ Root(i) \in Nat /\ NamesFinite(i)
         /\ Root(i)' = Root(i)
  <1>1. LinkAt(i)
    BY DEF FsInv, LinkInv, LinkAt
  <1>2. dinode[i].nlink \in Nat
    BY DEF FsInv, TypeInv, Dinode
  <1> QED BY <1>1, <1>2, LinkFinite DEF Root

\* Nobody knows an inode without links by name.
LEMMA NoLinks ==
  ASSUME FsInv, NEW i \in Inums, dinode[i].nlink = 0
  PROVE  NamesOf(i) = {} /\ Subdirs(i) = {} /\ Pends(i) = {} /\ Root(i) = 0
  <1>1. LinkAt(i) /\ Root(i) \in Nat /\ NamesFinite(i)
    BY LinkAtFacts
  <1>2. Cardinality(NamesOf(i)) = 0 /\ Cardinality(Subdirs(i)) = 0 /\ Cardinality(Pends(i)) = 0 /\ Root(i) = 0
    BY <1>1 DEF LinkAt, NamesFinite
  <1> QED BY <1>1, <1>2, FS_EmptySet DEF NamesFinite

\* Counting with one element more,
LEMMA AddOne ==
  ASSUME NEW S, IsFiniteSet(S), NEW x, x \notin S
  PROVE  Cardinality(S \cup {x}) = Cardinality(S) + 1
  BY FS_AddElement

\* and with one less.
LEMMA DropOne ==
  ASSUME NEW S, IsFiniteSet(S), NEW x, x \in S
  PROVE  Cardinality(S \ {x}) = Cardinality(S) - 1
  BY FS_RemoveElement

\* What a step of p does to the links that have no name.
LEMMA PendsStep ==
  ASSUME FsInv, NEW p \in FsProcs, Rest(p), Stable, NEW i, NEW s \in Slots, itable[s].ref > 0
  PROVE  /\ ~Pending(loc[p]) /\ ~Pending(loc'[p]) => Pends(i)' = Pends(i)
         /\ Pending(loc[p]) /\ ~Pending(loc'[p]) /\ loc[p].ip = s =>
              /\ Pends(i)' = Pends(i) \ {p}
              /\ p \in Pends(i) <=> itable[s].inum = i
         /\ ~Pending(loc[p]) /\ Pending(loc'[p]) /\ loc'[p].ip = s =>
              /\ itable[s].inum = i => Pends(i)' = Pends(i) \cup {p} /\ p \notin Pends(i)
              /\ itable[s].inum # i => Pends(i)' = Pends(i)
  <1>1. TypeInv /\ RefInv /\ CohInv
    BY DEF FsInv
  <1>2. ASSUME NEW q \in FsProcs \ {p}
        PROVE  q \in Pends(i)' <=> q \in Pends(i)
    <2>1. loc'[q] = loc[q]
      BY DEF Rest
    <2>2. Pending(loc[q]) => loc[q].ip \in Slots /\ itable[loc[q].ip].ref > 0
      BY <1>1, PendIp, UsedBy DEF FsInv, ProcInv
    <2> QED BY <2>1, <2>2 DEF Stable, Pends
  <1>3. Pends(i) \subseteq FsProcs /\ Pends(i)' \subseteq FsProcs
    BY DEF Pends
  <1>4. p \in Pends(i) <=> Pending(loc[p]) /\ itable[loc[p].ip].inum = i
    BY DEF Pends
  <1>5. p \in Pends(i)' <=> Pending(loc'[p]) /\ itable'[loc'[p].ip].inum = i
    BY DEF Pends
  <1>6. itable'[s].inum = itable[s].inum
    BY DEF Stable
  <1> QED BY <1>2, <1>3, <1>4, <1>5, <1>6

\* iupdate of a link count.
LEMMA SetLinksStep ==
  ASSUME FsInv, NEW s \in Slots, itable[s].ref > 0, Live(s), NEW n \in Nat, SetLinks(s, n),
         Node(s).type = "dir" => Dot(s)
  PROVE  /\ itable' \in [Slots -> Entry] /\ dinode' \in [Inums -> Dinode]
         /\ Stable /\ RefsSame /\ CohInv' /\ DiskInv' /\ DotsSame /\ EntsSame /\ TypesSame
         /\ dinode'[itable[s].inum].nlink = n
         /\ \A j \in Inums : dinode'[j].ents = dinode[j].ents
         /\ \A j \in Inums \ {itable[s].inum} : dinode'[j] = dinode[j]
  <1>1. TypeInv /\ CohInv /\ DiskInv
    BY DEF FsInv
  <1>2. PICK i : i = itable[s].inum
    OBVIOUS
  <1>3. PICK e, d : e = Loaded(s) /\ d = dinode[i]
    OBVIOUS
  <1>4. /\ e \in Entry /\ e.inum = i /\ e.ref = itable[s].ref /\ e.valid /\ e.type = d.type
        /\ d \in Dinode /\ i \in Inums /\ d.type # "free"
    BY <1>1, <1>2, <1>3, LoadFacts DEF Live, Node
  <1>5. /\ itable' = [itable EXCEPT ![s] = [e EXCEPT !.nlink = n]]
        /\ dinode' = [dinode EXCEPT ![i].nlink = n]
    BY <1>2, <1>3 DEF SetLinks
  <1>6. PICK e2, d2 : e2 = [e EXCEPT !.nlink = n] /\ d2 = [d EXCEPT !.nlink = n]
    OBVIOUS
  <1>7. /\ e2 \in Entry /\ e2.inum = i /\ e2.ref = itable[s].ref /\ e2.valid /\ e2.type = d.type /\
           e2.nlink = n
        /\ d2 \in Dinode /\ d2.type = d.type /\ d2.nlink = n /\ d2.ents = d.ents /\ d2.holes = d.holes
    BY <1>4, <1>6 DEF Entry, Dinode
  <1>8. /\ itable' \in [Slots -> Entry] /\ itable'[s] = e2 /\ \A u \in Slots \ {s} : itable'[u] = itable[u]
    BY <1>1, <1>5, <1>6, <1>7 DEF TypeInv
  <1>9. /\ dinode' \in [Inums -> Dinode] /\ dinode'[i] = d2 /\ \A j \in Inums \ {i} : dinode'[j] = dinode[j]
    BY <1>1, <1>3, <1>4, <1>5, <1>6, <1>7 DEF TypeInv
  <1>10. Stable /\ RefsSame
    BY <1>2, <1>7, <1>8 DEF Stable, RefsSame
  <1>11. CohInv'
    BY <1>1, <1>2, <1>4, <1>7, <1>8, <1>9 DEF CohInv, Coh
  <1>12. \A j \in Inums : dinode'[j].ents = dinode[j].ents /\ dinode'[j].type = dinode[j].type
    BY <1>3, <1>7, <1>9
  <1>13. DotsSame /\ EntsSame /\ TypesSame
    BY <1>12 DEF DotsSame, EntsSame, TypesSame
  <1>14. d.type = "dir" => d.ents["."] = i
    BY <1>2, <1>3 DEF Dot, Node
  <1>15. DiskInv'
    <2>1. dinode'[ROOTINO].type = "dir"
      BY <1>1, <1>12, Consts DEF DiskInv, Inums, ROOTINO
    <2>2. ASSUME NEW j \in Inums
          PROVE  /\ dinode'[j].type = "free" => dinode'[j] = NewInode("free")
                 /\ dinode'[j].type = "dir" /\ dinode'[j].nlink > 0 => dinode'[j].ents["."] = j
                 /\ \A m \in Names : dinode'[j].ents[m] # 0 => dinode'[dinode'[j].ents[m]].type # "free"
      <3>1. dinode'[j].type = "free" => dinode'[j] = NewInode("free")
        BY <1>1, <1>4, <1>7, <1>9 DEF DiskInv
      <3>2. dinode'[j].type = "dir" /\ dinode'[j].nlink > 0 => dinode'[j].ents["."] = j
        BY <1>1, <1>7, <1>9, <1>14 DEF DiskInv
      <3>3. ASSUME NEW m \in Names, dinode'[j].ents[m] # 0
            PROVE  dinode'[dinode'[j].ents[m]].type # "free"
        <4>1. dinode[j].ents[m] # 0 /\ dinode[j].ents[m] = dinode'[j].ents[m]
          BY <1>12, <3>3
        <4>2. dinode[j].ents[m] \in Inums /\ dinode[dinode[j].ents[m]].type # "free"
          BY <1>1, <4>1, EntRange DEF DiskInv
        <4> QED BY <1>12, <4>1, <4>2
      <3> QED BY <3>1, <3>2, <3>3
    <2>3. DiskInv' <=>
            /\ dinode'[ROOTINO].type = "dir"
            /\ \A j \in Inums :
                 /\ dinode'[j].type = "free" => dinode'[j] = NewInode("free")
                 /\ dinode'[j].type = "dir" /\ dinode'[j].nlink > 0 => dinode'[j].ents["."] = j
                 /\ \A m \in Names : dinode'[j].ents[m] # 0 => dinode'[dinode'[j].ents[m]].type # "free"
      BY DEF DiskInv, NewInode, NoEnts, ROOTINO
    <2> QED BY ONLY <2>1, <2>2, <2>3
  <1> QED BY <1>2, <1>7, <1>8, <1>9, <1>10, <1>11, <1>12, <1>13, <1>15

\* The frame of such a step.
LEMMA LinksFrame ==
  ASSUME FsInv, NEW p \in FsProcs, NEW s \in Slots, itable[s].ref > 0, Stable, DotsSame, NewOk(p),
         NEW x \in Ptrs, x[1] = p, x[2] # "vic", To(x) = s,
         \A j \in Inums : dinode'[j].ents = dinode[j].ents,
         \A j \in Inums \ {itable[s].inum} : dinode'[j] = dinode[j]
  PROVE  FrameA(p) /\ FrameB(p) /\ FrameC(p)
  <1>1. FrameA(p)
    BY FrameOfA
  <1>2. Touches(p)
    <2> SUFFICES ASSUME NEW u \in Slots, itable[u].ref > 0, u # s
                 PROVE  dinode'[itable[u].inum] = dinode[itable[u].inum]
      BY DEF Touches
    <2> QED BY DEF FsInv, CohInv, Coh
  <1>3. FrameB(p)
    BY <1>2, FrameOfB
  <1>4. FrameC(p)
    BY LockUsed DEF FrameC, Stable
  <1> QED BY <1>1, <1>3, <1>4

\* nlink++ starts a link under way.
LEMMA LinksUp ==
  ASSUME FsInv, NEW p \in FsProcs, Rest(p), Stable, EntsSame, TypesSame, NEW s \in Slots, itable[s].ref > 0,
         ~Pending(loc[p]), Pending(loc'[p]), loc'[p].ip = s,
         dinode'[itable[s].inum].nlink = dinode[itable[s].inum].nlink + 1,
         \A j \in Inums \ {itable[s].inum} : dinode'[j] = dinode[j]
  PROVE  LinkInv'
  <1> SUFFICES ASSUME NEW k \in Inums PROVE LinkAt(k)'
    BY DEF LinkInv, LinkAt
  <1>1. TypeInv /\ LinkAt(k) /\ dinode[k].nlink \in Nat /\ Root(k) \in Nat /\ NamesFinite(k) /\
        Root(k)' = Root(k)
    BY LinkAtFacts DEF FsInv
  <1>2. NamesOf(k)' = NamesOf(k) /\ Subdirs(k)' = Subdirs(k)
    BY <1>1, NamesSame
  <1>3. /\ itable[s].inum = k => Pends(k)' = Pends(k) \cup {p} /\ p \notin Pends(k)
        /\ itable[s].inum # k => Pends(k)' = Pends(k)
    BY PendsStep
  <1>4. CASE itable[s].inum = k
    <2>1. Cardinality(Pends(k) \cup {p}) = Cardinality(Pends(k)) + 1
      BY <1>1, <1>3, <1>4, AddOne DEF NamesFinite
    <2>2. dinode'[k].nlink = dinode[k].nlink + 1
      BY <1>4
    <2>3. Cardinality(Pends(k))' = Cardinality(Pends(k)) + 1
      BY <1>3, <1>4, <2>1
    <2> QED BY <1>1, <1>2, <2>2, <2>3 DEF LinkAt, NamesFinite
  <1>5. CASE itable[s].inum # k
    BY <1>1, <1>2, <1>3, <1>5 DEF LinkAt, NamesFinite
  <1> QED BY <1>4, <1>5

\* nlink-- ends a link under way.
LEMMA LinksDown ==
  ASSUME FsInv, NEW p \in FsProcs, Rest(p), Stable, EntsSame, TypesSame, NEW s \in Slots, itable[s].ref > 0,
         Pending(loc[p]), ~Pending(loc'[p]), loc[p].ip = s,
         dinode'[itable[s].inum].nlink = dinode[itable[s].inum].nlink - 1,
         \A j \in Inums \ {itable[s].inum} : dinode'[j] = dinode[j]
  PROVE  LinkInv'
  <1> SUFFICES ASSUME NEW k \in Inums PROVE LinkAt(k)'
    BY DEF LinkInv, LinkAt
  <1>1. TypeInv /\ LinkAt(k) /\ dinode[k].nlink \in Nat /\ Root(k) \in Nat /\ NamesFinite(k) /\
        Root(k)' = Root(k)
    BY LinkAtFacts DEF FsInv
  <1>2. NamesOf(k)' = NamesOf(k) /\ Subdirs(k)' = Subdirs(k)
    BY <1>1, NamesSame
  <1>3. Pends(k)' = Pends(k) \ {p} /\ (p \in Pends(k) <=> itable[s].inum = k)
    BY PendsStep
  <1>4. CASE itable[s].inum = k
    <2>1. Cardinality(Pends(k) \ {p}) = Cardinality(Pends(k)) - 1
      BY <1>1, <1>3, <1>4, DropOne DEF NamesFinite
    <2>2. dinode'[k].nlink = dinode[k].nlink - 1
      BY <1>4
    <2>3. Cardinality(Pends(k))' = Cardinality(Pends(k)) - 1
      BY <1>3, <1>4, <2>1
    <2> QED BY <1>1, <1>2, <2>2, <2>3 DEF LinkAt, NamesFinite
  <1>5. CASE itable[s].inum # k
    <2>1. Pends(k)' = Pends(k)
      BY <1>3, <1>5
    <2> QED BY <1>1, <1>2, <1>5, <2>1 DEF LinkAt, NamesFinite
  <1> QED BY <1>4, <1>5

\* A link without a name is a link.
LEMMA PendLinks ==
  ASSUME FsInv, NEW p \in FsProcs, Pending(loc[p])
  PROVE  Node(loc[p].ip).nlink \in Nat /\ Node(loc[p].ip).nlink > 0
  <1>1. TypeInv /\ RefInv /\ CohInv /\ ShapeP(p)
    BY DEF FsInv, ProcInv
  <1>2. PICK i : i = itable[loc[p].ip].inum
    OBVIOUS
  <1>3. i \in Inums
    BY <1>1, <1>2, PendIp, UsedBy
  <1>4. p \in Pends(i)
    BY <1>2 DEF Pends
  <1>5. dinode[i].nlink \in Nat
    BY <1>3, LinkAtFacts
  <1>6. dinode[i].nlink # 0
    BY <1>3, <1>4, NoLinks
  <1> QED BY <1>2, <1>5, <1>6 DEF Node

LinkWalkOf(l) == [Namex(l, l.new, TRUE, "link2") EXCEPT !.new = <<>>]

LinkWalkRec(l, r) ==
  /\ r \in LocType
  /\ r.pc = "namex0" /\ r.call = l.call /\ r.name = l.name /\ r.rest = l.new
  /\ r.new = <<>> /\ r.cur = l.cur /\ r.ip = l.ip /\ r.dp = l.dp
  /\ r.vic = l.vic /\ r.parent /\ r.k = l.k /\ r.nk = "link2"

\* The locals when link starts to look for the new name.
LEMMA LinkWalkFields ==
  ASSUME NEW l \in LocType
  PROVE  LinkWalkRec(l, LinkWalkOf(l))
  <1>1. "namex0" \in Pcs /\ "link2" \in Finds /\ <<>> \in Seq(Names \cup {".", "/"})
    BY DEF Pcs, Walks, Finds
  <1>2. LinkWalkOf(l) = [l EXCEPT !.pc = "namex0", !.rest = l.new, !.parent = TRUE, !.nk = "link2", !.new = <<>>]
    BY DEF LinkWalkOf, Namex
  <1> QED BY <1>1, <1>2 DEF LocType, LinkWalkRec

\* link counts the new link.
LEMMA LinkCounts ==
  ASSUME FsInv, NEW p \in FsProcs, loc[p].pc = "link1", Node(loc[p].ip).type # "dir",
         SetLinks(loc[p].ip, Node(loc[p].ip).nlink + 1),
         Go(p, LinkWalkOf(loc[p])),
         UNCHANGED <<ftable, ofile, cwd, ilk>>
  PROVE  FsInv'
  <1> DEFINE l == loc[p]
             r == loc'[p]
  <1>1. TypeInv /\ RefInv /\ CohInv /\ FilesInv /\ ShapeP(p) /\ LockP(p) /\ LiveP(p) /\ KnowP(p)
    BY DEF FsInv, ProcInv
  <1>2. Place(l) = l.pc /\ l.vic = 0 /\ To(<<p, "vic">>) = 0 /\ l.pc # "ifree" /\ l.pc \notin Putting
    BY Unput DEF Putting
  <1>3. l.pc = "link1" /\ l.cur = 0 /\ l.dp = 0 /\ l.ip # 0 /\ cwd[p] # 0 /\ GoodPath(l.new)
    BY <1>1, <1>2 DEF ShapeP, Shape, HasIp, Creating, Putting, Conts, Walks, Finds, Parents,
       DpOnly, IpDp, IpOnly
  <1>20. l.ip \in Slots /\ itable[l.ip].ref > 0 /\ Live(l.ip) /\ Dot(l.ip) /\
         Node(loc[p].ip).nlink + 1 \in Nat
    <2>1. l.ip \in OldOk(p)
      BY <1>3 DEF OldOk
    <2>2. l.ip \in Slots /\ itable[l.ip].ref > 0 /\ Live(l.ip) /\ Dot(l.ip)
      BY <2>1, OldOkFacts
    <2>3. Node(loc[p].ip).nlink \in Nat
      BY <1>1, <2>2, LoadFacts DEF Dinode, l
    <2> QED BY <2>2, <2>3
  <1>21. /\ itable' \in [Slots -> Entry] /\ dinode' \in [Inums -> Dinode]
         /\ Stable /\ RefsSame /\ CohInv' /\ DiskInv' /\ DotsSame /\ EntsSame /\ TypesSame
         /\ dinode'[itable[l.ip].inum].nlink = Node(loc[p].ip).nlink + 1
         /\ \A j \in Inums : dinode'[j].ents = dinode[j].ents
         /\ \A j \in Inums \ {itable[l.ip].inum} : dinode'[j] = dinode[j]
    BY <1>20, SetLinksStep
  <1>4. /\ loc' = [loc EXCEPT ![p] = r] /\ l \in LocType /\ Rest(p) /\ FileOf(p)' = FileOf(p) /\ FilesInv'
        /\ r = LinkWalkOf(l)
    BY <1>1, <1>3, GoFacts, RestSame
  <1> HIDE DEF l, r
  <1>5. /\ r \in LocType
        /\ r.pc = "namex0" /\ r.call = l.call /\ r.name = l.name /\ r.rest = l.new
        /\ r.new = <<>> /\ r.cur = l.cur /\ r.ip = l.ip /\ r.dp = l.dp
        /\ r.vic = l.vic /\ r.parent /\ r.k = l.k /\ r.nk = "link2"
    <2>1. LinkWalkRec(l, r)
      BY <1>4, LinkWalkFields
    <2> QED BY <2>1 DEF LinkWalkRec
  <1>6. Place(r) = "namex0"
    BY <1>2, <1>3, <1>5 DEF Place, Putting, Finds
  <1>7. OwnTypes(p)
    BY <1>1, <1>3, <1>4, <1>5, Consts DEF OwnTypes, TypeInv, Slots, Files, l, r
  <1>8. KSame
    BY <1>4, <1>5, KindSame DEF l, r
  <1>9. RefInv' /\ NewOk(p)
    BY <1>1, <1>2, <1>8, <1>21, RefSame, NewSame DEF l
  <1>10. ShapeP(p)'
    <2>1. Shape(r)
      BY <1>1, <1>2, <1>3, <1>5, <1>6, SlotPos
         DEF ShapeP, Shape, HasIp, Creating, Putting, Conts, Walks, Finds, Parents, DpOnly, IpDp, IpOnly, l
    <2> QED BY <1>1, <1>2, <1>3, <1>6, <2>1 DEF ShapeP, l, r
  <1>11. LockP(p)' /\ LockStep(p)
    BY <1>1, <1>2, <1>3, <1>5, <1>6, Consts DEF LockP, LockStep, HoldsIp, HoldsDp, TypeInv, Finds, l, r
  <1>12. LiveP(p)'
    <2>1. /\ r.cur \in {0} \cup OldOk(p) /\ r.ip \in {0} \cup OldOk(p) /\ r.dp \in {0} \cup OldOk(p)
          /\ cwd'[p] \in {0} \cup OldOk(p) /\ FileOf(p)' \in {0} \cup OldOk(p) /\ r.vic \in {0} \cup OldOk(p)
      BY <1>2, <1>3, <1>4, <1>5 DEF OldOk, l
    <2> QED BY <1>21, <2>1, OwnLiveSoft DEF r
  <1>13. Pending(r) /\ ~Pending(l)
    BY <1>1, <1>2, <1>3, <1>5, <1>6 DEF Pending, Linking, Walks, Finds, l
  <1>14. KnowP(p)'
    <2>1. PICK s : s = l.ip /\ s = r.ip
      BY <1>5
    <2>2. s \in Slots /\ itable[s].ref > 0 /\ itable[s].inum \in Inums
      BY <1>20, <2>1 DEF FsInv, CohInv, Coh
    <2>3. Node(s)'.type # "dir"
      BY <1>21, <2>1, <2>2, NodeSoft DEF l
    <2>4. Node(loc[p].ip)'.type # "dir"
      BY <2>1, <2>3 DEF r
    <2> QED BY <1>3, <1>5, <2>4 DEF KnowP, r
  <1>15. FrameA(p) /\ FrameB(p) /\ FrameC(p)
    <2>1. <<p, "ip">> \in Ptrs /\ <<p, "ip">>[1] = p /\ <<p, "ip">>[2] # "vic" /\ To(<<p, "ip">>) = l.ip
      BY ToTag DEF l
    <2> QED BY <1>9, <1>20, <1>21, <2>1, LinksFrame
  <1>16. LinkInv'
    <2>1. ~Pending(loc[p]) /\ Pending(loc'[p])
      BY <1>13 DEF l, r
    <2>2. dinode'[itable[l.ip].inum].nlink = dinode[itable[l.ip].inum].nlink + 1
      BY <1>20, <1>21 DEF Node, l
    <2>3. PICK s : s = l.ip /\ s \in Slots /\ itable[s].ref > 0
      BY <1>20
    <2> QED BY <1>4, <1>5, <1>21, <2>1, <2>2, <2>3, LinksUp DEF l, r
  <1> QED BY <1>4, <1>7, <1>9, <1>10, <1>11, <1>12, <1>14, <1>15, <1>16, <1>21, LoudStep DEF OwnInv

\* link takes its count back.
LEMMA LinkUncounts ==
  ASSUME FsInv, NEW p \in FsProcs, loc[p].pc = "linkbad", SetLinks(loc[p].ip, Node(loc[p].ip).nlink - 1),
         Go(p, PutIpOf(loc[p], "user")),
         UNCHANGED <<ftable, ofile, cwd, ilk>>
  PROVE  FsInv'
  <1> DEFINE l == loc[p]
             r == loc'[p]
  <1>1. TypeInv /\ RefInv /\ CohInv /\ FilesInv /\ ShapeP(p) /\ LockP(p) /\ LiveP(p) /\ KnowP(p)
    BY DEF FsInv, ProcInv
  <1>2. Place(l) = l.pc /\ l.vic = 0 /\ To(<<p, "vic">>) = 0 /\ l.pc # "ifree" /\ l.pc \notin Putting
    BY Unput DEF Putting
  <1>3. l.pc = "linkbad" /\ l.cur = 0 /\ l.dp = 0 /\ l.ip # 0 /\ cwd[p] # 0
    BY <1>1, <1>2 DEF ShapeP, Shape, HasIp, Creating, Putting, Conts, Walks, Finds, Parents,
       DpOnly, IpDp, IpOnly
  <1>20. l.ip \in Slots /\ itable[l.ip].ref > 0 /\ Live(l.ip) /\ Dot(l.ip) /\
         Node(loc[p].ip).nlink - 1 \in Nat
    <2>1. l.ip \in OldOk(p)
      BY <1>3 DEF OldOk
    <2>2. l.ip \in Slots /\ itable[l.ip].ref > 0 /\ Live(l.ip) /\ Dot(l.ip)
      BY <2>1, OldOkFacts
    <2>3. Node(loc[p].ip).nlink \in Nat /\ Node(loc[p].ip).nlink > 0
      BY PendLinks DEF Pending, Linking, l, Place, Putting
    <2> QED BY <2>2, <2>3
  <1>21. /\ itable' \in [Slots -> Entry] /\ dinode' \in [Inums -> Dinode]
         /\ Stable /\ RefsSame /\ CohInv' /\ DiskInv' /\ DotsSame /\ EntsSame /\ TypesSame
         /\ dinode'[itable[l.ip].inum].nlink = Node(loc[p].ip).nlink - 1
         /\ \A j \in Inums : dinode'[j].ents = dinode[j].ents
         /\ \A j \in Inums \ {itable[l.ip].inum} : dinode'[j] = dinode[j]
    BY <1>20, SetLinksStep
  <1>4. /\ loc' = [loc EXCEPT ![p] = r] /\ l \in LocType /\ Rest(p) /\ FileOf(p)' = FileOf(p) /\ FilesInv'
        /\ r = PutIpOf(l, "user")
    BY <1>1, <1>3, GoFacts, RestSame
  <1> HIDE DEF l, r
  <1>5. /\ r \in LocType
        /\ r.pc = "iput" /\ r.call = l.call /\ r.name = l.name /\ r.rest = l.rest
        /\ r.new = l.new /\ r.cur = l.cur /\ r.ip = 0 /\ r.dp = l.dp
        /\ r.vic = l.ip /\ r.parent = l.parent /\ r.k = "user" /\ r.nk = l.nk
    <2>1. "user" \in Conts
      BY DEF Conts
    <2> QED BY <1>4, <2>1, PutIpFields
  <1>6. Place(r) = "user"
    BY <1>2, <1>3, <1>5 DEF Place, Putting, Finds
  <1>7. OwnTypes(p)
    BY <1>1, <1>3, <1>4, <1>5, Consts DEF OwnTypes, TypeInv, Slots, Files, l, r
  <1>8. KMoved(<<p, "ip">>, <<p, "vic">>)
    <2>1. OtherTags(p, {"ip", "vic"})
      BY <1>4, <1>5 DEF OtherTags, l, r
    <2>2. \A x \in Ptrs \ {<<p, "ip">>, <<p, "vic">>} : To(x)' = To(x)
      BY <1>4, <2>1, KindRest
    <2>3. /\ To(<<p, "ip">>) = l.ip /\ To(<<p, "ip">>)' = r.ip
          /\ To(<<p, "vic">>) = l.vic /\ To(<<p, "vic">>)' = r.vic
      BY ToTag, ToTagNext DEF l, r
    <2> QED BY <1>2, <1>3, <1>5, <2>2, <2>3, SlotPos DEF KMoved
  <1>9. RefInv' /\ NewOk(p)
    BY <1>1, <1>2, <1>8, <1>21, ToTag, RefMoved, NewMoved DEF l
  <1>10. ShapeP(p)'
    <2>1. Shape(r)
      BY <1>1, <1>2, <1>3, <1>5, <1>6, SlotPos
         DEF ShapeP, Shape, HasIp, Creating, Putting, Conts, Walks, Finds, Parents, DpOnly, IpDp, IpOnly, l
    <2> QED BY <1>1, <1>2, <1>3, <1>6, <2>1 DEF ShapeP, l, r
  <1>11. LockP(p)' /\ LockStep(p)
    BY <1>1, <1>2, <1>3, <1>5, <1>6, Consts DEF LockP, LockStep, HoldsIp, HoldsDp, TypeInv, Finds, l, r
  <1>12. LiveP(p)'
    <2>1. /\ r.cur \in {0} \cup OldOk(p) /\ r.ip \in {0} \cup OldOk(p) /\ r.dp \in {0} \cup OldOk(p)
          /\ cwd'[p] \in {0} \cup OldOk(p) /\ FileOf(p)' \in {0} \cup OldOk(p) /\ r.vic \in {0} \cup OldOk(p)
      BY <1>2, <1>3, <1>4, <1>5 DEF OldOk, l
    <2> QED BY <1>21, <2>1, OwnLiveSoft DEF r
  <1>13. ~Pending(r) /\ Pending(l)
    BY <1>1, <1>2, <1>3, <1>5, <1>6 DEF Pending, Linking, Walks, Finds, l
  <1>14. KnowP(p)'
    <2>1. r.pc \notin {"ialloc", "create3", "unlink2", "itrunc"} /\ r.dp = 0 /\ ~Linking(r)
      BY <1>3, <1>5, <1>6 DEF Linking, Walks
    <2> QED BY <2>1, OwnKnowSoft DEF r
  <1>15. FrameA(p) /\ FrameB(p) /\ FrameC(p)
    <2>1. <<p, "ip">> \in Ptrs /\ <<p, "ip">>[1] = p /\ <<p, "ip">>[2] # "vic" /\ To(<<p, "ip">>) = l.ip
      BY ToTag DEF l
    <2> QED BY <1>9, <1>20, <1>21, <2>1, LinksFrame
  <1>16. LinkInv'
    <2>1. Pending(loc[p]) /\ ~Pending(loc'[p])
      BY <1>13 DEF l, r
    <2>2. dinode'[itable[l.ip].inum].nlink = dinode[itable[l.ip].inum].nlink - 1
      BY <1>20, <1>21 DEF Node, l
    <2>3. PICK s : s = l.ip /\ s \in Slots /\ itable[s].ref > 0
      BY <1>20
    <2> QED BY <1>4, <1>5, <1>21, <2>1, <2>2, <2>3, LinksDown DEF l, r
  <1> QED BY <1>4, <1>7, <1>9, <1>10, <1>11, <1>12, <1>14, <1>15, <1>16, <1>21, LoudStep DEF OwnInv

\* unlink takes the count of the name it has erased.
LEMMA UnlinkUncounts ==
  ASSUME FsInv, NEW p \in FsProcs, loc[p].pc = "unlink3", SetLinks(loc[p].ip, Node(loc[p].ip).nlink - 1),
         Go(p, PutIpOf(loc[p], "user")),
         UNCHANGED <<ftable, ofile, cwd>>,
         ilk' = [ilk EXCEPT ![loc[p].ip] = NoProc]
  PROVE  FsInv'
  <1> DEFINE l == loc[p]
             r == loc'[p]
  <1>1. TypeInv /\ RefInv /\ CohInv /\ FilesInv /\ ShapeP(p) /\ LockP(p) /\ LiveP(p) /\ KnowP(p)
    BY DEF FsInv, ProcInv
  <1>2. Place(l) = l.pc /\ l.vic = 0 /\ To(<<p, "vic">>) = 0 /\ l.pc # "ifree" /\ l.pc \notin Putting
    BY Unput DEF Putting
  <1>3. l.pc = "unlink3" /\ l.cur = 0 /\ l.dp = 0 /\ l.ip # 0 /\ cwd[p] # 0
    BY <1>1, <1>2 DEF ShapeP, Shape, HasIp, Creating, Putting, Conts, Walks, Finds, Parents,
       DpOnly, IpDp, IpOnly
  <1>20. l.ip \in Slots /\ itable[l.ip].ref > 0 /\ Live(l.ip) /\ Dot(l.ip) /\
         Node(loc[p].ip).nlink - 1 \in Nat
    <2>1. l.ip \in OldOk(p)
      BY <1>3 DEF OldOk
    <2>2. l.ip \in Slots /\ itable[l.ip].ref > 0 /\ Live(l.ip) /\ Dot(l.ip)
      BY <2>1, OldOkFacts
    <2>3. Node(loc[p].ip).nlink \in Nat /\ Node(loc[p].ip).nlink > 0
      BY PendLinks DEF Pending, Linking, l, Place, Putting
    <2> QED BY <2>2, <2>3
  <1>21. /\ itable' \in [Slots -> Entry] /\ dinode' \in [Inums -> Dinode]
         /\ Stable /\ RefsSame /\ CohInv' /\ DiskInv' /\ DotsSame /\ EntsSame /\ TypesSame
         /\ dinode'[itable[l.ip].inum].nlink = Node(loc[p].ip).nlink - 1
         /\ \A j \in Inums : dinode'[j].ents = dinode[j].ents
         /\ \A j \in Inums \ {itable[l.ip].inum} : dinode'[j] = dinode[j]
    BY <1>20, SetLinksStep
  <1>4. /\ loc' = [loc EXCEPT ![p] = r] /\ l \in LocType /\ Rest(p) /\ FileOf(p)' = FileOf(p) /\ FilesInv'
        /\ r = PutIpOf(l, "user")
    BY <1>1, <1>3, GoFacts, RestSame
  <1> HIDE DEF l, r
  <1>5. /\ r \in LocType
        /\ r.pc = "iput" /\ r.call = l.call /\ r.name = l.name /\ r.rest = l.rest
        /\ r.new = l.new /\ r.cur = l.cur /\ r.ip = 0 /\ r.dp = l.dp
        /\ r.vic = l.ip /\ r.parent = l.parent /\ r.k = "user" /\ r.nk = l.nk
    <2>1. "user" \in Conts
      BY DEF Conts
    <2> QED BY <1>4, <2>1, PutIpFields
  <1>6. Place(r) = "user"
    BY <1>2, <1>3, <1>5 DEF Place, Putting, Finds
  <1>7. OwnTypes(p)
    BY <1>1, <1>3, <1>4, <1>5, Consts DEF OwnTypes, TypeInv, Slots, Files, l, r
  <1>8. KMoved(<<p, "ip">>, <<p, "vic">>)
    <2>1. OtherTags(p, {"ip", "vic"})
      BY <1>4, <1>5 DEF OtherTags, l, r
    <2>2. \A x \in Ptrs \ {<<p, "ip">>, <<p, "vic">>} : To(x)' = To(x)
      BY <1>4, <2>1, KindRest
    <2>3. /\ To(<<p, "ip">>) = l.ip /\ To(<<p, "ip">>)' = r.ip
          /\ To(<<p, "vic">>) = l.vic /\ To(<<p, "vic">>)' = r.vic
      BY ToTag, ToTagNext DEF l, r
    <2> QED BY <1>2, <1>3, <1>5, <2>2, <2>3, SlotPos DEF KMoved
  <1>9. RefInv' /\ NewOk(p)
    BY <1>1, <1>2, <1>8, <1>21, ToTag, RefMoved, NewMoved DEF l
  <1>10. ShapeP(p)'
    <2>1. Shape(r)
      BY <1>1, <1>2, <1>3, <1>5, <1>6, SlotPos
         DEF ShapeP, Shape, HasIp, Creating, Putting, Conts, Walks, Finds, Parents, DpOnly, IpDp, IpOnly, l
    <2> QED BY <1>1, <1>2, <1>3, <1>6, <2>1 DEF ShapeP, l, r
  <1>11. LockP(p)' /\ LockStep(p)
    <2>1. \A u \in Slots : ilk'[u] = IF u = l.ip THEN NoProc ELSE ilk[u]
      BY <1>1, <1>20 DEF TypeInv, l
    <2>2. ilk[l.ip] = p /\ \A u \in Slots \ {l.ip} : ilk[u] # p
      BY <1>1, <1>2, <1>3 DEF LockP, HoldsIp, HoldsDp, l
    <2>3. LockStep(p)
      BY <2>1, <2>2 DEF LockStep
    <2> QED BY <1>5, <1>6, <2>1, <2>2, <2>3, Consts DEF LockP, HoldsIp, HoldsDp, r
  <1>12. LiveP(p)'
    <2>1. /\ r.cur \in {0} \cup OldOk(p) /\ r.ip \in {0} \cup OldOk(p) /\ r.dp \in {0} \cup OldOk(p)
          /\ cwd'[p] \in {0} \cup OldOk(p) /\ FileOf(p)' \in {0} \cup OldOk(p) /\ r.vic \in {0} \cup OldOk(p)
      BY <1>2, <1>3, <1>4, <1>5 DEF OldOk, l
    <2> QED BY <1>21, <2>1, OwnLiveSoft DEF r
  <1>13. ~Pending(r) /\ Pending(l)
    BY <1>1, <1>2, <1>3, <1>5, <1>6 DEF Pending, Linking, Walks, Finds, l
  <1>14. KnowP(p)'
    <2>1. r.pc \notin {"ialloc", "create3", "unlink2", "itrunc"} /\ r.dp = 0 /\ ~Linking(r)
      BY <1>3, <1>5, <1>6 DEF Linking, Walks
    <2> QED BY <2>1, OwnKnowSoft DEF r
  <1>15. FrameA(p) /\ FrameB(p) /\ FrameC(p)
    <2>1. <<p, "ip">> \in Ptrs /\ <<p, "ip">>[1] = p /\ <<p, "ip">>[2] # "vic" /\ To(<<p, "ip">>) = l.ip
      BY ToTag DEF l
    <2> QED BY <1>9, <1>20, <1>21, <2>1, LinksFrame
  <1>16. LinkInv'
    <2>1. Pending(loc[p]) /\ ~Pending(loc'[p])
      BY <1>13 DEF l, r
    <2>2. dinode'[itable[l.ip].inum].nlink = dinode[itable[l.ip].inum].nlink - 1
      BY <1>20, <1>21 DEF Node, l
    <2>3. PICK s : s = l.ip /\ s \in Slots /\ itable[s].ref > 0
      BY <1>20
    <2> QED BY <1>4, <1>5, <1>21, <2>1, <2>2, <2>3, LinksDown DEF l, r
  <1> QED BY <1>4, <1>7, <1>9, <1>10, <1>11, <1>12, <1>14, <1>15, <1>16, <1>21, LoudStep DEF OwnInv

-----------------------------------------------------------------------------
(* Steps that write a name.                                                *)

\* A step that writes one entry.
LEMMA DiskStep ==
  ASSUME FsInv, NEW j \in Inums, NEW n \in Names, NEW v \in 0..NINODES, EntsStep(j, n, v), TypesSame,
         v # 0 => dinode[v].type # "free",
         \A k \in Inums : dinode'[k].type = "dir" /\ dinode'[k].nlink > 0 => dinode'[k].ents["."] = k,
         \A k \in Inums : dinode[k].type = "free" => dinode'[k] = dinode[k]
  PROVE  DiskInv'
  <1>1. TypeInv /\ DiskInv
    BY DEF FsInv
  <1>2. ROOTINO \in Inums
    BY Consts DEF Inums, ROOTINO
  <1>3. dinode'[ROOTINO].type = "dir"
    BY <1>1, <1>2 DEF DiskInv, TypesSame
  <1>4. ASSUME NEW k \in Inums
        PROVE  /\ dinode'[k].type = "free" => dinode'[k] = NewInode("free")
               /\ dinode'[k].type = "dir" /\ dinode'[k].nlink > 0 => dinode'[k].ents["."] = k
               /\ \A m \in Names : dinode'[k].ents[m] # 0 => dinode'[dinode'[k].ents[m]].type # "free"
    <2>1. dinode'[k].type = "free" => dinode'[k] = NewInode("free")
      BY <1>1 DEF DiskInv, TypesSame
    <2>2. ASSUME NEW m \in Names, dinode'[k].ents[m] # 0
          PROVE  dinode'[dinode'[k].ents[m]].type # "free"
      <3>1. CASE k = j /\ m = n
        <4>1. dinode'[k].ents[m] = v /\ v \in Inums
          BY <2>2, <3>1, Consts DEF EntsStep, Inums
        <4> QED BY <2>2, <4>1 DEF TypesSame
      <3>2. CASE ~(k = j /\ m = n)
        <4>1. dinode'[k].ents[m] = dinode[k].ents[m]
          BY <3>2 DEF EntsStep
        <4>2. dinode[k].ents[m] \in Inums /\ dinode[dinode[k].ents[m]].type # "free"
          BY <1>1, <2>2, <4>1, EntRange DEF DiskInv
        <4> QED BY <4>1, <4>2 DEF TypesSame
      <3> QED BY <3>1, <3>2
    <2> QED BY <2>1, <2>2
  <1>5. DiskInv' <=>
          /\ dinode'[ROOTINO].type = "dir"
          /\ \A k \in Inums :
               /\ dinode'[k].type = "free" => dinode'[k] = NewInode("free")
               /\ dinode'[k].type = "dir" /\ dinode'[k].nlink > 0 => dinode'[k].ents["."] = k
               /\ \A m \in Names : dinode'[k].ents[m] # 0 => dinode'[dinode'[k].ents[m]].type # "free"
    BY DEF DiskInv, NewInode, NoEnts, ROOTINO
  <1> QED BY ONLY <1>3, <1>4, <1>5

\* A name is written for a link already counted.
LEMMA LinkNamed ==
  ASSUME FsInv, NEW p \in FsProcs, Rest(p), Stable, NEW j \in Inums, NEW n \in Names,
         NEW s \in Slots, itable[s].ref > 0, NEW i \in Inums, itable[s].inum = i,
         EntsStep(j, n, i), TypesSame, dinode[j].ents[n] = 0, dinode[i].type # "dir",
         Pending(loc[p]), ~Pending(loc'[p]), loc[p].ip = s,
         \A k \in Inums : dinode'[k].nlink = dinode[k].nlink
  PROVE  LinkInv'
  <1> SUFFICES ASSUME NEW k \in Inums PROVE LinkAt(k)'
    BY DEF LinkInv, LinkAt
  <1>1. TypeInv /\ LinkAt(k) /\ dinode[k].nlink \in Nat /\ Root(k) \in Nat /\ NamesFinite(k) /\
        Root(k)' = Root(k)
    BY LinkAtFacts DEF FsInv
  <1>2. k # 0 /\ i # 0 /\ i \in 0..NINODES
    BY Consts DEF Inums
  <1>3. /\ i = k => NamesOf(k)' = NamesOf(k) \cup {<<j, n>>}
        /\ i # k => NamesOf(k)' = NamesOf(k) \ {<<j, n>>}
        /\ <<j, n>> \notin NamesOf(k)
    BY <1>1, <1>2, NamesStep
  <1>4. Subdirs(k)' = Subdirs(k)
    <2>1. /\ k # j => Subdirs(k)' = Subdirs(k)
          /\ Subdirs(j)' = Subdirs(j) \ {n}
          /\ n \notin Subdirs(j)
      BY <1>1, <1>2, SubdirsStep
    <2> QED BY <2>1
  <1>5. Pends(k)' = Pends(k) \ {p} /\ (p \in Pends(k) <=> i = k)
    BY PendsStep, ZenonT(40)
  <1>6. CASE i = k
    <2>1. Cardinality(Pends(k))' = Cardinality(Pends(k)) - 1
      BY <1>1, <1>5, <1>6, DropOne DEF NamesFinite
    <2>2. Cardinality(NamesOf(k))' = Cardinality(NamesOf(k)) + 1
      BY <1>1, <1>3, <1>6, AddOne DEF NamesFinite
    <2> QED BY <1>1, <1>4, <2>1, <2>2 DEF LinkAt, NamesFinite
  <1>7. CASE i # k
    <2>1. Pends(k)' = Pends(k) /\ NamesOf(k)' = NamesOf(k)
      BY <1>3, <1>5, <1>7
    <2> QED BY <1>1, <1>4, <2>1 DEF LinkAt, NamesFinite
  <1> QED BY <1>6, <1>7

\* A name is erased, its link is still counted.
LEMMA LinkErased ==
  ASSUME FsInv, NEW p \in FsProcs, Rest(p), Stable, NEW j \in Inums, NEW n \in Names,
         NEW s \in Slots, itable[s].ref > 0, NEW i \in Inums, itable[s].inum = i, i # j,
         EntsStep(j, n, 0), TypesSame, dinode[j].ents[n] = i,
         ~Pending(loc[p]), Pending(loc'[p]), loc'[p].ip = s,
         dinode'[j].nlink = IF dinode[i].type = "dir" THEN dinode[j].nlink - 1 ELSE dinode[j].nlink,
         \A k \in Inums \ {j} : dinode'[k].nlink = dinode[k].nlink
  PROVE  LinkInv'
  <1> SUFFICES ASSUME NEW k \in Inums PROVE LinkAt(k)'
    BY DEF LinkInv, LinkAt
  <1>1. TypeInv /\ LinkAt(k) /\ dinode[k].nlink \in Nat /\ Root(k) \in Nat /\ NamesFinite(k) /\
        Root(k)' = Root(k)
    BY LinkAtFacts DEF FsInv
  <1>2. k # 0 /\ i # 0 /\ 0 \in 0..NINODES
    BY Consts DEF Inums
  <1>3. /\ NamesOf(k)' = NamesOf(k) \ {<<j, n>>}
        /\ <<j, n>> \in NamesOf(k) <=> i = k
    BY <1>1, <1>2, NamesStep
  <1>4. /\ k # j => Subdirs(k)' = Subdirs(k)
        /\ Subdirs(j)' = Subdirs(j) \ {n}
        /\ n \in Subdirs(j) <=> dinode[i].type = "dir"
    BY <1>1, <1>2, SubdirsStep
  <1>5. /\ i = k => Pends(k)' = Pends(k) \cup {p} /\ p \notin Pends(k)
        /\ i # k => Pends(k)' = Pends(k)
    BY PendsStep
  <1>6. CASE i = k
    <2>1. Cardinality(Pends(k))' = Cardinality(Pends(k)) + 1
      BY <1>1, <1>5, <1>6, AddOne DEF NamesFinite
    <2>2. Cardinality(NamesOf(k))' = Cardinality(NamesOf(k)) - 1
      BY <1>1, <1>3, <1>6, DropOne DEF NamesFinite
    <2>3. Subdirs(k)' = Subdirs(k) /\ dinode'[k].nlink = dinode[k].nlink
      BY <1>4, <1>6
    <2> QED BY <1>1, <2>1, <2>2, <2>3 DEF LinkAt, NamesFinite
  <1>7. CASE i # k
    <2>1. Pends(k)' = Pends(k) /\ NamesOf(k)' = NamesOf(k)
      BY <1>3, <1>5, <1>7
    <2>2. CASE k = j /\ dinode[i].type = "dir"
      <3>1. Cardinality(Subdirs(k))' = Cardinality(Subdirs(k)) - 1
        BY <1>1, <1>4, <2>2, DropOne DEF NamesFinite
      <3>2. dinode'[k].nlink = dinode[k].nlink - 1
        BY <2>2
      <3> QED BY <1>1, <2>1, <3>1, <3>2 DEF LinkAt, NamesFinite
    <2>3. CASE ~(k = j /\ dinode[i].type = "dir")
      <3>1. Subdirs(k)' = Subdirs(k) /\ dinode'[k].nlink = dinode[k].nlink
        BY <1>4, <2>3
      <3> QED BY <1>1, <2>1, <3>1 DEF LinkAt, NamesFinite
    <2> QED BY <2>2, <2>3
  <1> QED BY <1>6, <1>7

\* A new inode gets its first name.
LEMMA LinkCreated ==
  ASSUME FsInv, NEW p \in FsProcs, Rest(p), Stable, NEW j \in Inums, NEW n \in Names, NEW i \in Inums, i # j,
         EntsStep(j, n, i), TypesSame, dinode[j].ents[n] = 0,
         ~Pending(loc[p]), ~Pending(loc'[p]), dinode[i].nlink = 0, dinode'[i].nlink = 1,
         dinode'[j].nlink = IF dinode[i].type = "dir" THEN dinode[j].nlink + 1 ELSE dinode[j].nlink,
         \A k \in Inums \ {i, j} : dinode'[k].nlink = dinode[k].nlink
  PROVE  LinkInv'
  <1> SUFFICES ASSUME NEW k \in Inums PROVE LinkAt(k)'
    BY DEF LinkInv, LinkAt
  <1>1. TypeInv /\ LinkAt(k) /\ dinode[k].nlink \in Nat /\ Root(k) \in Nat /\ NamesFinite(k) /\
        Root(k)' = Root(k)
    BY LinkAtFacts DEF FsInv
  <1>2. k # 0 /\ i # 0 /\ i \in 0..NINODES
    BY Consts DEF Inums
  <1>3. /\ i = k => NamesOf(k)' = NamesOf(k) \cup {<<j, n>>}
        /\ i # k => NamesOf(k)' = NamesOf(k) \ {<<j, n>>}
        /\ <<j, n>> \notin NamesOf(k)
    BY <1>1, <1>2, NamesStep
  <1>4. /\ k # j => Subdirs(k)' = Subdirs(k)
        /\ dinode[i].type = "dir" => Subdirs(j)' = Subdirs(j) \cup {n}
        /\ dinode[i].type # "dir" => Subdirs(j)' = Subdirs(j) \ {n}
        /\ n \notin Subdirs(j)
    BY <1>1, <1>2, SubdirsStep
  <1>5. Pends(k)' = Pends(k)
    BY PendsSame DEF PendSame
  <1>6. CASE i = k
    <2>1. NamesOf(k) = {} /\ Subdirs(k) = {} /\ Pends(k) = {} /\ Root(k) = 0
      BY <1>6, NoLinks
    <2>2. Cardinality(NamesOf(k))' = Cardinality(NamesOf(k)) + 1
      BY <1>1, <1>3, <1>6, AddOne DEF NamesFinite
    <2>3. Cardinality(NamesOf(k)) = 0 /\ Cardinality(Subdirs(k)) = 0 /\ Cardinality(Pends(k)) = 0
      BY <2>1, FS_EmptySet
    <2>4. Subdirs(k)' = Subdirs(k) /\ dinode'[k].nlink = 1
      BY <1>4, <1>6
    <2> QED BY <1>1, <1>5, <2>1, <2>2, <2>3, <2>4 DEF LinkAt
  <1>7. CASE i # k
    <2>1. NamesOf(k)' = NamesOf(k)
      BY <1>3, <1>7
    <2>2. CASE k = j /\ dinode[i].type = "dir"
      <3>1. Cardinality(Subdirs(k))' = Cardinality(Subdirs(k)) + 1
        BY <1>1, <1>4, <2>2, AddOne DEF NamesFinite
      <3>2. dinode'[k].nlink = dinode[k].nlink + 1
        BY <2>2
      <3> QED BY <1>1, <1>5, <2>1, <3>1, <3>2 DEF LinkAt, NamesFinite
    <2>3. CASE ~(k = j /\ dinode[i].type = "dir")
      <3>1. Subdirs(k)' = Subdirs(k) /\ dinode'[k].nlink = dinode[k].nlink
        BY <1>4, <1>7, <2>3
      <3> QED BY <1>1, <1>5, <2>1, <3>1 DEF LinkAt, NamesFinite
    <2> QED BY <2>2, <2>3
  <1> QED BY <1>6, <1>7

\* What dirlink does to a directory.
LEMMA DirlinkFields ==
  ASSUME NEW d \in Dinode, NEW n \in Names \cup {".", ".."}, NEW v \in 0..NINODES, NEW e, e = dirlink(d, n, v)
  PROVE  /\ e \in Dinode /\ e.type = d.type /\ e.nlink = d.nlink
         /\ e.ents \in [Names \cup {".", ".."} -> 0..NINODES]
         /\ e.ents[n] = v
         /\ \A m \in (Names \cup {".", ".."}) \ {n} : e.ents[m] = d.ents[m]
  <1>1. PICK ents, h : ents = [d.ents EXCEPT ![n] = v] /\ h = IF d.holes > 0 THEN d.holes - 1 ELSE 0
    OBVIOUS
  <1>2. d.ents \in [Names \cup {".", ".."} -> 0..NINODES] /\ d.holes \in Nat
    BY DEF Dinode
  <1>3. ents \in [Names \cup {".", ".."} -> 0..NINODES] /\ h \in Nat
    BY <1>1, <1>2
  <1>4. e = [d EXCEPT !.ents = ents, !.holes = h]
    BY <1>1 DEF dirlink, Dinode
  <1>5. e \in Dinode /\ e.type = d.type /\ e.nlink = d.nlink /\ e.ents = ents
    BY <1>3, <1>4 DEF Dinode
  <1> QED BY <1>1, <1>2, <1>3, <1>5

\* Where no name is free, "." is not.
LEMMA DotTaken ==
  ASSUME NEW d, Node(d).type = "dir", Dot(d), itable[d].inum \in Inums, NEW n \in Comps, Node(d).ents[n] = 0
  PROVE  n \in Names
  <1>1. itable[d].inum # 0
    BY DEF Inums
  <1> QED BY <1>1 DEF Dot, Comps

\* A dirlink of an inode that is in use.
LEMMA DirlinkStep ==
  ASSUME FsInv, NEW d \in Slots, itable[d].ref > 0, Node(d).type = "dir", Dot(d),
         NEW n \in Names, NEW i \in Inums, dinode[i].type # "free",
         itable' = [itable EXCEPT ![d] = Loaded(d)],
         NEW j, j = itable[d].inum, dinode' = [dinode EXCEPT ![j] = dirlink(@, n, i)]
  PROVE  /\ itable' \in [Slots -> Entry] /\ dinode' \in [Inums -> Dinode] /\ j \in Inums
         /\ Stable /\ RefsSame /\ CohInv' /\ DiskInv' /\ DotsSame /\ TypesSame /\ EntsStep(j, n, i)
         /\ \A k \in Inums : dinode'[k].nlink = dinode[k].nlink
         /\ \A k \in Inums \ {j} : dinode'[k] = dinode[k]
  <1>1. TypeInv /\ CohInv /\ DiskInv
    BY DEF FsInv
  <1>2. j \in Inums /\ dinode[j] \in Dinode /\ Loaded(d).type # "free"
    BY <1>1, LoadFacts DEF Node
  <1>3. TabStep /\ RefsSame
    BY <1>1, <1>2, StepLoad
  <1>4. PICK e : e = dirlink(dinode[j], n, i)
    OBVIOUS
  <1>5. i \in 0..NINODES
    BY DEF Inums
  <1>6. /\ e \in Dinode /\ e.type = dinode[j].type /\ e.nlink = dinode[j].nlink /\ e.ents[n] = i
        /\ \A m \in (Names \cup {".", ".."}) \ {n} : e.ents[m] = dinode[j].ents[m]
    BY <1>2, <1>4, <1>5, DirlinkFields
  <1>7. dinode' = [dinode EXCEPT ![j] = e]
    BY <1>4
  <1>8. dinode' \in [Inums -> Dinode] /\ dinode'[j] = e /\ \A k \in Inums \ {j} : dinode'[k] = dinode[k]
    BY <1>1, <1>2, <1>6, <1>7 DEF TypeInv
  <1>9. n # "."
    BY Consts
  <1>10. DotsSame /\ TypesSame /\ \A k \in Inums : dinode'[k].nlink = dinode[k].nlink
    BY <1>6, <1>8, <1>9 DEF DotsSame, TypesSame
  <1>11. EntsStep(j, n, i)
    BY <1>2, <1>6, <1>8 DEF EntsStep
  <1>12. CohInv'
    BY <1>3, <1>10 DEF TabStep, TypesSame, CohInv, Coh
  <1>13. DiskInv'
    <2>1. \A k \in Inums : dinode'[k].type = "dir" /\ dinode'[k].nlink > 0 => dinode'[k].ents["."] = k
      <3> SUFFICES ASSUME NEW k \in Inums, dinode'[k].type = "dir", dinode'[k].nlink > 0
                   PROVE  dinode'[k].ents["."] = k
        OBVIOUS
      <3>1. dinode[k].type = "dir" /\ dinode[k].nlink > 0 /\ dinode'[k].ents["."] = dinode[k].ents["."]
        BY <1>10 DEF DotsSame
      <3> QED BY <1>1, <3>1 DEF DiskInv
    <2>2. \A k \in Inums : dinode[k].type = "free" => dinode'[k] = dinode[k]
      BY <1>8 DEF Node
    <2> QED BY <1>2, <1>5, <1>10, <1>11, <2>1, <2>2, DiskStep
  <1> QED BY <1>2, <1>3, <1>8, <1>10, <1>11, <1>12, <1>13 DEF TabStep

\* The frame of a step that writes to the directory d, which nobody else has locked.
LEMMA DirFrame ==
  ASSUME FsInv, NEW p \in FsProcs, NEW d \in Slots, itable[d].ref > 0, Stable, DotsSame, NewOk(p),
         NEW x \in Ptrs, x[1] = p, x[2] # "vic", To(x) = d, ilk[d] \in {p, NoProc},
         \A j \in Inums \ {itable[d].inum} : dinode'[j] = dinode[j]
  PROVE  FrameA(p) /\ FrameB(p) /\ FrameC(p)
  <1>1. FrameA(p)
    BY FrameOfA
  <1>2. \A u \in Slots : itable[u].ref > 0 /\ u # d => dinode'[itable[u].inum] = dinode[itable[u].inum]
    BY DEF FsInv, CohInv, Coh
  <1>3. FrameB(p)
    BY <1>2, FrameOfB DEF Touches
  <1>4. FrameC(p)
    <2> SUFFICES ASSUME NEW u \in Slots, ilk[u] \in FsProcs \ {p}
                 PROVE  /\ itable'[u].inum = itable[u].inum
                        /\ dinode'[itable[u].inum].ents = dinode[itable[u].inum].ents
      BY DEF FrameC
    <2>1. u # d /\ itable[u].ref > 0
      BY Consts, LockUsed
    <2> QED BY <1>2, <2>1 DEF Stable
  <1> QED BY <1>1, <1>3, <1>4

\* link writes the name.
LEMMA LinkWrites ==
  ASSUME FsInv, NEW p \in FsProcs, loc[p].pc = "link2", Node(loc[p].dp).ents[loc[p].name] = 0,
         ilk[loc[p].dp] = NoProc,
         itable' = [itable EXCEPT ![loc[p].dp] = Loaded(loc[p].dp)],
         dinode' = [dinode EXCEPT ![itable[loc[p].dp].inum] = dirlink(@, loc[p].name, itable[loc[p].ip].inum)],
         Go(p, PutDpOf(loc[p], "link3")),
         UNCHANGED <<ftable, ofile, cwd, ilk>>
  PROVE  FsInv'
  <1> DEFINE l == loc[p]
             r == loc'[p]
  <1>1. TypeInv /\ RefInv /\ CohInv /\ FilesInv /\ ShapeP(p) /\ LockP(p) /\ LiveP(p) /\ KnowP(p)
    BY DEF FsInv, ProcInv
  <1>2. Place(l) = l.pc /\ l.vic = 0 /\ To(<<p, "vic">>) = 0 /\ l.pc # "ifree" /\ l.pc \notin Putting
    BY Unput DEF Putting
  <1>3. l.pc = "link2" /\ l.cur = 0 /\ l.dp # 0 /\ l.ip # 0 /\ cwd[p] # 0 /\ l.name \in Comps
    BY <1>1, <1>2 DEF ShapeP, Shape, HasIp, Creating, Putting, Conts, Walks, Finds, Parents,
       DpOnly, IpDp, IpOnly
  <1>17. PICK d, s, i, j, n : d = l.dp /\ s = l.ip /\ i = itable[s].inum /\ j = itable[d].inum /\ n = l.name
    OBVIOUS
  <1>18. /\ d \in Slots /\ itable[d].ref > 0 /\ j \in Inums /\ Dot(d) /\ Node(d).type = "dir"
         /\ s \in Slots /\ itable[s].ref > 0 /\ i \in Inums /\ dinode[i].type # "free" /\
            dinode[i].type # "dir"
    <2>1. d \in OldOk(p) /\ s \in OldOk(p)
      BY <1>3, <1>17 DEF OldOk
    <2>2. Linking(l)
      BY <1>2, <1>3 DEF Linking
    <2>3. Node(d).type = "dir" /\ Node(s).type # "dir"
      BY <1>1, <1>3, <1>17, <2>2 DEF KnowP
    <2> QED BY <1>17, <2>1, <2>3, OldOkFacts DEF Live, Node
  <1>20. n \in Names /\ dinode[j].ents[n] = 0
    BY <1>3, <1>17, <1>18, DotTaken DEF Node
  <1>21. /\ itable' \in [Slots -> Entry] /\ dinode' \in [Inums -> Dinode]
         /\ Stable /\ RefsSame /\ CohInv' /\ DiskInv' /\ DotsSame /\ TypesSame /\ EntsStep(j, n, i)
         /\ \A k \in Inums : dinode'[k].nlink = dinode[k].nlink
         /\ \A k \in Inums \ {j} : dinode'[k] = dinode[k]
    <2>1. itable' = [itable EXCEPT ![d] = Loaded(d)] /\
          dinode' = [dinode EXCEPT ![j] = dirlink(@, n, i)] /\ j = itable[d].inum
      BY <1>17
    <2> QED BY ONLY FsInv, <1>18, <1>20, <2>1, DirlinkStep
  <1>4. /\ loc' = [loc EXCEPT ![p] = r] /\ l \in LocType /\ Rest(p) /\ FileOf(p)' = FileOf(p) /\ FilesInv'
        /\ r = PutDpOf(l, "link3")
    BY <1>1, <1>3, GoFacts, RestSame
  <1> HIDE DEF l, r
  <1>5. /\ r \in LocType
        /\ r.pc = "iput" /\ r.call = l.call /\ r.name = l.name /\ r.rest = l.rest
        /\ r.new = l.new /\ r.cur = l.cur /\ r.ip = l.ip /\ r.dp = 0
        /\ r.vic = l.dp /\ r.parent = l.parent /\ r.k = "link3" /\ r.nk = l.nk
    <2>1. "link3" \in Conts
      BY DEF Conts
    <2> QED BY <1>4, <2>1, PutDpFields
  <1>6. Place(r) = "link3"
    BY <1>2, <1>3, <1>5 DEF Place, Putting, Finds
  <1>7. OwnTypes(p)
    BY <1>1, <1>3, <1>4, <1>5, Consts DEF OwnTypes, TypeInv, Slots, Files, l, r
  <1>8. KMoved(<<p, "dp">>, <<p, "vic">>)
    <2>1. OtherTags(p, {"dp", "vic"})
      BY <1>4, <1>5 DEF OtherTags, l, r
    <2>2. \A x \in Ptrs \ {<<p, "dp">>, <<p, "vic">>} : To(x)' = To(x)
      BY <1>4, <2>1, KindRest
    <2>3. /\ To(<<p, "dp">>) = l.dp /\ To(<<p, "dp">>)' = r.dp
          /\ To(<<p, "vic">>) = l.vic /\ To(<<p, "vic">>)' = r.vic
      BY ToTag, ToTagNext DEF l, r
    <2> QED BY <1>2, <1>3, <1>5, <2>2, <2>3, SlotPos DEF KMoved
  <1>9. RefInv' /\ NewOk(p)
    BY <1>1, <1>2, <1>8, <1>21, ToTag, RefMoved, NewMoved DEF l
  <1>10. ShapeP(p)'
    <2>1. Shape(r)
      BY <1>1, <1>2, <1>3, <1>5, <1>6, SlotPos
         DEF ShapeP, Shape, HasIp, Creating, Putting, Conts, Walks, Finds, Parents, DpOnly, IpDp, IpOnly, l
    <2> QED BY <1>1, <1>2, <1>3, <1>6, <2>1 DEF ShapeP, l, r
  <1>11. LockP(p)' /\ LockStep(p)
    BY <1>1, <1>2, <1>3, <1>5, <1>6, Consts DEF LockP, LockStep, HoldsIp, HoldsDp, TypeInv, Finds, l, r
  <1>12. LiveP(p)'
    <2>1. /\ r.cur \in {0} \cup OldOk(p) /\ r.ip \in {0} \cup OldOk(p) /\ r.dp \in {0} \cup OldOk(p)
          /\ cwd'[p] \in {0} \cup OldOk(p) /\ FileOf(p)' \in {0} \cup OldOk(p) /\ r.vic \in {0} \cup OldOk(p)
      BY <1>2, <1>3, <1>4, <1>5 DEF OldOk, l
    <2> QED BY <1>21, <2>1, OwnLiveSoft DEF r
  <1>13. ~Pending(r) /\ Pending(l)
    BY <1>1, <1>2, <1>3, <1>5, <1>6 DEF Pending, Linking, Walks, Finds, l
  <1>14. KnowP(p)'
    <2>1. r.pc \notin {"ialloc", "create3", "unlink2", "itrunc"} /\ r.dp = 0 /\ ~Linking(r)
      BY <1>3, <1>5, <1>6 DEF Linking, Walks
    <2> QED BY <2>1, OwnKnowSoft DEF r
  <1>15. FrameA(p) /\ FrameB(p) /\ FrameC(p)
    <2>1. <<p, "dp">> \in Ptrs /\ <<p, "dp">>[1] = p /\ <<p, "dp">>[2] # "vic" /\ To(<<p, "dp">>) = d
      BY <1>17, ToTag DEF l
    <2>2. ilk[d] \in {p, NoProc}
      BY <1>17 DEF l
    <2> QED BY <1>9, <1>17, <1>18, <1>21, <2>1, <2>2, DirFrame
  <1>16. LinkInv'
    <2>1. Pending(loc[p]) /\ ~Pending(loc'[p])
      BY <1>13 DEF l, r
    <2>2. loc[p].ip = s
      BY <1>17 DEF l
    <2> QED BY <1>4, <1>17, <1>18, <1>20, <1>21, <2>1, <2>2, LinkNamed
  <1> QED BY <1>4, <1>7, <1>9, <1>10, <1>11, <1>12, <1>14, <1>15, <1>16, <1>21, LoudStep DEF OwnInv

\* What unlink does to a directory.
LEMMA ErasedFields ==
  ASSUME NEW d \in Dinode, NEW n \in Names, NEW dir, NEW c \in Nat,
         c = IF dir THEN d.nlink - 1 ELSE d.nlink, NEW e, e = erase(d, n, dir)
  PROVE  /\ e \in Dinode /\ e.type = d.type /\ e.nlink = c /\ e.ents[n] = 0
         /\ \A m \in (Names \cup {".", ".."}) \ {n} : e.ents[m] = d.ents[m]
  <1>1. d.ents \in [Names \cup {".", ".."} -> 0..NINODES] /\ 0 \in 0..NINODES /\ d.holes + 1 \in Nat
    BY Consts DEF Dinode
  <1>2. PICK ents : ents = [d.ents EXCEPT ![n] = 0]
    OBVIOUS
  <1>3. /\ ents \in [Names \cup {".", ".."} -> 0..NINODES] /\ ents[n] = 0
        /\ \A m \in (Names \cup {".", ".."}) \ {n} : ents[m] = d.ents[m]
    BY <1>1, <1>2
  <1>4. e = [d EXCEPT !.ents = ents, !.holes = d.holes + 1, !.nlink = c]
    BY <1>2 DEF Dinode, erase
  <1>5. e.ents = ents /\ e.type = d.type /\ e.nlink = c /\ e \in Dinode
    BY ONLY <1>1, <1>3, <1>4, d \in Dinode, c \in Nat DEF Dinode
  <1> QED BY <1>3, <1>5

\* unlink erases an entry.
LEMMA UnlinkFromStep ==
  ASSUME FsInv, NEW d \in Slots, NEW s \in Slots, d # s, itable[d].ref > 0, itable[s].ref > 0,
         Node(d).type = "dir", Live(s), NEW n \in Names,
         NEW i, i = itable[s].inum, NEW j, j = itable[d].inum, dinode[j].ents[n] = i, UnlinkFrom(d, s, n)
  PROVE  /\ itable' \in [Slots -> Entry] /\ dinode' \in [Inums -> Dinode] /\ i # j
         /\ Stable /\ RefsSame /\ CohInv' /\ DiskInv' /\ DotsSame /\ TypesSame /\ EntsStep(j, n, 0)
         /\ dinode'[j].nlink = IF dinode[i].type = "dir" THEN dinode[j].nlink - 1 ELSE dinode[j].nlink
         /\ \A k \in Inums \ {j} : dinode'[k] = dinode[k]
  <1>1. TypeInv /\ CohInv /\ DiskInv
    BY DEF FsInv
  <1>2. PICK e, f, dn : e = Loaded(s) /\ f = itable[d] /\ dn = dinode[j]
    OBVIOUS
  <1>3. /\ e \in Entry /\ e.inum = i /\ e.ref = itable[s].ref /\ e.valid
        /\ e.type = dinode[i].type /\ e.nlink = dinode[i].nlink /\ e.type # "free"
        /\ i \in Inums /\ j \in Inums /\ i # j /\ f \in Entry /\ dn \in Dinode /\ dn.type = "dir"
    <2>1. i \in Inums /\ j \in Inums /\ i # j /\ f \in Entry
      BY <1>1, <1>2 DEF CohInv, Coh, TypeInv
    <2> QED BY <1>1, <1>2, <2>1, LoadFacts DEF Node, Live, TypeInv
  <1>4. PICK c, c2 : /\ c = (IF dinode[i].type = "dir" THEN dn.nlink - 1 ELSE dn.nlink)
                     /\ c2 = (IF dinode[i].type = "dir" THEN f.nlink - 1 ELSE f.nlink)
    OBVIOUS
  <1>5. c \in Nat /\ c <= dn.nlink
    <2>1. dn.nlink \in Nat
      BY <1>3 DEF Dinode
    <2>2. dinode[i].type = "dir" => n \in Subdirs(j)
      <3>1. i # 0
        BY <1>3, Consts DEF Inums
      <3> QED BY <1>2, <3>1 DEF Subdirs
    <2>3. dinode[i].type = "dir" => dn.nlink # 0
      BY <1>2, <1>3, <2>2, NoLinks
    <2> QED BY <1>4, <2>1, <2>3
  <1>6. PICK f2 : f2 = [f EXCEPT !.nlink = c2]
    OBVIOUS
  <1>7. /\ f2 \in Entry /\ f2.inum = f.inum /\ f2.ref = f.ref /\ f2.valid = f.valid /\ f2.type = f.type
        /\ f2.nlink = c2
    BY <1>3, <1>4, <1>6 DEF Entry
  <1>8. PICK d2 : d2 = erase(dn, n, Loaded(s).type = "dir")
    OBVIOUS
  <1>11. /\ d2 \in Dinode /\ d2.type = "dir" /\ d2.nlink = c /\ d2.ents[n] = 0
         /\ \A m \in (Names \cup {".", ".."}) \ {n} : d2.ents[m] = dn.ents[m]
    <2>1. PICK t : t = (Loaded(s).type = "dir")
      OBVIOUS
    <2>2. c = IF t THEN dn.nlink - 1 ELSE dn.nlink
      BY <1>2, <1>3, <1>4, <2>1
    <2>3. d2 = erase(dn, n, t)
      BY ONLY <1>8, <2>1
    <2> QED BY ONLY <1>3, <1>5, <2>2, <2>3, n \in Names, ErasedFields
  <1>12. itable' = [itable EXCEPT ![s] = e, ![d] = f2] /\ dinode' = [dinode EXCEPT ![j] = d2]
    <2>1. Loaded(s).type = "dir" <=> dinode[i].type = "dir"
      BY <1>2, <1>3
    <2>2. itable' = [itable EXCEPT ![s] = Loaded(s), ![d].nlink = IF Loaded(s).type = "dir" THEN @ - 1 ELSE @]
      BY DEF UnlinkFrom
    <2>3. /\ itable \in [Slots -> Entry] /\ dinode \in [Inums -> Dinode]
      BY <1>1 DEF TypeInv
    <2>4. itable' = [itable EXCEPT ![s] = e, ![d] = [f EXCEPT !.nlink = IF Loaded(s).type = "dir" THEN f.nlink - 1 ELSE f.nlink]]
      BY <1>2, <2>2, <2>3
    <2>5. c2 = IF Loaded(s).type = "dir" THEN f.nlink - 1 ELSE f.nlink
      BY <1>4, <2>1
    <2>7. dinode' = [dinode EXCEPT ![itable[d].inum] = erase(dinode[itable[d].inum], n, Loaded(s).type = "dir")]
      BY DEF UnlinkFrom
    <2>8. dinode' = [dinode EXCEPT ![j] = d2]
      BY ONLY <1>2, <1>8, <2>7, j = itable[d].inum
    <2>9. itable' = [itable EXCEPT ![s] = e, ![d] = f2]
      BY ONLY <1>6, <2>4, <2>5
    <2> QED BY ONLY <2>8, <2>9
  <1>13. /\ itable' \in [Slots -> Entry] /\ itable'[s] = e /\ itable'[d] = f2
         /\ \A u \in Slots \ {s, d} : itable'[u] = itable[u]
    BY <1>1, <1>3, <1>7, <1>12 DEF TypeInv
  <1>14. dinode' \in [Inums -> Dinode] /\ dinode'[j] = d2 /\ \A k \in Inums \ {j} : dinode'[k] = dinode[k]
    BY <1>1, <1>3, <1>11, <1>12 DEF TypeInv
  <1>15. n # "."
    BY Consts
  <1>16. Stable /\ RefsSame
    BY <1>2, <1>3, <1>7, <1>13 DEF Stable, RefsSame
  <1>17. DotsSame /\ TypesSame
    BY <1>2, <1>3, <1>11, <1>14, <1>15 DEF DotsSame, TypesSame
  <1>18. EntsStep(j, n, 0)
    BY <1>2, <1>3, <1>11, <1>14 DEF EntsStep
  <1>19. CohInv'
    <2> SUFFICES ASSUME NEW u \in Slots, itable'[u].ref > 0
                 PROVE  /\ itable'[u].inum \in Inums
                        /\ \A w \in Slots \ {u} : itable'[w].ref > 0 => itable'[w].inum # itable'[u].inum
                        /\ itable'[u].valid => /\ itable'[u].type = dinode'[itable'[u].inum].type
                                               /\ itable'[u].nlink = dinode'[itable'[u].inum].nlink
                                               /\ itable'[u].type # "free"
      BY DEF CohInv, Coh
    <2>1. /\ \A w \in Slots : itable'[w].ref = itable[w].ref
          /\ \A w \in Slots : itable[w].ref > 0 => itable'[w].inum = itable[w].inum
      BY <1>16 DEF Stable, RefsSame
    <2>2. /\ itable'[u].inum \in Inums
          /\ \A w \in Slots \ {u} : itable'[w].ref > 0 => itable'[w].inum # itable'[u].inum
      BY <1>1, <2>1 DEF CohInv, Coh
    <2>3. CASE u = s
      BY <1>3, <1>13, <1>14, <2>2, <2>3
    <2>4. CASE u = d
      BY <1>1, <1>2, <1>3, <1>4, <1>7, <1>11, <1>13, <1>14, <2>1, <2>2, <2>4 DEF CohInv, Coh
    <2>5. CASE u \notin {s, d}
      <3>1. itable'[u] = itable[u] /\ itable[u].inum # j
        BY <1>1, <1>13, <2>1, <2>5 DEF CohInv, Coh
      <3> QED BY <1>1, <1>14, <2>1, <2>2, <3>1 DEF CohInv, Coh
    <2> QED BY <2>3, <2>4, <2>5
  <1>20. DiskInv'
    <2>1. \A k \in Inums : dinode'[k].type = "dir" /\ dinode'[k].nlink > 0 => dinode'[k].ents["."] = k
      <3> SUFFICES ASSUME NEW k \in Inums, dinode'[k].type = "dir", dinode'[k].nlink > 0
                   PROVE  dinode'[k].ents["."] = k
        OBVIOUS
      <3>1. dn.nlink \in Nat
        BY <1>3 DEF Dinode
      <3>2. dinode[k].type = "dir" /\ dinode[k].nlink > 0 /\ dinode'[k].ents["."] = dinode[k].ents["."]
        BY <1>2, <1>3, <1>5, <1>11, <1>14, <1>17, <3>1 DEF DotsSame
      <3> QED BY <1>1, <3>2 DEF DiskInv
    <2>2. \A k \in Inums : dinode[k].type = "free" => dinode'[k] = dinode[k]
      BY <1>2, <1>3, <1>14
    <2>3. 0 \in 0..NINODES
      BY Consts
    <2> QED BY <1>3, <1>17, <1>18, <2>1, <2>2, <2>3, DiskStep
  <1> QED BY <1>2, <1>3, <1>4, <1>11, <1>13, <1>14, <1>16, <1>17, <1>18, <1>19, <1>20

\* unlink erases the name.
LEMMA UnlinkErases ==
  ASSUME FsInv, NEW p \in FsProcs, loc[p].pc = "unlink2", ilk[loc[p].ip] = NoProc,
         UnlinkFrom(loc[p].dp, loc[p].ip, loc[p].name),
         Go(p, PutDpOf(loc[p], "unlink3")),
         UNCHANGED <<ftable, ofile, cwd>>,
         ilk' = [ilk EXCEPT ![loc[p].ip] = p, ![loc[p].dp] = NoProc]
  PROVE  FsInv'
  <1> DEFINE l == loc[p]
             r == loc'[p]
  <1>1. TypeInv /\ RefInv /\ CohInv /\ FilesInv /\ ShapeP(p) /\ LockP(p) /\ LiveP(p) /\ KnowP(p)
    BY DEF FsInv, ProcInv
  <1>2. Place(l) = l.pc /\ l.vic = 0 /\ To(<<p, "vic">>) = 0 /\ l.pc # "ifree" /\ l.pc \notin Putting
    BY Unput DEF Putting
  <1>3. l.pc = "unlink2" /\ l.cur = 0 /\ l.dp # 0 /\ l.ip # 0 /\ cwd[p] # 0 /\ l.name \in Names
    BY <1>1, <1>2 DEF ShapeP, Shape, HasIp, Creating, Putting, Conts, Walks, Finds, Parents,
       DpOnly, IpDp, IpOnly
  <1>17. PICK d, s, i, j, n : d = l.dp /\ s = l.ip /\ i = itable[s].inum /\ j = itable[d].inum /\ n = l.name
    OBVIOUS
  <1>18. /\ d \in Slots /\ itable[d].ref > 0 /\ j \in Inums /\ Dot(d) /\ Node(d).type = "dir" /\ Live(s)
         /\ s \in Slots /\ itable[s].ref > 0 /\ i \in Inums /\ ilk[d] = p /\ d # s
    <2>1. d \in OldOk(p) /\ s \in OldOk(p)
      BY <1>3, <1>17 DEF OldOk
    <2>2. Node(d).type = "dir"
      BY <1>1, <1>3, <1>17 DEF KnowP
    <2>3. ilk[d] = p /\ ilk[s] = NoProc
      BY <1>1, <1>2, <1>3, <1>17 DEF LockP, HoldsDp, l
    <2> QED BY <1>17, <2>1, <2>2, <2>3, OldOkFacts, Consts
  <1>20. n \in Names /\ dinode[j].ents[n] = i
    BY <1>1, <1>3, <1>17 DEF KnowP, Node, l
  <1>21. /\ itable' \in [Slots -> Entry] /\ dinode' \in [Inums -> Dinode] /\ i # j
         /\ Stable /\ RefsSame /\ CohInv' /\ DiskInv' /\ DotsSame /\ TypesSame /\ EntsStep(j, n, 0)
         /\ dinode'[j].nlink = IF dinode[i].type = "dir" THEN dinode[j].nlink - 1 ELSE dinode[j].nlink
         /\ \A k \in Inums \ {j} : dinode'[k] = dinode[k]
    <2>1. UnlinkFrom(d, s, n) /\ j = itable[d].inum /\ i = itable[s].inum
      BY <1>17 DEF l
    <2> QED BY ONLY FsInv, <1>18, <1>20, <2>1, UnlinkFromStep
  <1>4. /\ loc' = [loc EXCEPT ![p] = r] /\ l \in LocType /\ Rest(p) /\ FileOf(p)' = FileOf(p) /\ FilesInv'
        /\ r = PutDpOf(l, "unlink3")
    BY <1>1, <1>3, GoFacts, RestSame
  <1> HIDE DEF l, r
  <1>5. /\ r \in LocType
        /\ r.pc = "iput" /\ r.call = l.call /\ r.name = l.name /\ r.rest = l.rest
        /\ r.new = l.new /\ r.cur = l.cur /\ r.ip = l.ip /\ r.dp = 0
        /\ r.vic = l.dp /\ r.parent = l.parent /\ r.k = "unlink3" /\ r.nk = l.nk
    <2>1. "unlink3" \in Conts
      BY DEF Conts
    <2> QED BY <1>4, <2>1, PutDpFields
  <1>6. Place(r) = "unlink3"
    BY <1>2, <1>3, <1>5 DEF Place, Putting, Finds
  <1>7. OwnTypes(p)
    BY <1>1, <1>3, <1>4, <1>5, Consts DEF OwnTypes, TypeInv, Slots, Files, l, r
  <1>8. KMoved(<<p, "dp">>, <<p, "vic">>)
    <2>1. OtherTags(p, {"dp", "vic"})
      BY <1>4, <1>5 DEF OtherTags, l, r
    <2>2. \A x \in Ptrs \ {<<p, "dp">>, <<p, "vic">>} : To(x)' = To(x)
      BY <1>4, <2>1, KindRest
    <2>3. /\ To(<<p, "dp">>) = l.dp /\ To(<<p, "dp">>)' = r.dp
          /\ To(<<p, "vic">>) = l.vic /\ To(<<p, "vic">>)' = r.vic
      BY ToTag, ToTagNext DEF l, r
    <2> QED BY <1>2, <1>3, <1>5, <2>2, <2>3, SlotPos DEF KMoved
  <1>9. RefInv' /\ NewOk(p)
    BY <1>1, <1>2, <1>8, <1>21, ToTag, RefMoved, NewMoved DEF l
  <1>10. ShapeP(p)'
    <2>1. Shape(r)
      BY <1>1, <1>2, <1>3, <1>5, <1>6, SlotPos
         DEF ShapeP, Shape, HasIp, Creating, Putting, Conts, Walks, Finds, Parents, DpOnly, IpDp, IpOnly, l
    <2> QED BY <1>1, <1>2, <1>3, <1>6, <2>1 DEF ShapeP, l, r
  <1>11. LockP(p)' /\ LockStep(p)
    <2>1. \A u \in Slots : ilk'[u] = IF u = l.ip THEN p ELSE IF u = l.dp THEN NoProc ELSE ilk[u]
      BY <1>1, <1>17, <1>18 DEF TypeInv, l
    <2>2. ilk[l.dp] = p /\ ilk[l.ip] = NoProc /\ \A u \in Slots \ {l.dp} : ilk[u] # p
      BY <1>1, <1>2, <1>3 DEF LockP, HoldsIp, HoldsDp, l
    <2>3. LockStep(p)
      BY <2>1, <2>2 DEF LockStep
    <2>4. l.ip \in Slots
      BY <1>17, <1>18
    <2> QED BY <1>5, <1>6, <2>1, <2>2, <2>3, <2>4, Consts DEF LockP, HoldsIp, HoldsDp, r
  <1>12. LiveP(p)'
    <2>1. /\ r.cur \in {0} \cup OldOk(p) /\ r.ip \in {0} \cup OldOk(p) /\ r.dp \in {0} \cup OldOk(p)
          /\ cwd'[p] \in {0} \cup OldOk(p) /\ FileOf(p)' \in {0} \cup OldOk(p) /\ r.vic \in {0} \cup OldOk(p)
      BY <1>2, <1>3, <1>4, <1>5 DEF OldOk, l
    <2> QED BY <1>21, <2>1, OwnLiveSoft DEF r
  <1>13. Pending(r) /\ ~Pending(l)
    BY <1>1, <1>2, <1>3, <1>5, <1>6 DEF Pending, Linking, Walks, Finds, l
  <1>14. KnowP(p)'
    <2>1. r.pc \notin {"ialloc", "create3", "unlink2", "itrunc"} /\ r.dp = 0 /\ ~Linking(r)
      BY <1>3, <1>5, <1>6 DEF Linking, Walks
    <2> QED BY <2>1, OwnKnowSoft DEF r
  <1>15. FrameA(p) /\ FrameB(p) /\ FrameC(p)
    <2>1. <<p, "dp">> \in Ptrs /\ <<p, "dp">>[1] = p /\ <<p, "dp">>[2] # "vic" /\ To(<<p, "dp">>) = d
      BY <1>17, ToTag DEF l
    <2>2. ilk[d] \in {p, NoProc}
      BY <1>18
    <2> QED BY <1>9, <1>17, <1>18, <1>21, <2>1, <2>2, DirFrame
  <1>16. LinkInv'
    <2>1. ~Pending(loc[p]) /\ Pending(loc'[p])
      BY <1>13 DEF l, r
    <2>2. loc'[p].ip = s
      BY <1>5, <1>17 DEF r
    <2>3. \A k \in Inums \ {j} : dinode'[k].nlink = dinode[k].nlink
      BY <1>21
    <2> QED BY <1>4, <1>17, <1>18, <1>20, <1>21, <2>1, <2>2, <2>3, LinkErased
  <1> QED BY <1>4, <1>7, <1>9, <1>10, <1>11, <1>12, <1>14, <1>15, <1>16, <1>21, LoudStep DEF OwnInv

\* A new directory with its own two entries.
LEMMA NewDirFields ==
  ASSUME NEW x \in Dinode, NEW i \in Inums, NEW j \in Inums,
         NEW y, y = dirlink(dirlink(x, ".", i), "..", j)
  PROVE  /\ y \in Dinode /\ y.type = x.type /\ y.ents["."] = i
         /\ \A m \in Names : y.ents[m] = x.ents[m]
  <1>1. PICK w : w = dirlink(x, ".", i)
    OBVIOUS
  <1>2. i \in 0..NINODES /\ j \in 0..NINODES /\ "." \in Names \cup {".", ".."} /\
        ".." \in Names \cup {".", ".."}
    BY Consts DEF Inums
  <1>3. /\ w \in Dinode /\ w.type = x.type /\ w.ents["."] = i
        /\ \A m \in (Names \cup {".", ".."}) \ {"."} : w.ents[m] = x.ents[m]
    BY <1>1, <1>2, DirlinkFields
  <1>4. y = dirlink(w, "..", j)
    BY <1>1
  <1>5. /\ y \in Dinode /\ y.type = w.type
        /\ \A m \in (Names \cup {".", ".."}) \ {".."} : y.ents[m] = w.ents[m]
    <2>1. PICK n : n = ".."
      OBVIOUS
    <2>2. y = dirlink(w, n, j) /\ n \in Names \cup {".", ".."}
      BY <1>4, <2>1
    <2>3. /\ y \in Dinode /\ y.type = w.type
          /\ \A m \in (Names \cup {".", ".."}) \ {n} : y.ents[m] = w.ents[m]
      BY ONLY <1>2, <1>3, <2>2, DirlinkFields
    <2> QED BY ONLY <2>1, <2>3
  <1> QED BY <1>3, <1>5, Consts

\* An inode with another link count.
LEMMA LinksFields ==
  ASSUME NEW x \in Dinode, NEW c \in Nat, NEW y, y = [x EXCEPT !.nlink = c]
  PROVE  y \in Dinode /\ y.type = x.type /\ y.ents = x.ents /\ y.nlink = c
  BY DEF Dinode

LinkNewTable(s, d, call) == [itable EXCEPT ![s] = [Loaded(s) EXCEPT !.nlink = 1],
                                           ![d].nlink = IF call = "mkdir" THEN @ + 1 ELSE @]

\* What it means that the new inode i has the name n in the directory j.
LinkNewDone(i, j, n) ==
  /\ itable' \in [Slots -> Entry] /\ dinode' \in [Inums -> Dinode] /\ i # j
  /\ Stable /\ RefsSame /\ CohInv' /\ DiskInv' /\ TypesSame /\ EntsStep(j, n, i)
  /\ dinode[i].nlink = 0 /\ dinode'[i].nlink = 1
  /\ dinode'[j].nlink = IF dinode[i].type = "dir" THEN dinode[j].nlink + 1 ELSE dinode[j].nlink
  /\ dinode'[j].ents["."] = dinode[j].ents["."]
  /\ dinode[i].type = "dir" => dinode'[i].ents["."] = i
  /\ \A k \in Inums \ {i, j} : dinode'[k] = dinode[k]

\* create writes the entries of the new inode, and its name in the parent.
LEMMA LinkNewStep ==
  ASSUME FsInv, NEW p \in FsProcs, loc[p].pc = "create3", NEW d \in Slots, NEW s \in Slots, d # s,
         d = loc[p].dp, s = loc[p].ip, NEW n \in Names, n = loc[p].name,
         itable[d].ref > 0, itable[s].ref > 0, Node(d).type = "dir", Dot(d), Live(s),
         NEW i \in Inums, i = itable[s].inum, NEW j \in Inums, j = itable[d].inum,
         dinode[i] = NewInode(NewType[loc[p].call]), loc[p].call \in Creates,
         dinode' = LinkNew(p),
         itable' = LinkNewTable(s, d, loc[p].call)
  PROVE  LinkNewDone(i, j, n)
  <1>1. TypeInv /\ CohInv /\ DiskInv
    BY DEF FsInv
  <1>2. PICK e, f, dn, x : e = Loaded(s) /\ f = itable[d] /\ dn = dinode[j] /\ x = dinode[i]
    OBVIOUS
  <1>3. /\ e \in Entry /\ e.inum = i /\ e.ref = itable[s].ref /\ e.valid
        /\ e.type = x.type /\ x.type # "free"
        /\ i # j /\ f \in Entry /\ dn \in Dinode /\ x \in Dinode /\ dn.type = "dir"
    <2>1. i # j /\ f \in Entry
      BY <1>1, <1>2 DEF CohInv, Coh, TypeInv
    <2> QED BY <1>1, <1>2, <2>1, LoadFacts DEF Node, Live, TypeInv
  <1>4. x.nlink = 0 /\ (x.type = "dir" <=> loc[p].call = "mkdir")
    <2>1. x.nlink = 0 /\ x.type = NewType[loc[p].call]
      BY <1>2 DEF NewInode
    <2>2. NewType[loc[p].call] = "dir" <=> loc[p].call = "mkdir"
      BY DEF NewType, Creates
    <2> QED BY <2>1, <2>2
  <1>5. PICK c, c2 : /\ c = (IF x.type = "dir" THEN dn.nlink + 1 ELSE dn.nlink)
                     /\ c2 = (IF x.type = "dir" THEN f.nlink + 1 ELSE f.nlink)
    OBVIOUS
  <1>6. c \in Nat /\ c2 \in Int /\ (dn.nlink > 0 => c > 0) /\ 1 \in Nat
    BY <1>3, <1>5 DEF Dinode, Entry
  <1>7. PICK par : par = dirlink(dn, n, i)
    OBVIOUS
  <1>8. /\ par \in Dinode /\ par.type = "dir" /\ par.nlink = dn.nlink /\ par.ents[n] = i
        /\ \A m \in (Names \cup {".", ".."}) \ {n} : par.ents[m] = dn.ents[m]
    <2>1. i \in 0..NINODES /\ n \in Names \cup {".", ".."}
      BY Consts DEF Inums
    <2> QED BY ONLY <1>3, <1>7, <2>1, DirlinkFields
  <1>9. PICK own : own = IF loc[p].call = "mkdir" THEN dirlink(dirlink(x, ".", i), "..", j) ELSE x
    OBVIOUS
  <1>10. /\ own \in Dinode /\ own.type = x.type /\ (x.type = "dir" => own.ents["."] = i)
         /\ \A m \in Names : own.ents[m] = x.ents[m]
    <2>1. CASE loc[p].call = "mkdir"
      <3>1. own = dirlink(dirlink(x, ".", i), "..", j)
        BY ONLY <1>9, <2>1
      <3> QED BY ONLY <1>3, <3>1, i \in Inums, j \in Inums, NewDirFields, SMTT(40)
    <2>2. CASE loc[p].call # "mkdir"
      BY <1>3, <1>4, <1>9, <2>2
    <2> QED BY <2>1, <2>2
  <1>11. PICK d2, x2, f2, e2 : /\ d2 = [par EXCEPT !.nlink = c] /\ x2 = [own EXCEPT !.nlink = 1]
                               /\ f2 = [f EXCEPT !.nlink = c2] /\ e2 = [e EXCEPT !.nlink = 1]
    OBVIOUS
  <1>12. /\ d2 \in Dinode /\ d2.type = "dir" /\ d2.nlink = c /\ d2.ents = par.ents
         /\ x2 \in Dinode /\ x2.type = x.type /\ x2.nlink = 1 /\ x2.ents = own.ents
    <2>1. d2 \in Dinode /\ d2.type = "dir" /\ d2.nlink = c /\ d2.ents = par.ents
      BY ONLY <1>6, <1>8, <1>11, LinksFields
    <2>2. x2 \in Dinode /\ x2.type = own.type /\ x2.nlink = 1 /\ x2.ents = own.ents
      BY ONLY <1>6, <1>10, <1>11, LinksFields
    <2> QED BY ONLY <1>10, <2>1, <2>2
  <1>13. /\ f2 \in Entry /\ f2.inum = f.inum /\ f2.ref = f.ref /\ f2.valid = f.valid /\
            f2.type = f.type /\ f2.nlink = c2
         /\ e2 \in Entry /\ e2.inum = i /\ e2.ref = e.ref /\ e2.type = x.type /\ e2.nlink = 1
    BY <1>3, <1>6, <1>11 DEF Entry
  <1>14. itable' = [itable EXCEPT ![s] = e2, ![d] = f2]
    <2>1. itable' = [itable EXCEPT ![s] = [e EXCEPT !.nlink = 1],
                                   ![d] = [f EXCEPT !.nlink = IF loc[p].call = "mkdir" THEN f.nlink + 1 ELSE f.nlink]]
      BY <1>1, <1>2 DEF TypeInv, LinkNewTable
    <2>2. c2 = IF loc[p].call = "mkdir" THEN f.nlink + 1 ELSE f.nlink
      BY <1>4, <1>5
    <2> QED BY ONLY <1>11, <2>1, <2>2
  <1>15. dinode' = [dinode EXCEPT ![j] = d2, ![i] = x2]
    <2>1. dinode' = [dinode EXCEPT ![j] = [par EXCEPT !.nlink = IF loc[p].call = "mkdir" THEN par.nlink + 1 ELSE par.nlink],
                                   ![i] = [own EXCEPT !.nlink = 1]]
      BY ONLY <1>2, <1>7, <1>9, dinode' = LinkNew(p), d = loc[p].dp, s = loc[p].ip, n = loc[p].name,
              i = itable[s].inum, j = itable[d].inum DEF LinkNew
    <2>2. c = IF loc[p].call = "mkdir" THEN par.nlink + 1 ELSE par.nlink
      BY <1>4, <1>5, <1>8
    <2> QED BY ONLY <1>11, <2>1, <2>2
  <1>16. /\ itable' \in [Slots -> Entry] /\ itable'[s] = e2 /\ itable'[d] = f2
         /\ \A u \in Slots \ {s, d} : itable'[u] = itable[u]
    BY <1>1, <1>13, <1>14 DEF TypeInv
  <1>17. /\ dinode' \in [Inums -> Dinode] /\ dinode'[j] = d2 /\ dinode'[i] = x2
         /\ \A k \in Inums \ {i, j} : dinode'[k] = dinode[k]
    BY <1>1, <1>3, <1>12, <1>15, SMTT(40) DEF TypeInv
  <1>18. Stable /\ RefsSame
    <2> SUFFICES ASSUME NEW u \in Slots
                 PROVE  itable'[u].ref = itable[u].ref /\ itable'[u].inum = itable[u].inum
      BY DEF Stable, RefsSame
    <2>1. CASE u = s
      BY ONLY <1>3, <1>13, <1>16, <2>1, i = itable[s].inum
    <2>2. CASE u = d
      BY ONLY <1>2, <1>13, <1>16, <2>2
    <2>3. CASE u \notin {s, d}
      BY ONLY <1>16, <2>3, u \in Slots
    <2> QED BY <2>1, <2>2, <2>3
  <1>19. TypesSame
    BY <1>2, <1>3, <1>12, <1>17 DEF TypesSame
  <1>20. EntsStep(j, n, i)
    <2> SUFFICES ASSUME NEW a \in Inums, NEW m \in Names
                 PROVE  dinode'[a].ents[m] = IF a = j /\ m = n THEN i ELSE dinode[a].ents[m]
      BY DEF EntsStep
    <2>1. CASE a = j
      BY ONLY <1>2, <1>8, <1>12, <1>17, <2>1, m \in Names, n \in Names
    <2>2. CASE a = i
      BY ONLY <1>2, <1>3, <1>10, <1>12, <1>17, <2>2, m \in Names
    <2>3. CASE a \notin {i, j}
      BY ONLY <1>17, <2>3, a \in Inums
    <2> QED BY <2>1, <2>2, <2>3
  <1>21. CohInv'
    <2> SUFFICES ASSUME NEW u \in Slots, itable'[u].ref > 0
                 PROVE  /\ itable'[u].inum \in Inums
                        /\ \A w \in Slots \ {u} : itable'[w].ref > 0 => itable'[w].inum # itable'[u].inum
                        /\ itable'[u].valid => /\ itable'[u].type = dinode'[itable'[u].inum].type
                                               /\ itable'[u].nlink = dinode'[itable'[u].inum].nlink
                                               /\ itable'[u].type # "free"
      BY DEF CohInv, Coh
    <2>1. /\ \A w \in Slots : itable'[w].ref = itable[w].ref
          /\ \A w \in Slots : itable[w].ref > 0 => itable'[w].inum = itable[w].inum
      BY <1>18 DEF Stable, RefsSame
    <2>2. /\ itable'[u].inum \in Inums
          /\ \A w \in Slots \ {u} : itable'[w].ref > 0 => itable'[w].inum # itable'[u].inum
      BY ONLY u \in Slots, itable'[u].ref > 0, <1>1, <2>1 DEF CohInv, Coh
    <2>3. CASE u = s
      BY <1>3, <1>12, <1>13, <1>16, <1>17, <2>2, <2>3
    <2>4. CASE u = d
      BY ONLY u \in Slots, itable'[u].ref > 0, d \in Slots, s \in Slots, j = itable[d].inum,
              i = itable[s].inum, itable[d].ref > 0, itable[s].ref > 0,
              <1>1, <1>2, <1>3, <1>5, <1>12, <1>13, <1>16, <1>17, <2>1, <2>2, <2>4 DEF CohInv, Coh
    <2>5. CASE u \notin {s, d}
      <3>1. itable'[u] = itable[u] /\ itable[u].inum # j /\ itable[u].inum # i
        BY <1>1, <1>16, <2>1, <2>5 DEF CohInv, Coh
      <3> QED BY ONLY u \in Slots, itable'[u].ref > 0, <1>1, <1>17, <2>1, <2>2, <3>1 DEF CohInv, Coh
    <2> QED BY <2>3, <2>4, <2>5
  <1>22. dinode'[j].ents["."] = j /\ dinode[j].ents["."] = j
    <2>1. dn.ents["."] = j /\ n # "."
      BY <1>2, <1>3, Consts DEF Dot, Node
    <2> QED BY ONLY <1>2, <1>8, <1>12, <1>17, <2>1
  <1>23. DiskInv'
    <2>1. \A k \in Inums : dinode'[k].type = "dir" /\ dinode'[k].nlink > 0 => dinode'[k].ents["."] = k
      <3> SUFFICES ASSUME NEW k \in Inums, dinode'[k].type = "dir", dinode'[k].nlink > 0
                   PROVE  dinode'[k].ents["."] = k
        OBVIOUS
      <3>1. CASE k = i
        BY <1>10, <1>12, <1>17, <3>1
      <3>2. CASE k = j
        BY <1>22, <3>2
      <3>3. CASE k \notin {i, j}
        BY <1>1, <1>17, <3>3 DEF DiskInv
      <3> QED BY <3>1, <3>2, <3>3
    <2>2. \A k \in Inums : dinode[k].type = "free" => dinode'[k] = dinode[k]
      BY <1>2, <1>3, <1>17
    <2>3. i \in 0..NINODES /\ dinode[i].type # "free"
      BY <1>2, <1>3, Consts DEF Inums
    <2> QED BY <1>19, <1>20, <2>1, <2>2, <2>3, DiskStep
  <1>24. /\ dinode[i].nlink = 0 /\ dinode'[i].nlink = 1
         /\ dinode[i].type = "dir" => dinode'[i].ents["."] = i
    BY ONLY <1>2, <1>4, <1>10, <1>12, <1>17
  <1>25. dinode'[j].nlink = IF dinode[i].type = "dir" THEN dinode[j].nlink + 1 ELSE dinode[j].nlink
    BY ONLY <1>2, <1>5, <1>12, <1>17
  <1> QED BY ONLY <1>3, <1>16, <1>17, <1>18, <1>19, <1>20, <1>21, <1>22, <1>23, <1>24, <1>25
          DEF LinkNewDone

\* create gives the new inode its name.
LEMMA CreateLinks ==
  ASSUME FsInv, NEW p \in FsProcs, loc[p].pc = "create3", ilk[loc[p].ip] = NoProc,
         NEW k \in {"open2", "created"},
         dinode' = LinkNew(p),
         itable' = LinkNewTable(loc[p].ip, loc[p].dp, loc[p].call),
         Go(p, PutDpOf(loc[p], k)),
         UNCHANGED <<ftable, ofile, cwd>>,
         ilk' = [ilk EXCEPT ![loc[p].ip] = p, ![loc[p].dp] = NoProc]
  PROVE  FsInv'
  <1> DEFINE l == loc[p]
             r == loc'[p]
  <1>1. TypeInv /\ RefInv /\ CohInv /\ FilesInv /\ ShapeP(p) /\ LockP(p) /\ LiveP(p) /\ KnowP(p)
    BY DEF FsInv, ProcInv
  <1>2. Place(l) = l.pc /\ l.vic = 0 /\ To(<<p, "vic">>) = 0 /\ l.pc # "ifree" /\ l.pc \notin Putting
    BY Unput DEF Putting
  <1>3. l.pc = "create3" /\ l.cur = 0 /\ l.dp # 0 /\ l.ip # 0 /\ cwd[p] # 0 /\ l.name \in Comps /\
        l.call \in Creates
    BY <1>1, <1>2 DEF ShapeP, Shape, HasIp, Creating, Putting, Conts, Walks, Finds, Parents,
       DpOnly, IpDp, IpOnly
  <1>17. PICK d, s, i, j, n : d = l.dp /\ s = l.ip /\ i = itable[s].inum /\ j = itable[d].inum /\ n = l.name
    OBVIOUS
  <1>18. /\ d \in Slots /\ itable[d].ref > 0 /\ j \in Inums /\ Dot(d) /\ Node(d).type = "dir" /\ Live(s)
         /\ s \in Slots /\ itable[s].ref > 0 /\ i \in Inums /\ ilk[d] = p /\ ilk[s] = NoProc /\ d # s
    <2>1. d \in OldOk(p)
      BY <1>3, <1>17 DEF OldOk
    <2>2. Node(d).type = "dir"
      BY <1>1, <1>3, <1>17 DEF KnowP
    <2>3. ilk[d] = p /\ ilk[s] = NoProc
      BY <1>1, <1>2, <1>3, <1>17 DEF LockP, HoldsDp, l
    <2>4. s \in Slots /\ itable[s].ref > 0 /\ i \in Inums /\ Live(s)
      BY <1>1, <1>3, <1>17, UsedBy DEF LiveP, l
    <2> QED BY <1>17, <2>1, <2>2, <2>3, <2>4, OldOkFacts, Consts
  <1>19. Alone(<<p, "ip">>, s) /\ dinode[i] = NewInode(NewType[l.call])
    BY <1>1, <1>3, <1>17 DEF KnowP, Node, l
  <1>20. n \in Names /\ dinode[j].ents[n] = 0
    <2>1. Node(d).ents[n] = 0
      BY <1>1, <1>3, <1>17 DEF KnowP, l
    <2> QED BY <1>3, <1>17, <1>18, <2>1, DotTaken DEF Node
  <1>21. /\ itable' \in [Slots -> Entry] /\ dinode' \in [Inums -> Dinode] /\ i # j
         /\ Stable /\ RefsSame /\ CohInv' /\ DiskInv' /\ TypesSame /\ EntsStep(j, n, i)
         /\ dinode[i].nlink = 0 /\ dinode'[i].nlink = 1
         /\ dinode'[j].nlink = IF dinode[i].type = "dir" THEN dinode[j].nlink + 1 ELSE dinode[j].nlink
         /\ dinode'[j].ents["."] = dinode[j].ents["."]
         /\ dinode[i].type = "dir" => dinode'[i].ents["."] = i
         /\ \A m \in Inums \ {i, j} : dinode'[m] = dinode[m]
    <2>1. /\ loc[p].pc = "create3" /\ d = loc[p].dp /\ s = loc[p].ip /\ n = loc[p].name
          /\ i = itable[s].inum /\ j = itable[d].inum
          /\ dinode[i] = NewInode(NewType[loc[p].call]) /\ loc[p].call \in Creates
          /\ itable' = LinkNewTable(s, d, loc[p].call)
      BY <1>3, <1>17, <1>19 DEF l
    <2>2. LinkNewDone(i, j, n)
      BY ONLY FsInv, p \in FsProcs, dinode' = LinkNew(p), <1>18, <1>20, <2>1, LinkNewStep,
              SMTT(40)
    <2> QED BY ONLY <2>2 DEF LinkNewDone
  <1>4. /\ loc' = [loc EXCEPT ![p] = r] /\ l \in LocType /\ Rest(p) /\ FileOf(p)' = FileOf(p) /\ FilesInv'
        /\ r = PutDpOf(l, k)
    BY <1>1, <1>3, GoFacts, RestSame
  <1> HIDE DEF l, r
  <1>5. /\ r \in LocType
        /\ r.pc = "iput" /\ r.call = l.call /\ r.name = l.name /\ r.rest = l.rest
        /\ r.new = l.new /\ r.cur = l.cur /\ r.ip = l.ip /\ r.dp = 0
        /\ r.vic = l.dp /\ r.parent = l.parent /\ r.k = k /\ r.nk = l.nk
    <2>1. k \in Conts
      BY DEF Conts
    <2> QED BY <1>4, <2>1, PutDpFields
  <1>6. Place(r) = k
    BY <1>2, <1>3, <1>5 DEF Place, Putting, Finds
  <1>7. OwnTypes(p)
    BY <1>1, <1>3, <1>4, <1>5, Consts DEF OwnTypes, TypeInv, Slots, Files, l, r
  <1>8. KMoved(<<p, "dp">>, <<p, "vic">>)
    <2>1. OtherTags(p, {"dp", "vic"})
      BY <1>4, <1>5 DEF OtherTags, l, r
    <2>2. \A x \in Ptrs \ {<<p, "dp">>, <<p, "vic">>} : To(x)' = To(x)
      BY <1>4, <2>1, KindRest
    <2>3. /\ To(<<p, "dp">>) = l.dp /\ To(<<p, "dp">>)' = r.dp
          /\ To(<<p, "vic">>) = l.vic /\ To(<<p, "vic">>)' = r.vic
      BY ToTag, ToTagNext DEF l, r
    <2> QED BY <1>2, <1>3, <1>5, <2>2, <2>3, SlotPos DEF KMoved
  <1>9. RefInv' /\ NewOk(p)
    BY <1>1, <1>2, <1>8, <1>21, ToTag, RefMoved, NewMoved DEF l
  <1>10. ShapeP(p)'
    <2>1. Shape(r)
      BY <1>1, <1>2, <1>3, <1>5, <1>6, SlotPos
         DEF ShapeP, Shape, HasIp, Creating, Putting, Conts, Walks, Finds, Parents, DpOnly, IpDp, IpOnly, l
    <2> QED BY <1>1, <1>2, <1>3, <1>6, <2>1 DEF ShapeP, l, r
  <1>11. LockP(p)' /\ LockStep(p)
    <2>1. \A u \in Slots : ilk'[u] = IF u = l.ip THEN p ELSE IF u = l.dp THEN NoProc ELSE ilk[u]
      BY <1>1, <1>17, <1>18 DEF TypeInv, l
    <2>2. ilk[l.dp] = p /\ ilk[l.ip] = NoProc /\ \A u \in Slots \ {l.dp} : ilk[u] # p
      BY <1>1, <1>2, <1>3 DEF LockP, HoldsIp, HoldsDp, l
    <2>3. LockStep(p)
      BY <2>1, <2>2 DEF LockStep
    <2>4. l.ip \in Slots
      BY <1>17, <1>18
    <2> QED BY <1>5, <1>6, <2>1, <2>2, <2>3, <2>4, Consts DEF LockP, HoldsIp, HoldsDp, r
  <1>12. LiveP(p)'
    <2>1. ASSUME NEW u \in {s} \cup OldOk(p)
          PROVE  Live(u)' /\ Dot(u)'
      <3>1. u \in Slots /\ itable[u].ref > 0 /\ itable[u].inum \in Inums /\ Live(u) /\ (u # s => Dot(u))
        BY <1>17, <1>18, <2>1, OldOkFacts
      <3>2. itable'[u].inum = itable[u].inum /\ Node(u)'.type = Node(u).type
        BY <1>21, <3>1 DEF Stable, TypesSame, Node
      <3>3. CASE u = s
        <4>1. itable'[s].inum = i /\ dinode'[i].type = dinode[i].type /\ dinode[i].type # "free"
          BY ONLY <1>17, <3>1, <3>2, <3>3 DEF Node, Live
        <4> QED BY ONLY <1>21, <3>3, <4>1 DEF Node, Live, Dot
      <3>4. CASE u # s
        <4>1. itable[u].inum # i
          BY <1>1, <1>17, <1>18, <3>1, <3>4 DEF CohInv, Coh
        <4>2. dinode'[itable[u].inum].ents["."] = dinode[itable[u].inum].ents["."]
          BY <1>21, <3>1, <4>1
        <4> QED BY <3>1, <3>2, <3>4, <4>2 DEF Node, Live, Dot
      <3> QED BY <3>3, <3>4
    <2>2. PICK v, w, f : v = r.vic /\ w = cwd'[p] /\ f = FileOf(p)'
      OBVIOUS
    <2>3. v \in OldOk(p) /\ w \in OldOk(p) /\ f \in {0} \cup OldOk(p) /\ r.ip = s /\ r.cur = 0 /\ r.dp = 0
      BY <1>2, <1>3, <1>4, <1>5, <1>17, <2>2 DEF OldOk, l
    <2>4. Live(s)' /\ Dot(s)' /\ Live(v)' /\ Live(w)' /\ Dot(w)' /\ (f # 0 => Live(f)' /\ Dot(f)')
      BY <2>1, <2>3
    <2> QED BY <2>2, <2>3, <2>4 DEF LiveP, r
  <1>13. ~Pending(r) /\ ~Pending(l)
    BY <1>1, <1>2, <1>3, <1>5, <1>6 DEF Pending, Linking, Walks, Finds, l
  <1>14. KnowP(p)'
    <2>1. r.pc \notin {"ialloc", "create3", "unlink2", "itrunc"} /\ r.dp = 0 /\ ~Linking(r)
      BY <1>3, <1>5, <1>6 DEF Linking, Walks
    <2> QED BY <2>1, OwnKnowSoft DEF r
  <1>15. FrameA(p) /\ FrameB(p) /\ FrameC(p)
    <2>1. \A u \in Slots : itable[u].ref > 0 =>
            /\ itable[u].inum \in Inums
            /\ itable[u].inum = i => u = s
            /\ itable[u].inum = j => u = d
      BY <1>1, <1>17, <1>18 DEF CohInv, Coh
    <2>2. FrameA(p)
      <3> SUFFICES ASSUME NEW x \in Ptrs, NEW u \in Slots, x[1] # p, To(x) = u, ~Gone(x)
                   PROVE  /\ itable'[u].inum = itable[u].inum
                          /\ dinode'[itable[u].inum].type = dinode[itable[u].inum].type
                          /\ dinode'[itable[u].inum].ents["."] = dinode[itable[u].inum].ents["."]
        BY DEF FrameA
      <3>1. itable[u].ref > 0
        BY <1>1, SlotPos, Used
      <3>2. u # s
        <4>1. x # <<p, "ip">>
          OBVIOUS
        <4> QED BY <1>19, <4>1 DEF Alone
      <3>3. itable[u].inum \in Inums /\ itable[u].inum # i
        BY <2>1, <3>1, <3>2
      <3> QED BY <1>21, <3>1, <3>3 DEF Stable, TypesSame
    <2>3. Touches(p)
      <3> SUFFICES ASSUME NEW u \in Slots, itable[u].ref > 0, dinode'[itable[u].inum] # dinode[itable[u].inum]
                   PROVE  \E y \in Ptrs : y[1] = p /\ y[2] # "vic" /\ To(y) = u
        BY DEF Touches
      <3>1. u = s \/ u = d
        BY <1>21, <2>1
      <3>2. /\ <<p, "ip">> \in Ptrs /\ <<p, "ip">>[1] = p /\ <<p, "ip">>[2] # "vic" /\ To(<<p, "ip">>) = s
            /\ <<p, "dp">> \in Ptrs /\ <<p, "dp">>[1] = p /\ <<p, "dp">>[2] # "vic" /\ To(<<p, "dp">>) = d
        BY <1>17, ToTag DEF l
      <3> QED BY <3>1, <3>2
    <2>4. FrameB(p)
      BY <1>9, <1>21, <2>3, FrameOfB
    <2>5. FrameC(p)
      <3> SUFFICES ASSUME NEW u \in Slots, ilk[u] \in FsProcs \ {p}
                   PROVE  /\ itable'[u].inum = itable[u].inum
                          /\ dinode'[itable[u].inum].ents = dinode[itable[u].inum].ents
        BY DEF FrameC
      <3>1. itable[u].ref > 0
        BY LockUsed
      <3>2. u # s /\ u # d
        BY <1>18, Consts
      <3> QED BY <1>21, <2>1, <3>1, <3>2 DEF Stable
    <2> QED BY <2>2, <2>4, <2>5
  <1>16. LinkInv'
    <2>1. ~Pending(loc[p]) /\ ~Pending(loc'[p])
      BY <1>13 DEF l, r
    <2>3. \A m \in Inums \ {i, j} : dinode'[m].nlink = dinode[m].nlink
      BY <1>21
    <2> QED BY ONLY FsInv, p \in FsProcs, <1>4, <1>18, <1>20, <1>21, <2>1, <2>3, LinkCreated
  <1> QED BY <1>4, <1>7, <1>9, <1>10, <1>11, <1>12, <1>14, <1>15, <1>16, <1>21, LoudStep DEF OwnInv

\* An inode that ialloc has made.
LEMMA NewInodeFields ==
  ASSUME NEW t \in Types
  PROVE  /\ NewInode(t) \in Dinode /\ NewInode(t).type = t /\ NewInode(t).nlink = 0
         /\ \A m \in Names \cup {".", ".."} : NewInode(t).ents[m] = 0
  <1>1. 0 \in 0..NINODES /\ 0 \in Nat
    BY Consts
  <1>2. NoEnts \in [Names \cup {".", ".."} -> 0..NINODES] /\ \A m \in Names \cup {".", ".."} : NoEnts[m] = 0
    BY <1>1 DEF NoEnts
  <1> QED BY <1>1, <1>2 DEF NewInode, Dinode

\* ialloc takes a free inode: no name and no count changes.
LEMMA AllocDisk ==
  ASSUME FsInv, NEW i \in Inums, dinode[i].type = "free", NEW t \in Types \ {"free"},
         dinode' = [dinode EXCEPT ![i] = NewInode(t)]
  PROVE  /\ dinode' \in [Inums -> Dinode] /\ dinode'[i] = NewInode(t)
         /\ \A k \in Inums \ {i} : dinode'[k] = dinode[k]
         /\ DiskInv'
         /\ \A k \in Inums : /\ NamesOf(k)' = NamesOf(k) /\ Subdirs(k)' = Subdirs(k)
                             /\ dinode'[k].nlink = dinode[k].nlink
  <1>1. TypeInv /\ DiskInv
    BY DEF FsInv
  <1>2. PICK x : x = NewInode(t)
    OBVIOUS
  <1>3. x \in Dinode /\ x.type = t /\ x.nlink = 0 /\ \A m \in Names : x.ents[m] = 0
    BY <1>2, NewInodeFields
  <1>4. dinode' \in [Inums -> Dinode] /\ dinode'[i] = x /\ \A k \in Inums \ {i} : dinode'[k] = dinode[k]
    BY <1>1, <1>2, <1>3 DEF TypeInv
  <1>5. dinode[i].nlink = 0 /\ \A m \in Names : dinode[i].ents[m] = 0
    <2>1. dinode[i] = NewInode("free") /\ "free" \in Types
      BY <1>1 DEF DiskInv, Types
    <2> QED BY <2>1, NewInodeFields
  <1>6. EntsSame /\ \A k \in Inums : dinode'[k].nlink = dinode[k].nlink
    BY <1>3, <1>4, <1>5 DEF EntsSame
  <1>7. \A k \in Inums : \A m \in Names : dinode[k].ents[m] # 0 =>
          /\ dinode[k].ents[m] \in Inums /\ dinode[dinode[k].ents[m]].type # "free"
    BY <1>1, EntRange DEF DiskInv
  <1>8. ASSUME NEW k \in Inums
        PROVE  NamesOf(k)' = NamesOf(k) /\ Subdirs(k)' = Subdirs(k)
    <2>1. NamesOf(k)' = NamesOf(k)
      <3>1. \A y \in Inums \X Names : dinode'[y[1]].ents[y[2]] = dinode[y[1]].ents[y[2]]
        BY <1>6 DEF EntsSame
      <3> QED BY <3>1 DEF NamesOf
    <2>2. ASSUME NEW m \in Names
          PROVE  /\ dinode'[k].ents[m] = dinode[k].ents[m]
                 /\ dinode[k].ents[m] # 0 => dinode'[dinode[k].ents[m]] = dinode[dinode[k].ents[m]]
      BY <1>4, <1>6, <1>7 DEF EntsSame
    <2>3. \A m \in Names : m \in Subdirs(k)' <=> m \in Subdirs(k)
      BY <2>2 DEF Subdirs
    <2>4. Subdirs(k)' \subseteq Names /\ Subdirs(k) \subseteq Names
      BY DEF Subdirs
    <2> QED BY <2>1, <2>3, <2>4
  <1>9. DiskInv'
    <2>1. dinode'[ROOTINO].type = "dir"
      <3>1. ROOTINO \in Inums \ {i}
        BY <1>1, Consts DEF DiskInv, Inums, ROOTINO
      <3> QED BY <1>1, <1>4, <3>1 DEF DiskInv
    <2>2. ASSUME NEW k \in Inums
          PROVE  /\ dinode'[k].type = "free" => dinode'[k] = NewInode("free")
                 /\ dinode'[k].type = "dir" /\ dinode'[k].nlink > 0 => dinode'[k].ents["."] = k
                 /\ \A n \in Names : dinode'[k].ents[n] # 0 => dinode'[dinode'[k].ents[n]].type # "free"
      <3>1. CASE k = i
        BY <1>3, <1>4, <3>1
      <3>2. CASE k # i
        <4>1. dinode'[k] = dinode[k]
          BY <1>4, <3>2
        <4>2. \A n \in Names : dinode[k].ents[n] # 0 => dinode'[dinode[k].ents[n]] = dinode[dinode[k].ents[n]]
          BY <1>4, <1>7
        <4> QED BY <1>1, <4>1, <4>2 DEF DiskInv
      <3> QED BY <3>1, <3>2
    <2> QED BY ONLY <2>1, <2>2 DEF DiskInv
  <1> QED BY <1>2, <1>4, <1>6, <1>8, <1>9

IallocOf(l, g) == [l EXCEPT !.pc = "create3", !.ip = g]

IallocRec(l, g, r) ==
  /\ r \in LocType
  /\ r.pc = "create3" /\ r.call = l.call /\ r.name = l.name /\ r.rest = l.rest
  /\ r.new = l.new /\ r.cur = l.cur /\ r.ip = g /\ r.dp = l.dp
  /\ r.vic = l.vic /\ r.parent = l.parent /\ r.k = l.k /\ r.nk = l.nk

\* The locals after ialloc.
LEMMA IallocFields ==
  ASSUME NEW l \in LocType, NEW g \in Slots
  PROVE  IallocRec(l, g, IallocOf(l, g))
  <1>1. g \in 0..NINODE /\ "create3" \in Pcs
    BY SlotPos DEF Pcs, IpDp
  <1> QED BY <1>1 DEF LocType, IallocRec, IallocOf

\* A count that follows from links, names and calls that have not changed.
LEMMA LinkKept ==
  ASSUME FsInv, NEW p \in FsProcs, Rest(p), Stable, PendSame(p),
         \A k \in Inums : /\ NamesOf(k)' = NamesOf(k) /\ Subdirs(k)' = Subdirs(k)
                          /\ dinode'[k].nlink = dinode[k].nlink
  PROVE  LinkInv'
  <1>1. \A k : Pends(k)' = Pends(k)
    BY PendsSame
  <1> QED BY <1>1 DEF LinkInv, FsInv, Root

\* ialloc takes a free inode.
LEMMA IallocStep ==
  ASSUME FsInv, NEW p \in FsProcs, loc[p].pc = "ialloc", NEW i \in Inums, dinode[i].type = "free",
         NEW g \in Slots, itable'[g].inum = i, itable[g].ref > 0 => itable[g].inum = i,
         dinode' = [dinode EXCEPT ![i] = NewInode(NewType[loc[p].call])],
         Go(p, IallocOf(loc[p], g)), TabStep, RefsUp(g),
         UNCHANGED <<ftable, ofile, cwd, ilk>>
  PROVE  FsInv'
  <1> DEFINE l == loc[p]
             r == loc'[p]
  <1>1. TypeInv /\ RefInv /\ CohInv /\ FilesInv /\ ShapeP(p) /\ LockP(p) /\ LiveP(p) /\ KnowP(p)
    BY DEF FsInv, ProcInv
  <1>2. Place(l) = l.pc /\ l.vic = 0 /\ To(<<p, "vic">>) = 0 /\ l.pc # "ifree" /\ l.pc \notin Putting
    BY Unput DEF Putting
  <1>3. l.pc = "ialloc" /\ l.cur = 0 /\ l.dp # 0 /\ l.ip = 0 /\ cwd[p] # 0 /\ l.name \in Comps /\
        l.call \in Creates
    BY <1>1, <1>2 DEF ShapeP, Shape, HasIp, Creating, Putting, Conts, Walks, Finds, Parents,
       DpOnly, IpDp, IpOnly
  <1>17. NewType[l.call] \in Types \ {"free"}
    BY <1>3 DEF NewType, Creates, Types
  <1>18. PICK x : /\ x = NewInode(NewType[l.call]) /\ x.type # "free" /\ x.nlink = 0
    BY <1>17, NewInodeFields
  <1>19. Safe(p, g)
    <2>1. itable \in [Slots -> Entry]
      BY <1>1 DEF TypeInv
    <2>2. itable[g].ref \in Nat
      BY <2>1 DEF Entry
    <2> QED BY <2>2 DEF Safe, Node
  <1>20. /\ dinode' \in [Inums -> Dinode] /\ dinode'[i] = x
         /\ \A k \in Inums \ {i} : dinode'[k] = dinode[k]
         /\ DiskInv'
         /\ \A k \in Inums : /\ NamesOf(k)' = NamesOf(k) /\ Subdirs(k)' = Subdirs(k)
                             /\ dinode'[k].nlink = dinode[k].nlink
    BY <1>17, <1>18, AllocDisk DEF l
  <1>21. /\ itable' \in [Slots -> Entry] /\ Stable /\ dinode' \in [Inums -> Dinode] /\ dinode'[i] = x
         /\ \A k \in Inums \ {i} : dinode'[k] = dinode[k]
         /\ DiskInv' /\ CohInv'
    <2>1. itable' \in [Slots -> Entry] /\ Stable /\ Coh(itable', dinode)
      BY DEF TabStep
    <2>2. CohInv'
      <3> SUFFICES ASSUME NEW u \in Slots, itable'[u].ref > 0
                   PROVE  /\ itable'[u].inum \in Inums
                          /\ \A w \in Slots \ {u} : itable'[w].ref > 0 => itable'[w].inum # itable'[u].inum
                          /\ itable'[u].valid => /\ itable'[u].type = dinode'[itable'[u].inum].type
                                                 /\ itable'[u].nlink = dinode'[itable'[u].inum].nlink
                                                 /\ itable'[u].type # "free"
        BY DEF CohInv, Coh
      <3>1. /\ itable'[u].inum \in Inums
            /\ \A w \in Slots \ {u} : itable'[w].ref > 0 => itable'[w].inum # itable'[u].inum
            /\ itable'[u].valid => /\ itable'[u].type = dinode[itable'[u].inum].type
                                   /\ itable'[u].nlink = dinode[itable'[u].inum].nlink
                                   /\ itable'[u].type # "free"
        BY <2>1 DEF Coh
      <3>2. itable'[u].valid => itable'[u].inum # i
        BY <3>1
      <3> QED BY <1>20, <3>1, <3>2
    <2> QED BY <1>20, <2>1, <2>2
  <1>22. ASSUME NEW u \in Slots, itable[u].ref > 0, Live(u)
         PROVE  /\ itable'[u].inum = itable[u].inum /\ dinode'[itable[u].inum] = dinode[itable[u].inum]
                /\ Node(u)' = Node(u) /\ Live(u)' /\ (Dot(u)' <=> Dot(u))
    <2>1. itable[u].inum \in Inums \ {i}
      BY <1>1, <1>22 DEF CohInv, Coh, Live, Node
    <2>2. itable'[u].inum = itable[u].inum
      BY <1>21, <1>22 DEF Stable
    <2>3. Node(u)' = Node(u)
      BY <1>21, <2>1, <2>2 DEF Node
    <2> QED BY <1>21, <1>22, <2>1, <2>2, <2>3 DEF Live, Dot
  <1>4. /\ loc' = [loc EXCEPT ![p] = r] /\ l \in LocType /\ Rest(p) /\ FileOf(p)' = FileOf(p) /\ FilesInv'
        /\ r = IallocOf(l, g)
    BY <1>1, <1>3, GoFacts, RestSame
  <1> HIDE DEF l, r
  <1>5. /\ r \in LocType
        /\ r.pc = "create3" /\ r.call = l.call /\ r.name = l.name /\ r.rest = l.rest
        /\ r.new = l.new /\ r.cur = l.cur /\ r.ip = g /\ r.dp = l.dp
        /\ r.vic = l.vic /\ r.parent = l.parent /\ r.k = l.k /\ r.nk = l.nk
    <2>1. IallocRec(l, g, r)
      BY <1>4, IallocFields
    <2> QED BY <2>1 DEF IallocRec
  <1>6. Place(r) = "create3"
    BY <1>2, <1>3, <1>5 DEF Place, Putting, Finds
  <1>7. OwnTypes(p)
    BY <1>1, <1>3, <1>4, <1>5, Consts DEF OwnTypes, TypeInv, Slots, Files, l, r
  <1>8. KTook(<<p, "ip">>, g)
    <2>1. OtherTags(p, {"ip"})
      BY <1>4, <1>5 DEF OtherTags, l, r
    <2>2. \A y \in Ptrs \ {<<p, "ip">>} : To(y)' = To(y)
      BY <1>4, <2>1, KindRest
    <2>3. /\ To(<<p, "ip">>) = l.ip /\ To(<<p, "ip">>)' = r.ip
      BY ToTag, ToTagNext DEF l, r
    <2> QED BY <1>2, <1>3, <1>5, <2>2, <2>3, SlotPos DEF KTook
  <1>9. RefInv' /\ NewOk(p)
    BY <1>1, <1>2, <1>8, <1>21, ToTag, RefTook, NewTook, <1>19 DEF l
  <1>10. ShapeP(p)'
    <2>1. Shape(r)
      BY <1>1, <1>2, <1>3, <1>5, <1>6, SlotPos
         DEF ShapeP, Shape, HasIp, Creating, Putting, Conts, Walks, Finds, Parents, DpOnly, IpDp, IpOnly, l
    <2> QED BY <1>1, <1>2, <1>3, <1>6, <2>1 DEF ShapeP, l, r
  <1>11. LockP(p)' /\ LockStep(p)
    BY <1>1, <1>2, <1>3, <1>5, <1>6, Consts DEF LockP, LockStep, HoldsIp, HoldsDp, TypeInv, Finds, l, r
  <1>12. LiveP(p)'
    <2>1. ASSUME NEW u \in OldOk(p)
          PROVE  Live(u)' /\ Dot(u)'
      BY <1>22, <2>1, OldOkFacts
    <2>2. Live(g)'
      BY <1>18, <1>21 DEF Live, Node
    <2>3. PICK d, w, f : d = r.dp /\ w = cwd'[p] /\ f = FileOf(p)'
      OBVIOUS
    <2>4. d \in OldOk(p) /\ w \in OldOk(p) /\ f \in {0} \cup OldOk(p) /\ r.ip = g /\ r.cur = 0 /\
          r.vic = 0 /\ r.pc = "create3"
      BY <1>2, <1>3, <1>4, <1>5, <2>3 DEF OldOk, l
    <2>5. Live(g)' /\ Live(d)' /\ Dot(d)' /\ Live(w)' /\ Dot(w)' /\ (f # 0 => Live(f)' /\ Dot(f)')
      BY <2>1, <2>2, <2>4
    <2> QED BY <2>3, <2>4, <2>5 DEF LiveP, r
  <1>13. (Pending(r) <=> Pending(l)) /\ (Linking(r) <=> Linking(l)) /\ (Pending(l) => r.ip = l.ip)
    BY <1>1, <1>2, <1>3, <1>5, <1>6 DEF Pending, Linking, Walks, Finds, l
  <1>14. KnowP(p)'
    <2>1. PICK d : d = l.dp
      OBVIOUS
    <2>2. d \in Slots /\ itable[d].ref > 0 /\ Live(d) /\ Node(d).type = "dir" /\ Node(d).ents[l.name] = 0
      BY <1>1, <1>3, <2>1, UsedBy DEF KnowP, LiveP, l
    <2>3. Node(d)' = Node(d)
      BY <1>22, <2>2
    <2>4. Node(g)' = NewInode(NewType[l.call]) /\ Node(g)'.nlink = 0
      <3>1. Node(g)' = x
        BY <1>21 DEF Node
      <3> QED BY <1>18, <3>1
    <2>5. <<p, "ip">> \in Ptrs /\ To(<<p, "ip">>)' = g
      BY <1>5, ToTag, ToTagNext DEF r
    <2>6. ASSUME NEW y \in Ptrs, To(y)' = g, y # <<p, "ip">>
          PROVE  Gone(y)'
      <3>1. To(y) = g
        BY <1>8, <2>6 DEF KTook
      <3>2. itable[g].ref > 0 /\ ~Live(g)
        BY <1>1, <3>1, SlotPos, Used DEF Live, Node
      <3>3. Gone(y)
        BY <3>1, <3>2, SlotPos, LivePtr
      <3>4. y[1] # p
        BY <1>2, <3>3 DEF Gone, l
      <3> QED BY <1>4, <3>3, <3>4, RestTo
    <2>7. Alone(<<p, "ip">>, g)'
      BY ONLY <2>4, <2>5, <2>6 DEF Alone
    <2>8. ~Linking(r)
      BY <1>6 DEF Linking, Walks
    <2>9. /\ r.pc = "create3" /\ r.ip = g /\ r.dp = d /\ r.name = l.name /\ r.call = l.call
      BY <1>5, <2>1
    <2>10. Alone(<<p, "ip">>, loc[p].ip)'
      BY <2>7, <2>9 DEF r
    <2>11. Node(loc[p].ip)' = NewInode(NewType[loc'[p].call])
      BY <2>4, <2>9 DEF r
    <2>12. Node(loc[p].dp)'.type = "dir" /\ Node(loc[p].dp)'.ents[loc'[p].name] = 0
      BY <2>2, <2>3, <2>9 DEF r
    <2>13. loc'[p].pc = "create3" /\ ~Linking(loc'[p])
      BY <2>8, <2>9 DEF r
    <2> QED BY ONLY <2>10, <2>11, <2>12, <2>13 DEF KnowP
  <1>15. FrameA(p) /\ FrameB(p) /\ FrameC(p)
    <2>1. ASSUME NEW y \in Ptrs, NEW u \in Slots, To(y) = u, ~Gone(y)
          PROVE  itable[u].ref > 0 /\ Live(u)
      BY <1>1, <2>1, SlotPos, Used, LivePtr
    <2>2. FrameA(p)
      BY <1>22, <2>1 DEF FrameA
    <2>3. FrameB(p)
      BY <1>9, <1>22, OwnerAlone, OwnedKept DEF FrameB
    <2>4. FrameC(p)
      BY <1>22, <2>1, LockUsed DEF FrameC
    <2> QED BY <2>2, <2>3, <2>4
  <1>16. LinkInv'
    <2>1. PendSame(p)
      BY <1>13 DEF PendSame, l, r
    <2> QED BY ONLY FsInv, p \in FsProcs, <1>4, <1>20, <1>21, <2>1, LinkKept
  <1> QED BY <1>4, <1>7, <1>9, <1>10, <1>11, <1>12, <1>14, <1>15, <1>16, <1>21, LoudStep DEF OwnInv

\* iput frees an inode that no name leads to.
LEMMA FreeDisk ==
  ASSUME FsInv, NEW i \in Inums, dinode[i].nlink = 0,
         dinode' = [dinode EXCEPT ![i] = NewInode("free")]
  PROVE  /\ dinode' \in [Inums -> Dinode]
         /\ \A k \in Inums \ {i} : dinode'[k] = dinode[k]
         /\ DiskInv'
         /\ \A k \in Inums : /\ NamesOf(k)' \subseteq NamesOf(k) /\ Subdirs(k)' \subseteq Subdirs(k)
                             /\ dinode'[k].nlink = dinode[k].nlink
  <1>1. TypeInv /\ DiskInv
    BY DEF FsInv
  <1>2. PICK x : x = NewInode("free")
    OBVIOUS
  <1>3. x \in Dinode /\ x.type = "free" /\ x.nlink = 0 /\ \A m \in Names : x.ents[m] = 0
    <2>1. "free" \in Types
      BY DEF Types
    <2> QED BY <1>2, <2>1, NewInodeFields
  <1>4. dinode' \in [Inums -> Dinode] /\ dinode'[i] = x /\ \A k \in Inums \ {i} : dinode'[k] = dinode[k]
    BY <1>1, <1>2, <1>3 DEF TypeInv
  <1>5. NamesOf(i) = {} /\ i # ROOTINO
    BY NoLinks DEF Root
  <1>6. \A k \in Inums : \A m \in Names : dinode[k].ents[m] # 0 =>
          /\ dinode[k].ents[m] \in Inums \ {i} /\ dinode[dinode[k].ents[m]].type # "free"
    <2> SUFFICES ASSUME NEW k \in Inums, NEW m \in Names, dinode[k].ents[m] # 0
                 PROVE  /\ dinode[k].ents[m] \in Inums \ {i} /\ dinode[dinode[k].ents[m]].type # "free"
      OBVIOUS
    <2>1. dinode[k].ents[m] # i
      <3>1. <<k, m>> \in Inums \X Names
        OBVIOUS
      <3>2. dinode[k].ents[m] = i => <<k, m>> \in NamesOf(i)
        BY <3>1 DEF NamesOf
      <3> QED BY <1>5, <3>2
    <2> QED BY <1>1, <2>1, EntRange DEF DiskInv
  <1>7. ASSUME NEW k \in Inums
        PROVE  NamesOf(k)' \subseteq NamesOf(k) /\ Subdirs(k)' \subseteq Subdirs(k)
    <2>1. NamesOf(k)' \subseteq NamesOf(k)
      <3>1. k # 0
        BY Consts DEF Inums
      <3>2. \A y \in Inums \X Names : dinode'[y[1]].ents[y[2]] = k => dinode[y[1]].ents[y[2]] = k
        BY <1>3, <1>4, <3>1
      <3> QED BY <3>2 DEF NamesOf
    <2>2. ASSUME NEW m \in Names, m \in Subdirs(k)'
          PROVE  m \in Subdirs(k)
      <3>1. dinode'[k].ents[m] # 0 /\ dinode'[dinode'[k].ents[m]].type = "dir"
        BY <2>2 DEF Subdirs
      <3>2. k # i
        BY <1>3, <1>4, <3>1
      <3>3. dinode'[k] = dinode[k]
        BY <1>4, <3>2
      <3>4. dinode'[dinode[k].ents[m]] = dinode[dinode[k].ents[m]]
        BY <1>4, <1>6, <3>1, <3>3
      <3> QED BY <3>1, <3>3, <3>4 DEF Subdirs
    <2>3. Subdirs(k)' \subseteq Names
      BY DEF Subdirs
    <2> QED BY <2>1, <2>2, <2>3
  <1>8. \A k \in Inums : dinode'[k].nlink = dinode[k].nlink
    BY <1>3, <1>4
  <1>9. DiskInv'
    <2>1. dinode'[ROOTINO].type = "dir"
      <3>1. ROOTINO \in Inums \ {i}
        BY <1>5, Consts DEF Inums, ROOTINO
      <3> QED BY <1>1, <1>4, <3>1 DEF DiskInv
    <2>2. ASSUME NEW k \in Inums
          PROVE  /\ dinode'[k].type = "free" => dinode'[k] = NewInode("free")
                 /\ dinode'[k].type = "dir" /\ dinode'[k].nlink > 0 => dinode'[k].ents["."] = k
                 /\ \A n \in Names : dinode'[k].ents[n] # 0 => dinode'[dinode'[k].ents[n]].type # "free"
      <3>1. CASE k = i
        BY <1>2, <1>3, <1>4, <3>1
      <3>2. CASE k # i
        <4>1. dinode'[k] = dinode[k]
          BY <1>4, <3>2
        <4>2. \A n \in Names : dinode[k].ents[n] # 0 => dinode'[dinode[k].ents[n]] = dinode[dinode[k].ents[n]]
          BY <1>4, <1>6
        <4> QED BY <1>1, <4>1, <4>2 DEF DiskInv
      <3> QED BY <3>1, <3>2
    <2> QED BY ONLY <2>1, <2>2 DEF DiskInv
  <1> QED BY <1>4, <1>7, <1>8, <1>9

\* Fewer names never need more links.
LEMMA LinkFewer ==
  ASSUME FsInv, NEW p \in FsProcs, Rest(p), Stable, PendSame(p),
         \A k \in Inums : /\ NamesOf(k)' \subseteq NamesOf(k) /\ Subdirs(k)' \subseteq Subdirs(k)
                          /\ dinode'[k].nlink = dinode[k].nlink
  PROVE  LinkInv'
  <1> SUFFICES ASSUME NEW k \in Inums
               PROVE  dinode'[k].nlink >= Cardinality(NamesOf(k)') + Cardinality(Subdirs(k)')
                                          + Cardinality(Pends(k)') + Root(k)'
    BY DEF LinkInv
  <1>1. Pends(k)' = Pends(k) /\ Root(k)' = Root(k)
    BY PendsSame DEF Root
  <1>2. PICK a, b, a2, b2 : a = NamesOf(k) /\ b = Subdirs(k) /\ a2 = NamesOf(k)' /\ b2 = Subdirs(k)'
    OBVIOUS
  <1>3. IsFiniteSet(a) /\ IsFiniteSet(b) /\ IsFiniteSet(Pends(k))
    BY <1>2, LinkFinite DEF NamesFinite
  <1>4. Cardinality(a2) <= Cardinality(a) /\ Cardinality(b2) <= Cardinality(b)
        /\ IsFiniteSet(a2) /\ IsFiniteSet(b2)
    BY <1>2, <1>3, FS_Subset
  <1>5. /\ Cardinality(a2) \in Nat /\ Cardinality(a) \in Nat /\ Cardinality(b2) \in Nat /\
           Cardinality(b) \in Nat
        /\ Cardinality(Pends(k)) \in Nat
    BY <1>3, <1>4, FS_CardinalityType
  <1>6. LinkAt(k) /\ dinode[k].nlink \in Nat /\ Root(k) \in Nat
    BY LinkAtFacts
  <1> QED BY <1>1, <1>2, <1>4, <1>5, <1>6 DEF LinkAt

\* iput, second part: nobody else knows of the inode that is freed.
LEMMA iput_free_Inv ==
  ASSUME FsInv, NEW p \in FsProcs, iput_free(p)
  PROVE  FsInv'
  <1> DEFINE l == loc[p]
             r == loc'[p]
  <1>1. TypeInv /\ RefInv /\ CohInv /\ FilesInv /\ ShapeP(p) /\ LockP(p) /\ LiveP(p) /\ KnowP(p)
    BY DEF FsInv, ProcInv
  <1>2. PICK s, i : s = l.vic /\ i = itable[s].inum
    OBVIOUS
  <1>3. /\ l.pc = "itrunc" /\ Go(p, At(l, "ifree")) /\ UNCHANGED <<ftable, ofile, cwd>>
        /\ ilk' = [ilk EXCEPT ![s] = NoProc]
        /\ dinode' = [dinode EXCEPT ![i] = NewInode("free")]
        /\ itable' = [itable EXCEPT ![s].type = "free", ![s].valid = FALSE]
    BY <1>2 DEF iput_free
  <1>4. s # 0 /\ l.k \in Conts /\ Place(l) = l.k
    BY <1>1, <1>2, <1>3 DEF ShapeP, Shape, Putting, Place
  <1>5. s \in Slots /\ itable[s].ref > 0 /\ i \in Inums /\ Alone(<<p, "vic">>, s)
    BY <1>1, <1>2, <1>3, <1>4, UsedBy DEF KnowP
  <1>6. /\ r = At(l, "ifree") /\ loc' = [loc EXCEPT ![p] = r] /\ l \in LocType
        /\ Rest(p) /\ FileOf(p)' = FileOf(p) /\ FilesInv'
    BY <1>1, <1>3, GoFacts, RestSame
  <1> HIDE DEF l, r
  <1>7. /\ r \in LocType /\ r.pc = "ifree" /\ r.vic = l.vic /\ r.k = l.k /\ r.ip = l.ip
        /\ r.cur = l.cur /\ r.dp = l.dp /\ r.nk = l.nk /\ r.parent = l.parent /\ r.call = l.call
        /\ r.name = l.name /\ r.rest = l.rest /\ r.new = l.new
    BY <1>6 DEF At, LocType, Pcs, Putting
  <1>8. Place(r) = Place(l)
    BY <1>3, <1>7 DEF Place, Putting
  <1>9. OwnTypes(p)
    BY <1>1, <1>3, <1>5, <1>6, <1>7 DEF OwnTypes, TypeInv, r
  <1>10. KSame
    BY <1>3, <1>6, <1>7, KindSame DEF l, r
  <1>11. PICK e : e = [itable[s] EXCEPT !.type = "free", !.valid = FALSE]
    OBVIOUS
  <1>12. e \in Entry /\ e.inum = i /\ e.ref = itable[s].ref /\ ~e.valid
    BY <1>1, <1>2, <1>5, <1>11, ZenonT(40) DEF TypeInv, Entry, Types
  <1>13. itable' \in [Slots -> Entry] /\ itable'[s] = e /\ \A u \in Slots \ {s} : itable'[u] = itable[u]
    <2>1. itable \in [Slots -> Entry]
      BY <1>1 DEF TypeInv
    <2>2. itable' = [itable EXCEPT ![s] = e]
      BY <1>3, <1>5, <1>11, <2>1
    <2> QED BY <1>5, <1>12, <2>1, <2>2
  <1>14. Stable /\ RefsSame
    BY <1>2, <1>12, <1>13 DEF Stable, RefsSame
  <1>15. /\ dinode' \in [Inums -> Dinode] /\ DiskInv'
         /\ \A k \in Inums \ {i} : dinode'[k] = dinode[k]
         /\ \A k \in Inums : /\ NamesOf(k)' \subseteq NamesOf(k) /\ Subdirs(k)' \subseteq Subdirs(k)
                             /\ dinode'[k].nlink = dinode[k].nlink
    <2>1. dinode[i].nlink = 0
      BY <1>2, <1>5 DEF Alone, Node
    <2> QED BY <1>3, <1>5, <2>1, FreeDisk
  <1>16. RefInv' /\ NewOk(p)
    BY <1>1, <1>3, <1>10, <1>14, RefSame, NewSame DEF l
  <1>17. (Linking(r) <=> Linking(l)) /\ (Pending(r) <=> Pending(l)) /\ (HasIp(r) <=> HasIp(l)) /\
         (Creating(r) <=> Creating(l))
    BY <1>7, <1>8 DEF Linking, Pending, HasIp, Creating
  <1>18. LinkInv'
    <2>1. PendSame(p)
      BY <1>7, <1>17 DEF PendSame, l, r
    <2> QED BY ONLY FsInv, p \in FsProcs, <1>6, <1>14, <1>15, <2>1, LinkFewer
  <1>19. ASSUME NEW u \in Slots \ {s}, itable[u].ref > 0
         PROVE  /\ itable'[u].inum = itable[u].inum /\ dinode'[itable[u].inum] = dinode[itable[u].inum]
                /\ Node(u)' = Node(u) /\ (Live(u)' <=> Live(u)) /\ (Dot(u)' <=> Dot(u))
    <2>1. itable[u].inum \in Inums \ {i}
      BY <1>1, <1>2, <1>5, <1>19 DEF CohInv, Coh
    <2>2. itable'[u].inum = itable[u].inum
      BY <1>14, <1>19 DEF Stable
    <2>3. Node(u)' = Node(u)
      BY <1>15, <2>1, <2>2 DEF Node
    <2> QED BY <1>15, <2>1, <2>2, <2>3 DEF Live, Dot
  <1>20. CohInv'
    <2> SUFFICES ASSUME NEW u \in Slots, itable'[u].ref > 0
                 PROVE  /\ itable'[u].inum \in Inums
                        /\ \A w \in Slots \ {u} : itable'[w].ref > 0 => itable'[w].inum # itable'[u].inum
                        /\ itable'[u].valid => /\ itable'[u].type = dinode'[itable'[u].inum].type
                                               /\ itable'[u].nlink = dinode'[itable'[u].inum].nlink
                                               /\ itable'[u].type # "free"
      BY DEF CohInv, Coh
    <2>1. /\ \A w \in Slots : itable'[w].ref = itable[w].ref
          /\ \A w \in Slots : itable[w].ref > 0 => itable'[w].inum = itable[w].inum
      BY <1>14 DEF Stable, RefsSame
    <2>2. /\ itable'[u].inum \in Inums
          /\ \A w \in Slots \ {u} : itable'[w].ref > 0 => itable'[w].inum # itable'[u].inum
      BY ONLY u \in Slots, itable'[u].ref > 0, <1>1, <2>1 DEF CohInv, Coh
    <2>3. CASE u = s
      BY <1>12, <1>13, <2>2, <2>3
    <2>4. CASE u # s
      <3>1. itable'[u] = itable[u] /\ dinode'[itable[u].inum] = dinode[itable[u].inum] /\ itable[u].ref > 0
        BY <1>13, <1>19, <2>1, <2>4
      <3> QED BY ONLY u \in Slots, <1>1, <2>2, <3>1 DEF CohInv, Coh
    <2> QED BY <2>3, <2>4
  <1>21. ASSUME NEW x \in Ptrs, NEW u \in Slots, x # <<p, "vic">>, To(x) = u, ~Gone(x)
         PROVE  itable[u].ref > 0 /\ u # s /\ Live(u)
    BY <1>1, <1>5, <1>21, SlotPos, Used, LivePtr DEF Alone
  <1>22. FrameA(p)
    <2> SUFFICES ASSUME NEW x \in Ptrs, NEW u \in Slots, x[1] # p, To(x) = u, ~Gone(x)
                 PROVE  /\ itable'[u].inum = itable[u].inum
                        /\ dinode'[itable[u].inum].type = dinode[itable[u].inum].type
                        /\ dinode'[itable[u].inum].ents["."] = dinode[itable[u].inum].ents["."]
      BY DEF FrameA
    <2>1. x # <<p, "vic">>
      OBVIOUS
    <2> QED BY <1>19, <1>21, <2>1
  <1>23. FrameB(p)
    <2> SUFFICES ASSUME NEW q \in FsProcs \ {p}, NEW u \in Slots, Owns(q, u)
                 PROVE  /\ itable'[u].inum = itable[u].inum
                        /\ dinode'[itable[u].inum] = dinode[itable[u].inum]
                        /\ \A y \in Ptrs : y[1] = p => To(y)' # u
      BY DEF FrameB
    <2>1. PICK x \in Ptrs : x[1] = q /\ ~Gone(x) /\ Alone(x, u)
      BY OwnerAlone
    <2>2. x # <<p, "vic">> /\ To(x) = u
      BY <2>1 DEF Alone
    <2>3. itable[u].ref > 0 /\ u # s
      BY <1>21, <2>1, <2>2
    <2>4. \A y \in Ptrs : y[1] = p => To(y)' # u
      BY <1>16, OwnedKept
    <2> QED BY <1>19, <2>3, <2>4
  <1>24. FrameC(p)
    <2> SUFFICES ASSUME NEW u \in Slots, ilk[u] \in FsProcs \ {p}
                 PROVE  /\ itable'[u].inum = itable[u].inum
                        /\ dinode'[itable[u].inum].ents = dinode[itable[u].inum].ents
      BY DEF FrameC
    <2>1. PICK x \in Ptrs : x[1] = ilk[u] /\ To(x) = u /\ ~Gone(x)
      BY LockUsed
    <2>2. x # <<p, "vic">>
      BY <2>1
    <2> QED BY <1>19, <1>21, <2>1, <2>2
  <1>25. ASSUME NEW u \in {l.cur, l.ip, l.dp, cwd[p], FileOf(p)}, u # 0
         PROVE  u \in Slots /\ itable[u].ref > 0 /\ u # s
    <2>1. u \in Slots /\ itable[u].ref > 0
      BY <1>1, <1>25, UsedBy DEF l
    <2>2. /\ <<p, "cur">> \in Ptrs /\ To(<<p, "cur">>) = l.cur /\ ~Gone(<<p, "cur">>) /\
             <<p, "cur">> # <<p, "vic">>
          /\ <<p, "ip">> \in Ptrs /\ To(<<p, "ip">>) = l.ip /\ ~Gone(<<p, "ip">>) /\
             <<p, "ip">> # <<p, "vic">>
          /\ <<p, "dp">> \in Ptrs /\ To(<<p, "dp">>) = l.dp /\ ~Gone(<<p, "dp">>) /\
             <<p, "dp">> # <<p, "vic">>
          /\ <<p, "cwd">> \in Ptrs /\ To(<<p, "cwd">>) = cwd[p] /\ ~Gone(<<p, "cwd">>) /\
             <<p, "cwd">> # <<p, "vic">>
          /\ <<p, "file">> \in Ptrs /\ To(<<p, "file">>) = FileOf(p) /\ ~Gone(<<p, "file">>) /\
             <<p, "file">> # <<p, "vic">>
      BY ToTag DEF Gone, l
    <2>3. \E x \in Ptrs : x # <<p, "vic">> /\ To(x) = u /\ ~Gone(x)
      BY <1>25, <2>2
    <2> QED BY <1>21, <2>1, <2>3
  <1>26. ShapeP(p)'
    <2>1. Shape(r)
      BY <1>1, <1>3, <1>7, <1>8, <1>17 DEF ShapeP, Shape, Putting, l
    <2> QED BY <1>1, <1>3, <1>8, <2>1 DEF ShapeP, l, r
  <1>27. LockP(p)' /\ LockStep(p)
    <2>1. \A u \in Slots : ilk'[u] = IF u = s THEN NoProc ELSE ilk[u]
      BY <1>1, <1>3 DEF TypeInv
    <2>2. ilk[s] = p
      BY <1>1, <1>2, <1>3 DEF LockP, l
    <2>3. LockStep(p)
      BY <2>1, <2>2 DEF LockStep
    <2>4. /\ Place(l) \in HoldsDp => l.dp # 0
          /\ Place(l) \in HoldsIp => l.ip # 0
      BY <1>1 DEF ShapeP, Shape, HasIp, HoldsDp, HoldsIp, DpOnly, IpDp, IpOnly, l
    <2>5. /\ Place(l) \in HoldsDp => l.dp \in Slots /\ l.dp # s
          /\ Place(l) \in HoldsIp => l.ip \in Slots /\ l.ip # s
      BY <1>25, <2>4
    <2>6. LockP(p)'
      BY <1>1, <1>2, <1>3, <1>7, <1>8, <2>1, <2>5, Consts DEF LockP, l, r
    <2> QED BY <2>3, <2>6
  <1>28. LiveP(p)'
    <2>1. PICK c, j, d, w, f : c = r.cur /\ j = r.ip /\ d = r.dp /\ w = cwd'[p] /\ f = FileOf(p)'
      OBVIOUS
    <2>2. c = l.cur /\ j = l.ip /\ d = l.dp /\ w = cwd[p] /\ f = FileOf(p)
      BY <1>3, <1>6, <1>7, <2>1
    <2>3. /\ c # 0 => Live(c) /\ Dot(c)
          /\ j # 0 => Live(j) /\ Dot(j)
          /\ d # 0 => Live(d) /\ Dot(d)
          /\ w # 0 => Live(w) /\ Dot(w)
          /\ f # 0 => Live(f) /\ Dot(f)
      BY <1>1, <1>3, <2>2 DEF LiveP, l
    <2>4. ASSUME NEW u \in {c, j, d, w, f}, u # 0, Live(u), Dot(u)
          PROVE  Live(u)' /\ Dot(u)'
      BY <1>19, <1>25, <2>2, <2>4
    <2>5. /\ c # 0 => Live(c)' /\ Dot(c)'
          /\ j # 0 => Live(j)' /\ Dot(j)'
          /\ d # 0 => Live(d)' /\ Dot(d)'
          /\ w # 0 => Live(w)' /\ Dot(w)'
          /\ f # 0 => Live(f)' /\ Dot(f)'
      BY <2>3, <2>4
    <2> QED BY <1>7, <2>1, <2>5 DEF LiveP, r
  <1>29. KnowP(p)'
    <2>1. PICK j, d : j = l.ip /\ j = r.ip /\ d = l.dp /\ d = r.dp
      BY <1>7
    <2>2. d # 0 => Node(d)'.type = "dir"
      BY <1>1, <1>19, <1>25, <2>1 DEF KnowP, l
    <2>3. Linking(r) => j # 0
      BY <1>1, <1>17, <2>1, PendIp DEF Pending, l
    <2>4. Linking(r) => Node(j)'.type # "dir"
      BY <1>1, <1>17, <1>19, <1>25, <2>1, <2>3 DEF KnowP, l
    <2> QED BY <1>7, <2>1, <2>2, <2>4 DEF KnowP, r
  <1> QED BY <1>6, <1>9, <1>13, <1>15, <1>16, <1>18, <1>20, <1>22, <1>23, <1>24, <1>26, <1>27,
      <1>28, <1>29, LoudStep DEF OwnInv

Mine(p, s) == s \in OldOk(p) /\ \E y \in Ptrs : y[1] = p /\ y[2] # "vic" /\ To(y) = s

LoadTab(s) == [itable EXCEPT ![s] = Loaded(s)]

\* A name looked up in a directory that p holds leads to an allocated inode, and to
\* one that p may share.
LEMMA LookGet ==
  ASSUME FsInv, NEW p \in FsProcs, NEW s, Mine(p, s),
         Node(s).type = "dir", NEW n \in Comps, NEW i, i = Node(s).ents[n], i # 0, ~NoEntry(i),
         NEW t, t = LoadTab(s), itable' = iget(t, i).table,
         NEW g, g = iget(t, i).slot, dinode' = dinode
  PROVE  /\ g \in Slots /\ TabStep /\ RefsUp(g) /\ itable'[g].inum = i
         /\ Safe(p, g) /\ Live(g)' /\ Dot(g)'
  <1>1. TypeInv /\ CohInv
    BY DEF FsInv
  <1>2. s \in Slots /\ itable[s].ref > 0 /\ itable[s].inum \in Inums /\ Live(s)
    BY OldOkFacts DEF Mine
  <1>3. Loaded(s).type # "free"
    BY <1>1, <1>2, LoadFacts DEF Live
  <1>4. /\ i \in Inums /\ dinode[i].type # "free"
        /\ dinode[i].type = "dir" => dinode[i].ents["."] = i
        /\ dinode[i].nlink > 0 \/ i = itable[s].inum
    BY Lookup DEF Mine
  <1>5. /\ TabStep /\ RefsUp(g)
        /\ g \in Slots /\ itable'[g].inum = i
        /\ itable[g].ref > 0 => itable[g].inum = i
    <2>1. /\ t \in [Slots -> Entry] /\ Coh(t, dinode)
          /\ \A u \in Slots : t[u].inum = itable[u].inum /\ t[u].ref = itable[u].ref
          /\ \A j : InTable(t, j) = InTable(itable, j)
          /\ Empty(t) = Empty(itable)
      BY ONLY <1>1, <1>2, <1>3, t = LoadTab(s), TLoad DEF LoadTab
    <2> QED BY ONLY <1>1, <1>4, ~NoEntry(i), itable' = iget(t, i).table, g = iget(t, i).slot, <2>1, StepGet
  <1>6. Live(g)' /\ Dot(g)'
    BY <1>4, <1>5 DEF Live, Dot, Node
  <1>7. itable[g].ref \in Nat
    BY <1>1, <1>5 DEF TypeInv, Entry
  <1>8. Safe(p, g)
    <2>1. CASE itable[g].ref = 0
      BY <2>1 DEF Safe
    <2>2. CASE itable[g].ref > 0 /\ dinode[i].nlink > 0
      BY <1>5, <2>2 DEF Safe, Node
    <2>3. CASE itable[g].ref > 0 /\ i = itable[s].inum
      <3>1. g = s
        BY <1>1, <1>2, <1>5, <2>3 DEF CohInv, Coh
      <3> QED BY <3>1 DEF Safe, Mine
    <2> QED BY <1>4, <1>7, <2>1, <2>2, <2>3
  <1> QED BY <1>5, <1>6, <1>8

\* The directory that a call looks a name up in.
LEMMA CurOk ==
  ASSUME FsInv, NEW p \in FsProcs
  PROVE  /\ loc[p].cur # 0 => Mine(p, loc[p].cur)
         /\ loc[p].dp # 0 => Mine(p, loc[p].dp)
  <1>1. /\ <<p, "cur">> \in Ptrs /\ <<p, "cur">>[1] = p /\ <<p, "cur">>[2] # "vic" /\
           To(<<p, "cur">>) = loc[p].cur
        /\ <<p, "dp">> \in Ptrs /\ <<p, "dp">>[1] = p /\ <<p, "dp">>[2] # "vic" /\ To(<<p, "dp">>) = loc[p].dp
    BY ToTag
  <1> QED BY <1>1 DEF OldOk, Mine

\* ilock reads the inode: the table is as good as before.
LEMMA LoadOk ==
  ASSUME FsInv, NEW p \in FsProcs, NEW s, s # 0, s \in {loc[p].cur, loc[p].dp, loc[p].ip}, ilock(s)
  PROVE  /\ s \in Slots /\ itable[s].ref > 0 /\ ilk[s] = NoProc
         /\ Loaded(s).type = Node(s).type /\ Loaded(s).nlink = Node(s).nlink /\
            Loaded(s).inum = itable[s].inum
         /\ LoadTab(s)[s].inum = itable[s].inum
         /\ LoadTab(s)[s].type = Node(s).type
         /\ itable' = LoadTab(s) => TabStep /\ RefsSame
  <1>1. TypeInv /\ RefInv /\ CohInv
    BY DEF FsInv
  <1>2. s \in Slots /\ itable[s].ref > 0
    BY <1>1, UsedBy
  <1>3. ilk[s] = NoProc /\ Loaded(s).type # "free"
    BY DEF ilock
  <1>4. Loaded(s).inum = itable[s].inum /\ Loaded(s).type = Node(s).type /\ Loaded(s).nlink = Node(s).nlink
    BY <1>1, <1>2, LoadFacts
  <1>5. itable' = LoadTab(s) => TabStep /\ RefsSame
    BY <1>1, <1>2, <1>3, StepLoad DEF LoadTab
  <1>6. LoadTab(s)[s] = Loaded(s)
    BY <1>1, <1>2 DEF TypeInv, LoadTab
  <1> QED BY <1>2, <1>3, <1>4, <1>5, <1>6

-----------------------------------------------------------------------------
(* Every action preserves the invariant.                                   *)

\* namex starts at the root or in the current directory.
LEMMA namex_start_Inv ==
  ASSUME FsInv, NEW p \in FsProcs, namex_start(p)
  PROVE  FsInv'
  <1>1. TypeInv /\ RefInv /\ CohInv /\ DiskInv /\ ShapeP(p) /\ LiveP(p)
    BY DEF FsInv, ProcInv
  <1>2. loc[p].pc = "namex0" /\ UNCHANGED <<dinode, ilk, ftable, ofile, cwd>>
    BY DEF namex_start
  <1>3. Place(loc[p]) = "namex0" /\ cwd[p] # 0 /\ GoodPath(loc[p].rest)
    BY <1>1, <1>2 DEF ShapeP, Shape, Place, Putting
  <1>4. CASE Absolute(loc[p].rest)
    <2>1. PICK g, rest : g = iget(itable, ROOTINO).slot /\ rest = Tail(loc[p].rest)
      OBVIOUS
    <2>2. /\ ~NoEntry(ROOTINO) /\ itable' = iget(itable, ROOTINO).table
          /\ Go(p, WalkOf(loc[p], g, rest))
      BY <1>4, <2>1 DEF namex_start, WalkOf
    <2>3. ROOTINO \in Inums
      BY Consts DEF ROOTINO, Inums
    <2>4. dinode[ROOTINO].nlink > 0
      <3>1. Root(ROOTINO) # 0
        BY DEF Root
      <3>2. dinode[ROOTINO].nlink \in Nat
        BY <1>1, <2>3 DEF TypeInv, Dinode
      <3> QED BY <2>3, <3>1, <3>2, NoLinks
    <2>5. dinode[ROOTINO].type = "dir" /\ dinode[ROOTINO].ents["."] = ROOTINO
      BY <1>1, <2>3, <2>4 DEF DiskInv
    <2>6. /\ TabStep /\ RefsUp(g) /\ g \in Slots /\ itable'[g].inum = ROOTINO
          /\ itable[g].ref > 0 => itable[g].inum = ROOTINO
      <3>1. itable \in [Slots -> Entry] /\ Coh(itable, dinode)
        BY <1>1 DEF TypeInv, CohInv
      <3> QED BY ONLY <1>1, <2>1, <2>2, <2>3, <3>1, StepGet
    <2>7. itable[g].ref \in Nat
      BY <1>1, <2>6 DEF TypeInv, Entry
    <2>8. Safe(p, g)
      BY <2>4, <2>6, <2>7 DEF Safe, Node
    <2>9. Live(g)' /\ Dot(g)'
      BY <1>2, <2>5, <2>6 DEF Live, Dot, Node
    <2>10. rest \in Seq(Comps)
      BY <1>3, <1>4, <2>1, PathTail
    <2> QED BY ONLY FsInv, p \in FsProcs, <1>2, <2>2, <2>6, <2>8, <2>9, <2>10, WalkStart
  <1>5. CASE ~Absolute(loc[p].rest)
    <2>1. PICK g, rest : g = cwd[p] /\ rest = loc[p].rest
      OBVIOUS
    <2>2. itable' = [itable EXCEPT ![g].ref = @ + 1] /\ Go(p, WalkOf(loc[p], g, rest))
      BY <1>5, <2>1 DEF namex_start, WalkOf
    <2>3. g \in Slots /\ itable[g].ref > 0
      BY <1>1, <1>3, <2>1, UsedBy
    <2>4. TabStep /\ RefsUp(g)
      BY ONLY <1>1, <2>2, <2>3, StepUp
    <2>5. Safe(p, g)
      <3>1. <<p, "cwd">> \in Ptrs /\ <<p, "cwd">>[1] = p /\ <<p, "cwd">>[2] # "vic" /\ To(<<p, "cwd">>) = g
        BY <2>1, ToTag
      <3> QED BY <3>1 DEF Safe
    <2>6. Live(g)' /\ Dot(g)'
      BY <1>1, <1>2, <1>3, <2>1, <2>3, <2>4, NodeSame DEF LiveP, TabStep
    <2>7. rest \in Seq(Comps)
      BY <1>3, <1>5, <2>1, PathTail
    <2> QED BY ONLY FsInv, p \in FsProcs, <1>2, <2>2, <2>3, <2>4, <2>5, <2>6, <2>7, WalkStart
  <1> QED BY <1>4, <1>5

NamexTurn(p, s, n, t, i) ==
  \/ t[s].type # "dir" /\ itable' = t /\ Go(p, NotFound(loc[p]))
  \/ /\ t[s].type = "dir" /\ loc[p].parent /\ itable' = t /\ Go(p, Found(loc[p], s, n))
  \/ t[s].type = "dir" /\ i = 0 /\ itable' = t /\ Go(p, NotFound(loc[p]))
  \/ /\ t[s].type = "dir" /\ i # 0 /\ ~NoEntry(i) /\ itable' = iget(t, i).table
     /\ Go(p, [Iput(loc[p], s, "namex") EXCEPT !.cur = iget(t, i).slot, !.rest = Tail(@)])

\* A turn of the loop of namex.
LEMMA namex_Inv ==
  ASSUME FsInv, NEW p \in FsProcs, namex(p)
  PROVE  FsInv'
  <1>1. TypeInv /\ RefInv /\ CohInv /\ DiskInv /\ ShapeP(p) /\ LiveP(p)
    BY DEF FsInv, ProcInv
  <1>2. /\ loc[p].pc = "namex" /\ loc[p].rest # <<>> /\ ilock(loc[p].cur)
        /\ UNCHANGED <<dinode, ilk, ftable, ofile, cwd>>
    BY DEF namex
  <1>3. PICK s, n, t, i, g, rest :
          /\ s = loc[p].cur /\ n = Head(loc[p].rest) /\ t = LoadTab(s)
          /\ i = dinode[t[s].inum].ents[n] /\ g = iget(t, i).slot /\ rest = Tail(loc[p].rest)
    OBVIOUS
  <1>4. /\ Place(loc[p]) = "namex" /\ s # 0 /\ loc[p].rest \in Seq(Comps) /\ loc[p].nk \in Finds
        /\ loc[p].parent <=> loc[p].nk \in Parents
    BY <1>1, <1>2, <1>3 DEF ShapeP, Shape, Place, Putting, Walks
  <1>5. n \in Comps /\ rest \in Seq(Comps)
    BY ONLY <1>2, <1>3, <1>4, HeadTail
  <1>6. /\ s \in Slots /\ itable[s].ref > 0 /\ t[s].inum = itable[s].inum /\ t[s].type = Node(s).type
        /\ itable' = t => TabStep /\ RefsSame
    BY <1>2, <1>3, <1>4, LoadOk
  <1>7. i = Node(s).ents[n]
    BY <1>3, <1>6 DEF Node
  <1>8. \/ itable' = t /\ Go(p, NotFound(loc[p]))
        \/ /\ itable' = t /\ Node(s).type = "dir" /\ loc[p].parent /\ Go(p, Found(loc[p], s, n))
        \/ /\ Node(s).type = "dir" /\ i # 0 /\ ~NoEntry(i) /\ itable' = iget(t, i).table
           /\ Go(p, WalkOnOf(loc[p], g, rest))
    <2>1. NamexTurn(p, loc[p].cur, Head(loc[p].rest), LoadTab(loc[p].cur),
                    dinode[LoadTab(loc[p].cur)[loc[p].cur].inum].ents[Head(loc[p].rest)])
      BY DEF namex, NamexTurn, LoadTab
    <2>2. NamexTurn(p, s, n, t, i)
      BY ONLY <1>3, <2>1
    <2>3. [Iput(loc[p], s, "namex") EXCEPT !.cur = iget(t, i).slot, !.rest = Tail(@)] = WalkOnOf(loc[p], g, rest)
      <3>1. loc[p] \in LocType
        BY <1>1 DEF TypeInv
      <3>2. Iput(loc[p], s, "namex").rest = loc[p].rest
        BY <3>1 DEF LocType, Iput
      <3> QED BY ONLY <1>3, <3>2 DEF WalkOnOf
    <2> QED BY ONLY <1>6, <2>2, <2>3 DEF NamexTurn
  <1>9. CASE itable' = t /\ Go(p, NotFound(loc[p]))
    BY <1>2, <1>6, <1>9, WalkFails
  <1>10. CASE itable' = t /\ Node(s).type = "dir" /\ loc[p].parent /\ Go(p, Found(loc[p], s, n))
    <2>1. Go(p, FoundDpOf(loc[p], n))
      BY <1>3, <1>10 DEF Found, FoundDpOf
    <2> QED BY <1>2, <1>3, <1>4, <1>5, <1>6, <1>10, <2>1, WalkFindsParent
  <1>11. CASE /\ Node(s).type = "dir" /\ i # 0 /\ ~NoEntry(i) /\ itable' = iget(t, i).table
              /\ Go(p, WalkOnOf(loc[p], g, rest))
    <2>1. Mine(p, s)
      BY <1>3, <1>4, CurOk
    <2>3. /\ g \in Slots /\ TabStep /\ RefsUp(g) /\ Safe(p, g) /\ Live(g)' /\ Dot(g)'
      <3>1. /\ FsInv /\ p \in FsProcs /\ Mine(p, s) /\ Node(s).type = "dir" /\ n \in Comps
            /\ i = Node(s).ents[n] /\ i # 0 /\ ~NoEntry(i) /\ t = LoadTab(s)
            /\ itable' = iget(t, i).table /\ g = iget(t, i).slot /\ dinode' = dinode
        BY <1>2, <1>3, <1>5, <1>7, <1>11, <2>1
      <3> QED BY ONLY <3>1, LookGet
    <2> QED BY <1>2, <1>5, <1>11, <2>3, WalkGoesOn
  <1> QED BY <1>8, <1>9, <1>10, <1>11

\* namex ends.
LEMMA namex_end_Inv ==
  ASSUME FsInv, NEW p \in FsProcs, namex_end(p)
  PROVE  FsInv'
  <1>1. TypeInv /\ CohInv /\ ShapeP(p)
    BY DEF FsInv, ProcInv
  <1>2. loc[p].pc = "namex" /\ itable' = itable /\ UNCHANGED <<dinode, ilk, ftable, ofile, cwd>>
    BY DEF namex_end
  <1>3. loc[p].nk \in Finds /\ (loc[p].parent <=> loc[p].nk \in Parents)
    BY <1>1, <1>2 DEF ShapeP, Shape, Place, Putting, Walks
  <1>4. TabStep /\ RefsSame
    BY <1>1, <1>2, StepSame
  <1>5. CASE loc[p].parent
    <2>1. Go(p, NotFound(loc[p]))
      BY <1>5 DEF namex_end
    <2> QED BY <1>2, <1>4, <2>1, WalkFails
  <1>6. CASE ~loc[p].parent
    <2>1. Go(p, FoundIpOf(loc[p]))
      BY <1>6 DEF namex_end, Found, FoundIpOf
    <2> QED BY <1>2, <1>3, <1>4, <1>6, <2>1, WalkFinds
  <1> QED BY <1>5, <1>6

CreateCallOf(l, path, c) == [Namex(l, path, TRUE, "create1") EXCEPT !.call = c]
OpenCallOf(l, path, c) == [Namex(l, path, FALSE, "open") EXCEPT !.call = c]
LinkCallOf(l, path, new) == [Namex(l, path, FALSE, "link1") EXCEPT !.new = new]

CallRec(l, r, path, nk) ==
  /\ r \in LocType /\ r.pc = "namex0" /\ r.rest = path /\ r.nk = nk
  /\ r.cur = l.cur /\ r.ip = l.ip /\ r.dp = l.dp /\ r.vic = l.vic

\* The locals at the start of a call.
LEMMA CallFields ==
  ASSUME NEW l \in LocType, NEW path, GoodPath(path), NEW r
  PROVE  /\ \A c \in Creates : r = CreateCallOf(l, path, c) =>
                CallRec(l, r, path, "create1") /\ r.parent /\ r.call = c
         /\ \A c \in {"open", "openw"} : r = OpenCallOf(l, path, c) =>
                CallRec(l, r, path, "open") /\ ~r.parent
         /\ r = Namex(l, path, FALSE, "chdir") => CallRec(l, r, path, "chdir") /\ ~r.parent
         /\ r = Namex(l, path, TRUE, "unlink1") => CallRec(l, r, path, "unlink1") /\ r.parent
         /\ \A new : GoodPath(new) /\ r = LinkCallOf(l, path, new) =>
                CallRec(l, r, path, "link1") /\ ~r.parent /\ r.new = new
  <1>1. "namex0" \in Pcs /\ {"create1", "open", "chdir", "unlink1", "link1"} \subseteq Finds
    BY DEF Pcs, Walks, Finds
  <1>2. \A q : GoodPath(q) => q \in Seq(Names \cup {".", "/"})
    BY DEF GoodPath
  <1>3. ASSUME NEW c \in Creates, r = CreateCallOf(l, path, c)
        PROVE  CallRec(l, r, path, "create1") /\ r.parent /\ r.call = c
    BY <1>1, <1>2, <1>3 DEF Namex, LocType, CallRec, CreateCallOf, OpenCallOf, LinkCallOf
  <1>4. ASSUME NEW c \in {"open", "openw"}, r = OpenCallOf(l, path, c)
        PROVE  CallRec(l, r, path, "open") /\ ~r.parent
    BY <1>1, <1>2, <1>4 DEF Namex, LocType, CallRec, CreateCallOf, OpenCallOf, LinkCallOf
  <1>5. ASSUME r = Namex(l, path, FALSE, "chdir")
        PROVE  CallRec(l, r, path, "chdir") /\ ~r.parent
    BY <1>1, <1>2, <1>5 DEF Namex, LocType, CallRec, CreateCallOf, OpenCallOf, LinkCallOf
  <1>6. ASSUME r = Namex(l, path, TRUE, "unlink1")
        PROVE  CallRec(l, r, path, "unlink1") /\ r.parent
    BY <1>1, <1>2, <1>6 DEF Namex, LocType, CallRec, CreateCallOf, OpenCallOf, LinkCallOf
  <1>7. ASSUME NEW new, GoodPath(new), r = LinkCallOf(l, path, new)
        PROVE  CallRec(l, r, path, "link1") /\ ~r.parent /\ r.new = new
    BY <1>1, <1>2, <1>7 DEF Namex, LocType, CallRec, CreateCallOf, OpenCallOf, LinkCallOf
  <1> QED BY <1>3, <1>4, <1>5, <1>6, <1>7

\* The same for create,
LEMMA CreateFields ==
  ASSUME NEW l \in LocType, NEW path, GoodPath(path), NEW c \in Creates, NEW r, r = CreateCallOf(l, path, c)
  PROVE  CallRec(l, r, path, "create1") /\ r.parent /\ r.call = c
  BY CallFields

\* and for link.
LEMMA LinkFields ==
  ASSUME NEW l \in LocType, NEW path, GoodPath(path), NEW new, GoodPath(new), NEW r,
         r = LinkCallOf(l, path, new)
  PROVE  CallRec(l, r, path, "link1") /\ ~r.parent /\ r.new = new
  BY CallFields

\* A process enters a system call.
LEMMA Call_Inv ==
  ASSUME FsInv, GoodPaths, NEW p \in FsProcs, Call(p)
  PROVE  FsInv'
  <1>1. TypeInv /\ CohInv /\ ShapeP(p)
    BY DEF FsInv, ProcInv
  <1>2. loc[p].pc = "user" /\ itable' = itable /\ UNCHANGED <<dinode, ilk, ftable, ofile, cwd>>
    BY DEF Call
  <1>3. loc[p].cur = 0 /\ loc[p].ip = 0 /\ loc[p].dp = 0 /\ loc[p].vic = 0 /\ loc[p] \in LocType
    BY <1>1, <1>2 DEF TypeInv, ShapeP, Shape, HasIp, Place, Putting, Walks, DpOnly, IpDp, IpOnly
  <1>4. TabStep /\ RefsSame
    BY <1>1, <1>2, StepSame
  <1>5. PICK path \in FsPaths :
          \/ \E c \in Creates : Go(p, [Namex(loc[p], path, TRUE, "create1") EXCEPT !.call = c])
          \/ \E c \in {"open", "openw"} : Go(p, [Namex(loc[p], path, FALSE, "open") EXCEPT !.call = c])
          \/ Go(p, Namex(loc[p], path, FALSE, "chdir"))
          \/ Go(p, Namex(loc[p], path, TRUE, "unlink1"))
          \/ \E new \in FsPaths : Go(p, [Namex(loc[p], path, FALSE, "link1") EXCEPT !.new = new])
    BY DEF Call
  <1>6. GoodPath(path) /\ \A q \in FsPaths : GoodPath(q)
    BY DEF GoodPaths
  <1>7. {"create1", "open", "chdir", "unlink1", "link1"} \subseteq Finds \ {"link2"}
        /\ Parents = {"create1", "unlink1", "link2"}
    BY DEF Finds, Parents
  <1>8. \E r \in LocType :
          /\ r.pc = "namex0" /\ r.cur = 0 /\ r.ip = 0 /\ r.dp = 0 /\ r.vic = 0 /\ r.nk \in Finds \ {"link2"}
          /\ r.parent <=> r.nk \in Parents
          /\ r.nk = "create1" => r.call \in Creates
          /\ GoodPath(r.rest)
          /\ r.nk = "link1" => GoodPath(r.new)
          /\ Go(p, r)
    <2>1. CASE \E c \in Creates : Go(p, [Namex(loc[p], path, TRUE, "create1") EXCEPT !.call = c])
      <3>1. PICK c \in Creates : Go(p, [Namex(loc[p], path, TRUE, "create1") EXCEPT !.call = c])
        BY <2>1
      <3>2. PICK r : r = CreateCallOf(loc[p], path, c)
        OBVIOUS
      <3>3. CallRec(loc[p], r, path, "create1") /\ r.parent /\ r.call = c
        BY ONLY <1>3, <1>6, <3>2, c \in Creates, CreateFields
      <3>4. Go(p, r)
        BY ONLY <3>1, <3>2 DEF CreateCallOf, OpenCallOf, LinkCallOf
      <3> QED BY ONLY <1>3, <1>6, <1>7, <3>3, <3>4, c \in Creates DEF CallRec
    <2>2. CASE \E c \in {"open", "openw"} : Go(p, [Namex(loc[p], path, FALSE, "open") EXCEPT !.call = c])
      <3>1. PICK c \in {"open", "openw"} : Go(p, [Namex(loc[p], path, FALSE, "open") EXCEPT !.call = c])
        BY <2>2
      <3>2. PICK r : r = OpenCallOf(loc[p], path, c)
        OBVIOUS
      <3>3. CallRec(loc[p], r, path, "open") /\ ~r.parent
        BY <1>3, <1>6, <3>2, CallFields
      <3>4. Go(p, r)
        BY ONLY <3>1, <3>2 DEF CreateCallOf, OpenCallOf, LinkCallOf
      <3> QED BY ONLY <1>3, <1>6, <1>7, <3>3, <3>4 DEF CallRec
    <2>3. CASE Go(p, Namex(loc[p], path, FALSE, "chdir"))
      <3>2. PICK r : r = Namex(loc[p], path, FALSE, "chdir")
        OBVIOUS
      <3>3. CallRec(loc[p], r, path, "chdir") /\ ~r.parent
        BY <1>3, <1>6, <3>2, CallFields, ZenonT(40)
      <3>4. Go(p, r)
        BY ONLY <2>3, <3>2
      <3> QED BY ONLY <1>3, <1>6, <1>7, <3>3, <3>4 DEF CallRec
    <2>4. CASE Go(p, Namex(loc[p], path, TRUE, "unlink1"))
      <3>2. PICK r : r = Namex(loc[p], path, TRUE, "unlink1")
        OBVIOUS
      <3>3. CallRec(loc[p], r, path, "unlink1") /\ r.parent
        BY <1>3, <1>6, <3>2, CallFields
      <3>4. Go(p, r)
        BY ONLY <2>4, <3>2
      <3> QED BY ONLY <1>3, <1>6, <1>7, <3>3, <3>4 DEF CallRec
    <2>5. CASE \E new \in FsPaths : Go(p, [Namex(loc[p], path, FALSE, "link1") EXCEPT !.new = new])
      <3>1. PICK new \in FsPaths : Go(p, [Namex(loc[p], path, FALSE, "link1") EXCEPT !.new = new])
        BY <2>5
      <3>2. PICK r : r = LinkCallOf(loc[p], path, new)
        OBVIOUS
      <3>3. CallRec(loc[p], r, path, "link1") /\ ~r.parent /\ r.new = new
        BY ONLY <1>3, <1>6, <3>2, new \in FsPaths, LinkFields
      <3>4. Go(p, r)
        BY ONLY <3>1, <3>2 DEF CreateCallOf, OpenCallOf, LinkCallOf
      <3> QED BY ONLY <1>3, <1>6, <1>7, <3>3, <3>4, new \in FsPaths DEF CallRec
    <2> QED BY <1>5, <2>1, <2>2, <2>3, <2>4, <2>5
  <1> QED BY <1>2, <1>4, <1>8, CallStep

\* close.
LEMMA sys_close_Inv ==
  ASSUME FsInv, NEW p \in FsProcs, sys_close(p)
  PROVE  FsInv'
  <1>1. TypeInv /\ CohInv
    BY DEF FsInv, ProcInv
  <1>2. PICK f : f = ftable[ofile[p]]
    OBVIOUS
  <1>3. /\ loc[p].pc = "user" /\ ofile[p] # 0 /\ ofile' = [ofile EXCEPT ![p] = 0]
        /\ ftable' = [ftable EXCEPT ![ofile[p]] = 0] /\ Go(p, Iput(loc[p], f, "user"))
        /\ UNCHANGED <<cwd, ilk>> /\ itable' = itable /\ dinode' = dinode
    BY <1>2 DEF sys_close
  <1>4. TabStep /\ RefsSame
    BY <1>1, <1>3, StepSame
  <1> QED BY ONLY FsInv, p \in FsProcs, <1>2, <1>3, <1>4, CloseStep

\* The pointers of a call by its place.
LEMMA Pointers ==
  ASSUME FsInv, NEW p \in FsProcs
  PROVE  /\ loc[p].pc \in IpDp \cup IpOnly => loc[p].ip # 0
         /\ loc[p].pc \in DpOnly \cup IpDp => loc[p].dp # 0 /\ loc[p].name \in Comps /\
            Node(loc[p].dp).type = "dir"
         /\ TypeInv /\ CohInv /\ ProcInv
  <1>1. TypeInv /\ CohInv /\ ShapeP(p) /\ KnowP(p) /\ ProcInv
    BY DEF FsInv, ProcInv
  <1>2. loc[p].pc \in DpOnly \cup IpDp \cup IpOnly => Place(loc[p]) = loc[p].pc
    BY DEF Place, Putting, DpOnly, IpDp, IpOnly
  <1> QED BY <1>1, <1>2 DEF ShapeP, Shape, HasIp, KnowP

\* create has found the name.
LEMMA create2_Inv ==
  ASSUME FsInv, NEW p \in FsProcs, create2(p)
  PROVE  FsInv'
  <1>1. /\ loc[p].pc = "create2" /\ ilock(loc[p].ip) /\ itable' = LoadTab(loc[p].ip)
        /\ UNCHANGED <<dinode, ftable, ofile, cwd>>
        /\ \/ ilk' = [ilk EXCEPT ![loc[p].ip] = p] /\ Go(p, At(loc[p], "open2"))
           \/ Go(p, PutIpOf(loc[p], "user")) /\ ilk' = ilk
    BY DEF create2, LoadTab, PutIpOf
  <1>2. loc[p].ip # 0
    BY <1>1, Pointers DEF IpOnly
  <1>3. ilk[loc[p].ip] = NoProc /\ TabStep /\ RefsSame
    BY <1>1, <1>2, LoadOk
  <1>4. CASE ilk' = [ilk EXCEPT ![loc[p].ip] = p] /\ Go(p, At(loc[p], "open2"))
    BY <1>1, <1>3, <1>4, OpenLocks
  <1>5. CASE Go(p, PutIpOf(loc[p], "user")) /\ ilk' = ilk
    <2>1. PutsIp(loc[p], "user") /\ loc[p].pc \notin HoldsIp
      BY <1>1 DEF PutsIp, HoldsIp
    <2> QED BY <1>1, <1>3, <1>5, <2>1, PutIp
  <1> QED BY <1>1, <1>4, <1>5

\* create and unlink give up.
LEMMA unlock_parent_Inv ==
  ASSUME FsInv, NEW p \in FsProcs, unlock_parent(p)
  PROVE  FsInv'
  <1>1. /\ loc[p].pc \in {"ialloc", "createfail", "unlinkbad"}
        /\ ilk' = [ilk EXCEPT ![loc[p].dp] = NoProc] /\ Go(p, PutDpOf(loc[p], "user"))
        /\ itable' = itable /\ UNCHANGED <<dinode, ftable, ofile, cwd>>
    BY DEF unlock_parent, PutDpOf
  <1>2. TabStep /\ RefsSame
    BY <1>1, Pointers, StepSame
  <1>3. PutsDp(loc[p], "user") /\ loc[p].pc \in HoldsDp
    BY <1>1 DEF PutsDp, HoldsDp
  <1> QED BY <1>1, <1>2, <1>3, PutDp

\* mkdir and mknod give the new inode back.
LEMMA created_Inv ==
  ASSUME FsInv, NEW p \in FsProcs, created(p)
  PROVE  FsInv'
  <1>1. /\ loc[p].pc = "created"
        /\ ilk' = [ilk EXCEPT ![loc[p].ip] = NoProc] /\ Go(p, PutIpOf(loc[p], "user"))
        /\ itable' = itable /\ UNCHANGED <<dinode, ftable, ofile, cwd>>
    BY DEF created, PutIpOf
  <1>2. TabStep /\ RefsSame
    BY <1>1, Pointers, StepSame
  <1>3. PutsIp(loc[p], "user") /\ loc[p].pc \in HoldsIp
    BY <1>1 DEF PutsIp, HoldsIp
  <1> QED BY <1>1, <1>2, <1>3, PutIp

\* open locks the inode.
LEMMA sys_open_Inv ==
  ASSUME FsInv, NEW p \in FsProcs, sys_open(p)
  PROVE  FsInv'
  <1>1. /\ loc[p].pc = "open" /\ ilock(loc[p].ip) /\ itable' = LoadTab(loc[p].ip)
        /\ UNCHANGED <<dinode, ftable, ofile, cwd>>
        /\ \/ ilk' = [ilk EXCEPT ![loc[p].ip] = p] /\ Go(p, At(loc[p], "open2"))
           \/ Go(p, PutIpOf(loc[p], "user")) /\ ilk' = ilk
    BY DEF sys_open, LoadTab, PutIpOf
  <1>2. loc[p].ip # 0
    BY <1>1, Pointers DEF IpOnly
  <1>3. ilk[loc[p].ip] = NoProc /\ TabStep /\ RefsSame
    BY <1>1, <1>2, LoadOk
  <1>4. CASE ilk' = [ilk EXCEPT ![loc[p].ip] = p] /\ Go(p, At(loc[p], "open2"))
    BY <1>1, <1>3, <1>4, OpenLocks
  <1>5. CASE Go(p, PutIpOf(loc[p], "user")) /\ ilk' = ilk
    <2>1. PutsIp(loc[p], "user") /\ loc[p].pc \notin HoldsIp
      BY <1>1 DEF PutsIp, HoldsIp
    <2> QED BY <1>1, <1>3, <1>5, <2>1, PutIp
  <1> QED BY <1>1, <1>4, <1>5

\* The smallest element of a set of numbers.
LEMMA Smallest ==
  ASSUME NEW S \in SUBSET Nat, S # {}
  PROVE  (CHOOSE x \in S : \A y \in S : x <= y) \in S
  <1>1. \E x \in S : \A y \in S : x <= y
    BY HasSmallest
  <1> QED BY <1>1

\* open gets a file and a descriptor, or gives the inode back.
LEMMA sys_open2_Inv ==
  ASSUME FsInv, NEW p \in FsProcs, sys_open2(p)
  PROVE  FsInv'
  <1> DEFINE free == {f \in Files : ftable[f] = 0}
  <1>1. PICK f : f = CHOOSE x \in free : \A y \in free : x <= y
    OBVIOUS
  <1>2. /\ loc[p].pc = "open2" /\ ilk' = [ilk EXCEPT ![loc[p].ip] = NoProc]
        /\ itable' = itable /\ UNCHANGED <<dinode, cwd>>
        /\ \/ Go(p, PutIpOf(loc[p], "user")) /\ UNCHANGED <<ftable, ofile>>
           \/ /\ free # {} /\ ofile[p] = 0 /\ ftable' = [ftable EXCEPT ![f] = loc[p].ip]
              /\ ofile' = [ofile EXCEPT ![p] = f] /\ Go(p, Idle)
    BY <1>1 DEF sys_open2, PutIpOf
  <1>3. TabStep /\ RefsSame
    BY <1>2, Pointers, StepSame
  <1>4. CASE Go(p, PutIpOf(loc[p], "user")) /\ UNCHANGED <<ftable, ofile>>
    <2>1. PutsIp(loc[p], "user") /\ loc[p].pc \in HoldsIp
      BY <1>2 DEF PutsIp, HoldsIp
    <2> QED BY <1>2, <1>3, <1>4, <2>1, PutIp
  <1>5. CASE /\ free # {} /\ ofile[p] = 0 /\ ftable' = [ftable EXCEPT ![f] = loc[p].ip]
             /\ ofile' = [ofile EXCEPT ![p] = f] /\ Go(p, Idle)
    <2>1. f \in free
      <3>1. free \in SUBSET Nat
        BY Consts DEF Files
      <3> HIDE DEF free
      <3> QED BY <1>1, <1>5, <3>1, Smallest
    <2>2. f \in Files /\ ftable[f] = 0
      BY <2>1
    <2>3. PICK s : s = loc[p].ip
      OBVIOUS
    <2> QED BY ONLY FsInv, p \in FsProcs, <1>2, <1>3, <1>5, <2>2, <2>3, OpenDone
  <1> QED BY <1>2, <1>4, <1>5

\* chdir gives the old directory back.
LEMMA sys_chdir_Inv ==
  ASSUME FsInv, NEW p \in FsProcs, sys_chdir(p)
  PROVE  FsInv'
  <1>0. PICK w : w = cwd[p]
    OBVIOUS
  <1>1. /\ loc[p].pc = "chdir" /\ ilock(loc[p].ip) /\ itable' = LoadTab(loc[p].ip)
        /\ UNCHANGED <<dinode, ftable, ofile, ilk>>
        /\ \/ Go(p, Iput(loc[p], w, "chdir2")) /\ cwd' = [cwd EXCEPT ![p] = 0]
           \/ Go(p, PutIpOf(loc[p], "user")) /\ cwd' = cwd
    BY <1>0 DEF sys_chdir, LoadTab, PutIpOf
  <1>2. loc[p].ip # 0
    BY <1>1, Pointers DEF IpOnly
  <1>3. TabStep /\ RefsSame
    BY <1>1, <1>2, LoadOk
  <1>4. CASE Go(p, Iput(loc[p], w, "chdir2")) /\ cwd' = [cwd EXCEPT ![p] = 0]
    BY ONLY FsInv, p \in FsProcs, <1>0, <1>1, <1>3, <1>4, ChdirPuts
  <1>5. CASE Go(p, PutIpOf(loc[p], "user")) /\ cwd' = cwd
    <2>1. PutsIp(loc[p], "user") /\ loc[p].pc \notin HoldsIp
      BY <1>1 DEF PutsIp, HoldsIp
    <2> QED BY <1>1, <1>3, <1>5, <2>1, PutIp
  <1> QED BY <1>1, <1>4, <1>5

\* chdir takes the new one.
LEMMA sys_chdir2_Inv ==
  ASSUME FsInv, NEW p \in FsProcs, sys_chdir2(p)
  PROVE  FsInv'
  <1>0. PICK s : s = loc[p].ip
    OBVIOUS
  <1>1. /\ loc[p].pc = "chdir2" /\ cwd' = [cwd EXCEPT ![p] = s] /\ Go(p, Idle)
        /\ itable' = itable /\ UNCHANGED <<dinode, ilk, ftable, ofile>>
    BY <1>0 DEF sys_chdir2
  <1>2. TabStep /\ RefsSame
    BY <1>1, Pointers, StepSame
  <1> QED BY ONLY FsInv, p \in FsProcs, <1>0, <1>1, <1>2, ChdirDone

\* link has found the name taken.
LEMMA sys_link_taken_Inv ==
  ASSUME FsInv, NEW p \in FsProcs, sys_link_taken(p)
  PROVE  FsInv'
  <1>1. /\ loc[p].pc = "linktaken"
        /\ ilk' = [ilk EXCEPT ![loc[p].dp] = NoProc] /\ Go(p, PutDpOf(loc[p], "linkbad"))
        /\ itable' = itable /\ UNCHANGED <<dinode, ftable, ofile, cwd>>
    BY DEF sys_link_taken, PutDpOf
  <1>2. TabStep /\ RefsSame
    BY <1>1, Pointers, StepSame
  <1>3. PutsDp(loc[p], "linkbad") /\ loc[p].pc \in HoldsDp
    BY <1>1 DEF PutsDp, HoldsDp
  <1> QED BY <1>1, <1>2, <1>3, PutDp

\* link gives the inode back.
LEMMA sys_link_done_Inv ==
  ASSUME FsInv, NEW p \in FsProcs, sys_link_done(p)
  PROVE  FsInv'
  <1>1. /\ loc[p].pc = "link3" /\ Go(p, PutIpOf(loc[p], "user"))
        /\ itable' = itable /\ UNCHANGED <<dinode, ilk, ftable, ofile, cwd>>
    BY DEF sys_link_done, PutIpOf
  <1>2. TabStep /\ RefsSame
    BY <1>1, Pointers, StepSame
  <1>3. PutsIp(loc[p], "user") /\ loc[p].pc \notin HoldsIp
    BY <1>1 DEF PutsIp, HoldsIp
  <1> QED BY <1>1, <1>2, <1>3, PutIp

GetOk(p, g, i) == /\ g \in Slots /\ TabStep /\ RefsUp(g) /\ itable'[g].inum = i
                  /\ Safe(p, g) /\ Live(g)' /\ Dot(g)'

\* A call locks the parent and looks the last name up in it.
Looks(p, d, t, i, g) == /\ d = loc[p].dp /\ ilock(d) /\ t = LoadTab(d)
                        /\ i = dinode[t[d].inum].ents[loc[p].name] /\ g = iget(t, i).slot
LookOk(p, d, t, i, g) ==
  /\ ilk[d] = NoProc /\ i = Node(d).ents[loc[p].name] /\ t[d].inum = itable[d].inum
  /\ itable' = t => TabStep /\ RefsSame
  /\ i # 0 /\ ~NoEntry(i) /\ itable' = iget(t, i).table /\ dinode' = dinode => GetOk(p, g, i)

\* What the lookup leaves behind.
LEMMA ParentLook ==
  ASSUME FsInv, NEW p \in FsProcs, loc[p].pc \in {"create1", "link2", "unlink1"},
         NEW d, NEW t, NEW i, NEW g, Looks(p, d, t, i, g)
  PROVE  LookOk(p, d, t, i, g)
  <1>0. /\ d = loc[p].dp /\ ilock(d) /\ t = LoadTab(d)
        /\ i = dinode[t[d].inum].ents[loc[p].name] /\ g = iget(t, i).slot
    BY DEF Looks
  <1>1. d # 0 /\ loc[p].name \in Comps /\ Node(d).type = "dir"
    BY <1>0, Pointers DEF DpOnly, IpDp
  <1>2. /\ d \in Slots /\ ilk[d] = NoProc /\ t[d].inum = itable[d].inum
        /\ itable' = t => TabStep /\ RefsSame
    BY <1>0, <1>1, LoadOk
  <1>3. i = Node(d).ents[loc[p].name]
    BY <1>0, <1>2 DEF Node
  <1>4. ASSUME i # 0, ~NoEntry(i), itable' = iget(t, i).table, dinode' = dinode
        PROVE  GetOk(p, g, i)
    <2>1. Mine(p, d)
      BY <1>0, <1>1, CurOk
    <2>2. PICK n : n = loc[p].name
      OBVIOUS
    <2>3. /\ FsInv /\ p \in FsProcs /\ Mine(p, d) /\ Node(d).type = "dir" /\ n \in Comps
          /\ i = Node(d).ents[n] /\ i # 0 /\ ~NoEntry(i) /\ t = LoadTab(d)
          /\ itable' = iget(t, i).table /\ g = iget(t, i).slot /\ dinode' = dinode
      BY <1>0, <1>1, <1>3, <1>4, <2>1, <2>2
    <2> QED BY ONLY <2>3, LookGet DEF GetOk
  <1> QED BY <1>2, <1>3, <1>4 DEF LookOk

Create1Body(p, d, t, i) ==
  \/ /\ i # 0 /\ ~NoEntry(i) /\ itable' = iget(t, i).table
     /\ Go(p, [Iput(loc[p], d, "create2") EXCEPT !.ip = iget(t, i).slot, !.dp = 0]) /\ UNCHANGED ilk
  \/ /\ i = 0 /\ itable' = t /\ ilk' = [ilk EXCEPT ![d] = p] /\ Go(p, At(loc[p], "ialloc"))

\* create looks the name up.
LEMMA create1_Inv ==
  ASSUME FsInv, NEW p \in FsProcs, create1(p)
  PROVE  FsInv'
  <1>1. loc[p].pc = "create1" /\ ilock(loc[p].dp) /\ UNCHANGED <<dinode, ftable, ofile, cwd>>
    BY DEF create1
  <1>2. PICK d, t, i, g : d = loc[p].dp /\ t = LoadTab(d) /\
        i = dinode[t[d].inum].ents[loc[p].name] /\ g = iget(t, i).slot
    OBVIOUS
  <1>3. Create1Body(p, loc[p].dp, LoadTab(loc[p].dp), dinode[LoadTab(loc[p].dp)[loc[p].dp].inum].ents[loc[p].name])
    BY DEF create1, Create1Body, LoadTab
  <1>4. Create1Body(p, d, t, i)
    BY ONLY <1>2, <1>3
  <1>5. /\ ilk[d] = NoProc /\ i = Node(d).ents[loc[p].name] /\ t[d].inum = itable[d].inum
        /\ itable' = t => TabStep /\ RefsSame
        /\ i # 0 /\ ~NoEntry(i) /\ itable' = iget(t, i).table /\ dinode' = dinode => GetOk(p, g, i)
    <2>1. FsInv /\ p \in FsProcs /\ loc[p].pc \in {"create1", "link2", "unlink1"} /\ Looks(p, d, t, i, g)
      BY <1>1, <1>2 DEF Looks
    <2>2. LookOk(p, d, t, i, g)
      BY ONLY <2>1, ParentLook
    <2> QED BY ONLY <2>2 DEF LookOk
  <1>6. \/ i # 0 /\ ~NoEntry(i) /\ itable' = iget(t, i).table /\ Go(p, CreateFoundOf(loc[p], g)) /\ ilk' = ilk
        \/ i = 0 /\ itable' = t /\ ilk' = [ilk EXCEPT ![loc[p].dp] = p] /\ Go(p, At(loc[p], "ialloc"))
    BY ONLY <1>2, <1>4 DEF Create1Body, CreateFoundOf
  <1>7. CASE i # 0 /\ ~NoEntry(i) /\ itable' = iget(t, i).table /\ Go(p, CreateFoundOf(loc[p], g)) /\
        ilk' = ilk
    <2>1. GetOk(p, g, i)
      BY ONLY <1>1, <1>5, <1>7
    <2>2. g \in Slots /\ TabStep /\ RefsUp(g) /\ Safe(p, g) /\ Live(g)' /\ Dot(g)'
      BY ONLY <2>1 DEF GetOk
    <2> QED BY ONLY FsInv, p \in FsProcs, <1>1, <1>7, <2>2, CreateFinds
  <1>8. CASE i = 0 /\ itable' = t /\ ilk' = [ilk EXCEPT ![loc[p].dp] = p] /\ Go(p, At(loc[p], "ialloc"))
    BY ONLY FsInv, p \in FsProcs, <1>1, <1>2, <1>5, <1>8, CreateLocks
  <1> QED BY <1>6, <1>7, <1>8

Unlink1Body(p, d, t, i, j) ==
  \/ /\ j = 0 /\ itable' = t /\ Go(p, [Iput(loc[p], d, "user") EXCEPT !.dp = 0]) /\ UNCHANGED ilk
  \/ /\ j # 0 /\ j = i /\ loc[p].name \notin {".", ".."} /\ ~NoEntry(i) /\ itable' = iget(t, i).table
     /\ ilk' = [ilk EXCEPT ![d] = p] /\ Go(p, [loc[p] EXCEPT !.pc = "unlink2", !.ip = iget(t, i).slot])

\* unlink looks the name up.
LEMMA sys_unlink_Inv ==
  ASSUME FsInv, NEW p \in FsProcs, sys_unlink(p)
  PROVE  FsInv'
  <1>1. loc[p].pc = "unlink1" /\ ilock(loc[p].dp) /\ UNCHANGED <<dinode, ftable, ofile, cwd>>
    BY DEF sys_unlink
  <1>2. PICK d, t, i, g : d = loc[p].dp /\ t = LoadTab(d) /\
        i = dinode[t[d].inum].ents[loc[p].name] /\ g = iget(t, i).slot
    OBVIOUS
  <1>3. \E j : Unlink1Body(p, loc[p].dp, LoadTab(loc[p].dp), dinode[LoadTab(loc[p].dp)[loc[p].dp].inum].ents[loc[p].name], j)
    <2>1. CASE loc[p].name \in {".", ".."}
      <3>1. Unlink1Body(p, loc[p].dp, LoadTab(loc[p].dp), dinode[LoadTab(loc[p].dp)[loc[p].dp].inum].ents[loc[p].name], 0)
        BY <2>1 DEF sys_unlink, Unlink1Body, LoadTab
      <3> QED BY <3>1
    <2>2. CASE loc[p].name \notin {".", ".."}
      <3>1. Unlink1Body(p, loc[p].dp, LoadTab(loc[p].dp), dinode[LoadTab(loc[p].dp)[loc[p].dp].inum].ents[loc[p].name],
                        dinode[LoadTab(loc[p].dp)[loc[p].dp].inum].ents[loc[p].name])
        BY <2>2 DEF sys_unlink, Unlink1Body, LoadTab
      <3> QED BY <3>1
    <2> QED BY <2>1, <2>2
  <1>4. PICK j : Unlink1Body(p, d, t, i, j)
    BY ONLY <1>2, <1>3
  <1>5. /\ ilk[d] = NoProc /\ i = Node(d).ents[loc[p].name] /\ t[d].inum = itable[d].inum
        /\ itable' = t => TabStep /\ RefsSame
        /\ i # 0 /\ ~NoEntry(i) /\ itable' = iget(t, i).table /\ dinode' = dinode => GetOk(p, g, i)
    <2>1. FsInv /\ p \in FsProcs /\ loc[p].pc \in {"create1", "link2", "unlink1"} /\ Looks(p, d, t, i, g)
      BY <1>1, <1>2 DEF Looks
    <2>2. LookOk(p, d, t, i, g)
      BY ONLY <2>1, ParentLook
    <2> QED BY ONLY <2>2 DEF LookOk
  <1>6. \/ itable' = t /\ Go(p, PutDpOf(loc[p], "user")) /\ ilk' = ilk
        \/ /\ i # 0 /\ loc[p].name \notin {".", ".."} /\ ~NoEntry(i) /\ itable' = iget(t, i).table
           /\ ilk' = [ilk EXCEPT ![loc[p].dp] = p] /\ Go(p, UnlinkFoundOf(loc[p], g))
    BY ONLY <1>2, <1>4 DEF Unlink1Body, UnlinkFoundOf, PutDpOf
  <1>7. CASE itable' = t /\ Go(p, PutDpOf(loc[p], "user")) /\ ilk' = ilk
    <2>1. PutsDp(loc[p], "user") /\ loc[p].pc \notin HoldsDp
      BY <1>1 DEF PutsDp, HoldsDp
    <2> QED BY ONLY FsInv, p \in FsProcs, <1>1, <1>5, <1>7, <2>1, PutDp
  <1>8. CASE /\ i # 0 /\ loc[p].name \notin {".", ".."} /\ ~NoEntry(i) /\ itable' = iget(t, i).table
             /\ ilk' = [ilk EXCEPT ![loc[p].dp] = p] /\ Go(p, UnlinkFoundOf(loc[p], g))
    <2>1. GetOk(p, g, i)
      BY ONLY <1>1, <1>5, <1>8
    <2>2. g \in Slots /\ TabStep /\ RefsUp(g) /\ Safe(p, g) /\ (Live(g)' /\ Dot(g)') /\ itable'[g].inum = i
      BY ONLY <2>1 DEF GetOk
    <2>3. loc[p].name \in Names
      <3>1. loc[p].name \in Comps
        BY <1>1, Pointers DEF DpOnly
      <3> QED BY <1>8, <3>1 DEF Comps
    <2>4. ilk[loc[p].dp] = NoProc /\ itable'[g].inum = Node(loc[p].dp).ents[loc[p].name]
      BY ONLY <1>2, <1>5, <2>2
    <2> QED BY ONLY FsInv, p \in FsProcs, <1>1, <1>8, <2>2, <2>3, <2>4, UnlinkFinds
  <1> QED BY <1>6, <1>7, <1>8

Link2Body(p, d, t, i) ==
  \/ /\ i # 0 /\ ~NoEntry(i) /\ itable' = iget(t, i).table /\ ilk' = [ilk EXCEPT ![d] = p]
     /\ Go(p, Iput(loc[p], iget(t, i).slot, "linktaken")) /\ UNCHANGED dinode
  \/ /\ itable' = t /\ Go(p, [Iput(loc[p], d, "linkbad") EXCEPT !.dp = 0]) /\ UNCHANGED <<dinode, ilk>>
  \/ /\ i = 0 /\ itable' = t
     /\ dinode' = [dinode EXCEPT ![t[d].inum] = dirlink(@, loc[p].name, itable[loc[p].ip].inum)]
     /\ Go(p, [Iput(loc[p], d, "link3") EXCEPT !.dp = 0]) /\ UNCHANGED ilk

\* link writes the name, or finds it taken or the disk full.
LEMMA sys_link2_Inv ==
  ASSUME FsInv, NEW p \in FsProcs, sys_link2(p)
  PROVE  FsInv'
  <1>1. loc[p].pc = "link2" /\ ilock(loc[p].dp) /\ UNCHANGED <<ftable, ofile, cwd>>
    BY DEF sys_link2
  <1>2. PICK d, t, i, g : d = loc[p].dp /\ t = LoadTab(d) /\
        i = dinode[t[d].inum].ents[loc[p].name] /\ g = iget(t, i).slot
    OBVIOUS
  <1>3. Link2Body(p, loc[p].dp, LoadTab(loc[p].dp), dinode[LoadTab(loc[p].dp)[loc[p].dp].inum].ents[loc[p].name])
    BY DEF sys_link2, Link2Body, LoadTab
  <1>4. Link2Body(p, d, t, i)
    BY ONLY <1>2, <1>3
  <1>5. /\ ilk[d] = NoProc /\ i = Node(d).ents[loc[p].name] /\ t[d].inum = itable[d].inum
        /\ itable' = t => TabStep /\ RefsSame
        /\ i # 0 /\ ~NoEntry(i) /\ itable' = iget(t, i).table /\ dinode' = dinode => GetOk(p, g, i)
    <2>1. FsInv /\ p \in FsProcs /\ loc[p].pc \in {"create1", "link2", "unlink1"} /\ Looks(p, d, t, i, g)
      BY <1>1, <1>2 DEF Looks
    <2>2. LookOk(p, d, t, i, g)
      BY ONLY <2>1, ParentLook
    <2> QED BY ONLY <2>2 DEF LookOk
  <1>6. \/ /\ i # 0 /\ ~NoEntry(i) /\ itable' = iget(t, i).table /\ ilk' = [ilk EXCEPT ![loc[p].dp] = p]
           /\ Go(p, Iput(loc[p], g, "linktaken")) /\ dinode' = dinode
        \/ itable' = t /\ Go(p, PutDpOf(loc[p], "linkbad")) /\ dinode' = dinode /\ ilk' = ilk
        \/ /\ i = 0 /\ itable' = t
           /\ dinode' = [dinode EXCEPT ![t[d].inum] = dirlink(@, loc[p].name, itable[loc[p].ip].inum)]
           /\ Go(p, PutDpOf(loc[p], "link3")) /\ ilk' = ilk
    BY ONLY <1>2, <1>4 DEF Link2Body, PutDpOf
  <1>7. CASE /\ i # 0 /\ ~NoEntry(i) /\ itable' = iget(t, i).table /\ ilk' = [ilk EXCEPT ![loc[p].dp] = p]
             /\ Go(p, Iput(loc[p], g, "linktaken")) /\ dinode' = dinode
    <2>1. GetOk(p, g, i)
      BY ONLY <1>5, <1>7
    <2>2. g \in Slots /\ TabStep /\ RefsUp(g) /\ Safe(p, g) /\ (Live(g)' /\ Dot(g)')
      BY ONLY <2>1 DEF GetOk
    <2>3. ilk[loc[p].dp] = NoProc
      BY ONLY <1>2, <1>5
    <2> QED BY ONLY FsInv, p \in FsProcs, <1>1, <1>7, <2>2, <2>3, LinkTakes
  <1>8. CASE itable' = t /\ Go(p, PutDpOf(loc[p], "linkbad")) /\ dinode' = dinode /\ ilk' = ilk
    <2>1. PutsDp(loc[p], "linkbad") /\ loc[p].pc \notin HoldsDp
      BY <1>1 DEF PutsDp, HoldsDp
    <2> QED BY ONLY FsInv, p \in FsProcs, <1>1, <1>5, <1>8, <2>1, PutDp
  <1>9. CASE /\ i = 0 /\ itable' = t
             /\ dinode' = [dinode EXCEPT ![t[d].inum] = dirlink(@, loc[p].name, itable[loc[p].ip].inum)]
             /\ Go(p, PutDpOf(loc[p], "link3")) /\ ilk' = ilk
    <2>1. /\ Node(loc[p].dp).ents[loc[p].name] = 0 /\ ilk[loc[p].dp] = NoProc
          /\ itable' = [itable EXCEPT ![loc[p].dp] = Loaded(loc[p].dp)]
          /\ dinode' = [dinode EXCEPT ![itable[loc[p].dp].inum] = dirlink(@, loc[p].name, itable[loc[p].ip].inum)]
      BY ONLY <1>2, <1>5, <1>9 DEF LoadTab
    <2> QED BY ONLY FsInv, p \in FsProcs, <1>1, <1>9, <2>1, LinkWrites
  <1> QED BY <1>6, <1>7, <1>8, <1>9

\* ialloc takes an inode that may still have an entry of a leaving iput.
LEMMA ialloc_Inv ==
  ASSUME FsInv, NEW p \in FsProcs, ialloc(p)
  PROVE  FsInv'
  <1>1. TypeInv /\ CohInv
    BY DEF FsInv
  <1>2. PICK i : i = CHOOSE x \in FreeInums : \A y \in FreeInums : x <= y
    OBVIOUS
  <1>3. PICK g : g = iget(itable, i).slot
    OBVIOUS
  <1>4. /\ loc[p].pc = "ialloc" /\ FreeInums # {} /\ ~NoEntry(i)
        /\ dinode' = [dinode EXCEPT ![i] = NewInode(NewType[loc[p].call])]
        /\ itable' = iget(itable, i).table
        /\ Go(p, IallocOf(loc[p], g))
        /\ UNCHANGED <<ftable, ofile, cwd, ilk>>
    BY <1>2, <1>3 DEF ialloc, IallocOf
  <1>5. i \in FreeInums
    <2>1. FreeInums \in SUBSET Nat
      BY DEF FreeInums, Inums
    <2> QED BY ONLY <1>2, <1>4, <2>1, Smallest
  <1>6. i \in Inums /\ dinode[i].type = "free"
    BY <1>5 DEF FreeInums
  <1>7. itable \in [Slots -> Entry] /\ Coh(itable, dinode)
    BY <1>1 DEF TypeInv, CohInv
  <1>8. /\ TabStep /\ RefsUp(g) /\ g \in Slots /\ itable'[g].inum = i
        /\ itable[g].ref > 0 => itable[g].inum = i
    BY ONLY <1>1, <1>3, <1>4, <1>6, <1>7, StepGet
  <1> QED BY ONLY FsInv, p \in FsProcs, <1>4, <1>6, <1>8, IallocStep

\* create writes the new inode, or gives it back.
LEMMA create3_Inv ==
  ASSUME FsInv, NEW p \in FsProcs, create3(p)
  PROVE  FsInv'
  <1>1. PICK s, k : s = loc[p].ip /\ k = IF loc[p].call = "creat" THEN "open2" ELSE "created"
    OBVIOUS
  <1>2. /\ loc[p].pc = "create3" /\ ilock(loc[p].ip) /\ UNCHANGED <<ftable, ofile, cwd>>
        /\ \/ /\ dinode' = LinkNew(p) /\ itable' = LinkNewTable(loc[p].ip, loc[p].dp, loc[p].call)
              /\ ilk' = [ilk EXCEPT ![loc[p].ip] = p, ![loc[p].dp] = NoProc]
              /\ Go(p, PutDpOf(loc[p], k))
           \/ /\ itable' = [itable EXCEPT ![s] = [Loaded(s) EXCEPT !.nlink = 0]]
              /\ Go(p, PutIpOf(loc[p], "createfail")) /\ dinode' = dinode /\ ilk' = ilk
    BY <1>1 DEF create3, LinkNewTable, PutDpOf, PutIpOf
  <1>3. s # 0 /\ TypeInv /\ CohInv /\ KnowP(p)
    BY <1>1, <1>2, Pointers DEF IpDp, ProcInv
  <1>4. /\ ilk[s] = NoProc /\ s \in Slots /\ itable[s].ref > 0 /\ Loaded(s).nlink = Node(s).nlink
        /\ itable' = LoadTab(s) => TabStep /\ RefsSame
    BY <1>1, <1>2, <1>3, LoadOk
  <1>5. CASE /\ dinode' = LinkNew(p) /\ itable' = LinkNewTable(loc[p].ip, loc[p].dp, loc[p].call)
             /\ ilk' = [ilk EXCEPT ![loc[p].ip] = p, ![loc[p].dp] = NoProc]
             /\ Go(p, PutDpOf(loc[p], k))
    <2>1. k \in {"open2", "created"} /\ ilk[loc[p].ip] = NoProc
      BY <1>1, <1>4
    <2> QED BY ONLY FsInv, p \in FsProcs, <1>2, <1>5, <2>1, CreateLinks
  <1>6. CASE /\ itable' = [itable EXCEPT ![s] = [Loaded(s) EXCEPT !.nlink = 0]]
             /\ Go(p, PutIpOf(loc[p], "createfail")) /\ dinode' = dinode /\ ilk' = ilk
    <2>1. Node(s).nlink = 0
      BY <1>1, <1>2, <1>3 DEF KnowP, Alone
    <2>2. Loaded(s) \in Entry
      BY <1>3, <1>4, LoadFacts
    <2>3. [Loaded(s) EXCEPT !.nlink = 0] = Loaded(s)
      BY <1>4, <2>1, <2>2 DEF Entry
    <2>4. itable' = LoadTab(s)
      BY <1>6, <2>3 DEF LoadTab
    <2>5. PutsIp(loc[p], "createfail") /\ loc[p].pc \notin HoldsIp
      BY <1>2 DEF PutsIp, HoldsIp
    <2> QED BY ONLY FsInv, p \in FsProcs, <1>2, <1>4, <1>6, <2>4, <2>5, PutIp
  <1> QED BY <1>2, <1>5, <1>6

\* link counts the link first.
LEMMA sys_link_Inv ==
  ASSUME FsInv, NEW p \in FsProcs, sys_link(p)
  PROVE  FsInv'
  <1>1. /\ loc[p].pc = "link1" /\ ilock(loc[p].ip) /\ UNCHANGED <<ilk, ftable, ofile, cwd>>
        /\ \/ itable' = LoadTab(loc[p].ip) /\ Go(p, PutIpOf(loc[p], "user")) /\ dinode' = dinode
           \/ /\ Loaded(loc[p].ip).type # "dir" /\ SetLinks(loc[p].ip, Loaded(loc[p].ip).nlink + 1)
              /\ Go(p, LinkWalkOf(loc[p]))
    BY DEF sys_link, LoadTab, PutIpOf, LinkWalkOf, AddLink
  <1>2. loc[p].ip # 0
    BY <1>1, Pointers DEF IpOnly
  <1>3. /\ Loaded(loc[p].ip).nlink = Node(loc[p].ip).nlink /\ Loaded(loc[p].ip).type = Node(loc[p].ip).type
        /\ itable' = LoadTab(loc[p].ip) => TabStep /\ RefsSame
    BY <1>1, <1>2, LoadOk
  <1>4. CASE itable' = LoadTab(loc[p].ip) /\ Go(p, PutIpOf(loc[p], "user")) /\ dinode' = dinode
    <2>1. PutsIp(loc[p], "user") /\ loc[p].pc \notin HoldsIp
      BY <1>1 DEF PutsIp, HoldsIp
    <2> QED BY <1>1, <1>3, <1>4, <2>1, PutIp
  <1>5. CASE /\ Loaded(loc[p].ip).type # "dir" /\ SetLinks(loc[p].ip, Loaded(loc[p].ip).nlink + 1)
             /\ Go(p, LinkWalkOf(loc[p]))
    <2>1. Node(loc[p].ip).type # "dir" /\ SetLinks(loc[p].ip, Node(loc[p].ip).nlink + 1)
      BY <1>3, <1>5
    <2> QED BY <1>1, <1>5, <2>1, LinkCounts
  <1> QED BY <1>1, <1>4, <1>5

\* link takes the count back.
LEMMA sys_link_bad_Inv ==
  ASSUME FsInv, NEW p \in FsProcs, sys_link_bad(p)
  PROVE  FsInv'
  <1>1. /\ loc[p].pc = "linkbad" /\ ilock(loc[p].ip) /\ SetLinks(loc[p].ip, Loaded(loc[p].ip).nlink - 1)
        /\ Go(p, PutIpOf(loc[p], "user")) /\ UNCHANGED <<ilk, ftable, ofile, cwd>>
    BY DEF sys_link_bad, DropLink, PutIpOf
  <1>2. loc[p].ip # 0
    BY <1>1, Pointers DEF IpOnly
  <1>3. Loaded(loc[p].ip).nlink = Node(loc[p].ip).nlink
    BY <1>1, <1>2, LoadOk
  <1>4. SetLinks(loc[p].ip, Node(loc[p].ip).nlink - 1)
    BY <1>1, <1>3
  <1> QED BY <1>1, <1>4, LinkUncounts

\* unlink erases the entry, or finds a directory that is not empty.
LEMMA sys_unlink2_Inv ==
  ASSUME FsInv, NEW p \in FsProcs, sys_unlink2(p)
  PROVE  FsInv'
  <1>1. /\ loc[p].pc = "unlink2" /\ ilock(loc[p].ip) /\ UNCHANGED <<ftable, ofile, cwd>>
        /\ \/ /\ itable' = LoadTab(loc[p].ip) /\ Go(p, PutIpOf(loc[p], "unlinkbad"))
              /\ dinode' = dinode /\ ilk' = ilk
           \/ /\ UnlinkFrom(loc[p].dp, loc[p].ip, loc[p].name)
              /\ ilk' = [ilk EXCEPT ![loc[p].ip] = p, ![loc[p].dp] = NoProc]
              /\ Go(p, PutDpOf(loc[p], "unlink3"))
    BY DEF sys_unlink2, LoadTab, PutIpOf, PutDpOf
  <1>2. loc[p].ip # 0
    BY <1>1, Pointers DEF IpDp
  <1>3. ilk[loc[p].ip] = NoProc /\ (itable' = LoadTab(loc[p].ip) => TabStep /\ RefsSame)
    BY <1>1, <1>2, LoadOk
  <1>4. CASE /\ itable' = LoadTab(loc[p].ip) /\ Go(p, PutIpOf(loc[p], "unlinkbad"))
             /\ dinode' = dinode /\ ilk' = ilk
    <2>1. PutsIp(loc[p], "unlinkbad") /\ loc[p].pc \notin HoldsIp
      BY <1>1 DEF PutsIp, HoldsIp
    <2> QED BY <1>1, <1>3, <1>4, <2>1, PutIp
  <1>5. CASE /\ UnlinkFrom(loc[p].dp, loc[p].ip, loc[p].name)
             /\ ilk' = [ilk EXCEPT ![loc[p].ip] = p, ![loc[p].dp] = NoProc]
             /\ Go(p, PutDpOf(loc[p], "unlink3"))
    BY ONLY FsInv, p \in FsProcs, <1>1, <1>3, <1>5, UnlinkErases
  <1> QED BY <1>1, <1>4, <1>5

\* unlink drops the link.
LEMMA sys_unlink3_Inv ==
  ASSUME FsInv, NEW p \in FsProcs, sys_unlink3(p)
  PROVE  FsInv'
  <1>1. /\ loc[p].pc = "unlink3" /\ SetLinks(loc[p].ip, Loaded(loc[p].ip).nlink - 1)
        /\ ilk' = [ilk EXCEPT ![loc[p].ip] = NoProc]
        /\ Go(p, PutIpOf(loc[p], "user")) /\ UNCHANGED <<ftable, ofile, cwd>>
    BY DEF sys_unlink3, DropLink, PutIpOf
  <1>2. loc[p].ip # 0 /\ TypeInv /\ CohInv /\ RefInv
    BY <1>1, Pointers DEF IpOnly, FsInv
  <1>3. Loaded(loc[p].ip).nlink = Node(loc[p].ip).nlink
    <2>1. loc[p].ip \in Slots /\ itable[loc[p].ip].ref > 0
      BY <1>2, UsedBy
    <2> QED BY <1>2, <2>1, LoadFacts
  <1>4. SetLinks(loc[p].ip, Node(loc[p].ip).nlink - 1)
    BY <1>1, <1>3
  <1> QED BY <1>1, <1>4, UnlinkUncounts

-----------------------------------------------------------------------------
(* The invariant holds in every state.                                     *)

\* At first every pointer is a current directory, and that is the root.
LEMMA InitTo ==
  ASSUME FsInit, NEW x \in Ptrs
  PROVE  To(x) = IF x[2] = "cwd" THEN 1 ELSE 0
  <1>1. PICK p \in FsProcs, c \in Tags : x = <<p, c>>
    BY DEF Ptrs
  <1>2. loc[p] = Idle /\ cwd[p] = 1 /\ FileOf(p) = 0
    BY <1>1 DEF FsInit, FileOf
  <1>3. x[1] = p /\ x[2] = c
    BY <1>1
  <1>4. loc[p].cur = 0 /\ loc[p].ip = 0 /\ loc[p].dp = 0 /\ loc[p].vic = 0
    <2>1. Idle.cur = 0 /\ Idle.ip = 0 /\ Idle.dp = 0 /\ Idle.vic = 0
      BY DEF Idle
    <2> QED BY <1>2, <2>1
  <1>5. \A t \in Tags \ {"cwd"} : To(<<p, t>>) = 0
    BY <1>2, <1>4, ToTag DEF Tags
  <1>6. To(<<p, "cwd">>) = 1
    BY <1>2, ToTag
  <1> QED BY <1>1, <1>3, <1>5, <1>6

\* The root has a reference for every process,
LEMMA InitRefs ==
  ASSUME FsInit
  PROVE  RefInv
  <1> SUFFICES ASSUME NEW s \in Slots
               PROVE  itable[s].ref = Count(Held, s)
    BY DEF RefInv
  <1>1. itable[s].ref = IF s = 1 THEN Cardinality(FsProcs) ELSE 0
    BY DEF FsInit
  <1>2. CASE s = 1
    <2> DEFINE S == {x \in Ptrs : Held[x] = s}
               F == [p \in FsProcs |-> <<p, "cwd">>]
    <2>1. S = {<<p, "cwd">> : p \in FsProcs}
      <3>1. \A x \in Ptrs : Held[x] = s <=> x[2] = "cwd"
        BY <1>2, InitTo, HeldIs
      <3>2. \A x \in Ptrs : x[2] = "cwd" => \E p \in FsProcs : x = <<p, "cwd">>
        BY DEF Ptrs
      <3>3. \A p \in FsProcs : <<p, "cwd">> \in Ptrs /\ <<p, "cwd">>[2] = "cwd"
        BY DEF Ptrs, Tags
      <3> QED BY <3>1, <3>2, <3>3
    <2>2. F \in Bijection(FsProcs, S)
      <3>1. F \in [FsProcs -> S]
        BY <2>1
      <3>2. \A p, q \in FsProcs : F[p] = F[q] => p = q
        OBVIOUS
      <3>3. \A x \in S : \E p \in FsProcs : F[p] = x
        BY <2>1
      <3> HIDE DEF F, S
      <3> QED BY <3>1, <3>2, <3>3 DEF Bijection, Injection, Surjection, IsInjective
    <2> HIDE DEF F, S
    <2>3. Cardinality(S) = Cardinality(FsProcs)
      BY <2>2, Consts, FS_Bijection DEF ExistsBijection
    <2> QED BY <1>1, <1>2, <2>3 DEF Count, S
  <1>3. CASE s # 1
    <2>1. \A x \in Ptrs : Held[x] # s
      BY <1>3, InitTo, HeldIs, SlotPos
    <2>2. Count(Held, s) \in Nat /\ ~(Count(Held, s) > 0)
      BY <2>1, CountNat, CountPos
    <2> QED BY <1>1, <1>3, <2>2
  <1> QED BY <1>2, <1>3

\* mkfs has given each name an inode of its own,
LEMMA MkfsFacts ==
  ASSUME NEW f \in MkfsFiles
  PROVE  /\ DOMAIN f \subseteq Names
         /\ \A n \in DOMAIN f : f[n] \in Inums /\ f[n] # ROOTINO /\ f[n] \in 0..NINODES
         /\ \A m, n \in DOMAIN f : f[m] = f[n] => m = n
  <1>1. PICK M \in SUBSET Names : f \in [M -> Inums \ {ROOTINO}]
    BY DEF MkfsFiles
  <1>2. \A n \in DOMAIN f : f[n] \in Inums /\ f[n] # ROOTINO
    BY <1>1
  <1>3. \A i \in Inums : i \in 0..NINODES
    BY Consts DEF Inums
  <1> QED BY <1>1, <1>2, <1>3 DEF MkfsFiles

\* everything has its type,
LEMMA InitType ==
  ASSUME FsInit
  PROVE  TypeInv
  <1>1. 0 \in 0..NINODE /\ 1 \in 0..NINODE /\ 0 \in 0..NINODES /\ 1 \in 0..NINODES /\ 0 \in 0..NFILE
    BY Consts
  <1>2. NoEnts \in [Names \cup {".", ".."} -> 0..NINODES]
    BY <1>1 DEF NoEnts
  <1>3. NewInode("free") \in Dinode /\ [NewInode("file") EXCEPT !.nlink = 1] \in Dinode
    BY <1>2 DEF NewInode, Dinode, Types
  <1>4. PICK f \in MkfsFiles : dinode = MkfsDisk(f)
    BY DEF FsInit
  <1>5. dinode \in [Inums -> Dinode]
    <2>1. \A n \in DOMAIN f : f[n] \in 0..NINODES
      BY <1>4, MkfsFacts
    <2>2. [n \in Names \cup {".", ".."} |->
             IF n \in {".", ".."} THEN ROOTINO ELSE IF n \in DOMAIN f THEN f[n] ELSE 0]
           \in [Names \cup {".", ".."} -> 0..NINODES]
      BY <1>1, <2>1 DEF ROOTINO
    <2>3. MkfsRoot(f) \in Dinode
      BY <2>2 DEF MkfsRoot, Dinode, Types
    <2> QED BY <1>3, <1>4, <2>3 DEF MkfsDisk
  <1>6. Cardinality(FsProcs) \in Nat
    BY Consts, FS_CardinalityType
  <1>7. itable \in [Slots -> Entry]
    BY <1>1, <1>6 DEF FsInit, Entry, Types, ROOTINO
  <1>8. Idle \in LocType
    <2>1. <<>> \in Seq(Names \cup {".", "/"})
      OBVIOUS
    <2> QED BY <1>1, <2>1 DEF Idle, LocType, Pcs
  <1> QED BY <1>1, <1>5, <1>7, <1>8 DEF FsInit, TypeInv

\* every process is outside system calls,
LEMMA InitProc ==
  ASSUME FsInit
  PROVE  ProcInv
  <1> SUFFICES ASSUME NEW p \in FsProcs
               PROVE  ShapeP(p) /\ LockP(p) /\ LiveP(p) /\ KnowP(p)
    BY DEF ProcInv
  <1>1. loc[p] = Idle /\ cwd[p] = 1 /\ FileOf(p) = 0
    BY DEF FsInit, FileOf
  <1>2. /\ loc[p].pc = "user" /\ loc[p].cur = 0 /\ loc[p].ip = 0 /\ loc[p].dp = 0 /\ loc[p].vic = 0
        /\ Place(loc[p]) = "user"
    <2>1. Idle.pc = "user" /\ Idle.cur = 0 /\ Idle.ip = 0 /\ Idle.dp = 0 /\ Idle.vic = 0
      BY DEF Idle
    <2> QED BY <1>1, <2>1 DEF Place, Putting
  <1>3. ShapeP(p)
    BY <1>1, <1>2 DEF ShapeP, Shape, HasIp, Creating, Putting, Walks, DpOnly, IpDp, IpOnly
  <1>4. LockP(p)
    <2>1. \A s \in Slots : ilk[s] # p
      BY Consts DEF FsInit
    <2> QED BY <1>2, <2>1 DEF LockP, HoldsDp, HoldsIp
  <1>5. LiveP(p)
    <2>1. 1 \in Slots /\ 1 \in Inums
      BY Consts DEF Slots, Inums
    <2>2. itable[1].inum = 1
      BY <2>1 DEF FsInit, ROOTINO
    <2>3. dinode[1].type = "dir" /\ dinode[1].ents["."] = 1
      BY <2>1 DEF FsInit, ROOTINO, MkfsDisk, MkfsRoot
    <2> QED BY <1>1, <1>2, <2>2, <2>3 DEF LiveP, Live, Dot, Node
  <1>6. KnowP(p)
    BY <1>2 DEF KnowP, Linking, Walks
  <1> QED BY <1>3, <1>4, <1>5, <1>6

\* and the disk has a root directory, with files that have one name each.
LEMMA InitDisk ==
  ASSUME FsInit
  PROVE  \E f \in MkfsFiles :
           /\ \A i \in Inums : i # ROOTINO =>
                IF \E n \in DOMAIN f : f[n] = i THEN dinode[i].type = "file" /\ dinode[i].nlink = 1
                                                ELSE dinode[i] = NewInode("free") /\ dinode[i].nlink = 0
           /\ dinode[ROOTINO].type = "dir" /\ dinode[ROOTINO].nlink = 1 /\ dinode[ROOTINO].ents["."] = ROOTINO
           /\ \A i \in Inums, n \in Names :
                dinode[i].ents[n] = IF i = ROOTINO /\ n \in DOMAIN f THEN f[n] ELSE 0
  <1>1. ROOTINO \in Inums
    BY Consts DEF ROOTINO, Inums
  <1>2. PICK f \in MkfsFiles : dinode = MkfsDisk(f)
    BY DEF FsInit
  <1>3. dinode[ROOTINO] = MkfsRoot(f)
    BY <1>1, <1>2 DEF MkfsDisk
  <1>4. \A n \in Names : n # "." /\ n # ".."
    BY Consts
  <1>5. \A n \in Names : dinode[ROOTINO].ents[n] = IF n \in DOMAIN f THEN f[n] ELSE 0
    BY <1>3, <1>4 DEF MkfsRoot
  <1>6. \A i \in Inums : i # ROOTINO =>
          IF \E n \in DOMAIN f : f[n] = i THEN dinode[i] = [NewInode("file") EXCEPT !.nlink = 1]
                                          ELSE dinode[i] = NewInode("free")
    BY <1>2 DEF MkfsDisk
  <1>7. /\ [NewInode("file") EXCEPT !.nlink = 1].type = "file" /\ [NewInode("file") EXCEPT !.nlink = 1].nlink = 1
        /\ NewInode("free").nlink = 0
        /\ \A n \in Names : [NewInode("file") EXCEPT !.nlink = 1].ents[n] = 0 /\ NewInode("free").ents[n] = 0
    BY DEF NewInode, NoEnts
  <1>8. \A i \in Inums, n \in Names : i # ROOTINO => dinode[i].ents[n] = 0
    <2> SUFFICES ASSUME NEW i \in Inums, NEW n \in Names, i # ROOTINO PROVE dinode[i].ents[n] = 0
      OBVIOUS
    <2> HIDE DEF NewInode
    <2> QED BY <1>6, <1>7
  <1>9. dinode[ROOTINO].type = "dir" /\ dinode[ROOTINO].nlink = 1 /\ dinode[ROOTINO].ents["."] = ROOTINO
    BY <1>3 DEF MkfsRoot
  <1>10. \A i \in Inums : i # ROOTINO =>
           IF \E n \in DOMAIN f : f[n] = i THEN dinode[i].type = "file" /\ dinode[i].nlink = 1
                                           ELSE dinode[i] = NewInode("free") /\ dinode[i].nlink = 0
    <2> HIDE DEF NewInode
    <2> QED BY <1>6, <1>7
  <1> QED BY <1>5, <1>8, <1>9, <1>10

\* The invariant holds at first.
LEMMA Init_Inv == FsInit => FsInv
  <1> SUFFICES ASSUME FsInit PROVE FsInv
    OBVIOUS
  <1>0. \A p \in FsProcs : ~Pending(loc[p])
    BY DEF FsInit, Idle, Pending, Linking, Place, Putting, Walks
  <1>1. TypeInv /\ ProcInv /\ RefInv
    BY InitType, InitProc, InitRefs
  <1>2. FilesInv
    BY DEF FsInit, FilesInv
  <1>3. CohInv
    <2>1. \A s \in Slots : /\ itable[s].ref > 0 => s = 1 /\ itable[s].inum = ROOTINO
                           /\ ~itable[s].valid
      BY DEF FsInit
    <2>2. ROOTINO \in Inums
      BY Consts DEF ROOTINO, Inums
    <2> QED BY <2>1, <2>2 DEF CohInv, Coh
  <1> PICK f \in MkfsFiles :
           /\ \A i \in Inums : i # ROOTINO =>
                IF \E n \in DOMAIN f : f[n] = i THEN dinode[i].type = "file" /\ dinode[i].nlink = 1
                                                ELSE dinode[i] = NewInode("free") /\ dinode[i].nlink = 0
           /\ dinode[ROOTINO].type = "dir" /\ dinode[ROOTINO].nlink = 1 /\ dinode[ROOTINO].ents["."] = ROOTINO
           /\ \A i \in Inums, n \in Names :
                dinode[i].ents[n] = IF i = ROOTINO /\ n \in DOMAIN f THEN f[n] ELSE 0
    BY InitDisk
  <1>4. DiskInv
    <2>1. NewInode("free").type = "free"
      BY DEF NewInode
    <2> HIDE DEF NewInode
    <2>2. \A i \in Inums : /\ dinode[i].type = "free" => dinode[i] = NewInode("free")
                           /\ dinode[i].type = "dir" => i = ROOTINO
      BY <2>1
    <2>3. ASSUME NEW i \in Inums, NEW n \in Names, dinode[i].ents[n] # 0
          PROVE  dinode[dinode[i].ents[n]].type # "free"
      <3>1. n \in DOMAIN f /\ dinode[i].ents[n] = f[n]
        BY <2>3
      <3>2. f[n] \in Inums /\ f[n] # ROOTINO
        BY <3>1, MkfsFacts
      <3>3. dinode[f[n]].type = "file"
        BY <3>1, <3>2
      <3> QED BY <3>1, <3>3
    <2> QED BY <2>2, <2>3 DEF DiskInv
  <1>5. LinkInv
    <2> SUFFICES ASSUME NEW i \in Inums
                 PROVE  dinode[i].nlink >= Cardinality(NamesOf(i)) + Cardinality(Subdirs(i))
                                           + Cardinality(Pends(i)) + Root(i)
      BY DEF LinkInv
    <2>0. i # 0 /\ ROOTINO \in Inums
      BY Consts DEF Inums, ROOTINO
    <2>1. Subdirs(i) = {}
      <3> SUFFICES ASSUME NEW n \in Names, dinode[i].ents[n] # 0, dinode[dinode[i].ents[n]].type = "dir"
                   PROVE  FALSE
        BY DEF Subdirs
      <3>1. n \in DOMAIN f /\ dinode[i].ents[n] = f[n]
        OBVIOUS
      <3>2. f[n] \in Inums /\ f[n] # ROOTINO
        BY <3>1, MkfsFacts
      <3>3. dinode[f[n]].type = "file"
        BY <3>1, <3>2
      <3> QED BY <3>1, <3>3
    <2>2. Pends(i) = {}
      BY <1>0 DEF Pends
    <2>3. \A x \in NamesOf(i) : x[2] \in DOMAIN f /\ x = <<ROOTINO, x[2]>> /\ f[x[2]] = i
      <3> TAKE x \in NamesOf(i)
      <3>1. PICK j \in Inums, n \in Names : x = <<j, n>> /\ dinode[j].ents[n] = i
        BY DEF NamesOf
      <3>2. j = ROOTINO /\ n \in DOMAIN f /\ f[n] = i
        BY <2>0, <3>1
      <3> QED BY <3>1, <3>2
    <2>4. Cardinality({}) = 0
      BY FS_EmptySet
    <2>5. CASE i = ROOTINO
      <3>1. NamesOf(i) = {}
        BY <2>3, <2>5, MkfsFacts
      <3> QED BY <2>1, <2>2, <2>4, <2>5, <3>1 DEF Root
    <2>6. CASE i # ROOTINO /\ NamesOf(i) = {}
      <3>1. dinode[i].nlink \in {0, 1} /\ Root(i) = 0
        BY <2>6 DEF Root
      <3> QED BY <2>1, <2>2, <2>4, <2>6, <3>1
    <2>7. CASE i # ROOTINO /\ NamesOf(i) # {}
      <3>1. PICK x : x \in NamesOf(i)
        BY <2>7
      <3>2. \A y \in NamesOf(i) : y = x
        <4> TAKE y \in NamesOf(i)
        <4>1. x[2] = y[2]
          BY <2>3, <3>1, MkfsFacts
        <4> QED BY <2>3, <3>1, <4>1
      <3>3. Cardinality(NamesOf(i)) = 1
        <4>1. NamesOf(i) = {x}
          BY <3>1, <3>2
        <4> QED BY <4>1, FS_Singleton
      <3>4. dinode[i].nlink = 1 /\ Root(i) = 0
        BY <2>3, <2>7, <3>1 DEF Root
      <3> QED BY <2>1, <2>2, <2>4, <3>3, <3>4
    <2> QED BY <2>5, <2>6, <2>7
  <1> QED BY <1>1, <1>2, <1>3, <1>4, <1>5 DEF FsInv

\* A step that changes nothing.
LEMMA Stutter_Inv ==
  ASSUME FsInv, UNCHANGED fsvars
  PROVE  FsInv'
  <1>1. UNCHANGED <<dinode, itable, ilk, ftable, ofile, cwd, loc>>
    BY DEF fsvars
  <1>2. TypeInv'
    BY <1>1 DEF FsInv, TypeInv
  <1>3. FilesInv' /\ DiskInv' /\ CohInv'
    BY <1>1 DEF FsInv, FilesInv, DiskInv, CohInv, Coh
  <1>4. RefInv'
    <2>1. RefInv /\ KSame /\ RefsSame
      BY <1>1 DEF FsInv, KSame, RefsSame, To, FileOf
    <2> QED BY <2>1, RefSame
  <1>5. ProcInv'
    <2> SUFFICES ASSUME NEW p \in FsProcs
                 PROVE  (ShapeP(p) /\ LockP(p) /\ LiveP(p) /\ KnowP(p))'
      BY DEF ProcInv
    <2>1. ShapeP(p) /\ LockP(p) /\ LiveP(p) /\ KnowP(p)
      BY DEF FsInv, ProcInv
    <2>2. ShapeP(p)' /\ LockP(p)'
      BY <1>1, <2>1 DEF ShapeP, LockP
    <2>3. LiveP(p)'
      BY <1>1, <2>1 DEF LiveP, Live, Dot, Node, FileOf
    <2>4. \A x \in Ptrs : To(x)' = To(x) /\ (Gone(x)' <=> Gone(x))
      BY <1>1 DEF To, FileOf, Gone
    <2>5. \A s : \A x \in Ptrs : Alone(x, s) => Alone(x, s)'
      BY <1>1, <2>4 DEF Alone, Node
    <2>6. <<p, "vic">> \in Ptrs /\ <<p, "ip">> \in Ptrs
      BY DEF Ptrs, Tags
    <2>7. KnowP(p)'
      BY <1>1, <2>1, <2>5, <2>6 DEF KnowP, Node
    <2> QED BY <2>2, <2>3, <2>7
  <1>6. LinkInv'
    BY <1>1 DEF FsInv, LinkInv, NamesOf, Subdirs, Pends
  <1> QED BY <1>2, <1>3, <1>4, <1>5, <1>6 DEF FsInv

\* A step inside a system call.
LEMMA Step_Inv ==
  ASSUME FsInv, NEW p \in FsProcs, Step(p)
  PROVE  FsInv'
  BY iput_Inv, iput_free_Inv, iput_done_Inv, namex_start_Inv, namex_Inv, namex_end_Inv,
     create1_Inv, create2_Inv, ialloc_Inv, create3_Inv, unlock_parent_Inv, created_Inv,
     sys_open_Inv, sys_open2_Inv, sys_chdir_Inv, sys_chdir2_Inv,
     sys_link_Inv, sys_link2_Inv, sys_link_taken_Inv, sys_link_done_Inv, sys_link_bad_Inv,
     sys_unlink_Inv, sys_unlink2_Inv, sys_unlink3_Inv DEF Step

\* Every step of every system call keeps the invariant.
LEMMA Next_Inv == GoodPaths /\ FsInv /\ [FsNext]_fsvars => FsInv'
  <1> SUFFICES ASSUME GoodPaths, FsInv, [FsNext]_fsvars PROVE FsInv'
    OBVIOUS
  <1>1. CASE UNCHANGED fsvars
    BY <1>1, Stutter_Inv
  <1>2. CASE FsDone \/ FsHalted
    BY <1>2, Stutter_Inv DEF FsDone, FsHalted
  <1>3. ASSUME NEW p \in FsProcs, Call(p) \/ sys_close(p) \/ Step(p)
        PROVE  FsInv'
    BY <1>3, Call_Inv, sys_close_Inv, Step_Inv
  <1> QED BY <1>1, <1>2, <1>3 DEF FsNext

\* The invariant of fs.c and sysfile.c holds in every reachable state: locks, pointers,
\* reference counts, entries, directories and link counts agree with each other.
THEOREM FsInvariant == GoodPaths => (FsSpec => []FsInv)
  <1> SUFFICES ASSUME GoodPaths PROVE FsSpec => []FsInv
    OBVIOUS
  <1>1. FsInv /\ [FsNext]_fsvars => FsInv'
    BY Next_Inv
  <1> QED BY <1>1, Init_Inv, PTL DEF FsSpec

-----------------------------------------------------------------------------
(* What the invariant says of the inode table.                             *)

\* Two sets of the same size, one the image of the other.
LEMMA SameSize ==
  ASSUME NEW S, NEW T, IsFiniteSet(S), NEW F \in [S -> T],
         \A x, y \in S : F[x] = F[y] => x = y, \A y \in T : \E x \in S : F[x] = y
  PROVE  IsFiniteSet(T) /\ Cardinality(T) = Cardinality(S)
  <1>1. F \in Bijection(S, T)
    BY DEF Bijection, Injection, Surjection, IsInjective
  <1> QED BY <1>1, FS_Bijection DEF ExistsBijection

\* Two disjoint sets.
LEMMA DisjointSum ==
  ASSUME NEW S, NEW T, IsFiniteSet(S), IsFiniteSet(T), S \cap T = {}
  PROVE  Cardinality(S \cup T) = Cardinality(S) + Cardinality(T) /\ IsFiniteSet(S \cup T)
  <1>1. Cardinality(S \cap T) = 0
    BY FS_EmptySet
  <1>2. Cardinality(S) \in Nat /\ Cardinality(T) \in Nat
    BY FS_CardinalityType
  <1> QED BY <1>1, <1>2, FS_Union

\* The pointers of a kind to an entry.
Calls4 == {"cur", "ip", "dp", "vic"}
OfCalls(s) == {x \in FsProcs \X Calls4 : loc[x[1]][x[2]] = s}
OfKind(c, s) == {x \in Ptrs : x[2] = c /\ To(x) = s}

\* The pointers to an entry are those of calls, current directories and open files.
LEMMA SplitCount ==
  ASSUME NEW s
  PROVE  Count(Held, s) = Cardinality(OfCalls(s)) + Cardinality(OfKind("cwd", s)) + Cardinality(OfKind("file", s))
  <1> DEFINE S == {x \in Ptrs : Held[x] = s}
  <1>1. \A x \in Ptrs : Held[x] = To(x)
    BY HeldIs
  <1>2. \A x \in FsProcs \X Calls4 : x \in Ptrs /\ loc[x[1]][x[2]] = To(x) /\ x[2] # "cwd" /\ x[2] # "file"
    BY DEF Ptrs, Tags, Calls4, To
  <1>3. \A x \in Ptrs : x[2] # "cwd" /\ x[2] # "file" => x \in FsProcs \X Calls4
    BY DEF Ptrs, Tags, Calls4
  <1>4. S = (OfCalls(s) \cup OfKind("cwd", s)) \cup OfKind("file", s)
    BY <1>1, <1>2, <1>3 DEF OfCalls, OfKind
  <1>5. OfCalls(s) \cap OfKind("cwd", s) = {} /\
        (OfCalls(s) \cup OfKind("cwd", s)) \cap OfKind("file", s) = {}
    BY <1>2 DEF OfCalls, OfKind
  <1>6. IsFiniteSet(S)
    BY CountNat
  <1> HIDE DEF S
  <1>7. IsFiniteSet(OfCalls(s)) /\ IsFiniteSet(OfKind("cwd", s)) /\ IsFiniteSet(OfKind("file", s))
    BY <1>4, <1>6, FS_Subset
  <1>8. /\ Cardinality(OfCalls(s) \cup OfKind("cwd", s)) = Cardinality(OfCalls(s)) + Cardinality(OfKind("cwd", s))
        /\ IsFiniteSet(OfCalls(s) \cup OfKind("cwd", s))
    BY ONLY <1>5, <1>7, DisjointSum
  <1>9. Cardinality(S) = Cardinality(OfCalls(s) \cup OfKind("cwd", s)) + Cardinality(OfKind("file", s))
    BY ONLY <1>4, <1>5, <1>7, <1>8, DisjointSum
  <1> QED BY <1>8, <1>9 DEF Count, S

\* A process has one current directory.
LEMMA CwdCount ==
  ASSUME NEW s
  PROVE  Cardinality(OfKind("cwd", s)) = Cardinality({p \in FsProcs : cwd[p] = s})
  <1> DEFINE S == {p \in FsProcs : cwd[p] = s}
             T == OfKind("cwd", s)
             F == [p \in S |-> <<p, "cwd">>]
  <1>1. IsFiniteSet(S)
    BY Consts, FS_Subset
  <1>2. \A p \in FsProcs : <<p, "cwd">> \in Ptrs /\ To(<<p, "cwd">>) = cwd[p] /\ <<p, "cwd">>[2] = "cwd"
    BY ToTag
  <1>3. F \in [S -> T]
    BY <1>2 DEF OfKind
  <1>4. \A x, y \in S : F[x] = F[y] => x = y
    OBVIOUS
  <1>5. \A y \in T : \E x \in S : F[x] = y
    <2> TAKE y \in T
    <2>1. y \in Ptrs /\ y[2] = "cwd" /\ To(y) = s
      BY DEF OfKind
    <2>2. y[1] \in FsProcs /\ y = <<y[1], "cwd">>
      BY <2>1, PtrCases
    <2>3. cwd[y[1]] = s
      BY <1>2, <2>1, <2>2
    <2> QED BY <2>2, <2>3
  <1> HIDE DEF S, T, F
  <1>6. Cardinality(T) = Cardinality(S)
    BY ONLY <1>1, <1>3, <1>4, <1>5, SameSize
  <1> QED BY <1>6 DEF S, T

\* An open file is the file of one process.
LEMMA FileCount ==
  ASSUME TypeInv, FilesInv, NEW s, s # 0
  PROVE  Cardinality(OfKind("file", s)) = Cardinality({f \in Files : ftable[f] = s})
  <1> DEFINE S == {f \in Files : ftable[f] = s}
             T == OfKind("file", s)
             F == [x \in T |-> ofile[x[1]]]
  <1>1. \A p \in FsProcs : <<p, "file">> \in Ptrs /\ To(<<p, "file">>) = FileOf(p) /\
        <<p, "file">>[2] = "file"
    BY ToTag
  <1>2. \A x \in T : /\ x[1] \in FsProcs /\ x = <<x[1], "file">> /\ x \in Ptrs
                     /\ ofile[x[1]] # 0 /\ ftable[ofile[x[1]]] = s
    <2> TAKE x \in T
    <2>1. x \in Ptrs /\ x[2] = "file" /\ To(x) = s
      BY DEF OfKind
    <2>2. x[1] \in FsProcs /\ x = <<x[1], "file">>
      BY <2>1, PtrCases
    <2>3. FileOf(x[1]) = s
      BY <1>1, <2>1, <2>2
    <2> QED BY <2>1, <2>2, <2>3 DEF FileOf
  <1>3. IsFiniteSet(T)
    BY PtrsFinite, FS_Subset DEF OfKind
  <1>4. F \in [T -> S]
    <2>1. \A p \in FsProcs : ofile[p] # 0 => ofile[p] \in Files
      BY Consts DEF TypeInv, Files
    <2> QED BY <1>2, <2>1
  <1>5. \A x, y \in T : F[x] = F[y] => x = y
    BY <1>2 DEF FilesInv
  <1>6. \A f \in S : \E x \in T : F[x] = f
    <2> TAKE f \in S
    <2>1. PICK p \in FsProcs : ofile[p] = f
      BY DEF FilesInv
    <2>2. f # 0 /\ FileOf(p) = s
      BY <2>1, Consts DEF FileOf, Files
    <2>3. <<p, "file">> \in T
      BY <1>1, <2>2 DEF OfKind
    <2> QED BY <2>1, <2>3
  <1> HIDE DEF S, T, F
  <1>7. Cardinality(S) = Cardinality(T)
    BY ONLY <1>3, <1>4, <1>5, <1>6, SameSize
  <1> QED BY <1>7 DEF S, T

\* Reference counts are exact.
LEMMA RefsAreExact ==
  ASSUME FsInv
  PROVE  RefsExact
  <1>1. TypeInv /\ FilesInv /\ RefInv
    BY DEF FsInv
  <1> SUFFICES ASSUME NEW s \in Slots
               PROVE  itable[s].ref = Cardinality(OfCalls(s)) + Cardinality({p \in FsProcs : cwd[p] = s})
                                      + Cardinality({f \in Files : ftable[f] = s})
    BY DEF RefsExact, OfCalls, Calls4
  <1>2. s # 0
    BY SlotPos
  <1>3. itable[s].ref = Count(Held, s)
    BY <1>1 DEF RefInv
  <1> QED BY <1>1, <1>2, <1>3, SplitCount, CwdCount, FileCount

\* The invariant implies TableInv.
LEMMA TableFacts == FsInv => TableInv
  <1> SUFFICES ASSUME FsInv PROVE TableInv
    OBVIOUS
  <1>1. TypeInv /\ CohInv
    BY DEF FsInv
  <1>2. FsTypeOK
    BY <1>1 DEF TypeInv, FsTypeOK, Dinode, Entry
  <1>3. CacheCoherent
    BY <1>1 DEF CohInv, Coh, CacheCoherent
  <1> QED BY <1>2, <1>3, RefsAreExact DEF TableInv

\* The invariant implies LinksCoverNames.
LEMMA LinkFacts == FsInv => LinksCoverNames
  <1> SUFFICES ASSUME FsInv, NEW i \in Inums
               PROVE  /\ dinode[i].nlink >= Cardinality(NamesOf(i)) + Cardinality(Subdirs(i))
                      /\ NamesOf(i) # {} => dinode[i].type # "free"
    BY DEF LinksCoverNames
  <1>1. LinkAt(i) /\ dinode[i].nlink \in Nat /\ Root(i) \in Nat /\ NamesFinite(i)
    BY LinkAtFacts
  <1>2. dinode[i].nlink >= Cardinality(NamesOf(i)) + Cardinality(Subdirs(i))
    BY <1>1 DEF LinkAt, NamesFinite
  <1>3. NamesOf(i) # {} => dinode[i].type # "free"
    <2> SUFFICES ASSUME NEW x \in NamesOf(i) PROVE dinode[i].type # "free"
      OBVIOUS
    <2>1. x[1] \in Inums /\ x[2] \in Names /\ dinode[x[1]].ents[x[2]] = i /\ i # 0
      BY DEF NamesOf, Inums
    <2> QED BY <2>1 DEF FsInv, DiskInv
  <1> QED BY <1>2, <1>3

\* ip->ref counts the pointers there are, an inode has one entry, and a valid entry
\* agrees with the disk, whatever any number of processes do (iget, ilock, iput, idup).
THEOREM TableHolds == GoodPaths => (FsSpec => []TableInv)
  <1> SUFFICES ASSUME GoodPaths PROVE FsSpec => []TableInv
    OBVIOUS
  <1> QED BY FsInvariant, TableFacts, PTL

\* nlink covers the names and subdirectories of an inode, and no name leads to a free
\* one, also while create, link and unlink are under way or undo their work.
THEOREM LinksHold == GoodPaths => (FsSpec => []LinksCoverNames)
  <1> SUFFICES ASSUME GoodPaths PROVE FsSpec => []LinksCoverNames
    OBVIOUS
  <1> QED BY FsInvariant, LinkFacts, PTL

-----------------------------------------------------------------------------
(* No panic.                                                               *)

\* ilock finds a type: the call has a pointer to the inode.
LEMMA ilock_fine ==
  ASSUME FsInv, NEW p \in FsProcs
  PROVE  ~ilock_panics(p)
  <1> SUFFICES ASSUME ilock_panics(p) PROVE FALSE
    OBVIOUS
  <1>1. TypeInv /\ RefInv /\ CohInv /\ LiveP(p)
    BY DEF FsInv, ProcInv
  <1>2. PICK s : s = Wants(p) /\ s # 0 /\ Loaded(s).type = "free"
    BY DEF ilock_panics
  <1>3. s \in {loc[p].cur, loc[p].dp, loc[p].ip}
    BY <1>2 DEF Wants
  <1>4. s \in Slots /\ itable[s].ref > 0
    BY <1>1, <1>2, <1>3, UsedBy
  <1>5. Loaded(s).type = Node(s).type
    BY <1>1, <1>4, LoadFacts
  <1> QED BY <1>1, <1>2, <1>3, <1>5 DEF LiveP, Live

\* The last reference is nobody else's, so nobody has the inode locked.
LEMMA iput_fine ==
  ASSUME FsInv, NEW p \in FsProcs
  PROVE  ~iput_panics(p)
  <1> SUFFICES ASSUME iput_panics(p) PROVE FALSE
    OBVIOUS
  <1>1. TypeInv /\ RefInv /\ CohInv /\ ShapeP(p) /\ ProcInv
    BY DEF FsInv, ProcInv
  <1>2. PICK s : s = loc[p].vic
    OBVIOUS
  <1>3. loc[p].pc = "iput" /\ itable[s].ref = 1 /\ ilk[s] # NoProc
    BY <1>2 DEF iput_panics, LastRef
  <1>4. s # 0 /\ s \in Slots
    <2>1. s # 0
      BY <1>1, <1>2, <1>3 DEF ShapeP, Shape, Putting
    <2> QED BY <1>1, <1>2, <2>1, UsedBy
  <1>5. PICK q \in FsProcs : ilk[s] = q
    BY <1>1, <1>3, <1>4 DEF TypeInv
  <1>6. PICK x \in {<<q, "dp">>, <<q, "ip">>, <<q, "vic">>} : To(x) = s /\ x \in Ptrs /\ x # <<p, "vic">>
    <2>1. LockP(q)
      BY <1>1 DEF ProcInv
    <2>2. \/ s = loc[q].dp \/ s = loc[q].ip \/ (loc[q].pc = "itrunc" /\ s = loc[q].vic)
      BY <1>4, <1>5, <2>1 DEF LockP
    <2>3. loc[q].pc = "itrunc" => q # p
      BY <1>3
    <2> QED BY <2>2, <2>3, ToTag
  <1>7. Count(Held, s) = 1 /\ Held[x] = s /\ Held[<<p, "vic">>] = s /\ <<p, "vic">> \in Ptrs
    BY <1>1, <1>2, <1>3, <1>4, <1>6, ToTag, HeldIs DEF RefInv
  <1> QED BY <1>6, <1>7, CountPos

\* The name that sys_unlink has found is one of the links.
LEMMA unlink_fine ==
  ASSUME FsInv, NEW p \in FsProcs
  PROVE  ~unlink_panics(p)
  <1> SUFFICES ASSUME unlink_panics(p) PROVE FALSE
    OBVIOUS
  <1>1. TypeInv /\ RefInv /\ CohInv /\ ShapeP(p) /\ KnowP(p)
    BY DEF FsInv, ProcInv
  <1>2. loc[p].pc = "unlink2" /\ ilock(loc[p].ip) /\ Loaded(loc[p].ip).nlink < 1
    BY DEF unlink_panics
  <1>3. loc[p].ip # 0 /\ loc[p].dp # 0 /\ loc[p].name \in Names
    BY <1>1, <1>2, Pointers DEF IpDp, ShapeP, Shape
  <1>4. Loaded(loc[p].ip).nlink = Node(loc[p].ip).nlink
    BY <1>2, <1>3, LoadOk
  <1>5. itable[loc[p].ip].inum \in Inums /\ itable[loc[p].dp].inum \in Inums
    BY <1>1, <1>3, UsedBy
  <1>6. <<itable[loc[p].dp].inum, loc[p].name>> \in NamesOf(itable[loc[p].ip].inum)
    BY <1>1, <1>2, <1>3, <1>5 DEF KnowP, Node, NamesOf
  <1>7. Node(loc[p].ip).nlink \in Nat
    BY <1>1, <1>5 DEF TypeInv, Dinode, Node
  <1>8. Node(loc[p].ip).nlink = 0
    BY <1>2, <1>4, <1>7
  <1> QED BY <1>5, <1>6, <1>8, NoLinks DEF Node

\* An entry with a reference is pointed to.
LEMMA RefPointed ==
  ASSUME FsInv, NEW s \in Slots, itable[s].ref > 0
  PROVE  s \in Pointed
  <1>1. TypeInv /\ RefInv
    BY DEF FsInv
  <1>2. PICK x \in Ptrs : To(x) = s
    <2>1. \E x \in Ptrs : Held[x] = s
      BY <1>1, CountPos DEF RefInv
    <2> QED BY <2>1, HeldIs
  <1>3. PICK q \in FsProcs, c \in Tags : x = <<q, c>>
    BY DEF Ptrs
  <1>4. s # 0
    BY SlotPos
  <1>5. CASE c = "cwd"
    <2>1. cwd[q] = s
      BY <1>2, <1>3, <1>5, ToTag
    <2> QED BY <2>1 DEF Pointed
  <1>6. CASE c = "file"
    <2>1. FileOf(q) = s
      BY <1>2, <1>3, <1>6, ToTag
    <2>2. ofile[q] \in Files /\ ftable[ofile[q]] = s
      BY <1>1, <1>4, <2>1, Consts DEF FileOf, TypeInv, Files
    <2> QED BY <2>2 DEF Pointed
  <1>7. CASE c \in {"cur", "ip", "dp", "vic"}
    <2>1. loc[q][c] = s
      BY <1>2, <1>3, <1>7, ToTag
    <2> QED BY <1>7, <2>1 DEF Pointed
  <1> QED BY <1>5, <1>6, <1>7 DEF Tags

\* iget finds an entry, unless NINODE different inodes are in use.
LEMMA iget_fine ==
  ASSUME FsInv, NEW p \in FsProcs, iget_panics(p)
  PROVE  Cardinality(InUse) = NINODE
  <1>1. TypeInv /\ CohInv
    BY DEF FsInv
  <1>2. \A s \in Slots : itable[s].ref > 0
    <2>1. Empty(itable) = {}
      BY DEF iget_panics, NoEntry
    <2> QED BY <1>1, <2>1 DEF Empty, TypeInv, Entry
  <1>3. Pointed = Slots
    BY <1>2, RefPointed DEF Pointed
  <1> DEFINE F == [s \in Slots |-> itable[s].inum]
  <1>4. F \in Bijection(Slots, InUse)
    <2>1. F \in [Slots -> InUse]
      BY <1>3 DEF InUse
    <2>2. \A s, u \in Slots : F[s] = F[u] => s = u
      BY <1>1, <1>2 DEF CohInv, Coh
    <2>3. \A i \in InUse : \E s \in Slots : F[s] = i
      BY <1>3 DEF InUse
    <2> HIDE DEF F
    <2> QED BY <2>1, <2>2, <2>3 DEF Bijection, Injection, Surjection, IsInjective
  <1> HIDE DEF F
  <1>5. IsFiniteSet(Slots) /\ Cardinality(Slots) = NINODE
    BY Consts, FS_Interval DEF Slots
  <1> QED BY <1>4, <1>5, FS_Bijection DEF ExistsBijection

\* The invariant implies NoFsPanic.
LEMMA PanicFacts == FsInv => NoFsPanic
  BY ilock_fine, iput_fine, iget_fine, unlink_fine DEF NoFsPanic

\* On paths without ".." none of the panics of ilock and sys_unlink is reached, iput
\* never waits for a sleep-lock while it holds itable.lock, and iget panics only when
\* NINODE different inodes are in use, whatever the sizes of the tables.
THEOREM NoPanicHolds == GoodPaths => (FsSpec => []NoFsPanic)
  <1> SUFFICES ASSUME GoodPaths PROVE FsSpec => []NoFsPanic
    OBVIOUS
  <1> QED BY PanicFacts, FsInvariant, PTL
=============================================================================
