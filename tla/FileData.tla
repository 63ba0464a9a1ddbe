------------------------------ MODULE FileData ------------------------------
(***************************************************************************)
(* The contents of files in xv6: block allocation, direct and indirect     *)
(* blocks, readi, writei and itrunc of kernel/fs.c, and fileread and       *)
(* filewrite of kernel/file.c with the offset that the processes of a      *)
(* shared struct file have in common.                                      *)
(*                                                                         *)
(* A process works on an inode under its sleep-lock, so that only the      *)
(* bitmap is shared while it does: one turn of the loop of writei is a     *)
(* step, and others may take or free blocks between two turns.  A write    *)
(* fills its bytes with one value.  A block has a cached copy, which all   *)
(* calls see, and the one that the disk and the log have: a copyin that    *)
(* fails halfway changes the first and not the second, and bget may give   *)
(* the buffer away at any time.                                            *)
(***************************************************************************)
EXTENDS Integers, Sequences, FiniteSets

CONSTANTS IoProcs, FileInodes, OpenFiles,
          InodeOf,       \* the inode of each open file
          ByteValues,
          NB,            \* data blocks of the disk, 1..NB
          BPB,           \* blocks per block of the bitmap
          BSIZE, NDIRECT, NINDIRECT,
          MAXOPBLOCKS,
          UINT,          \* uint arithmetic is modulo this
          Sizes,         \* the n of read and write
          MaxIo,         \* bound of the model on the number of calls
          None           \* holder of a free lock

MAXFILE == NDIRECT + NINDIRECT
MaxBytes == MAXFILE * BSIZE
Blocks == 1..NB
Cells == 0..(IF BSIZE > NINDIRECT THEN BSIZE ELSE NINDIRECT) - 1

\* The sizes are those of fs.h and param.h: no file reaches the largest uint,
\* and a count is an int, so that a negative one is a uint no file reaches.
ASSUME DataAssumption ==
  /\ InodeOf \in [OpenFiles -> FileInodes]
  /\ None \notin IoProcs
  /\ NB \in Nat /\ BPB \in Nat \ {0} /\ BSIZE \in Nat \ {0}
  /\ NDIRECT \in Nat /\ NINDIRECT \in Nat
  /\ MAXOPBLOCKS \in Nat /\ MAXOPBLOCKS >= 4
  /\ UINT \in Nat /\ MaxBytes < UINT
  /\ \A n \in Sizes : n \in Int /\ n < UINT /\ MaxBytes - n < UINT

VARIABLES used,       \* blocks marked in the bitmap
          disk,       \* the cells of each block, as bread returns them: bytes,
                      \* or block addresses
          home,       \* the same, as the disk and the log have them
          inode,      \* [size, addrs] of each inode
          inlock,     \* holder of the sleep-lock of each inode
          off,        \* f->off
          wr,         \* the call of each process
          dirty,      \* blocks of the current transaction of each process
          ios         \* number of calls so far

datavars == <<used, disk, home, inode, inlock, off, wr, dirty, ios>>

NoCall == [pc |-> "user", f |-> 0, n |-> 0, v |-> 0, i |-> 0, n1 |-> 0, off |-> 0, tot |-> 0]

DataInit ==
  /\ used = {}
  /\ disk = [b \in Blocks |-> [c \in Cells |-> 0]]
  /\ home = disk
  /\ inode = [i \in FileInodes |-> [size |-> 0, addrs |-> [k \in 0..NDIRECT |-> 0]]]
  /\ inlock = [i \in FileInodes |-> None]
  /\ off = [f \in OpenFiles |-> 0]
  /\ wr = [p \in IoProcs |-> NoCall]
  /\ dirty = [p \in IoProcs |-> {}]
  /\ ios = 0

-----------------------------------------------------------------------------
(* Blocks.  m is the state of the disk that a call works on.               *)

BBLOCK(b) == <<"bitmap", b \div BPB>>

\* Mark a block used and zero it.
Zeroed(m, b) == [m EXCEPT !.used = @ \cup {b},
                          !.disk[b] = [c \in Cells |-> 0],
                          !.log = @ \cup {BBLOCK(b), <<"block", b>>}]

\* balloc: the first free block, zeroed; 0 if there is none.
balloc(m) ==
  LET free == Blocks \ m.used IN
  IF free = {} THEN [m EXCEPT !.addr = 0]
  ELSE LET b == CHOOSE x \in free : \A y \in free : x <= y
       IN  [Zeroed(m, b) EXCEPT !.addr = b]

\* bmap for a direct block.
bmap_direct(m, bn) ==
  IF m.ino.addrs[bn] # 0 THEN [m EXCEPT !.addr = m.ino.addrs[bn]]
  ELSE LET a == balloc(m)
       IN  IF a.addr = 0 THEN a ELSE [a EXCEPT !.ino.addrs[bn] = a.addr]

\* bmap for the entry bn of the indirect block, which may itself be missing.
bmap_indirect(m, bn) ==
  LET a == bmap_direct(m, NDIRECT)
      entry == a.disk[a.addr][bn]
      b == balloc(a)
  IN  IF a.addr = 0 THEN a
      ELSE IF entry # 0 THEN [a EXCEPT !.addr = entry]
      ELSE IF b.addr = 0 THEN b
      ELSE [b EXCEPT !.disk[a.addr][bn] = b.addr, !.log = @ \cup {<<"block", a.addr>>}]

bmap(m, bn) == IF bn < NDIRECT THEN bmap_direct(m, bn) ELSE bmap_indirect(m, bn - NDIRECT)

\* The blocks that hang from an inode: what itrunc gives to bfree.
BlocksOf(ino) ==
  LET ind == ino.addrs[NDIRECT]
  IN  ({ino.addrs[k] : k \in 0..NDIRECT}
       \cup (IF ind = 0 THEN {} ELSE {disk[ind][k] : k \in 0..NINDIRECT-1})) \ {0}

DirectBlocksOf(ino) == {ino.addrs[k] : k \in 0..NDIRECT} \ {0}

Freed(ino) == BlocksOf(ino)

\* itrunc, when a file is opened with O_TRUNC or freed by iput.
itrunc(p, i) ==
  /\ wr[p].pc = "user" /\ ios < MaxIo
  /\ inlock[i] = None
  /\ used' = used \ Freed(inode[i])
  /\ inode' = [inode EXCEPT ![i] = [size |-> 0, addrs |-> [k \in 0..NDIRECT |-> 0]]]
  /\ ios' = ios + 1
  /\ UNCHANGED <<disk, home, inlock, off, wr, dirty>>

-----------------------------------------------------------------------------
(* Reading and writing through a file.                                     *)

lesser(a, b) == IF a < b THEN a ELSE b

\* The byte count readi settles on.
ReadCount(size, o, n) ==
  IF o > size \/ (o + n) % UINT < o THEN 0
  ELSE IF (o + n) % UINT > size THEN size - o ELSE n

Unlocked(i) == TRUE

\* fileread moves the offset under the sleep-lock of the inode.
ReadLock(i) == inlock[i] = None

\* sys_read and fileread: the offset moves by what was read, unless copyout
\* fails (bad).
fileread(p, f, n) ==
  /\ wr[p].pc = "user" /\ ios < MaxIo
  /\ ReadLock(InodeOf[f])
  /\ \E bad \in BOOLEAN :
       off' = IF bad THEN off ELSE [off EXCEPT ![f] = @ + ReadCount(inode[InodeOf[f]].size, @, n)]
  /\ ios' = ios + 1
  /\ UNCHANGED <<used, disk, home, inode, inlock, wr, dirty>>

WholeWrite(n) == n

\* filewrite writes a few blocks at a time to fit into a transaction.
Chunk(n) == lesser(n, ((MAXOPBLOCKS - 1 - 1 - 2) \div 2) * BSIZE)

\* sys_write; a count that is not positive returns without a transaction.
filewrite(p, f, n, v) ==
  /\ wr[p].pc = "user" /\ ios < MaxIo
  /\ wr' = IF n <= 0 THEN wr ELSE [wr EXCEPT ![p] = [NoCall EXCEPT !.pc = "next", !.f = f, !.n = n, !.v = v]]
  /\ ios' = ios + 1
  /\ UNCHANGED <<used, disk, home, inode, inlock, off, dirty>>

TooFar(ino, o, n) == (o + n) % UINT < o \/ (o + n) % UINT > MaxBytes

\* writei refuses an offset behind the end, and a file that gets too big.
Refused(ino, o, n) == o > ino.size \/ (o + n) % UINT < o \/ (o + n) % UINT > MaxBytes

\* begin_op, ilock and the checks of writei for the next piece.
writei(p) ==
  LET c == wr[p]
      i == InodeOf[c.f]
      n1 == Chunk(c.n - c.i)
  IN
  /\ c.pc = "next" /\ inlock[i] = None
  /\ IF Refused(inode[i], off[c.f], n1)
     THEN wr' = [wr EXCEPT ![p] = NoCall] /\ UNCHANGED inlock
     ELSE /\ wr' = [wr EXCEPT ![p] = [c EXCEPT !.pc = "loop", !.n1 = n1, !.off = off[c.f], !.tot = 0]]
          /\ inlock' = [inlock EXCEPT ![i] = p]
  /\ UNCHANGED <<used, disk, home, inode, off, dirty, ios>>

\* d with n bytes v in block a, from byte o on.
Copied(d, a, o, n, v) ==
  [d EXCEPT ![a] = [k \in Cells |-> IF k \in o..(o + n - 1) THEN v ELSE @[k]]]

\* One turn of the loop of writei: no block; a bad user address, which
\* either_copyin meets after the pages before it, with nothing for the log; or
\* m bytes.  What is in the log will be on disk, and the block may be there
\* already, from a call of the same group that has ended: the commit then takes
\* it as it is.
writei_turn(p) ==
  LET c == wr[p]
      i == InodeOf[c.f]
      b == bmap([used |-> used, disk |-> disk, ino |-> inode[i], log |-> dirty[p], addr |-> 0], c.off \div BSIZE)
      m == lesser(c.n1 - c.tot, BSIZE - (c.off % BSIZE))
  IN
  /\ c.pc = "loop" /\ c.tot < c.n1
  /\ used' = b.used
  /\ inode' = [inode EXCEPT ![i] = b.ino]
  /\ \/ /\ b.addr = 0
        /\ disk' = b.disk
        /\ wr' = [wr EXCEPT ![p].pc = "end"]
        /\ dirty' = [dirty EXCEPT ![p] = b.log]
     \/ /\ b.addr # 0
        /\ \E n \in 0..m-1 : disk' = Copied(b.disk, b.addr, c.off % BSIZE, n, c.v)
        /\ wr' = [wr EXCEPT ![p].pc = "end"]
        /\ dirty' = [dirty EXCEPT ![p] = b.log]
     \/ /\ b.addr # 0
        /\ disk' = Copied(b.disk, b.addr, c.off % BSIZE, m, c.v)
        /\ wr' = [wr EXCEPT ![p] = [c EXCEPT !.tot = @ + m, !.off = @ + m]]
        /\ dirty' = [dirty EXCEPT ![p] = b.log \cup {<<"block", b.addr>>}]
  /\ \E log \in {dirty'[p], dirty'[p] \cup {<<"block", b.addr>>}} :
       home' = [x \in Blocks |-> IF <<"block", x>> \in log THEN disk'[x] ELSE home[x]]
  /\ UNCHANGED <<inlock, off, ios>>

\* The end of writei (size and iupdate), f->off, iunlock and end_op.
writei_end(p) ==
  LET c == wr[p]
      i == InodeOf[c.f]
      more == c.tot = c.n1 /\ c.i + c.tot < c.n
  IN
  /\ c.pc = "end" \/ (c.pc = "loop" /\ c.tot = c.n1)
  /\ inode' = [inode EXCEPT ![i].size = IF c.off > @ THEN c.off ELSE @]
  /\ off' = [off EXCEPT ![c.f] = @ + c.tot]
  /\ inlock' = [inlock EXCEPT ![i] = None]
  /\ wr' = [wr EXCEPT ![p] = IF more THEN [c EXCEPT !.pc = "next", !.i = @ + c.tot, !.n1 = 0, !.off = 0, !.tot = 0]
                             ELSE NoCall]
  /\ dirty' = [dirty EXCEPT ![p] = {}]
  /\ UNCHANGED <<used, disk, home, ios>>

\* bget takes the buffer of block b for another block; the next bread of b gets
\* it from the disk again.  The log pins the buffers it has to write.
bget_recycles(b) ==
  /\ disk[b] # home[b]
  /\ \A p \in IoProcs : <<"block", b>> \notin dirty[p]
  /\ disk' = [disk EXCEPT ![b] = home[b]]
  /\ UNCHANGED <<used, home, inode, inlock, off, wr, dirty, ios>>

DataDone == (\A p \in IoProcs : wr[p].pc = "user") /\ UNCHANGED datavars

DataNext ==
  \/ \E p \in IoProcs :
       \/ \E i \in FileInodes : itrunc(p, i)
       \/ \E f \in OpenFiles, n \in Sizes : fileread(p, f, n) \/ \E v \in ByteValues : filewrite(p, f, n, v)
       \/ writei(p) \/ writei_turn(p) \/ writei_end(p)
  \/ \E b \in Blocks : bget_recycles(b)
  \/ DataDone

DataSpec == DataInit /\ [][DataNext]_datavars

-----------------------------------------------------------------------------
AddrOf(i, bn) == IF bn < NDIRECT THEN inode[i].addrs[bn]
                 ELSE IF inode[i].addrs[NDIRECT] = 0 THEN 0
                 ELSE disk[inode[i].addrs[NDIRECT]][bn - NDIRECT]

\* Every block below the size of a file exists: the bmap of readi, which
\* runs outside transactions, never has to allocate one.
NoHoles == \A i \in FileInodes : \A k \in 0..inode[i].size-1 : AddrOf(i, k \div BSIZE) # 0

Roles(i) == {<<i, "addr", k>> : k \in {x \in 0..NDIRECT : inode[i].addrs[x] # 0}}
            \cup {<<i, "entry", k>> : k \in {x \in NDIRECT..MAXFILE-1 : AddrOf(i, x) # 0}}
BlockIn(r) == IF r[2] = "addr" THEN inode[r[1]].addrs[r[3]] ELSE AddrOf(r[1], r[3])

\* The bitmap marks exactly the blocks that some inode holds, and no block
\* has two uses and no file a hole, whatever fails halfway.
BlocksAccounted ==
  /\ used = UNION {BlocksOf(inode[i]) : i \in FileInodes}
  /\ \A r, s \in UNION {Roles(i) : i \in FileInodes} : BlockIn(r) = BlockIn(s) => r = s
  /\ NoHoles

\* A transaction of filewrite, with the inode and the indirect block and the
\* bitmap, fits into what begin_op has reserved for it.
TransactionFits == \A p \in IoProcs : Cardinality(dirty[p] \cup {<<"inode", 0>>}) <= MAXOPBLOCKS

\* Nobody moves f->off while a process is in writei, with the inode locked:
\* what the chunk writes goes where the offset will say it went.
WriterOwnsOffset ==
  \A p \in IoProcs : wr[p].pc \in {"loop", "end"} => wr[p].off = off[wr[p].f] + wr[p].tot

\* The bytes of a file if block b holds d[b].
ContentIn(d, i) ==
  [k \in 1..inode[i].size |->
     LET b == AddrOf(i, (k - 1) \div BSIZE) IN IF b = 0 THEN 0 ELSE d[b][(k - 1) % BSIZE]]

Abstract == INSTANCE FileBytes WITH content <- [i \in FileInodes |-> ContentIn(disk, i)],
                                    saved <- [i \in FileInodes |-> ContentIn(home, i)]

\* Files are sequences of bytes: indirect blocks, partial blocks, blocks that
\* failed to come and other files' blocks never show through, and a file grows
\* only by bytes that the log has.  A write that fails on a bad address may
\* leave its first bytes in the file; they are what read() gets, and the block
\* stays with them if the log has it or it is written again, or loses its buffer
\* and takes the old bytes back.
FilesAreBytes == Abstract!BytesSpec

\* filewrite in its chunks: each fits into a transaction, and nobody moves the
\* offset while one is being written.  (Between two of them the inode is
\* unlocked, and another process that has the file may.)
ChunksSafe == TransactionFits /\ WriterOwnsOffset
=============================================================================
