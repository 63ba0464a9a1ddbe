------------------------------- MODULE Inode -------------------------------
(***************************************************************************)
(* The inode, directory and path layers of xv6 (kernel/fs.c) and the       *)
(* system calls above them (kernel/sysfile.c): open, close, link, unlink,  *)
(* mkdir, mknod and chdir, run by several processes.                       *)
(*                                                                         *)
(* A step ends where another process can get in between: at every ilock,   *)
(* and at every critical section of itable.lock.  What a process does to   *)
(* an inode while it holds its sleep-lock is one step with the ilock or    *)
(* the iunlock next to it, since the inode is out of everybody's reach.    *)
(* Transactions are begin_op/end_op of module Log; file contents and disk  *)
(* blocks are module FileData, so that a dirlink which needs a new block    *)
(* may find the disk full at any time here.  A process that calls panic()   *)
(* stops where it is: the states in which that would happen are the        *)
(* ..._panics predicates.                                                  *)
(***************************************************************************)
EXTENDS Naturals, Sequences, FiniteSets

CONSTANTS FsProcs,    \* processes
          NoProc,     \* holder of a free sleep-lock
          Names,      \* names of directory entries, other than . and ..
          FsPaths,    \* relative and absolute paths that programs use
          NINODES,    \* sb.ninodes - 1: inodes on disk are 1..NINODES
          NINODE,     \* entries of the inode table
          NFILE,      \* entries of the file table; a process has one descriptor
          MaxCalls    \* bound of the model on the number of system calls

ASSUME InodeAssumption ==
  /\ IsFiniteSet(FsProcs) /\ NoProc \notin FsProcs
  /\ IsFiniteSet(Names) /\ Names \cap {".", "..", "/"} = {}
  /\ FsPaths \subseteq Seq(Names \cup {".", "..", "/"})
  /\ NINODES \in Nat \ {0} /\ NINODE \in Nat \ {0} /\ NFILE \in Nat

ROOTINO == 1
Inums == 1..NINODES
Slots == 1..NINODE
Files == 1..NFILE
Types == {"free", "dir", "file", "dev", "baddev"}  \* baddev: major number out of range

VARIABLES dinode,     \* the inodes on disk; a directory has entries and erased ones (holes)
          itable,     \* the in-memory inodes
          ilk,        \* holder of the sleep-lock of each of them
          ftable,     \* the inode of each open file, 0 for a free entry
          ofile,      \* the open file of each process, 0 for none
          cwd,        \* p->cwd, a slot of itable
          loc,        \* the locals of the system call of each process
          calls       \* number of system calls so far

fsvars == <<dinode, itable, ilk, ftable, ofile, cwd, loc, calls>>

\* A process outside system calls: no pointers to inodes but cwd and ofile.
Idle == [pc |-> "user", call |-> "", rest |-> <<>>, name |-> "", new |-> <<>>,
         cur |-> 0, ip |-> 0, dp |-> 0, vic |-> 0, parent |-> FALSE, k |-> "", nk |-> ""]

NoEnts == [n \in Names \cup {".", ".."} |-> 0]

\* A disk inode after memset and the assignment of its type.
NewInode(type) == [type |-> type, nlink |-> 0, ents |-> NoEnts, holes |-> 0]

\* What mkfs puts on the disk: files, each under one name in the root.
MkfsFiles == {f \in UNION {[M -> Inums \ {ROOTINO}] : M \in SUBSET Names} :
                \A m, n \in DOMAIN f : f[m] = f[n] => m = n}
MkfsRoot(f) == [type |-> "dir", nlink |-> 1, holes |-> 0,
                ents |-> [n \in Names \cup {".", ".."} |->
                            IF n \in {".", ".."} THEN ROOTINO ELSE IF n \in DOMAIN f THEN f[n] ELSE 0]]
MkfsDisk(f) == [i \in Inums |->
                  IF i = ROOTINO THEN MkfsRoot(f)
                  ELSE IF \E n \in DOMAIN f : f[n] = i THEN [NewInode("file") EXCEPT !.nlink = 1]
                  ELSE NewInode("free")]

\* Every process starts in the root directory.
FsInit ==
  /\ \E f \in MkfsFiles : dinode = MkfsDisk(f)
  /\ itable = [s \in Slots |->
       [inum |-> IF s = 1 THEN ROOTINO ELSE 0, ref |-> IF s = 1 THEN Cardinality(FsProcs) ELSE 0,
        valid |-> FALSE, type |-> "free", nlink |-> 0]]
  /\ ilk = [s \in Slots |-> NoProc]
  /\ ftable = [f \in Files |-> 0]
  /\ ofile = [p \in FsProcs |-> 0]
  /\ cwd = [p \in FsProcs |-> 1]
  /\ loc = [p \in FsProcs |-> Idle]
  /\ calls = 0

Go(p, l) == loc' = [loc EXCEPT ![p] = l]

\* Call iput(s) and go on at k; the pointer moves to vic.
Iput(l, s, k) == [l EXCEPT !.pc = "iput", !.vic = s, !.k = k]

\* iput returns.
Back(l) == IF l.k = "user" THEN Idle ELSE [l EXCEPT !.pc = l.k, !.vic = 0, !.k = ""]

\* Call namex on a path; if it finds an inode, go on at nk.
Namex(l, path, parent, nk) ==
  [l EXCEPT !.pc = "namex0", !.rest = path, !.parent = parent, !.nk = nk]

\* Go on at pc.
At(l, pc) == [l EXCEPT !.pc = pc]

-----------------------------------------------------------------------------
(* The inode table.                                                        *)

InTable(t, inum) == {s \in Slots : t[s].ref > 0 /\ t[s].inum = inum}
Empty(t) == {s \in Slots : t[s].ref = 0}

KeptValid(e, inum) == [e EXCEPT !.inum = inum, !.ref = 1]

\* iget gives a free entry to another inode: nothing read before is valid.
Recycled(e, inum) == [e EXCEPT !.inum = inum, !.ref = 1, !.valid = FALSE]

\* iget finds the inode in the table.
Shared(e) == [e EXCEPT !.ref = @ + 1]

\* iget on table t: the entry of the inode, shared or recycled, and the table.
iget(t, inum) ==
  IF InTable(t, inum) # {}
  THEN LET s == CHOOSE x \in InTable(t, inum) : TRUE
       IN  [slot |-> s, table |-> [t EXCEPT ![s] = Shared(t[s])]]
  ELSE LET s == CHOOSE x \in Empty(t) : \A y \in Empty(t) : x <= y
       IN  [slot |-> s, table |-> [t EXCEPT ![s] = Recycled(t[s], inum)]]

NoEntry(inum) == InTable(itable, inum) = {} /\ Empty(itable) = {}

\* What ilock leaves in the entry: the inode is read from disk if need be.
Loaded(s) == IF itable[s].valid THEN itable[s]
             ELSE LET d == dinode[itable[s].inum]
                  IN  [itable[s] EXCEPT !.valid = TRUE, !.type = d.type, !.nlink = d.nlink]

\* ilock(s) by a process: not held by anybody, and an inode with a type.
ilock(s) == ilk[s] = NoProc /\ Loaded(s).type # "free"

\* The inode that process p is about to lock.
Wants(p) ==
  CASE loc[p].pc = "namex" /\ loc[p].rest # <<>> -> loc[p].cur
    [] loc[p].pc \in {"create1", "link2", "unlink1"} -> loc[p].dp
    [] loc[p].pc \in {"create2", "create3", "open", "chdir", "link1", "linkbad", "unlink2"} -> loc[p].ip
    [] OTHER -> 0

\* ilock: no type.  The disk inode of a referenced entry has been freed.
ilock_panics(p) == Wants(p) # 0 /\ ilk[Wants(p)] = NoProc /\ Loaded(Wants(p)).type = "free"

NoLinksLeft(s) == itable[s].valid /\ itable[s].nlink = 0

\* iput, first part, under itable.lock.  The last reference to an inode
\* without links takes its sleep-lock before it drops itable.lock; were that
\* lock held by somebody, sched() would panic, called with itable.lock held.
LastRef(s) == itable[s].ref = 1 /\ itable[s].valid /\ itable[s].nlink = 0

iput(p) ==
  LET s == loc[p].vic IN
  /\ loc[p].pc = "iput"
  /\ IF LastRef(s)
     THEN /\ ilk[s] = NoProc
          /\ ilk' = [ilk EXCEPT ![s] = p]
          /\ Go(p, At(loc[p], "itrunc"))
          /\ UNCHANGED itable
     ELSE /\ itable' = [itable EXCEPT ![s].ref = @ - 1]
          /\ Go(p, Back(loc[p]))
          /\ UNCHANGED ilk
  /\ UNCHANGED <<dinode, ftable, ofile, cwd, calls>>

iput_panics(p) == /\ loc[p].pc = "iput"
                  /\ LastRef(loc[p].vic) /\ ilk[loc[p].vic] # NoProc

\* iput, second part: truncate, free the inode on disk, unlock.
iput_free(p) ==
  LET s == loc[p].vic IN
  /\ loc[p].pc = "itrunc"
  /\ dinode' = [dinode EXCEPT ![itable[s].inum] = NewInode("free")]
  /\ itable' = [itable EXCEPT ![s].type = "free", ![s].valid = FALSE]
  /\ ilk' = [ilk EXCEPT ![s] = NoProc]
  /\ Go(p, At(loc[p], "ifree"))
  /\ UNCHANGED <<ftable, ofile, cwd, calls>>

\* iput, last part, under itable.lock again.
iput_done(p) ==
  /\ loc[p].pc = "ifree"
  /\ itable' = [itable EXCEPT ![loc[p].vic].ref = @ - 1]
  /\ Go(p, Back(loc[p]))
  /\ UNCHANGED <<dinode, ilk, ftable, ofile, cwd, calls>>

-----------------------------------------------------------------------------
(* Path names: sequences of names, absolute if the first one is "/".       *)

Absolute(path) == path # <<>> /\ Head(path) = "/"

\* The start of namex: a reference to the root or to the current directory.
namex_start(p) ==
  LET abs == Absolute(loc[p].rest)
      g == iget(itable, ROOTINO)
  IN
  /\ loc[p].pc = "namex0"
  /\ abs => ~NoEntry(ROOTINO)
  /\ itable' = IF abs THEN g.table ELSE [itable EXCEPT ![cwd[p]].ref = @ + 1]
  /\ Go(p, [loc[p] EXCEPT !.pc = "namex", !.cur = IF abs THEN g.slot ELSE cwd[p],
                          !.rest = IF abs THEN Tail(@) ELSE @])
  /\ UNCHANGED <<dinode, ilk, ftable, ofile, cwd, calls>>

\* namex returns inode s, or fails; sys_link undoes its nlink++ then.
Found(l, s, n) ==
  IF l.parent THEN [l EXCEPT !.pc = l.nk, !.nk = "", !.rest = <<>>, !.cur = 0, !.dp = s, !.name = n]
              ELSE [l EXCEPT !.pc = l.nk, !.nk = "", !.cur = 0, !.ip = s]
NotFound(l) == [Iput(l, l.cur, IF l.nk = "link2" THEN "linkbad" ELSE "user")
                  EXCEPT !.cur = 0, !.rest = <<>>]

\* One turn of the loop of namex: lock, look the next name up, unlock.
namex(p) ==
  LET s == loc[p].cur
      n == Head(loc[p].rest)
      t == [itable EXCEPT ![s] = Loaded(s)]
      inum == dinode[t[s].inum].ents[n]
  IN
  /\ loc[p].pc = "namex" /\ loc[p].rest # <<>>
  /\ ilock(s)
  /\ \/ /\ t[s].type # "dir"
        /\ itable' = t /\ Go(p, NotFound(loc[p]))
     \/ /\ t[s].type = "dir" /\ loc[p].parent /\ Len(loc[p].rest) = 1
        /\ itable' = t /\ Go(p, Found(loc[p], s, n))
     \/ /\ t[s].type = "dir" /\ ~(loc[p].parent /\ Len(loc[p].rest) = 1)
        /\ inum = 0
        /\ itable' = t /\ Go(p, NotFound(loc[p]))
     \/ /\ t[s].type = "dir" /\ ~(loc[p].parent /\ Len(loc[p].rest) = 1)
        /\ inum # 0 /\ ~NoEntry(inum)
        /\ itable' = iget(t, inum).table
        /\ Go(p, [Iput(loc[p], s, "namex") EXCEPT !.cur = iget(t, inum).slot, !.rest = Tail(@)])
  /\ UNCHANGED <<dinode, ilk, ftable, ofile, cwd, calls>>

\* The end of the loop: nameiparent of "/" has no last name.
namex_end(p) ==
  /\ loc[p].pc = "namex" /\ loc[p].rest = <<>>
  /\ Go(p, IF loc[p].parent THEN NotFound(loc[p]) ELSE Found(loc[p], loc[p].cur, ""))
  /\ UNCHANGED <<dinode, itable, ilk, ftable, ofile, cwd, calls>>

-----------------------------------------------------------------------------
(* System calls.                                                           *)

Creates == {"creat", "mkdir", "mknod", "mknodbad"}
NewType == [c \in Creates |-> CASE c = "creat" -> "file" [] c = "mkdir" -> "dir"
                                 [] c = "mknod" -> "dev" [] c = "mknodbad" -> "baddev"]

\* A process enters a system call with a path ("openw" opens for writing).
Call(p) ==
  /\ loc[p].pc = "user" /\ calls < MaxCalls
  /\ calls' = calls + 1
  /\ \E path \in FsPaths :
       \/ \E c \in Creates : Go(p, [Namex(loc[p], path, TRUE, "create1") EXCEPT !.call = c])
       \/ \E c \in {"open", "openw"} : Go(p, [Namex(loc[p], path, FALSE, "open") EXCEPT !.call = c])
       \/ Go(p, Namex(loc[p], path, FALSE, "chdir"))
       \/ Go(p, Namex(loc[p], path, TRUE, "unlink1"))
       \/ \E new \in FsPaths : Go(p, [Namex(loc[p], path, FALSE, "link1") EXCEPT !.new = new])
  /\ UNCHANGED <<dinode, itable, ilk, ftable, ofile, cwd>>

\* sys_close and fileclose of the only descriptor of a file.
sys_close(p) ==
  /\ loc[p].pc = "user" /\ ofile[p] # 0
  /\ ofile' = [ofile EXCEPT ![p] = 0]
  /\ ftable' = [ftable EXCEPT ![ofile[p]] = 0]
  /\ Go(p, Iput(loc[p], ftable[ofile[p]], "user"))
  /\ UNCHANGED <<dinode, itable, ilk, cwd, calls>>

\* create: lock the parent; take the inode of that name or go on to ialloc.
create1(p) ==
  LET d == loc[p].dp
      t == [itable EXCEPT ![d] = Loaded(d)]
      inum == dinode[t[d].inum].ents[loc[p].name]
  IN
  /\ loc[p].pc = "create1"
  /\ ilock(d)
  /\ \/ /\ inum # 0 /\ ~NoEntry(inum)
        /\ itable' = iget(t, inum).table
        /\ Go(p, [Iput(loc[p], d, "create2") EXCEPT !.ip = iget(t, inum).slot, !.dp = 0])
        /\ UNCHANGED ilk
     \/ /\ inum = 0
        /\ itable' = t
        /\ ilk' = [ilk EXCEPT ![d] = p]
        /\ Go(p, At(loc[p], "ialloc"))
  /\ UNCHANGED <<dinode, ftable, ofile, cwd, calls>>

\* create finds the name taken: good enough for open of a file or device.
create2(p) ==
  LET s == loc[p].ip
      use == loc[p].call = "creat" /\ Loaded(s).type \in {"file", "dev", "baddev"}
  IN
  /\ loc[p].pc = "create2"
  /\ ilock(s)
  /\ itable' = [itable EXCEPT ![s] = Loaded(s)]
  /\ IF use THEN ilk' = [ilk EXCEPT ![s] = p] /\ Go(p, At(loc[p], "open2"))
            ELSE Go(p, [Iput(loc[p], s, "user") EXCEPT !.ip = 0]) /\ UNCHANGED ilk
  /\ UNCHANGED <<dinode, ftable, ofile, cwd, calls>>

FreeInums == {i \in Inums : dinode[i].type = "free"}

\* ialloc: the first free inode on disk, given a type and an entry.
ialloc(p) ==
  LET i == CHOOSE x \in FreeInums : \A y \in FreeInums : x <= y IN
  /\ loc[p].pc = "ialloc"
  /\ FreeInums # {} /\ ~NoEntry(i)
  /\ dinode' = [dinode EXCEPT ![i] = NewInode(NewType[loc[p].call])]
  /\ itable' = iget(itable, i).table
  /\ Go(p, [loc[p] EXCEPT !.pc = "create3", !.ip = iget(itable, i).slot])
  /\ UNCHANGED <<ilk, ftable, ofile, cwd, calls>>

\* create and unlink give up while they hold the parent: ialloc has found
\* nothing, or the error path has put the inode.
unlock_parent(p) ==
  LET d == loc[p].dp IN
  /\ \/ loc[p].pc = "ialloc" /\ FreeInums = {}
     \/ loc[p].pc \in {"createfail", "unlinkbad"}
  /\ ilk' = [ilk EXCEPT ![d] = NoProc]
  /\ Go(p, [Iput(loc[p], d, "user") EXCEPT !.dp = 0])
  /\ UNCHANGED <<dinode, itable, ftable, ofile, cwd, calls>>

\* iget: no inodes.  Whoever calls it for an inode without an entry.
iget_panics(p) ==
  LET Entry(s) == dinode[Loaded(s).inum].ents IN
  \/ loc[p].pc = "namex0" /\ Absolute(loc[p].rest) /\ NoEntry(ROOTINO)
  \/ /\ loc[p].pc = "namex" /\ loc[p].rest # <<>> /\ ilock(loc[p].cur)
     /\ Loaded(loc[p].cur).type = "dir" /\ ~(loc[p].parent /\ Len(loc[p].rest) = 1)
     /\ Entry(loc[p].cur)[Head(loc[p].rest)] # 0
     /\ NoEntry(Entry(loc[p].cur)[Head(loc[p].rest)])
  \/ /\ loc[p].pc \in {"create1", "link2", "unlink1"} /\ ilock(loc[p].dp)
     /\ loc[p].pc = "unlink1" => loc[p].name \notin {".", ".."}
     /\ Entry(loc[p].dp)[loc[p].name] # 0
     /\ NoEntry(Entry(loc[p].dp)[loc[p].name])
  \/ /\ loc[p].pc = "ialloc" /\ FreeInums # {}
     /\ NoEntry(CHOOSE x \in FreeInums : \A y \in FreeInums : x <= y)

\* dirlink reuses an erased entry; only a directory without one may need a
\* block for the new entry, and fail.
dirlink(d, n, inum) == [d EXCEPT !.ents[n] = inum, !.holes = IF @ > 0 THEN @ - 1 ELSE 0]
MayFail(d) == d.holes = 0

\* create with a new inode: its own entries, which need a block, then its
\* name in the parent.
LinkNew(p) ==
  LET i == itable[loc[p].ip].inum
      d == itable[loc[p].dp].inum
      dir == loc[p].call = "mkdir"
      own == IF dir THEN dirlink(dirlink(dinode[i], ".", i), "..", d) ELSE dinode[i]
      par == dirlink(dinode[d], loc[p].name, i)
  IN  [dinode EXCEPT ![d] = [par EXCEPT !.nlink = IF dir THEN @ + 1 ELSE @],
                     ![i] = [own EXCEPT !.nlink = 1]]

create3(p) ==
  LET s == loc[p].ip
      d == loc[p].dp
  IN
  /\ loc[p].pc = "create3"
  /\ ilock(s)
  /\ \/ /\ dinode' = LinkNew(p)
        /\ itable' = [itable EXCEPT ![s] = [Loaded(s) EXCEPT !.nlink = 1],
                                    ![d].nlink = IF loc[p].call = "mkdir" THEN @ + 1 ELSE @]
        /\ ilk' = [ilk EXCEPT ![s] = p, ![d] = NoProc]
        /\ Go(p, [Iput(loc[p], d, IF loc[p].call = "creat" THEN "open2" ELSE "created")
                    EXCEPT !.dp = 0])
     \/ \* out of blocks, with or without entries in the new directory
        /\ loc[p].call = "mkdir" \/ MayFail(dinode[itable[d].inum])
        /\ itable' = [itable EXCEPT ![s] = [Loaded(s) EXCEPT !.nlink = 0]]
        /\ Go(p, [Iput(loc[p], s, "createfail") EXCEPT !.ip = 0])
        /\ UNCHANGED <<dinode, ilk>>
  /\ UNCHANGED <<ftable, ofile, cwd, calls>>

\* sys_mkdir and sys_mknod put the inode that create returned locked.
created(p) ==
  /\ loc[p].pc = "created"
  /\ ilk' = [ilk EXCEPT ![loc[p].ip] = NoProc]
  /\ Go(p, [Iput(loc[p], loc[p].ip, "user") EXCEPT !.ip = 0])
  /\ UNCHANGED <<dinode, itable, ftable, ofile, cwd, calls>>

\* sys_open without O_CREATE.
sys_open(p) ==
  LET s == loc[p].ip IN
  /\ loc[p].pc = "open"
  /\ ilock(s)
  /\ itable' = [itable EXCEPT ![s] = Loaded(s)]
  /\ IF Loaded(s).type = "dir" /\ loc[p].call = "openw"
     THEN Go(p, [Iput(loc[p], s, "user") EXCEPT !.ip = 0]) /\ UNCHANGED ilk
     ELSE ilk' = [ilk EXCEPT ![s] = p] /\ Go(p, At(loc[p], "open2"))
  /\ UNCHANGED <<dinode, ftable, ofile, cwd, calls>>

\* The rest of sys_open, with the inode locked: filealloc and fdalloc may fail.
sys_open2(p) ==
  LET s == loc[p].ip
      free == {f \in Files : ftable[f] = 0}
      f == CHOOSE x \in free : \A y \in free : x <= y
  IN
  /\ loc[p].pc = "open2"
  /\ ilk' = [ilk EXCEPT ![s] = NoProc]
  /\ IF itable[s].type = "baddev" \/ free = {} \/ ofile[p] # 0
     THEN Go(p, [Iput(loc[p], s, "user") EXCEPT !.ip = 0]) /\ UNCHANGED <<ftable, ofile>>
     ELSE /\ ftable' = [ftable EXCEPT ![f] = s]
          /\ ofile' = [ofile EXCEPT ![p] = f]
          /\ Go(p, Idle)
  /\ UNCHANGED <<dinode, itable, cwd, calls>>

sys_chdir(p) ==
  LET s == loc[p].ip IN
  /\ loc[p].pc = "chdir"
  /\ ilock(s)
  /\ itable' = [itable EXCEPT ![s] = Loaded(s)]
  /\ IF Loaded(s).type = "dir"
     THEN Go(p, Iput(loc[p], cwd[p], "chdir2")) /\ cwd' = [cwd EXCEPT ![p] = 0]
     ELSE Go(p, [Iput(loc[p], s, "user") EXCEPT !.ip = 0]) /\ UNCHANGED cwd
  /\ UNCHANGED <<dinode, ilk, ftable, ofile, calls>>

sys_chdir2(p) ==
  /\ loc[p].pc = "chdir2"
  /\ cwd' = [cwd EXCEPT ![p] = loc[p].ip]
  /\ Go(p, Idle)
  /\ UNCHANGED <<dinode, itable, ilk, ftable, ofile, calls>>

\* iupdate of a link count: the entry and the disk.
SetLinks(s, n) ==
  /\ itable' = [itable EXCEPT ![s] = [Loaded(s) EXCEPT !.nlink = n]]
  /\ dinode' = [dinode EXCEPT ![itable[s].inum].nlink = n]

KeepLinks(s) == itable' = [itable EXCEPT ![s] = Loaded(s)] /\ UNCHANGED dinode

\* nlink++ and iupdate.
AddLink(s) == SetLinks(s, Loaded(s).nlink + 1)

\* sys_link counts the new link first.
sys_link(p) ==
  LET s == loc[p].ip IN
  /\ loc[p].pc = "link1"
  /\ ilock(s)
  /\ IF Loaded(s).type = "dir"
     THEN /\ itable' = [itable EXCEPT ![s] = Loaded(s)]
          /\ Go(p, [Iput(loc[p], s, "user") EXCEPT !.ip = 0])
          /\ UNCHANGED dinode
     ELSE /\ AddLink(s)
          /\ Go(p, [Namex(loc[p], loc[p].new, TRUE, "link2") EXCEPT !.new = <<>>])
  /\ UNCHANGED <<ilk, ftable, ofile, cwd, calls>>

\* sys_link writes the name: taken, disk full, or done.
sys_link2(p) ==
  LET d == loc[p].dp
      t == [itable EXCEPT ![d] = Loaded(d)]
      inum == dinode[t[d].inum].ents[loc[p].name]
  IN
  /\ loc[p].pc = "link2"
  /\ ilock(d)
  /\ \/ /\ inum # 0 /\ ~NoEntry(inum)
        /\ itable' = iget(t, inum).table
        /\ ilk' = [ilk EXCEPT ![d] = p]
        /\ Go(p, Iput(loc[p], iget(t, inum).slot, "linktaken"))
        /\ UNCHANGED dinode
     \/ /\ inum = 0 /\ MayFail(dinode[t[d].inum])
        /\ itable' = t
        /\ Go(p, [Iput(loc[p], d, "linkbad") EXCEPT !.dp = 0])
        /\ UNCHANGED <<dinode, ilk>>
     \/ /\ inum = 0
        /\ itable' = t
        /\ dinode' = [dinode EXCEPT ![t[d].inum] = dirlink(@, loc[p].name, itable[loc[p].ip].inum)]
        /\ Go(p, [Iput(loc[p], d, "link3") EXCEPT !.dp = 0])
        /\ UNCHANGED ilk
  /\ UNCHANGED <<ftable, ofile, cwd, calls>>

sys_link_taken(p) ==
  /\ loc[p].pc = "linktaken"
  /\ ilk' = [ilk EXCEPT ![loc[p].dp] = NoProc]
  /\ Go(p, [Iput(loc[p], loc[p].dp, "linkbad") EXCEPT !.dp = 0])
  /\ UNCHANGED <<dinode, itable, ftable, ofile, cwd, calls>>

sys_link_done(p) ==
  /\ loc[p].pc = "link3"
  /\ Go(p, [Iput(loc[p], loc[p].ip, "user") EXCEPT !.ip = 0])
  /\ UNCHANGED <<dinode, itable, ilk, ftable, ofile, cwd, calls>>

\* nlink-- and iupdate, on the error path of sys_link and in sys_unlink.
DropLink(s) == SetLinks(s, Loaded(s).nlink - 1)

sys_link_bad(p) ==
  LET s == loc[p].ip IN
  /\ loc[p].pc = "linkbad"
  /\ ilock(s)
  /\ DropLink(s)
  /\ Go(p, [Iput(loc[p], s, "user") EXCEPT !.ip = 0])
  /\ UNCHANGED <<ilk, ftable, ofile, cwd, calls>>

\* sys_unlink locks the parent and looks the name up.
sys_unlink(p) ==
  LET d == loc[p].dp
      t == [itable EXCEPT ![d] = Loaded(d)]
      inum == IF loc[p].name \in {".", ".."} THEN 0 ELSE dinode[t[d].inum].ents[loc[p].name]
  IN
  /\ loc[p].pc = "unlink1"
  /\ ilock(d)
  /\ \/ /\ inum = 0
        /\ itable' = t
        /\ Go(p, [Iput(loc[p], d, "user") EXCEPT !.dp = 0])
        /\ UNCHANGED ilk
     \/ /\ inum # 0 /\ ~NoEntry(inum)
        /\ itable' = iget(t, inum).table
        /\ ilk' = [ilk EXCEPT ![d] = p]
        /\ Go(p, [loc[p] EXCEPT !.pc = "unlink2", !.ip = iget(t, inum).slot])
  /\ UNCHANGED <<dinode, ftable, ofile, cwd, calls>>

isdirempty(inum) == \A n \in Names : dinode[inum].ents[n] = 0

NotEmptyDir(s) == Loaded(s).type = "dir" /\ ~isdirempty(itable[s].inum)

\* The parent loses the entry, and the link of the ".." of a directory.
erase(d, n, dir) == [d EXCEPT !.ents[n] = 0, !.holes = @ + 1, !.nlink = IF dir THEN @ - 1 ELSE @]

UnlinkFrom(d, s, n) ==
  LET dir == Loaded(s).type = "dir" IN
  /\ dinode' = [dinode EXCEPT ![itable[d].inum] = erase(@, n, dir)]
  /\ itable' = [itable EXCEPT ![s] = Loaded(s),
                              ![d].nlink = IF dir THEN @ - 1 ELSE @]

sys_unlink2(p) ==
  LET s == loc[p].ip
      d == loc[p].dp
  IN
  /\ loc[p].pc = "unlink2"
  /\ ilock(s) /\ Loaded(s).nlink >= 1
  /\ IF NotEmptyDir(s)
     THEN /\ itable' = [itable EXCEPT ![s] = Loaded(s)]
          /\ Go(p, [Iput(loc[p], s, "unlinkbad") EXCEPT !.ip = 0])
          /\ UNCHANGED <<dinode, ilk>>
     ELSE /\ UnlinkFrom(d, s, loc[p].name)
          /\ ilk' = [ilk EXCEPT ![s] = p, ![d] = NoProc]
          /\ Go(p, [Iput(loc[p], d, "unlink3") EXCEPT !.dp = 0])
  /\ UNCHANGED <<ftable, ofile, cwd, calls>>

\* unlink: nlink < 1.
unlink_panics(p) == loc[p].pc = "unlink2" /\ ilock(loc[p].ip) /\ Loaded(loc[p].ip).nlink < 1

sys_unlink3(p) ==
  LET s == loc[p].ip IN
  /\ loc[p].pc = "unlink3"
  /\ DropLink(s)
  /\ ilk' = [ilk EXCEPT ![s] = NoProc]
  /\ Go(p, [Iput(loc[p], s, "user") EXCEPT !.ip = 0])
  /\ UNCHANGED <<ftable, ofile, cwd, calls>>

-----------------------------------------------------------------------------
Step(p) ==
  \/ iput(p) \/ iput_free(p) \/ iput_done(p)
  \/ namex_start(p) \/ namex(p) \/ namex_end(p)
  \/ create1(p) \/ create2(p) \/ ialloc(p) \/ create3(p) \/ unlock_parent(p) \/ created(p)
  \/ sys_open(p) \/ sys_open2(p) \/ sys_chdir(p) \/ sys_chdir2(p)
  \/ sys_link(p) \/ sys_link2(p) \/ sys_link_taken(p) \/ sys_link_done(p) \/ sys_link_bad(p)
  \/ sys_unlink(p) \/ sys_unlink2(p) \/ sys_unlink3(p)

FsDone == /\ \A p \in FsProcs : loc[p].pc = "user"
          /\ UNCHANGED fsvars

\* iget has panicked for want of an entry.
FsHalted == /\ \E p \in FsProcs : iget_panics(p)
            /\ UNCHANGED fsvars

FsNext == \/ \E p \in FsProcs : Call(p) \/ sys_close(p) \/ Step(p)
          \/ FsDone \/ FsHalted

FsSpec == FsInit /\ [][FsNext]_fsvars

-----------------------------------------------------------------------------
FsTypeOK ==
  /\ \A i \in Inums : dinode[i].type \in Types /\ dinode[i].nlink \in Nat
  /\ \A s \in Slots : itable[s].inum \in 0..NINODES /\ itable[s].ref \in Nat
  /\ ilk \in [Slots -> FsProcs \cup {NoProc}]
  /\ ftable \in [Files -> 0..NINODE]
  /\ ofile \in [FsProcs -> 0..NFILE]
  /\ cwd \in [FsProcs -> 0..NINODE]

\* The inodes in use: by a call in progress, as a current directory, as an
\* open file.
Pointed == {s \in Slots : \/ \E p \in FsProcs : \/ cwd[p] = s
                                                \/ \E c \in {"cur", "ip", "dp", "vic"} : loc[p][c] = s
                          \/ \E f \in Files : ftable[f] = s}
InUse == {itable[s].inum : s \in Pointed}

\* System calls whose paths do not go through ".." never make ilock, iput or
\* sys_unlink panic, whatever the processes do at once: an inode is freed after
\* its last name and its last user, and the acquiresleep of iput never has to
\* wait.  iget panics only where the limit NINODE is really reached, with as many
\* different inodes in use: no entry is lost to a leaked reference or to a
\* second copy of an inode.  (The ".." of a removed directory may lead to an
\* inode that has been freed, and then ilock does panic.)
NoFsPanic ==
  /\ \A p \in FsProcs : ~(ilock_panics(p) \/ iput_panics(p) \/ unlink_panics(p))
  /\ \A p \in FsProcs : iget_panics(p) => Cardinality(InUse) = NINODE

\* ip->ref counts the pointers to an entry: those of calls in progress, of
\* open files and of current directories.
RefsExact ==
  \A s \in Slots :
    itable[s].ref = Cardinality({x \in FsProcs \X {"cur", "ip", "dp", "vic"} : loc[x[1]][x[2]] = s})
                    + Cardinality({p \in FsProcs : cwd[p] = s})
                    + Cardinality({f \in Files : ftable[f] = s})

\* An inode has at most one entry, and a valid one agrees with the disk.
CacheCoherent ==
  \A s \in Slots : itable[s].ref > 0 =>
    /\ \A u \in Slots \ {s} : itable[u].ref > 0 => itable[u].inum # itable[s].inum
    /\ itable[s].valid => /\ itable[s].type = dinode[itable[s].inum].type
                          /\ itable[s].nlink = dinode[itable[s].inum].nlink

NamesOf(i) == {x \in Inums \X Names : dinode[x[1]].ents[x[2]] = i}
Subdirs(i) == {n \in Names : dinode[i].ents[n] # 0 /\ dinode[dinode[i].ents[n]].type = "dir"}

\* At every moment an inode has at least as many links as names lead to it
\* (and as ".." of its subdirectories), so that no name is left dangling.
LinksCoverNames ==
  \A i \in Inums : /\ dinode[i].nlink >= Cardinality(NamesOf(i)) + Cardinality(Subdirs(i))
                   /\ NamesOf(i) # {} => dinode[i].type # "free"

\* Outside system calls an inode without links and without users is free.
NoOrphanInode ==
  (\A p \in FsProcs : loc[p].pc = "user") =>
    \A i \in Inums : dinode[i].type = "free" \/ dinode[i].nlink > 0 \/ InTable(itable, i) # {}

\* The invariant of the inode table: references are exact, and an entry is
\* the only copy of its inode and agrees with the disk.
TableInv == FsTypeOK /\ RefsExact /\ CacheCoherent
=============================================================================
