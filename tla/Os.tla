--------------------------------- MODULE Os ---------------------------------
(***************************************************************************)
(* What the system calls of xv6 promise to a user program: every call is   *)
(* one step that either has its whole effect or fails.  The detailed       *)
(* modules (Inode, FileData, Pipe, Proc, Vm, ...) show how the kernel      *)
(* keeps such promises; this one is what user programs are run against:    *)
(* the shell (Shell) and the kernel's own tests (UserTests).               *)
(***************************************************************************)
EXTENDS Programs

CONSTANTS NPROC, NFILE, NOFILE, PIPESIZE,
          NINODES,       \* inodes of the disk
          NBLOCKS,       \* blocks of the disk for data and directories
          MAXFILE,       \* blocks of the largest file
          DPB,           \* directory entries per block
          NPAGES,        \* pages of memory for user programs
          Disk           \* the files in the root directory: name -> contents

VARIABLE os              \* the processes, open files, inodes and pipes

Procs  == 1..NPROC
Root   == 1
InitPid == 1

-----------------------------------------------------------------------------
(* State *)

Unused    == [state |-> "unused"]
NoFile    == [kind |-> "none", ref |-> 0]
NoPipe    == [data |-> <<>>, readopen |-> FALSE, writeopen |-> FALSE]
FreeInode == [type |-> "free", nlink |-> 0]
FileNode(data)  == [type |-> "file", nlink |-> 1, data |-> data]
Device          == [type |-> "dev", nlink |-> 1]
DirNode(me, up) == [type |-> "dir", nlink |-> 1, blocks |-> 1, ents |-> [n \in {".", ".."} |->
                                                  IF n = "." THEN me ELSE up]]

\* The names a program begins with: its standard descriptors.
Std == [n \in {"zero", "in", "out", "err", "n", "r", "status"} |->
          CASE n = "out" -> 1 [] n = "err" -> 2 [] OTHER -> 0]

NewProc(code, parent) ==
  [state |-> "run", parent |-> parent, code |-> code,
   fds |-> [d \in 0..(NOFILE - 1) |-> IF d <= 2 THEN 1 ELSE 0],
   cwd |-> Root, sz |-> Image, mem |-> <<>>, var |-> Std, buf |-> <<>>,
   killed |-> FALSE, xstate |-> 0]

Listed(S) == FoldSet(LAMBDA n, names : Append(names, n), <<>>, S)
Names == Listed(DOMAIN Disk)
FirstDisk ==
  [i \in 1..NINODES |->
     IF i = Root
     THEN [DirNode(Root, Root) EXCEPT !.ents = @ @@
             [n \in DOMAIN Disk |-> 1 + (CHOOSE k \in DOMAIN Names : Names[k] = n)]]
     ELSE IF i <= Len(Names) + 1
     THEN IF Names[i - 1] = "console" THEN Device ELSE FileNode(Disk[Names[i - 1]])
     ELSE FreeInode]

\* init (process 1) and the program it started (process 2), with the console
\* as the open file 1.
OsInit(code) ==
  os = [proc  |-> [p \in Procs |-> CASE p = 1 -> Settle(NewProc(init, 0))
                                     [] p = 2 -> Settle(NewProc(code, 1))
                                     [] OTHER -> Unused],
        file  |-> [f \in 1..NFILE |-> IF f = 1 THEN [kind |-> "console", ref |-> 6] ELSE NoFile],
        inode |-> FirstDisk,
        pipe  |-> [k \in 1..NFILE |-> NoPipe]]

Used(s)    == {p \in Procs : s.proc[p].state # "unused"}
Live(s)    == {p \in Procs : s.proc[p].state = "run"}
RoundUp(n) == ((n + PGSIZE - 1) \div PGSIZE) * PGSIZE
Pages(s)   == MapThenSumSet(LAMBDA p : RoundUp(s.proc[p].sz) \div PGSIZE, Used(s))
Blocks(s)  == MapThenSumSet(LAMBDA i : CASE s.inode[i].type = "file" -> Len(s.inode[i].data)
                                         [] s.inode[i].type = "dir" -> s.inode[i].blocks
                                         [] OTHER -> 0, 1..NINODES)
Lowest(set) == IF set = {} THEN 0 ELSE Min(set)

\* iput: an inode without links and references is freed.
Referenced(s, i) == \/ \E f \in 1..NFILE : s.file[f].kind = "inode" /\ s.file[f].obj = i
                    \/ \E p \in Live(s) : s.proc[p].cwd = i
NeverFreed(s) == s
Iput(s) == [s EXCEPT !.inode = [i \in 1..NINODES |->
              IF @[i].type # "free" /\ @[i].nlink = 0 /\ ~Referenced(s, i)
              THEN FreeInode ELSE @[i]]]

\* The call at the head of p's code returns r in state s.
Return(s, p, r) ==
  LET i == Head(s.proc[p].code) IN
  [s EXCEPT !.proc[p] = Settle([@ EXCEPT
     !.code = IF i.want[1] <= r /\ r <= i.want[2] THEN Tail(@) ELSE <<exit(1)>>,
     !.var  = (i.to :> r) @@ @])]

Instr(p)     == Head(os.proc[p].code)
Var(p, v)    == os.proc[p].var[v]
Fd(p, v)     == Var(p, v)
File(p, v)   == IF Fd(p, v) \in 0..(NOFILE - 1) THEN os.proc[p].fds[Fd(p, v)] ELSE 0
Children(s, p) == {q \in Used(s) : s.proc[q].parent = p}
Zombies(s, p)  == {q \in Children(s, p) : s.proc[q].state = "zombie"}

\* A process waits for a child to exit, for data in a pipe that can still be
\* written, for room in one that can still be read, or for nothing at all.
EmptyPipe(k) == os.pipe[k].data = <<>> /\ os.pipe[k].writeopen
FullPipe(k)  == Len(os.pipe[k].data) = PIPESIZE /\ os.pipe[k].readopen
Waits(p) ==
  LET i == Instr(p)
      a == os.file[File(p, i.fd)]
      onpipe == File(p, i.fd) # 0 /\ a.kind = "pipe"
  IN  CASE i.op = "wait"  -> Children(os, p) # {} /\ Zombies(os, p) = {}
        [] i.op = "read"  -> onpipe /\ a.r /\ EmptyPipe(a.obj)
        [] i.op = "write" -> onpipe /\ a.w /\ FullPipe(a.obj)
        [] OTHER -> i.op = "spin"
CanRun(p) == /\ os.proc[p].state = "run" /\ os.proc[p].code # <<>>
             /\ os.proc[p].killed \/ ~Waits(p)
Calls(p, op) == /\ os.proc[p].state = "run" /\ ~os.proc[p].killed
                /\ os.proc[p].code # <<>> /\ Instr(p).op = op /\ ~Waits(p)

-----------------------------------------------------------------------------
(* Memory *)

Mapped(pr, a, writing) == /\ a >= 0 /\ a < RoundUp(pr.sz)
                          /\ a \div PGSIZE # 1
                          /\ writing => a \div PGSIZE # 0
Address(p, a) == Var(p, a[1]) + a[2]

\* growproc: a shrinking break frees whole pages, and one that would pass
\* below zero wraps round and changes nothing.
Shrunk(pr, sz) == [pr EXCEPT !.sz = sz,
                     !.mem = [a \in {b \in DOMAIN @ : b < RoundUp(sz)} |-> @[a]]]
sys_sbrk(p) ==
  /\ Calls(p, "sbrk")
  /\ LET pr == os.proc[p]
         sz == pr.sz + Instr(p).n
         extra == (RoundUp(sz) - RoundUp(pr.sz)) \div PGSIZE
     IN os' = IF sz < 0 THEN Return(os, p, pr.sz)
              ELSE IF sz <= pr.sz
              THEN Return([os EXCEPT !.proc[p] = Shrunk(@, sz)], p, pr.sz)
              ELSE IF Pages(os) + extra > NPAGES THEN Return(os, p, -1)
              ELSE Return([os EXCEPT !.proc[p].sz = sz], p, pr.sz)

-----------------------------------------------------------------------------
(* Processes *)

ShareFiles(s, fds) ==
  [s EXCEPT !.file = [f \in 1..NFILE |->
     [@[f] EXCEPT !.ref = @ + Cardinality({d \in DOMAIN fds : fds[d] = f})]]]

sys_fork(p) ==
  /\ Calls(p, "fork")
  /\ LET c  == Lowest(Procs \ Used(os))
         pr == os.proc[p]
     IN os' = IF c = 0 \/ Pages(os) + RoundUp(pr.sz) \div PGSIZE > NPAGES
              THEN Return(os, p, -1)
              ELSE LET s == ShareFiles([os EXCEPT !.proc[c] = [pr EXCEPT !.parent = p]], pr.fds)
                   IN  Return(Return(s, c, 0), p, c)

\* fileclose, and pipeclose for the last reference to an end of a pipe.
Fileclose(s, f) ==
  LET a == s.file[f]
      t == [s EXCEPT !.file[f] = NoFile]
  IN  CASE a.ref > 1 -> [s EXCEPT !.file[f].ref = @ - 1]
        [] a.ref = 1 /\ a.kind = "pipe" ->
             LET e == IF a.w THEN [t EXCEPT !.pipe[a.obj].writeopen = FALSE]
                             ELSE [t EXCEPT !.pipe[a.obj].readopen = FALSE]
             IN  IF e.pipe[a.obj].readopen \/ e.pipe[a.obj].writeopen THEN e
                 ELSE [e EXCEPT !.pipe[a.obj] = NoPipe]
        [] OTHER -> t

CloseAll(s, p) == FoldLeft(LAMBDA t, d : IF t.proc[p].fds[d - 1] = 0 THEN t
                                         ELSE Fileclose(t, t.proc[p].fds[d - 1]),
                           s, [d \in 1..NOFILE |-> d])

Reparent(s, p) == [s EXCEPT !.proc = [q \in Procs |->
                     IF q \in Used(s) /\ @[q].parent = p THEN [@[q] EXCEPT !.parent = InitPid]
                                                         ELSE @[q]]]

Exit(s, p, status) ==
  Iput(Reparent([CloseAll(s, p) EXCEPT
         !.proc[p] = [@ EXCEPT !.state = "zombie", !.xstate = status, !.code = <<>>,
                               !.fds = [d \in DOMAIN @ |-> 0], !.cwd = 0,
                               !.var = Std, !.buf = <<>>, !.mem = <<>>]], p))

sys_exit(p) == /\ Calls(p, "exit") /\ p # InitPid
               /\ os' = Exit(os, p, Address(p, Instr(p).status))

\* A killed process exits at its next trap, and one whose stack is gone
\* faults.
usertrap(p) == /\ os.proc[p].state = "run" /\ os.proc[p].code # <<>>
               /\ os.proc[p].killed \/ ~Mapped(os.proc[p], StackAddr, TRUE)
               /\ os' = Exit(os, p, -1)

sys_wait(p) ==
  /\ Calls(p, "wait")
  /\ \/ Children(os, p) = {} /\ os' = Return(os, p, -1)
     \/ \E q \in Zombies(os, p) :
          os' = Return([os EXCEPT !.proc[q] = Unused,
                                  !.proc[p].var = ("status" :> os.proc[q].xstate) @@ @], p, q)

sys_kill(p) ==
  /\ Calls(p, "kill")
  /\ LET q == Var(p, Instr(p).pid)
     IN  os' = IF q \in Used(os) THEN Return([os EXCEPT !.proc[q].killed = TRUE], p, 0)
                                 ELSE Return(os, p, -1)

sys_getpid(p) == Calls(p, "getpid") /\ os' = Return(os, p, p)

\* A load or a store of the program itself; one that is not allowed is fatal.
Access(p) ==
  /\ Calls(p, "load") \/ Calls(p, "store")
  /\ LET i  == Instr(p)
         a  == Address(p, i.at)
         pr == os.proc[p]
         writes == i.op = "store"
     IN os' = IF ~Mapped(pr, a, writes) THEN Exit(os, p, -1)
              ELSE IF writes THEN Return([os EXCEPT !.proc[p].mem = (a :> i.x) @@ @], p, 0)
              ELSE Return(os, p, IF a \in DOMAIN pr.mem THEN pr.mem[a] ELSE 0)

-----------------------------------------------------------------------------
(* Names *)

WholeName(n) == n

\* skipelem keeps DIRSIZ bytes of a name.
Elem(n) == IF n = "123456789012345" THEN "12345678901234" ELSE n

Walk(s, d, names) ==
  FoldLeft(LAMBDA i, n : IF i = 0 THEN 0
                         ELSE IF s.inode[i].type # "dir" THEN 0
                         ELSE IF Elem(n) \notin DOMAIN s.inode[i].ents THEN 0
                         ELSE s.inode[i].ents[Elem(n)], d, names)
Absolute(path) == path # <<>> /\ Head(path) = "/"
Start(s, p, path) == IF Absolute(path) THEN Root ELSE s.proc[p].cwd
Relative(path) == IF Absolute(path) THEN Tail(path) ELSE path

\* namei and nameiparent: 0 when there is no such inode.
Namei(s, p, path) == IF path = Bad THEN 0 ELSE Walk(s, Start(s, p, path), Relative(path))
Nameiparent(s, p, path) ==
  LET names == Relative(path) IN
  IF path = Bad \/ names = <<>> THEN 0
  ELSE LET d == Walk(s, Start(s, p, path), Front(names))
       IN  IF d = 0 THEN 0 ELSE IF s.inode[d].type = "dir" THEN d ELSE 0
Name(path) == Elem(Last(path))
Lookup(s, d, n) == IF n \in DOMAIN s.inode[d].ents THEN s.inode[d].ents[n] ELSE 0

\* dirlink takes an entry that is free, or makes the directory longer if the
\* disk has room; it never becomes shorter.
BlocksWith1More(s, d) == Max({s.inode[d].blocks, Cardinality(DOMAIN s.inode[d].ents) \div DPB + 1})
NoRoom(s, d) == BlocksWith1More(s, d) > s.inode[d].blocks /\ Blocks(s) >= NBLOCKS
AddName(s, d, n, i) == [s EXCEPT !.inode[d].ents = (n :> i) @@ @,
                                 !.inode[d].blocks = BlocksWith1More(s, d)]
DropName(s, d, n) == [s EXCEPT !.inode[d].ents = [m \in DOMAIN @ \ {n} |-> @[m]]]

\* create returns the new state and the inode, 0 if it fails.
Creat(s, p, path, type) ==
  LET d == Nameiparent(s, p, path)
      n == Name(path)
      old == Lookup(s, d, n)
      i == Lowest({j \in 1..NINODES : s.inode[j].type = "free"})
      new == [s EXCEPT !.inode[i] = IF type = "dir" THEN DirNode(i, d) ELSE FileNode(<<>>),
                       !.inode[d].nlink = IF type = "dir" THEN @ + 1 ELSE @]
  IN  IF d = 0 THEN <<s, 0>>
      ELSE IF old # 0
      THEN <<s, IF type = "file" /\ s.inode[old].type \in {"file", "dev"} THEN old ELSE 0>>
      ELSE IF i = 0 \/ (type = "dir" /\ Blocks(s) >= NBLOCKS) \/ NoRoom(new, d) THEN <<s, 0>>
      ELSE <<AddName(new, d, n, i), i>>

-----------------------------------------------------------------------------
(* File system calls *)

FreeFile(s)   == Lowest({f \in 1..NFILE : s.file[f].ref = 0})
FreeFd(s, p)  == IF \A d \in 0..(NOFILE - 1) : s.proc[p].fds[d] # 0 THEN -1
                 ELSE Min({d \in 0..(NOFILE - 1) : s.proc[p].fds[d] = 0})

sys_open(p) ==
  /\ Calls(p, "open")
  /\ LET i == Instr(p)
         made == IF "C" \in i.mode THEN Creat(os, p, i.path, "file")
                 ELSE <<os, Namei(os, p, i.path)>>
         n == made[2]
         s == made[1]
         f == FreeFile(s)
         d == FreeFd(s, p)
         fetched == Mapped(os.proc[p], Address(p, i.at), FALSE)
     IN os' = IF n = 0 \/ ~fetched THEN Return(os, p, -1)
              ELSE IF s.inode[n].type = "dir" /\ i.mode # {} THEN Return(s, p, -1)
              ELSE IF f = 0 \/ d = -1 THEN Return(s, p, -1)
              ELSE Return([s EXCEPT
                     !.file[f] = IF s.inode[n].type = "dev" THEN [kind |-> "console", ref |-> 1]
                                 ELSE [kind |-> "inode", ref |-> 1, obj |-> n, off |-> 0,
                                  r |-> "W" \notin i.mode,
                                  w |-> i.mode \cap {"W", "RW"} # {}],
                     !.proc[p].fds[d] = f,
                     !.inode[n] = IF "T" \in i.mode /\ @.type = "file"
                                  THEN [@ EXCEPT !.data = <<>>] ELSE @], p, d)

sys_close(p) ==
  /\ Calls(p, "close")
  /\ LET d == Fd(p, Instr(p).fd)
         f == File(p, Instr(p).fd)
     IN os' = IF f = 0 THEN Return(os, p, -1)
              ELSE Return(Iput([Fileclose(os, f) EXCEPT !.proc[p].fds[d] = 0]), p, 0)

sys_dup(p) ==
  /\ Calls(p, "dup")
  /\ LET f == File(p, Instr(p).fd)
         d == FreeFd(os, p)
     IN os' = IF f = 0 \/ d = -1 THEN Return(os, p, -1)
              ELSE Return([os EXCEPT !.file[f].ref = @ + 1, !.proc[p].fds[d] = f], p, d)

sys_pipe(p) ==
  /\ Calls(p, "pipe")
  /\ LET i  == Instr(p)
         f0 == FreeFile(os)
         f1 == Lowest({f \in 1..NFILE : os.file[f].ref = 0} \ {f0})
         d0 == FreeFd(os, p)
         d1 == IF d0 = -1 THEN -1 ELSE FreeFd([os EXCEPT !.proc[p].fds[d0] = 1], p)
         k  == Lowest({j \in 1..NFILE : os.pipe[j] = NoPipe})
         end(w) == [kind |-> "pipe", ref |-> 1, obj |-> k, r |-> ~w, w |-> w]
     IN os' = IF f1 = 0 \/ d1 = -1 \/ ~Mapped(os.proc[p], Address(p, i.at), TRUE)
              THEN Return(os, p, -1)
              ELSE Return([os EXCEPT
                     !.file[f0] = end(FALSE), !.file[f1] = end(TRUE),
                     !.pipe[k] = [data |-> <<>>, readopen |-> TRUE, writeopen |-> TRUE],
                     !.proc[p].fds[d0] = f0, !.proc[p].fds[d1] = f1,
                     !.proc[p].var = (i.rd :> d0) @@ (i.wr :> d1) @@ @], p, 0)

\* A read from a pipe waits while it is empty and can be written; of a buffer
\* that is not mapped a file read says -1 and a pipe read 0, after it has taken
\* the byte it cannot deliver.
Got(s, p, data) == Return([s EXCEPT !.proc[p].buf =
                             IF Head(s.proc[p].code).add THEN @ \o data ELSE data], p, Len(data))
\* A directory reads as its names, one in a block.
Contents(s, i) == IF s.inode[i].type = "dir"
                  THEN Listed(DOMAIN s.inode[i].ents)
                  ELSE s.inode[i].data
sys_read(p) ==
  /\ Calls(p, "read")
  /\ LET i == Instr(p)
         f == File(p, i.fd)
         a == os.file[f]
         mapped == Mapped(os.proc[p], Address(p, i.at), TRUE)
         bytes == IF a.kind = "pipe" THEN os.pipe[a.obj].data
                  ELSE SubSeq(Contents(os, a.obj), a.off + 1, Len(Contents(os, a.obj)))
         n == Min({i.n, Len(bytes)})
     IN os' = IF f = 0 THEN Return(os, p, -1)
              ELSE IF a.kind = "console" THEN Return(os, p, 0)
              ELSE IF ~a.r THEN Return(os, p, -1)
              ELSE IF n > 0 /\ ~mapped
              THEN IF a.kind = "pipe" THEN Return([os EXCEPT !.pipe[a.obj].data = Tail(@)], p, 0)
                                      ELSE Return(os, p, -1)
              ELSE IF a.kind = "pipe"
              THEN Got([os EXCEPT !.pipe[a.obj].data = SubSeq(@, n + 1, Len(@))],
                       p, SubSeq(bytes, 1, n))
              ELSE Got([os EXCEPT !.file[f].off = @ + n], p, SubSeq(bytes, 1, n))

\* The data of a file after a write at off; what the disk has no room for is
\* not written, and then the write fails.
Overwritten(old, off, data) == SubSeq(old, 1, off) \o data
                               \o SubSeq(old, off + Len(data) + 1, Len(old))
FileWrite(s, p, f, data) ==
  LET a    == s.file[f]
      old  == s.inode[a.obj].data
      grow == a.off + Len(data) - Len(old)
      room == NBLOCKS - Blocks(s)
      n    == IF grow > room THEN Len(data) - (grow - room) ELSE Len(data)
      new  == [s EXCEPT !.inode[a.obj].data = Overwritten(@, a.off, SubSeq(data, 1, n)),
                        !.file[f].off = @ + n]
  IN  IF a.off > Len(old) \/ a.off + Len(data) > MAXFILE THEN Return(s, p, -1)
      ELSE Return(new, p, IF n = Len(data) THEN n ELSE -1)

\* pipewrite puts what fits and waits for room; it gives up when the read end
\* is closed.
PipeWrite(s, p, k, data) ==
  LET room == PIPESIZE - Len(s.pipe[k].data)
      put(n) == [s EXCEPT !.pipe[k].data = @ \o SubSeq(data, 1, n)]
      done == Head(s.proc[p].code).put
  IN  IF ~s.pipe[k].readopen THEN Return(s, p, -1)
      ELSE IF Len(data) <= room THEN Return(put(Len(data)), p, done + Len(data))
      ELSE [put(room) EXCEPT !.proc[p].code[1] =
              [@ EXCEPT !.data = SubSeq(data, room + 1, Len(data)), !.put = done + room]]

sys_write(p) ==
  /\ Calls(p, "write")
  /\ LET i == Instr(p)
         f == File(p, i.fd)
         a == os.file[f]
         data == IF i.data = <<"buf">> THEN os.proc[p].buf ELSE i.data
         mapped == Mapped(os.proc[p], Address(p, i.at), FALSE)
     IN os' = IF f = 0 THEN Return(os, p, -1)
              ELSE IF a.kind = "console" THEN Return(os, p, IF mapped THEN Len(data) ELSE 0)
              ELSE IF ~a.w THEN Return(os, p, -1)
              ELSE IF ~mapped THEN Return(os, p, IF a.kind = "pipe" THEN 0 ELSE -1)
              ELSE IF a.kind = "pipe" THEN PipeWrite(os, p, a.obj, data)
              ELSE FileWrite(os, p, f, data)

sys_fstat(p) ==
  /\ Calls(p, "fstat")
  /\ LET f == File(p, Instr(p).fd)
     IN  os' = IF f = 0 THEN Return(os, p, -1)
               ELSE IF os.file[f].kind # "inode" THEN Return(os, p, -1)
               ELSE Return(os, p, Len(Contents(os, os.file[f].obj)))

sys_link(p) ==
  /\ Calls(p, "link")
  /\ LET i == Namei(os, p, Instr(p).old)
         d == Nameiparent(os, p, Instr(p).new)
         n == Name(Instr(p).new)
     IN os' = IF i = 0 \/ d = 0 THEN Return(os, p, -1)
              ELSE IF os.inode[i].type = "dir" \/ Lookup(os, d, n) # 0 \/ NoRoom(os, d)
              THEN Return(os, p, -1)
              ELSE Return(AddName([os EXCEPT !.inode[i].nlink = @ + 1], d, n, i), p, 0)

sys_unlink(p) ==
  /\ Calls(p, "unlink")
  /\ LET d == Nameiparent(os, p, Instr(p).path)
         n == Name(Instr(p).path)
         i == IF d = 0 THEN 0 ELSE Lookup(os, d, n)
         isdir == os.inode[i].type = "dir"
     IN os' = IF i = 0 \/ n \in {".", ".."} THEN Return(os, p, -1)
              ELSE IF isdir /\ DOMAIN os.inode[i].ents # {".", ".."} THEN Return(os, p, -1)
              ELSE Return(Iput([DropName(os, d, n) EXCEPT
                            !.inode[i].nlink = @ - 1,
                            !.inode[d].nlink = IF isdir THEN @ - 1 ELSE @]), p, 0)

sys_mkdir(p) ==
  /\ Calls(p, "mkdir")
  /\ LET made == Creat(os, p, Instr(p).path, "dir")
     IN  os' = IF made[2] = 0 THEN Return(os, p, -1) ELSE Return(made[1], p, 0)

sys_chdir(p) ==
  /\ Calls(p, "chdir")
  /\ LET i == Namei(os, p, Instr(p).path)
     IN  os' = IF i = 0 THEN Return(os, p, -1)
               ELSE IF os.inode[i].type # "dir" THEN Return(os, p, -1)
               ELSE Return(Iput([os EXCEPT !.proc[p].cwd = i]), p, 0)

\* exec builds the new image before it gives up the old one.
sys_exec(p) ==
  /\ Calls(p, "exec")
  /\ LET i == Instr(p)
         n == Namei(os, p, i.path)
         prog == Program(os.inode[n].data, i.args)
     IN os' = IF n = 0 \/ i.args = Bad THEN Return(os, p, -1)
              ELSE IF os.inode[n].type # "file" THEN Return(os, p, -1)
              ELSE IF os.inode[n].data \notin Known THEN Return(os, p, -1)
              ELSE IF Pages(os) + 3 > NPAGES THEN Return(os, p, -1)
              ELSE [os EXCEPT !.proc[p] = Settle([@ EXCEPT
                      !.code = prog, !.sz = Image, !.mem = <<>>, !.var = Std, !.buf = <<>>])]

SystemCall(p) ==
  \/ sys_sbrk(p)  \/ sys_fork(p)  \/ sys_exit(p)   \/ sys_wait(p)  \/ sys_kill(p)
  \/ sys_open(p)  \/ sys_close(p) \/ sys_dup(p)    \/ sys_pipe(p)  \/ sys_read(p)
  \/ sys_write(p) \/ sys_link(p)  \/ sys_unlink(p) \/ sys_mkdir(p) \/ sys_chdir(p)
  \/ sys_exec(p)  \/ sys_getpid(p) \/ sys_fstat(p) \/ Access(p)  \/ usertrap(p)
=============================================================================
