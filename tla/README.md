# A verification development for xv6 and the CSSE 332 labs

The repository holds a teaching operating system (`xv6-riscv/`: kernel, user
programs, `mkfs`) and the lab and exam programs of the course around it, most of
them small pthread programs.  This directory models the kernel layer by layer, the
user programs, tests and shell that run on it, and the thread programs of the
course; it checks the models with TLC and proves the central results with TLAPS.
Every definition that models code is listed, with its source lines, under `map` in
`PROJECT.json`; the hazards that the properties are aimed at are listed there too.

## 1. Inventory

| part | state | operations | how it meets the others | what makes it correct |
|---|---|---|---|---|
| log (`kernel/log.c`) | in-memory header, `outstanding`, `committing`; log area on disk | `begin_op`, `log_write`, `end_op`, `commit`, `recover_from_log` | every file-system call runs inside it; pins buffers; sleeps on `&log` | a crash anywhere leaves all or nothing of a transaction; reserved space suffices; nobody sleeps for ever |
| buffer cache (`bio.c`, `sleeplock.c`) | LRU list, `refcnt`, `valid`, one sleep-lock per buffer | `bread`, `bwrite`, `brelse`, `bpin`, `bunpin` | between log/inodes and the disk driver | one copy of each block, one user at a time, no buffer recycled under its user |
| disk driver (`virtio_disk.c`) | descriptors, avail and used rings, `info` | `virtio_disk_rw`, `virtio_disk_intr` | device by DMA, interrupt, sleepers on `b` and on `&free[0]` | no completion lost, no descriptor leaked or reused early, data transferred when the call returns |
| inodes, directories, paths (`fs.c`, `sysfile.c`) | inode table, reference and link counts, directory entries | `iget`, `ilock`, `iput`, `namex`, `dirlink`, `create`, `open`, `link`, `unlink`, `chdir` | inside log transactions; sleep-locks of inodes; several processes on one name | an inode is freed once, when neither link nor reference is left; no name points at a free inode; calls that fail undo their work |
| file contents (`fs.c`, `file.c`) | bitmap, direct and indirect blocks, sizes, shared offsets | `balloc`, `bmap`, `readi`, `writei`, `itrunc`, `fileread`, `filewrite` | the bitmap is shared by all files; a `struct file` by several processes | a file is a sequence of bytes; no block lost or in two files; each chunk fits into a transaction |
| pipes (`pipe.c`) | ring of bytes, two counters, open flags, reference counts | `pipewrite`, `piperead`, `pipeclose`, `fileclose` | two wait channels under one lock; `kill` from outside | FIFO bytes, no lost wakeup, freed once by the last user |
| console, UART (`console.c`, `uart.c`) | input line buffer with three indices, transmit ring, UART FIFO | `consoleread`, `consolewrite`, `consoleintr`, `uartputc`, `uartstart`, `uartputc_sync` | interrupts, `sleep`, `printf` of the kernel on the same UART | characters neither lost nor reordered, editing never reaches a committed line, sleepers woken |
| processes (`proc.c`) | process table, `p->lock`, `wait_lock`, per-CPU `c->proc` | `fork`, `exit`, `wait`, `kill`, `yield`, `sleep`, `wakeup`, `sched`, `scheduler` | every other part sleeps and wakes through it | one CPU per kernel stack, locks handed over exactly, no missed exit, no orphan |
| spinlocks, traps, switches (`spinlock.c`, `trap.c`, `*.S`) | `noff`, `intena`, `tp`, `sepc`, `sstatus`, trapframes, contexts | `push_off`, `pop_off`, `acquire`, `release`, `usertrap`, `kerneltrap`, `swtch` | everywhere; a thread may move to another CPU whenever interrupts are on | interrupted code goes on where it was, with its registers; interrupts are off exactly while they must be |
| memory (`kalloc.c`, `vm.c`, `exec.c`) | free list, page tables | `kalloc`, `kfree`, `walk`, `mappages`, `uvmalloc`, `uvmcopy`, `uvmunmap`, `copyin`, `copyout`, `exec`, `sbrk` | `fork`, `exit`, `exec`, pipes all take pages | no page leaked or freed twice on any error path; memory is private and zeroed |
| shell and user programs (`user/*.c`) | processes, descriptors, pipes | `fork`, `exec`, `wait`, `pipe`, `dup`, ... | through system calls only | a line does what it means; nobody keeps an end of a pipe that stops the reader |
| user tests (`usertests.c`, `grind.c`, `stressfs.c`) | files, pipes and memory of several processes | the tests | system calls | they pass in every order of their processes and leave nothing behind |
| user allocator (`umalloc.c`) | circular free list in the heap | `malloc`, `free`, `morecore` | `sbrk`, which the program may call too | blocks never overlap and none is lost |
| condition-variable labs, exam programs, activities | counters guarded by one or more mutexes | thread bodies | mutexes, condition variables | the rules in the comments of each program; everybody gets through |
| ext2 reader, simple shell, debugging exercises | | sequential, or signals of the host | | results of single functions |

What is hard in this code: CPUs and interrupts interleave at every unlock;
`sleep`/`wakeup` have to hand over between two locks; `kill` strikes at any moment
without taking the lock of what its victim waits for; a machine may crash between
any two disk writes, in recovery too; memory, disk blocks, inodes, descriptors and
log space run out in the middle of a call; counters wrap; and in the labs threads
meet under several mutexes.

## 2. Modules

One module per component.  `MC*.tla` instantiate modules for TLC and define the
inputs; the `.cfg` files give the constants.  Several MC modules hold two or more
components: a behaviour chooses one `part` (or `job`) in its initial state and runs
only that one, so that one run asks related questions.  A property `part = x => P`
is about the states of that part.

| MC module | parts |
|---|---|
| `MCLog` | `crash`: two processes and crashes; `space`: three processes that compete for room; `driver` (VirtioDisk): three processes that compete for descriptors |
| `MCDisk` | `cache` (Bcache), `driver` (VirtioDisk), `processes` (Proc) |
| `MCFs` | `inode` (Inode), `data` (FileData) |
| `MCKernel` | `memory` (Vm), `smp` and `up` (Trap on two CPUs, or on one with more processes), `pipe` (Pipe, three processes) |
| `MCStreams` | `pipe` (Pipe against ByteStream), `input` and `output` (Console against Terminal) |
| `MCPrograms` | one job: `inorder.c`, one of the other thread programs, the heap, a test, a shell session, `stressfs`, a pair of turns of `grind` |
| `MCProc`, `MCPriority`, `MCLabs` | one module each: Proc with `kill(0)`, Priority, and `red_blue_purple.c` of MutexLabs |

### Log, AtomicDisk, LogProofs

`Log` is `log.c`.  The disk is three variables that survive a crash: the home
blocks, the log blocks and the header.  The cache is reduced to the contents of a
block or its absence, and the pins of `log_write`; a block that is not pinned may
be recycled at any time.  A step is one critical section of `log.lock` or one
disk write: `begin_op`, `log_write`, the two critical sections of `end_op`, each
write of `write_log`, `write_head`, each turn of `install_trans`, the clearing of
the header.  `Crash` takes everything but the disk away, in any state, and
`read_head` starts recovery again.  The panics of `log_write` and `end_op` set
`panicked`, after which `log.lock` is never free again.

`AtomicDisk` is what the logging layer promises: operations update the current
blocks, the stable blocks are replaced by the current ones only when no operation
is active, and a crash goes back to the stable ones.  `Log` implements it under
the mapping: stable = home blocks with the header's blocks redone from the log;
current = what `bread` would return.

### Bcache, BlockStore, DiskProofs

`Bcache` is `bio.c` with the sleep-locks of `sleeplock.c`.  `bget` is two steps,
since it drops `bcache.lock` before it takes the sleep-lock; so is `brelse`.  The
LRU list is a sequence from `head.next` to `head.prev`.  Callers are represented
by what all callers in `src/` do: modify a locked buffer, then `bwrite` it or have
`log_write` pin it; unpin it after writing.  A process holds one buffer at a time.
`BlockStore` is the promise of the header comment of `bio.c`: one copy, one user,
contents kept.

### VirtioDisk, DiskProofs

The driver, the device and the interrupt.  Filling a ring entry and publishing it
by `idx += 1` are separate steps with `vdisk_lock` held, so that the device may run
between them.  The device fetches entries in order and completes them in any
order.  The handler acknowledges, then loops one completion per step, then leaves;
the device may complete another request between the last test of the loop and the
release.  `alloc3_desc` that fails wakes the other waiters through `free_desc`, as
the code does.  `kill` wakes sleepers at any time.  A device error, which makes the
handler panic, is left out.  The device is external: modelled from the layout of
the rings that the driver uses.

### Inode, InodeProofs

Names, reference counts and link counts of `fs.c` and the calls of `sysfile.c`:
`open` (with and without `O_CREATE`), `close`, `link`, `unlink`, `mkdir`, `mknod`,
`chdir`.  A step ends at every `ilock` and at every critical section of
`itable.lock`, so that processes meet on one inode wherever the code lets them; in
particular `iput` is three steps: the decision under `itable.lock`, the truncation
under the inode's own lock, and the drop of the reference.  Contents are left to
FileData: where a directory needs a new block, the disk may be full.  The table of
inodes in memory and the inodes on disk are separate, and `ilock` reads one into the
other.  The disk is at first what `mkfs` leaves: the root directory and some files in
it with one link each.  When `iget` finds no free entry it panics and the system stops
(`FsHalted`).  `NoOrphanInode` is a property of quiet states.

### FileData, FileBytes, FsProofs

The other half of `fs.c`: bitmap, direct blocks and the indirect block, `readi`,
`writei` turn by turn, `itrunc`, and `filewrite` in its chunks with the offset that
the processes of a `struct file` share.  `balloc` gives the lowest free block and
fails when there is none, at any turn.  `off + n` is computed modulo `UINT`.
`copyin` goes page by page, so that a write that meets a bad address has already put
a prefix of its bytes into the buffer, which is then released without having been logged.
A block therefore has two contents: `disk` is the cached copy, which every call reads,
`home` the one that the disk and the log have.  They differ in such a prefix only;
`bget_recycles` takes the buffer away and goes back to `home`, unless the
block is in the log already, from a call of the same group, which then commits the
prefix with the rest.
`FileBytes` says what files are: sequences of bytes, changed only by a write at or
before the end and by truncation, except that bytes which are in the cache and not on
disk may be forgotten; FileData implements it with the contents read through the block lists.

### Vm, AddressSpaces

Page tables are trees of pages, taken from and given back to the free list of
`kalloc.c`, with every function of `vm.c` that works on user memory and the calls
above: `fork`, `exit`, `wait`, `sbrk`, `exec` with its arguments, `copyin`, `copyout`,
`copyinstr`.  The number of pages that other parts of the kernel hold is any number, so
that memory runs out at every possible allocation of every call.  A call is one
step: it works on the tables of its own process or on tables that nobody else knows
yet, and only the free list is shared, so that the order of two allocations does not
matter to either.  Addresses are counted modulo `UINT64`, tables have `FAN` entries
and three levels as in the code.  `AddressSpaces` is what processes see: private memory that
their own calls change, and that a failing call leaves alone.

### Trap, TrapProofs

CPUs with `tp`, `sepc`, `sstatus`, `noff`, `intena`; threads with a program counter,
a stack of return addresses and the locals that survive a switch.  Interrupts arrive
at any step at which they are enabled.  `push_off` is the two steps between which an
interrupt may still come; `kernelvec` saves and restores what the assembly saves and
restores (not `tp`); `uservec` and `userret` use the trapframe, whose `kernel_hartid`
is the CPU the process last left from.  What runs is a process in user mode or in
`sleep`, woken by the timer.  Which processes exist is Proc's business.

### Proc, ProcProofs

The process table on several CPUs.  `p->lock` is held across `swtch`, taken on one
stack and released on the other; `onstack` says on which stack a CPU is.  A process
is preempted in user mode and, as `kerneltrap` does, in the kernel wherever it
holds no lock; `back` is where it goes on.  `wait`'s scan and the wakeups of `exit`
are single steps because both sides hold `wait_lock`.  `targets` is a history
variable of the pids that `kill` was called with.  Only sleeping in `wait` is
modelled here; the other modules have their own sleepers.

### Pipe, ByteStream, StreamProofs, ModArith

A turn of the loops of `pipewrite` and `piperead` is a step, since `kill` does not
take `pi->lock`; going to sleep is a step of its own, after the test of `killed`.
`nread` and `nwrite` count modulo `PUINT`, a multiple of `PIPESIZE` as 2^32 is of
512.  Faults of `copyin` and `copyout` are alternatives of a turn.  `fork`,
`fileclose` and exit change the reference counts.  `ByteStream` is a bounded FIFO
with two ends that can be closed.

### Console, Terminal

Readers, writers, the interrupt handler and kernel `printf` on one UART.  A critical
section of `uart_tx_lock` is a step.  `cons.lock` is a variable, because the handler
waits for the UART while it holds it (echo).  `printf` and the echo test for room and
write in two steps, without the lock: that is what the hazard at `uart.c:124` is
about, and `NoOverrun` shows that the FIFO which `uartinit` turns on has room for all of
them.  The UART itself is external.  `Terminal` is a line editor in front of a queue of committed
input, and a queue of output.

### Code, Os, Programs, UserTests, Shell

`Os` is the system-call interface as one step per call, with the limits of the
kernel (`NPROC`, `NFILE`, `NOFILE`, `NINODES`, `NBLOCKS`, `NPAGES`, `PIPESIZE`,
`MAXFILE`): what the detailed modules implement, and what user programs may rely on.
A user program is a sequence of instructions (`Code`): the call, the variable for
its result, and the results with which the program goes on; with any other result
it exits with 1, as the tests do.  `Programs` has the small user programs, `init`,
`stressfs` and `grind`; `UserTests` the 66 tests of `usertests.c`, their loops shortened to
`Rounds`; `Shell` the parser of `sh.c` on tokens, with its panics, and
`runcmd`.  `Meaning` in Shell says what a command does without processes or
descriptors; the sessions of `MCPrograms` are compared with it.  Pids are the
numbers of slots, which are reused, and a symbol of a file or a pipe takes a block;
a directory takes one for `DPB` names, so that `create` and `link` may fail for want of
a block.

### Umalloc

The circular free list with its sizes and pointers, `malloc` with its splitting,
`free` with its joining in both directions, `morecore`, and a program that calls
`sbrk` itself in between, so that the heap gets gaps.

### Inorder, Priority, Pthreads, ExamLabs, MutexLabs

`inorder.c` and `priority.c` with all their threads; mutex and condition variables
as POSIX defines them, with spurious wakeups in `Inorder`, whose proofs are in
`StreamProofs`.  In `Priority` the
outer loop that never ends again is the place `spin`, in which the mutex is never
given back.  `Pthreads` is what the other thread programs share; `ExamLabs` has those
with one mutex (`two_person_jobs.c`, `game.c`, `critical.c`, `lunch.c`, `threadpool.c`,
`reader_writer_final.c`), `MutexLabs` those with several or with one used wrongly
(`littleredhen.c`, `red_blue_purple.c`, `leader.c`).  In the latter, a read and the
write that follows it are separate steps wherever no common mutex excludes others.

## 3. Runs

| run | checks | bounds |
|---|---|---|
| log | `IInv`, `LogSpaceReserved`, `SleeperHasWaker`, `AtomicAndDurable`, `RecoveryEnds`, `SleeperWoken`; `RequestsReturn` | 2 processes and 2 crashes, or 3 processes without: 2 blocks of 2 contents, operations of 2 blocks, a log that fills; a transaction of several operations, a crash in its commit and another in the recovery; 3 processes for 4 descriptors: one request at a time, one descriptor left over |
| log_panic | `NoPanic`, violated | 3 operations of one block with the log size of `mkfs` |
| disk | `CacheInv`, `OneCopyOfEachBlock`; `DriverInv`, `TransferComplete`; `ProcInv`, `NoOrphans`, `NoMissedExit`, `KilledByPid` | 3 processes, 2 buffers, 3 blocks: recycling is always needed, two may wait for one buffer; 2 requests in flight, 7 descriptors, indices modulo 14; 3 slots, 2 CPUs, 4 pids: a slot is reused, a child outlives its parent; deadlock is checked |
| fs | `NoFsPanic`, `TableInv`, `LinksCoverNames`; `BlocksAccounted`, `ChunksSafe`, `FilesAreBytes` | 2 processes, 4 calls, two names one below the other, 4 inodes on disk and 3 entries in the table, which does get full; 2 processes, 3 calls, 3 open files on 2 inodes, 5 data blocks of 2 bytes, 1 direct and 3 indirect blocks: full disk, largest file and writes that fail halfway all happen |
| fs_orphan | `NoOrphanInode`, violated | the first half of `fs` with 3 calls, 3 inodes and 5 entries |
| fs_dotdot | `NoFsPanic`, violated | one process, 6 calls, paths with `..` |
| kernel | `NoPageLost`, `CopiesAgree`, `PrivateMemory`, `NoKernelPanic`, `TrapInv`, `PipeInv` | 2 processes, 20 pages of 4 bytes of which others hold up to 13, 7 ELF files, 2 calls; 2 CPUs; 3 processes on a 1-byte pipe |
| streams | `FirstInFirstOut`, `SleepersWoken`, `LineDiscipline`, `NoOverrun`, `ConsoleWritersWoken` | 2-byte pipe, transfers of up to 3 bytes, counters modulo 4; input and output rings of 2, counters modulo 4, a FIFO of 3, 1 reader, 2 writers, 3 key strokes |
| proc_kill_zero | `KilledByPid`, violated | the process table of `disk` with `kill(0)` |
| programs | `FinishInOrder`, `LabThreadsSafe`, `ThreadsEnd`; `HeapSound`; `TestsPass`, `ShellMeans`, `NothingLeaked`, `NobodyStuck` | the threads each `main` creates, or enough for every role to meet twice; a heap of 12 units; 8 processes, 10 files, 18 inodes, 24 blocks, 24 pages, 12 shell sessions, every pair of turns of `grind` that forks at most two processes |
| priority_exclusion | `MutualExclusion`, violated | the 6 threads of `main` |
| lab_channels | `RedExclusive`, violated | the 3 threads of `red_blue_purple.c` with their commands |

Invariants with several named parts:

* `CacheInv`: `OnList` (no buffer falls off the list), `RefcntExact` (a count is the
  users and pins there are), `SleeperHasHolder`.
* `DriverInv`: `DescriptorsAccounted` (free, or of one request), `DeviceOwnsRequests`
  (what the device may touch belongs to a request in progress),
  `NoLostCompletion`.
* `TableInv`: `RefsExact` (a reference count is the pointers that files, working
  directories and calls in progress hold), `CacheCoherent` (one entry per inode,
  and a valid one agrees with the disk).
* `NoFsPanic`: `ilock`, `iput` and `sys_unlink` never panic, and `iget` only when
  `NINODE` different inodes are in use.
* `ChunksSafe`: `TransactionFits`, `WriterOwnsOffset`; the latter is about the time in
  which a chunk is being written.  Between two chunks the inode is unlocked, and a process that
  shares the file may move the offset.
* `TrapInv`: `TpIsHart`, `ResumesWhereInterrupted`, `InterruptsContained`.
* `ProcInv`: `OneStackOneCPU`, `SchedLocks`.  `PipeInv`: `NoUseAfterFree`,
  `SleepForAReason`.
* `NoKernelPanic`: no panic of `vm.c`, `kalloc.c`, `exec.c`, `spinlock.c`, `trap.c`
  and `sched`.
* `LabThreadsSafe`: the rules that the thread programs keep, e.g. at most three threads
  and two of a colour in `critical.c`; those that they break are listed under the
  violations and observations below.  `ThreadsEnd`: the threads of `inorder.c`, of the
  solved exams, of `two_person_jobs.c` and `reader_writer_final.c` all get through.
* `TestsPass`: all 66 tests pass; for 63 of them the count of free pages that
  `drivetests` makes is part of the test.

The remaining named bounds cut what is unbounded in the code: `MaxCrashes`, `MaxCalls`,
`MaxIo`, `MaxMemCalls`, `MaxN` (bytes per call), `MaxTyped`, `MaxPid`, `MaxSpurious`,
`Rounds`, `HeapEnd`.  No property mentions them, except that a heap or a file ends somewhere.  They are
large enough for each process to meet another in the middle of a call that fails
and, where counters wrap, for the counter to come back to where it was.

`disk` uses a view that ignores ring entries that have been consumed: the code
never looks at them again before it writes them.  `disk`, `fs` and `kernel` use
symmetry (of processes, CPUs, byte values), in runs without liveness; in `disk`, the
processes of the driver and the CPUs are exchanged together with two processes of the
cache, since only one part of the state moves.

Deadlock is not checked where the system may really stop: when every process of a
pipe or the console sleeps for a peer that never acts, or was killed between the
test of `killed` and `sleep` (`streams`); when programs end (`programs`, where
`NobodyStuck` takes its place); after the panic of `log_panic`; in `Priority`.  In the
other runs a panic, or a part that has used up its calls, is a state that stutters.

### Fairness

* Log: the committing or recovering thread, `begin_op` of a runnable process and
  `end_op` are weakly fair.  They need the scheduler, which runs every runnable
  process, and the disk, which answers.
* Pipe: each process is weakly fair inside its system call.  What user programs do
  is not fair.
* Console: the UART sends what it has, its interrupt is taken and handled, and a
  `printf` that has seen room goes on.  Typing, reading and writing are not fair.
* VirtioDisk: the device serves every request, its interrupt is taken, and every process
  in `virtio_disk_rw` goes on when it can, all weakly fair.  Neither the spinlock nor the wakeup of all
  who wait for descriptors keeps an order, so one process may be overtaken for ever, and
  no fairness that would exclude it is assumed.  `RequestsReturn` says what is left: what the
  device got is completed and noticed, and as long as somebody is in the driver, calls return.
* Thread programs: `main` creates every thread; runnable threads run; a mutex is handed to
  some waiter, weakly fair for each.

### What the violations show

* **log_panic.** `begin_op` admits three operations of `MAXOPBLOCKS` blocks into
  `LOGSIZE` data blocks, but `mkfs` gives the log `LOGSIZE` blocks with the header,
  so `log_write` panics on the last one.
* **fs_orphan.** `iput` marks an inode free on disk and unlocks it before it drops its own
  reference.  In between `create` of another process may get this inode from
  `ialloc` and share the table entry.  If that `create` fails on a full disk, its
  `iunlockput` finds two references and frees nothing; the first `iput` then drops
  the last one without looking again.  The inode stays allocated without a name or a reference.
* **fs_dotdot.** Removing a directory takes back the link that its `..` gave the parent,
  while the `..` itself stays as long as somebody works in it.  After mkdir `/a`, mkdir
  `/a/b`, chdir `/a/b`, unlink `/a/b` and unlink `/a`, the inode of `/a` is free, and opening
  `..` reaches the panic "ilock: no type" (`fs.c:315`).  One process is enough.
* **proc_kill_zero.** An unused slot has pid 0; `kill(0)` marks it killed and
  succeeds, and `allocproc` does not clear the mark.
* **priority_exclusion.** A newcomer that finds the section empty and one waiter
  decrements `waiting` in the waiter's place; the count reaches -1, and a later
  arrival that makes it 0 walks past the wait.
* **lab_channels.** `purpleCommand` unlocks the mutex of the red channel where it should
  lock it (`red_blue_purple.c:65`), so that two threads are on the red channel at once.
  The blue channel is exclusive (`BlueExclusive`, in `LabThreadsSafe`).

### Observations made on the way

These have no run of their own.

* `nlink` is an upper bound, not exact: `create` and `link` may put a name into a
  directory that has just been removed (`LinksCoverNames` is what holds).
* A write that fails on a bad address in its second page may leave bytes of its first
  page in the file as others see it, until the buffer is recycled or for good
  (`FilesAreBytes` says so).
* `filewrite` leaves room for a bitmap block for every block of a chunk, so that
  `TransactionFits` does not depend on how many bitmap blocks the disk has (`BPB`).
* The second `countfree` of `usertests` races with orphans that `init` has not yet reaped:
  after the tests that leave orphans (`reparent`, `reparent2`, `forkforkfork`), run alone from
  the command line, it may find fewer pages and report that some were lost.  These three are
  started by `run` only, and `TestsPass` says nothing of the count after them.
* `>>` of the shell does not append: it opens without truncating and writes from
  offset 0.  Of two output redirections the first one written takes effect last.
* `leader.c`: a follower can miss the broadcast and linger with the leader, where "all
  followers that are in there must leave" (`exam2/problem2/readme.md:159-160`); that the
  lingering followers are counted exactly is what `LabThreadsSafe` has of it.
  `littleredhen.c:88`: an animal can miss its wakeup, since the hen signals under another
  mutex.  Neither program is in `ThreadsEnd`.  `lunch.c`: a late friend may decide for
  another group; when a group decides depends on sleeping times and is not stated.

## 4. Proofs

Eight modules hold theorems, all obligations checked by tlapm, for every value of the
constants that satisfies the assumption of the component's module.  The run of the
component checks the same property on a small instance.

| module | theorem | states |
|---|---|---|
| `LogProofs` | `TypeCorrect`, `InvCorrect`, `WakerCorrect` | the type invariant, `IInv`, `SleeperHasWaker` |
| | `SpaceCorrect` | `LogSpaceReserved` |
| | `LogImplementsAtomicDisk` | the refinement `AtomicAndDurable` |
| `DiskProofs` | `CacheSound` | `CacheInv` |
| | `CacheIsBlockStore` | the refinement `OneCopyOfEachBlock` |
| | `DriverSound`, `TransfersComplete` | `DriverInv`, `TransferComplete` |
| `StreamProofs` | `PipeSound` | `PipeInv` |
| | `PipeIsFIFO` | the refinement `FirstInFirstOut` |
| | `ConsoleNeverOverruns` | `NoOverrun` |
| | `InorderCorrect`, `OrderCorrect` | the invariant of `inorder.c`, `FinishInOrder` |
| `ProcProofs` | `StacksSafe`, `ExitsSeen`, `ParentsLive` | `ProcInv`, `NoMissedExit`, `NoOrphans` |
| | `KillFollowsPid` | `KilledByPid`, if nobody calls `kill(0)` |
| `TrapProofs` | `TrapSound` | `TrapInv` |
| | `TrapsNeverPanic` | `NoTrapPanic`, the part of `NoKernelPanic` that is about Trap |
| `FsProofs` | `BlocksAccountedHolds`, `ChunksSafeHolds` | `BlocksAccounted`, `ChunksSafe` |
| | `FilesAreBytesHolds` | the refinement `FilesAreBytes` |
| `InodeProofs` | `FsInvariant` | `FsInv`, for `GoodPaths` |
| | `TableHolds` | `TableInv`, for `GoodPaths` |
| | `LinksHold` | `LinksCoverNames`, for `GoodPaths` |
| | `NoPanicHolds` | `NoFsPanic`, for `GoodPaths` |

`ModArith` has what the provers need about counters that wrap: a difference modulo a
multiple of the ring's size determines the slot.

### Assumptions

| assumption | says | in the code |
|---|---|---|
| `LogAssumption` | positive `MAXOPBLOCKS`, finite sets of processes and blocks, `NoBuf` not a contents | `param.h` |
| `BcacheAssumption` | finitely many buffers and processes, `None` is none of them | `NBUF`, `NPROC` |
| `VirtioAssumption` | at least 3 descriptors, indices modulo a proper multiple of `NUM` | `NUM` = 8, `uint16` |
| `PipeAssumption` | counters modulo a proper multiple of `PIPESIZE`, finitely many processes | 512, `uint` |
| `ConsoleAssumption` | a FIFO of at least 3 bytes | `uartinit` turns the FIFO on, which has 16 |
| `ProcAssumption` | `InitProc` is a process, `None` neither process nor CPU | `userinit` |
| `TrapAssumption` | CPU numbers are naturals, 0 among them; processes, schedulers and `tickslock` are different things | `cpuid()`, `clockintr` on CPU 0 |
| `DataAssumption` | positive sizes, `MAXOPBLOCKS` at least 4, the largest file and every count below `UINT` | `fs.h`, `param.h`, `int n` of `filewrite` |
| `InodeAssumption` | finitely many processes and names, `.`, `..` and `/` are no names, at least one inode and one entry | `fs.h`, `param.h` |
| `InorderAssumption` | at least one thread | `inorder.c` |

The theorems about Inode have one hypothesis besides, `GoodPaths`, which the instance of
the run `fs` satisfies: no path has `..`, and `/` is at the head of a path only.  The first
half is a real restriction: with `..` the panic of the run `fs_dotdot` can be reached.
Nothing is assumed of the size of the table; `NINODE` = 50 is smaller than what the
processes of `xv6` can have in use, and `iget` does panic then.  What `NoPanicHolds` says of it is that
nothing less leads there.

The bounds that a run needs (`MaxCrashes`, `MaxPid`, `MaxN`, ...) are constants
too, so the theorems hold for every value of them.

### Inductive invariants

* **Log.**  The safety of the log is not inductive by itself.  `IInv` adds what the
  parts of the state owe to each other: the header names each block once
  (`HeaderInv`); `outstanding` counts the running operations, nothing runs while a
  commit or a recovery is going on, and the header is empty when nothing runs
  (`OpsInv`); in each phase, how much of the transaction is in the log and how much
  has reached its home (`PhaseInv`); and a cached block differs from its home block
  only while it is pinned (`CacheInv`).  The last one is what makes recycling
  harmless, and it is preserved by `install_trans` only because the log blocks are
  copies of the cached blocks.  For the refinement, `write_head` is the only step that
  commits; `install_trans` and the clearing of the header leave the redone disk
  unchanged; `Crash` makes the current blocks the stable ones.  For the space, the
  writes an operation has left are a set of pairs (`Reserved`), and a `log_write` takes
  one away for each block it adds.
* **Bcache.**  A block is in one buffer at most (`OneBufferInv`), a process has the
  buffer of the block it asked for (`PlaceInv`), whoever uses a buffer holds its
  sleep-lock and nobody else does (`BufLockInv`), a pinned block is in the cache
  (`PinInv`), and a buffer that differs from the disk is pinned or about to be
  (`DirtyInv`).  Recycling is harmless because `RefcntExact` makes a buffer with
  `refcnt` 0 nobody's, and `DirtyInv` makes it equal to the disk: so each step is one
  of `BlockStore`, or none.
* **VirtioDisk.**  Every request has a chain of three linked descriptors (`ChainInv`)
  that no other shares (`ApartInv`), and the free ones are the rest (`CountInv`: the
  cardinality of `free` plus three per request is `NUM`).  A chain is on the avail
  ring, with the device or on the used ring, once (`QueueInv`); since there are fewer
  chains than slots, an index that wraps never reaches an entry that is still in use.
  `OwnInv` and `DoneInv` follow a request from `publish` to its completion.
* **Pipe.**  Reference counts are the descriptors there are (`RefInv`); a call has the
  descriptor it came by (`CallInv`); an end is open while a descriptor leads to it
  or its last holder is on the way to close it (`OpenInv`); a sleeper's condition holds
  except while somebody has `pi->lock` who is going to wake it (`SleepInv`).  The
  occupancy, a difference modulo `PUINT`, never exceeds `PIPESIZE`; a byte is where the
  FIFO has it because two counters less than `PIPESIZE` apart never share a slot.
* **Console.**  `FifoInv`: bytes in the UART, one on its way from `printf` and one from
  the echo are at most three together.
* **Proc.**  `p->lock` is held exactly across the two halves of a `swtch` (`StackInv`,
  `LockInv`), the state of a process says where it stopped (`ParkInv`), and
  `wait_lock` is held exactly between the halves of `exit` and of the sleep in
  `wait` (`WaitLockInv`).  `NoMissedExit` and `NoOrphans` speak of states in which
  nobody has `wait_lock`; `WaitInv`, `ParentInv` and `InitInv` carry them through the
  others.  `PidInv` is where `kill(0)` matters: an unused slot has pid 0, so
  `KillFollowsPid` has the hypothesis that 0 is not among the pids.
* **Trap.**  The stack of return addresses says which locks a thread holds and how deep
  its `push_off`s are nested (`Holds`, `Depth`); `Stack` says which stacks there are.
  The CPU that runs a thread has exactly these locks and this `noff` (`LocksInv`);
  interrupts are on only where the depth is 0 and no trap is being handled, and
  `intena` is off in a handler (`EnableOf`), so that its `release` does not let a
  second interrupt in; the trap registers are right where they will be read
  (`RegsOf`); a frame holds a thread that was interrupted with nothing held
  (`FrameOf`).  No two CPUs run one thread, and a process that no CPU runs is inside
  `sched` or has never run (`OneCpuEach`, `ParkInv`): the scheduler that has found it
  RUNNABLE holds its lock, so that no other CPU can still be in its `sched`.  TLC sees
  two CPUs with one process or one CPU with more; the theorem has any number of both.
* **FileData.**  The addresses of an inode, direct ones, the indirect block and its
  entries, are slots of one table (`Tree`), and a block in use is in exactly one slot
  (`Accounted`).  `bmap` fills at most two empty slots, each with a block that was
  free (`Mapped`), also when the second `balloc` fails and the indirect block stays
  behind empty.  Blocks below the size exist (`SizeInv`), and so do those that a write
  in progress has reached beyond it (`PieceInv`), which hold what it wrote: that is why
  nothing old shows when `writei` moves the size at its end; and the log has them too, so
  that no recycled buffer takes them back.  An indirect block is the same in the cache and on
  disk (`SavedInv`), so recycling never changes where a byte is.  The sleep-lock of an inode
  belongs to the process in `writei` (`IlockInv`), so that the others change other
  slots.  The transaction (`BudgetInv`): a whole block costs its bit and itself, a block
  that is written from its middle exists already (by `PieceInv`) and costs one; with
  `(MAXOPBLOCKS-1-1-2)/2` blocks in a piece, the inode and the indirect block with its
  bit, this is never more than `MAXOPBLOCKS`.
* **Inode.**  The three properties need one invariant together (`FsInv`), since a link
  count stays natural only because it covers the names, and a name leads to a live inode
  only because counts are right.  `Shape` says which of its pointers (`cur`, `ip`, `dp`,
  `vic`) a call has at each place, an `iput` in its midst included, and `LockP` which of
  them it has locked.  `RefInv`: `ref` is the number of pointers to an entry, those of
  calls, working directories and open files.  `CohInv`: no inode is in two entries, and
  an entry that is valid has what the disk has, of an inode in use.  `LinkInv`:
  `nlink` is at least the names of an inode, its subdirectories (their `..`), 1 for the
  root, and the calls under way (`Pends`) that have counted a link for which there is no name yet,
  or no name any more.  `LiveP` and `DiskInv` are about what is freed: a pointer leads
  to an inode in use, except that of an `iput` that has freed it and is about to drop
  the last reference.  `KnowP` is what makes freeing safe: an inode that `create` has
  just allocated, or that `iput` has found with one reference and no link, is known to
  one call alone (`Alone`), for no name leads to it and nobody else has a pointer; so
  nobody can come by it between the steps of `iput` where `itable.lock` is not held.
  Here `..` is excluded: removing a directory takes back the link that its `..` gave
  the parent, while the `..` itself stays as long as somebody works in it.  If `iget`
  finds no free entry, every entry has a pointer by `RefInv`, and no two have the same
  inode by `CohInv`: then entries and inodes in use are in bijection, and there are `NINODE` of them.
* **Inorder.**  The threads below `threadNext` are exactly the finished ones, and a
  thread at its turn is `threadNext`.

### Only model-checked

* All liveness properties: `RecoveryEnds`, `SleeperWoken`, `RequestsReturn`,
  `SleepersWoken`, `ConsoleWritersWoken`, `ThreadsEnd`.  Fairness and `ENABLED` are
  outside the prover.
* `Vm`, `Shell`, `UserTests`, `Os`, `Programs` and `Umalloc`, which are built on
  recursive operators: `NoPageLost`, `CopiesAgree`, `PrivateMemory`, the part of
  `NoKernelPanic` about memory, `TestsPass`, `ShellMeans`, `NothingLeaked`,
  `NobodyStuck`, `HeapSound`.
* `LineDiscipline`: its mapping filters sequences (`SelectSeq`), about which the
  provers know nothing.
* The thread programs of `LabThreadsSafe`, each of which would need a small invariant of
  its own.

Paths with `..` are covered neither by the run `fs` nor by the theorems about Inode; the run
`fs_dotdot` shows what they lead to.

## 5. Not modelled

* Composition of Log with Bcache (pins and readers together below `NBUF`), of two
  buffers held at once, and of Inode with FileData: the products are beyond TLC at
  sizes where the question could be answered.  A process killed between the test of
  `killed` and `sleep` sleeps until some other event; the models contain the step, no
  property forbids it.
* The scheduler's choice: liveness properties assume that a runnable process runs.
* Start-up code, the PLIC, `printf`, string helpers, `kvmmake`, `procdump` and the user
  library are register set-up, output or byte loops without a protocol.  `mkfs`
  matters only for the log and for the root directory it leaves.
* `malloc` of 2^31 bytes and more, whose size the `int` of `sbrk` truncates.
* `usertests.c`: `fsfull`, which `main` does not call, and the flags of `main`.  `sh.c`: characters
  and blanks (`gettoken`, `nulterminate`).  `ls`, `grep`, `wc`, `kill` and
  `forktest` are text processing on the same calls.
* `band.c`, `rooms.c` and `big_little_car.c` race on their counters and keep none of
  their rules as soon as threads leave in an unlucky order; `tunnel.c`, `max.c`,
  `threeJobs.c`, producer/consumer and the unanswered sample exams are skeletons;
  the sorting and factoring threads and `count_chars.c` share nothing until they are joined.
* `simpleshell.c` depends on signals of the host system; the ext2 reader is a
  sequential parser; exam 1, the process lab, the debugging and stack exercises have
  no state machine.
