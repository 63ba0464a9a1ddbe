------------------------------ MODULE MCKernel ------------------------------
(***************************************************************************)
(* Memory, traps and a pipe for TLC.  A behaviour runs one of them:        *)
(* "memory" is Vm, "smp" is Trap with one process on all CPUs, "up" is     *)
(* Trap with all processes on CPU 0, the only one main() has started yet,  *)
(* "pipe" is Pipe with three processes.                                    *)
(***************************************************************************)
EXTENDS Vm, Trap, Pipe, TLC

CONSTANT Spare     \* a slot of the process table that "smp" leaves unused

VARIABLE part

Segment(v, m, f) ==
  [load |-> TRUE, vaddr |-> v, memsz |-> m, filesz |-> f, flags |-> {"X"}, short |-> FALSE]
Elf(segs) == [elf |-> TRUE, segs |-> segs]

\* Files that exec may meet: no program, two good segments, a segment that
\* is not loaded with overlapping ones, an unaligned one, one whose file is
\* too short, one that wraps around, and one with filesz > memsz.
ProgramFiles ==
  {[elf |-> FALSE, segs |-> <<>>],
   Elf(<<Segment(0, 3, 2), Segment(4, 3, 0)>>),
   Elf(<<[Segment(0, 3, 2) EXCEPT !.load = FALSE], Segment(0, 5, 5), Segment(0, 2, 1)>>),
   Elf(<<Segment(0, 3, 2), Segment(5, 3, 0)>>),
   Elf(<<Segment(0, 3, 2), [Segment(4, 3, 2) EXCEPT !.short = TRUE]>>),
   Elf(<<Segment(0, 3, 2), Segment(4, 197, 0)>>),
   Elf(<<Segment(0, 2, 3)>>)}

Arguments == {<<>>, <<1>>, <<1, 0>>, <<0, -1>>, <<0, 0, 0>>}
SbrkSizes == {-9, -3, 0, 1, 5}
UserStores == {[va |-> 3, len |-> 3, byte |-> 6], [va |-> 0, len |-> 1, byte |-> 6]}
KernelReads == [va : {0, 3, 8, 100, 108}, len : {0, 2, 5}]
TakenByOthers == 0..13

\* The processes that share the pipe with its creator do the same things.
Symmetry == Permutations(PipeProcs \ {Creator})

MCInit ==
  /\ VmInit /\ TrapInit /\ PipeInit
  /\ part \in {"memory", "smp", "up", "pipe"}
  /\ part # "memory" => held = <<>>
  /\ pstate = [p \in KProcs |-> IF part = "smp" /\ p = Spare THEN "UNUSED" ELSE "RUNNABLE"]

MCNext ==
  \/ part = "memory" /\ VmNext /\ UNCHANGED <<trapvars, pipestate, part>>
  \/ part = "smp" /\ TrapNext /\ UNCHANGED <<vmvars, pipestate, part>>
  \/ part = "up" /\ HartStep(0) /\ UNCHANGED <<vmvars, pipestate, part>>
  \/ part = "pipe" /\ PipeNext /\ UNCHANGED <<vmvars, trapvars, part>>
  \/ part \in {"memory", "pipe"} /\ UNCHANGED <<vmvars, trapvars, pipestate, part>>   \* may rest; CPUs may not

MCSpec == MCInit /\ [][MCNext]_<<vmvars, trapvars, pipestate, part>>

\* No page leaks, is freed twice or is in two places at once, wherever an
\* allocation fails halfway through fork, exec or sbrk.
NoPageLost == part = "memory" => PagesAccounted

\* copyin and copyinstr read what the process itself would read, and fail
\* where it would fault.
CopiesAgree == part = "memory" => CopiesMatchMemory

\* No panic() of vm.c, kalloc.c, exec.c, spinlock.c, trap.c and sched().
NoKernelPanic == NoVmPanic /\ NoTrapPanic
=============================================================================
