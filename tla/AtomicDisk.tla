----------------------------- MODULE AtomicDisk -----------------------------
(***************************************************************************)
(* What the logging layer of the xv6 file system promises to the code      *)
(* above it (kernel/log.c, header comment): file-system operations update  *)
(* blocks between begin_op and end_op; the updates of a set of operations  *)
(* reach the disk together, only at a moment when no operation is active,  *)
(* and a crash takes the disk back to the last such moment.                *)
(***************************************************************************)
EXTENDS Naturals

CONSTANTS Blocks,       \* home block numbers
          Data,         \* contents of a block
          Procs         \* processes that run file-system operations

VARIABLES stable,       \* contents that survive a crash
          current,      \* contents that running operations see
          active        \* processes between begin_op and end_op

advars == <<stable, current, active>>

ADInit == /\ stable \in [Blocks -> Data]
          /\ current = stable
          /\ active = {}

Begin(p) == /\ p \notin active
            /\ active' = active \cup {p}
            /\ UNCHANGED <<stable, current>>

Update(p, b, d) == /\ p \in active
                   /\ current' = [current EXCEPT ![b] = d]
                   /\ UNCHANGED <<stable, active>>

End(p) == /\ p \in active
          /\ active' = active \ {p}
          /\ UNCHANGED <<stable, current>>

Commit == /\ active = {}
          /\ stable' = current
          /\ UNCHANGED <<current, active>>

Crash == /\ current' = stable
         /\ active' = {}
         /\ UNCHANGED stable

ADNext == \/ \E p \in Procs : Begin(p) \/ End(p)
          \/ \E p \in Procs, b \in Blocks, d \in Data : Update(p, b, d)
          \/ Commit
          \/ Crash

ADSpec == ADInit /\ [][ADNext]_advars
=============================================================================
