------------------------------- MODULE MCLog -------------------------------
(***************************************************************************)
(* The log, and the disk driver below it, for TLC.  A behaviour runs one   *)
(* of them.  With "crash" the log has two processes, crashes and real      *)
(* data, with "space" every process, no crash and blocks of zeroes: the    *)
(* first is about what reaches the disk, the second about room in the log. *)
(* With "driver" processes compete for the descriptors of VirtioDisk, once *)
(* the log has recovered; the log then rests.                              *)
(***************************************************************************)
EXTENDS Log, VirtioDisk

CONSTANT Third     \* the process that runs only where there is no crash

VARIABLE part

allvars == <<vars, diskvars, part>>

MCInit == /\ Init /\ DiskInit /\ part \in {"crash", "space", "driver"}
          /\ part # "crash" => home = [b \in Blocks |-> Zero]

LogRuns == part # "driver" \/ phase \in RecoveryPhases

MCNext == /\ \/ LogRuns /\ Next /\ UNCHANGED diskvars
             \/ ~LogRuns /\ DiskNext /\ UNCHANGED vars
          /\ UNCHANGED part
          /\ part = "crash" => pc'[Third] = "user"
          /\ part = "space" => crashes' = 0 /\ \A b \in Blocks : buf'[b] \in {NoBuf, Zero}

MCSpec == MCInit /\ [][MCNext]_allvars /\ Fairness /\ DriverFairness

\* Every process, no crash: for the run about the panic of log_write.
MCPanicSpec == MCInit /\ part = "space" /\ [][MCNext]_allvars
=============================================================================
