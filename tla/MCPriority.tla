----------------------------- MODULE MCPriority -----------------------------
(* Priority with a few threads: see the .cfg files. *)
EXTENDS Priority
=============================================================================
