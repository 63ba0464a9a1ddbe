-------------------------------- MODULE MCFs --------------------------------
(***************************************************************************)
(* The two halves of the file system of xv6 for TLC: the names and counts  *)
(* of Inode, or the contents of FileData.  A behaviour runs one of them,   *)
(* the other stays in its initial state.                                   *)
(***************************************************************************)
EXTENDS Inode, FileData, TLC

VARIABLE part

Paths == {<<"/", "a">>, <<"/", "a", "b">>}
DotDotPaths == Paths \cup {<<"..">>}

InodeOfFile == (1 :> 1 @@ 2 :> 1 @@ 3 :> 2)
WriteSizes == {-1, 3, 7}

\* The two processes may be exchanged, those of both parts together since only
\* one part moves, and the two byte values.
Exchanged(S, yes) == [x \in S |-> IF yes THEN CHOOSE y \in S : y # x ELSE x]
Symmetry == {Exchanged(FsProcs, p) @@ Exchanged(IoProcs, p) @@ Exchanged(ByteValues, v) : p, v \in BOOLEAN}

\* Whether "b" is on disk already decides if the inodes or the table run out.
OnDisk == dinode[ROOTINO].ents["a"] = 0 /\ dinode[ROOTINO].ents["b"] \in {0, NINODES}

MCInit == /\ FsInit /\ OnDisk /\ DataInit /\ part \in {"inode", "data"}
          /\ part = "data" => dinode[ROOTINO].ents["b"] = 0

MCNext == \/ part = "inode" /\ FsNext /\ UNCHANGED <<datavars, part>>
          \/ part = "data" /\ DataNext /\ UNCHANGED <<fsvars, part>>

MCSpec == MCInit /\ [][MCNext]_<<fsvars, datavars, part>>

\* Names and counts only.
MCOrphanSpec == MCInit /\ part = "inode" /\ [][MCNext]_<<fsvars, datavars, part>>
=============================================================================
