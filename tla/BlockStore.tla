----------------------------- MODULE BlockStore -----------------------------
(***************************************************************************)
(* What the buffer cache promises (kernel/bio.c, header comment): one copy *)
(* of every block, used by one process at a time, that keeps what the last *)
(* user left there.                                                        *)
(***************************************************************************)
CONSTANTS Blocks, Data, Procs

VARIABLES content,    \* what a user of the block finds
          users       \* the processes that use the block now

bkvars == <<content, users>>

BKInit == /\ content \in [Blocks -> Data]
          /\ users = [k \in Blocks |-> {}]

Obtain(p, k) == /\ users[k] = {}
                /\ users' = [users EXCEPT ![k] = {p}]
                /\ UNCHANGED content

Change(p, k, d) == /\ users[k] = {p}
                   /\ content' = [content EXCEPT ![k] = d]
                   /\ UNCHANGED users

GiveUp(p, k) == /\ users[k] = {p}
                /\ users' = [users EXCEPT ![k] = {}]
                /\ UNCHANGED content

\* What the cache does for itself does not show.
Hidden == UNCHANGED bkvars

BKNext == \/ Hidden
          \/ \E p \in Procs, k \in Blocks :
               \/ Obtain(p, k)
               \/ GiveUp(p, k)
               \/ \E d \in Data : Change(p, k, d)

BKSpec == BKInit /\ [][BKNext]_bkvars
=============================================================================
