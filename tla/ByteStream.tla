----------------------------- MODULE ByteStream -----------------------------
(***************************************************************************)
(* What a pipe promises: a bounded first-in first-out stream of bytes.     *)
(* Bytes enter while both ends are open and leave while the read end is    *)
(* open; an end that has been closed stays closed.                         *)
(***************************************************************************)
EXTENDS Naturals, Sequences

CONSTANTS Bytes, Capacity

VARIABLES queue, canRead, canWrite

bsvars == <<queue, canRead, canWrite>>

BSInit == queue = <<>> /\ canRead = TRUE /\ canWrite = TRUE

Put(b) == /\ canRead /\ canWrite
          /\ Len(queue) < Capacity
          /\ queue' = Append(queue, b)
          /\ UNCHANGED <<canRead, canWrite>>

Get == /\ canRead
       /\ queue # <<>>
       /\ queue' = Tail(queue)
       /\ UNCHANGED <<canRead, canWrite>>

Close == /\ UNCHANGED queue
         /\ \/ canRead /\ canRead' = FALSE /\ UNCHANGED canWrite
            \/ canWrite /\ canWrite' = FALSE /\ UNCHANGED canRead

BSNext == (\E b \in Bytes : Put(b)) \/ Get \/ Close

BSSpec == BSInit /\ [][BSNext]_bsvars
=============================================================================
