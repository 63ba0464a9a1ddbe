----------------------------- MODULE FileBytes -----------------------------
(***************************************************************************)
(* What kernel/fs.c promises of file contents: a file is a sequence of     *)
(* bytes, a write puts bytes into one file at or before its end, and a     *)
(* truncation empties one file.  What read() gets of a file (content) may  *)
(* be ahead of what the disk and the log have of it (saved), in bytes of a *)
(* write that failed, and may then fall back to it; nothing else changes a *)
(* file.                                                                   *)
(***************************************************************************)
EXTENDS Naturals, Sequences

CONSTANTS FileInodes, ByteValues, MaxBytes

VARIABLES content, saved

BytesInit == content = [i \in FileInodes |-> <<>>] /\ saved = content

\* s with n bytes of value v after its first at bytes.
Patched(s, at, n, v) ==
  [k \in 1..(IF at + n > Len(s) THEN at + n ELSE Len(s)) |->
     IF k \in at+1..at+n THEN v ELSE s[k]]

\* No file but i changes.
Only(i) == /\ content' = [content EXCEPT ![i] = content'[i]]
           /\ saved' = [saved EXCEPT ![i] = saved'[i]]

\* From s to t, the bytes saved of a file with the contents new: some more
\* are saved now, among them all by which the file has grown.
Saves(s, t, new) ==
  /\ Len(t) = Len(new)
  /\ \A k \in 1..Len(t) : t[k] = new[k] \/ (k <= Len(s) /\ t[k] = s[k])

PutBytes(i) ==
  LET old == content[i]
      new == content'[i]
  IN  /\ Only(i)
      /\ \E at \in 0..Len(old), n \in 0..MaxBytes, v \in ByteValues : new = Patched(old, at, n, v)
      /\ Saves(saved[i], saved'[i], new)

\* Bytes of file i that were not saved are lost.
Forget(i) ==
  LET old == content[i]
      new == content'[i]
  IN  /\ Only(i) /\ saved' = saved
      /\ Len(new) = Len(old)
      /\ \A k \in 1..Len(new) : new[k] \in {old[k], saved[i][k]}

Truncate(i) == /\ content' = [content EXCEPT ![i] = <<>>]
               /\ saved' = [saved EXCEPT ![i] = <<>>]

\* What shows in no file: locks, offsets, blocks that no file has reached.
Hidden == UNCHANGED <<content, saved>>

BytesNext == Hidden \/ \E i \in FileInodes : PutBytes(i) \/ Forget(i) \/ Truncate(i)

BytesSpec == BytesInit /\ [][BytesNext]_<<content, saved>>
=============================================================================
