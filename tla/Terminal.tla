------------------------------ MODULE Terminal ------------------------------
(***************************************************************************)
(* What kernel/console.c and kernel/uart.c promise: a line editor that     *)
(* hands committed input to readers in order, and a queue that sends what  *)
(* was written, in order.  SIZE bounds the input, finished or not.         *)
(***************************************************************************)
EXTENDS Naturals, Sequences

CONSTANTS Chars, SIZE

VARIABLES pending,   \* input that readers may take
          edit,      \* the line being typed
          outq       \* output that has not left the machine

TerminalInit == pending = <<>> /\ edit = <<>> /\ outq = <<>>

Ends(c) == c \in {"nl", "D"}

Type(c) ==
  LET line == Append(edit, c)
      full == Len(pending) + Len(line) = SIZE
  IN  /\ Len(pending) + Len(edit) < SIZE
      /\ pending' = IF Ends(c) \/ full THEN pending \o line ELSE pending
      /\ edit' = IF Ends(c) \/ full THEN <<>> ELSE line
      /\ UNCHANGED outq

Erase == /\ edit # <<>> /\ edit' = SubSeq(edit, 1, Len(edit) - 1)
         /\ UNCHANGED <<pending, outq>>
KillLine == edit' = <<>> /\ UNCHANGED <<pending, outq>>

Take == /\ pending # <<>> /\ pending' = Tail(pending)
        /\ UNCHANGED <<edit, outq>>

Put(c) == outq' = Append(outq, c) /\ UNCHANGED <<pending, edit>>
Emit == outq # <<>> /\ outq' = Tail(outq) /\ UNCHANGED <<pending, edit>>

TerminalNext == Erase \/ KillLine \/ Take \/ Emit \/ \E c \in Chars : Type(c) \/ Put(c)

TerminalSpec == TerminalInit /\ [][TerminalNext]_<<pending, edit, outq>>
=============================================================================
