------------------------------ MODULE Console ------------------------------
(***************************************************************************)
(* The console of xv6 (kernel/console.c) on its UART (kernel/uart.c):      *)
(* processes that read and write, the interrupt handler that edits the     *)
(* input line, echoes and restarts output, and kernel code that prints     *)
(* while all this goes on.                                                 *)
(*                                                                         *)
(* The PLIC gives a UART interrupt to one CPU at a time, so there is one   *)
(* handler.  A critical section of uart_tx_lock is a step; cons.lock is a  *)
(* variable, because the handler waits for the UART while it holds it.     *)
(* The three bytes of an erased character are three echoes.                *)
(***************************************************************************)
EXTENDS Integers, Sequences

CONSTANTS Readers, Writers,  \* processes
          Chars,             \* printable characters
          Keys,              \* what may be typed: Chars, "nl", "cr", "D", "U", "H", "nul"
          INPUT_BUF_SIZE, UART_TX_BUF_SIZE,
          UINT,              \* counters are modulo this
          FIFO_SIZE,         \* bytes of the transmit FIFO of the UART
          Text,              \* the characters each writer writes
          Counts,            \* the n of read and write
          Consumed,          \* input read before the model starts, modulo UINT
          MaxTyped,          \* bound of the model on the number of keys
          Handler, Unheld    \* holders of cons.lock

\* The FIFO of a 16550 holds 16 bytes.
ASSUME ConsoleAssumption == FIFO_SIZE \in Nat /\ FIFO_SIZE >= 3

Users == Readers \cup Writers

VARIABLES cons,      \* [buf, r, w, e]
          conslock,
          tx,        \* [buf, r, w]: uart_tx_buf and its counters
          fifo,      \* bytes the UART has not sent: <<"out", c>> or <<"sync">>
          rx,        \* the received byte, if any
          irq,       \* the UART wants an interrupt
          hand,      \* the handler: [pc, c, echo]
          kprint,    \* kernel code that prints one byte with uartputc_sync
          user,      \* the calls of the processes: [pc, n, target]
          kill,      \* p->killed
          typed      \* number of keys so far

consvars == <<cons, conslock, tx, fifo, rx, irq, hand, kprint, user, kill, typed>>

InUser == [pc |-> "user", n |-> 0, target |-> 0]
IdleHand == [pc |-> "idle", c |-> "nul", echo |-> 0]

ConsInit ==
  /\ cons = [buf |-> [k \in 0..INPUT_BUF_SIZE-1 |-> "nul"], r |-> Consumed, w |-> Consumed, e |-> Consumed]
  /\ conslock = Unheld
  /\ tx = [buf |-> [k \in 0..UART_TX_BUF_SIZE-1 |-> "nul"], r |-> 0, w |-> 0]
  /\ fifo = <<>> /\ rx = <<>> /\ irq = FALSE
  /\ hand = IdleHand /\ kprint = "ready"
  /\ user = [p \in Users |-> InUser]
  /\ kill = [p \in Users |-> FALSE]
  /\ typed = 0

Inc(x) == (x + 1) % UINT
Dec(x) == (x + UINT - 1) % UINT
Minus(x, y) == (x + UINT - y) % UINT

\* wakeup: those asleep at pc "a" try again at pc "b".
Wake(u, a, b) == [p \in Users |-> IF u[p].pc = a THEN [u[p] EXCEPT !.pc = b] ELSE u[p]]

-----------------------------------------------------------------------------
(* Output.                                                                 *)

WithoutFifo == 1

\* The bytes the UART takes while it sends one: uartinit enables the FIFOs.
TransmitRoom == FIFO_SIZE

\* LSR_TX_IDLE: the UART has sent everything.
TxIdle == fifo = <<>>

OneMore(t) == t.w = (t.r + UART_TX_BUF_SIZE + 1) % UINT

TxFull(t) == t.w = (t.r + UART_TX_BUF_SIZE) % UINT

NobodyWoken(u) == u

\* wakeup(&uart_tx_r)
WakeWriters(u) == Wake(u, "txsleep", "put")

\* uartstart on ring t: one byte goes to an idle UART and frees a place.
\* (The model forgets the byte there, which nobody reads again.)
uartstart(t, u) ==
  IF t.w = t.r \/ ~TxIdle
  THEN tx' = t /\ user' = u /\ UNCHANGED fifo
  ELSE /\ tx' = [t EXCEPT !.r = Inc(@), !.buf[t.r % UART_TX_BUF_SIZE] = "nul"]
       /\ user' = WakeWriters(u)
       /\ fifo' = Append(fifo, <<"out", t.buf[t.r % UART_TX_BUF_SIZE]>>)

sys_write(p) ==
  /\ user[p].pc = "user" /\ \E n \in Counts : user' = [user EXCEPT ![p] = [pc |-> "put", n |-> n, target |-> n]]
  /\ UNCHANGED <<cons, conslock, tx, fifo, rx, irq, hand, kprint, kill, typed>>

\* A turn of consolewrite: a bad address ends it, else uartputc.
consolewrite(p) ==
  /\ user[p].pc = "put"
  /\ \/ /\ user' = [user EXCEPT ![p] = InUser]        \* either_copyin fails
        /\ UNCHANGED <<tx, fifo>>
     \/ /\ TxFull(tx)
        /\ user' = [user EXCEPT ![p].pc = "txsleep"]
        /\ UNCHANGED <<tx, fifo>>
     \/ /\ ~TxFull(tx)
        /\ \E c \in Text[p] :
             uartstart([tx EXCEPT !.buf[tx.w % UART_TX_BUF_SIZE] = c, !.w = Inc(@)],
                       [user EXCEPT ![p] = IF @.n = 1 THEN InUser ELSE [@ EXCEPT !.n = @ - 1]])
  /\ UNCHANGED <<cons, conslock, rx, irq, hand, kprint, kill, typed>>

\* Kernel code prints a byte: uartputc_sync sees the UART idle, then writes.
printf_wait ==
  /\ kprint = "ready" /\ TxIdle
  /\ kprint' = "write"
  /\ UNCHANGED <<cons, conslock, tx, fifo, rx, irq, hand, user, kill, typed>>

printf_write ==
  /\ kprint = "write"
  /\ fifo' = Append(fifo, <<"sync">>)
  /\ kprint' = "done"
  /\ UNCHANGED <<cons, conslock, tx, rx, irq, hand, user, kill, typed>>

\* The UART sends a byte, and interrupts when it has sent the last one.
UartSend ==
  /\ fifo # <<>>
  /\ fifo' = Tail(fifo)
  /\ irq' = (irq \/ Len(fifo) = 1)
  /\ UNCHANGED <<cons, conslock, tx, rx, hand, kprint, user, kill, typed>>

-----------------------------------------------------------------------------
(* Input.                                                                  *)

\* Somebody types a key.
UartReceive ==
  /\ rx = <<>> /\ typed < MaxTyped
  /\ \E c \in Keys : rx' = <<c>>
  /\ typed' = typed + 1
  /\ irq' = TRUE
  /\ UNCHANGED <<cons, conslock, tx, fifo, hand, kprint, user, kill>>

\* usertrap or kerneltrap: devintr claims the interrupt and calls uartintr.
uartintr ==
  /\ irq /\ hand.pc = "idle"
  /\ irq' = FALSE
  /\ hand' = [hand EXCEPT !.pc = "get"]
  /\ UNCHANGED <<cons, conslock, tx, fifo, rx, kprint, user, kill, typed>>

\* uartgetc: no more input, or consoleintr(c) once cons.lock is free.
uartgetc ==
  /\ hand.pc = "get"
  /\ \/ /\ rx = <<>>
        /\ hand' = [hand EXCEPT !.pc = "start"]
        /\ UNCHANGED <<rx, conslock>>
     \/ /\ rx # <<>> /\ conslock = Unheld
        /\ conslock' = Handler /\ rx' = <<>>
        /\ hand' = [hand EXCEPT !.pc = "intr", !.c = Head(rx)]
  /\ UNCHANGED <<cons, tx, fifo, irq, kprint, user, kill, typed>>

Room == Minus(cons.e, cons.r) < INPUT_BUF_SIZE

\* consoleintr up to its echo: erase the line or a character, or make sure
\* that there is room for one.  Control-P, which prints the process table, is
\* left out, and so is the newline at which ^U stops: there is none after cons.w.
consoleintr ==
  LET c == hand.c
      line == Minus(cons.e, cons.w)
      n == CASE c = "U" -> 3 * line
             [] c = "H" -> IF line > 0 THEN 3 ELSE 0
             [] c = "nul" -> 0
             [] OTHER -> IF Room THEN 1 ELSE 0
  IN
  /\ hand.pc = "intr"
  /\ cons' = CASE c = "U" -> [cons EXCEPT !.e = cons.w]
               [] c = "H" /\ line > 0 -> [cons EXCEPT !.e = Dec(@)]
               [] OTHER -> cons
  /\ hand' = [pc |-> IF n > 0 THEN "echo" ELSE "store", c |-> IF n = 0 \/ c \in {"U", "H"} THEN "nul" ELSE c, echo |-> n]
  /\ UNCHANGED <<conslock, tx, fifo, rx, irq, kprint, user, kill, typed>>

\* consputc: each byte waits for the UART to be idle.
consputc_wait ==
  /\ hand.pc = "echo" /\ TxIdle
  /\ hand' = [hand EXCEPT !.pc = "write"]
  /\ UNCHANGED <<cons, conslock, tx, fifo, rx, irq, kprint, user, kill, typed>>

consputc_write ==
  /\ hand.pc = "write"
  /\ fifo' = Append(fifo, <<"sync">>)
  /\ hand' = [hand EXCEPT !.echo = @ - 1, !.pc = IF hand.echo = 1 THEN "store" ELSE "echo"]
  /\ UNCHANGED <<cons, conslock, tx, rx, irq, kprint, user, kill, typed>>

\* A finished line, an end-of-file or a full buffer goes to the readers.
Commits(c, e) == c \in {"nl", "D"} \/ Minus(e, cons.r) = INPUT_BUF_SIZE

NoneWoken(u) == u

WakeReaders(u) == Wake(u, "rsleep", "lock")

\* The end of consoleintr: store the character, commit and wake readers.
consoleintr_store ==
  LET c == IF hand.c = "cr" THEN "nl" ELSE hand.c
      e == Inc(cons.e)
      stored == [cons EXCEPT !.buf[cons.e % INPUT_BUF_SIZE] = c, !.e = e]
  IN
  /\ hand.pc = "store"
  /\ \/ hand.c = "nul" /\ UNCHANGED <<cons, user>>
     \/ /\ hand.c # "nul" /\ Commits(c, e)
        /\ cons' = [stored EXCEPT !.w = e]
        /\ user' = WakeReaders(user)
     \/ /\ hand.c # "nul" /\ ~Commits(c, e)
        /\ cons' = stored /\ UNCHANGED user
  /\ conslock' = Unheld
  /\ hand' = [pc |-> "get", c |-> "nul", echo |-> 0]
  /\ UNCHANGED <<tx, fifo, rx, irq, kprint, kill, typed>>

\* The end of uartintr: send buffered characters.
uartintr_start ==
  /\ hand.pc = "start"
  /\ uartstart(tx, user)
  /\ hand' = IdleHand
  /\ UNCHANGED <<cons, conslock, rx, irq, kprint, kill, typed>>

sys_read(p) ==
  /\ user[p].pc = "user"
  /\ \E n \in Counts : user' = [user EXCEPT ![p] = [pc |-> "lock", n |-> n, target |-> n]]
  /\ UNCHANGED <<cons, conslock, tx, fifo, rx, irq, hand, kprint, kill, typed>>

\* consoleread takes cons.lock, at first or when sleep returns.
consoleread_lock(p) ==
  /\ user[p].pc = "lock" /\ conslock = Unheld
  /\ conslock' = p
  /\ user' = [user EXCEPT ![p].pc = "read"]
  /\ UNCHANGED <<cons, tx, fifo, rx, irq, hand, kprint, kill, typed>>

\* A turn of consoleread, which holds cons.lock.
consoleread(p) ==
  LET u == user[p]
      c == cons.buf[cons.r % INPUT_BUF_SIZE]
      last == c = "nl" \/ u.n = 1
  IN
  /\ u.pc = "read"
  /\ \/ /\ cons.r = cons.w /\ kill[p]
        /\ user' = [user EXCEPT ![p] = InUser] /\ conslock' = Unheld
        /\ UNCHANGED cons
     \/ /\ cons.r = cons.w /\ ~kill[p]
        /\ user' = [user EXCEPT ![p].pc = "tosleep"]
        /\ UNCHANGED <<cons, conslock>>
     \/ /\ cons.r # cons.w /\ c = "D"     \* keep ^D for the next read if there is data
        /\ cons' = IF u.n < u.target THEN cons ELSE [cons EXCEPT !.r = Inc(@)]
        /\ user' = [user EXCEPT ![p] = InUser] /\ conslock' = Unheld
     \/ /\ cons.r # cons.w /\ c # "D"
        /\ cons' = [cons EXCEPT !.r = Inc(@)]
        /\ \E ok \in BOOLEAN :              \* either_copyout
             IF ~ok \/ last THEN user' = [user EXCEPT ![p] = InUser] /\ conslock' = Unheld
             ELSE user' = [user EXCEPT ![p].n = @ - 1] /\ UNCHANGED conslock
  /\ UNCHANGED <<tx, fifo, rx, irq, hand, kprint, kill, typed>>

\* sleep(&cons.r, &cons.lock), after the test of killed().
consoleread_sleep(p) ==
  /\ user[p].pc = "tosleep"
  /\ user' = [user EXCEPT ![p].pc = "rsleep"]
  /\ conslock' = Unheld
  /\ UNCHANGED <<cons, tx, fifo, rx, irq, hand, kprint, kill, typed>>

\* kill() marks a process and takes it out of sleep.
ConsKill(p) ==
  /\ ~kill[p] /\ user[p].pc # "user"
  /\ kill' = [kill EXCEPT ![p] = TRUE]
  /\ user' = [user EXCEPT ![p].pc = CASE @ = "rsleep" -> "lock" [] OTHER -> @]
  /\ UNCHANGED <<cons, conslock, tx, fifo, rx, irq, hand, kprint, typed>>

HandlerStep == \/ uartintr \/ uartgetc \/ consoleintr \/ consputc_wait \/ consputc_write
               \/ consoleintr_store \/ uartintr_start

\* Readers, and the UART and its handler, which serve both directions.
InputStep ==
  \/ \E p \in Readers : sys_read(p) \/ consoleread_lock(p) \/ consoleread(p) \/ consoleread_sleep(p) \/ ConsKill(p)
  \/ UartReceive \/ UartSend \/ HandlerStep

\* Writers, and kernel code that prints.  kill() is left out: uartputc does
\* not look at p->killed, and a writer taken out of its sleep tests the ring
\* and sleeps again.
OutputStep ==
  \/ \E p \in Writers : sys_write(p) \/ consolewrite(p)
  \/ printf_wait \/ printf_write

ConsNext == InputStep \/ OutputStep

ConsSpec == ConsInit /\ [][ConsNext]_consvars

-----------------------------------------------------------------------------
RingBetween(b, size, from, to) == [k \in 1..Minus(to, from) |-> b[((from + k - 1) % UINT) % size]]
OutputIn(s) == LET t == SelectSeq(s, LAMBDA b : b[1] = "out") IN [k \in 1..Len(t) |-> t[k][2]]

Term == INSTANCE Terminal WITH
  SIZE <- INPUT_BUF_SIZE,
  Chars <- Chars \cup {"nl", "D"},
  pending <- RingBetween(cons.buf, INPUT_BUF_SIZE, cons.r, cons.w),
  edit <- RingBetween(cons.buf, INPUT_BUF_SIZE, cons.w, cons.e),
  outq <- OutputIn(fifo) \o RingBetween(tx.buf, UART_TX_BUF_SIZE, tx.r, tx.w)

\* The rings with their wrapping counters are a line editor and a queue:
\* no byte is lost, doubled or reordered, and no editing key reaches what
\* readers may already take.
LineDiscipline == Term!TerminalSpec

\* A byte written without uart_tx_lock may meet one of uartstart in the
\* UART, yet never more bytes than the transmit buffer holds.
NoOverrun == Len(fifo) <= TransmitRoom
=============================================================================
