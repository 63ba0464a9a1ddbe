------------------------------ MODULE MCStreams -----------------------------
(***************************************************************************)
(* The byte streams of the kernel for TLC: a pipe, console input and       *)
(* console output.  A behaviour runs one of them; the UART and its         *)
(* interrupt handler belong to both directions of the console.             *)
(***************************************************************************)
EXTENDS Pipe, Console

CONSTANTS w1, w2

VARIABLE part

TextOf == [p \in Writers |-> IF p = w1 THEN {"a"} ELSE {"b"}]

streamvars == <<pipestate, consvars, part>>

MCInit == /\ PipeInit /\ ConsInit /\ part \in {"pipe", "input", "output"}
          /\ part # "pipe" => pidata = [k \in 0..PIPESIZE-1 |-> 0]

MCNext ==
  \/ part = "pipe" /\ PipeNext /\ UNCHANGED <<consvars, part>>
  \/ part = "input" /\ InputStep /\ UNCHANGED <<pipestate, part>>
  \/ part = "output" /\ (OutputStep \/ UartSend \/ HandlerStep) /\ UNCHANGED <<pipestate, part>>

\* The scheduler runs every process, the UART sends what it has, and its
\* interrupt is taken and handled.
MCFairness ==
  /\ \A p \in PipeProcs : WF_streamvars(part = "pipe" /\ PipeRun(p) /\ UNCHANGED <<consvars, part>>)
  /\ WF_streamvars(part # "pipe" /\ UartSend /\ UNCHANGED <<pipestate, part>>)
  /\ WF_streamvars(part # "pipe" /\ HandlerStep /\ UNCHANGED <<pipestate, part>>)
  /\ WF_streamvars(part = "output" /\ printf_write /\ UNCHANGED <<pipestate, part>>)

MCSpec == MCInit /\ [][MCNext]_streamvars /\ MCFairness

\* A writer asleep on a full transmit buffer wakes up: the UART becomes idle
\* again and again, its interrupt is never lost, and uartstart wakes the
\* writers for each character it takes, although printf writes to the same
\* UART behind its back.
ConsoleWritersWoken == \A p \in Writers : user[p].pc = "txsleep" ~> user[p].pc # "txsleep"
=============================================================================
