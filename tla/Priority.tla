------------------------------ MODULE Priority ------------------------------
(***************************************************************************)
(* condvar_challenge/priority.c: threads with priorities share a critical  *)
(* section.  A step is what a thread does while it holds the one mutex,    *)
(* from pthread_mutex_lock or the return of pthread_cond_wait to the       *)
(* unlock or the next wait.                                                *)
(***************************************************************************)
EXTENDS Integers, FiniteSets

CONSTANT NumThreads    \* threads 1..NumThreads, the number is the priority

Threads == 1..NumThreads

VARIABLES waiting,     \* threads that wait to enter; may drop below zero
          inCrit,      \* threads in the critical section
          highestPriority,
          pc           \* where each thread is

vars == <<waiting, inCrit, highestPriority, pc>>

Init == /\ waiting = 0
        /\ inCrit = 0
        /\ highestPriority = 0
        /\ pc = [t \in Threads |-> "new"]

Larger(a, b) == IF a > b THEN a ELSE b

-----------------------------------------------------------------------------
Sleep(t) == /\ pc' = [pc EXCEPT ![t] = "asleep"]
            /\ UNCHANGED inCrit

Enter(t) == /\ pc' = [pc EXCEPT ![t] = "crit"]
            /\ inCrit' = inCrit + 1

\* inCrit != 0
Busy == inCrit # 0

\* The condition of the inner loop, with w for waiting and h for highestPriority.
MustWait(t, w, h) == (t # h /\ w > 1) \/ Busy

\* From the inner loop on: wait, enter, or go round the outer loop again,
\* which ends when nobody waits any more and otherwise spins with the mutex
\* held.
InnerLoop(t, w, h) ==
  IF MustWait(t, w, h)
  THEN Sleep(t) /\ waiting' = w /\ highestPriority' = h
  ELSE IF t = h \/ w = 1
  THEN Enter(t) /\ waiting' = w - 1 /\ highestPriority' = h
  ELSE IF w = 0
  THEN Enter(t) /\ waiting' = w /\ highestPriority' = h
  ELSE IF t > h
  THEN Enter(t) /\ waiting' = w - 1 /\ highestPriority' = t
  ELSE /\ pc' = [pc EXCEPT ![t] = "spin"]
       /\ waiting' = w /\ highestPriority' = h
       /\ UNCHANGED inCrit

NoSpinner == \A t \in Threads : pc[t] # "spin"

Arrive(t) ==
  /\ NoSpinner /\ pc[t] = "new"
  /\ LET w == IF Busy THEN waiting + 1 ELSE waiting
     IN  IF w = 0
         THEN Enter(t) /\ waiting' = w /\ UNCHANGED highestPriority
         ELSE InnerLoop(t, w, Larger(highestPriority, t))

\* pthread_cond_wait returns after a broadcast.
Return(t) ==
  /\ NoSpinner /\ pc[t] = "woken"
  /\ InnerLoop(t, waiting, highestPriority)

Leave(t) ==
  /\ NoSpinner /\ pc[t] = "crit"
  /\ inCrit' = inCrit - 1
  /\ pc' = [u \in Threads |-> IF u = t THEN "done"
                              ELSE IF pc[u] = "asleep" THEN "woken" ELSE pc[u]]
  /\ UNCHANGED <<waiting, highestPriority>>

Step(t) == Arrive(t) \/ Return(t) \/ Leave(t)

Next == \E t \in Threads : Step(t)

Spec == Init /\ [][Next]_vars

-----------------------------------------------------------------------------
InCrit == {t \in Threads : pc[t] = "crit"}

\* "While a thread is in the critical section no other threads can enter -
\* regardless of priority" (priority.c:11-13).
MutualExclusion == Cardinality(InCrit) <= 1
=============================================================================
