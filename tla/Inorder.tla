------------------------------ MODULE Inorder ------------------------------
(***************************************************************************)
(* condvar_basics/inorder.c: threads pass a critical section in the order  *)
(* of their numbers, whatever the order in which they are created.         *)
(*                                                                         *)
(* A pthread_cond_wait releases the mutex and sleeps in one step, may      *)
(* return spuriously, and has to get the mutex again before it returns.    *)
(***************************************************************************)
EXTENDS Naturals

CONSTANTS N,           \* number of threads, numbered 1..N
          MaxSpurious  \* bound of the model on spurious wakeups

ASSUME InorderAssumption == N \in Nat \ {0} /\ MaxSpurious \in Nat

Threads == 1..N

VARIABLES threadNext,  \* the thread whose turn it is
          lock,        \* holder of the mutex, 0 if it is free
          pc,          \* where each thread is
          spurious     \* number of spurious wakeups so far

vars == <<threadNext, lock, pc, spurious>>

TypeOK ==
  /\ threadNext \in 1..N + 1
  /\ lock \in 0..N
  /\ pc \in [Threads -> {"new", "lock", "test", "wait", "turn", "finished"}]
  /\ spurious \in 0..MaxSpurious

Init == /\ threadNext = 1
        /\ lock = 0
        /\ pc = [t \in Threads |-> "new"]
        /\ spurious = 0

\* main creates the threads one after the other, at times of its choice.
Create(t) == /\ pc[t] = "new"
             /\ pc' = [pc EXCEPT ![t] = "lock"]
             /\ UNCHANGED <<threadNext, lock, spurious>>

\* pthread_mutex_lock, at the start and on the way out of a wait.
Lock(t) == /\ pc[t] = "lock" /\ lock = 0
           /\ lock' = t
           /\ pc' = [pc EXCEPT ![t] = "test"]
           /\ UNCHANGED <<threadNext, spurious>>

OneTooEarly(t) == threadNext + 1 < t

\* The loop condition threadNext != num[0].
NotMyTurn(t) == threadNext # t

Test(t) == /\ pc[t] = "test"
           /\ IF NotMyTurn(t)
              THEN lock' = 0 /\ pc' = [pc EXCEPT ![t] = "wait"]
              ELSE pc' = [pc EXCEPT ![t] = "turn"] /\ UNCHANGED lock
           /\ UNCHANGED <<threadNext, spurious>>

Spurious(t) == /\ pc[t] = "wait" /\ spurious < MaxSpurious
               /\ spurious' = spurious + 1
               /\ pc' = [pc EXCEPT ![t] = "lock"]
               /\ UNCHANGED <<threadNext, lock>>

\* pthread_cond_broadcast, as thread t finishes.
BroadcastAll(t) == [u \in Threads |-> IF u = t THEN "finished"
                                      ELSE IF pc[u] = "wait" THEN "lock" ELSE pc[u]]

\* The mutex is held from the broadcast to the unlock.
Turn(t) == /\ pc[t] = "turn"
           /\ pc' = BroadcastAll(t)
           /\ threadNext' = threadNext + 1
           /\ lock' = 0
           /\ UNCHANGED spurious

Finished == (\A t \in Threads : pc[t] = "finished") /\ UNCHANGED vars

Next == \/ \E t \in Threads : Create(t) \/ Lock(t) \/ Test(t) \/ Spurious(t) \/ Turn(t)
        \/ Finished

Spec == Init /\ [][Next]_vars

\* main creates every thread, and every thread that can run does run.
FairSpec == Spec /\ \A t \in Threads : /\ WF_vars(Create(t)) /\ WF_vars(Lock(t))
                                       /\ WF_vars(Test(t)) /\ WF_vars(Turn(t))

-----------------------------------------------------------------------------
\* A thread finishes only after every thread with a smaller number.
FinishInOrder ==
  \A t, u \in Threads : pc[u] = "finished" /\ t < u => pc[t] = "finished"

\* Every thread finishes, so that main reaches "Everything finished".
EverythingFinishes == <>(\A t \in Threads : pc[t] = "finished")

-----------------------------------------------------------------------------
\* The mutex is held exactly between Lock and the wait or the unlock.
MutexInv ==
  \A t \in Threads : pc[t] \in {"test", "turn"} <=> lock = t

\* The threads below threadNext have finished, and nobody else; a thread
\* takes its turn only when threadNext names it.
TurnInv ==
  \A t \in Threads : /\ t < threadNext <=> pc[t] = "finished"
                     /\ pc[t] = "turn" => t = threadNext

\* The inductive invariant.
IInv == TypeOK /\ MutexInv /\ TurnInv
=============================================================================
