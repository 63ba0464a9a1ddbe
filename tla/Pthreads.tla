------------------------------ MODULE Pthreads ------------------------------
(***************************************************************************)
(* What the thread programs of the labs and exams share: numbered threads, *)
(* their control state, and condition variables as the C library gives     *)
(* them (modelled from how the programs use them).  A step of a thread is  *)
(* what it does while it holds a mutex, from pthread_mutex_lock or the     *)
(* return of pthread_cond_wait to the unlock or the next wait; a mutex     *)
(* that is held from one step to the next is a field of g.  A thread may   *)
(* begin at any moment, which covers every order and delay in which main   *)
(* creates the threads, and a sleep() lasts as long as it likes.           *)
(***************************************************************************)
EXTENDS Naturals, FiniteSets

VARIABLES prog,     \* the program that runs
          at,       \* at[t]: what thread t does next
          asleep,   \* asleep[t]: the condition variable t waits on
          g,        \* the program's global variables
          me        \* me[t]: the local variables of t
pvars == <<prog, at, asleep, g, me>>

Awake == "awake"
Runs(t, label) == at[t] = label /\ asleep[t] = Awake
Go(t, label)   == at' = [at EXCEPT ![t] = label]

\* pthread_cond_wait: t runs again at label, once it is woken.
Sleeps(t, c, label) == Go(t, label) /\ asleep' = [asleep EXCEPT ![t] = c]

Waiters(a, c)   == {t \in DOMAIN a : a[t] = c}
\* pthread_cond_broadcast
Broadcast(a, c) == [t \in DOMAIN a |-> IF a[t] = c THEN Awake ELSE a[t]]
\* pthread_cond_signal wakes any one of the waiters, if there is one.
Signal(a, c)    == IF Waiters(a, c) = {} THEN {a}
                   ELSE {[a EXCEPT ![t] = Awake] : t \in Waiters(a, c)}

\* pthread_cond_wait may return without a signal.
SpuriousWakeup(t) == /\ asleep[t] # Awake
                     /\ asleep' = [asleep EXCEPT ![t] = Awake]
                     /\ UNCHANGED <<prog, at, g, me>>

Starts(p, threads, globals, local) ==
  /\ prog = p
  /\ at = [t \in threads |-> "start"]
  /\ asleep = [t \in threads |-> Awake]
  /\ g = globals
  /\ me = [t \in threads |-> local]

Ended == \A t \in DOMAIN at : at[t] = "end"
At(labels) == {t \in DOMAIN at : at[t] \in labels}
=============================================================================
