----------------------------- MODULE MutexLabs ------------------------------
(***************************************************************************)
(* Programs whose data is guarded by more than one mutex, or by a mutex    *)
(* used wrongly: condvar_challenge/littleredhen.c, where the hen holds     *)
(* `lock' and the animals `lock2' and both count the loaves;               *)
(* threads_basics/basic_mutex/red_blue_purple.c, where purpleCommand       *)
(* releases `lock' instead of taking it; exam2/leader.c.  What the mutexes *)
(* do not exclude is a step of its own: a read and the write that follows  *)
(* it, the test of a loop and the wait.                                    *)
(***************************************************************************)
EXTENDS Pthreads, Integers, Sequences, FiniteSetsExt

CONSTANTS NumAnimals,
          LoavesPerBatch,   \* NUM_LOAVES_PER_BATCH
          NumBatches,       \* NUM_BATCHES
          LoavesToEat,      \* NUM_LOAVES_TO_EAT
          Commands,         \* Commands[t]: the commands thread t gives
          NumFollowers,     \* NUM_FOLLOWERS
          NumShifts         \* NUM_LEADER_SHIFTS

-----------------------------------------------------------------------------
(* littleredhen.c: animals 1..NumAnimals, then the hen.  lock2 is the      *)
(* animal that holds it; only the hen uses lock.                           *)

Animals == 1..NumAnimals
Hen     == NumAnimals + 1

HenInit == Starts("hen", Animals \cup {Hen},
                  [numLoaves |-> 0, batch |-> 0, lock2 |-> 0,
                   animalInKitchen |-> 0, eating |-> 0],
                  [seen |-> 0, eaten |-> 0])

Reads(t) == me' = [me EXCEPT ![t].seen = g.numLoaves]
Set(field, v) == g' = [g EXCEPT ![field] = v]

\* One pass of the for loop, from the sleep to the wait for empty shelves.
HenStep ==
  \/ /\ Runs(Hen, "start") /\ Reads(Hen) /\ Go(Hen, "bake")
     /\ UNCHANGED <<g, asleep>>
  \/ /\ Runs(Hen, "bake") /\ Go(Hen, "ready")
     /\ g' = [g EXCEPT !.numLoaves = me[Hen].seen + LoavesPerBatch, !.batch = @ + 1]
     /\ UNCHANGED <<asleep, me>>
  \/ /\ Runs(Hen, "ready") /\ asleep' \in Signal(asleep, "eatingBread")
     /\ Go(Hen, IF g.batch = NumBatches THEN "end" ELSE "shelf")
     /\ UNCHANGED <<g, me>>
  \/ /\ Runs(Hen, "shelf") /\ Go(Hen, IF g.numLoaves > 0 THEN "doze" ELSE "start")
     /\ UNCHANGED <<g, asleep, me>>
  \/ /\ Runs(Hen, "doze") /\ Sleeps(Hen, "bakingBread", "shelf")
     /\ UNCHANGED <<g, me>>

\* Into the kitchen, with n animals in it or at its door: wait while one
\* eats.  (An animal that waited counts itself and the one it waited for, or
\* finds eating = 0: testing n again changes nothing.)
KitchenTaken(n) == n > 1 /\ g.eating = 1
Door(t, n) ==
  /\ g.lock2 = 0
  /\ IF KitchenTaken(n)
     THEN Sleeps(t, "stayOut", "door") /\ Set("animalInKitchen", n)
     ELSE /\ Go(t, "look") /\ UNCHANGED asleep
          /\ g' = [g EXCEPT !.animalInKitchen = n, !.eating = @ + 1, !.lock2 = t]
  /\ UNCHANGED me

Complain(t) ==
  \/ /\ Runs(t, "look") /\ Go(t, IF g.numLoaves <= 0 THEN "complain" ELSE "bite")
     /\ UNCHANGED <<g, asleep, me>>
  \/ /\ Runs(t, "complain") /\ asleep' \in Signal(asleep, "bakingBread")
     /\ Go(t, "oven") /\ UNCHANGED <<g, me>>
  \/ /\ Runs(t, "oven") /\ Go(t, IF g.numLoaves <= 0 THEN "nap" ELSE "bite")
     /\ UNCHANGED <<g, asleep, me>>
  \/ /\ Runs(t, "nap") /\ Sleeps(t, "eatingBread", "hungry")
     /\ Set("lock2", 0) /\ UNCHANGED me
  \/ /\ Runs(t, "hungry") /\ g.lock2 = 0 /\ Set("lock2", t)
     /\ Go(t, "oven") /\ UNCHANGED <<asleep, me>>

Eat(t) ==
  \/ /\ Runs(t, "bite") /\ Reads(t) /\ Go(t, "eat") /\ UNCHANGED <<g, asleep>>
  \/ /\ Runs(t, "eat")
     /\ g' = [g EXCEPT !.numLoaves = me[t].seen - 1, !.lock2 = 0,
                       !.animalInKitchen = @ - 1, !.eating = @ - 1]
     /\ me' = [me EXCEPT ![t].eaten = @ + 1]
     /\ asleep' \in Signal(asleep, "stayOut")
     /\ Go(t, IF me[t].eaten + 1 < LoavesToEat THEN "start" ELSE "full")
  \/ /\ Runs(t, "full") /\ g.lock2 = 0
     /\ asleep' = Broadcast(asleep, "stayOut") /\ Go(t, "end")
     /\ UNCHANGED <<g, me>>

AnimalStep(t) == \/ Runs(t, "start") /\ Door(t, g.animalInKitchen + 1)
                 \/ Runs(t, "door")  /\ Door(t, g.animalInKitchen)
                 \/ Complain(t) \/ Eat(t)

-----------------------------------------------------------------------------
(* red_blue_purple.c: lock is for the red channel, mutex for the blue one. *)

\* The commands that thread1, thread2 and thread3 give.
ThreadCommands == << <<"red", "red", "white", "red", "purple", "red">>,
                     <<"red", "blue", "blue", "white", "purple", "red", "blue">>,
                     <<"red", "purple", "purple", "purple">> >>

ColoursInit == Starts("colours", DOMAIN Commands, [lock |-> 0, mutex |-> 0], [next |-> 1])

Command(t) == IF me[t].next <= Len(Commands[t]) THEN Commands[t][me[t].next] ELSE "none"
Done(t)    == Go(t, "start") /\ me' = [me EXCEPT ![t].next = @ + 1]

redCommand(t) ==
  \/ /\ Runs(t, "start") /\ g.lock = 0 /\ Set("lock", t) /\ Go(t, "red") /\ UNCHANGED me
  \/ /\ Runs(t, "red") /\ Set("lock", 0) /\ Done(t)

blueCommand(t) ==
  \/ /\ Runs(t, "start") /\ g.mutex = 0 /\ Set("mutex", t) /\ Go(t, "blue") /\ UNCHANGED me
  \/ /\ Runs(t, "blue") /\ Set("mutex", 0) /\ Done(t)

\* Releasing a mutex that is not held, or held by another thread, leaves it
\* free: what the default mutex of the C library does.
purpleCommand(t) ==
  \/ /\ Runs(t, "start") /\ Set("lock", 0) /\ Go(t, "purple") /\ UNCHANGED me
  \/ /\ Runs(t, "purple") /\ g.mutex = 0 /\ Set("mutex", t) /\ Go(t, "both") /\ UNCHANGED me
  \/ /\ Runs(t, "both") /\ Set("lock", 0) /\ Go(t, "last") /\ UNCHANGED me
  \/ /\ Runs(t, "last") /\ Set("mutex", 0) /\ Done(t)

whiteCommand(t) == Runs(t, "start") /\ Done(t) /\ UNCHANGED g

ColoursStep(t) ==
  /\ \/ Command(t) = "red"    /\ redCommand(t)
     \/ Command(t) = "blue"   /\ blueCommand(t)
     \/ Command(t) = "purple" /\ purpleCommand(t)
     \/ Command(t) = "white"  /\ whiteCommand(t)
     \/ Command(t) = "none"   /\ Runs(t, "start") /\ Go(t, "end") /\ UNCHANGED <<g, me>>
  /\ UNCHANGED asleep

-----------------------------------------------------------------------------
(* leader.c: followers 1..NumFollowers hold `lock' and read leaderPlay,    *)
(* which the leader sets under `lock2': a broadcast may come between the   *)
(* test of a follower and its wait, and then it lingers for another shift. *)

Leader == NumFollowers + 1
LeaderInit == Starts("leader", 1..Leader,
                     [lock |-> 0, leaderPlay |-> FALSE, lingering |-> 0, shifts |-> 0], <<>>)

LeaderStep ==
  \/ /\ Runs(Leader, "start") /\ Go(Leader, "rest")
     /\ Set("leaderPlay", TRUE) /\ asleep' = Broadcast(asleep, "linger")
  \/ /\ Runs(Leader, "rest") /\ UNCHANGED asleep
     /\ g' = [g EXCEPT !.leaderPlay = FALSE, !.shifts = @ + 1]
     /\ Go(Leader, IF g.shifts + 1 = NumShifts THEN "end" ELSE "start")

\* From the shift at work to the wait, and back to work; lock is held from
\* the test at the gate on.
FollowerStep(t) ==
  \/ /\ Runs(t, "start") /\ g.lock = 0 /\ Go(t, "gate") /\ UNCHANGED <<g, asleep>>
  \/ /\ Runs(t, "gate") /\ g.lock = 0 /\ UNCHANGED asleep
     /\ IF g.leaderPlay THEN Go(t, "start") /\ UNCHANGED g
        ELSE Go(t, "linger") /\ g' = [g EXCEPT !.lock = t, !.lingering = @ + 1]
  \/ /\ Runs(t, "linger") /\ UNCHANGED asleep
     /\ IF g.leaderPlay
        THEN Go(t, "start") /\ g' = [g EXCEPT !.lock = 0, !.lingering = @ - 1]
        ELSE Go(t, "doze") /\ UNCHANGED g
  \/ /\ Runs(t, "doze") /\ Sleeps(t, "linger", "woken") /\ Set("lock", 0)
  \/ /\ Runs(t, "woken") /\ g.lock = 0 /\ Set("lock", t) /\ Go(t, "linger")
     /\ UNCHANGED asleep

-----------------------------------------------------------------------------
MutexInit == HenInit \/ ColoursInit \/ LeaderInit

MutexStep(t) == /\ \/ prog = "hen" /\ t = Hen /\ HenStep
                   \/ prog = "hen" /\ t # Hen /\ AnimalStep(t)
                   \/ prog = "colours" /\ ColoursStep(t)
                   \/ prog = "leader" /\ t = Leader /\ LeaderStep /\ UNCHANGED me
                   \/ prog = "leader" /\ t # Leader /\ FollowerStep(t) /\ UNCHANGED me
                /\ UNCHANGED prog

-----------------------------------------------------------------------------
(* Properties *)

Kitchen == {"look", "complain", "oven", "nap", "hungry", "bite", "eat"}

HenSafe == /\ Cardinality(At(Kitchen)) = g.eating /\ g.eating <= 1
           /\ g.numLoaves = LoavesPerBatch * g.batch - MapThenSumSet(LAMBDA t : me[t].eaten, Animals)
           /\ g.numLoaves \in 0..LoavesPerBatch

BlueExclusive == Cardinality(At({"blue", "both"})) <= 1

\* "two different threads never try to output to the same channel at the same
\* time" (red_blue_purple.c:10-13), here for the red channel.  purpleCommand
\* writes to it without having taken `lock', so this does not hold.
RedExclusive == prog = "colours" => Cardinality(At({"red", "both"})) <= 1

LingeringCounted == g.lingering = Cardinality(At({"linger", "doze", "woken"}))

\* What these programs keep of their rules.  Although the hen and the animals
\* count the loaves under different mutexes, no update is lost and none is
\* eaten that was not baked: the hen bakes only when the shelf is empty and
\* the animals eat only when it is not; and only one animal is in the kitchen.
\* Two commands never use the blue channel at once.  The followers in the
\* playground are counted exactly.
\* The rest of what is asked of two of them does not hold and is not stated
\* here: the red channel is not exclusive (RedExclusive), and a follower that
\* misses the broadcast stays in the playground with the leader, where "all
\* followers that are in there must leave" (exam2/problem2/readme.md:159-160).
MutexLabsSafe == CASE prog = "hen" -> HenSafe
                   [] prog = "colours" -> BlueExclusive
                   [] prog = "leader" -> LingeringCounted
                   [] OTHER -> TRUE

=============================================================================
