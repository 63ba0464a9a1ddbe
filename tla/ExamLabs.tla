------------------------------ MODULE ExamLabs ------------------------------
(***************************************************************************)
(* The thread programs of the second exams, every one with a single mutex: *)
(* exam2/two_person_jobs.c and the makeup's game.c, critical.c, lunch.c    *)
(* and threadpool.c, and the readers and writers of the class activity.    *)
(***************************************************************************)
EXTENDS Pthreads

CONSTANTS NumJobs,               \* JOBNUM; twice as many workers
          NumHome, NumAway,      \* players of both teams
          NumRed, NumBlue,       \* threads of critical.c
          NumFriends,            \* friends who come to lunch
          NumPool, NumRequests,  \* threads and requests of the pool
          NumReaders, NumWriters

-----------------------------------------------------------------------------
(* two_person_jobs.c *)

JobsInit == Starts("jobs", 1..(2 * NumJobs),
                   [jobs |-> [i \in 1..NumJobs |-> "UNSTARTED"]], [job |-> 0])

\* The first job that is not past its two workers, 0 if there is none.
Wanted == LET open == {i \in 1..NumJobs : g.jobs[i] \in {"UNSTARTED", "WAITING"}}
          IN  IF open = {} THEN 0 ELSE CHOOSE i \in open : \A j \in open : i <= j

Job(i, state) == g' = [g EXCEPT !.jobs[i] = state]
NobodyHelped == {asleep}

\* The second worker wakes the first.
Helped == Signal(asleep, "startJob")

WorkerBegins(t) ==
  /\ Runs(t, "start")
  /\ LET i == Wanted IN
     /\ me' = [me EXCEPT ![t].job = i]
     /\ \/ i = 0 /\ Go(t, "lost") /\ UNCHANGED <<g, asleep>>
        \/ /\ i # 0 /\ g.jobs[i] = "UNSTARTED"
           /\ Job(i, "WAITING") /\ Sleeps(t, "startJob", "helped")
        \/ /\ i # 0 /\ g.jobs[i] = "WAITING"
           /\ Job(i, "STARTED") /\ asleep' \in Helped /\ Go(t, "work")

WorkerHelped(t) ==
  /\ Runs(t, "helped")
  /\ IF g.jobs[me[t].job] = "WAITING"
     THEN Sleeps(t, "startJob", "helped")
     ELSE Go(t, "work") /\ UNCHANGED asleep
  /\ UNCHANGED <<g, me>>

WorkerEnds(t) ==
  /\ Runs(t, "work") /\ Go(t, "end")
  /\ LET i == me[t].job IN
     \/ g.jobs[i] = "STARTED"   /\ Job(i, "PARTIALLY")
     \/ g.jobs[i] = "PARTIALLY" /\ Job(i, "DONE")
     \/ g.jobs[i] \notin {"STARTED", "PARTIALLY"} /\ UNCHANGED g
  /\ UNCHANGED <<asleep, me>>

JobsStep(t) == WorkerBegins(t) \/ WorkerHelped(t) \/ WorkerEnds(t)

-----------------------------------------------------------------------------
(* game.c: home players 1..NumHome (1 is the star), then the away players, *)
(* then the referee.                                                       *)

NumPlayers == NumHome + NumAway
Referee    == NumPlayers + 1
GameInit   == Starts("game", 1..Referee,
                [arrived |-> 0, whistle_blown |-> FALSE, interview_over |-> FALSE], <<>>)

\* The last player to come wakes the referee.
RefereeCalled(n) == IF n = NumPlayers THEN Signal(asleep, "referee_wait") ELSE {asleep}

PlayerArrives(t) ==
  /\ Runs(t, "start") /\ t # Referee
  /\ LET n == g.arrived + 1 IN
     /\ g' = [g EXCEPT !.arrived = n]
     /\ \E a \in RefereeCalled(n) :
          IF g.whistle_blown THEN Go(t, "play") /\ asleep' = a
          ELSE Go(t, "kickoff") /\ asleep' = [a EXCEPT ![t] = "player_wait"]
  /\ UNCHANGED me

PlayerWoken(t) ==
  /\ Runs(t, "kickoff")
  /\ IF g.whistle_blown THEN Go(t, "play") /\ UNCHANGED asleep
                        ELSE Sleeps(t, "player_wait", "kickoff")
  /\ UNCHANGED <<g, me>>

PlayerFinishes(t) ==
  /\ Runs(t, "play")
  /\ \/ t > NumHome /\ Go(t, "end") /\ UNCHANGED <<g, asleep>>
     \/ /\ t = 1 /\ Go(t, "end")
        /\ g' = [g EXCEPT !.interview_over = TRUE]
        /\ asleep' = Broadcast(asleep, "interview")
     \/ /\ t \in 2..NumHome /\ UNCHANGED g
        /\ IF g.interview_over THEN Go(t, "end") /\ UNCHANGED asleep
                               ELSE Sleeps(t, "interview", "play")
  /\ UNCHANGED me

Whistle(t) ==
  /\ Runs(t, "start") /\ t = Referee
  /\ IF g.arrived < NumPlayers
     THEN Sleeps(t, "referee_wait", "start") /\ UNCHANGED g
     ELSE /\ Go(t, "end") /\ g' = [g EXCEPT !.whistle_blown = TRUE]
          /\ asleep' = Broadcast(asleep, "player_wait")
  /\ UNCHANGED me

GameStep(t) == PlayerArrives(t) \/ PlayerWoken(t) \/ PlayerFinishes(t) \/ Whistle(t)

-----------------------------------------------------------------------------
(* critical.c: threads 1..NumRed are red, the others blue. *)

CriticalInit == Starts("critical", 1..(NumRed + NumBlue),
                       [threads |-> 0, red |-> 0, blue |-> 0], <<>>)
Colour(t)    == IF t <= NumRed THEN "red" ELSE "blue"
OnlyTheTotal(c) == g.threads >= 3
Crowded(c)   == g.threads >= 3 \/ g[c] >= 2

ColourEnters(t) ==
  /\ Runs(t, "start")
  /\ IF Crowded(Colour(t))
     THEN Sleeps(t, "cv", "start") /\ UNCHANGED g
     ELSE /\ Go(t, "in") /\ UNCHANGED asleep
          /\ g' = [g EXCEPT !.threads = @ + 1, ![Colour(t)] = @ + 1]
  /\ UNCHANGED me

ColourLeaves(t) ==
  /\ Runs(t, "in") /\ Go(t, "end")
  /\ g' = [g EXCEPT !.threads = @ - 1, ![Colour(t)] = @ - 1]
  /\ asleep' = Broadcast(asleep, "cv")
  /\ UNCHANGED me

CriticalStep(t) == ColourEnters(t) \/ ColourLeaves(t)

-----------------------------------------------------------------------------
(* lunch.c *)

LunchInit == Starts("lunch", 1..NumFriends, [group_size |-> 0, group_num |-> 1],
                    [size |-> 0, group |-> 0])

FriendArrives(t) ==
  /\ Runs(t, "start") /\ Go(t, "argue")
  /\ g' = [g EXCEPT !.group_size = @ + 1]
  /\ me' = [me EXCEPT ![t] = [size |-> g.group_size + 1, group |-> g.group_num]]
  /\ UNCHANGED asleep

LastToCome(t) == me[t].size = g.group_size

FriendDecides(t) ==
  /\ Runs(t, "argue")
  /\ IF LastToCome(t)
     THEN /\ g' = [group_size |-> 0, group_num |-> g.group_num + 1]
          /\ asleep' = Broadcast(asleep, "waiting") /\ Go(t, "end")
     ELSE /\ UNCHANGED g
          /\ IF g.group_num = me[t].group THEN Sleeps(t, "waiting", "hungry")
                                          ELSE Go(t, "end") /\ UNCHANGED asleep
  /\ UNCHANGED me

FriendWoken(t) ==
  /\ Runs(t, "hungry")
  /\ IF g.group_num = me[t].group THEN Sleeps(t, "waiting", "hungry")
                                  ELSE Go(t, "end") /\ UNCHANGED asleep
  /\ UNCHANGED <<g, me>>

LunchStep(t) == FriendArrives(t) \/ FriendDecides(t) \/ FriendWoken(t)

-----------------------------------------------------------------------------
(* threadpool.c *)

PoolInit == Starts("pool", 1..NumPool, [stackptr |-> 0, overflow |-> FALSE],
                   [done |-> {}])
is_empty == g.stackptr >= NumRequests

\* pop returns the request at stackptr, 0 when there is none.
pop(t) == IF g.stackptr >= NumRequests
          THEN /\ g' = [g EXCEPT !.overflow = TRUE]
               /\ me' = [me EXCEPT ![t].done = @ \cup {0}]
          ELSE /\ g' = [g EXCEPT !.stackptr = @ + 1]
               /\ me' = [me EXCEPT ![t].done = @ \cup {g.stackptr + 1}]

PoolStep(t) == /\ Runs(t, "start")
               /\ IF is_empty THEN Go(t, "end") /\ UNCHANGED <<g, me>>
                              ELSE pop(t) /\ UNCHANGED at
               /\ UNCHANGED asleep

-----------------------------------------------------------------------------
(* reader_writer_final.c: threads 1..NumWriters write, the others read.    *)
(* A writer keeps the mutex while it writes.                               *)

RwInit == Starts("rw", 1..(NumWriters + NumReaders),
                 [lock |-> 0, active |-> FALSE, waiting |-> 0, readers |-> 0], <<>>)
Free   == g.lock = 0

ReaderEnters(t) ==
  /\ Runs(t, "start") /\ t > NumWriters /\ Free
  /\ IF g.active \/ g.waiting > 0
     THEN Sleeps(t, "time_to_read", "start") /\ UNCHANGED g
     ELSE /\ Go(t, "read") /\ g' = [g EXCEPT !.readers = @ + 1]
          /\ UNCHANGED asleep
  /\ UNCHANGED me

ReaderLeaves(t) ==
  /\ Runs(t, "read") /\ Free /\ Go(t, "start")
  /\ g' = [g EXCEPT !.readers = @ - 1]
  /\ IF g.readers = 1 THEN asleep' \in Signal(asleep, "time_to_write")
                      ELSE UNCHANGED asleep
  /\ UNCHANGED me

Writes(t, waiting) ==
  IF g.readers > 0 \/ g.active
  THEN /\ Sleeps(t, "time_to_write", "turn")
       /\ g' = [g EXCEPT !.waiting = waiting]
  ELSE /\ Go(t, "write") /\ UNCHANGED asleep
       /\ g' = [g EXCEPT !.waiting = waiting - 1, !.active = TRUE, !.lock = t]

WriterEnters(t) ==
  /\ t <= NumWriters /\ Free
  /\ \/ Runs(t, "start") /\ Writes(t, g.waiting + 1)
     \/ Runs(t, "turn")  /\ Writes(t, g.waiting)
  /\ UNCHANGED me

WriterLeaves(t) ==
  /\ Runs(t, "write") /\ Go(t, "start")
  /\ g' = [g EXCEPT !.active = FALSE, !.lock = 0]
  /\ asleep' \in IF g.waiting > 0 THEN Signal(asleep, "time_to_write")
                                  ELSE {Broadcast(asleep, "time_to_read")}
  /\ UNCHANGED me

RwStep(t) == ReaderEnters(t) \/ ReaderLeaves(t) \/ WriterEnters(t) \/ WriterLeaves(t)

-----------------------------------------------------------------------------
ExamInit == \/ JobsInit \/ GameInit \/ CriticalInit
            \/ LunchInit \/ PoolInit \/ RwInit

ExamStep(t) == /\ \/ prog = "jobs"     /\ JobsStep(t)
                  \/ prog = "game"     /\ GameStep(t)
                  \/ prog = "critical" /\ CriticalStep(t)
                  \/ prog = "lunch"    /\ LunchStep(t)
                  \/ prog = "pool"     /\ PoolStep(t)
                  \/ prog = "rw"       /\ RwStep(t)
               /\ UNCHANGED prog

-----------------------------------------------------------------------------
(* Properties *)

JobsSafe ==
  /\ At({"lost"}) = {}
  /\ \A i \in 1..NumJobs :
       /\ Cardinality({t \in DOMAIN at : me[t].job = i}) <= 2
       /\ g.jobs[i] \in {"STARTED", "PARTIALLY", "DONE"} =>
            Cardinality({t \in DOMAIN at : me[t].job = i}) = 2
  /\ Ended => \A i \in 1..NumJobs : g.jobs[i] = "DONE"

GameSafe == LET playing == At({"play", "end"}) \ {Referee} IN
  /\ playing # {} => At({"start"}) \ {Referee} = {}
  /\ \A t \in 2..NumHome : at[t] = "end" => at[1] = "end"

CriticalSafe == /\ Cardinality(At({"in"})) <= 3
                /\ \A c \in {"red", "blue"} :
                     Cardinality({t \in At({"in"}) : Colour(t) = c}) = g[c] /\ g[c] <= 2

LunchSafe == \A t \in At({"end"}) : g.group_num > me[t].group

PoolSafe == /\ ~g.overflow
            /\ \A t, u \in DOMAIN at : t # u => me[t].done \cap me[u].done = {}
            /\ Ended => UNION {me[t].done : t \in DOMAIN at} = 1..NumRequests

RwSafe == /\ Cardinality(At({"write"})) <= 1
          /\ At({"write"}) # {} => At({"read"}) = {}

\* What the exams ask of the threads and these programs keep, whatever the
\* order in which the threads come:
\* every job is done by exactly two workers and nobody is left without a job
\* ("This should never happen if your solution is correct"); nobody plays
\* before all have come, and no home player leaves the field before the star
\* has given his interview; at most three threads and two of a colour are in
\* the critical section, as the counters say; nobody leaves lunch with a group
\* that is still arguing; every request of the pool is served once; no reader
\* reads while a writer writes.
\* That the friends decide after ARGUE_TIME without a newcomer is not stated:
\* it is about time, and a friend who is late at the mutex, with a size that
\* another group has reached, decides for that group.
ExamThreadsSafe == CASE prog = "jobs" -> JobsSafe
                     [] prog = "game" -> GameSafe
                     [] prog = "critical" -> CriticalSafe
                     [] prog = "lunch" -> LunchSafe
                     [] prog = "pool" -> PoolSafe
                     [] prog = "rw" -> RwSafe
                     [] OTHER -> TRUE

\* Each of these programs ends (the readers and writers run for ever: there a writer
\* that waits is followed by a writer that writes), so no wakeup is lost and
\* nobody waits for somebody who has gone.
ExamThreadsEnd == /\ prog \in {"jobs", "game", "critical", "lunch", "pool"} ~> Ended
                  /\ (prog = "rw" /\ At({"turn"}) # {}) ~> At({"write"}) # {}

=============================================================================
