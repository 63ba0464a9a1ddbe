----------------------------- MODULE MCPrograms -----------------------------
(***************************************************************************)
(* The programs that run above a kernel, for TLC.  A behaviour runs one    *)
(* of four things: the threads of inorder.c; one of the thread programs of *)
(* the labs and exams; the allocator of user programs; or a user program   *)
(* on the specification of the system calls (the kernel's own tests,       *)
(* grind, stressfs, a session of the shell).  What does not run rests in a *)
(* final state, or has not begun.                                          *)
(***************************************************************************)
EXTENDS Inorder, ExamLabs, MutexLabs, UserTests, Shell, Umalloc

VARIABLE job          \* what runs: a member of Jobs

allvars == <<vars, pvars, os, heap, job>>

-----------------------------------------------------------------------------
(* Instances *)

\* The files of the disk; a program holds its name.
Files == [n \in {"echo", "cat", "rm", "ln", "mkdir", "zombie", "README", "init", "console"} |->
            IF n = "README" THEN <<"r", "e">> ELSE <<n>>]

x(argv) == [type |-> "EXEC", argv |-> argv]
bad(line) == [type |-> "PANIC", line |-> line]
ea == x(<<"echo", "a">>)
ebc == x(<<"echo", "b", "c">>)
catx == x(<<"cat">>)
to(c, f) == redircmd(c, f, ">")
over(c, f) == redircmd(c, f, ">>")
frm(c, f) == redircmd(c, f, "<")

\* Sessions of the shell: the commands that its lines mean.
Sessions == <<
  <<to(pipecmd(ebc, catx), "f")>>,
  <<pipecmd(ea, pipecmd(catx, to(catx, "f")))>>,
  <<pipecmd(listcmd(ea, ebc), to(catx, "f"))>>,
  <<listcmd(to(ebc, "f"), listcmd(to(frm(catx, "f"), "g"), x(<<"rm", "f">>)))>>,
  <<listcmd(backcmd(to(ea, "f")), to(ebc, "g")), to(ea, "h")>>,
  <<to(to(ea, "f"), "g")>>,
  <<to(ebc, "f"), over(ea, "f")>>,
  <<to(listcmd(x(<<"cat", "nosuch">>), ea), "f"), x(<<"ln", "f", "g">>), x(<<"rm", "f">>)>>,
  <<x(<<"mkdir", "d">>), [type |-> "CD", dir |-> "d"], to(x(<<>>), "f")>>,
  <<frm(to(ea, "f"), "nosuch"), to(backcmd(pipecmd(ea, catx)), "g")>>,
  <<x(<<"zombie">>), listcmd(x(<<"nosuch">>), to(ea, "f"))>>,
  <<bad(<<"echo", "a", ">", "|", "cat">>), bad(<<"(", "echo", "a">>), bad(<<"echo", ")">>),
    bad(<<"echo", "a", "&", "echo">>), bad(<<"echo", "a", "a", "a", "a">>), bad(<<"echo", "(", ")">>)>>
>>

\* The turns of grind's two processes: every pair of turns that fork at most
\* two processes, the others alone, and two longer runs.
Light == (1..21) \ {14, 19}
Pairs == {<< <<i>>, <<j>> >> : <<i, j>> \in {ij \in Light \X Light : ij[1] <= ij[2]}}
         \cup {<< <<22>>, <<21>> >>, << <<14>>, <<>> >>, << <<19>>, <<>> >>,
               << <<5, 7, 8>>, <<11, 6, 7>> >>, << <<15, 16>>, <<9, 20>> >>}

Jobs == [kind : {"test"}, n : DOMAIN Tests] \cup [kind : {"orphan"}, n : DOMAIN Orphaning]
        \cup [kind : {"sh"}, n : DOMAIN Sessions]
        \cup [kind : {"stressfs"}, n : {2}] \cup [kind : {"grind"}, n : Pairs]
        \cup [kind : {"inorder", "thread", "heap"}, n : {1}]
JobCode(j) ==
  CASE j.kind = "test" -> drivetests(Tests[j.n])
    [] j.kind = "orphan" -> Orphaning[j.n]
    [] j.kind = "sh" -> main([k \in DOMAIN Sessions[j.n] |-> Line(Sessions[j.n][k])])
    [] j.kind = "stressfs" -> stressfs(j.n)
    [] j.kind = "grind" -> iter(j.n[1], j.n[2])
    [] OTHER -> <<exit(0)>>

-----------------------------------------------------------------------------
InorderOver == /\ pc = [t \in Threads |-> "finished"]
               /\ threadNext = N + 1 /\ lock = 0 /\ spurious = 0

MCInit == /\ job \in Jobs
          /\ IF job.kind = "inorder" THEN Init ELSE InorderOver
          /\ IF job.kind = "thread" THEN ExamInit \/ MutexInit ELSE Starts("none", {}, <<>>, <<>>)
          /\ OsInit(JobCode(job))
          /\ HeapInit

OsStep   == (\E p \in Procs : SystemCall(p)) /\ UNCHANGED <<vars, pvars, heap>>
LabStep  == /\ \E t \in DOMAIN at : ExamStep(t) \/ MutexStep(t) \/ SpuriousWakeup(t)
            /\ UNCHANGED <<vars, os, heap>>
MCNext == /\ \/ job.kind = "inorder" /\ Next /\ UNCHANGED <<pvars, os, heap>>
             \/ job.kind = "thread" /\ LabStep
             \/ job.kind = "heap" /\ HeapNext /\ UNCHANGED <<vars, pvars, os>>
             \/ job.kind \notin {"inorder", "thread", "heap"} /\ OsStep
          /\ UNCHANGED job

\* Every thread that can run does run.
MCFairness ==
  /\ \A t \in Threads : WF_vars(Create(t) \/ Lock(t) \/ Test(t) \/ Turn(t))
  /\ \A t \in 1..5 : WF_pvars(t \in DOMAIN at /\ (ExamStep(t) \/ MutexStep(t)))

MCSpec == MCInit /\ [][MCNext]_allvars /\ MCFairness

-----------------------------------------------------------------------------
(* Properties *)

\* The rules of the labs and exams that their programs keep, in whatever order
\* the threads come.  Those that the code breaks are named at ExamThreadsSafe
\* and MutexLabsSafe: the red channel, the followers that must leave, and when
\* a lunch group decides.
LabThreadsSafe == ExamThreadsSafe /\ MutexLabsSafe

\* The threads of inorder.c, two_person_jobs.c, game.c, critical.c, lunch.c,
\* threadpool.c and reader_writer_final.c get through: no wakeup is lost, and
\* nobody waits for somebody who has gone.  Nothing is said of leader.c and
\* littleredhen.c, which signal without the waiter's mutex and can lose one.
ThreadsEnd == EverythingFinishes /\ ExamThreadsEnd

\* Every process is gone but init, which has reaped them.
AllGone == \A p \in Procs \ {InitPid} : os.proc[p].state = "unused"

\* The 66 tests of usertests.c pass, one at a time, in every order of the steps
\* of the processes they start; and neither grind nor stressfs nor the shell
\* fails.  After 63 of them countfree finds no fewer pages than before.
\* reparent, reparent2 and forkforkfork pass too, but nothing is said of the
\* count after them: it may be smaller, and "usertests reparent" may report
\* lost pages, as long as init has not reaped the orphans they leave.
TestsPass == ~(os.proc[2].state = "zombie" /\ os.proc[2].xstate # 0 /\ os.proc[2].parent = InitPid)

\* No process waits for ever: not for a byte of a pipe whose other end nobody
\* has, not for a child that is gone.
NobodyStuck == AllGone \/ \E p \in Procs : CanRun(p)

\* The contents of the files of the root directory and of those in it.
Dirs  == {m \in DOMAIN os.inode[Root].ents \ {".", ".."} : os.inode[os.inode[Root].ents[m]].type = "dir"}
Paths == {<<n>> : n \in {m \in DOMAIN os.inode[Root].ents :
                           os.inode[os.inode[Root].ents[m]].type = "file"}}
         \cup UNION {{<<m, n>> : n \in DOMAIN os.inode[os.inode[Root].ents[m]].ents \ {".", ".."}} : m \in Dirs}
Contained == [p \in Paths |-> os.inode[Walk(os, Root, p)].data]

\* When every process of a session is gone, the files are as its lines mean:
\* parsing, forking, redirecting and piping in runcmd do what a command says,
\* whatever the order in which the processes run.
ShellMeans ==
  (job.kind = "sh" /\ AllGone) =>
     Contained = Session(Sessions[job.n],
                         [p \in {<<n>> : n \in DOMAIN Files \ {"console"}} |-> Files[p[1]]])

\* When every process is gone, so is what they had: no open file but init's
\* console, no pipe, no inode without a name.
NothingLeaked ==
  AllGone => /\ \A f \in 2..NFILE : os.file[f].ref = 0
             /\ os.file[1].ref = 3
             /\ \A i \in 1..NINODES : os.inode[i].type # "free" => os.inode[i].nlink > 0
             /\ \A k \in DOMAIN os.pipe : os.pipe[k] = NoPipe
=============================================================================
