------------------------------ MODULE Programs ------------------------------
(***************************************************************************)
(* The user programs of xv6 (user/*.c) that make system calls, as code.    *)
(* The file of a program holds its name.  What a program prints about a    *)
(* failure is left out: it goes to the console.                            *)
(***************************************************************************)
EXTENDS Code

\* echo.c: a word, and a blank or the end of the line.
echo(args) == for(Len(args), LAMBDA i :
                <<write("out", <<args[i + 1]>>),
                  write("out", <<IF i + 1 < Len(args) THEN "sp" ELSE "nl">>)>>) \o <<exit(0)>>

\* cat.c
catfd(v) == <<loop("cat", <<read(v, 2), stop("cat", "n"), ok(copy("out"))>>),
              when("n", -1, -1, <<exit(1)>>)>>
cat(args) == (IF args = <<>> THEN catfd("in")
              ELSE for(Len(args), LAMBDA i : <<ok(open("fd", <<args[i + 1]>>, {}))>>
                                             \o catfd("fd") \o <<close("fd")>>)) \o <<exit(0)>>

\* rm.c and mkdir.c stop at the first failure and exit(0) all the same.
each(args, do(_)) == IF args = <<>> THEN <<exit(1)>>
                     ELSE for(Len(args), LAMBDA i : <<do(<<args[i + 1]>>),
                                                      when("r", -1, -1, <<exit(0)>>)>>) \o <<exit(0)>>
rm(args)    == each(args, unlink)
mkdirs(args) == each(args, mkdir)
ln(args)    == IF Len(args) # 2 THEN <<exit(1)>> ELSE <<link(<<args[1]>>, <<args[2]>>), exit(0)>>

\* zombie.c: the parent sleeps, which takes no step here.
zombie(args) == <<fork("pid"), exit(0)>>

\* stressfs.c: a chain of processes, each with a file of its own.
stressfs(n) ==
  LET file(i) == <<<<"s0", "s1", "s2">>[i + 1]>>
      work(i) == <<open("fd", file(i), {"C", "RW"})>> \o times(2, <<write("fd", <<"a">>)>>)
                 \o <<close("fd"), open("fd", file(i), {})>> \o times(2, <<read("fd", 1)>>)
                 \o <<close("fd"), wait("w"), exit(0)>>
  IN for(n, LAMBDA i : <<fork("pid"), when("pid", 1, Huge, work(i))>>) \o work(n)

\* init.c: the shell it has started is reaped like the children that others
\* leave to it; it does not start another one.
init == <<loop("reap", <<wait("wpid"), stop("reap", "wpid")>>)>>

Known == {<<"echo">>, <<"cat">>, <<"rm">>, <<"ln">>, <<"mkdir">>, <<"zombie">>}
Program(data, args) == CASE data = <<"echo">> -> echo(args) [] data = <<"cat">> -> cat(args)
                         [] data = <<"rm">> -> rm(args)     [] data = <<"ln">> -> ln(args)
                         [] data = <<"mkdir">> -> mkdirs(args)
                         [] data = <<"zombie">> -> zombie(args)

-----------------------------------------------------------------------------
(* grind.c: two processes that do arbitrary operations on the same names.  *)

CR == {"C", "RW"}
creat(path) == <<open("x", path, CR), close("x")>>
grindir == <<"grindir">>
root(n) == <<"/", "grindir", "..", n>>

\* go: what one turn of the loop does for each value of rand() % 23 (0 is
\* nothing); fd is the descriptor kept over turns.
goFiles == <<
  creat(<<"grindir", "..", "a">>),
  creat(<<"grindir", "..", "grindir", "..", "b">>),
  <<unlink(<<"grindir", "..", "a">>)>>,
  <<gets(0, chdir(grindir)), unlink(<<"..", "b">>), chdir(<<"/">>)>>,
  <<close("fd"), open("fd", root("a"), CR)>>,
  <<close("fd"), open("fd", <<"/", ".", "grindir", ".", "..", "b">>, CR)>>,
  <<write("fd", <<"g">>)>>,
  <<read("fd", 1)>>,
  <<mkdir(<<"grindir", "..", "a">>)>> \o creat(<<"a", "..", "a", ".", "a">>) \o <<unlink(<<"a", "a">>)>>,
  <<mkdir(<<"/", "..", "b">>)>> \o creat(<<"grindir", "..", "b", "b">>) \o <<unlink(<<"b", "b">>)>>,
  <<unlink(<<"b">>), link(<<"..", "grindir", ".", "..", "a">>, <<"..", "b">>)>>,
  <<unlink(<<"..", "grindir", "..", "a">>), link(<<"..", ".", "b">>, root("a"))>> >>

forks2 == <<fork("k"), fork("k")>>
goProcesses == <<
  child("pid", <<exit(0)>>) \o <<wait("w")>>,
  child("pid", forks2 \o <<exit(0)>>) \o <<wait("w")>>,
  <<sbrk(PGSIZE + 1), when("a", 0, Huge, <<keep("grown", "zero", 1)>>)>>,
  <<when("grown", 1, 1, <<sbrk(-(PGSIZE + 1)), keep("grown", "zero", 0)>>)>>,
  child("pid", creat(<<"a">>) \o <<exit(0)>>)
    \o <<gets(0, chdir(<<"..", "grindir", "..">>)), kill("pid"), wait("w")>>,
  child("pid", <<getpid("me"), kill("me"), exit(0)>>) \o <<wait("w")>>,
  <<ok(pipe("p0", "p1"))>> \o child("pid", forks2 \o <<write("p1", <<"x">>), read("p0", 1), exit(0)>>)
    \o <<close("p0"), close("p1"), wait("w")>> >>

\* echo hi | cat, through a pipe on either side.
goPipeline ==
  <<ok(pipe("a0", "a1")), ok(pipe("b0", "b1"))>>
  \o child("pid1", <<close("b0"), close("b1"), close("a0"), close("out"), gets(1, dup("a1")),
                     close("a1"), exec(<<"grindir", "..", "echo">>, <<"hi">>), exit(2)>>)
  \o child("pid2", <<close("a1"), close("b0"), close("in"), gets(0, dup("a0")), close("a0"),
                     close("out"), gets(1, dup("b1")), close("b1"),
                     exec(<<"/", "cat">>, <<>>), exit(6)>>)
  \o <<close("a0"), close("a1"), close("b1"), clear>> \o times(3, <<more("b0", 1)>>)
  \o <<close("b0"), wait("w"), pass("status"), wait("w"), pass("status"), expect(<<"hi", "nl">>)>>

goRest == <<
  child("pid", <<unlink(<<"a">>), mkdir(<<"a">>), chdir(<<"a">>), unlink(<<"..", "a">>),
                 open("fd", <<"x">>, CR), unlink(<<"x">>), exit(0)>>) \o <<wait("w")>>,
  <<unlink(<<"c">>), ok(open("fd1", <<"c">>, CR)), gets(1, write("fd1", <<"x">>)),
    gets(1, fstat("fd1")), close("fd1"), unlink(<<"c">>)>>,
  goPipeline >>

Turns == goFiles \o goProcesses \o goRest
go(turns) == <<keep("fd", "zero", -1), keep("grown", "zero", 0), mkdir(grindir), gets(0, chdir(grindir)), chdir(<<"/">>)>>
             \o for(Len(turns), LAMBDA i : Turns[turns[i + 1]])

\* iter: the two processes, for as many turns as given; the loop of main runs
\* it once.  (grind only prints that a check of its children failed; here iter
\* hands their status on.)
iter(turns1, turns2) ==
  <<unlink(<<"a">>), unlink(<<"b">>)>> \o child("pid1", go(turns1) \o <<exit(0)>>)
  \o child("pid2", go(turns2) \o <<exit(0)>>)
  \o <<wait("w"), when("status", 1, Huge, <<kill("pid1"), kill("pid2"), wait("w"), exit(1)>>),
       wait("w"), pass("status"), exit(0)>>
=============================================================================
