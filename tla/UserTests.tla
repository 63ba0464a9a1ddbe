----------------------------- MODULE UserTests ------------------------------
(***************************************************************************)
(* user/usertests.c: the tests the repository has for the kernel, as user  *)
(* programs of Os.  Every test is the sequence of system calls it makes,   *)
(* with the results it insists on; TLC runs each in every order in which   *)
(* the processes it forks can be scheduled.  Amounts are small (Rounds for *)
(* the repetitions, PGSIZE, MAXFILE, ... for the limits); where a test     *)
(* writes more than a pipe or a file holds, so does its model.             *)
(***************************************************************************)
EXTENDS Os

CONSTANT Rounds     \* how often a test repeats itself

R == {}                 \* O_RDONLY
W == {"W"}
RW == {"RW"}
C == {"C"}
CW == {"C", "W"}
CRW == {"C", "RW"}
CWT == {"C", "W", "T"}
WT == {"W", "T"}

Digit(k) == <<"0", "1", "2", "3", "4", "5", "6", "7", "8", "9">>[k + 1]
Rep(x, n) == [k \in 1..n |-> x]
xx == Rep("x", 2)
Far  == <<"zero", Huge>>      \* 0x80000000, and
Wild == <<"zero", -1>>        \* 0xffffffffffffffff
\* Opens and closes a file that may not be there.
openclose(path, mode) == <<open("fd", path, mode), close("fd")>>
\* Reads the rest of a file, two blocks at a time.
readall(v) == <<clear, loop("all", <<more(v, 2), stop("all", "n")>>)>>

-----------------------------------------------------------------------------
(* Pointers the kernel must not follow *)

copyin == LET try(a) ==
  <<ok(open("fd", <<"copyin1">>, CW)), no(from(a, write("fd", xx))), close("fd"),
    unlink(<<"copyin1">>), wants(-1, 0, from(a, write("out", xx))),
    ok(pipe("r0", "w0")), wants(-1, 0, from(a, write("w0", xx))), close("r0"), close("w0")>>
  IN try(Far) \o try(Wild)

copyout == LET try(a) ==
  <<ok(open("fd", <<"README">>, R)), wants(-1, 0, from(a, read("fd", 2))), close("fd"),
    ok(pipe("r0", "w0")), gets(1, write("w0", <<"x">>)),
    wants(-1, 0, from(a, read("r0", 2))), close("r0"), close("w0")>>
  IN try(Far) \o try(Wild)

copyinstr1 == times(2, <<no(open("fd", Bad, CW))>>)

badstring == <<no(unlink(Bad)), no(open("fd", Bad, CW)), no(link(Bad, Bad)),
               no(exec(Bad, <<"x">>))>>

copyinstr2 == badstring
  \o child("pid", <<no(exec(<<"echo">>, Bad)), exit(747)>>)
  \o <<wait("w"), same("status", "zero", 747)>>

\* The string begins in the last byte of the memory: it has no end.
copyinstr3 == <<sbrk(2 * PGSIZE), sbrk(0), store(<<"a", -1>>, 1)>> \o badstring

rwsbrk ==
  <<ok(sbrk(2 * PGSIZE)), ok(into("b", sbrk(-2 * PGSIZE))),
    ok(open("fd", <<"rwsbrk">>, CW)), no(from(<<"a", PGSIZE>>, write("fd", <<"x">>))),
    close("fd"), unlink(<<"rwsbrk">>),
    ok(open("fd", <<"README">>, R)), no(from(<<"a", PGSIZE>>, read("fd", 2))), close("fd"),
    exit(0)>>

-----------------------------------------------------------------------------
(* Truncation *)

tf == <<"truncfile">>
abcd == <<"a", "b", "c", "d">>

truncate1 ==
  <<unlink(tf), open("fd1", tf, CWT), write("fd1", abcd), close("fd1"),
    open("fd2", tf, R), gets(4, read("fd2", 32)),
    open("fd1", tf, WT), open("fd3", tf, R), gets(0, read("fd3", 32)), gets(0, read("fd2", 32)),
    write("fd1", abcd \o <<"e", "f">>), gets(6, read("fd3", 32)), gets(2, read("fd2", 32)),
    unlink(tf), close("fd1"), close("fd2"), close("fd3")>>

truncate2 ==
  <<unlink(tf), open("fd1", tf, CWT), write("fd1", abcd), open("fd2", tf, WT),
    no(write("fd1", <<"x">>)), unlink(tf), close("fd1"), close("fd2")>>

truncate3 ==
  openclose(tf, CWT)
  \o child("pid", times(Rounds, <<ok(open("fd", tf, W)), gets(2, write("fd", xx)), close("fd"),
                             open("fd", tf, R), read("fd", 32), close("fd")>>) \o <<exit(0)>>)
  \o times(Rounds, <<ok(open("fd", tf, CWT)), gets(1, write("fd", <<"y">>)), close("fd")>>)
  \o <<wait("w"), unlink(tf), exits("status")>>

-----------------------------------------------------------------------------
(* Inodes that are still used when they are removed *)

iputtest == <<ok(mkdir(<<"iputdir">>)), ok(chdir(<<"iputdir">>)),
              ok(unlink(<<"..", "iputdir">>)), ok(chdir(<<"/">>))>>

exitiputtest ==
  child("pid", <<ok(mkdir(<<"iputdir">>)), ok(chdir(<<"iputdir">>)),
                 ok(unlink(<<"..", "iputdir">>)), exit(0)>>)
  \o <<wait("w"), exits("status")>>

openiputtest ==
  <<ok(mkdir(<<"oidir">>))>>
  \o child("pid", <<no(open("fd", <<"oidir">>, RW)), exit(0)>>)
  \o <<gets(0, unlink(<<"oidir">>)), wait("w"), exits("status")>>

-----------------------------------------------------------------------------
(* Simple file system tests *)

opentest == <<ok(open("fd", <<"echo">>, R)), close("fd"), no(open("fd", <<"doesnotexist">>, R))>>

writetest ==
  <<ok(open("fd", <<"small">>, CRW))>>
  \o times(Rounds, <<gets(1, write("fd", <<"a">>)), gets(1, write("fd", <<"b">>))>>)
  \o <<close("fd"), ok(open("fd", <<"small">>, R)), gets(2 * Rounds, read("fd", 2 * Rounds)), close("fd"),
       ok(unlink(<<"small">>))>>

writebig ==
  <<ok(open("fd", <<"big">>, CRW))>>
  \o for(MAXFILE, LAMBDA i : <<gets(1, write("fd", <<Digit(i)>>))>>)
  \o <<close("fd"), ok(open("fd", <<"big">>, R))>>
  \o for(MAXFILE, LAMBDA i : <<gets(1, read("fd", 1)), expect(<<Digit(i)>>)>>)
  \o <<gets(0, read("fd", 1)), close("fd"), ok(unlink(<<"big">>))>>

createtest == for(Rounds + 1, LAMBDA i : openclose(<<Digit(i)>>, CRW))
              \o for(Rounds + 1, LAMBDA i : <<unlink(<<Digit(i)>>)>>)

dirtest == <<ok(mkdir(<<"dir0">>)), ok(chdir(<<"dir0">>)), ok(chdir(<<"..">>)),
             ok(unlink(<<"dir0">>))>>

exectest ==
  <<unlink(<<"echo-ok">>)>>
  \o child("pid", <<close("out"), gets(1, open("fd", <<"echo-ok">>, CW)),
                    ok(exec(<<"echo">>, <<"OK">>))>>)
  \o <<wait("w"), pass("status"), ok(open("fd", <<"echo-ok">>, R)), gets(1, read("fd", 1)),
       unlink(<<"echo-ok">>), expect(<<"OK">>), exit(0)>>

-----------------------------------------------------------------------------
(* Pipes and processes *)

\* The parent reads one byte, then more; the test stops at the first byte
\* that is not the next of the sequence.
pipe1 ==
  <<gets(0, pipe("r0", "w0"))>>
  \o child("pid", <<close("r0"), gets(3, write("w0", <<"0", "1", "2">>)),
                    gets(3, write("w0", <<"3", "4", "5">>)), exit(0)>>)
  \o <<close("w0"), more("r0", 1), loop("in", <<more("r0", 2), stop("in", "n")>>),
       expect(<<"0", "1", "2", "3", "4", "5">>), close("r0"), wait("w"), exits("status")>>

killstatus ==
  times(Rounds, child("pid1", <<spin>>)
           \o <<kill("pid1"), wait("w"), same("status", "zero", -1)>>) \o <<exit(0)>>

\* (The test only complains of what it reads; the model insists on it.)
preempt ==
  child("pid1", <<spin>>) \o child("pid2", <<spin>>) \o <<pipe("r0", "w0")>>
  \o child("pid3", <<close("r0"), gets(1, write("w0", <<"x">>)), close("w0"), spin>>)
  \o <<close("w0"), gets(1, read("r0", 2)), close("r0"),
       kill("pid1"), kill("pid2"), kill("pid3"), wait("w"), wait("w"), wait("w")>>

exitwait == for(Rounds, LAMBDA i : child("pid", <<exit(i)>>)
                              \o <<wait("w"), same("w", "pid", 0), same("status", "zero", i)>>)

reparent ==
  <<getpid("master")>>
  \o times(Rounds, child("pid", <<fork("pid2"), when("pid2", -1, -1, <<kill("master"), exit(1)>>),
                             exit(0)>>)
              \o <<wait("w"), same("w", "pid", 0)>>) \o <<exit(0)>>

twochildren == times(Rounds, child("pid1", <<exit(0)>>) \o child("pid2", <<exit(0)>>)
                        \o <<wait("w"), wait("w")>>)

forkfork ==
  times(2, child("pid", times(Rounds, child("pid1", <<exit(0)>>) \o <<wait("w")>>) \o <<exit(0)>>))
  \o times(2, <<wait("w"), pass("status")>>)

reparent2 == times(Rounds, child("pid1", <<fork("k"), fork("k"), exit(0)>>) \o <<wait("w")>>)
             \o <<exit(0)>>

\* Every child goes on forking until there is a file stopforking.  (The
\* variables are cleared where the test does not look at them again.)
forkforkfork == LET sf == <<"stopforking">>
                    forget == <<keep("fd", "zero", 0), keep("k", "zero", 0), keep("r", "zero", 0)>>
  IN <<unlink(sf)>>
     \o child("pid", <<loop("more", <<open("fd", sf, R), when("fd", 0, Huge, <<exit(0)>>),
                      fork("k"), when("k", -1, -1, openclose(sf, CRW))>> \o forget)>>)
     \o openclose(sf, CRW) \o <<wait("w")>>

\* malloc asks for two pages at a time until there are none; free gives none
\* back, so the last malloc makes no system call (Umalloc has the rest).
mem == child("pid", <<loop("mem", <<sbrk(2 * PGSIZE), stop("mem", "a"), store(<<"a", 0>>, 1)>>),
                      exit(0)>>)
       \o <<wait("w"), when("status", -1, -1, <<exit(0)>>), exits("status")>>

forktest ==
  <<loop("forks", <<fork("pid"), when("pid", 0, 0, <<exit(0)>>), stop("forks", "pid")>>),
    ok(wait("w")), loop("waits", <<wait("w"), stop("waits", "w")>>), no(wait("w"))>>

-----------------------------------------------------------------------------
(* Several processes and one file or directory *)

sharedfd ==
  <<unlink(<<"sharedfd">>), ok(open("fd", <<"sharedfd">>, CRW)), fork("pid"),
    when("pid", 0, 0, times(Rounds, <<gets(1, write("fd", <<"c">>))>>) \o <<exit(0)>>)>>
  \o times(Rounds, <<gets(1, write("fd", <<"p">>))>>)
  \o <<wait("w"), pass("status"), close("fd"), ok(open("fd", <<"sharedfd">>, R))>>
  \o readall("fd") \o <<close("fd"), unlink(<<"sharedfd">>), count("c", Rounds), count("p", Rounds), exit(0)>>

fourfiles ==
  for(2, LAMBDA i : <<unlink(<<Digit(i)>>)>>
    \o child("pid", <<ok(open("fd", <<Digit(i)>>, CRW))>>
                    \o times(Rounds, <<gets(1, write("fd", <<Digit(i)>>))>>) \o <<exit(0)>>))
  \o times(2, <<wait("w"), pass("status")>>)
  \o for(2, LAMBDA i : <<open("fd", <<Digit(i)>>, R)>> \o readall("fd")
                       \o <<expect(Rep(Digit(i), Rounds)), close("fd"), unlink(<<Digit(i)>>)>>)

\* Four files for each child; the second is unlinked when the third is made.
\* The last loop unlinks p0, q1, r2, s3, as the test does.
pq == << <<"p0", "p1", "p2", "p3">>, <<"q0", "q1", "q2", "q3">>,
         <<"r0", "r1", "r2", "r3">>, <<"s0", "s1", "s2", "s3">> >>
createdelete ==
  for(2, LAMBDA k : child("pid", for(4, LAMBDA i :
       <<ok(open("fd", <<pq[k + 1][i + 1]>>, CRW)), close("fd")>>
       \o IF i = 2 THEN <<ok(unlink(<<pq[k + 1][2]>>))>> ELSE <<>>) \o <<exit(0)>>))
  \o times(2, <<wait("w"), pass("status")>>)
  \o for(4, LAMBDA i : for(2, LAMBDA k :
       IF i = 1 THEN <<no(open("fd", <<pq[k + 1][i + 1]>>, R))>>
       ELSE <<ok(open("fd", <<pq[k + 1][i + 1]>>, R)), close("fd")>>))
  \o for(4, LAMBDA i : times(2, <<unlink(<<pq[i + 1][i + 1]>>)>>))

unlinkread == LET f == <<"unlinkread">> IN
  <<ok(open("fd", f, CRW)), write("fd", <<"h", "e">>), close("fd"),
    ok(open("fd", f, RW)), gets(0, unlink(f)),
    open("fd1", f, CRW), write("fd1", <<"y">>), close("fd1"),
    gets(2, read("fd", 10)), expect(<<"h", "e">>), gets(2, copy("fd")), close("fd"), unlink(f)>>

linktest == LET lf1 == <<"lf1">>
                lf2 == <<"lf2">> IN
  <<unlink(lf1), unlink(lf2), ok(open("fd", lf1, CRW)), gets(2, write("fd", xx)), close("fd"),
    ok(link(lf1, lf2)), unlink(lf1), no(open("fd", lf1, R)),
    ok(open("fd", lf2, R)), gets(2, read("fd", 10)), close("fd"),
    no(link(lf2, lf2)), unlink(lf2), no(link(lf2, lf1)), no(link(<<".">>, lf1))>>

\* The test has six of every open and unlink of the second loop.
concreate == LET f(i) == <<<<"C0", "C1", "C2">>[i + 1]>>
                 make(i, linked) == IF linked THEN <<link(f(0), f(i))>>
                                    ELSE <<ok(open("fd", f(i), CRW)), close("fd")>>
                 touch(i, opens) == times(2, IF opens THEN openclose(f(i), R) ELSE <<unlink(f(i))>>)
  IN for(3, LAMBDA i : <<unlink(f(i)), fork("pid"),
                         when("pid", 0, 0, make(i, i % 5 = 1) \o <<exit(0)>>)>>
                       \o make(i, i % 3 = 1) \o <<wait("w"), pass("status")>>)
     \o <<open("fd", <<".">>, R)>> \o readall("fd") \o <<close("fd")>>
     \o for(3, LAMBDA i : <<count(f(i)[1], 1)>>)
     \o for(3, LAMBDA i : child("pid", touch(i, i % 3 = 0) \o <<exit(0)>>)
                          \o touch(i, i % 3 = 1) \o <<wait("w")>>)

\* The first operations of the two sequences of pseudo-random numbers.
linkunlink == LET do(k) == CASE k = 0 -> openclose(<<"x">>, CRW)
                             [] k = 1 -> <<link(<<"cat">>, <<"x">>)>>
                             [] k = 2 -> <<unlink(<<"x">>)>>
                  parent == <<0, 2, 1, 0>>
                  kid    == <<0, 1, 1, 0>>
  IN <<unlink(<<"x">>)>>
     \o child("pid", for(4, LAMBDA i : do(kid[i + 1])) \o <<exit(0)>>)
     \o for(4, LAMBDA i : do(parent[i + 1])) \o <<wait("w")>>

-----------------------------------------------------------------------------
(* Directories *)

subdir ==
  <<unlink(<<"ff">>), gets(0, mkdir(<<"dd">>)),
    ok(open("fd", <<"dd", "ff">>, CRW)), write("fd", <<"f", "f">>), close("fd"),
    no(unlink(<<"dd">>)), gets(0, mkdir(<<"/", "dd", "dd">>)),
    ok(open("fd", <<"dd", "dd", "ff">>, CRW)), write("fd", <<"F", "F">>), close("fd"),
    ok(open("fd", <<"dd", "dd", "..", "ff">>, R)), gets(2, read("fd", 9)), expect(<<"f", "f">>),
    close("fd"), gets(0, link(<<"dd", "dd", "ff">>, <<"dd", "dd", "ffff">>)),
    gets(0, unlink(<<"dd", "dd", "ff">>)), no(open("fd", <<"dd", "dd", "ff">>, R)),
    gets(0, chdir(<<"dd">>)), gets(0, chdir(<<"dd", "..", "..", "dd">>)),
    gets(0, chdir(<<"dd", "..", "..", "..", "dd">>)), gets(0, chdir(<<".", "..">>)),
    ok(open("fd", <<"dd", "dd", "ffff">>, R)), gets(2, read("fd", 9)), close("fd"),
    no(open("fd", <<"dd", "dd", "ff">>, R)),
    no(open("fd", <<"dd", "ff", "ff">>, CRW)), no(open("fd", <<"dd", "xx", "ff">>, CRW)),
    no(open("fd", <<"dd">>, C)), no(open("fd", <<"dd">>, RW)), no(open("fd", <<"dd">>, W)),
    no(link(<<"dd", "ff", "ff">>, <<"dd", "dd", "xx">>)),
    no(link(<<"dd", "xx", "ff">>, <<"dd", "dd", "xx">>)),
    no(link(<<"dd", "ff">>, <<"dd", "dd", "ffff">>)),
    no(mkdir(<<"dd", "ff", "ff">>)), no(mkdir(<<"dd", "xx", "ff">>)),
    no(mkdir(<<"dd", "dd", "ffff">>)), no(unlink(<<"dd", "xx", "ff">>)),
    no(unlink(<<"dd", "ff", "ff">>)), no(chdir(<<"dd", "ff">>)), no(chdir(<<"dd", "xx">>)),
    gets(0, unlink(<<"dd", "dd", "ffff">>)), gets(0, unlink(<<"dd", "ff">>)),
    no(unlink(<<"dd">>)), ok(unlink(<<"dd", "dd">>)), ok(unlink(<<"dd">>))>>

bigwrite == <<unlink(<<"bigwrite">>)>>
  \o for(MAXFILE \div 2, LAMBDA i :
       <<ok(open("fd", <<"bigwrite">>, CRW))>>
       \o times(2, <<gets(i + 1, write("fd", Rep("b", i + 1)))>>)
       \o <<close("fd"), unlink(<<"bigwrite">>)>>)

bigfile == LET f == <<"bigfile.dat">> IN
  <<unlink(f), ok(open("fd", f, CRW))>>
  \o for(Rounds, LAMBDA i : <<gets(2, write("fd", Rep(Digit(i), 2)))>>)
  \o <<close("fd"), ok(open("fd", f, R))>>
  \o for(2 * Rounds, LAMBDA i : <<gets(1, read("fd", 1)), expect(<<Digit(i \div 2)>>)>>)
  \o <<gets(0, read("fd", 1)), close("fd"), unlink(f)>>

fourteen == LET n == "12345678901234"
                m == "123456789012345" IN
  <<gets(0, mkdir(<<n>>)), gets(0, mkdir(<<n, m>>)),
    ok(open("fd", <<m, m, m>>, C)), close("fd"), ok(open("fd", <<n, n, n>>, R)), close("fd"),
    no(mkdir(<<n, n>>)), no(mkdir(<<m, n>>)),
    unlink(<<m, n>>), unlink(<<n, n>>), unlink(<<n, n, n>>), unlink(<<m, m, m>>),
    unlink(<<n, m>>), unlink(<<n>>)>>

rmdot ==
  <<gets(0, mkdir(<<"dots">>)), gets(0, chdir(<<"dots">>)), no(unlink(<<".">>)),
    no(unlink(<<"..">>)), gets(0, chdir(<<"/">>)), no(unlink(<<"dots", ".">>)),
    no(unlink(<<"dots", "..">>)), gets(0, unlink(<<"dots">>))>>

dirfile == LET xxfile == <<"dirfile", "xx">> IN
  <<ok(open("fd", <<"dirfile">>, C)), close("fd"), no(chdir(<<"dirfile">>)),
    no(open("fd", xxfile, R)), no(open("fd", xxfile, C)), no(mkdir(xxfile)), no(unlink(xxfile)),
    no(link(<<"README">>, xxfile)), gets(0, unlink(<<"dirfile">>)),
    no(open("fd", <<".">>, RW)), open("fd", <<".">>, R), wants(-1, 0, write("fd", <<"x">>)),
    close("fd")>>

iref ==
  times(Rounds, <<gets(0, mkdir(<<"irefd">>)), gets(0, chdir(<<"irefd">>)),
             mkdir(<<>>), link(<<"README">>, <<>>), open("fd", <<>>, C), close("fd"),
             open("fd", <<"xx">>, C), close("fd"), unlink(<<"xx">>)>>)
  \o times(Rounds, <<chdir(<<"..">>), unlink(<<"irefd">>)>>) \o <<chdir(<<"/">>)>>

-----------------------------------------------------------------------------
(* Memory *)

Guard == <<"zero", PGSIZE>>     \* the page below the stack

sbrkbasic ==
  child("pid", <<sbrk(Huge), when("a", -1, -1, <<exit(0)>>), exit(1)>>)
  \o <<wait("w"), when("status", 1, 1, <<exit(1)>>), sbrk(0)>>
  \o times(PGSIZE + 1, <<into("b", sbrk(1)), same("b", "a", 0), store(<<"b", 0>>, 1),
                         keep("a", "b", 1)>>)
  \o <<ok(fork("pid")), into("c", sbrk(1)), into("c", sbrk(1)), same("c", "a", 1),
       when("pid", 0, 0, <<exit(0)>>), wait("w"), exits("status")>>

\* The page that was given back and asked for again is zero.
sbrkmuch == LET last == <<"top", -1>> IN
  <<into("oldbrk", sbrk(0)), sbrk(0), into("p", sbrk(3 * PGSIZE)), same("p", "a", 0),
    into("top", sbrk(0)), store(<<"a", 0>>, 1), store(<<"a", PGSIZE>>, 1), store(last, 99),
    sbrk(0), ok(into("c", sbrk(-PGSIZE))), into("c", sbrk(0)), same("c", "a", -PGSIZE),
    sbrk(0), into("c", sbrk(PGSIZE)), same("c", "a", 0), into("c", sbrk(0)),
    same("c", "a", PGSIZE), gets(0, load(last)),
    sbrk(0), into("c", sbrk(-3 * PGSIZE)), same("c", "a", 0)>>

faults(access) == child("pid", <<access, exit(1)>>) \o <<wait("w"), same("status", "zero", -1)>>
kernmem == times(2, faults(load(Far)))
MAXVAplus == times(2, faults(store(Far, 99)))
stacktest == child("pid", <<load(Guard), exit(1)>>)
             \o <<wait("w"), when("status", -1, -1, <<exit(0)>>), exits("status")>>
textwrite == child("pid", <<store(<<"zero", 0>>, 10), exit(1)>>)
             \o <<wait("w"), when("status", -1, -1, <<exit(0)>>), exits("status")>>

\* Two children that want most of the memory: one gets it.
sbrkfail ==
  <<gets(0, pipe("r0", "w0"))>>
  \o for(2, LAMBDA i : LET pid == <<"pid0", "pid1">>[i + 1] IN
       <<fork(pid), when(pid, 0, 0, <<sbrk(6 * PGSIZE), write("w0", <<"x">>), spin>>),
         when(pid, 1, Huge, <<read("r0", 1)>>)>>)
  \o <<into("c", sbrk(PGSIZE))>>
  \o for(2, LAMBDA i : LET pid == <<"pid0", "pid1">>[i + 1] IN
       <<when(pid, 1, Huge, <<kill(pid), wait("w")>>)>>)
  \o <<when("c", -1, -1, <<exit(1)>>)>>
  \o child("pid", <<sbrk(0), into("b", sbrk(Huge)), load(<<"a", Huge>>), exit(1)>>)
  \o <<wait("w"), when("status", 0, 1, <<exit(1)>>)>>

sbrkarg ==
  <<sbrk(PGSIZE), ok(open("fd", <<"sbrk">>, CW)), unlink(<<"sbrk">>),
    ok(from(<<"a", 0>>, write("fd", xx))), close("fd"),
    sbrk(PGSIZE), gets(0, from(<<"a", 0>>, pipe("r0", "w0")))>>

validatetest == times(Rounds, <<no(link(<<"nosuchfile">>, Bad)), no(link(<<"nosuchfile">>, <<"x">>))>>)

bsstest == <<gets(0, load(Stack))>>

bigargtest ==
  <<unlink(<<"bigarg-ok">>)>>
  \o child("pid", <<exec(<<"echo">>, Bad)>> \o openclose(<<"bigarg-ok">>, C) \o <<exit(0)>>)
  \o <<wait("w"), pass("status"), ok(open("fd", <<"bigarg-ok">>, R)), close("fd")>>

argptest == <<ok(open("fd", <<"init">>, R)), sbrk(0), from(<<"a", -1>>, read("fd", Huge)),
              close("fd")>>

pgbug == <<exec(Bad, <<>>), from(Far, pipe("r0", "w0")), exit(0)>>

sbrkbugs ==
  child("pid", <<sbrk(-Image), exit(0)>>) \o <<wait("w")>>
  \o child("pid", <<sbrk(-(Image - 1)), exit(0)>>) \o <<wait("w")>>
  \o child("pid", <<sbrk(PGSIZE + 1), sbrk(-1), exit(0)>>) \o <<wait("w"), exit(0)>>

sbrklast == LET p == <<"a", -1>> IN
  <<sbrk(PGSIZE), sbrk(1), sbrk(-2), sbrk(0), store(p, 1),
    from(p, open("fd", <<"x">>, CRW)), from(p, write("fd", <<"x">>)), close("fd"),
    from(p, open("fd", <<"x">>, RW)), store(p, 0), from(p, read("fd", 1)), expect(<<"x">>)>>

sbrk8000 == <<sbrk(-Huge), sbrk(0), store(<<"a", -1>>, 1)>>

badarg == times(Rounds, <<exec(<<"echo">>, Bad)>>) \o <<exit(0)>>

-----------------------------------------------------------------------------
(* Tests that take a fair bit of time *)

bigdir == <<unlink(<<"bd">>), ok(open("fd", <<"bd">>, C)), close("fd")>>
  \o for(Rounds, LAMBDA i : <<gets(0, link(<<"bd">>, <<Digit(i)>>))>>)
  \o <<unlink(<<"bd">>)>> \o for(Rounds, LAMBDA i : <<gets(0, unlink(<<Digit(i)>>))>>)

manywrites ==
  for(2, LAMBDA ci : LET name == <<Digit(ci)>> IN
    child("pid", <<unlink(name)>>
      \o times(Rounds, times(ci + 1, <<ok(open("fd", name, CRW)), gets(2, write("fd", xx)),
                                  close("fd")>>) \o <<unlink(name)>>)
      \o <<unlink(name), exit(0)>>))
  \o times(2, <<wait("w"), pass("status")>>) \o <<exit(0)>>

badwrite == LET junk == <<"junk">> IN
  <<unlink(junk)>>
  \o times(NBLOCKS, <<ok(open("fd", junk, CW)), from(Far, write("fd", <<"x">>)), close("fd"),
                      unlink(junk)>>)
  \o <<ok(open("fd", junk, CW)), gets(1, write("fd", <<"x">>)), close("fd"), unlink(junk), exit(0)>>

execout ==
  for(4, LAMBDA avail :
    child("pid", <<loop("mem", <<sbrk(PGSIZE), stop("mem", "a"), store(<<"a", PGSIZE - 1>>, 1)>>)>>
                 \o times(avail, <<sbrk(-PGSIZE)>>)
                 \o <<close("out"), exec(<<"echo">>, <<"x">>), exit(0)>>)
    \o <<wait("w")>>) \o <<exit(0)>>

zz(i) == <<<<"z0", "z1", "z2", "z3", "z4", "z5", "z6", "z7", "z8", "z9">>[i + 1]>>
\* Every file is written until a write fails; the third finds the disk full,
\* and so does one of the empty files, when the directory needs a block.
diskfull ==
  <<unlink(<<"diskfulldir">>)>>
  \o for(3, LAMBDA i : <<unlink(<<Digit(i)>>), open("fd", <<Digit(i)>>, CWT),
                         loop("fill", <<write("fd", <<"b">>), stop("fill", "n")>>), close("fd")>>)
  \o <<loop("zz", for(4, LAMBDA i : <<unlink(zz(i)), open("fd", zz(i), CWT), stop("zz", "fd"),
                                      close("fd")>>) \o <<keep("fd", "zero", 0), stop("zz", "fd")>>)>>
  \o <<same("fd", "zero", -1), no(mkdir(<<"diskfulldir">>)), unlink(<<"diskfulldir">>)>>
  \o for(4, LAMBDA i : <<unlink(zz(i))>>) \o for(3, LAMBDA i : <<unlink(<<Digit(i)>>)>>)

outofinodes ==
  for(10, LAMBDA i : <<unlink(zz(i)), open("fd", zz(i), CWT), close("fd")>>)
  \o for(10, LAMBDA i : <<unlink(zz(i))>>)

-----------------------------------------------------------------------------
(* Drive tests *)

\* run: a test in a process of its own; its status says whether it passed.
run(test) == child("test", test \o <<exit(0)>>) \o <<wait("w"), pass("status")>>

\* countfree: how many pages a child can get, sent back one by one.
countfree(v) ==
  <<ok(pipe("r0", "w0"))>>
  \o child("pid", <<close("r0"), loop("pages", <<sbrk(PGSIZE), stop("pages", "a"),
                      store(<<"a", PGSIZE - 1>>, 1), gets(1, write("w0", <<"x">>))>>), exit(0)>>)
  \o <<close("w0"), clear, loop("got", <<ok(more("r0", 1)), stop("got", "n")>>), size(v), clear,
       close("r0"), wait("w")>>

\* One test between two counts, as "usertests <name>" does it.
drivetests(test) == countfree("free0") \o run(test) \o countfree("free1")
                    \o <<least("free1", "free0"), exit(0)>>

Tests == <<copyin, copyout, copyinstr1, copyinstr2, copyinstr3, rwsbrk, truncate1, truncate2,
  truncate3, openiputtest, exitiputtest, iputtest, opentest, writetest, writebig, createtest,
  dirtest, exectest, pipe1, killstatus, preempt, exitwait, twochildren, forkfork, mem,
  sharedfd, fourfiles, createdelete, unlinkread, linktest,
  concreate, linkunlink, subdir, bigwrite, bigfile, fourteen, rmdot, dirfile, iref, forktest,
  sbrkbasic, sbrkmuch, kernmem, MAXVAplus, sbrkfail, sbrkarg, validatetest, bsstest, bigargtest,
  argptest, stacktest, textwrite, pgbug, sbrkbugs, sbrklast, sbrk8000, badarg,
  bigdir, manywrites, badwrite, execout, diskfull, outofinodes>>

\* Tests that leave orphans may end before init has reaped these, and then the
\* second count of drivetests would find fewer pages: they are run without the
\* counts.  forkforkfork goes on until fork fails, which is sooner if the
\* process that runs it has n pages more.
uncounted(test, n) == <<sbrk(n * PGSIZE)>> \o run(<<sbrk(-n * PGSIZE)>> \o test) \o <<exit(0)>>
Orphaning == <<uncounted(reparent, 0), uncounted(reparent2, 0), uncounted(forkforkfork, 6)>>
=============================================================================
