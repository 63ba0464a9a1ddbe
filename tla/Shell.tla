------------------------------- MODULE Shell --------------------------------
(***************************************************************************)
(* user/sh.c: the shell.  A line is a sequence of tokens (gettoken's words *)
(* and symbols; the blanks between them are gone).  parsecmd makes a tree  *)
(* of commands of it, or panics, and runcmd turns the tree into processes, *)
(* pipes and redirections: code that runs on Os.                           *)
(*                                                                         *)
(* What a line is meant to do is stated separately, without processes,     *)
(* descriptors or pipes, by Meaning: a command maps its input and the      *)
(* files to its output and the files.                                      *)
(***************************************************************************)
EXTENDS Os

CONSTANT MAXARGS

-----------------------------------------------------------------------------
(* Constructors.  The mode of a redirection is that of its symbol. *)

execcmd == [type |-> "EXEC", argv |-> <<>>]
redircmd(c, file, sym) == [type |-> "REDIR", cmd |-> c, file |-> file, sym |-> sym]
pipecmd(l, r) == [type |-> "PIPE", left |-> l, right |-> r]
listcmd(l, r) == [type |-> "LIST", left |-> l, right |-> r]
backcmd(c)    == [type |-> "BACK", cmd |-> c]

Fdvar(sym) == IF sym = "<" THEN "in" ELSE "out"
AlwaysTruncates(sym) == IF sym = "<" THEN {} ELSE {"W", "C", "T"}
Mode(sym)  == CASE sym = "<" -> {} [] sym = ">" -> {"W", "C", "T"} [] sym = ">>" -> {"W", "C"}

-----------------------------------------------------------------------------
(* Parsing.  A parser returns the command and the tokens it has not used.  *)
(* After a panic there is no token left, so that no other is looked at.    *)

Symbols == {"<", ">", ">>", "|", "&", ";", "(", ")"}
Parsed(c, s) == [cmd |-> c, s |-> s]
panic == Parsed([type |-> "PANIC"], <<>>)
peek(s, toks) == s # <<>> /\ Head(s) \in toks
\* A command made of one that was parsed before and of what r parsed.
Joined(r, make(_)) == IF r.cmd.type = "PANIC" THEN panic ELSE Parsed(make(r.cmd), r.s)

RECURSIVE parseredirs(_)
parseredirs(r) ==
  IF ~peek(r.s, {"<", ">", ">>"}) THEN r
  ELSE IF Len(r.s) < 2 \/ r.s[2] \in Symbols THEN panic
  ELSE parseredirs(Parsed(redircmd(r.cmd, r.s[2], r.s[1]), SubSeq(r.s, 3, Len(r.s))))

\* The words go to the EXEC command inside the redirections met so far.
RECURSIVE Argv(_), AddArg(_, _)
Argv(c) == IF c.type = "EXEC" THEN c.argv ELSE Argv(c.cmd)
AddArg(c, a) == IF c.type = "EXEC" THEN [c EXCEPT !.argv = Append(@, a)]
                                   ELSE [c EXCEPT !.cmd = AddArg(@, a)]

RECURSIVE parseargs(_)
parseargs(r) ==
  IF r.s = <<>> \/ peek(r.s, {"|", ")", "&", ";"}) THEN r
  ELSE IF Head(r.s) \in Symbols \/ Len(Argv(r.cmd)) + 1 >= MAXARGS THEN panic
  ELSE parseargs(parseredirs(Parsed(AddArg(r.cmd, Head(r.s)), Tail(r.s))))

RECURSIVE parseline(_), parsepipe(_), parseback(_)
parseblock(s) == LET r == parseline(Tail(s))
                 IN  IF peek(r.s, {")"}) THEN parseredirs(Parsed(r.cmd, Tail(r.s))) ELSE panic
parseexec(s) == IF peek(s, {"("}) THEN parseblock(s)
                                  ELSE parseargs(parseredirs(Parsed(execcmd, s)))
parsepipe(s) == LET l == parseexec(s)
                IN  IF ~peek(l.s, {"|"}) THEN l
                    ELSE Joined(parsepipe(Tail(l.s)), LAMBDA c : pipecmd(l.cmd, c))
parseback(r) == IF peek(r.s, {"&"}) THEN parseback(Parsed(backcmd(r.cmd), Tail(r.s))) ELSE r
parseline(s) == LET l == parseback(parsepipe(s))
                IN  IF ~peek(l.s, {";"}) THEN l
                    ELSE Joined(parseline(Tail(l.s)), LAMBDA c : listcmd(l.cmd, c))
parsecmd(s) == LET r == parseline(s) IN IF r.s # <<>> THEN panic.cmd ELSE r.cmd

-----------------------------------------------------------------------------
(* Running *)

fork1(body) == child("pid", body)      \* panics when there is no process

WriteEndKept(std, p) == <<close(std), dup(p), close("p0")>>

\* The ends of a pipe that a command does not use are closed, or a reader
\* would wait for ever for the end of its input.
endOf(std, p) == <<close(std), dup(p), close("p0"), close("p1")>>

RECURSIVE runcmd(_)
runcmd(c) ==
  CASE c.type = "PANIC" -> <<exit(1)>>
    [] c.type = "EXEC"  -> IF c.argv = <<>> THEN <<exit(1)>>
                           ELSE <<exec(<<c.argv[1]>>, Tail(c.argv)), exit(0)>>
    [] c.type = "REDIR" -> <<close(Fdvar(c.sym)), ok(open("fd", <<c.file>>, Mode(c.sym)))>>
                           \o runcmd(c.cmd)
    [] c.type = "LIST"  -> fork1(runcmd(c.left)) \o <<wait("w")>> \o runcmd(c.right)
    [] c.type = "PIPE"  -> <<ok(pipe("p0", "p1"))>>
                           \o fork1(endOf("out", "p1") \o runcmd(c.left))
                           \o fork1(endOf("in", "p0") \o runcmd(c.right))
                           \o <<close("p0"), close("p1"), wait("w"), wait("w"), exit(0)>>
    [] c.type = "BACK"  -> fork1(runcmd(c.cmd)) \o <<exit(0)>>

\* main: three descriptors, then one line after the other; cd is done by the
\* shell itself.
prompt == <<write("err", <<"$">>)>>
main(lines) ==
  <<loop("fds", <<open("fd", <<"console">>, {"RW"}), when("fd", 3, Huge, <<close("fd"), stop("fds", "zero")>>),
                  stop("fds", "fd")>>)>>
  \o for(Len(lines), LAMBDA i : LET line == lines[i + 1] IN
       prompt \o IF line[1] = "cd" THEN <<chdir(<<line[2]>>)>>
                 ELSE fork1(runcmd(parsecmd(line))) \o <<wait("w")>>)
  \o prompt \o <<exit(0)>>

-----------------------------------------------------------------------------
(* What the lines mean.  fs maps the paths of files to their contents.     *)

RECURSIVE Meaning(_, _, _, _)
Word(w, last) == <<w, IF last THEN "nl" ELSE "sp">>
\* The command c in directory d with the given input: its output and the files.
Meaning(c, d, input, fs) ==
  LET res(out, files) == [out |-> out, fs |-> files]
      args == Tail(c.argv)
      path(n) == Append(d, n)
      without(n) == [f \in DOMAIN fs \ {path(n)} |-> fs[f]]
      inner(files) == Meaning(c.cmd, d, input, files)
      old(n) == IF path(n) \in DOMAIN fs THEN fs[path(n)] ELSE <<>>
      into1(n, before, r) ==     \* the output of r over the start of n
        res(<<>>, (path(n) :> (r.out \o SubSeq(before, Len(r.out) + 1, Len(before)))) @@ r.fs)
  IN CASE c.type = "PANIC" -> res(<<>>, fs)
       [] c.type = "EXEC" ->
           (CASE c.argv = <<>> -> res(<<>>, fs)
              [] c.argv[1] = "echo" ->
                   res(FlattenSeq([k \in DOMAIN args |-> Word(args[k], k = Len(args))]), fs)
              [] c.argv[1] = "cat" ->
                   res(IF args = <<>> THEN input
                       ELSE FlattenSeq([k \in DOMAIN args |-> old(args[k])]), fs)
              [] c.argv[1] = "rm" -> res(<<>>, without(args[1]))
              [] c.argv[1] = "ln" -> res(<<>>, (path(args[2]) :> old(args[1])) @@ fs)
              [] OTHER -> res(<<>>, fs))
       [] c.type = "REDIR" ->
           (CASE c.sym = "<" -> IF path(c.file) \in DOMAIN fs
                                THEN Meaning(c.cmd, d, fs[path(c.file)], fs) ELSE res(<<>>, fs)
              [] c.sym = ">"  -> into1(c.file, <<>>, inner((path(c.file) :> <<>>) @@ fs))
              [] c.sym = ">>" -> into1(c.file, old(c.file), inner(fs)))
       [] c.type = "LIST" -> LET l == Meaning(c.left, d, input, fs)
                                 r == Meaning(c.right, d, input, l.fs)
                             IN  res(l.out \o r.out, r.fs)
       [] c.type = "PIPE" -> LET l == Meaning(c.left, d, input, fs)
                             IN  Meaning(c.right, d, l.out, l.fs)
       [] c.type = "BACK" -> inner(fs)

\* The files after the commands of a session; a cd is given as its directory.
Session(cmds, fs) ==
  FoldLeft(LAMBDA st, c : IF c.type = "CD" THEN [st EXCEPT !.d = <<c.dir>>]
                          ELSE [st EXCEPT !.fs = Meaning(c, st.d, <<>>, st.fs).fs],
           [d |-> <<>>, fs |-> fs], cmds).fs

\* The line that means the command c, as one would type it.
RECURSIVE Line(_)
Line(c) ==
  CASE c.type = "EXEC" -> c.argv
    [] c.type = "CD" -> <<"cd", c.dir>>
    [] c.type = "PANIC" -> c.line
    [] c.type = "REDIR" -> (IF c.cmd.type \in {"EXEC", "REDIR"} THEN Line(c.cmd)
                            ELSE <<"(">> \o Line(c.cmd) \o <<")">>) \o <<c.sym, c.file>>
    [] c.type = "PIPE" -> (IF c.left.type \in {"EXEC", "REDIR"} THEN Line(c.left)
                           ELSE <<"(">> \o Line(c.left) \o <<")">>) \o <<"|">>
                          \o (IF c.right.type \in {"LIST", "BACK"} THEN <<"(">> \o Line(c.right) \o <<")">>
                              ELSE Line(c.right))
    [] c.type = "LIST" -> (IF c.left.type = "LIST" THEN <<"(">> \o Line(c.left) \o <<")">>
                           ELSE Line(c.left)) \o <<";">> \o Line(c.right)
    [] c.type = "BACK" -> (IF c.cmd.type = "LIST" THEN <<"(">> \o Line(c.cmd) \o <<")">>
                           ELSE Line(c.cmd)) \o <<"&">>
=============================================================================
