-------------------------------- MODULE Code --------------------------------
(***************************************************************************)
(* User programs.  A program is a sequence of instructions, which are      *)
(* records: the system call with its arguments, the variable that gets the *)
(* result (to), and the results with which the program goes on (want) --   *)
(* with any other it calls exit(1), as the programs do.  Names are         *)
(* strings, a path is a sequence of names, and the contents of a file or a *)
(* pipe a sequence of symbols, each of which takes a block.                *)
(***************************************************************************)
EXTENDS Integers, Sequences, SequencesExt, FiniteSetsExt, TLC

CONSTANT PGSIZE          \* bytes of a page

Huge   == 1000000        \* an address, or an amount, beyond all memory
Bad    == <<"bad">>      \* a string the kernel cannot fetch
\* A program: its text, the guard page below the stack, and the stack.
Image  == 3 * PGSIZE
StackAddr == 2 * PGSIZE
\* An address in a program: a variable and an offset.
Stack == <<"zero", StackAddr>>

-----------------------------------------------------------------------------
(* Instructions *)

call(op, to) == [op |-> op, to |-> to, want |-> <<-Huge, Huge>>]
open(v, path, mode)  == call("open", v) @@ [path |-> path, mode |-> mode, at |-> Stack]
close(v)             == call("close", "r") @@ [fd |-> v]
dup(v)               == call("dup", "r") @@ [fd |-> v]
read(v, n)           == call("read", "n") @@ [fd |-> v, n |-> n, at |-> Stack, add |-> FALSE]
more(v, n)           == [read(v, n) EXCEPT !.add = TRUE]   \* appends to what was read
write(v, data)       == call("write", "n") @@ [fd |-> v, data |-> data, at |-> Stack, put |-> 0]
copy(v)              == write(v, <<"buf">>)       \* writes what was read last
pipe(v, w)           == call("pipe", "r") @@ [rd |-> v, wr |-> w, at |-> Stack]
link(old, new)       == call("link", "r") @@ [old |-> old, new |-> new]
unlink(path)         == call("unlink", "r") @@ [path |-> path]
mkdir(path)          == call("mkdir", "r") @@ [path |-> path]
chdir(path)          == call("chdir", "r") @@ [path |-> path]
fork(v)              == call("fork", v)
exec(path, args)     == call("exec", "r") @@ [path |-> path, args |-> args]
exit(n)              == call("exit", "r") @@ [status |-> <<"zero", n>>]
exits(v)             == call("exit", "r") @@ [status |-> <<v, 0>>]
wait(v)              == call("wait", v)                \* the status goes to "status"
kill(v)              == call("kill", "r") @@ [pid |-> v]
getpid(v)            == call("getpid", v)
sbrk(n)              == call("sbrk", "a") @@ [n |-> n]
load(a)              == call("load", "r") @@ [at |-> a]
store(a, x)          == call("store", "r") @@ [at |-> a, x |-> x]
fstat(v)             == call("fstat", "n") @@ [fd |-> v]   \* n gets the size
spin                 == call("spin", "r")

wants(lo, hi, i) == [i EXCEPT !.want = <<lo, hi>>]
ok(i)      == wants(0, Huge, i)     \* if(... < 0) exit(1)
no(i)      == wants(-1, -1, i)      \* if(... >= 0) exit(1)
gets(n, i) == wants(n, n, i)
into(v, i) == [i EXCEPT !.to = v]
from(a, i) == [i EXCEPT !.at = a]   \* the buffer is at address a

\* Control, which takes no step of its own.
loop(name, body)  == [op |-> "loop", name |-> name, body |-> body]
stop(name, v)     == [op |-> "stop", name |-> name, v |-> v]   \* break if v <= 0
when(v, lo, hi, then) == [op |-> "when", v |-> v, lo |-> lo, hi |-> hi, then |-> then]
expect(data)      == [op |-> "expect", data |-> data]       \* the buffer holds data
count(x, n)       == [op |-> "count", x |-> x, n |-> n]     \* ... and n times x
same(v, w, k)     == [op |-> "same", v |-> v, w |-> w, k |-> k]   \* v = w + k
least(v, w)       == [op |-> "least", v |-> v, w |-> w]           \* v >= w
keep(w, v, k)     == [op |-> "keep", v |-> v, w |-> w, k |-> k]   \* w := v + k
size(w)           == [op |-> "size", w |-> w]                     \* w := the buffer's length
clear             == [op |-> "clear"]
times(n, body)    == FlattenSeq([k \in 1..n |-> body])
for(n, body(_))   == FlattenSeq([k \in 1..n |-> body(k - 1)])
child(v, body)    == <<ok(fork(v)), when(v, 0, 0, body)>>
pass(v)           == [op |-> "pass", v |-> v]               \* if(v != 0) exit(v)

Control == {"loop", "stop", "when", "expect", "count", "same", "least", "keep", "size", "clear", "pass"}

RECURSIVE Settle(_)
Settle(pr) ==
  IF pr.code = <<>> \/ Head(pr.code).op \notin Control THEN pr ELSE
  LET i    == Head(pr.code)
      rest == Tail(pr.code)
      then(c) == Settle([pr EXCEPT !.code = c])
      val(v)  == pr.var[v]
      set(w, x) == Settle([pr EXCEPT !.code = rest, !.var = (w :> x) @@ @])
  IN CASE i.op = "loop" -> then(i.body \o pr.code)
       [] i.op = "stop" ->
            IF val(i.v) > 0 THEN then(rest)
            ELSE LET k == SelectInSeq(rest, LAMBDA j : j.op = "loop" /\ j.name = i.name)
                 IN  then(SubSeq(rest, k + 1, Len(rest)))
       [] i.op = "when" -> then(IF i.lo <= val(i.v) /\ val(i.v) <= i.hi THEN i.then \o rest ELSE rest)
       [] i.op = "expect" -> then(IF pr.buf = i.data THEN rest ELSE <<exit(1)>>)
       [] i.op = "count" -> then(IF Cardinality({k \in DOMAIN pr.buf : pr.buf[k] = i.x}) = i.n
                                 THEN rest ELSE <<exit(1)>>)
       [] i.op = "same" -> then(IF val(i.v) = val(i.w) + i.k THEN rest ELSE <<exit(1)>>)
       [] i.op = "least" -> then(IF val(i.v) >= val(i.w) THEN rest ELSE <<exit(1)>>)
       [] i.op = "keep" -> set(i.w, val(i.v) + i.k)
       [] i.op = "size" -> set(i.w, Len(pr.buf))
       [] i.op = "pass" -> then(IF val(i.v) = 0 THEN rest ELSE <<exits(i.v)>>)
       [] i.op = "clear" -> Settle([pr EXCEPT !.code = rest, !.buf = <<>>])
=============================================================================
