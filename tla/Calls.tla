------------------------------- MODULE Calls -------------------------------
(* The calls a program of the conformance suite makes of the interface, as    *)
(* data: a block of the suite's source is a sequence of calls, each with the  *)
(* variable that keeps its answer, the answers the source tests for, and the  *)
(* conditions it is made under.                                               *)
(*                                                                            *)
(* A step [do, f, d, n, to, k, how, as, want, obs, when]:                     *)
(*   do    the operation;              f     the variable holding the handle; *)
(*   d, n  a directory and a name;     to    a second name, or an errand;     *)
(*   k, at a length, a position, the error of a refused argument; an offset;  *)
(*   how   flags;                      as    the variable the answer is kept in*)
(*   want  the answers that make that variable TRUE;                          *)
(*   obs   the answer is observed (report.cpp), so one not wanted is a failure*)
(*   when  the <<variable, value>> pairs the step is made under.              *)
(*                                                                            *)
(* What the files and the regions hold is left out, but for lengths and       *)
(* positions: an observation about bytes is an observation of the call that   *)
(* moved them. A loop that shows a block can be repeated runs it twice.       *)
EXTENDS Naturals, Sequences

\* Answers: kal_ok and the errors of types.h, apart from counts (0..99), from
\* node kinds (200..) and from the ways a program ends (300..).
Ok           == 0
Invalid      == 101
Again        == 102
NoMemory     == 104
Permission   == 106
NotSupported == 107
NotFound     == 109
Exists       == 110
NotEmpty     == 111
IsDirectory  == 112
NotDirectory == 113
NotProgram   == 114
Errors == {Invalid, Again, NoMemory, Permission, NotSupported, NotFound,
           Exists, NotEmpty, IsDirectory, NotDirectory, NotProgram}

\* kal_node_kind.
Absent    == 200
File      == 201
Directory == 202
Link      == 203

\* How a program ended, kal_process_wait's `terminated'; a program that ended by
\* itself is told by its status, a count.
Terminated == 301
Limited    == 302

Step(op) == [do |-> op, f |-> "", d |-> "here", n |-> "", to |-> "", k |-> 0,
             at |-> 0, how |-> {}, as |-> "", want |-> {Ok}, obs |-> FALSE, when |-> {}]

-----------------------------------------------------------------------------
\* openkal.fs, and three ways the suite opens a file.
ReadOnly  == {"read"}
ReadWrite == {"read", "write"}
Afresh    == {"write", "create", "truncate"}
Open(f, d, n, how) == [Step("open") EXCEPT !.f = f, !.d = d, !.n = n, !.how = how, !.as = f]
OpenDir(f, d, n)   == [Step("open_dir") EXCEPT !.f = f, !.d = d, !.n = n, !.as = f]
Close(f)           == [Step("close") EXCEPT !.f = f]
Read(f, k)         == [Step("read") EXCEPT !.f = f, !.k = k, !.want = {k}]
Write(f, k)        == [Step("write") EXCEPT !.f = f, !.k = k, !.want = {k}]
ReadAt(f, k, n)    == [Step("read_at") EXCEPT !.f = f, !.k = k, !.at = n, !.want = {k}]
WriteAt(f, k, n)   == [Step("write_at") EXCEPT !.f = f, !.k = k, !.at = n, !.want = {k}]
Seek(f, k)         == [Step("seek") EXCEPT !.f = f, !.k = k, !.want = {k}]
Position(f, k)     == [Step("position") EXCEPT !.f = f, !.want = {k}]
Size(f, k)         == [Step("size") EXCEPT !.f = f, !.want = {k}]
Truncate(f, k)     == [Step("truncate") EXCEPT !.f = f, !.k = k]
Info(d, n, kind)   == [Step("info") EXCEPT !.d = d, !.n = n, !.want = {kind}]
InfoItself(d, n, kind) == [Info(d, n, kind) EXCEPT !.how = {"no_resolve"}]
Mkdir(d, n)        == [Step("mkdir") EXCEPT !.d = d, !.n = n]
Remove(d, n)       == [Step("remove") EXCEPT !.d = d, !.n = n]
Rename(d, n, to, how) == [Step("rename") EXCEPT !.d = d, !.n = n, !.to = to, !.how = how]
List(d, k)         == [Step("list") EXCEPT !.d = d, !.want = {k}]
LinkCreate(d, n, to) == [Step("link_create") EXCEPT !.d = d, !.n = n, !.to = to, !.as = n]
LinkRead(d, n)     == [Step("link_read") EXCEPT !.d = d, !.n = n]
Lock(f)            == [Step("lock") EXCEPT !.f = f]
Unlock(f)          == [Step("unlock") EXCEPT !.f = f]
Attenuate(f, d, how) == [Step("attenuate") EXCEPT !.f = f, !.d = d, !.how = how, !.as = f]
Mark(d, n, how)    == [Step("mark") EXCEPT !.d = d, !.n = n, !.how = how]
Stale(f)           == [Step("stale") EXCEPT !.f = f, !.want = Errors]

-----------------------------------------------------------------------------
\* openkal.process. EndedAs looks again at what the last Wait answered.
Spawn(f, errand, how) == [Step("spawn") EXCEPT !.f = f, !.to = errand, !.how = how, !.as = f]
Wait(f, want)      == [Step("wait") EXCEPT !.f = f, !.want = want]
EndedAs(f, want)   == [Step("ended_as") EXCEPT !.f = f, !.want = want]
Terminate(f)       == [Step("terminate") EXCEPT !.f = f]
UnitTerminate(f)   == [Step("job_terminate") EXCEPT !.f = f]
UnitLimit(f)       == [Step("job_limit") EXCEPT !.f = f]
AwaitUse(f, k)     == [Step("await_use") EXCEPT !.f = f, !.k = k]
Exit(k)            == [Step("exit") EXCEPT !.k = k]

-----------------------------------------------------------------------------
\* Any other interface, by what it does to handles: an operation that gives one
\* (a region, a context, a listener) or the two ends of a channel, one that uses
\* one and succeeds, one given an argument it refuses, and one of no handle; n
\* enquiries that reach no state; what a display does with a keystroke. A region of
\* an open file is obtained by MapRegion; memory is released by Free, which the
\* suite calls of what may not have been obtained.
Obtain(f)          == [Step("obtain") EXCEPT !.f = f, !.as = f]
ObtainPair(f, g)   == [Obtain(f) EXCEPT !.to = g]
Asked(n)           == [i \in 1..n |-> [Step("answer") EXCEPT !.obs = TRUE]]
MapRegion(f, r)    == [Step("map_region") EXCEPT !.f = f, !.to = r, !.as = r]
Free(f)            == [Step("free") EXCEPT !.f = f]
Use(f)             == [Step("use") EXCEPT !.f = f]
Bad(f, err)        == [Step("bad") EXCEPT !.f = f, !.k = err, !.want = {err}]
Mode(how)          == [Step("mode") EXCEPT !.how = how]
Answer(err)        == [Step("answer") EXCEPT !.k = err, !.want = {err}]
May(v)             == [Step("may") EXCEPT !.as = v]
Observe(vs)        == [Step("observe") EXCEPT !.how = vs, !.obs = TRUE]
Unobserved         == Step("unobserved")
Return             == Step("return")
Leave              == Step("leave")

-----------------------------------------------------------------------------
\* A call whose answer is observed; one observed to give a particular answer;
\* one whose answer is kept in a variable.
Obs(c)          == [c EXCEPT !.obs = TRUE]
Gives(c, want)  == [c EXCEPT !.want = want]
Obsd(c, want)   == [c EXCEPT !.obs = TRUE, !.want = want, !.as = ""]
Into(c, v)      == [c EXCEPT !.as = v]

Under(v, b, s)  == [i \in DOMAIN s |-> [s[i] EXCEPT !.when = @ \cup {<<v, b>>}]]
If(v, s)        == Under(v, TRUE, s)
Unless(v, s)    == Under(v, FALSE, s)
IfElse(v, s, t) == If(v, s) \o Unless(v, t)
Repeat(s)       == s \o s
Claim(v, s, t)  == <<May(v)>> \o IfElse(v, s, t)
-----------------------------------------------------------------------------
\* The operations, by what they are of; those that give a handle; whether a step
\* needs one, or a directory.
OfFiles   == {"read", "read_all", "write", "read_at", "write_at", "seek", "position", "size",
              "truncate", "lock", "unlock"}
OfHandles == OfFiles \cup {"close", "use", "bad", "map_region", "wait", "ended_as", "terminate",
                            "job_terminate", "job_limit", "await_use"}
OfACopy   == {"exit", "take_over", "await_request", "end_as_requested", "fault", "abort", "grow",
              "wait_for_ever", "wait_long", "own_name", "null_device", "preopens", "preference"}
Acquires  == {"open", "open_dir", "attenuate", "spawn", "obtain", "map_region"}

Operations == OfHandles \cup OfACopy \cup Acquires
              \cup {"free", "mkdir", "remove", "rename", "info", "list", "link_create", "link_read",
                    "mark", "stale", "mode", "answer", "may", "observe", "unobserved",
                    "return", "leave"}

UsesHandle(s) == s.do \in OfHandles
UsesDir(s) == s.d # "here"
=============================================================================
