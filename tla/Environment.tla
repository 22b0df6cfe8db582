---------------------------- MODULE Environment ----------------------------
(* An environment that provides the interface, as the suite uses it: what a   *)
(* call may answer and what it leaves, for every answer the interface         *)
(* permits. No implementation of the interface is in this repository, so the  *)
(* operators here are external; the suite's calls of them are Calls.          *)
(*                                                                            *)
(* os = [tree, held, procs, mode, claims]:                                    *)
(*   tree   the nodes beneath the working directory, by path;                 *)
(*   held   what each program holds: <<program, variable>> -> handle;         *)
(*   procs  the copies of the suite, by name;                                 *)
(*   mode   what the display does otherwise than it was found;                *)
(*   claims what it is known to claim: of anything else it claims what it will.*)
(* Do(os, who, vars, s) is the set of [r, os]: an answer to step s of program *)
(* who, and the environment after it.                                         *)
EXTENDS Calls, FiniteSets

CONSTANTS ShortReads,    \* a read may move fewer bytes than it was asked for
          AlwaysClaimed, \* what every capability word of an instance claims
          CopyNames      \* names of the copies that can be there at once

ASSUME ShortReadsType == ShortReads \in BOOLEAN

\* A copy is another program than the one that starts it.
ASSUME CopyNamesType == "suite" \notin CopyNames

\* A copy: its errand and how it was started; how it ended; whether it took the
\* request to end over, and has one; the memory it wrote, and its unit's limit.
NoCopy == [state |-> "none", errand |-> "", how |-> {}, result |-> 0,
           took |-> FALSE, asked |-> FALSE, memory |-> 0, limited |-> FALSE]

Boot == [tree |-> <<>>, held |-> <<>>, procs |-> [c \in CopyNames |-> NoCopy], mode |-> {}, claims |-> AlwaysClaimed]

Reply(r, os) == {[r |-> r, os |-> os]}
Answers(rs, os) == {[r |-> r, os |-> os] : r \in rs}

-----------------------------------------------------------------------------
\* Names and nodes.
Node(kind, size, to) == [kind |-> kind, size |-> size, to |-> to, doomed |-> FALSE]

DirOf(os, who, d) == IF d = "here" THEN [path |-> <<>>, how |-> {}] ELSE os.held[<<who, d>>]
Writable(os, who, d) == "read_only" \notin DirOf(os, who, d).how
PathOf(os, who, s) ==
  LET p == DirOf(os, who, s.d).path IN IF s.n = "." THEN p ELSE Append(p, s.n)
Follow(t, p) == IF p \in DOMAIN t /\ t[p].kind = Link THEN <<t[p].to>> ELSE p
KindAt(t, p) == IF p = <<>> THEN Directory ELSE IF p \in DOMAIN t THEN t[p].kind ELSE Absent
Children(t, p) == {q \in DOMAIN t : Len(q) = Len(p) + 1 /\ SubSeq(q, 1, Len(p)) = p}
Put(t, p, node) == [q \in DOMAIN t \cup {p} |-> IF q = p THEN node ELSE t[q]]
Drop(t, ps) == [q \in DOMAIN t \ ps |-> t[q]]

\* A name is made only in a directory that is still there.
Enterable(t, d) == d = <<>> \/ (d \in DOMAIN t /\ ~t[d].doomed)

Holds(os, who, f) == <<who, f>> \in DOMAIN os.held
Take(os, who, f, h) ==
  [os EXCEPT !.held = [x \in DOMAIN @ \cup {<<who, f>>} |-> IF x = <<who, f>> THEN h ELSE @[x]]]
HandleOf(os, who, f) == os.held[<<who, f>>]

\* Somebody holds the node of this name: a file, or a region made of one.
Busy(os, p) == \E x \in DOMAIN os.held : os.held[x].kind \in {"file", "region"} /\ os.held[x].path = p

\* Handles go: a name removed while it was held, on a volume that keeps it until
\* then, goes with the last of them.
Let(os, gone) ==
  LET rest == [os EXCEPT !.held = [x \in DOMAIN @ \ gone |-> @[x]]]
  IN [rest EXCEPT !.tree = Drop(@, {p \in DOMAIN @ : @[p].doomed /\ ~Busy(rest, p)})]

-----------------------------------------------------------------------------
\* openkal.fs.
DoOpen(os, who, s) ==
  LET t == os.tree
      p == Follow(t, PathOf(os, who, s))
      kind == KindAt(t, p)
      keeps == kind = File /\ "truncate" \notin s.how
  IN IF s.n \in {"../okc-conformance-escape", "/etc/passwd"} THEN Answers({Invalid, Permission, NotFound}, os)
     ELSE IF ~Writable(os, who, s.d) /\ s.how \cap {"write", "create"} # {} THEN Reply(Permission, os)
     ELSE IF kind = Absent /\ ("create" \notin s.how \/ ~Enterable(t, DirOf(os, who, s.d).path))
     THEN Reply(NotFound, os)
     ELSE IF kind # Absent /\ "exclusive" \in s.how THEN Reply(Exists, os)
     ELSE IF kind = Directory THEN Reply(IsDirectory, os)
     ELSE Reply(Ok, Take([os EXCEPT !.tree = Put(t, p, Node(File, IF keeps THEN t[p].size ELSE 0, ""))],
                                  who, s.f, [kind |-> "file", path |-> p, at |-> 0, how |-> s.how, locked |-> FALSE]))

DoOpenDir(os, who, s) ==
  LET p == Follow(os.tree, PathOf(os, who, s)) IN
  CASE KindAt(os.tree, p) = Absent -> Reply(NotFound, os)
    [] KindAt(os.tree, p) = Directory ->
         Reply(Ok, Take(os, who, s.f, [kind |-> "dir", path |-> p, how |-> DirOf(os, who, s.d).how]))
    [] OTHER -> Reply(NotDirectory, os)

DoMkdir(os, who, s) ==
  LET p == PathOf(os, who, s) IN
  IF ~Writable(os, who, s.d) THEN Reply(Permission, os)
  ELSE IF KindAt(os.tree, p) # Absent THEN Reply(Exists, os)
  ELSE IF ~Enterable(os.tree, DirOf(os, who, s.d).path) THEN Reply(NotFound, os)
  ELSE Reply(Ok, [os EXCEPT !.tree = Put(@, p, Node(Directory, 0, ""))])

DoRemove(os, who, vars, s) ==
  LET p == PathOf(os, who, s)
      gone == [os EXCEPT !.tree = Drop(@, {p})]
      kept == [os EXCEPT !.tree[p].doomed = TRUE]
  IN IF ~Writable(os, who, s.d) THEN Reply(Permission, os)
     ELSE IF KindAt(os.tree, p) = Absent THEN Reply(NotFound, os)
     ELSE IF Children(os.tree, p) # {} THEN Reply(NotEmpty, os)
     ELSE IF Busy(os, p) /\ "remove_open" \notin vars THEN Reply(Ok, gone) \cup Reply(Ok, kept)
     ELSE Reply(Ok, gone)

\* The suite renames what has nothing in it; of a directory that has, nothing is said.
DoRename(os, who, s) ==
  LET p == PathOf(os, who, s)
      q == PathOf(os, who, [s EXCEPT !.n = s.to])
  IN IF "unassigned" \in s.how \/ "." \in {s.n, s.to} THEN Reply(Invalid, os)
     ELSE IF ~Writable(os, who, s.d) THEN Reply(Permission, os)
     ELSE IF p \notin DOMAIN os.tree \/ ~Enterable(os.tree, DirOf(os, who, s.d).path)
     THEN Reply(NotFound, os)
     ELSE IF "no_replace" \in s.how /\ KindAt(os.tree, q) # Absent THEN Reply(Exists, os)
     ELSE IF Children(os.tree, q) # {} THEN Reply(NotEmpty, os)
     ELSE IF Children(os.tree, p) # {} THEN {}
     ELSE Reply(Ok, [os EXCEPT !.tree = Put(Drop(@, {p}), q, @[p])])

DoInfo(os, who, s) ==
  LET p == PathOf(os, who, s) IN
  Reply(KindAt(os.tree, IF "no_resolve" \in s.how THEN p ELSE Follow(os.tree, p)), os)

DoLinkCreate(os, who, vars, s) ==
  LET p == PathOf(os, who, s) IN
  IF "make_links" \notin vars THEN Answers({NotSupported, Permission}, os)
  ELSE IF KindAt(os.tree, p) # Absent THEN Reply(Exists, os)
  ELSE IF ~Enterable(os.tree, DirOf(os, who, s.d).path) THEN Reply(NotFound, os)
  ELSE Reply(Ok, [os EXCEPT !.tree = Put(@, p, Node(Link, 0, s.to))])

\* A directory handle with less, where the volume claims it.
DoAttenuate(os, who, vars, s) ==
  LET h == DirOf(os, who, s.d) IN
  IF "attenuate" \in vars
  THEN Reply(Ok, Take(os, who, s.f, [kind |-> "dir", path |-> h.path, how |-> h.how \cup s.how]))
  ELSE Reply(NotSupported, os)

DoMark(os, who, vars, s) ==
  LET kind == KindAt(os.tree, PathOf(os, who, s)) IN
  IF kind = Absent THEN Reply(NotFound, os)
  ELSE IF s.how = {"executable"} /\ "executable" \notin vars THEN Reply(NotSupported, os)
  ELSE IF s.how = {"executable"} /\ kind = Directory THEN Reply(IsDirectory, os)
  ELSE Reply(Ok, os)

\* What can be done with an open file. The file of a name that was removed is
\* beyond the tree and has the length written through this handle.
Length(os, h) == IF h.path \in DOMAIN os.tree THEN os.tree[h.path].size ELSE h.at
Grown(os, h, to) ==
  IF h.path \in DOMAIN os.tree /\ os.tree[h.path].size < to
  THEN [os EXCEPT !.tree[h.path].size = to] ELSE os
Moved(os, who, f, at) == [os EXCEPT !.held[<<who, f>>].at = at]
Left(os, h, at, k) == IF Length(os, h) <= at THEN 0 ELSE IF Length(os, h) - at < k THEN Length(os, h) - at ELSE k
Counts(n) == IF ShortReads /\ n > 1 THEN 1..n ELSE {n}

OnFile(os, who, s) ==
  LET h == HandleOf(os, who, s.f)
      end == IF "append" \in h.how THEN Length(os, h) ELSE h.at
  IN CASE s.do = "read" -> {[r |-> n, os |-> Moved(os, who, s.f, h.at + n)] : n \in Counts(Left(os, h, h.at, s.k))}
       [] s.do = "read_all" -> Reply(Left(os, h, h.at, 99), os)
       [] s.do = "write" -> Reply(s.k, Moved(Grown(os, h, end + s.k), who, s.f, end + s.k))
       [] s.do = "read_at" -> Answers(Counts(Left(os, h, s.at, s.k)), os)
       [] s.do = "write_at" -> Reply(s.k, Grown(os, h, s.at + s.k))
       [] s.do = "seek" -> Reply(s.k, Moved(os, who, s.f, s.k))
       [] s.do = "position" -> Reply(h.at, os)
       [] s.do = "size" -> Reply(Length(os, h), os)
       [] s.do = "truncate" ->
            Reply(Ok, IF h.path \in DOMAIN os.tree THEN [os EXCEPT !.tree[h.path].size = s.k] ELSE os)
       [] s.do = "lock" ->
            IF \E x \in DOMAIN os.held \ {<<who, s.f>>} :
                  os.held[x].kind = "file" /\ os.held[x].path = h.path /\ os.held[x].locked
            THEN Reply(Again, os) ELSE Reply(Ok, [os EXCEPT !.held[<<who, s.f>>].locked = TRUE])
       [] s.do = "unlock" -> Reply(Ok, [os EXCEPT !.held[<<who, s.f>>].locked = FALSE])

-----------------------------------------------------------------------------
\* openkal.process. A copy is granted the directories its starter holds as
\* "grant_a" and "grant_b", or as "grant_a" alone where it is confined; where
\* nothing is granted it has its starter's. One is refused where no name is left.
NoPrograms == {"no such program", "not a program"}
Flags == {"bound_lifetime", "one_string", "null_streams", "job", "grant_dir", "confine"}
Preferences == {"economy", "performance", "balanced"}
Granting(how) == how \cap {"grant_dir", "confine"} # {} /\ "no_grants" \notin how
Idle(os) == {c \in CopyNames : os.procs[c].state = "none"}

Watched(os, c) == \E x \in DOMAIN os.held : os.held[x].kind = "process" /\ os.held[x].of = c

Ended(os, c, result) ==
  LET rest == Let(os, {x \in DOMAIN os.held : x[1] = c})
  IN [rest EXCEPT !.procs[c] = IF Watched(os, c) THEN [NoCopy EXCEPT !.state = "ended", !.result = result] ELSE NoCopy]

\* A copy that ended and is no longer watched is forgotten.
Reaped(os) ==
  [os EXCEPT !.procs = [c \in CopyNames |->
     IF @[c].state = "ended" /\ ~Watched(os, c) THEN NoCopy ELSE @[c]]]

Started(os, who, s) ==
  LET c == CHOOSE c \in Idle(os) : TRUE
      run == [os EXCEPT !.procs[c] = [NoCopy EXCEPT !.state = "running", !.errand = s.to, !.how = s.how]]
      got == Take(run, who, s.f, [kind |-> "process", of |-> c])
      unit == IF "job" \in s.how THEN Take(got, who, "unit", [kind |-> "job", of |-> c]) ELSE got
      Give(o, g) == IF Granting(s.how) /\ Holds(os, who, g) THEN Take(o, c, g, HandleOf(os, who, g)) ELSE o
  IN Give(Give(unit, "grant_a"), "grant_b")

DoSpawn(os, who, vars, s) ==
  IF s.to = "no such program" THEN Reply(NotFound, os)
  ELSE IF s.to = "not a program" /\ "executable" \in vars THEN Reply(NotProgram, os)
  ELSE IF s.to = "not a program" THEN Answers({NotProgram, Permission, Invalid}, os)
  ELSE IF Cardinality(s.how \cap Preferences) > 1 \/ {"null_streams", "placed"} \subseteq s.how
  THEN Reply(Invalid, os)
  ELSE IF ~((s.how \cap Flags) \subseteq vars) THEN Reply(NotSupported, os)
  ELSE IF Idle(os) = {} THEN Reply(NoMemory, os)
  ELSE Reply(Ok, Started(os, who, s))

DoWait(os, who, s) ==
  LET c == HandleOf(os, who, s.f).of IN
  IF os.procs[c].state = "ended" THEN Reply(os.procs[c].result, os) ELSE {}

\* A request to end reaches a copy that took it over as a request, or ends it
\* outright as it ends any other.
Runs(os, c) == c \in CopyNames /\ os.procs[c].state = "running"
DoTerminate(os, who, s) ==
  LET c == HandleOf(os, who, s.f).of IN
  IF ~Runs(os, c) THEN Reply(Ok, os)
  ELSE Reply(Ok, Ended(os, c, Terminated))
       \cup IF os.procs[c].took THEN Reply(Ok, [os EXCEPT !.procs[c].asked = TRUE]) ELSE {}

OnUnit(os, who, s) ==
  LET c == HandleOf(os, who, s.f).of
  IN CASE s.do = "job_terminate" -> Reply(Ok, IF Runs(os, c) THEN Ended(os, c, Terminated) ELSE os)
       [] s.do = "job_limit" -> Reply(Ok, IF Runs(os, c) THEN [os EXCEPT !.procs[c].limited = TRUE] ELSE os)
       [] s.do = "await_use" -> IF os.procs[c].memory >= s.k THEN Reply(Ok, os) ELSE {}

\* What a copy does of itself. It waits for a request two seconds, which may be
\* over before one arrives; one that waits to be ended waits for ever; the twenty
\* seconds one waits outlast the five its starter allows, and so whoever watches.
OfItself(os, c, s) ==
  CASE s.do = "exit" -> Reply(Ok, Ended(os, c, s.k))
    [] s.do = "take_over" -> Reply(Ok, [os EXCEPT !.procs[c].took = TRUE])
    [] s.do = "await_request" -> Reply(IF os.procs[c].asked THEN Ok ELSE Again, os)
    [] s.do \in {"end_as_requested", "fault", "abort"} -> Reply(Ok, Ended(os, c, Terminated))
    [] s.do = "grow" -> Reply(Ok, IF os.procs[c].limited THEN Ended(os, c, Limited)
                                  ELSE [os EXCEPT !.procs[c].memory = @ + 1])
    [] s.do = "wait_for_ever" -> {}
    [] s.do = "wait_long" -> IF os.procs[c].limited THEN Reply(Ok, Ended(os, c, Limited))
                             ELSE IF Watched(os, c) THEN {} ELSE Reply(Ok, os)
    [] s.do = "own_name" -> Reply(IF "other_name" \in os.procs[c].how THEN Invalid ELSE Ok, os)
    [] s.do = "null_device" -> Reply(IF "null_streams" \in os.procs[c].how THEN Ok ELSE Invalid, os)
    [] s.do = "preopens" ->
         Reply(IF os.procs[c].how \cap {"grant_dir", "confine"} # {}
               THEN Cardinality({x \in DOMAIN os.held : x[1] = c /\ os.held[x].kind = "dir"}) ELSE 1, os)
    [] s.do = "preference" ->
         Reply(IF "economy" \in os.procs[c].how THEN 2 ELSE IF "performance" \in os.procs[c].how THEN 1 ELSE 0, os)

-----------------------------------------------------------------------------
\* Of any other interface: a handle, or the two ends of a channel.
OfTwo(s) == s.to # ""
DoObtain(os, who, vars, s) ==
  LET one == Take(os, who, s.f, [kind |-> "other"])
      two == Take(one, who, s.to, [kind |-> "other"])
  IN IF s.how \subseteq vars THEN Reply(Ok, IF OfTwo(s) THEN two ELSE one) ELSE Reply(NotSupported, os)

\* Every call. One made of a handle that is not held is refused.
Do(os, who, vars, s) ==
  IF (UsesHandle(s) /\ ~Holds(os, who, s.f)) \/ (UsesDir(s) /\ ~Holds(os, who, s.d)) THEN Reply(Invalid, os)
  ELSE
  CASE s.do \in OfFiles -> OnFile(os, who, s)
    [] s.do = "open" -> DoOpen(os, who, s)
    [] s.do = "open_dir" -> DoOpenDir(os, who, s)
    [] s.do \in {"close", "free"} -> Reply(Ok, Reaped(Let(os, {<<who, s.f>>})))
    [] s.do = "mkdir" -> DoMkdir(os, who, s)
    [] s.do = "remove" -> DoRemove(os, who, vars, s)
    [] s.do = "rename" -> DoRename(os, who, s)
    [] s.do = "info" -> DoInfo(os, who, s)
    [] s.do = "list" -> Reply(Cardinality(Children(os.tree, DirOf(os, who, s.d).path)), os)
    [] s.do = "link_create" -> DoLinkCreate(os, who, vars, s)
    [] s.do = "link_read" -> Reply(IF KindAt(os.tree, PathOf(os, who, s)) = Link THEN Ok ELSE NotFound, os)
    [] s.do = "attenuate" -> DoAttenuate(os, who, vars, s)
    [] s.do = "mark" -> DoMark(os, who, vars, s)
    [] s.do = "stale" -> Answers(Errors, os)
    [] s.do = "spawn" -> DoSpawn(os, who, vars, s)
    [] s.do \in {"wait", "ended_as"} -> DoWait(os, who, s)
    [] s.do = "terminate" -> DoTerminate(os, who, s)
    [] s.do \in {"job_terminate", "job_limit", "await_use"} -> OnUnit(os, who, s)
    [] s.do \in OfACopy -> OfItself(os, who, s)
    [] s.do = "obtain" -> DoObtain(os, who, vars, s)
    [] s.do = "mode" -> Reply(Ok, [os EXCEPT !.mode = s.how])
    [] s.do = "map_region" -> Reply(Ok, Take(os, who, s.to, [kind |-> "region", path |-> HandleOf(os, who, s.f).path]))
    [] s.do = "use" -> Reply(Ok, os)
    [] s.do \in {"bad", "answer"} -> Reply(s.k, os)
    [] s.do = "may" -> IF s.as \in os.claims THEN Reply(Ok, os) ELSE Answers({Ok, NotSupported}, os)
    [] s.do = "observe" -> Reply(IF s.how \subseteq vars THEN Ok ELSE Invalid, os)
    [] s.do \in {"unobserved", "return", "leave"} -> Reply(Ok, os)
=============================================================================
