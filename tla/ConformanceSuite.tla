-------------------------- MODULE ConformanceSuite --------------------------
(* The conformance suite as a program (conformance/src/main.cpp, suite.cpp,   *)
(* report.cpp) that runs its sections, one call after another, against an     *)
(* environment that provides the interface, beside the copies it starts of    *)
(* itself. The sections are data (FsSection and the others); this module runs *)
(* them. How the suite goes from call to call, and what it reports, is        *)
(* SuiteAlone. Beyond the calls there are two kinds of mishap, MaxMishaps in  *)
(* all: a call that obtains or makes something is refused, or the suite is    *)
(* killed and run again where the first run was.                              *)
EXTENDS Environment, Sections

CONSTANT MaxMishaps
ASSUME MaxMishapsType == MaxMishaps \in Nat

VARIABLES os,       \* the environment
          pc,       \* where the suite is: section, block and step
          copy_pc,  \* where each copy is in its errand
          vars,     \* the variables that hold TRUE, of the suite and of each copy
          report,   \* the counts of report.cpp, as far as the verdict tells them apart
          mishaps,  \* how many calls were refused, and how often the suite was killed
          found,    \* the directories that held something when this run of the suite began
          verdict   \* the status the suite ended with, or 9 while it runs
state == <<os, pc, copy_pc, vars, report, mishaps, found, verdict>>

\* What the suite holds, and the suite by itself.
HeldBy(who) == {x[2] : x \in {y \in DOMAIN os.held : y[1] = who}}
Alone == INSTANCE SuiteAlone
         WITH Program <- Suite, known <- vars["suite"], holds <- HeldBy("suite"),
              MayUse <- Unchecked, MayHold <- Unreleased, MaySayNothing <- SaysNothing

\* The sections are calls, which start no copy for an errand that is none, observe
\* and release in no directory, and end nothing by themselves; a block begins with
\* one that is made whatever was answered before it.
Call == {s \in [do : Operations, f : STRING, d : STRING, n : STRING, to : STRING, k : Nat, at : Nat,
                how : SUBSET STRING, as : STRING, want : SUBSET Nat, obs : BOOLEAN,
                when : SUBSET (STRING \X BOOLEAN)] :
           /\ s.do = "spawn" => s.to \in DOMAIN errands \cup NoPrograms
           /\ s.do \in {"observe", "close", "free"} => s.d = "here"}
ASSUME SectionsAreCalls ==
  /\ Suite \in Seq(Seq(Seq(Call))) /\ Suite # <<>>
  /\ \A i \in DOMAIN Suite : Suite[i] # <<>> /\ \A j \in DOMAIN Suite[i] : Suite[i][j] # <<>>
ASSUME BlocksBegin == \A i \in DOMAIN Suite : \A j \in DOMAIN Suite[i] : Suite[i][j][1].when = {}
ASSUME SectionsEndNothing ==
  \A i \in DOMAIN Suite : \A j \in DOMAIN Suite[i] : \A n \in DOMAIN Suite[i][j] :
    Suite[i][j][n].do \notin OfACopy

Init ==
  /\ os = Boot
  /\ pc = Alone!Beginning
  /\ copy_pc = [c \in CopyNames |-> 1]
  /\ vars = [w \in {"suite"} \cup CopyNames |-> {}]
  /\ report = Alone!NoReport
  /\ mishaps = [refused |-> 0, killed |-> 0]
  /\ found = {}
  /\ verdict = 9

-----------------------------------------------------------------------------
\* An errand ends its copy, whatever is answered on the way.
Ends(s) == s.do \in {"exit", "end_as_requested", "abort", "fault", "wait_for_ever"} /\ s.d = "here"
Tested(b) == UNION {{w[1] : w \in b[i].when} : i \in DOMAIN b}
ASSUME ErrandsEnd ==
  \A e \in DOMAIN errands :
    /\ errands[e] \in Seq(Call) /\ errands[e] # <<>>
    /\ \A i \in DOMAIN errands[e], vs \in SUBSET Tested(errands[e]) :
         Ends(errands[e][i]) \/ \E j \in DOMAIN errands[e] : j > i /\ Alone!IsMade(errands[e][j], vs)

\* A mutant: the variables of a block outlive it.
VariablesOutlive(o, vs, ends) ==
  [w \in DOMAIN vars |-> IF w = "suite" THEN vs ELSE IF o.procs[w].state = "running" THEN vars[w] ELSE {}]

\* The suite's variables go with the block, a copy's with the copy.
Variables(o, vs, ends) ==
  [w \in DOMAIN vars |-> IF w = "suite" THEN IF ends THEN {} ELSE vs
                         ELSE IF o.procs[w].state = "running" THEN vars[w] ELSE {}]

\* The suite goes on with answer r and environment o.
Answered(o, r, refused) ==
  \E vs \in {Alone!Kept(Alone!Here, r, vars["suite"])} : \E next \in {Alone!Onward(vs)} :
    /\ os' = o
    /\ pc' = next
    /\ report' = Alone!Reported(r, refused, Alone!EndsWith(next))
    /\ vars' = Variables(o, vs, Alone!EndsWith(next))
    /\ copy_pc' = [c \in CopyNames |-> IF o.procs[c].state = "running" THEN copy_pc[c] ELSE 1]
    /\ UNCHANGED <<found, verdict>>

SuiteStep ==
  /\ Alone!Running
  /\ \E a \in Do(os, "suite", vars["suite"], Alone!Here) : Answered(a.os, a.r, report.refused)
  /\ UNCHANGED mishaps

MishapLeft == mishaps.refused + mishaps.killed < MaxMishaps

\* A mutant: a refused call is taken for one that succeeded.
SuiteRefusedUnseen ==
  /\ Alone!Running /\ MishapLeft
  /\ Alone!Here.do \in Alone!Refusable
  /\ Answered(os, Ok, Alone!Here.as)
  /\ mishaps' = [mishaps EXCEPT !.refused = @ + 1]

\* A call that obtains, makes or writes something is refused: the environment
\* has no more of it, or five seconds passed.
SuiteRefused ==
  /\ Alone!Running /\ MishapLeft
  /\ Alone!Here.do \in Alone!Refusable
  /\ Answered(os, NoMemory, Alone!Here.as)
  /\ mishaps' = [mishaps EXCEPT !.refused = @ + 1]

\* The suite is killed: what it held goes, what it made and the copies it
\* started stay, and it is run again where the claims this block was reached
\* by, and was told of, are claimed still.
Claims(b) == {b[i].as : i \in {j \in DOMAIN b : b[j].do = "may"}}
LeftWithout(b) == {v \in Claims(b) : \E i \in DOMAIN b : b[i].do = "leave" /\ <<v, FALSE>> \in b[i].when}
Known == (vars["suite"] \cap Claims(Alone!Block)) \cup UNION {LeftWithout(Suite[pc[1]][i]) : i \in 1..pc[2] - 1}
Kill ==
  /\ Alone!Running /\ MishapLeft
  /\ LET o == Reaped(Let(os, {x \in DOMAIN os.held : x[1] = "suite"}))
     IN /\ os' = [o EXCEPT !.claims = @ \cup Known]
        /\ found' = {p[1] : p \in {q \in DOMAIN o.tree : Len(q) > 1}}
        /\ copy_pc' = [c \in CopyNames |-> IF o.procs[c].state = "running" THEN copy_pc[c] ELSE 1]
        /\ vars' = [w \in DOMAIN vars |-> IF w # "suite" /\ o.procs[w].state = "running" THEN vars[w] ELSE {}]
  /\ pc' = Alone!Beginning
  /\ report' = Alone!NoReport
  /\ mishaps' = [mishaps EXCEPT !.killed = @ + 1]
  /\ UNCHANGED verdict

CopyStep(c) ==
  /\ os.procs[c].state = "running"
  /\ LET errand == errands[os.procs[c].errand]
         s == errand[copy_pc[c]]
     IN \E a \in Do(os, c, vars[c], s) :
          LET vs == Alone!Kept(s, a.r, vars[c])
              runs == a.os.procs[c].state = "running"
          IN /\ os' = a.os
             /\ vars' = [vars EXCEPT ![c] = IF runs THEN vs ELSE {}]
             /\ copy_pc' = [d \in CopyNames |->
                              IF a.os.procs[d].state # "running" THEN 1
                              ELSE IF d = c THEN Alone!NextIn(errand, copy_pc[d] + 1, vs) ELSE copy_pc[d]]
  /\ UNCHANGED <<pc, report, mishaps, found, verdict>>

\* summarise, and the status main returns.
summarise ==
  /\ verdict = 9 /\ pc = Alone!End
  /\ verdict' = CASE ~report.held /\ ~report.failed -> 2
                  [] report.failed -> 1
                  [] OTHER -> 0
  /\ UNCHANGED <<os, pc, copy_pc, vars, report, mishaps, found>>

\* A program that has ended takes no more steps.
Over == verdict # 9 /\ UNCHANGED state

\* What the programs do, and what happens to them.
Works == SuiteStep \/ summarise \/ \E c \in CopyNames : CopyStep(c)
Next == Works \/ SuiteRefused \/ Kill \/ Over

\* A program is run while it can be: some program that can take a step does.
Spec == Init /\ [][Next]_state /\ WF_state(Works)

-----------------------------------------------------------------------------
ByARefusal == mishaps.refused > 0
OneMishap  == mishaps.refused + mishaps.killed <= 1

\* The suite is at a step of its source and every copy at one of its errand's.
AtTheirSource ==
  /\ pc = Alone!End \/ (pc[1] \in DOMAIN Suite /\ pc[2] \in DOMAIN Suite[pc[1]] /\ pc[3] \in DOMAIN Alone!Block)
  /\ \A c \in CopyNames :
       os.procs[c].state = "running" => copy_pc[c] \in DOMAIN errands[os.procs[c].errand]

\* A program that has ended holds nothing.
TheEndedHoldNothing ==
  \A x \in DOMAIN os.held : x[1] = "suite" \/ (x[1] \in CopyNames /\ os.procs[x[1]].state = "running")

\* So it is, and a node's directory is there.
TypeOK ==
  /\ AtTheirSource /\ TheEndedHoldNothing
  /\ \A p \in DOMAIN os.tree : Len(p) > 1 => SubSeq(p, 1, Len(p) - 1) \in DOMAIN os.tree
  /\ mishaps \in [refused : Nat, killed : Nat]
  /\ verdict \in {0, 1, 2, 9}

\* A conforming environment is not reported as one that does not conform, and
\* something is observed of it: neither what an earlier section or a killed run
\* left behind nor how fast a copy is misleads the suite. What is left and does
\* mislead is a directory of entries that fs.cpp removes as if it were empty (line
\* 533). Nor is anything given that is to be refused, but where a file was refused
\* as often as it was to be made: then the open that fs.cpp has refused because it
\* is there (line 515) makes it.
ConformingIsNotReported ==
  /\ report.failed => ByARefusal \/ kDir \in found
  /\ OneMishap => ~report.given
  /\ verdict # 2

\* What a run made is gone when it ends, whatever one call it was refused, and
\* what a killed run left is gone when the next one ends; but for the file that
\* was not written whole (exec.cpp and map.cpp return without removing it), and
\* what a copy that outlives a killed suite makes. Nor does it hold anything but
\* the region sealed for ever and, for each start of a context refused, no more
\* than one context that was not joined (task.cpp's identities).
LeavesNothingBehind ==
  verdict # 9 =>
    /\ OneMishap =>
         {p[1] : p \in DOMAIN os.tree} \subseteq
           (IF ByARefusal THEN {kFile, kMapName} ELSE {})
           \cup (IF mishaps.killed > 0 THEN {kMapShort, kGrantA, kGrantB} ELSE {})
    /\ ~report.given =>
         /\ HeldBy("suite") \subseteq Unreleased
         /\ Cardinality(HeldBy("suite") \ {"sealed"}) <= mishaps.refused
    /\ mishaps.killed = 0 => os.mode = {} /\ \A c \in CopyNames : os.procs[c].state = "none"

\* A handle is not lost to another kept in its place, nor used before it is held
\* or after it is released, on any way through a block; but that a refusal has
\* task.cpp join by number what did not start (identities), and process.cpp
\* remove a name through a directory it did not open (grants).
HandlesAreKept == Alone!HandlesAreKept

\* What the suite removes is held by nobody, itself or a copy it started
\* (child.cpp: "so that the file the suite removes afterwards is held by
\* nothing"), unless it is told that a name held open can be removed; but for what
\* a copy of a killed run holds, or the suite itself of what was to be refused.
RemovesOnlyWhatIsFree ==
  LET s == Alone!Here IN
  Alone!Running /\ s.do = "remove" /\ (UsesDir(s) => Holds(os, "suite", s.d)) =>
    \/ ~Busy(os, PathOf(os, "suite", s))
    \/ "remove_open" \in vars["suite"]
    \/ mishaps.killed > 0 \/ report.given

\* A block that a refusal keeps from an observation says so (conformance/README.md:
\* "Every unmade observation therefore carries the reason it was not made"),
\* apart from the blocks that do not.
UnmadeIsReported == Alone!UnmadeIsReported

\* The suite in its environment does what the suite by itself may.
ImplementsSuiteAlone == Alone!Spec

\* The suite ends with a verdict: nobody waits for what nobody will do, but for
\* the copy that waits to be ended and could not be.
Completes ==
  <>(verdict # 9 \/ (ByARefusal /\ Alone!Running /\ Alone!Block = termination /\ Alone!Here.do = "wait"))
=============================================================================
