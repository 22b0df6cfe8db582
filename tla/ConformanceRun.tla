---------------------------- MODULE ConformanceRun ----------------------------
(***************************************************************************)
(* tools/run-conformance.sh, invoked again and again in one checkout with  *)
(* different feature sets, flags and arrangements of the implementation,   *)
(* sometimes killed, sometimes asked to end, the sources edited in between.*)
(*                                                                         *)
(* A manifest is what the script changes of it: whether it names openkal by*)
(* version or by this working tree, the line that names an implementation, *)
(* and the flags appended.  The build tool is not in the repository; what  *)
(* it does is what the script's comments report of it: one directory per   *)
(* set of dependencies, in which what was compiled for one feature set and *)
(* one set of flags is taken as it is for another.                         *)
(*                                                                         *)
(* A checkout in which a run was killed is reverted before it is used      *)
(* again: the script says that it runs in checkouts that exist for the     *)
(* length of one job.  What is not under version control stays.            *)
(*                                                                         *)
(* Bounds: MaxRuns invocations, MaxKills kills, MaxEdits edits.            *)
(***************************************************************************)
EXTENDS Naturals, FiniteSets

CONSTANTS
  Features, Flags, Arrangements,  \* what a run may ask for
  NoFlags, None,
  MaxRuns, MaxKills, MaxEdits

ASSUME RequestsAssumption ==
  /\ NoFlags \in Flags
  /\ None \notin Arrangements
  /\ None # "version"
  /\ None # [spec |-> "version", impl |-> None, flags |-> NoFlags]
  /\ \A f \in Features, g \in Flags : None # [features |-> f, flags |-> g]
ASSUME BoundsAssumption == MaxRuns \in Nat /\ MaxKills \in Nat /\ MaxEdits \in Nat

VARIABLES
  pc, request,      \* where the script is, and what it was asked
  suite, impl,      \* the two manifests
  suiteOrig, implOrig,  \* their copies, None where there is none
  objects,          \* per set of dependencies, what was compiled and for what
  binaries,         \* the suites linked, wherever in target
  stamp,            \* the record of what target was made for
  tree,             \* how often the sources were edited
  report,           \* the last suite run, for what, and in which tree
  killed,           \* whether the last run was killed
  runs, kills

disk == <<suite, impl, suiteOrig, implOrig>>
target == <<objects, binaries, stamp>>
counts == <<tree, killed, runs, kills>>
vars == <<pc, request, disk, target, report, counts>>

Requests == [features : Features, flags : Flags, impl : Arrangements]
Wants == [features : Features, flags : Flags]
Want(r) == [features |-> r.features, flags |-> r.flags]

CommittedSuite == [spec |-> "version", impl |-> None, flags |-> NoFlags]
CommittedImpl == "version"
Manifests == [spec : {"version", "tree"}, impl : Arrangements \union {None}, flags : Flags]

\* The dependencies the build tool resolves, and the set of all such.
Deps == [spec : {"version", "tree"}, impl : Arrangements \union {None}]
Resolved == [spec |-> suite.spec, impl |-> suite.impl]
Suites == [deps : Deps, made : Wants, tree : 0..MaxEdits]

Unbuilt == [d \in Deps |-> None]

Goto(here, next) == pc = here /\ pc' = next
-----------------------------------------------------------------------------
\* The script, in its order.

\* It is invoked in a checkout whose manifests are as committed.
Invoke ==
  /\ Goto("idle", "save suite")
  /\ runs < MaxRuns
  /\ suite = CommittedSuite /\ impl = CommittedImpl
  /\ request' \in Requests
  /\ report' = None
  /\ runs' = runs + 1 /\ killed' = FALSE
  /\ UNCHANGED <<disk, target, tree, kills>>

SavesSuite ==
  /\ Goto("save suite", "save impl")
  /\ suiteOrig' = suite
  /\ UNCHANGED <<request, suite, impl, implOrig, target, report, counts>>

\* The trap is set after the second copy.
SavesImpl ==
  /\ Goto("save impl", "point suite")
  /\ implOrig' = impl
  /\ UNCHANGED <<request, suite, impl, suiteOrig, target, report, counts>>

PointsSuite ==
  /\ Goto("point suite", "point impl")
  /\ suite' = [suite EXCEPT !.spec = "tree"]
  /\ UNCHANGED <<request, impl, suiteOrig, implOrig, target, report, counts>>

PointsImpl ==
  /\ Goto("point impl", "carry")
  /\ impl' = "tree"
  /\ UNCHANGED <<request, suite, suiteOrig, implOrig, target, report, counts>>

CarriesFlags ==
  /\ Goto("carry", "name")
  /\ suite' = IF request.flags = NoFlags THEN suite ELSE [suite EXCEPT !.flags = request.flags]
  /\ UNCHANGED <<request, impl, suiteOrig, implOrig, target, report, counts>>

\* A manifest that names an implementation already is left as it is.
NamesImplementation ==
  /\ Goto("name", "check")
  /\ suite' = IF suite.impl = None THEN [suite EXCEPT !.impl = request.impl] ELSE suite
  /\ UNCHANGED <<request, impl, suiteOrig, implOrig, target, report, counts>>

\* Mutant: the record is of the features, not of the flags.
ChecksFeatures ==
  /\ Goto("check", "delete")
  /\ IF stamp # None /\ stamp.features = request.features
       THEN UNCHANGED target
       ELSE objects' = Unbuilt /\ binaries' = {} /\ stamp' = None
  /\ UNCHANGED <<request, disk, report, counts>>

\* target is discarded unless its record says it was made for this run.
ChecksStamp ==
  /\ Goto("check", "delete")
  /\ IF stamp = Want(request)
       THEN UNCHANGED target
       ELSE objects' = Unbuilt /\ binaries' = {} /\ stamp' = None
  /\ UNCHANGED <<request, disk, report, counts>>

\* Mutant: suites already built are left where they are.
KeepsSuites ==
  /\ Goto("delete", "compile")
  /\ UNCHANGED binaries
  /\ UNCHANGED <<request, disk, objects, stamp, report, counts>>

DeletesSuites ==
  /\ Goto("delete", "compile")
  /\ binaries' = {}
  /\ UNCHANGED <<request, disk, objects, stamp, report, counts>>

\* The two manifests reach openkal independently: one rewritten and not the
\* other does not resolve, and a suite with no implementation does not link.
Compiles ==
  /\ Goto("compile", "link")
  /\ suite.spec = impl
  /\ suite.impl # None
  /\ objects' =
       IF objects[Resolved] # None THEN objects
       ELSE [objects EXCEPT ![Resolved] = [features |-> request.features, flags |-> suite.flags]]
  /\ UNCHANGED <<request, disk, binaries, stamp, report, counts>>

Links ==
  /\ Goto("link", "stamp")
  /\ objects[Resolved] # None
  /\ binaries' = {b \in binaries : b.deps # Resolved}
       \union {[deps |-> Resolved, made |-> objects[Resolved], tree |-> tree]}
  /\ UNCHANGED <<request, disk, objects, stamp, report, counts>>

\* A build that fails ends the script, through the trap.
BuildFails ==
  /\ pc \in {"compile", "link"}
  /\ pc' = "leave"
  /\ UNCHANGED <<request, disk, target, report, counts>>

\* Mutant: the record is of the features alone.
StampsFeatures ==
  /\ Goto("stamp", "run")
  /\ stamp' = request.features
  /\ UNCHANGED <<request, disk, objects, binaries, report, counts>>

Stamps ==
  /\ Goto("stamp", "run")
  /\ stamp' = Want(request)
  /\ UNCHANGED <<request, disk, objects, binaries, report, counts>>

\* Anything but exactly one suite ends the script before one is run.
RunsSuite ==
  /\ Goto("run", "leave")
  /\ report' \in IF Cardinality(binaries) = 1
                   THEN {[ran |-> b, asked |-> request, of |-> tree] : b \in binaries} ELSE {report}
  /\ UNCHANGED <<request, disk, target, counts>>

Restores ==
  /\ suite' = IF suiteOrig # None THEN suiteOrig ELSE suite
  /\ impl' = IF implOrig # None THEN implOrig ELSE impl
  /\ suiteOrig' = None /\ implOrig' = None

\* Mutant: the trap restores the suite's manifest alone.
LeavesRewritten ==
  /\ Goto("leave", "idle")
  /\ suite' = IF suiteOrig # None THEN suiteOrig ELSE suite
  /\ suiteOrig' = None
  /\ UNCHANGED <<request, impl, implOrig, target, report, counts>>

Leaves ==
  /\ Goto("leave", "idle")
  /\ Restores
  /\ UNCHANGED <<request, target, report, counts>>

-----------------------------------------------------------------------------
\* What happens to the script and to the checkout.

Untrapped == {"idle", "save suite", "save impl"}

\* A request to end: the trap restores the manifests, and the script goes on.
Terminate ==
  /\ pc \notin Untrapped
  /\ Restores
  /\ UNCHANGED <<pc, request, target, report, counts>>

\* A kill, or any signal before the trap is set.
Kill ==
  /\ pc # "idle"
  /\ kills < MaxKills
  /\ kills' = kills + 1
  /\ pc' = "idle"
  /\ killed' = TRUE
  /\ UNCHANGED <<request, disk, target, report, tree, runs>>

Revert ==
  /\ pc = "idle" /\ killed
  /\ killed' = FALSE
  /\ suite' = CommittedSuite /\ impl' = CommittedImpl
  /\ UNCHANGED <<pc, request, suiteOrig, implOrig, target, report, tree, runs, kills>>

Edit ==
  /\ pc = "idle"
  /\ tree < MaxEdits
  /\ tree' = tree + 1
  /\ UNCHANGED <<pc, request, disk, target, report, killed, runs, kills>>

Init ==
  /\ pc = "idle"
  /\ request \in Requests
  /\ suite = CommittedSuite /\ impl = CommittedImpl
  /\ suiteOrig = None /\ implOrig = None
  /\ objects = Unbuilt /\ binaries = {} /\ stamp = None
  /\ tree = 0 /\ report = None /\ killed = FALSE
  /\ runs = 0 /\ kills = 0

Next ==
  \/ Invoke \/ SavesSuite \/ SavesImpl \/ PointsSuite \/ PointsImpl \/ CarriesFlags
  \/ NamesImplementation \/ ChecksStamp \/ DeletesSuites \/ Compiles \/ Links
  \/ BuildFails \/ Stamps \/ RunsSuite \/ Leaves
  \/ Kill \/ Revert \/ Edit

Spec == Init /\ [][Next]_vars

\* The same, with requests to end.
SpecTerminated == Init /\ [][Next \/ Terminate]_vars
-----------------------------------------------------------------------------
TypeOK ==
  /\ pc \in Untrapped \union
       {"point suite", "point impl", "carry", "name", "check", "delete", "compile", "link",
        "stamp", "run", "leave"}
  /\ request \in Requests
  /\ suite \in Manifests /\ impl \in {"version", "tree"}
  /\ suiteOrig \in Manifests \union {None} /\ implOrig \in {"version", "tree", None}
  /\ objects \in [Deps -> Wants \union {None}]
  /\ binaries \subseteq Suites
  /\ stamp \in Wants \union {None}
  /\ tree \in 0..MaxEdits
  /\ report \in [ran : Suites, asked : Requests, of : 0..MaxEdits] \union {None}
  /\ killed \in BOOLEAN
  /\ runs \in 0..MaxRuns /\ kills \in 0..MaxKills

\* A suite that is run is the one this run asked for: made for its features and
\* its flags, from this working tree as it is now, with the implementation
\* arranged as asked.  target survives from run to run, and any run before may have
\* failed to build or been killed at any step ("a run that switched sets examined
\* the previous set").
ReportsWhatWasAsked ==
  report # None =>
    report.ran = [deps |-> [spec |-> "tree", impl |-> report.asked.impl],
                  made |-> Want(report.asked), tree |-> report.of]

\* A run whose build succeeded finds exactly one suite, however many the runs
\* before it have left under target.
SuiteIsUnambiguous == pc = "run" => Cardinality(binaries) = 1

\* "The rewrite is undone on the way out": a run that was not killed leaves both
\* manifests as they were committed.
ManifestsRestored ==
  pc = "idle" /\ ~killed => suite = CommittedSuite /\ impl = CommittedImpl
=============================================================================
