------------------------- MODULE ConformanceRunProofs -------------------------
(***************************************************************************)
(* What tools/run-conformance.sh reports and leaves behind, for every set  *)
(* of features, flags and arrangements and for any number of runs, kills   *)
(* and edits.  A request to end is not among its steps: see the run        *)
(* conformance_term.                                                       *)
(***************************************************************************)
EXTENDS ConformanceRun, FiniteSetTheorems, TLAPS

\* The manifests, as far as the script has come.
SuiteAsAsked ==
  /\ pc \in {"save suite", "save impl", "point suite"} => suite = CommittedSuite
  /\ pc \in {"point impl", "carry"} =>
       suite.spec = "tree" /\ suite.impl = None /\ suite.flags = NoFlags
  /\ pc = "name" =>
       suite.spec = "tree" /\ suite.impl = None /\ suite.flags = request.flags
  /\ pc \in {"check", "delete", "compile", "link", "stamp", "run"} =>
       suite.spec = "tree" /\ suite.impl = request.impl /\ suite.flags = request.flags

\* What the trap finds is what was committed.
Restorable ==
  /\ pc \in {"save suite", "save impl", "point suite", "point impl"} => impl = CommittedImpl
  /\ pc \notin {"idle", "save suite"} => suiteOrig = CommittedSuite
  /\ pc \notin Untrapped => implOrig = CommittedImpl

\* Whatever was compiled was compiled for what the record says, and from the
\* check on for what this run asks.
MadeForStamp == stamp # None => \A d \in Deps : objects[d] \in {None, stamp}
MadeForRequest ==
  pc \in {"delete", "compile", "link", "stamp", "run"} =>
    /\ \A d \in Deps : objects[d] \in {None, Want(request)}
    /\ stamp \in {None, Want(request)}

Asked == [deps |-> [spec |-> "tree", impl |-> request.impl], made |-> Want(request), tree |-> tree]
SuitesAsAsked ==
  /\ pc \in {"compile", "link"} => binaries = {}
  /\ pc \in {"stamp", "run"} => binaries = {Asked}

IInv ==
  /\ TypeOK /\ SuiteAsAsked /\ Restorable /\ MadeForStamp /\ MadeForRequest
  /\ SuitesAsAsked /\ ReportsWhatWasAsked /\ ManifestsRestored

LEMMA InitIInv == Init => IInv
  <1> SUFFICES ASSUME Init PROVE IInv  OBVIOUS
  <1> USE RequestsAssumption, BoundsAssumption
  <1>1. TypeOK
    <2>1. suite \in Manifests /\ impl \in {"version", "tree"}
      BY DEF Init, CommittedSuite, CommittedImpl, Manifests
    <2>2. objects \in [Deps -> Wants \union {None}]  BY DEF Init, Unbuilt
    <2>3. killed \in BOOLEAN  BY DEF Init
    <2> QED  BY <2>1, <2>2, <2>3 DEF Init, TypeOK, Untrapped
  <1>2. SuiteAsAsked /\ Restorable /\ MadeForStamp /\ MadeForRequest
    BY DEF Init, SuiteAsAsked, Restorable, MadeForStamp, MadeForRequest, Untrapped
  <1>3. SuitesAsAsked /\ ReportsWhatWasAsked /\ ManifestsRestored
    BY DEF Init, SuitesAsAsked, ReportsWhatWasAsked, ManifestsRestored
  <1> QED  BY <1>1, <1>2, <1>3 DEF IInv

LEMMA CountUp == ASSUME NEW a \in Nat, NEW n \in 0..a, n < a PROVE n + 1 \in 0..a
  OBVIOUS

LEMMA TypeStep == TypeOK /\ [Next]_vars => TypeOK'
  <1> SUFFICES ASSUME TypeOK, [Next]_vars PROVE TypeOK'  OBVIOUS
  <1> USE RequestsAssumption, BoundsAssumption DEF TypeOK, Goto, disk, target, counts
  <1>1. CASE Invoke
    <2>1. killed' \in BOOLEAN  BY <1>1 DEF Invoke
    <2>2. runs' \in 0..MaxRuns  BY <1>1, CountUp, Zenon DEF Invoke
    <2>3. UNCHANGED <<disk, target, tree, kills>> /\ report' = None /\ request' \in Requests
      BY <1>1 DEF Invoke
    <2>4. pc' = "save suite"  BY <1>1 DEF Invoke
    <2> QED  BY <2>1, <2>2, <2>3, <2>4 DEF Untrapped
  <1>2. CASE SavesSuite  BY <1>2 DEF SavesSuite, Untrapped
  <1>3. CASE SavesImpl  BY <1>3 DEF SavesImpl, Untrapped
  <1>4. CASE PointsSuite  BY <1>4 DEF PointsSuite, Untrapped, Manifests
  <1>5. CASE PointsImpl  BY <1>5 DEF PointsImpl, Untrapped
  <1>6. CASE CarriesFlags
    <2>1. suite' \in Manifests  BY <1>6 DEF CarriesFlags, Manifests, Requests
    <2> QED  BY <1>6, <2>1 DEF CarriesFlags, Untrapped
  <1>7. CASE NamesImplementation
    <2>1. suite' \in Manifests  BY <1>7 DEF NamesImplementation, Manifests, Requests
    <2> QED  BY <1>7, <2>1 DEF NamesImplementation, Untrapped
  <1>8. CASE ChecksStamp  BY <1>8 DEF ChecksStamp, Untrapped, Unbuilt
  <1>9. CASE DeletesSuites  BY <1>9 DEF DeletesSuites, Untrapped
  <1>10. CASE Compiles
    <2>1. [features |-> request.features, flags |-> suite.flags] \in Wants
      BY DEF Requests, Manifests, Wants
    <2>2. objects' \in [Deps -> Wants \union {None}]  BY <1>10, <2>1 DEF Compiles
    <2> QED  BY <1>10, <2>2 DEF Compiles, Untrapped
  <1>11. CASE Links
    <2>1. Resolved \in Deps  BY DEF Resolved, Deps, Manifests
    <2>2. [deps |-> Resolved, made |-> objects[Resolved], tree |-> tree] \in Suites
      BY <1>11, <2>1 DEF Links, Suites
    <2>3. binaries' \subseteq Suites  BY <1>11, <2>2 DEF Links
    <2> QED  BY <1>11, <2>3 DEF Links, Untrapped
  <1>12. CASE BuildFails  BY <1>12 DEF BuildFails, Untrapped
  <1>13. CASE Stamps
    <2>1. Want(request) \in Wants  BY DEF Want, Wants, Requests
    <2> QED  BY <1>13, <2>1 DEF Stamps, Untrapped
  <1>14. CASE RunsSuite
    <2>1. \A b \in binaries :
            [ran |-> b, asked |-> request, of |-> tree] \in [ran : Suites, asked : Requests, of : 0..MaxEdits]
      OBVIOUS
    <2> QED  BY <1>14, <2>1 DEF RunsSuite, Untrapped
  <1>15. CASE Leaves  BY <1>15 DEF Leaves, Restores, Untrapped
  <1>16. CASE Kill
    <2>1. killed' \in BOOLEAN  BY <1>16 DEF Kill
    <2>2. kills' \in 0..MaxKills  BY <1>16, CountUp, Zenon DEF Kill
    <2>3. UNCHANGED <<request, disk, target, report, tree, runs>> /\ pc' = "idle"
      BY <1>16 DEF Kill
    <2> QED  BY <2>1, <2>2, <2>3 DEF Untrapped
  <1>17. CASE Revert  BY <1>17 DEF Revert, Untrapped, CommittedSuite, CommittedImpl, Manifests
  <1>18. CASE Edit  BY <1>18 DEF Edit, Untrapped
  <1>19. CASE UNCHANGED vars  BY <1>19 DEF vars, Untrapped
  <1> QED
    BY <1>1, <1>2, <1>3, <1>4, <1>5, <1>6, <1>7, <1>8, <1>9, <1>10, <1>11, <1>12, <1>13,
       <1>14, <1>15, <1>16, <1>17, <1>18, <1>19 DEF Next

\* The manifests are changed by the steps that change them and by nothing else.
LEMMA ManifestStep ==
  ASSUME TypeOK, SuiteAsAsked, Restorable, ManifestsRestored, [Next]_vars
  PROVE  SuiteAsAsked' /\ Restorable' /\ ManifestsRestored'
  <1> USE DEF TypeOK, Goto, disk, SuiteAsAsked, Restorable, ManifestsRestored, Untrapped
  <1>1. CASE Invoke  BY <1>1 DEF Invoke
  <1>2. CASE SavesSuite  BY <1>2 DEF SavesSuite
  <1>3. CASE SavesImpl  BY <1>3 DEF SavesImpl
  <1>4. CASE PointsSuite
    <2>1. suite = [spec |-> "version", impl |-> None, flags |-> NoFlags]
      BY <1>4 DEF PointsSuite, CommittedSuite
    <2>2. suite' = [spec |-> "tree", impl |-> None, flags |-> NoFlags]
      BY <1>4, <2>1 DEF PointsSuite
    <2>3. suite'.spec = "tree" /\ suite'.impl = None /\ suite'.flags = NoFlags  BY <2>2
    <2>4. pc = "point suite" /\ pc' = "point impl" /\ UNCHANGED <<impl, suiteOrig, implOrig>>
      BY <1>4 DEF PointsSuite
    <2>5. SuiteAsAsked'  BY <2>3, <2>4
    <2>6. Restorable'  BY <2>4
    <2>7. ManifestsRestored'  BY <2>4
    <2> QED  BY <2>5, <2>6, <2>7
  <1>5. CASE PointsImpl  BY <1>5 DEF PointsImpl
  <1>6. CASE CarriesFlags  BY <1>6 DEF CarriesFlags, Manifests
  <1>7. CASE NamesImplementation  BY <1>7 DEF NamesImplementation, Manifests
  <1>8. CASE ChecksStamp  BY <1>8 DEF ChecksStamp
  <1>9. CASE DeletesSuites  BY <1>9 DEF DeletesSuites
  <1>10. CASE Compiles  BY <1>10 DEF Compiles
  <1>11. CASE Links  BY <1>11 DEF Links
  <1>12. CASE BuildFails  BY <1>12 DEF BuildFails
  <1>13. CASE Stamps  BY <1>13 DEF Stamps
  <1>14. CASE RunsSuite  BY <1>14 DEF RunsSuite
  <1>15. CASE Leaves
    BY <1>15, RequestsAssumption DEF Leaves, Restores, CommittedSuite, CommittedImpl
  <1>16. CASE Kill  BY <1>16 DEF Kill
  <1>17. CASE Revert  BY <1>17 DEF Revert
  <1>18. CASE Edit  BY <1>18 DEF Edit, counts
  <1>19. CASE UNCHANGED vars  BY <1>19 DEF vars, counts
  <1> QED
    BY <1>1, <1>2, <1>3, <1>4, <1>5, <1>6, <1>7, <1>8, <1>9, <1>10, <1>11, <1>12, <1>13,
       <1>14, <1>15, <1>16, <1>17, <1>18, <1>19 DEF Next

\* What lies under target is made by the build's two steps, and discarded by the
\* check and by the deletion; every other step leaves it as it is.
LEMMA TargetStep ==
  ASSUME TypeOK, SuiteAsAsked, MadeForStamp, MadeForRequest, SuitesAsAsked, [Next]_vars
  PROVE  MadeForStamp' /\ MadeForRequest' /\ SuitesAsAsked'
  <1> USE RequestsAssumption DEF Goto, disk, target
  <1> DEFINE Quiet == UNCHANGED <<objects, binaries, stamp>> /\ UNCHANGED <<request, tree>>
  <1>1. CASE Quiet /\ pc' \notin {"delete", "compile", "link", "stamp", "run"}
    BY <1>1 DEF MadeForStamp, MadeForRequest, SuitesAsAsked
  <1>2. CASE Invoke \/ Revert \/ Edit
    <2>1. UNCHANGED <<objects, binaries, stamp>>  BY <1>2 DEF Invoke, Revert, Edit
    <2>2. pc' \notin {"delete", "compile", "link", "stamp", "run"}
      BY <1>2 DEF Invoke, Revert, Edit
    <2> QED  BY <2>1, <2>2 DEF MadeForStamp, MadeForRequest, SuitesAsAsked
  <1>3. CASE SavesSuite \/ SavesImpl \/ PointsSuite \/ PointsImpl
    BY <1>1, <1>3 DEF SavesSuite, SavesImpl, PointsSuite, PointsImpl, counts
  <1>4. CASE CarriesFlags \/ NamesImplementation \/ BuildFails \/ Leaves \/ Kill
    BY <1>1, <1>4 DEF CarriesFlags, NamesImplementation, BuildFails, Leaves, Kill, counts
  <1>5. CASE ChecksStamp
    <2>1. pc' = "delete" /\ request' = request  BY <1>5 DEF ChecksStamp
    <2>2. CASE stamp = Want(request)
      <3>1. UNCHANGED <<objects, binaries, stamp>>  BY <1>5, <2>2 DEF ChecksStamp
      <3>2. stamp # None  BY <2>2 DEF Want, TypeOK, Requests
      <3> QED  BY <2>1, <2>2, <3>1, <3>2 DEF MadeForStamp, MadeForRequest, SuitesAsAsked, Want
    <2>3. CASE stamp # Want(request)
      <3>1. objects' = Unbuilt /\ stamp' = None  BY <1>5, <2>3 DEF ChecksStamp
      <3>2. \A d \in Deps : objects'[d] = None  BY <3>1 DEF Unbuilt
      <3> QED  BY <2>1, <3>1, <3>2 DEF MadeForStamp, MadeForRequest, SuitesAsAsked
    <2> QED  BY <2>2, <2>3
  <1>6. CASE DeletesSuites
    BY <1>6 DEF DeletesSuites, MadeForStamp, MadeForRequest, SuitesAsAsked, Want
  <1>7. CASE Compiles
    <2>1. pc = "compile" /\ pc' = "link" /\ UNCHANGED <<request, stamp, binaries>>
      BY <1>7 DEF Compiles
    <2>2. \A d \in Deps : objects'[d] \in {None, Want(request)}
      <3>1. [features |-> request.features, flags |-> suite.flags] = Want(request)
        BY <2>1 DEF SuiteAsAsked, Want
      <3>2. CASE objects[Resolved] # None
        BY <1>7, <2>1, <3>2 DEF Compiles, MadeForRequest
      <3>3. CASE objects[Resolved] = None
        <4>1. objects' = [objects EXCEPT ![Resolved] = Want(request)]
          BY <1>7, <3>1, <3>3 DEF Compiles
        <4> QED  BY <2>1, <4>1 DEF MadeForRequest, TypeOK
      <3> QED  BY <3>2, <3>3
    <2>3. Want(request)' = Want(request)  BY <2>1 DEF Want
    <2> QED  BY <2>1, <2>2, <2>3 DEF MadeForStamp, MadeForRequest, SuitesAsAsked
  <1>8. CASE Links
    <2>1. pc = "link" /\ pc' = "stamp" /\ UNCHANGED <<request, stamp, objects, tree>>
      BY <1>8 DEF Links, counts
    <2>2. Resolved = [spec |-> "tree", impl |-> request.impl]
      BY <2>1 DEF SuiteAsAsked, Resolved
    <2>3. Resolved \in Deps  BY DEF Resolved, Deps, TypeOK, Manifests
    <2>4. objects[Resolved] = Want(request)
      BY <1>8, <2>1, <2>3 DEF Links, MadeForRequest
    <2>5. binaries' = {Asked}
      BY <1>8, <2>1, <2>2, <2>4 DEF Links, SuitesAsAsked, Asked
    <2>6. Asked' = Asked  BY <2>1 DEF Asked, Want
    <2> QED
      BY <2>1, <2>5, <2>6 DEF MadeForStamp, MadeForRequest, SuitesAsAsked, Want
  <1>9. CASE Stamps
    <2>1. pc = "stamp" /\ pc' = "run" /\ UNCHANGED <<request, objects, binaries, tree>>
      BY <1>9 DEF Stamps, counts
    <2>2. stamp' = Want(request)  BY <1>9 DEF Stamps
    <2>3. Asked' = Asked /\ Want(request)' = Want(request)  BY <2>1 DEF Asked, Want
    <2> QED  BY <2>1, <2>2, <2>3 DEF MadeForStamp, MadeForRequest, SuitesAsAsked
  <1>10. CASE RunsSuite  BY <1>1, <1>10 DEF RunsSuite, counts
  <1>11. CASE UNCHANGED vars
    BY <1>11 DEF vars, counts, MadeForStamp, MadeForRequest, SuitesAsAsked, Asked, Want
  <1> QED
    BY <1>2, <1>3, <1>4, <1>5, <1>6, <1>7, <1>8, <1>9, <1>10, <1>11 DEF Next

LEMMA ReportStep ==
  ASSUME SuitesAsAsked, ReportsWhatWasAsked, [Next]_vars
  PROVE  ReportsWhatWasAsked'
  <1> USE DEF Goto
  <1>1. CASE RunsSuite
    <2>1. binaries = {Asked}  BY <1>1 DEF RunsSuite, SuitesAsAsked
    <2>2. report' \in {[ran |-> Asked, asked |-> request, of |-> tree], report}
      BY <1>1, <2>1 DEF RunsSuite
    <2> QED  BY <2>2 DEF ReportsWhatWasAsked, Asked
  <1>2. CASE Invoke  BY <1>2 DEF Invoke, ReportsWhatWasAsked
  <1>3. CASE report' = report  BY <1>3 DEF ReportsWhatWasAsked
  <1>4. CASE ~RunsSuite /\ ~Invoke
    BY <1>3, <1>4 DEF Next, vars, SavesSuite, SavesImpl, PointsSuite, PointsImpl, CarriesFlags,
         NamesImplementation, ChecksStamp, DeletesSuites, Compiles, Links, BuildFails, Stamps,
         Leaves, Kill, Revert, Edit
  <1> QED  BY <1>1, <1>2, <1>4

LEMMA Invariance == Spec => []IInv
  <1>1. IInv /\ [Next]_vars => IInv'
    BY TypeStep, ManifestStep, TargetStep, ReportStep DEF IInv
  <1> QED  BY <1>1, InitIInv, PTL DEF Spec

-----------------------------------------------------------------------------
\* The script is at one of its steps and holds only suites and manifests it can
\* have made or found (run-conformance.sh:44-277).
THEOREM AlwaysTypeOK == Spec => []TypeOK
  <1>1. IInv => TypeOK  BY DEF IInv
  <1> QED  BY <1>1, Invariance, PTL

\* A suite that is run is the one asked for: its features, its flags, its
\* arrangement and this tree, whatever the runs before left under target
\* (run-conformance.sh:151-203).
THEOREM AlwaysReportsWhatWasAsked == Spec => []ReportsWhatWasAsked
  <1>1. IInv => ReportsWhatWasAsked  BY DEF IInv
  <1> QED  BY <1>1, Invariance, PTL

\* A build that succeeded leaves exactly one suite to be found
\* (run-conformance.sh:204-246).
THEOREM AlwaysSuiteIsUnambiguous == Spec => []SuiteIsUnambiguous
  <1>1. IInv => SuiteIsUnambiguous
    BY FS_Singleton DEF IInv, SuitesAsAsked, SuiteIsUnambiguous
  <1> QED  BY <1>1, Invariance, PTL

\* Both manifests are as committed after every run that was not killed, however it
\* ended (run-conformance.sh:60-81).
THEOREM AlwaysManifestsRestored == Spec => []ManifestsRestored
  <1>1. IInv => ManifestsRestored  BY DEF IInv
  <1> QED  BY <1>1, Invariance, PTL
=============================================================================
