----------------------------- MODULE SuiteAlone -----------------------------
(* The conformance suite by itself (conformance/src/main.cpp, suite.cpp,      *)
(* report.cpp): its sections, run one call after another, and what it holds   *)
(* of what it was given, with nothing of the environment it runs in. A call   *)
(* is answered anything that its source distinguishes, any of them may be     *)
(* refused, and the suite may be killed and run again at any time and as      *)
(* often as may be. ConformanceSuite puts this program into an environment,   *)
(* beside the copies it starts, and implements this specification: what holds *)
(* of it here is owed to its source alone.                                    *)
EXTENDS Blocks

CONSTANTS Program,       \* the sections: sequences of blocks of calls
          MayUse,        \* blocks that use what they were told they did not obtain
          MayHold,       \* variables whose handle may be held at the end
          MaySayNothing  \* blocks left without a word of what they did not observe

VARIABLES pc,      \* where the suite is: section, block and step
          known,   \* the variables of this block that hold TRUE
          holds,   \* the variables whose handle is held
          report,  \* the counts of report.cpp, as far as the verdict tells them apart
          verdict  \* the status the suite ended with, or 9 while it runs
alone == <<pc, known, holds, report, verdict>>

\* report.refused is the variable a refused call of this block was to fill, and
\* report.said whether the block has said anything since; report.silent whether
\* a block ended without; report.given whether the suite was given something
\* where it was to be refused.
NoReport == [held |-> FALSE, failed |-> FALSE, refused |-> "", said |-> FALSE, silent |-> FALSE,
             given |-> FALSE]
Beginning == <<1, 1, 1>>
End == <<Len(Program) + 1, 1, 1>>

Init == pc = Beginning /\ known = {} /\ holds = {} /\ report = NoReport /\ verdict = 9

-----------------------------------------------------------------------------
Block == Program[pc[1]][pc[2]]
Here  == Block[pc[3]]
Running == verdict = 9 /\ pc # End

\* Mutant: a section goes on after its last block.
NextBlockRunsOn == IF pc[2] <= Len(Program[pc[1]]) THEN <<pc[1], pc[2] + 1, 1>> ELSE <<pc[1] + 1, 1, 1>>

NextBlock == IF pc[2] < Len(Program[pc[1]]) THEN <<pc[1], pc[2] + 1, 1>> ELSE <<pc[1] + 1, 1, 1>>
After(i) ==
  IF Here.do = "leave" THEN <<pc[1] + 1, 1, 1>>
  ELSE IF Here.do = "return" \/ i > Len(Block) THEN NextBlock
  ELSE <<pc[1], pc[2], i>>

\* Where the suite goes on, vs being what it knows then; whether its block ends.
Onward(vs) == After(NextIn(Block, pc[3] + 1, vs))
EndsWith(next) == <<next[1], next[2]>> # <<pc[1], pc[2]>>

\* Mutant: what was said of the block is forgotten at its next call.
ReportedForgets(r, refused, ends) ==
  LET said == Says(Here, r, refused, FALSE)
  IN [held |-> report.held \/ (Here.obs /\ ~Fails(Here, r)), failed |-> report.failed \/ Fails(Here, r),
      refused |-> IF ends THEN "" ELSE refused, said |-> ~ends /\ said,
      silent |-> report.silent \/ (ends /\ refused # "" /\ ~said /\ Unmade(Block, Here, refused)),
      given |-> report.given \/ Exceeds(Here, r)]

\* observe, unobserved: what the report says of an answer; what is known of a
\* block at its end.
Reported(r, refused, ends) ==
  LET said == Says(Here, r, refused, report.said)
  IN [held |-> report.held \/ (Here.obs /\ ~Fails(Here, r)), failed |-> report.failed \/ Fails(Here, r),
      refused |-> IF ends THEN "" ELSE refused, said |-> ~ends /\ said,
      silent |-> report.silent \/ (ends /\ refused # "" /\ ~said /\ Unmade(Block, Here, refused)),
      given |-> report.given \/ Exceeds(Here, r)]

\* The suite goes on with answer r; its variables go with the block.
Answered(r, refused) ==
  \E vs \in {Kept(Here, r, known)} : \E next \in {Onward(vs)} :
    /\ pc' = next
    /\ report' = Reported(r, refused, EndsWith(next))
    /\ known' = IF EndsWith(next) THEN {} ELSE vs
    /\ UNCHANGED verdict

-----------------------------------------------------------------------------
SuiteStep ==
  /\ Running
  /\ \E r \in AnswersTo(Here, known) :
       Answered(r, report.refused) /\ holds' = HoldsAfter(Here, r, holds)

\* A call that obtains, makes or writes something is refused.
SuiteRefused ==
  /\ Running /\ Here.do \in Refusable
  /\ Answered(NoMemory, Here.as)
  /\ UNCHANGED holds

\* The suite is killed, and run again.
Kill ==
  /\ Running
  /\ pc' = Beginning /\ known' = {} /\ holds' = {} /\ report' = NoReport
  /\ UNCHANGED verdict

\* summarise, and the status main returns.
summarise ==
  /\ verdict = 9 /\ pc = End
  /\ verdict' = CASE ~report.held /\ ~report.failed -> 2
                  [] report.failed -> 1
                  [] OTHER -> 0
  /\ UNCHANGED <<pc, known, holds, report>>

Next == SuiteStep \/ SuiteRefused \/ Kill \/ summarise
Spec == Init /\ [][Next]_alone

-----------------------------------------------------------------------------
\* A handle is not lost to another kept in its place, nor used before it is held
\* or after it is released, on any way through a block; but that a block of
\* MayUse uses what its source knows it did not obtain. Of a suite that was given
\* what it was to be refused nothing is said: its source lets go of a program it
\* was given so (process.cpp, lines 213 and 251, which the sections leave out) and
\* of nothing else.
HandlesAreKept ==
  Running /\ ~report.given => KeepsHandles(Here, known, holds, Block \in MayUse)

\* What the suite obtained it has released when it ends, whatever it was refused
\* on the way (every block of the sections, on every way out of it), but for the
\* variables of MayHold.
HoldsNothingAtItsEnd == verdict # 9 /\ ~report.given => holds \subseteq MayHold

\* A block that a refusal keeps from an observation says so (conformance/README.md:
\* "Every unmade observation therefore carries the reason it was not made"),
\* apart from the blocks that do not.
UnmadeIsReported == [][report'.silent /\ ~report.silent => Block \in MaySayNothing]_alone
=============================================================================
