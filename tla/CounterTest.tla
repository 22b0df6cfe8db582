---------------------------- MODULE CounterTest ----------------------------
(***************************************************************************)
(* The observation the conformance suite makes of the mutex: run() starts  *)
(* the contexts, joins them and compares the counter with what they should *)
(* have made (conformance/src/sections/task.cpp).                          *)
(***************************************************************************)
EXTENDS Mutex, FiniteSets

kContexts == Cardinality(Contexts)

(* t[i] is the handle of context i.                                         *)
ASSUME HandleAssumption == /\ IsFiniteSet(Contexts)
                           /\ Contexts = 0..(kContexts - 1)

VARIABLE main           (* where run() is, and its locals                  *)

testVars == <<lockVars, main>>

Init ==
  /\ MutexInit
  /\ main = [pc |-> "start", i |-> 0, started |-> 0, held |-> FALSE]

(* for (i = 0; i < kContexts; ++i) if (start(&t[i]) == kal_ok) ++started    *)
MainStarts ==
  /\ main.pc = "start" /\ main.i < kContexts
  /\ Start(main.i)
  /\ main' = [main EXCEPT !.i = @ + 1, !.started = @ + 1]

(* The environment has no room for one more context.                        *)
MainFailsToStart ==
  /\ main.pc = "start" /\ main.i < kContexts
  /\ main' = [main EXCEPT !.i = @ + 1]
  /\ UNCHANGED lockVars

MainHasStarted ==
  /\ main.pc = "start" /\ main.i = kContexts
  /\ main' = [main EXCEPT !.pc = "join", !.i = 0]
  /\ UNCHANGED lockVars

(* A join of a handle no start has filled has no context to wait for.       *)
Joinable(i) == pc[i] = "unstarted" \/ Finished(i)

(* for (i = 0; i < started; ++i) kal_task_join(t[i])                        *)
MainJoins ==
  /\ main.pc = "join" /\ main.i < main.started
  /\ Joinable(main.i)
  /\ main' = [main EXCEPT !.i = @ + 1]
  /\ UNCHANGED lockVars

MainObserves ==
  /\ main.pc = "join" /\ main.i = main.started
  /\ main' = [main EXCEPT !.pc = "observed",
                          !.held = counter = main.started * Increments]
  /\ UNCHANGED lockVars

MainRuns == \/ MainStarts \/ MainFailsToStart \/ MainHasStarted
            \/ MainJoins \/ MainObserves

Next == \/ MainRuns
        \/ \E c \in Contexts : Runs(c) /\ UNCHANGED main
        \/ SpuriousWake /\ UNCHANGED main

(* run() and every started context that is not suspended keep running.      *)
Spec == /\ Init /\ [][Next]_testVars
        /\ WF_testVars(MainRuns)
        /\ \A c \in Contexts : WF_testVars(Runs(c) /\ UNCHANGED main)

-----------------------------------------------------------------------------
(* Properties                                                               *)

(* Where every context started, run() reads the counter after every one of  *)
(* them has left its last unlock().                                         *)
JoinsEveryContext ==
  main.pc = "observed" /\ main.started = kContexts =>
    \A c \in Contexts : Finished(c)

(* Where every context started, the count run() reads is exact: it is read  *)
(* after the last increment, and no increment was lost.                     *)
CountIsExact == main.pc = "observed" /\ main.started = kContexts => main.held

(* "a mutex built from the suspension primitive loses no increment": what   *)
(* run() says of a sound mutex, however many contexts started.              *)
ObservationIsSound == main.pc = "observed" => main.held

(* run() comes to its observation: every context leaves every lock().       *)
TestCompletes == <>(main.pc = "observed")

=============================================================================
