------------------------- MODULE CounterTestProofs -------------------------
(***************************************************************************)
(* Theorems of CounterTest: what is proved of the mutex holds of the       *)
(* contexts run() starts, and run() reads the counter after they are done. *)
(***************************************************************************)
EXTENDS CounterTest, MutexProofs, FiniteSetTheorems

Mains == [pc : {"start", "join", "observed"}, i : Nat, started : Nat, held : BOOLEAN]

LEMMA Handles == kContexts \in Nat /\ Contexts \subseteq Nat /\ \A c \in Contexts : c < kContexts
<1>1. kContexts \in Nat
  BY HandleAssumption, FS_CardinalityType DEF kContexts
<1>2. QED
  BY <1>1, HandleAssumption

(* Every step of the test is a step of the mutex or leaves it alone.        *)
LEMMA TestUsesMutex == main \in Mains /\ [Next]_testVars => [MutexNext]_lockVars
<1> SUFFICES ASSUME main \in Mains, [Next]_testVars PROVE [MutexNext]_lockVars
  OBVIOUS
<1>1. CASE MainStarts
  <2>1. main.i \in Contexts
    BY <1>1, HandleAssumption, Handles DEF MainStarts, Mains
  <2>2. QED
    BY <1>1, <2>1 DEF MainStarts, MutexNext
<1>2. CASE MainFailsToStart \/ MainHasStarted \/ MainJoins \/ MainObserves
  BY <1>2 DEF MainFailsToStart, MainHasStarted, MainJoins, MainObserves
<1>3. CASE (\E c \in Contexts : Runs(c)) \/ SpuriousWake
  BY <1>3 DEF MutexNext
<1>4. CASE UNCHANGED testVars
  BY <1>4 DEF testVars
<1>5. QED
  BY <1>1, <1>2, <1>3, <1>4 DEF Next, MainRuns

LEMMA MainKeepsType == main \in Mains /\ [Next]_testVars => main' \in Mains
<1> SUFFICES ASSUME main \in Mains, [Next]_testVars PROVE main' \in Mains
  OBVIOUS
<1>1. CASE MainStarts \/ MainFailsToStart \/ MainHasStarted \/ MainJoins
  <2>1. /\ main.i + 1 \in Nat /\ main.started + 1 \in Nat
        /\ \/ main' = [main EXCEPT !.i = main.i + 1, !.started = main.started + 1]
           \/ main' = [main EXCEPT !.i = main.i + 1]
           \/ main' = [main EXCEPT !.pc = "join", !.i = 0]
    BY <1>1 DEF Mains, MainStarts, MainFailsToStart, MainHasStarted, MainJoins
  <2>2. CASE main' = [main EXCEPT !.i = main.i + 1, !.started = main.started + 1]
    BY <2>1, <2>2 DEF Mains
  <2>3. CASE main' = [main EXCEPT !.i = main.i + 1]
    BY <2>1, <2>3 DEF Mains
  <2>4. CASE main' = [main EXCEPT !.pc = "join", !.i = 0]
    BY <2>4 DEF Mains
  <2>5. QED
    BY <2>1, <2>2, <2>3, <2>4
<1>2. CASE MainObserves
  <2>1. PICK held \in BOOLEAN : main' = [main EXCEPT !.pc = "observed", !.held = held]
    BY <1>2 DEF MainObserves
  <2>2. QED
    BY <2>1 DEF Mains
<1>3. CASE UNCHANGED main
  BY <1>3
<1>4. QED
  BY <1>1, <1>2, <1>3 DEF Next, MainRuns, testVars

LEMMA AlwaysIInvInTest == Spec => [](IInv /\ main \in Mains)
<1>1. Init => IInv /\ main \in Mains
  BY InitIInv DEF Init, Mains
<1>2. IInv /\ main \in Mains /\ [Next]_testVars => (IInv /\ main \in Mains)'
  BY Inductive, TestUsesMutex, MainKeepsType
<1>3. QED
  BY <1>1, <1>2, PTL DEF Spec

(* No two of the contexts run() starts are between lock() and unlock().     *)
THEOREM TestMutualExclusion == Spec => []MutualExclusion
<1>1. IInv => MutualExclusion
  BY DEF IInv
<1>2. QED
  BY <1>1, AlwaysIInvInTest, PTL

(* The contexts run() starts lose no increment, whichever of them start.    *)
THEOREM TestRefinesAtomicCounter == Spec => ImplementsAtomicCounter
<1>1. Init => Abstract!CounterInit
  BY CounterStarts DEF Init
<1>2. IInv /\ main \in Mains /\ [Next]_testVars => [Abstract!CounterNext]_(Abstract!counterVars)
  BY CounterSteps, TestUsesMutex
<1>3. QED
  BY <1>1, <1>2, AlwaysIInvInTest, PTL
  DEF Spec, ImplementsAtomicCounter, Abstract!CounterSpec

-----------------------------------------------------------------------------
(* run() joins every context it started, where every start succeeded.       *)

JoinInv ==
  /\ main \in Mains
  /\ main.started <= kContexts
  /\ main.pc = "start" =>
       /\ main.started <= main.i /\ main.i <= kContexts
       /\ main.started = main.i =>
            \A c \in Contexts : c < main.i => pc[c] # "unstarted"
  /\ main.pc = "join" /\ main.started = kContexts =>
       /\ \A c \in Contexts : pc[c] # "unstarted"
       /\ \A c \in Contexts : c < main.i => Finished(c)
  /\ JoinsEveryContext

(* A context that has been started stays started, and one that has left its *)
(* last unlock() has left it for good.                                      *)
LEMMA StaysFinished ==
  ASSUME TypeOK, [MutexNext]_lockVars, NEW c \in Contexts
  PROVE  /\ pc[c] # "unstarted" => pc'[c] # "unstarted"
         /\ Finished(c) => Finished(c)'
<1>1. ASSUME NEW d \in Contexts, Start(d) \/ Runs(d)
      PROVE  /\ pc[c] # "unstarted" => pc'[c] # "unstarted"
             /\ Finished(c) => Finished(c)'
  <2>1. CASE d = c
    BY <1>1, <2>1
    DEF TypeOK, Finished, Goto, Start, Runs, TryLock, Exchange, Wait, Resume,
        LoadCounter, StoreCounter, Unlock, Wake
  <2>2. CASE d # c
    BY <1>1, <2>2
    DEF TypeOK, Finished, Goto, Start, Runs, TryLock, Exchange, Wait, Resume,
        LoadCounter, StoreCounter, Unlock, Wake
  <2>3. QED
    BY <2>1, <2>2
<1>2. CASE SpuriousWake \/ UNCHANGED lockVars
  BY <1>2 DEF SpuriousWake, lockVars, Finished
<1>3. QED
  BY <1>1, <1>2 DEF MutexNext

LEMMA JoinStarts == Init => JoinInv
  BY Handles DEF Init, MutexInit, JoinInv, Mains, JoinsEveryContext

LEMMA JoinSteps == IInv /\ JoinInv /\ [Next]_testVars => JoinInv'
<1> SUFFICES ASSUME IInv, JoinInv, [Next]_testVars PROVE JoinInv'
  OBVIOUS
<1>1. TypeOK /\ main \in Mains
  BY DEF IInv, JoinInv
<1>2. \A c \in Contexts : /\ pc[c] # "unstarted" => pc'[c] # "unstarted"
                          /\ Finished(c) => Finished(c)'
  BY <1>1, TestUsesMutex, StaysFinished
<1>3. CASE MainStarts
  <2>1. /\ main' = [main EXCEPT !.i = main.i + 1, !.started = main.started + 1]
        /\ main.pc = "start" /\ main.i < kContexts
        /\ main.i + 1 \in Nat /\ main.started + 1 \in Nat
    BY <1>1, <1>3 DEF MainStarts, Mains
  <2>2. /\ main' \in Mains /\ main'.pc = "start"
        /\ main'.i = main.i + 1 /\ main'.started = main.started + 1
    BY <1>1, <2>1 DEF Mains
  <2>3. main.i \in Contexts /\ pc'[main.i] = "try"
    <3>1. main.i \in Contexts
      BY <1>1, <2>1, HandleAssumption, Handles DEF Mains
    <3>2. QED
      BY <1>1, <1>3, <3>1 DEF MainStarts, Start, Goto, TypeOK
  <2>4. ASSUME main'.started = main'.i, NEW c \in Contexts, c < main'.i
        PROVE  pc'[c] # "unstarted"
    <3>1. main.started = main.i
      BY <1>1, <2>2, <2>4 DEF Mains
    <3>2. CASE c = main.i
      BY <2>3, <3>2
    <3>3. CASE c # main.i
      <4>1. c < main.i
        BY <1>1, <2>2, <2>4, <3>3, Handles DEF Mains
      <4>2. QED
        BY <1>2, <2>1, <3>1, <4>1 DEF JoinInv
    <3>4. QED
      BY <3>2, <3>3
  <2>5. main'.started <= main'.i /\ main'.i <= kContexts
    BY <1>1, <2>1, <2>2, Handles DEF JoinInv, Mains
  <2>6. QED
    BY <2>2, <2>4, <2>5, <1>1, Handles DEF JoinInv, JoinsEveryContext, Mains
<1>4. CASE MainFailsToStart
  <2>1. /\ main' = [main EXCEPT !.i = @ + 1]
        /\ main.pc = "start" /\ main.i < kContexts
    BY <1>4 DEF MainFailsToStart
  <2>2. /\ main' \in Mains /\ main'.pc = "start"
        /\ main'.i = main.i + 1 /\ main'.started = main.started
    BY <1>1, <2>1 DEF Mains
  <2>3. main'.started < main'.i /\ main'.i <= kContexts
    BY <1>1, <2>1, <2>2, Handles DEF JoinInv, Mains
  <2>4. QED
    BY <1>1, <2>2, <2>3, Handles DEF JoinInv, JoinsEveryContext, Mains
<1>5. CASE MainHasStarted
  <2>1. /\ main' = [main EXCEPT !.pc = "join", !.i = 0]
        /\ main.pc = "start" /\ main.i = kContexts /\ pc' = pc
    BY <1>5 DEF MainHasStarted, lockVars
  <2>2. /\ main' \in Mains /\ main'.pc = "join"
        /\ main'.i = 0 /\ main'.started = main.started
    BY <1>1, <2>1 DEF Mains
  <2>3. ASSUME main.started = kContexts, NEW c \in Contexts PROVE pc'[c] # "unstarted"
    BY <2>1, <2>3, Handles DEF JoinInv
  <2>4. QED
    BY <2>2, <2>3, Handles DEF JoinInv, JoinsEveryContext
<1>6. CASE MainJoins
  <2>1. /\ main' = [main EXCEPT !.i = @ + 1] /\ UNCHANGED lockVars
        /\ main.pc = "join" /\ main.i < main.started /\ Joinable(main.i)
    BY <1>6 DEF MainJoins
  <2>2. /\ main' \in Mains /\ main'.pc = "join"
        /\ main'.i = main.i + 1 /\ main'.started = main.started
    BY <1>1, <2>1 DEF Mains
  <2>3. ASSUME main.started = kContexts, NEW c \in Contexts, c < main'.i
        PROVE  Finished(c)'
    <3>1. CASE c = main.i
      <4>1. pc[c] # "unstarted"
        BY <2>1, <2>3 DEF JoinInv
      <4>2. QED
        BY <1>2, <2>1, <3>1, <4>1 DEF Joinable
    <3>2. CASE c # main.i
      <4>1. c < main.i
        BY <1>1, <2>2, <2>3, <3>2, Handles DEF Mains
      <4>2. QED
        BY <1>2, <2>1, <2>3, <4>1 DEF JoinInv
    <3>3. QED
      BY <3>1, <3>2
  <2>4. QED
    BY <1>2, <2>1, <2>2, <2>3 DEF JoinInv, JoinsEveryContext
<1>7. CASE MainObserves
  <2>1. /\ main' = [main EXCEPT !.pc = "observed",
                                !.held = counter = main.started * Increments]
        /\ main.pc = "join" /\ main.i = main.started
    BY <1>7 DEF MainObserves
  <2>2. /\ main' \in Mains /\ main'.pc = "observed"
        /\ main'.i = main.i /\ main'.started = main.started
    <3>1. (counter = main.started * Increments) \in BOOLEAN
      OBVIOUS
    <3>2. QED
      BY <1>1, <2>1, <3>1 DEF Mains
  <2>3. ASSUME main.started = kContexts, NEW c \in Contexts PROVE Finished(c)'
    BY <1>2, <2>1, <2>3, Handles DEF JoinInv
  <2>4. QED
    BY <2>2, <2>3 DEF JoinInv, JoinsEveryContext
<1>8. CASE UNCHANGED main
  BY <1>2, <1>8 DEF JoinInv, JoinsEveryContext
<1>9. QED
  BY <1>3, <1>4, <1>5, <1>6, <1>7, <1>8 DEF Next, MainRuns, testVars

(* Where every context started, the counter is read after the last of their *)
(* increments: the joins cover exactly the contexts that run.               *)
THEOREM AlwaysJoinsEveryContext == Spec => []JoinsEveryContext
<1>1. Init => JoinInv
  BY JoinStarts
<1>2. IInv /\ JoinInv /\ [Next]_testVars => JoinInv'
  BY JoinSteps
<1>3. JoinInv => JoinsEveryContext
  BY DEF JoinInv
<1>4. QED
  BY <1>1, <1>2, <1>3, AlwaysIInvInTest, PTL DEF Spec

-----------------------------------------------------------------------------
(* The count run() reads is exact: the counter is the number of increments  *)
(* the contexts have made, numbered one by one.                             *)

IncrementsMade == {x \in Contexts \X (1..Increments) : x[2] <= Made(x[1])}
EachIsCounted == Cardinality(IncrementsMade) = counter

LEMMA MadeIsBounded ==
  ASSUME IInv, NEW c \in Contexts
  PROVE  /\ Made(c) \in 0..Increments
         /\ Finished(c) => Made(c) = Increments
BY IncrementsAssumption
DEF IInv, TypeOK, LocksToIncrement, Holding, Made, Finished

LEMMA AllIncrements ==
  /\ IsFiniteSet(Contexts \X (1..Increments))
  /\ Cardinality(Contexts \X (1..Increments)) = kContexts * Increments
<1>1. IsFiniteSet(1..Increments) /\ Cardinality(1..Increments) = Increments
  BY IncrementsAssumption, FS_Interval
<1>2. QED
  BY <1>1, HandleAssumption, FS_Product DEF kContexts

LEMMA NoneIsCounted == MutexInit => EachIsCounted
<1> SUFFICES ASSUME MutexInit PROVE EachIsCounted
  OBVIOUS
<1>1. ASSUME NEW c \in Contexts PROVE Made(c) = 0
  <2>1. pc[c] = "unstarted" /\ left[c] = Increments
    BY DEF MutexInit
  <2>2. QED
    BY <2>1, IncrementsAssumption DEF Made
<1>2. IncrementsMade = {}
  BY <1>1 DEF IncrementsMade
<1>3. QED
  BY <1>2, FS_EmptySet DEF EachIsCounted, MutexInit

(* A store of the counter adds the one increment its context has made by it. *)
LEMMA OneIsCounted == IInv /\ EachIsCounted /\ [MutexNext]_lockVars => EachIsCounted'
<1> SUFFICES ASSUME IInv, EachIsCounted, [MutexNext]_lockVars PROVE EachIsCounted'
  OBVIOUS
<1> DEFINE made == [c \in Contexts |-> Made(c)]
<1>1. IInv'
  BY Inductive
<1>2. Abstract!CounterNext \/ (counter' = counter /\ made' = made)
  BY CounterSteps DEF Abstract!counterVars
<1>3. CASE counter' = counter /\ made' = made
  <2>1. \A c \in Contexts : Made(c)' = Made(c)
    <3>1. \A c \in Contexts : made[c] = Made(c) /\ made'[c] = Made(c)'
      OBVIOUS
    <3>2. QED
      BY <1>3, <3>1
  <2>2. IncrementsMade' = IncrementsMade
    BY <2>1 DEF IncrementsMade
  <2>3. QED
    BY <1>3, <2>2 DEF EachIsCounted
<1>4. CASE Abstract!CounterNext
  <2>1. PICK c \in Contexts : counter' = counter + 1 /\ made' = [made EXCEPT ![c] = @ + 1]
    BY <1>4 DEF Abstract!CounterNext, Abstract!Increment
  <2>2. \A d \in Contexts : Made(d)' = IF d = c THEN Made(c) + 1 ELSE Made(d)
    <3>1. \A d \in Contexts : made[d] = Made(d) /\ made'[d] = Made(d)'
      OBVIOUS
    <3>2. QED
      BY <2>1, <3>1
  <2>3. Made(c) \in 0..Increments /\ Made(c) + 1 \in 1..Increments
    <3>1. Made(c) \in 0..Increments
      BY MadeIsBounded
    <3>2. Made(c)' \in 0..Increments
      BY <1>1, IncrementsAssumption
      DEF IInv, TypeOK, LocksToIncrement, Holding, Made
    <3>3. Made(c)' = Made(c) + 1
      BY <2>2
    <3>4. QED
      BY <3>1, <3>2, <3>3, IncrementsAssumption
  <2>4. IncrementsMade' = IncrementsMade \union {<<c, Made(c) + 1>>}
    <3>1. ASSUME NEW d \in Contexts, NEW k \in 1..Increments
          PROVE  k <= Made(d)' <=> k <= Made(d) \/ <<d, k>> = <<c, Made(c) + 1>>
      <4>1. CASE d = c
        BY <2>2, <2>3, <4>1, IncrementsAssumption
      <4>2. CASE d # c
        BY <2>2, <4>2
      <4>3. QED
        BY <4>1, <4>2
    <3>2. QED
      BY <2>3, <3>1 DEF IncrementsMade
  <2>5. <<c, Made(c) + 1>> \notin IncrementsMade
    BY <2>3, IncrementsAssumption DEF IncrementsMade
  <2>6. IsFiniteSet(IncrementsMade)
    BY AllIncrements, FS_Subset DEF IncrementsMade
  <2>7. QED
    BY <2>1, <2>4, <2>5, <2>6, FS_AddElement DEF EachIsCounted
<1>5. QED
  BY <1>2, <1>3, <1>4

(* Once every context is done, each has made all of its increments.         *)
LEMMA AllAreCounted ==
  ASSUME IInv, EachIsCounted, \A c \in Contexts : Finished(c)
  PROVE  counter = kContexts * Increments
<1>1. \A c \in Contexts : Made(c) = Increments
  BY MadeIsBounded
<1>2. IncrementsMade = Contexts \X (1..Increments)
  BY <1>1, IncrementsAssumption DEF IncrementsMade
<1>3. QED
  BY <1>2, AllIncrements DEF EachIsCounted

CountInv == JoinInv /\ EachIsCounted /\ CountIsExact

LEMMA CountSteps == IInv /\ CountInv /\ [Next]_testVars => CountInv'
<1> SUFFICES ASSUME IInv, CountInv, [Next]_testVars PROVE CountInv'
  OBVIOUS
<1>1. JoinInv'
  BY JoinSteps DEF CountInv
<1>2. EachIsCounted'
  BY OneIsCounted, TestUsesMutex DEF CountInv, JoinInv
<1>3. CASE MainObserves
  <2>1. /\ main' = [main EXCEPT !.pc = "observed",
                                !.held = counter = main.started * Increments]
        /\ main.pc = "join" /\ main.i = main.started
        /\ main \in Mains
    BY <1>3 DEF MainObserves, CountInv, JoinInv
  <2>2. main'.held = (counter = main.started * Increments) /\ main'.started = main.started
    BY <2>1 DEF Mains
  <2>3. ASSUME main.started = kContexts PROVE counter = kContexts * Increments
    <3>1. \A c \in Contexts : Finished(c)
      BY <2>1, <2>3, Handles DEF CountInv, JoinInv
    <3>2. QED
      BY <3>1, AllAreCounted DEF CountInv
  <2>4. CountIsExact'
    BY <2>2, <2>3 DEF CountIsExact
  <2>5. QED
    BY <1>1, <1>2, <2>4 DEF CountInv
<1>4. CASE main'.pc # "observed" \/ UNCHANGED main
  BY <1>1, <1>2, <1>4 DEF CountInv, CountIsExact
<1>5. CASE MainStarts \/ MainFailsToStart \/ MainHasStarted \/ MainJoins
  <2>1. main \in Mains /\ main.pc # "observed"
    BY <1>5 DEF MainStarts, MainFailsToStart, MainHasStarted, MainJoins, CountInv, JoinInv
  <2>2. main'.pc # "observed"
    BY <1>5, <2>1 DEF MainStarts, MainFailsToStart, MainHasStarted, MainJoins, Mains
  <2>3. QED
    BY <1>4, <2>2
<1>6. QED
  BY <1>3, <1>4, <1>5 DEF Next, MainRuns, testVars

(* Where every context started, run() reads the number of increments they   *)
(* were to make, for every number of contexts and of increments.            *)
THEOREM AlwaysCountIsExact == Spec => []CountIsExact
<1>1. Init => CountInv
  BY JoinStarts, NoneIsCounted DEF Init, CountInv, CountIsExact
<1>2. IInv /\ CountInv /\ [Next]_testVars => CountInv'
  BY CountSteps
<1>3. CountInv => CountIsExact
  BY DEF CountInv
<1>4. QED
  BY <1>1, <1>2, <1>3, AlwaysIInvInTest, PTL DEF Spec

=============================================================================
