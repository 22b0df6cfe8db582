------------------------ MODULE PortableMutexProofs ------------------------
(***************************************************************************)
(* Theorems of PortableMutex, for every set of contexts and every number of *)
(* increments.                                                             *)
(***************************************************************************)
EXTENDS PortableMutex, TLAPS

(* A context is suspended only where it waits, holds the counter's value    *)
(* from its load to its store, and locks only for an increment to make.     *)
SleepersWait == \A c \in Contexts : asleep[c] # Task!Awake => pc[c] = "asleep"
SeenIsCurrent == \A c \in Contexts : pc[c] = "store" => seen[c] = counter
LocksToIncrement == \A c \in Contexts :
  pc[c] \in Acquiring \union {"load", "store", "release"} => left[c] > 0

IInv == /\ TypeOK /\ MutualExclusion /\ NoSleeperForgotten
        /\ SleepersWait /\ SeenIsCurrent /\ LocksToIncrement

LEMMA InitIInv == Init => IInv
<1> SUFFICES ASSUME Init PROVE IInv
  OBVIOUS
<1>1. TypeOK
  BY IncrementsAssumption
  DEF Init, TypeOK, At, Task!SleepInit, Task!SleepTypeOK
<1>2. MutualExclusion /\ SleepersWait /\ SeenIsCurrent /\ LocksToIncrement
  BY DEF Init, MutualExclusion, SleepersWait, SeenIsCurrent,
     LocksToIncrement, Acquiring, Holding, Task!SleepInit
<1>3. Task!Sleepers("state") = {}
  BY DEF Init, Task!SleepInit, Task!Sleepers, Task!Awake
<1>4. QED
  BY <1>1, <1>2, <1>3 DEF IInv, NoSleeperForgotten

(* A context that moves moves alone.                                        *)
LEMMA GotoMoves ==
  ASSUME TypeOK, NEW c \in Contexts, NEW there \in At, Goto(c, there)
  PROVE  /\ pc' \in [Contexts -> At]
         /\ pc'[c] = there
         /\ \A d \in Contexts : d # c => pc'[d] = pc[d]
  BY DEF TypeOK, Goto

(* A compare and exchange that wins or loses.                               *)
LEMMA CompareExchangeMoves ==
  ASSUME TypeOK, NEW c \in Contexts, NEW expected, NEW desired,
         NEW won \in At, NEW lost \in At,
         CompareExchange(c, expected, desired, won, lost)
  PROVE  /\ pc' \in [Contexts -> At]
         /\ \A d \in Contexts : d # c => pc'[d] = pc[d]
         /\ \/ state = expected /\ state' = desired /\ pc'[c] = won
            \/ state # expected /\ state' = state /\ pc'[c] = lost
         /\ UNCHANGED <<counter, asleep, left, seen>>
  BY GotoMoves DEF CompareExchange

LEMMA StartStep == ASSUME IInv, NEW c \in Contexts, Start(c) PROVE IInv'
<1>1. /\ pc' \in [Contexts -> At] /\ pc'[c] = "try"
      /\ \A d \in Contexts : d # c => pc'[d] = pc[d]
  BY GotoMoves DEF IInv, Start, At
<1>2. TypeOK'
  BY <1>1 DEF IInv, TypeOK, Start, Task!SleepTypeOK
<1>3. MutualExclusion'
  BY <1>1 DEF IInv, MutualExclusion, Start, Holding
<1>4. NoSleeperForgotten'
  BY <1>1 DEF IInv, NoSleeperForgotten, Start, Task!Sleepers
<1>5. SleepersWait' /\ SeenIsCurrent' /\ LocksToIncrement'
  BY <1>1
  DEF IInv, SleepersWait, SeenIsCurrent, LocksToIncrement, Start, Acquiring, Holding
<1>6. QED
  BY <1>2, <1>3, <1>4, <1>5 DEF IInv

LEMMA TryAcquireStep == ASSUME IInv, NEW c \in Contexts, TryAcquire(c) PROVE IInv'
<1>1. "load" \in At /\ "look" \in At
  BY DEF At, Acquiring, Holding
<1>2. /\ pc' \in [Contexts -> At]
      /\ \A d \in Contexts : d # c => pc'[d] = pc[d]
      /\ \/ state = 0 /\ state' = 1 /\ pc'[c] = "load"
         \/ state # 0 /\ state' = state /\ pc'[c] = "look"
      /\ UNCHANGED <<counter, asleep, left, seen>>
  BY <1>1, CompareExchangeMoves DEF IInv, TryAcquire
<1>3. TypeOK'
  BY <1>2 DEF IInv, TypeOK, Task!SleepTypeOK
<1>4. MutualExclusion'
  BY <1>2 DEF IInv, MutualExclusion, TryAcquire, Holding
<1>5. NoSleeperForgotten'
  BY <1>2 DEF IInv, NoSleeperForgotten, TryAcquire, Task!Sleepers
<1>6. SleepersWait' /\ SeenIsCurrent' /\ LocksToIncrement'
  BY <1>2
  DEF IInv, SleepersWait, SeenIsCurrent, LocksToIncrement, TryAcquire, Acquiring,
      Holding
<1>7. QED
  BY <1>3, <1>4, <1>5, <1>6 DEF IInv

LEMMA LookStep == ASSUME IInv, NEW c \in Contexts, Look(c) PROVE IInv'
<1>1. PICK there \in {"wait", "mark"} : Goto(c, there) /\ (there = "wait" <=> state = 2)
  BY DEF Look
<1>2. /\ pc' \in [Contexts -> At] /\ pc'[c] = there
      /\ \A d \in Contexts : d # c => pc'[d] = pc[d]
  BY <1>1, GotoMoves DEF IInv, At, Acquiring
<1>3. TypeOK'
  BY <1>2 DEF IInv, TypeOK, Look, Task!SleepTypeOK
<1>4. MutualExclusion'
  BY <1>2 DEF IInv, MutualExclusion, Look, Holding
<1>5. NoSleeperForgotten'
  BY <1>1, <1>2 DEF IInv, NoSleeperForgotten, Look, Task!Sleepers
<1>6. SleepersWait' /\ SeenIsCurrent' /\ LocksToIncrement'
  BY <1>2
  DEF IInv, SleepersWait, SeenIsCurrent, LocksToIncrement, Look, Acquiring, Holding
<1>7. QED
  BY <1>3, <1>4, <1>5, <1>6 DEF IInv

LEMMA MarkStep == ASSUME IInv, NEW c \in Contexts, Mark(c) PROVE IInv'
<1>1. "wait" \in At /\ "retry" \in At
  BY DEF At, Acquiring, Holding
<1>2. /\ pc' \in [Contexts -> At]
      /\ \A d \in Contexts : d # c => pc'[d] = pc[d]
      /\ \/ state = 1 /\ state' = 2 /\ pc'[c] = "wait"
         \/ state # 1 /\ state' = state /\ pc'[c] = "retry"
      /\ UNCHANGED <<counter, asleep, left, seen>>
  BY <1>1, CompareExchangeMoves DEF IInv, Mark
<1>3. TypeOK'
  BY <1>2 DEF IInv, TypeOK, Task!SleepTypeOK
<1>4. MutualExclusion'
  BY <1>2 DEF IInv, MutualExclusion, Mark, Holding
<1>5. NoSleeperForgotten'
  BY <1>2 DEF IInv, NoSleeperForgotten, Mark, Task!Sleepers
<1>6. SleepersWait' /\ SeenIsCurrent' /\ LocksToIncrement'
  BY <1>2
  DEF IInv, SleepersWait, SeenIsCurrent, LocksToIncrement, Mark, Acquiring, Holding
<1>7. QED
  BY <1>3, <1>4, <1>5, <1>6 DEF IInv

LEMMA WaitStep == ASSUME IInv, NEW c \in Contexts, Wait(c) PROVE IInv'
<1>1. CASE state = 2 /\ Task!Suspend(c, "state") /\ Goto(c, "asleep")
  <2>1. /\ pc' \in [Contexts -> At] /\ pc'[c] = "asleep"
        /\ \A d \in Contexts : d # c => pc'[d] = pc[d]
    BY <1>1, GotoMoves DEF IInv, At, Acquiring
  <2>2. /\ asleep' \in [Contexts -> Words \union {Task!Awake}]
        /\ \A d \in Contexts : d # c => asleep'[d] = asleep[d]
    BY <1>1 DEF IInv, TypeOK, Task!SleepTypeOK, Task!Suspend, Words
  <2>3. TypeOK'
    BY <2>1, <2>2 DEF IInv, TypeOK, Wait, Task!SleepTypeOK
  <2>4. MutualExclusion'
    BY <2>1 DEF IInv, MutualExclusion, Wait, Holding
  <2>5. NoSleeperForgotten'
    BY <1>1 DEF NoSleeperForgotten, Wait
  <2>6. SleepersWait' /\ SeenIsCurrent' /\ LocksToIncrement'
    BY <2>1, <2>2
    DEF IInv, SleepersWait, SeenIsCurrent, LocksToIncrement, Wait, Acquiring, Holding
  <2>7. QED
    BY <2>3, <2>4, <2>5, <2>6 DEF IInv
<1>2. CASE state # 2 /\ UNCHANGED asleep /\ Goto(c, "retry")
  <2>1. /\ pc' \in [Contexts -> At] /\ pc'[c] = "retry"
        /\ \A d \in Contexts : d # c => pc'[d] = pc[d]
    BY <1>2, GotoMoves DEF IInv, At, Acquiring
  <2>2. TypeOK'
    BY <1>2, <2>1 DEF IInv, TypeOK, Wait, Task!SleepTypeOK
  <2>3. MutualExclusion'
    BY <2>1 DEF IInv, MutualExclusion, Wait, Holding
  <2>4. NoSleeperForgotten'
    BY <2>1 DEF NoSleeperForgotten
  <2>5. SleepersWait' /\ SeenIsCurrent' /\ LocksToIncrement'
    BY <1>2, <2>1
    DEF IInv, SleepersWait, SeenIsCurrent, LocksToIncrement, Wait, Acquiring, Holding
  <2>6. QED
    BY <2>2, <2>3, <2>4, <2>5 DEF IInv
<1>3. QED
  BY <1>1, <1>2 DEF Wait

LEMMA ResumeStep == ASSUME IInv, NEW c \in Contexts, Resume(c) PROVE IInv'
<1>1. /\ pc' \in [Contexts -> At] /\ pc'[c] = "retry"
      /\ \A d \in Contexts : d # c => pc'[d] = pc[d]
  BY GotoMoves DEF IInv, Resume, At, Acquiring
<1>2. TypeOK'
  BY <1>1 DEF IInv, TypeOK, Resume, Task!SleepTypeOK
<1>3. MutualExclusion'
  BY <1>1 DEF IInv, MutualExclusion, Resume, Holding
<1>4. NoSleeperForgotten'
  BY <1>1 DEF NoSleeperForgotten
<1>5. SleepersWait' /\ SeenIsCurrent' /\ LocksToIncrement'
  BY <1>1
  DEF IInv, SleepersWait, SeenIsCurrent, LocksToIncrement, Resume, Acquiring, Holding
<1>6. QED
  BY <1>2, <1>3, <1>4, <1>5 DEF IInv

LEMMA RetryStep == ASSUME IInv, NEW c \in Contexts, Retry(c) PROVE IInv'
<1>1. "load" \in At /\ "look" \in At
  BY DEF At, Acquiring, Holding
<1>2. /\ pc' \in [Contexts -> At]
      /\ \A d \in Contexts : d # c => pc'[d] = pc[d]
      /\ \/ state = 0 /\ state' = 2 /\ pc'[c] = "load"
         \/ state # 0 /\ state' = state /\ pc'[c] = "look"
      /\ UNCHANGED <<counter, asleep, left, seen>>
  BY <1>1, CompareExchangeMoves DEF IInv, Retry
<1>3. TypeOK'
  BY <1>2 DEF IInv, TypeOK, Task!SleepTypeOK
<1>4. MutualExclusion'
  BY <1>2 DEF IInv, MutualExclusion, Retry, Holding
<1>5. NoSleeperForgotten'
  BY <1>2 DEF IInv, NoSleeperForgotten, Retry, Task!Sleepers
<1>6. SleepersWait' /\ SeenIsCurrent' /\ LocksToIncrement'
  BY <1>2
  DEF IInv, SleepersWait, SeenIsCurrent, LocksToIncrement, Retry, Acquiring, Holding
<1>7. QED
  BY <1>3, <1>4, <1>5, <1>6 DEF IInv

LEMMA LoadCounterStep == ASSUME IInv, NEW c \in Contexts, LoadCounter(c) PROVE IInv'
<1>1. /\ pc' \in [Contexts -> At] /\ pc'[c] = "store"
      /\ \A d \in Contexts : d # c => pc'[d] = pc[d]
  BY GotoMoves DEF IInv, LoadCounter, At, Holding
<1>2. /\ seen' \in [Contexts -> Nat] /\ seen'[c] = counter
      /\ \A d \in Contexts : d # c => seen'[d] = seen[d]
  BY DEF IInv, TypeOK, LoadCounter
<1>3. TypeOK'
  BY <1>1, <1>2 DEF IInv, TypeOK, LoadCounter, Task!SleepTypeOK
<1>4. MutualExclusion'
  BY <1>1 DEF IInv, MutualExclusion, LoadCounter, Holding
<1>5. NoSleeperForgotten'
  BY <1>1 DEF IInv, NoSleeperForgotten, LoadCounter, Task!Sleepers
<1>6. SleepersWait' /\ SeenIsCurrent' /\ LocksToIncrement'
  BY <1>1, <1>2
  DEF IInv, SleepersWait, SeenIsCurrent, LocksToIncrement, LoadCounter, Acquiring,
      Holding
<1>7. QED
  BY <1>3, <1>4, <1>5, <1>6 DEF IInv

LEMMA StoreCounterStep == ASSUME IInv, NEW c \in Contexts, StoreCounter(c) PROVE IInv'
<1>1. /\ pc' \in [Contexts -> At] /\ pc'[c] = "release"
      /\ \A d \in Contexts : d # c => pc'[d] = pc[d]
  BY GotoMoves DEF IInv, StoreCounter, At, Holding
<1>2. TypeOK'
  BY <1>1 DEF IInv, TypeOK, StoreCounter, Task!SleepTypeOK
<1>3. MutualExclusion'
  BY <1>1 DEF IInv, MutualExclusion, StoreCounter, Holding
<1>4. NoSleeperForgotten'
  BY <1>1 DEF IInv, NoSleeperForgotten, StoreCounter, Task!Sleepers
<1>5. \A d \in Contexts : pc'[d] # "store"
  BY <1>1 DEF IInv, MutualExclusion, StoreCounter, Holding
<1>6. SleepersWait' /\ SeenIsCurrent' /\ LocksToIncrement'
  BY <1>1, <1>5
  DEF IInv, SleepersWait, SeenIsCurrent, LocksToIncrement, StoreCounter, Acquiring,
      Holding
<1>7. QED
  BY <1>2, <1>3, <1>4, <1>6 DEF IInv

(* The holder finds the word held, and frees it only by its last step.      *)
LEMMA ReleaseStep == ASSUME IInv, NEW c \in Contexts, Release(c) PROVE IInv'
<1>1. PICK there \in {"reset", "try"} : Goto(c, there) /\ (there = "try" <=> state = 1)
  BY DEF Release
<1>2. /\ pc' \in [Contexts -> At] /\ pc'[c] = there
      /\ \A d \in Contexts : d # c => pc'[d] = pc[d]
  BY <1>1, GotoMoves DEF IInv, At, Holding
<1>3. state \in 1..2 /\ state' = state - 1
  BY DEF IInv, TypeOK, MutualExclusion, Release, Holding
<1>4. /\ left' \in [Contexts -> 0..Increments]
      /\ \A d \in Contexts : d # c => left'[d] = left[d]
  BY IncrementsAssumption DEF IInv, TypeOK, LocksToIncrement, Release, Holding
<1>5. TypeOK'
  BY <1>2, <1>3, <1>4 DEF IInv, TypeOK, Release, Task!SleepTypeOK
<1>6. MutualExclusion'
  BY <1>1, <1>2, <1>3 DEF IInv, MutualExclusion, Release, Holding
<1>7. NoSleeperForgotten'
  <2>1. CASE state = 2
    BY <1>1, <1>2, <2>1 DEF NoSleeperForgotten
  <2>2. CASE state # 2
    BY <1>2, <2>2 DEF IInv, NoSleeperForgotten, Release, Task!Sleepers
  <2>3. QED
    BY <2>1, <2>2
<1>8. SleepersWait' /\ SeenIsCurrent'
  BY <1>2 DEF IInv, SleepersWait, SeenIsCurrent, Release
<1>9. LocksToIncrement'
  BY <1>2, <1>4 DEF IInv, LocksToIncrement, Release, Acquiring, Holding
<1>10. QED
  BY <1>5, <1>6, <1>7, <1>8, <1>9 DEF IInv

LEMMA ResetStep == ASSUME IInv, NEW c \in Contexts, Reset(c) PROVE IInv'
<1>1. /\ pc' \in [Contexts -> At] /\ pc'[c] = "wake"
      /\ \A d \in Contexts : d # c => pc'[d] = pc[d]
  BY GotoMoves DEF IInv, Reset, At
<1>2. TypeOK'
  BY <1>1 DEF IInv, TypeOK, Reset, Task!SleepTypeOK
<1>3. MutualExclusion'
  BY <1>1 DEF IInv, MutualExclusion, Reset, Holding
<1>4. NoSleeperForgotten'
  BY <1>1 DEF NoSleeperForgotten
<1>5. SleepersWait' /\ SeenIsCurrent' /\ LocksToIncrement'
  BY <1>1
  DEF IInv, SleepersWait, SeenIsCurrent, LocksToIncrement, Reset, Acquiring, Holding
<1>6. QED
  BY <1>2, <1>3, <1>4, <1>5 DEF IInv

(* A wake leaves nobody suspended who was not, and wakes a sleeper if one   *)
(* there is.                                                                *)
LEMMA WakeWakes ==
  ASSUME Task!SleepTypeOK, Task!WakeOne("state") \/ \E c \in Contexts : Task!Spurious(c)
  PROVE  /\ Task!SleepTypeOK'
         /\ \A d \in Contexts : asleep'[d] \in {asleep[d], Task!Awake}
         /\ Task!Sleepers("state") # {} =>
              \E d \in Contexts : asleep[d] # Task!Awake /\ asleep'[d] = Task!Awake
  BY DEF Task!SleepTypeOK, Task!WakeOne, Task!Spurious, Task!Sleepers, Task!Awake

LEMMA WakeStep == ASSUME IInv, NEW c \in Contexts, Wake(c) PROVE IInv'
<1>1. /\ pc' \in [Contexts -> At] /\ pc'[c] = "try"
      /\ \A d \in Contexts : d # c => pc'[d] = pc[d]
  BY GotoMoves DEF IInv, Wake, At
<1>2. /\ Task!SleepTypeOK'
      /\ \A d \in Contexts : asleep'[d] \in {asleep[d], Task!Awake}
      /\ Task!Sleepers("state") # {} =>
           \E d \in Contexts : asleep[d] # Task!Awake /\ asleep'[d] = Task!Awake
  BY WakeWakes DEF IInv, TypeOK, Wake
<1>3. TypeOK'
  BY <1>1, <1>2 DEF IInv, TypeOK, Wake
<1>4. MutualExclusion'
  BY <1>1 DEF IInv, MutualExclusion, Wake, Holding
<1>5. NoSleeperForgotten'
  <2>1. CASE Task!Sleepers("state") = {}
    BY <1>2, <2>1 DEF NoSleeperForgotten, Task!Sleepers, Task!Awake
  <2>2. CASE Task!Sleepers("state") # {}
    <3>1. PICK d \in Contexts : asleep[d] # Task!Awake /\ asleep'[d] = Task!Awake
      BY <1>2, <2>2
    <3>2. pc'[d] = "asleep"
      BY <1>1, <3>1 DEF IInv, SleepersWait, Wake
    <3>3. QED
      BY <3>1, <3>2 DEF NoSleeperForgotten
  <2>3. QED
    BY <2>1, <2>2
<1>6. SleepersWait' /\ SeenIsCurrent' /\ LocksToIncrement'
  BY <1>1, <1>2
  DEF IInv, SleepersWait, SeenIsCurrent, LocksToIncrement, Wake, Acquiring, Holding
<1>7. QED
  BY <1>3, <1>4, <1>5, <1>6 DEF IInv

LEMMA SpuriousStep == ASSUME IInv, SpuriousWake PROVE IInv'
<1>1. /\ Task!SleepTypeOK'
      /\ \A d \in Contexts : asleep'[d] \in {asleep[d], Task!Awake}
      /\ \E d \in Contexts : asleep[d] # Task!Awake /\ asleep'[d] = Task!Awake
  BY DEF IInv, TypeOK, SpuriousWake, Task!SleepTypeOK, Task!Spurious
<1>2. TypeOK'
  BY <1>1 DEF IInv, TypeOK, SpuriousWake
<1>3. MutualExclusion'
  BY DEF IInv, MutualExclusion, SpuriousWake
<1>4. NoSleeperForgotten'
  BY <1>1 DEF IInv, NoSleeperForgotten, SleepersWait, SpuriousWake
<1>5. SleepersWait' /\ SeenIsCurrent' /\ LocksToIncrement'
  BY <1>1 DEF IInv, SleepersWait, SeenIsCurrent, LocksToIncrement, SpuriousWake
<1>6. QED
  BY <1>2, <1>3, <1>4, <1>5 DEF IInv

LEMMA Inductive == IInv /\ [Next]_lockVars => IInv'
<1> SUFFICES ASSUME IInv, [Next]_lockVars PROVE IInv'
  OBVIOUS
<1>1. CASE \E c \in Contexts : Start(c)
  BY <1>1, StartStep
<1>2. CASE \E c \in Contexts : Runs(c)
  BY <1>2, TryAcquireStep, LookStep, MarkStep, WaitStep, ResumeStep, RetryStep,
     LoadCounterStep, StoreCounterStep, ReleaseStep, ResetStep, WakeStep DEF Runs
<1>3. CASE SpuriousWake
  BY <1>3, SpuriousStep
<1>4. CASE UNCHANGED lockVars
  BY <1>4 DEF lockVars, IInv, TypeOK, MutualExclusion, NoSleeperForgotten,
     SleepersWait, SeenIsCurrent, LocksToIncrement, Task!SleepTypeOK, Task!Sleepers
<1>5. QED
  BY <1>1, <1>2, <1>3, <1>4 DEF Next

LEMMA AlwaysIInv == Spec => []IInv
<1>1. Init => IInv
  BY InitIInv
<1>2. IInv /\ [Next]_lockVars => IInv'
  BY Inductive
<1>3. QED
  BY <1>1, <1>2, PTL DEF Spec

(* The word only ever holds 0, 1 or 2, and no context releases more often   *)
(* than it was to increment.                                                *)
THEOREM AlwaysTypeOK == Spec => []TypeOK
<1>1. IInv => TypeOK
  BY DEF IInv
<1>2. QED
  BY <1>1, AlwaysIInv, PTL

(* No two contexts are between acquire() and release(), however many there are. *)
THEOREM AlwaysMutualExclusion == Spec => []MutualExclusion
<1>1. IInv => MutualExclusion
  BY DEF IInv
<1>2. QED
  BY <1>1, AlwaysIInv, PTL

(* No context sleeps upon a word whose release will not wake one.           *)
THEOREM AlwaysNoSleeperForgotten == Spec => []NoSleeperForgotten
<1>1. IInv => NoSleeperForgotten
  BY DEF IInv
<1>2. QED
  BY <1>1, AlwaysIInv, PTL

-----------------------------------------------------------------------------
(* The increments are atomic.                                               *)

LEMMA CounterStarts == Init => Abstract!CounterInit
  BY IncrementsAssumption DEF Init, Abstract!CounterInit, Made

LEMMA CounterSteps ==
  IInv /\ [Next]_lockVars => [Abstract!CounterNext]_(Abstract!counterVars)
<1> DEFINE made == [c \in Contexts |-> Made(c)]
<1> SUFFICES ASSUME IInv, [Next]_lockVars
             PROVE  Abstract!CounterNext \/ (counter' = counter /\ made' = made)
  BY DEF Abstract!counterVars
<1>1. ASSUME NEW c \in Contexts, StoreCounter(c) PROVE Abstract!CounterNext
  <2>1. counter' = counter + 1
    BY <1>1 DEF IInv, SeenIsCurrent, StoreCounter
  <2>2. ASSUME NEW d \in Contexts
        PROVE  Made(d)' = IF d = c THEN Made(c) + 1 ELSE Made(d)
    BY <1>1, IncrementsAssumption DEF IInv, TypeOK, StoreCounter, Goto, Made
  <2>3. made' = [made EXCEPT ![c] = @ + 1]
    BY <2>2
  <2>4. QED
    BY <2>1, <2>3 DEF Abstract!CounterNext, Abstract!Increment
<1>2. ASSUME NEW c \in Contexts, Release(c) PROVE counter' = counter /\ made' = made
  BY <1>2, IncrementsAssumption DEF IInv, TypeOK, Release, Goto, Made
<1>3. ASSUME NEW c \in Contexts,
             \/ Start(c) \/ TryAcquire(c) \/ Look(c) \/ Mark(c) \/ Wait(c)
             \/ Resume(c) \/ Retry(c) \/ LoadCounter(c) \/ Reset(c) \/ Wake(c)
      PROVE  counter' = counter /\ made' = made
  BY <1>3 DEF IInv, TypeOK, Start, TryAcquire, Look, Mark, Wait, Resume, Retry,
     CompareExchange, LoadCounter, Reset, Wake, Goto, Made
<1>4. CASE SpuriousWake \/ UNCHANGED lockVars
  BY <1>4 DEF SpuriousWake, lockVars, Made
<1>5. QED
  BY <1>1, <1>2, <1>3, <1>4 DEF Next, Runs

(* Every behaviour of the contexts under the lock is one of contexts that  *)
(* increment the counter at once: no increment is lost.                     *)
THEOREM RefinesAtomicCounter == Spec => ImplementsAtomicCounter
<1>1. QED
  BY AlwaysIInv, CounterStarts, CounterSteps, PTL
  DEF Spec, ImplementsAtomicCounter, Abstract!CounterSpec

=============================================================================
