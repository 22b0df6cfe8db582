---------------------------- MODULE MutexProofs ----------------------------
(***************************************************************************)
(* Theorems of Mutex, for every set of contexts and every number of        *)
(* increments.                                                             *)
(***************************************************************************)
EXTENDS Mutex, TLAPS

(* A context is suspended only where it waits, holds the counter's value    *)
(* from its load to its store, and locks only for an increment to make.     *)
SleepersWait == \A c \in Contexts : asleep[c] # Task!Awake => pc[c] = "asleep"
SeenIsCurrent == \A c \in Contexts : pc[c] = "store" => seen[c] = counter
LocksToIncrement == \A c \in Contexts : pc[c] \in Locking \union Holding => left[c] > 0

IInv == /\ TypeOK /\ MutualExclusion /\ NoSleeperForgotten
        /\ SleepersWait /\ SeenIsCurrent /\ LocksToIncrement

LEMMA InitIInv == MutexInit => IInv
<1> SUFFICES ASSUME MutexInit PROVE IInv
  OBVIOUS
<1>1. TypeOK
  BY IncrementsAssumption
  DEF MutexInit, TypeOK, At, Task!SleepInit, Task!SleepTypeOK
<1>2. MutualExclusion /\ SleepersWait /\ SeenIsCurrent /\ LocksToIncrement
  BY DEF MutexInit, MutualExclusion, SleepersWait, SeenIsCurrent,
     LocksToIncrement, Locking, Holding, Task!SleepInit
<1>3. Task!Sleepers("state") = {}
  BY DEF MutexInit, Task!SleepInit, Task!Sleepers, Task!Awake
<1>4. QED
  BY <1>1, <1>2, <1>3 DEF IInv, NoSleeperForgotten

(* A context that moves moves alone.                                        *)
LEMMA GotoMoves ==
  ASSUME TypeOK, NEW c \in Contexts, NEW there \in At, Goto(c, there)
  PROVE  /\ pc' \in [Contexts -> At]
         /\ pc'[c] = there
         /\ \A d \in Contexts : d # c => pc'[d] = pc[d]
  BY DEF TypeOK, Goto

LEMMA StartStep == ASSUME IInv, NEW c \in Contexts, Start(c) PROVE IInv'
<1>1. /\ pc' \in [Contexts -> At] /\ pc'[c] = "try"
      /\ \A d \in Contexts : d # c => pc'[d] = pc[d]
  BY GotoMoves DEF IInv, Start, At
<1>2. TypeOK'
  BY <1>1 DEF IInv, TypeOK, Start, Task!SleepTypeOK
<1>3. MutualExclusion'
  BY <1>1 DEF IInv, MutualExclusion, Start, Holding
<1>4. NoSleeperForgotten'
  BY <1>1 DEF IInv, NoSleeperForgotten, Start, Task!Sleepers
<1>5. SleepersWait' /\ SeenIsCurrent' /\ LocksToIncrement'
  BY <1>1
  DEF IInv, SleepersWait, SeenIsCurrent, LocksToIncrement, Start, Locking, Holding
<1>6. QED
  BY <1>2, <1>3, <1>4, <1>5 DEF IInv

LEMMA TryLockStep == ASSUME IInv, NEW c \in Contexts, TryLock(c) PROVE IInv'
<1>1. PICK there \in {"load", "exchange"} :
        /\ Goto(c, there)
        /\ IF there = "load" THEN state = 0 /\ state' = 1 ELSE state # 0 /\ state' = state
  BY DEF TryLock
<1>2. /\ pc' \in [Contexts -> At] /\ pc'[c] = there
      /\ \A d \in Contexts : d # c => pc'[d] = pc[d]
  BY <1>1, GotoMoves DEF IInv, At, Locking, Holding
<1>3. TypeOK'
  BY <1>1, <1>2 DEF IInv, TypeOK, TryLock, Task!SleepTypeOK
<1>4. MutualExclusion'
  BY <1>1, <1>2 DEF IInv, MutualExclusion, TryLock, Holding
<1>5. NoSleeperForgotten'
  BY <1>1, <1>2 DEF IInv, NoSleeperForgotten, TryLock, Task!Sleepers
<1>6. SleepersWait' /\ SeenIsCurrent' /\ LocksToIncrement'
  BY <1>1, <1>2
  DEF IInv, SleepersWait, SeenIsCurrent, LocksToIncrement, TryLock, Locking, Holding
<1>7. QED
  BY <1>3, <1>4, <1>5, <1>6 DEF IInv

LEMMA ExchangeStep == ASSUME IInv, NEW c \in Contexts, Exchange(c) PROVE IInv'
<1>1. PICK there \in {"load", "wait"} :
        Goto(c, there) /\ (there = "load" <=> state = 0) /\ state' = 2
  BY DEF Exchange
<1>2. /\ pc' \in [Contexts -> At] /\ pc'[c] = there
      /\ \A d \in Contexts : d # c => pc'[d] = pc[d]
  BY <1>1, GotoMoves DEF IInv, At, Locking, Holding
<1>3. TypeOK'
  BY <1>1, <1>2 DEF IInv, TypeOK, Exchange, Task!SleepTypeOK
<1>4. MutualExclusion'
  BY <1>1, <1>2 DEF IInv, MutualExclusion, Exchange, Holding
<1>5. NoSleeperForgotten'
  BY <1>1 DEF NoSleeperForgotten
<1>6. SleepersWait' /\ SeenIsCurrent' /\ LocksToIncrement'
  BY <1>1, <1>2
  DEF IInv, SleepersWait, SeenIsCurrent, LocksToIncrement, Exchange, Locking, Holding
<1>7. QED
  BY <1>3, <1>4, <1>5, <1>6 DEF IInv

LEMMA WaitStep == ASSUME IInv, NEW c \in Contexts, Wait(c) PROVE IInv'
<1>1. CASE state = 2 /\ Task!Suspend(c, "state") /\ Goto(c, "asleep")
  <2>1. /\ pc' \in [Contexts -> At] /\ pc'[c] = "asleep"
        /\ \A d \in Contexts : d # c => pc'[d] = pc[d]
    BY <1>1, GotoMoves DEF IInv, At, Locking
  <2>2. /\ asleep' \in [Contexts -> Words \union {Task!Awake}]
        /\ \A d \in Contexts : d # c => asleep'[d] = asleep[d]
    BY <1>1 DEF IInv, TypeOK, Task!SleepTypeOK, Task!Suspend, Words
  <2>3. TypeOK'
    BY <2>1, <2>2 DEF IInv, TypeOK, Wait, Task!SleepTypeOK
  <2>4. MutualExclusion'
    BY <2>1 DEF IInv, MutualExclusion, Wait, Holding
  <2>5. NoSleeperForgotten'
    BY <1>1 DEF NoSleeperForgotten, Wait
  <2>6. SleepersWait' /\ SeenIsCurrent' /\ LocksToIncrement'
    BY <2>1, <2>2
    DEF IInv, SleepersWait, SeenIsCurrent, LocksToIncrement, Wait, Locking, Holding
  <2>7. QED
    BY <2>3, <2>4, <2>5, <2>6 DEF IInv
<1>2. CASE state # 2 /\ UNCHANGED asleep /\ Goto(c, "exchange")
  <2>1. /\ pc' \in [Contexts -> At] /\ pc'[c] = "exchange"
        /\ \A d \in Contexts : d # c => pc'[d] = pc[d]
    BY <1>2, GotoMoves DEF IInv, At, Locking
  <2>2. TypeOK'
    BY <1>2, <2>1 DEF IInv, TypeOK, Wait, Task!SleepTypeOK
  <2>3. MutualExclusion'
    BY <2>1 DEF IInv, MutualExclusion, Wait, Holding
  <2>4. NoSleeperForgotten'
    BY <2>1 DEF NoSleeperForgotten
  <2>5. SleepersWait' /\ SeenIsCurrent' /\ LocksToIncrement'
    BY <1>2, <2>1
    DEF IInv, SleepersWait, SeenIsCurrent, LocksToIncrement, Wait, Locking, Holding
  <2>6. QED
    BY <2>2, <2>3, <2>4, <2>5 DEF IInv
<1>3. QED
  BY <1>1, <1>2 DEF Wait

LEMMA ResumeStep == ASSUME IInv, NEW c \in Contexts, Resume(c) PROVE IInv'
<1>1. /\ pc' \in [Contexts -> At] /\ pc'[c] = "exchange"
      /\ \A d \in Contexts : d # c => pc'[d] = pc[d]
  BY GotoMoves DEF IInv, Resume, At, Locking
<1>2. TypeOK'
  BY <1>1 DEF IInv, TypeOK, Resume, Task!SleepTypeOK
<1>3. MutualExclusion'
  BY <1>1 DEF IInv, MutualExclusion, Resume, Holding
<1>4. NoSleeperForgotten'
  BY <1>1 DEF NoSleeperForgotten
<1>5. SleepersWait' /\ SeenIsCurrent' /\ LocksToIncrement'
  BY <1>1
  DEF IInv, SleepersWait, SeenIsCurrent, LocksToIncrement, Resume, Locking, Holding
<1>6. QED
  BY <1>2, <1>3, <1>4, <1>5 DEF IInv

LEMMA LoadCounterStep == ASSUME IInv, NEW c \in Contexts, LoadCounter(c) PROVE IInv'
<1>1. /\ pc' \in [Contexts -> At] /\ pc'[c] = "store"
      /\ \A d \in Contexts : d # c => pc'[d] = pc[d]
  BY GotoMoves DEF IInv, LoadCounter, At, Holding
<1>2. /\ seen' \in [Contexts -> Nat] /\ seen'[c] = counter
      /\ \A d \in Contexts : d # c => seen'[d] = seen[d]
  BY DEF IInv, TypeOK, LoadCounter
<1>3. TypeOK'
  BY <1>1, <1>2 DEF IInv, TypeOK, LoadCounter, Task!SleepTypeOK
<1>4. MutualExclusion'
  BY <1>1 DEF IInv, MutualExclusion, LoadCounter, Holding
<1>5. NoSleeperForgotten'
  BY <1>1 DEF IInv, NoSleeperForgotten, LoadCounter, Task!Sleepers
<1>6. SleepersWait' /\ SeenIsCurrent' /\ LocksToIncrement'
  BY <1>1, <1>2
  DEF IInv, SleepersWait, SeenIsCurrent, LocksToIncrement, LoadCounter, Locking,
      Holding
<1>7. QED
  BY <1>3, <1>4, <1>5, <1>6 DEF IInv

LEMMA StoreCounterStep == ASSUME IInv, NEW c \in Contexts, StoreCounter(c) PROVE IInv'
<1>1. /\ pc' \in [Contexts -> At] /\ pc'[c] = "unlock"
      /\ \A d \in Contexts : d # c => pc'[d] = pc[d]
  BY GotoMoves DEF IInv, StoreCounter, At, Holding
<1>2. TypeOK'
  BY <1>1 DEF IInv, TypeOK, StoreCounter, Task!SleepTypeOK
<1>3. MutualExclusion'
  BY <1>1 DEF IInv, MutualExclusion, StoreCounter, Holding
<1>4. NoSleeperForgotten'
  BY <1>1 DEF IInv, NoSleeperForgotten, StoreCounter, Task!Sleepers
<1>5. \A d \in Contexts : pc'[d] # "store"
  BY <1>1 DEF IInv, MutualExclusion, StoreCounter, Holding
<1>6. SleepersWait' /\ SeenIsCurrent' /\ LocksToIncrement'
  BY <1>1, <1>5
  DEF IInv, SleepersWait, SeenIsCurrent, LocksToIncrement, StoreCounter, Locking,
      Holding
<1>7. QED
  BY <1>2, <1>3, <1>4, <1>6 DEF IInv

LEMMA UnlockStep == ASSUME IInv, NEW c \in Contexts, Unlock(c) PROVE IInv'
<1>1. PICK there \in {"wake", "try"} : Goto(c, there) /\ (there = "wake" <=> state = 2)
  BY DEF Unlock
<1>2. /\ pc' \in [Contexts -> At] /\ pc'[c] = there
      /\ \A d \in Contexts : d # c => pc'[d] = pc[d]
  BY <1>1, GotoMoves DEF IInv, At
<1>3. /\ left' \in [Contexts -> 0..Increments]
      /\ \A d \in Contexts : d # c => left'[d] = left[d]
  BY IncrementsAssumption DEF IInv, TypeOK, LocksToIncrement, Unlock, Holding
<1>4. TypeOK'
  BY <1>2, <1>3 DEF IInv, TypeOK, Unlock, Task!SleepTypeOK
<1>5. MutualExclusion'
  BY <1>2 DEF IInv, MutualExclusion, Unlock, Holding
<1>6. NoSleeperForgotten'
  <2>1. CASE state = 2
    BY <1>1, <1>2, <2>1 DEF NoSleeperForgotten
  <2>2. CASE state # 2
    BY <1>2, <2>2 DEF IInv, NoSleeperForgotten, Unlock, Task!Sleepers
  <2>3. QED
    BY <2>1, <2>2
<1>7. SleepersWait' /\ SeenIsCurrent' /\ LocksToIncrement'
  BY <1>2, <1>3
  DEF IInv, SleepersWait, SeenIsCurrent, LocksToIncrement, Unlock, Locking, Holding
<1>8. QED
  BY <1>4, <1>5, <1>6, <1>7 DEF IInv

(* A wake leaves nobody suspended who was not, and wakes a sleeper if one   *)
(* there is.                                                                *)
LEMMA WakeWakes ==
  ASSUME Task!SleepTypeOK, Task!WakeOne("state") \/ \E c \in Contexts : Task!Spurious(c)
  PROVE  /\ Task!SleepTypeOK'
         /\ \A d \in Contexts : asleep'[d] \in {asleep[d], Task!Awake}
         /\ Task!Sleepers("state") # {} =>
              \E d \in Contexts : asleep[d] # Task!Awake /\ asleep'[d] = Task!Awake
  BY DEF Task!SleepTypeOK, Task!WakeOne, Task!Spurious, Task!Sleepers, Task!Awake

LEMMA WakeStep == ASSUME IInv, NEW c \in Contexts, Wake(c) PROVE IInv'
<1>1. /\ pc' \in [Contexts -> At] /\ pc'[c] = "try"
      /\ \A d \in Contexts : d # c => pc'[d] = pc[d]
  BY GotoMoves DEF IInv, Wake, At
<1>2. /\ Task!SleepTypeOK'
      /\ \A d \in Contexts : asleep'[d] \in {asleep[d], Task!Awake}
      /\ Task!Sleepers("state") # {} =>
           \E d \in Contexts : asleep[d] # Task!Awake /\ asleep'[d] = Task!Awake
  BY WakeWakes DEF IInv, TypeOK, Wake
<1>3. TypeOK'
  BY <1>1, <1>2 DEF IInv, TypeOK, Wake
<1>4. MutualExclusion'
  BY <1>1 DEF IInv, MutualExclusion, Wake, Holding
<1>5. NoSleeperForgotten'
  <2>1. CASE Task!Sleepers("state") = {}
    BY <1>2, <2>1 DEF NoSleeperForgotten, Task!Sleepers, Task!Awake
  <2>2. CASE Task!Sleepers("state") # {}
    <3>1. PICK d \in Contexts : asleep[d] # Task!Awake /\ asleep'[d] = Task!Awake
      BY <1>2, <2>2
    <3>2. pc'[d] = "asleep"
      BY <1>1, <3>1 DEF IInv, SleepersWait, Wake
    <3>3. QED
      BY <3>1, <3>2 DEF NoSleeperForgotten
  <2>3. QED
    BY <2>1, <2>2
<1>6. SleepersWait' /\ SeenIsCurrent' /\ LocksToIncrement'
  BY <1>1, <1>2
  DEF IInv, SleepersWait, SeenIsCurrent, LocksToIncrement, Wake, Locking, Holding
<1>7. QED
  BY <1>3, <1>4, <1>5, <1>6 DEF IInv

LEMMA SpuriousStep == ASSUME IInv, SpuriousWake PROVE IInv'
<1>1. /\ Task!SleepTypeOK'
      /\ \A d \in Contexts : asleep'[d] \in {asleep[d], Task!Awake}
      /\ \E d \in Contexts : asleep[d] # Task!Awake /\ asleep'[d] = Task!Awake
  BY DEF IInv, TypeOK, SpuriousWake, Task!SleepTypeOK, Task!Spurious
<1>2. TypeOK'
  BY <1>1 DEF IInv, TypeOK, SpuriousWake
<1>3. MutualExclusion'
  BY DEF IInv, MutualExclusion, SpuriousWake
<1>4. NoSleeperForgotten'
  BY <1>1 DEF IInv, NoSleeperForgotten, SleepersWait, SpuriousWake
<1>5. SleepersWait' /\ SeenIsCurrent' /\ LocksToIncrement'
  BY <1>1 DEF IInv, SleepersWait, SeenIsCurrent, LocksToIncrement, SpuriousWake
<1>6. QED
  BY <1>2, <1>3, <1>4, <1>5 DEF IInv

LEMMA Inductive == IInv /\ [MutexNext]_lockVars => IInv'
<1> SUFFICES ASSUME IInv, [MutexNext]_lockVars PROVE IInv'
  OBVIOUS
<1>1. CASE \E c \in Contexts : Start(c)
  BY <1>1, StartStep
<1>2. CASE \E c \in Contexts : Runs(c)
  BY <1>2, TryLockStep, ExchangeStep, WaitStep, ResumeStep, LoadCounterStep,
     StoreCounterStep, UnlockStep, WakeStep DEF Runs
<1>3. CASE SpuriousWake
  BY <1>3, SpuriousStep
<1>4. CASE UNCHANGED lockVars
  BY <1>4 DEF lockVars, IInv, TypeOK, MutualExclusion, NoSleeperForgotten,
     SleepersWait, SeenIsCurrent, LocksToIncrement, Task!SleepTypeOK, Task!Sleepers
<1>5. QED
  BY <1>1, <1>2, <1>3, <1>4 DEF MutexNext

LEMMA AlwaysIInv == MutexSpec => []IInv
<1>1. MutexInit => IInv
  BY InitIInv
<1>2. IInv /\ [MutexNext]_lockVars => IInv'
  BY Inductive
<1>3. QED
  BY <1>1, <1>2, PTL DEF MutexSpec

(* The word only ever holds 0, 1 or 2, and no context unlocks more often    *)
(* than it was to increment.                                                *)
THEOREM AlwaysTypeOK == MutexSpec => []TypeOK
<1>1. IInv => TypeOK
  BY DEF IInv
<1>2. QED
  BY <1>1, AlwaysIInv, PTL

(* No two contexts are between lock() and unlock(), however many there are. *)
THEOREM AlwaysMutualExclusion == MutexSpec => []MutualExclusion
<1>1. IInv => MutualExclusion
  BY DEF IInv
<1>2. QED
  BY <1>1, AlwaysIInv, PTL

(* No context sleeps upon a word whose release will not wake one.           *)
THEOREM AlwaysNoSleeperForgotten == MutexSpec => []NoSleeperForgotten
<1>1. IInv => NoSleeperForgotten
  BY DEF IInv
<1>2. QED
  BY <1>1, AlwaysIInv, PTL

-----------------------------------------------------------------------------
(* The increments are atomic.                                               *)

LEMMA CounterStarts == MutexInit => Abstract!CounterInit
  BY IncrementsAssumption DEF MutexInit, Abstract!CounterInit, Made

LEMMA CounterSteps ==
  IInv /\ [MutexNext]_lockVars => [Abstract!CounterNext]_(Abstract!counterVars)
<1> DEFINE made == [c \in Contexts |-> Made(c)]
<1> SUFFICES ASSUME IInv, [MutexNext]_lockVars
             PROVE  Abstract!CounterNext \/ (counter' = counter /\ made' = made)
  BY DEF Abstract!counterVars
<1>1. ASSUME NEW c \in Contexts, StoreCounter(c) PROVE Abstract!CounterNext
  <2>1. counter' = counter + 1
    BY <1>1 DEF IInv, SeenIsCurrent, StoreCounter
  <2>2. ASSUME NEW d \in Contexts
        PROVE  Made(d)' = IF d = c THEN Made(c) + 1 ELSE Made(d)
    BY <1>1, IncrementsAssumption DEF IInv, TypeOK, StoreCounter, Goto, Made
  <2>3. made' = [made EXCEPT ![c] = @ + 1]
    BY <2>2
  <2>4. QED
    BY <2>1, <2>3 DEF Abstract!CounterNext, Abstract!Increment
<1>2. ASSUME NEW c \in Contexts, Unlock(c) PROVE counter' = counter /\ made' = made
  BY <1>2, IncrementsAssumption DEF IInv, TypeOK, Unlock, Goto, Made
<1>3. ASSUME NEW c \in Contexts,
             \/ Start(c) \/ TryLock(c) \/ Exchange(c) \/ Wait(c) \/ Resume(c)
             \/ LoadCounter(c) \/ Wake(c)
      PROVE  counter' = counter /\ made' = made
  BY <1>3 DEF IInv, TypeOK, Start, TryLock, Exchange, Wait, Resume, LoadCounter,
     Wake, Goto, Made
<1>4. CASE SpuriousWake \/ UNCHANGED lockVars
  BY <1>4 DEF SpuriousWake, lockVars, Made
<1>5. QED
  BY <1>1, <1>2, <1>3, <1>4 DEF MutexNext, Runs

(* Every behaviour of the contexts under the mutex is one of contexts that  *)
(* increment the counter at once: no increment is lost.                     *)
THEOREM RefinesAtomicCounter == MutexSpec => ImplementsAtomicCounter
<1>1. QED
  BY AlwaysIInv, CounterStarts, CounterSteps, PTL
  DEF MutexSpec, ImplementsAtomicCounter, Abstract!CounterSpec

=============================================================================
