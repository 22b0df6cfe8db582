------------------------------- MODULE Mutex -------------------------------
(***************************************************************************)
(* The mutex the conformance suite builds from kal_task_wait and           *)
(* kal_task_wake (conformance/src/sections/task.cpp), and the contexts that *)
(* increment a plain counter under it.                                     *)
(*                                                                         *)
(* Each atomic operation upon the word is a step.  g_counter is a plain    *)
(* word: its load and its store are two steps.                             *)
(***************************************************************************)
EXTENDS Integers

CONSTANTS Contexts,     (* the contexts started                            *)
          Increments    (* kIncrements: how many each one makes            *)

ASSUME IncrementsAssumption == Increments \in Nat

VARIABLES state,        (* mutex::state: 0 free, 1 held, 2 held and wanted *)
          counter,      (* g_counter                                       *)
          asleep,
          pc,           (* where each context is                           *)
          left,         (* how many increments it has still to make        *)
          seen          (* what it loaded from g_counter                   *)

lockVars == <<state, counter, asleep, pc, left, seen>>

Words == {"state"}

Task == INSTANCE TaskWait

Locking == {"exchange", "wait", "asleep"}
Holding == {"load", "store", "unlock"}
At == {"unstarted", "try", "wake"} \union Locking \union Holding

MutexInit ==
  /\ state = 0
  /\ counter = 0
  /\ Task!SleepInit
  /\ pc = [c \in Contexts |-> "unstarted"]
  /\ left = [c \in Contexts |-> Increments]
  /\ seen = [c \in Contexts |-> 0]

Goto(c, there) == pc' = [pc EXCEPT ![c] = there]

-----------------------------------------------------------------------------
(* kal_task_start(increment, nullptr, &t)                                   *)
Start(c) ==
  /\ pc[c] = "unstarted"
  /\ Goto(c, "try")
  /\ UNCHANGED <<state, counter, asleep, left, seen>>

(* Mutant: the word is taken unless it is wanted.                           *)
TryLockShared(c) ==
  /\ pc[c] = "try" /\ left[c] > 0
  /\ \/ state # 2 /\ state' = 1 /\ Goto(c, "load")
     \/ state = 2 /\ UNCHANGED state /\ Goto(c, "exchange")
  /\ UNCHANGED <<counter, asleep, left, seen>>

(* compare_exchange(&state, 0, 1)                                           *)
TryLock(c) ==
  /\ pc[c] = "try" /\ left[c] > 0
  /\ \/ state = 0 /\ state' = 1 /\ Goto(c, "load")
     \/ state # 0 /\ UNCHANGED state /\ Goto(c, "exchange")
  /\ UNCHANGED <<counter, asleep, left, seen>>

(* Mutant: a word that nobody wants yet is taken for a free one.            *)
ExchangeTakes(c) ==
  /\ pc[c] = "exchange"
  /\ state' = 2
  /\ Goto(c, IF state # 2 THEN "load" ELSE "wait")
  /\ UNCHANGED <<counter, asleep, left, seen>>

(* exchange(&state, 2) == 0                                                 *)
Exchange(c) ==
  /\ pc[c] = "exchange"
  /\ state' = 2
  /\ Goto(c, IF state = 0 THEN "load" ELSE "wait")
  /\ UNCHANGED <<counter, asleep, left, seen>>

(* kal_task_wait(&state, 2, 0)                                              *)
Wait(c) ==
  /\ pc[c] = "wait"
  /\ \/ state = 2 /\ Task!Suspend(c, "state") /\ Goto(c, "asleep")
     \/ state # 2 /\ UNCHANGED asleep /\ Goto(c, "exchange")
  /\ UNCHANGED <<state, counter, left, seen>>

(* Mutant: a context that is woken takes itself to hold the mutex.          *)
ResumeHolds(c) ==
  /\ pc[c] = "asleep" /\ asleep[c] = Task!Awake
  /\ Goto(c, "load")
  /\ UNCHANGED <<state, counter, asleep, left, seen>>

Resume(c) ==
  /\ pc[c] = "asleep" /\ asleep[c] = Task!Awake
  /\ Goto(c, "exchange")
  /\ UNCHANGED <<state, counter, asleep, left, seen>>

(* g_counter = g_counter + 1                                                *)
LoadCounter(c) ==
  /\ pc[c] = "load"
  /\ seen' = [seen EXCEPT ![c] = counter]
  /\ Goto(c, "store")
  /\ UNCHANGED <<state, counter, asleep, left>>

StoreCounter(c) ==
  /\ pc[c] = "store"
  /\ counter' = seen[c] + 1
  /\ Goto(c, "unlock")
  /\ UNCHANGED <<state, asleep, left, seen>>

(* Mutant: the wake is made where nobody asked for it.                      *)
UnlockSwapped(c) ==
  /\ pc[c] = "unlock"
  /\ state' = 0
  /\ left' = [left EXCEPT ![c] = @ - 1]
  /\ Goto(c, IF state = 1 THEN "wake" ELSE "try")
  /\ UNCHANGED <<counter, asleep, seen>>

(* exchange(&state, 0) == 2                                                 *)
Unlock(c) ==
  /\ pc[c] = "unlock"
  /\ state' = 0
  /\ left' = [left EXCEPT ![c] = @ - 1]
  /\ Goto(c, IF state = 2 THEN "wake" ELSE "try")
  /\ UNCHANGED <<counter, asleep, seen>>

(* Mutant: a wake of none.                                                  *)
WakeNone(c) ==
  /\ pc[c] = "wake"
  /\ Goto(c, "try")
  /\ UNCHANGED <<state, counter, asleep, left, seen>>

(* kal_task_wake(&state, 1, &woken)                                         *)
Wake(c) ==
  /\ pc[c] = "wake"
  /\ Task!WakeOne("state")
  /\ Goto(c, "try")
  /\ UNCHANGED <<state, counter, left, seen>>

SpuriousWake ==
  /\ \E c \in Contexts : Task!Spurious(c)
  /\ UNCHANGED <<state, counter, pc, left, seen>>

Runs(c) == \/ TryLock(c) \/ Exchange(c) \/ Wait(c) \/ Resume(c)
           \/ LoadCounter(c) \/ StoreCounter(c) \/ Unlock(c) \/ Wake(c)

MutexNext == \/ \E c \in Contexts : Start(c) \/ Runs(c)
             \/ SpuriousWake

(* A started context that is not suspended keeps running.                   *)
MutexSpec == /\ MutexInit /\ [][MutexNext]_lockVars
             /\ \A c \in Contexts : WF_lockVars(Runs(c))

-----------------------------------------------------------------------------
(* Properties                                                               *)

Finished(c) == pc[c] = "try" /\ left[c] = 0

TypeOK ==
  /\ state \in 0..2
  /\ counter \in Nat
  /\ Task!SleepTypeOK
  /\ pc \in [Contexts -> At]
  /\ left \in [Contexts -> 0..Increments]
  /\ seen \in [Contexts -> Nat]

(* At most one context is between lock() and unlock(), and the word is free *)
(* exactly when none is.                                                    *)
MutualExclusion ==
  /\ \A c, d \in Contexts : pc[c] \in Holding /\ pc[d] \in Holding => c = d
  /\ state = 0 <=> \A c \in Contexts : pc[c] \notin Holding

(* While a context is suspended upon the word, the release that must wake   *)
(* one is still to come: the word says it is wanted, or a release is about  *)
(* to wake, or a context on its way to the word will mark it wanted again.  *)
NoSleeperForgotten ==
  Task!Sleepers("state") # {} =>
    \/ state = 2
    \/ \E c \in Contexts : \/ pc[c] \in {"wake", "exchange"}
                           \/ pc[c] = "asleep" /\ asleep[c] = Task!Awake

(* The lock makes the increment atomic: no increment is lost.               *)
Made(c) == Increments - left[c] + (IF pc[c] = "unlock" THEN 1 ELSE 0)

Abstract == INSTANCE AtomicCounter
              WITH value <- counter, made <- [c \in Contexts |-> Made(c)]

ImplementsAtomicCounter == Abstract!CounterSpec

=============================================================================
