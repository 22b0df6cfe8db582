--------------------------- MODULE PortableMutex ---------------------------
(***************************************************************************)
(* The lock of the portable example (examples/portable/src/main.cpp):      *)
(* acquire() and release() over one word and kal_task_wait/kal_task_wake,  *)
(* and the contexts that bump() a plain counter under it.                  *)
(*                                                                         *)
(* It differs from the mutex of the conformance suite in both halves: a    *)
(* contender marks the word with a compare and exchange and takes it with  *)
(* another, and a release of a wanted word is a subtraction, a store and a *)
(* wake, between which others act.                                         *)
(***************************************************************************)
EXTENDS Integers

CONSTANTS Contexts,     (* main and the contexts it starts                 *)
          Increments    (* the trips of bump's loop                        *)

ASSUME IncrementsAssumption == Increments \in Nat

VARIABLES state,        (* lock_state: 0 free, 1 held, 2 held and contended *)
          counter,
          asleep,
          pc,           (* where each context is                           *)
          left,         (* how many increments it has still to make        *)
          seen          (* what it loaded from counter                     *)

lockVars == <<state, counter, asleep, pc, left, seen>>

Words == {"state"}

Task == INSTANCE TaskWait

Acquiring == {"look", "mark", "wait", "asleep", "retry"}
Holding == {"load", "store", "release", "reset"}
At == {"unstarted", "try", "wake"} \union Acquiring \union Holding

Init ==
  /\ state = 0
  /\ counter = 0
  /\ Task!SleepInit
  /\ pc = [c \in Contexts |-> "unstarted"]
  /\ left = [c \in Contexts |-> Increments]
  /\ seen = [c \in Contexts |-> 0]

Goto(c, there) == pc' = [pc EXCEPT ![c] = there]

-----------------------------------------------------------------------------
Start(c) ==
  /\ pc[c] = "unstarted"
  /\ Goto(c, "try")
  /\ UNCHANGED <<state, counter, asleep, left, seen>>

(* exchange(p, expected, desired): c goes to won or to lost.                *)
CompareExchange(c, expected, desired, won, lost) ==
  /\ \/ state = expected /\ state' = desired /\ Goto(c, won)
     \/ state # expected /\ UNCHANGED state /\ Goto(c, lost)
  /\ UNCHANGED <<counter, asleep, left, seen>>

TryAcquire(c) ==
  /\ pc[c] = "try" /\ left[c] > 0
  /\ CompareExchange(c, 0, 1, "load", "look")

(* const kal_u32 seen = load(); seen == 2 || ...                            *)
Look(c) ==
  /\ pc[c] = "look"
  /\ Goto(c, IF state = 2 THEN "wait" ELSE "mark")
  /\ UNCHANGED <<state, counter, asleep, left, seen>>

Mark(c) ==
  /\ pc[c] = "mark"
  /\ CompareExchange(c, 1, 2, "wait", "retry")

(* Mutant: a word that is no longer contended is taken to be held.          *)
WaitHolds(c) ==
  /\ pc[c] = "wait"
  /\ \/ state = 2 /\ Task!Suspend(c, "state") /\ Goto(c, "asleep")
     \/ state # 2 /\ UNCHANGED asleep /\ Goto(c, "load")
  /\ UNCHANGED <<state, counter, left, seen>>

(* kal_task_wait(&lock_state, 2, 0)                                         *)
Wait(c) ==
  /\ pc[c] = "wait"
  /\ \/ state = 2 /\ Task!Suspend(c, "state") /\ Goto(c, "asleep")
     \/ state # 2 /\ UNCHANGED asleep /\ Goto(c, "retry")
  /\ UNCHANGED <<state, counter, left, seen>>

Resume(c) ==
  /\ pc[c] = "asleep" /\ asleep[c] = Task!Awake
  /\ Goto(c, "retry")
  /\ UNCHANGED <<state, counter, asleep, left, seen>>

(* Mutant: a contender takes the word as though nobody else wanted it.      *)
RetryUncontended(c) ==
  /\ pc[c] = "retry"
  /\ CompareExchange(c, 0, 1, "load", "look")

(* Mutant: the expected value is that of a held word.                       *)
RetryHeld(c) ==
  /\ pc[c] = "retry"
  /\ CompareExchange(c, 1, 2, "load", "look")

Retry(c) ==
  /\ pc[c] = "retry"
  /\ CompareExchange(c, 0, 2, "load", "look")

(* ++counter                                                                *)
LoadCounter(c) ==
  /\ pc[c] = "load"
  /\ seen' = [seen EXCEPT ![c] = counter]
  /\ Goto(c, "store")
  /\ UNCHANGED <<state, counter, asleep, left>>

StoreCounter(c) ==
  /\ pc[c] = "store"
  /\ counter' = seen[c] + 1
  /\ Goto(c, "release")
  /\ UNCHANGED <<state, asleep, left, seen>>

(* fetch_sub(1) != 1                                                        *)
Release(c) ==
  /\ pc[c] = "release"
  /\ state' = state - 1
  /\ left' = [left EXCEPT ![c] = @ - 1]
  /\ Goto(c, IF state = 1 THEN "try" ELSE "reset")
  /\ UNCHANGED <<counter, asleep, seen>>

(* store(0)                                                                 *)
Reset(c) ==
  /\ pc[c] = "reset"
  /\ state' = 0
  /\ Goto(c, "wake")
  /\ UNCHANGED <<counter, asleep, left, seen>>

(* Mutant: a wake of none.                                                  *)
WakeNone(c) ==
  /\ pc[c] = "wake"
  /\ Goto(c, "try")
  /\ UNCHANGED <<state, counter, asleep, left, seen>>

Wake(c) ==
  /\ pc[c] = "wake"
  /\ Task!WakeOne("state")
  /\ Goto(c, "try")
  /\ UNCHANGED <<state, counter, left, seen>>

SpuriousWake ==
  /\ \E c \in Contexts : Task!Spurious(c)
  /\ UNCHANGED <<state, counter, pc, left, seen>>

Runs(c) == \/ TryAcquire(c) \/ Look(c) \/ Mark(c) \/ Wait(c) \/ Resume(c) \/ Retry(c)
           \/ LoadCounter(c) \/ StoreCounter(c)
           \/ Release(c) \/ Reset(c) \/ Wake(c)

Next == \/ \E c \in Contexts : Start(c) \/ Runs(c)
        \/ SpuriousWake

(* A started context that is not suspended keeps running.                   *)
Spec == /\ Init /\ [][Next]_lockVars
        /\ \A c \in Contexts : WF_lockVars(Runs(c))

-----------------------------------------------------------------------------
(* Properties                                                               *)

Finished(c) == pc[c] = "try" /\ left[c] = 0

TypeOK ==
  /\ state \in 0..2
  /\ counter \in Nat
  /\ Task!SleepTypeOK
  /\ pc \in [Contexts -> At]
  /\ left \in [Contexts -> 0..Increments]
  /\ seen \in [Contexts -> Nat]

(* At most one context is between acquire() and the step of release() that  *)
(* frees the word, and the word is free exactly when none is.               *)
MutualExclusion ==
  /\ \A c, d \in Contexts : pc[c] \in Holding /\ pc[d] \in Holding => c = d
  /\ state = 0 <=> \A c \in Contexts : pc[c] \notin Holding

(* While a context is suspended upon the word a wake is still to come: the  *)
(* word says it is contended, a release is under way that will wake, or a   *)
(* contender that has not given up will find or leave the word contended.   *)
NoSleeperForgotten ==
  Task!Sleepers("state") # {} =>
    \/ state = 2
    \/ \E c \in Contexts : \/ pc[c] \in {"reset", "wake", "retry", "look", "mark"}
                           \/ pc[c] = "asleep" /\ asleep[c] = Task!Awake

(* "three contexts increment a counter 60000 times and none is lost".       *)
Made(c) == Increments - left[c] + (IF pc[c] = "release" THEN 1 ELSE 0)

Abstract == INSTANCE AtomicCounter
              WITH value <- counter, made <- [c \in Contexts |-> Made(c)]

ImplementsAtomicCounter == Abstract!CounterSpec

(* Every started context returns from its last release().                   *)
EveryContextFinishes == \A c \in Contexts : pc[c] # "unstarted" ~> Finished(c)

=============================================================================
