------------------------------ MODULE TaskWait ------------------------------
(***************************************************************************)
(* The suspension primitive of openkal.task as the code in src/ uses it:   *)
(* kal_task_wait suspends the caller while a word holds an expected value, *)
(* kal_task_wake wakes contexts suspended upon a word.  The implementation *)
(* of both is not in this repository, so the module is external: what it   *)
(* says is what include/openkal/task.h promises a caller.                  *)
(*                                                                         *)
(* The comparison and the suspension are one step, which is the promise    *)
(* ("without an intervening opportunity for the value to change            *)
(* unobserved"): a caller writes                                           *)
(*    IF word # expected THEN <return> ELSE Suspend(c, w).                 *)
(***************************************************************************)
CONSTANTS Contexts,     (* the contexts that may be suspended              *)
          Words         (* the names of the words they suspend upon        *)

VARIABLE asleep         (* the word each context is suspended upon         *)

(* No word has this name.                                                  *)
Awake == "awake"

SleepTypeOK == asleep \in [Contexts -> Words \union {Awake}]

SleepInit == asleep = [c \in Contexts |-> Awake]

Sleepers(word) == {c \in Contexts : asleep[c] = word}

(* The suspension itself: the word holds what the caller expected.         *)
Suspend(c, word) == asleep' = [asleep EXCEPT ![c] = word]

(* kal_task_wake(word, 1, ...): one context that is suspended, whichever.   *)
WakeOne(word) ==
  \/ /\ Sleepers(word) = {}
     /\ UNCHANGED asleep
  \/ \E c \in Sleepers(word) : asleep' = [asleep EXCEPT ![c] = Awake]

(* kal_task_wake(word, n, ...) for an n no fewer than the contexts there    *)
(* can be upon the word: all of them.                                       *)
WakeAll(word) ==
  asleep' = [c \in Contexts |-> IF asleep[c] = word THEN Awake ELSE asleep[c]]

(* Waking is permitted to be spurious.                                     *)
Spurious(c) == /\ asleep[c] # Awake
               /\ asleep' = [asleep EXCEPT ![c] = Awake]

=============================================================================
