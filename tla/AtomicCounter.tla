--------------------------- MODULE AtomicCounter ---------------------------
(***************************************************************************)
(* What a lock built from openkal.task promises the contexts that increment *)
(* a plain counter under it: every increment happens at once and none is   *)
(* lost (conformance/src/sections/task.cpp, examples/portable/src/main.cpp).*)
(***************************************************************************)
EXTENDS Integers

CONSTANT Contexts

VARIABLES value,        (* the counter                                     *)
          made          (* how many increments each context has made       *)

counterVars == <<value, made>>

CounterInit == value = 0 /\ made = [c \in Contexts |-> 0]

Increment(c) == /\ value' = value + 1
                /\ made' = [made EXCEPT ![c] = @ + 1]

CounterNext == \E c \in Contexts : Increment(c)

CounterSpec == CounterInit /\ [][CounterNext]_counterVars

=============================================================================
