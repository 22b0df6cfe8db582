--------------------------- MODULE MCCounterTest ---------------------------
(* CounterTest with the handles given by number.                            *)
EXTENDS CounterTest

MCContexts == 0..2

=============================================================================
