----------------------------- MODULE MCChannel -----------------------------
(* Channel on a small ring: a capacity of two, indices that wrap at four,   *)
(* and a stream long enough to wrap them.                                   *)
EXTENDS Channel
MCWriteLens == {1, 3}
MCReadLens == {1, 2}
=============================================================================
