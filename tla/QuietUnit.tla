------------------------------ MODULE QuietUnit ------------------------------
(***************************************************************************)
(* What an observable unit promises the program that watches it: once the  *)
(* unit has been reported quiet no program of it is at work, and none will *)
(* be admitted to it afterwards.                                           *)
(***************************************************************************)
CONSTANT Members   \* the programs that may be admitted to the unit

VARIABLES
  working,         \* the programs admitted and not yet ended
  quiet            \* whether the unit has been reported empty

QuietInit == working = {} /\ quiet = FALSE

Admit(p) ==
  /\ ~quiet
  /\ working' = working \union {p}
  /\ UNCHANGED quiet

End(S) ==
  /\ S \subseteq working
  /\ working' = working \ S
  /\ UNCHANGED quiet

Report ==
  /\ working = {}
  /\ quiet' = TRUE
  /\ UNCHANGED working

QuietNext ==
  \/ \E p \in Members : Admit(p)
  \/ \E S \in SUBSET Members : End(S)
  \/ Report

QuietSpec == QuietInit /\ [][QuietNext]_<<working, quiet>>
=============================================================================
