------------------------------ MODULE MCSuite ------------------------------
(* The suite in its environment, and the facts of SectionWays about the        *)
(* sections, which are evaluated with it.                                      *)
EXTENDS ConformanceSuite, SectionWays
=============================================================================
