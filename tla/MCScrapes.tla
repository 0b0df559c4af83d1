------------------------------ MODULE MCScrapes ------------------------------
(***************************************************************************)
(* Two instances and two concurrent fetches.                                *)
(***************************************************************************)
EXTENDS Scrapes, TLC

CONSTANTS a, b, f1, f2

MCInstances == {a, b}
MCFetchers == {f1, f2}

MCSymmetry == Permutations(MCInstances) \cup Permutations(MCFetchers)
=============================================================================
