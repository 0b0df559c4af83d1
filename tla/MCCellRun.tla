------------------------------ MODULE MCCellRun ------------------------------
EXTENDS CellRun, TLC

CONSTANTS e1, e2, r1, r2

MCEngines == {e1, e2}
MCRequests == {r1, r2}

Symmetry == Permutations(MCEngines) \cup Permutations(MCRequests)
=============================================================================
