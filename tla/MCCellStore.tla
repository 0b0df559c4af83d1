----------------------------- MODULE MCCellStore -----------------------------
EXTENDS CellStore, TLC

CONSTANTS c1, c2, c3

MCCells == {c1, c2, c3}
MCAccounted == {c3}

Symmetry == Permutations({c1, c2})
=============================================================================
