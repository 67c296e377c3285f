---------------------------- MODULE MCManualSync ----------------------------
EXTENDS ManualSync

CONSTANTS p1, p2, f1

PlayerSymmetry == Permutations(Players)
=============================================================================
