--------------------------- MODULE MCSaveRecovery ---------------------------
EXTENDS SaveRecovery

CONSTANTS z, s, k, f1, f2

FileSymmetry == Permutations(Files)
=============================================================================
