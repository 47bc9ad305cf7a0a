--------------------------- MODULE MCSessionTurns ---------------------------
EXTENDS SessionTurns, TLC

Symmetry == Permutations(Turns)
=============================================================================
