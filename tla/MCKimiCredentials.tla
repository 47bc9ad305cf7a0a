-------------------------- MODULE MCKimiCredentials --------------------------
EXTENDS KimiCredentials, TLC

Symmetry == Permutations(Users)
=============================================================================
