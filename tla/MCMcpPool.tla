----------------------------- MODULE MCMcpPool -----------------------------
EXTENDS McpPool, TLC

Symmetry == Permutations(Callers)
=============================================================================
