------------------------- MODULE MCPaiementSessions -------------------------
EXTENDS PaiementSessions, TLC

Symmetry == Permutations(Workers) \cup Permutations(Orders)
=============================================================================
