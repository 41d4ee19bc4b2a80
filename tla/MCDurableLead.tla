--------------------------- MODULE MCDurableLead ---------------------------
EXTENDS DurableLead, TLC
Symmetry == Permutations(Nodes)
=============================================================================
