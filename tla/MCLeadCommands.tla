--------------------------- MODULE MCLeadCommands ---------------------------
EXTENDS LeadCommands, TLC
Symmetry == Permutations(Nodes)
=============================================================================
