---------------------------- MODULE MCLeadTakeover ----------------------------
EXTENDS LeadTakeover, TLC

CONSTANTS n1, n2, A, B, C

\* The machines that may take the task over are interchangeable.
Symmetry == Permutations({B, C})
===============================================================================
