------------------------------- MODULE MCRegistry -------------------------------
EXTENDS Registry, TLC
Symmetries == Permutations(Node) \union Permutations(Token)
================================================================================
