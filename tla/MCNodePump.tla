------------------------------- MODULE MCNodePump -------------------------------
EXTENDS NodePump
================================================================================
