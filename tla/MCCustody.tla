------------------------------- MODULE MCCustody -------------------------------
EXTENDS Custody, TLC

\* The envelopes are interchangeable.
MsgSymmetry == Permutations(Msg)
================================================================================
