-------------------------------- MODULE MCClaims --------------------------------
EXTENDS Claims
================================================================================
