---------------------------- MODULE MCRemoteSession ----------------------------
EXTENDS RemoteSession

CONSTANTS t1, t2

\* Two attempts of one task, and another task.
Keys == {<<t1, 1>>, <<t1, 2>>, <<t2, 1>>}

\* One task that is offered again to the same node.
TwoAttempts == {<<t1, 1>>, <<t1, 2>>}

FirstAttempt == {<<t1, 1>>}
================================================================================
