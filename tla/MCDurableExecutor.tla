------------------------- MODULE MCDurableExecutor -------------------------
EXTENDS DurableExecutor, TLC

TwoAttempts == {<<"t1", 1>>, <<"t1", 2>>}
OneOffer == {<<"t1", 1>>}
=============================================================================
