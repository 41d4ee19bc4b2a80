---------------------------- MODULE MCLegacyRelay ----------------------------
EXTENDS LegacyRelay

CONSTANTS g1, g2, aid, project

(* Each of two processes names the other as its peer.                      *)
TwoPeers == [g \in {g1, g2} |-> IF g = g1 THEN <<g2>> ELSE <<g1>>]
=============================================================================
