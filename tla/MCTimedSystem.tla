--------------------------- MODULE MCTimedSystem ---------------------------
EXTENDS TimedSystem, TLC

CONSTANTS c1, c2, p1, p2

OneThread == c1 :> p1
=============================================================================
