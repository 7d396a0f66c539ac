------------------------------ MODULE MCSystem ------------------------------
EXTENDS SystemInv, TLC

CONSTANTS c1, c2, p1, p2

OneProcess == c1 :> p1 @@ c2 :> p1

Symmetry == Permutations(Values) \cup Permutations(Workers) \cup Permutations(Ids)
=============================================================================
