---------------------------- MODULE MCLifecycle ----------------------------
EXTENDS LifeInv, TLC

CONSTANTS c1, c2, p1, p2

TwoProcesses == c1 :> p1 @@ c2 :> p2
OneThread    == c1 :> p1

\* The two client processes, each with its thread, change places.
Swap == c1 :> c2 @@ c2 :> c1 @@ p1 :> p2 @@ p2 :> p1
Same == c1 :> c1 @@ c2 :> c2 @@ p1 :> p1 @@ p2 :> p2
Symmetry == {s @@ t : s \in {Swap, Same}, t \in Permutations(Ids)}
=============================================================================
