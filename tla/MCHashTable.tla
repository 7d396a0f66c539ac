---------------------------- MODULE MCHashTable -----------------------------
EXTENDS HashTable, TLC

CONSTANTS a, b, c

\* With two buckets a and b share a chain, c has the other.
HashOf == a :> 0 @@ b :> 2 @@ c :> 1

Symmetry == Permutations(Threads)
=============================================================================
