--------------------------- MODULE MCLockedSystem ---------------------------
EXTENDS LockedInv, TLC

CONSTANTS c1, c2, p1, p2

TwoProcesses == c1 :> p1 @@ c2 :> p2
OneThread    == c1 :> p1

AllPairs == 1 .. 5
SafePairs == {1, 3, 5}

\* The two client processes, each with its thread, change places.
Swap == c1 :> c2 @@ c2 :> c1 @@ p1 :> p2 @@ p2 :> p1
Same == c1 :> c1 @@ c2 :> c2 @@ p1 :> p1 @@ p2 :> p2
Symmetry == {s @@ t : s \in {Swap, Same}, t \in Permutations(Ids)}

\* Bounds: one process gets SIGINT.  In pair 1 one client process is started, and
\* its thread draws two requests, or one if there is a SIGINT; in the others both are,
\* and draw one each.
Idle(p)   == mpc[p] = "spawning" /\ \A c \in Threads(p) : cpc[c] = "unborn"
Interrupts ==
  Cardinality({p \in Procs : mpc[p] \notin {"spawning", "joining"}})
    + One(spc \notin {"spawning", "joining"})
Draws == IF trial = 1 /\ Interrupts = 0 THEN 2 ELSE 1
FewSteps ==
  /\ Interrupts <= 1
  /\ trial = 1 => \E p \in Procs : Idle(p)
  /\ \A c \in Clients : num_requests[c] <= Draws
=============================================================================
