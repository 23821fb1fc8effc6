-------------------------------- MODULE MCDb --------------------------------
EXTENDS DbView, TLC

CONSTANTS k1, k2, k3, d1, d2, d3, p1, p2

\* k1 and k2 collide; k3 has a chain of its own and is as long as k1.
MCHashSum == (k1 :> 5) @@ (k2 :> 3) @@ (k3 :> 2)
MCKeyLen == (k1 :> 3) @@ (k2 :> 3) @@ (k3 :> 3)
MCDatLen == (d1 :> 2) @@ (d2 :> 3) @@ (d3 :> 3)
MCSym == Permutations(Procs)
=============================================================================
