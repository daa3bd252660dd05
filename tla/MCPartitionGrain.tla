--------------------------- MODULE MCPartitionGrain ---------------------------
(* Model-checking definitions for PartitionGrain: three partitions, one of  *)
(* them with two virtual nodes.  Round the ring they come as a, b, c, a, so *)
(* that k1 at 1 is on a, b and c, and k2 at 4 on a, a and b.                *)
EXTENDS PartitionGrain, TLC
CONSTANTS a, b, c, k1, k2

Points == a :> {1, 4} @@ b :> {2} @@ c :> {3}
Hashes == [k \in Keys |-> IF k = k1 THEN 1 ELSE 4]
Order == <<a, b, c>>
=============================================================================
