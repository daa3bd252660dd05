------------------------------- MODULE HashRing -------------------------------
(***************************************************************************)
(* The consistent hash ring (ConsistentHashRing.cs).  A ring is a function *)
(* from the hashes of the virtual nodes on it to their nodes, as the       *)
(* sorted dictionary _ring is; PointsOf[n] is where the virtual nodes of n *)
(* hash to.                                                                *)
(***************************************************************************)
EXTENDS Integers, FiniteSets

CONSTANTS
    Nodes,
    PointsOf       \* PointsOf[n]: {Hash("n-i") : i \in 0.._virtualNodes-1}

ASSUME PointsAssumption == \A n \in Nodes : PointsOf[n] \in SUBSET Nat /\ IsFiniteSet(PointsOf[n])

EmptyRing == [h \in {} |-> {}]

(* A ring with a virtual node on it.                                        *)
IsRing(ring) ==
    /\ DOMAIN ring \in SUBSET Nat /\ IsFiniteSet(DOMAIN ring) /\ DOMAIN ring # {}
    /\ ring \in [DOMAIN ring -> Nodes]

(* A virtual node takes the place of another one with its hash.             *)
AddNode(ring, n) ==
    [h \in DOMAIN ring \cup PointsOf[n] |-> IF h \in PointsOf[n] THEN n ELSE ring[h]]

(* Whatever is at the places of n goes.                                     *)
RemoveNode(ring, n) == [h \in DOMAIN ring \ PointsOf[n] |-> ring[h]]

LeastOf(S) == CHOOSE x \in S : \A y \in S : x <= y

(* The first virtual node at the hash or after it, the first of all beyond  *)
(* the last one.                                                            *)
GetNode(ring, hash) ==
    LET after == {h \in DOMAIN ring : h >= hash} IN
    ring[LeastOf(IF after = {} THEN DOMAIN ring ELSE after)]

(* How many keys are before a hash: its place in the sorted list of them,   *)
(* and what BinarySearch gives or the complement of it.                     *)
IndexOf(ring, hash) == Cardinality({h \in DOMAIN ring : h < hash})

KeyAt(ring, i) == CHOOSE h \in DOMAIN ring : IndexOf(ring, h) = i

(* The nodes of count virtual nodes in a row, round the ring: a node comes  *)
(* again with the next of its virtual nodes.                                *)
GetNodes(ring, hash, count) ==
    [i \in 1..count |->
        ring[KeyAt(ring, (IndexOf(ring, hash) + i - 1) % Cardinality(DOMAIN ring))]]
=============================================================================
