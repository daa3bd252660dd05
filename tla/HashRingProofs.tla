---------------------------- MODULE HashRingProofs ----------------------------
(***************************************************************************)
(* What the ring of ConsistentHashRing.cs promises the partitions, for any *)
(* nodes, hashes and numbers of virtual nodes: the first of the nodes      *)
(* GetNodes names is the one GetNode names, every one of them is a node,   *)
(* and a node that comes or goes moves its own keys and no others.         *)
(***************************************************************************)
EXTENDS HashRing, FiniteSetTheorems, TLAPS

-----------------------------------------------------------------------------
(* The least of a set of numbers, and the places on the ring *)

LEMMA LeastExists ==
    ASSUME NEW S \in SUBSET Nat, S # {}
    PROVE  LeastOf(S) \in S /\ \A y \in S : LeastOf(S) <= y
<1>. DEFINE Upto(x) == {h \in S : h <= x}
            T == {Upto(x) : x \in S}
<1>1. \A x \in S : IsFiniteSet(Upto(x))
  BY FS_BoundedSetOfNaturals
<1>2. T \subseteq FiniteSubsetsOf(Nat) /\ T # {}
  BY <1>1 DEF FiniteSubsetsOf
<1>3. PICK U \in T : \A V \in T : <<V, U>> \notin StrictSubsetOrdering(Nat)
  <2>. HIDE DEF T
  <2>. QED
    BY <1>2, WFMin, FS_StrictSubsetOrderingWellFounded
<1>4. PICK x \in S : U = Upto(x)
  OBVIOUS
<1>5. ASSUME NEW y \in S, y < x PROVE FALSE
  <2>1. Upto(y) \in T
    OBVIOUS
  <2>0. \A h \in S : h \in Nat
    OBVIOUS
  <2>2. Upto(y) \subseteq U /\ U \subseteq Nat
    <3>1. ASSUME NEW h \in S, h <= y PROVE h <= x
      BY <2>0, <1>5, <3>1
    <3>. QED
      BY <1>4, <3>1
  <2>3. x \in U /\ x \notin Upto(y)
    BY <1>4, <1>5, <2>0
  <2>4. <<Upto(y), U>> \in StrictSubsetOrdering(Nat)
    <3>. HIDE DEF Upto, T
    <3>. QED
      BY <2>2, <2>3 DEF StrictSubsetOrdering
  <2>. QED
    BY <1>3, <2>1, <2>4
<1>6. \A y \in S : x <= y
  BY <1>5
<1>. QED
  BY <1>6 DEF LeastOf

LEMMA LeastIs ==
    ASSUME NEW S \in SUBSET Nat, NEW x \in S, \A y \in S : x <= y
    PROVE  LeastOf(S) = x
<1>1. LeastOf(S) \in S /\ LeastOf(S) <= x /\ x <= LeastOf(S)
  BY LeastExists
<1>2. x \in Nat /\ LeastOf(S) \in Nat
  BY <1>1
<1>. QED
  BY <1>1, <1>2

(* The place of a hash is a number up to the size of the ring, and grows    *)
(* with the hash.                                                           *)
LEMMA IndexGrows ==
    ASSUME NEW ring, IsRing(ring), NEW g \in Nat, NEW h \in Nat
    PROVE  /\ IndexOf(ring, h) \in 0..Cardinality(DOMAIN ring)
           /\ g <= h => IndexOf(ring, g) <= IndexOf(ring, h)
           /\ g \in DOMAIN ring /\ g < h => IndexOf(ring, g) < IndexOf(ring, h)
           /\ h \in DOMAIN ring => IndexOf(ring, h) < Cardinality(DOMAIN ring)
<1>. DEFINE D == DOMAIN ring
            Before(x) == {y \in D : y < x}
<1>1. D \in SUBSET Nat /\ IsFiniteSet(D)
  BY DEF IsRing
<1>. HIDE DEF D
<1>2. \A x \in Nat : /\ Before(x) \in SUBSET D /\ IsFiniteSet(Before(x))
                     /\ Cardinality(Before(x)) \in Nat
                     /\ Cardinality(Before(x)) <= Cardinality(D)
  BY <1>1, FS_Subset, FS_CardinalityType
<1>3. Cardinality(D) \in Nat
  BY <1>1, FS_CardinalityType
<1>4. ASSUME g <= h PROVE Cardinality(Before(g)) <= Cardinality(Before(h))
  <2>1. Before(g) \in SUBSET Before(h)
    <3>1. ASSUME NEW y \in D, y < g PROVE y < h
      BY <1>1, <1>4, <3>1
    <3>. QED
      BY <3>1
  <2>. QED
    BY <1>2, <2>1, FS_Subset
<1>5. ASSUME g \in D, g < h PROVE Cardinality(Before(g)) < Cardinality(Before(h))
  <2>1. Before(g) \in SUBSET Before(h) /\ g \in Before(h) /\ g \notin Before(g)
    <3>1. ASSUME NEW y \in D, y < g PROVE y < h
      BY <1>1, <1>5, <3>1
    <3>2. g \in Before(h) /\ g \notin Before(g)
      BY <1>5
    <3>. QED
      BY <3>1, <3>2
  <2>2. Cardinality(Before(g)) <= Cardinality(Before(h))
    BY <1>2, <2>1, FS_Subset
  <2>3. Cardinality(Before(g)) # Cardinality(Before(h))
    BY <1>2, <2>1, FS_Subset
  <2>. QED
    BY <1>2, <2>2, <2>3
<1>6. ASSUME h \in D PROVE Cardinality(Before(h)) < Cardinality(D)
  <2>1. h \notin Before(h)
    BY <1>1
  <2>2. Cardinality(Before(h)) # Cardinality(D)
    BY <1>1, <1>2, <1>6, <2>1, FS_Subset
  <2>. QED
    BY <1>2, <1>3, <2>2
<1>7. IndexOf(ring, g) = Cardinality(Before(g)) /\ IndexOf(ring, h) = Cardinality(Before(h))
  BY DEF IndexOf, D
<1>. QED
  BY <1>2, <1>3, <1>4, <1>5, <1>6, <1>7 DEF D

(* KeyAt finds a virtual node by its place. *)
LEMMA KeyAtIndex ==
    ASSUME NEW ring, IsRing(ring), NEW h \in DOMAIN ring
    PROVE  KeyAt(ring, IndexOf(ring, h)) = h
<1>1. ASSUME NEW g \in DOMAIN ring, IndexOf(ring, g) = IndexOf(ring, h)
      PROVE  g = h
  <2>1. g \in Nat /\ h \in Nat
    BY DEF IsRing
  <2>2. /\ IndexOf(ring, h) \in 0..Cardinality(DOMAIN ring)
        /\ g < h => IndexOf(ring, g) < IndexOf(ring, h)
        /\ h < g => IndexOf(ring, h) < IndexOf(ring, g)
    BY <2>1, IndexGrows
  <2>3. Cardinality(DOMAIN ring) \in Nat
    BY FS_CardinalityType DEF IsRing
  <2>. QED
    BY <1>1, <2>1, <2>2, <2>3
<1>. QED
  BY <1>1 DEF KeyAt

(* Every place on the ring is taken. *)
LEMMA KeyAtExists ==
    ASSUME NEW ring, IsRing(ring), NEW i \in 0..(Cardinality(DOMAIN ring) - 1)
    PROVE  KeyAt(ring, i) \in DOMAIN ring /\ IndexOf(ring, KeyAt(ring, i)) = i
<1>. DEFINE D == DOMAIN ring
            N == Cardinality(D)
            f == [h \in D |-> IndexOf(ring, h)]
<1>1. D \in SUBSET Nat /\ IsFiniteSet(D) /\ N \in Nat
  BY FS_CardinalityType DEF IsRing
<1>2. f \in [D -> 0..(N - 1)]
  BY <1>1, IndexGrows
<1>3. ASSUME NEW g \in D, NEW h \in D, f[g] = f[h] PROVE g = h
  <2>1. IndexOf(ring, g) = IndexOf(ring, h)
    BY <1>3
  <2>. QED
    BY <2>1, KeyAtIndex
<1>4. f \in Injection(D, 0..(N - 1))
  <2>. HIDE DEF f, D
  <2>. QED
    BY <1>2, <1>3 DEF Injection, IsInjective
<1>5. IsFiniteSet(0..(N - 1)) /\ Cardinality(0..(N - 1)) = N
  <2>. HIDE DEF N
  <2>. QED
    BY <1>1, FS_Interval
<1>6. f \in Surjection(D, 0..(N - 1))
  <2>. HIDE DEF f
  <2>. QED
    BY <1>4, <1>5, FS_Injection
<1>7. PICK h \in D : f[h] = i
  BY <1>6 DEF Surjection
<1>. QED
  BY <1>7 DEF KeyAt

(* The first node makes a ring; the next ones keep it one, see below.       *)
LEMMA FirstNode ==
    ASSUME NEW n \in Nodes, PointsOf[n] # {}
    PROVE  IsRing(AddNode(EmptyRing, n))
<1>1. DOMAIN AddNode(EmptyRing, n) = PointsOf[n]
  BY DEF AddNode, EmptyRing
<1>2. AddNode(EmptyRing, n) \in [PointsOf[n] -> Nodes]
  BY <1>1 DEF AddNode
<1>. QED
  BY <1>1, <1>2, PointsAssumption DEF IsRing

(* Where the key with a hash is: at the first virtual node at or after it,  *)
(* or the first of all.                                                     *)
LEMMA Holder ==
    ASSUME NEW ring, IsRing(ring), NEW hash \in Nat
    PROVE  \E h \in DOMAIN ring :
              /\ GetNode(ring, hash) = ring[h]
              /\ \/ hash <= h /\ \A g \in DOMAIN ring : hash <= g => h <= g
                 \/ \A g \in DOMAIN ring : g < hash /\ h <= g
<1>. DEFINE after == {h \in DOMAIN ring : h >= hash}
<1>1. DOMAIN ring \in SUBSET Nat /\ DOMAIN ring # {}
  BY DEF IsRing
<1>2. CASE after = {}
  <2>1. LeastOf(DOMAIN ring) \in DOMAIN ring /\ \A g \in DOMAIN ring : LeastOf(DOMAIN ring) <= g
    BY <1>1, LeastExists
  <2>2. \A g \in DOMAIN ring : g < hash
    BY <1>1, <1>2
  <2>3. GetNode(ring, hash) = ring[LeastOf(DOMAIN ring)]
    BY <1>2 DEF GetNode
  <2>. QED
    BY <2>1, <2>2, <2>3
<1>3. CASE after # {}
  <2>1. after \in SUBSET Nat
    BY <1>1
  <2>2. LeastOf(after) \in after /\ \A g \in after : LeastOf(after) <= g
    <3>. HIDE DEF after
    <3>. QED
      BY <1>3, <2>1, LeastExists
  <2>3. GetNode(ring, hash) = ring[LeastOf(after)]
    BY <1>3 DEF GetNode
  <2>4. LeastOf(after) \in DOMAIN ring /\ hash <= LeastOf(after)
    BY <1>1, <2>2
  <2>5. ASSUME NEW g \in DOMAIN ring, hash <= g PROVE LeastOf(after) <= g
    BY <1>1, <2>2, <2>5
  <2>. QED
    BY <2>3, <2>4, <2>5
<1>. QED
  BY <1>2, <1>3

-----------------------------------------------------------------------------
(* What the partitions rely on *)

(* The first of the replicas of a key is the partition that holds it:       *)
(* GetNodes, by binary search in the sorted keys, and GetNode agree.        *)
THEOREM PrimaryIsFirstReplica ==
    ASSUME NEW ring, IsRing(ring), NEW hash \in Nat, NEW count \in Nat \ {0}
    PROVE  GetNodes(ring, hash, count)[1] = GetNode(ring, hash)
<1>. DEFINE D == DOMAIN ring
            N == Cardinality(D)
            i == IndexOf(ring, hash)
<1>1. D \in SUBSET Nat /\ IsFiniteSet(D) /\ D # {} /\ N \in Nat
  BY FS_CardinalityType DEF IsRing
<1>2. N # 0 /\ i \in 0..N
  BY <1>1, FS_EmptySet, IndexGrows
<1>3. GetNodes(ring, hash, count)[1] = ring[KeyAt(ring, i % N)]
  <2>1. 1 \in 1..count
    OBVIOUS
  <2>2. GetNodes(ring, hash, count)[1] = ring[KeyAt(ring, (i + 1 - 1) % N)]
    BY <2>1 DEF GetNodes
  <2>3. i + 1 - 1 = i
    BY <1>2
  <2>. QED
    BY <2>2, <2>3
<1>4. PICK h \in D : /\ GetNode(ring, hash) = ring[h]
                     /\ \/ hash <= h /\ \A g \in D : hash <= g => h <= g
                        \/ \A g \in D : g < hash /\ h <= g
  BY Holder
<1>5. IndexOf(ring, h) = i % N
  <2>1. CASE hash <= h /\ \A g \in D : hash <= g => h <= g
    <3>1. {g \in D : g < h} = {g \in D : g < hash}
      <4>1. ASSUME NEW g \in D PROVE g < h <=> g < hash
        BY <1>1, <2>1
      <4>. QED
        BY <4>1
    <3>2. IndexOf(ring, h) = i
      BY <3>1 DEF IndexOf
    <3>3. i < N
      BY <1>1, <3>2, IndexGrows
    <3>. QED
      BY <1>1, <1>2, <3>2, <3>3
  <2>2. CASE \A g \in D : g < hash /\ h <= g
    <3>1. {g \in D : g < h} = {} /\ {g \in D : g < hash} = D
      <4>1. ASSUME NEW g \in D PROVE ~(g < h) /\ g < hash
        BY <1>1, <2>2
      <4>. QED
        BY <4>1
    <3>2. IndexOf(ring, h) = 0 /\ i = N
      BY <3>1, FS_EmptySet DEF IndexOf
    <3>. QED
      BY <1>1, <1>2, <3>2
  <2>. QED
    BY <1>4, <2>1, <2>2
<1>. QED
  BY <1>3, <1>4, <1>5, KeyAtIndex

(* Each of the replicas GetNodes names is a node that was added: the walk   *)
(* round the ring never leaves it.                                          *)
THEOREM ReplicasAreNodes ==
    ASSUME NEW ring, IsRing(ring), NEW hash \in Nat, NEW count \in Nat
    PROVE  GetNodes(ring, hash, count) \in [1..count -> Nodes]
<1>. DEFINE N == Cardinality(DOMAIN ring)
            place(i) == (IndexOf(ring, hash) + i - 1) % N
<1>1. N \in Nat \ {0} /\ IndexOf(ring, hash) \in 0..N
  BY FS_CardinalityType, FS_EmptySet, IndexGrows DEF IsRing
<1>2. ASSUME NEW i \in 1..count
      PROVE  ring[KeyAt(ring, place(i))] \in Nodes
  <2>1. place(i) \in 0..(N - 1)
    <3>. HIDE DEF N
    <3>. QED
      BY <1>1
  <2>2. KeyAt(ring, place(i)) \in DOMAIN ring
    <3>. HIDE DEF place
    <3>. QED
      BY <2>1, KeyAtExists
  <2>. QED
    BY <2>2 DEF IsRing
<1>. QED
  BY <1>2 DEF GetNodes

(* A partition that is added takes keys over, and no key moves from one of  *)
(* the others to another.                                                   *)
THEOREM AddMovesToTheNewNode ==
    ASSUME NEW ring, IsRing(ring), NEW n \in Nodes, NEW hash \in Nat
    PROVE  /\ IsRing(AddNode(ring, n))
           /\ GetNode(AddNode(ring, n), hash) \in {n, GetNode(ring, hash)}
<1>. DEFINE new == AddNode(ring, n)
<1>1. /\ DOMAIN ring \in SUBSET Nat /\ DOMAIN new = DOMAIN ring \cup PointsOf[n]
      /\ \A h \in DOMAIN new : new[h] = IF h \in PointsOf[n] THEN n ELSE ring[h]
  BY DEF IsRing, AddNode
<1>2. PointsOf[n] \in SUBSET Nat /\ IsFiniteSet(PointsOf[n])
  BY PointsAssumption
<1>3. IsRing(new)
  <2>1. IsFiniteSet(DOMAIN new)
    <3>1. IsFiniteSet(DOMAIN ring)
      BY DEF IsRing
    <3>2. IsFiniteSet(DOMAIN ring \cup PointsOf[n])
      BY <1>2, <3>1, FS_Union
    <3>. QED
      BY <1>1, <3>2
  <2>2. DOMAIN new \in SUBSET Nat /\ DOMAIN new # {}
    BY <1>1, <1>2 DEF IsRing
  <2>3. new \in [DOMAIN new -> Nodes]
    <3>1. \A h \in DOMAIN new : new[h] \in Nodes
      BY <1>1 DEF IsRing
    <3>2. new = [h \in DOMAIN new |-> new[h]]
      BY DEF AddNode
    <3>. QED
      BY <3>1, <3>2
  <2>. QED
    BY <2>1, <2>2, <2>3 DEF IsRing
<1>. HIDE DEF new
<1>4. PICK h \in DOMAIN ring : /\ GetNode(ring, hash) = ring[h]
                               /\ \/ hash <= h /\ \A g \in DOMAIN ring : hash <= g => h <= g
                                  \/ \A g \in DOMAIN ring : g < hash /\ h <= g
  BY Holder
<1>5. PICK k \in DOMAIN new : /\ GetNode(new, hash) = new[k]
                              /\ \/ hash <= k /\ \A g \in DOMAIN new : hash <= g => k <= g
                                 \/ \A g \in DOMAIN new : g < hash /\ k <= g
  BY <1>3, Holder
<1>6. GetNode(new, hash) \in {n, GetNode(ring, hash)}
  <2>1. CASE k \in PointsOf[n]
    BY <1>1, <1>5, <2>1
  <2>2. CASE k \notin PointsOf[n]
    <3>1. k \in DOMAIN ring /\ h \in DOMAIN new /\ new[k] = ring[k]
      BY <1>1, <2>2
    <3>2. \A g \in DOMAIN ring : g \in DOMAIN new /\ g \in Nat
      BY <1>1
    <3>3. k = h
      BY <1>4, <1>5, <3>1, <3>2
    <3>. QED
      BY <1>4, <1>5, <3>1, <3>3
  <2>. QED
    BY <2>1, <2>2
<1>. QED
  BY <1>3, <1>6 DEF new

(* A partition that goes gives its keys away, and no other key moves, when  *)
(* no other partition's virtual nodes have hashes of its own.               *)
THEOREM RemoveMovesOnlyItsKeys ==
    ASSUME NEW ring, IsRing(ring), NEW n \in Nodes, NEW hash \in Nat,
           \A h \in DOMAIN ring : h \in PointsOf[n] => ring[h] = n,
           DOMAIN ring \ PointsOf[n] # {},
           GetNode(ring, hash) # n
    PROVE  /\ IsRing(RemoveNode(ring, n))
           /\ GetNode(RemoveNode(ring, n), hash) = GetNode(ring, hash)
<1>. DEFINE new == RemoveNode(ring, n)
<1>1. /\ DOMAIN ring \in SUBSET Nat /\ DOMAIN new = DOMAIN ring \ PointsOf[n]
      /\ \A h \in DOMAIN new : new[h] = ring[h]
  BY DEF IsRing, RemoveNode
<1>2. IsRing(new)
  <2>1. IsFiniteSet(DOMAIN new)
    BY <1>1, FS_Subset DEF IsRing
  <2>2. DOMAIN new \in SUBSET Nat /\ DOMAIN new # {}
    BY <1>1
  <2>3. new \in [DOMAIN new -> Nodes]
    <3>1. \A h \in DOMAIN new : new[h] \in Nodes
      BY <1>1 DEF IsRing
    <3>2. new = [h \in DOMAIN new |-> new[h]]
      BY DEF RemoveNode
    <3>. QED
      BY <3>1, <3>2
  <2>. QED
    BY <2>1, <2>2, <2>3 DEF IsRing
<1>. HIDE DEF new
<1>3. PICK h \in DOMAIN ring : /\ GetNode(ring, hash) = ring[h]
                               /\ \/ hash <= h /\ \A g \in DOMAIN ring : hash <= g => h <= g
                                  \/ \A g \in DOMAIN ring : g < hash /\ h <= g
  BY Holder
<1>4. PICK k \in DOMAIN new : /\ GetNode(new, hash) = new[k]
                              /\ \/ hash <= k /\ \A g \in DOMAIN new : hash <= g => k <= g
                                 \/ \A g \in DOMAIN new : g < hash /\ k <= g
  BY <1>2, Holder
<1>5. h \in DOMAIN new /\ k \in DOMAIN ring
  BY <1>1, <1>3
<1>6. \A g \in DOMAIN new : g \in DOMAIN ring /\ g \in Nat
  BY <1>1
<1>7. k = h
  BY <1>3, <1>4, <1>5, <1>6
<1>. QED
  BY <1>1, <1>2, <1>3, <1>4, <1>7 DEF new
=============================================================================
