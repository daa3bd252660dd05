-------------------------- MODULE PartitionGrainProofs --------------------------
(***************************************************************************)
(* What the replicas of a key agree on, for any partitions, ring, number   *)
(* of replicas, of calls and of failures.  Beside the property the         *)
(* inductive invariant says which request belongs to which call, where in  *)
(* the list of the replicas a put is, and that the replica whose reply a   *)
(* put has got holds the new value.                                        *)
(***************************************************************************)
EXTENDS PartitionGrain, HashRingProofs, SequenceTheorems

Types ==
    /\ cache \in [Partitions -> [Keys -> Values \cup {Nil}]]
    /\ turn \in [Partitions -> Turn \cup {Nil}]
    /\ requests \subseteq Request
    /\ answer \in [Partitions -> Answer]
    /\ puts \in 0..MaxPuts /\ gets \in 0..MaxGets /\ failures \in 0..MaxFailures
    /\ latest \in [Keys -> Values \cup {Nil}]
    /\ agreed \in [Keys -> BOOLEAN] /\ steady \in [Keys -> BOOLEAN]

Linked ==
    \A p \in Partitions :
        /\ turn[p] = Nil <=> answer[p] = Idle
        /\ turn[p] # Nil => turn[p].todo # <<>>
        /\ \A r \in requests : r.from = p => answer[p] = Waiting /\ r.to = Head(turn[p].todo)

(* A call has one request, for what it is about; clients' calls and what    *)
(* is left of calls that ended have no caller.                              *)
Matched ==
    /\ \A r \in requests : r.from # Nil =>
        /\ r.op = IF turn[r.from].op = "ask" THEN "getReplica" ELSE "putReplica"
        /\ r.key = turn[r.from].key /\ r.val = turn[r.from].val
    /\ \A r, s \in requests : r.from = s.from /\ r.from # Nil => r = s
    /\ \A r \in requests : r.op = "put" => r.to = Primary(r.key)
    /\ \A p \in Partitions : turn[p] # Nil => turn[p].from = Nil

(* A put has the last replicas of its key before it. *)
InPlace(p, t) ==
    t # Nil /\ t.op = "put" =>
        /\ p = Primary(t.key) /\ t.skip = {} /\ Len(t.todo) < ReplicaCount
        /\ \A i \in 1..Len(t.todo) : t.todo[i] = GetReplicas[t.key][ReplicaCount - Len(t.todo) + i]

PutsInPlace == \A p \in Partitions : InPlace(p, turn[p])

Agreement(k) ==
    IF Putting(k)
    THEN LET t == turn[Primary(k)] IN
         /\ steady[k] => \A r \in Passed(k, t) : cache[r][k] = t.val
         /\ steady[k] /\ agreed[k] => \A r \in Ahead(k, t) : cache[r][k] = latest[k]
         /\ steady[k] /\ answer[Primary(k)].status = "ok" => cache[Head(t.todo)][k] = t.val
    ELSE agreed[k] => \A r \in Replicas(k) : cache[r][k] = latest[k]

CallsInv == Types /\ Linked /\ Matched /\ PutsInPlace

GrainInv == CallsInv /\ \A k \in Keys : Agreement(k)

-----------------------------------------------------------------------------
(* The ring.  FoldLeft is a function on the subsets of the positions, which *)
(* takes the greatest of them out first; the ring of the first n partitions *)
(* is its value at 1..n.                                                    *)

Positions == DOMAIN Placement

(* The function FoldLeft folds with. *)
Building(h) ==
    h = [s \in SUBSET Positions |->
            IF s = {} THEN EmptyRing ELSE AddNode(h[s \ {Max(s)}], Placement[Max(s)])]

LEMMA PositionFacts ==
    /\ Positions = 1..Len(Placement) /\ Len(Placement) \in Nat /\ Len(Placement) # 0
    /\ IsFiniteSet(Positions) /\ Cardinality(Positions) = Len(Placement)
    /\ \A i \in Positions : Placement[i] \in Nodes /\ PointsOf[Placement[i]] # {}
<1>1. Positions = 1..Len(Placement) /\ Len(Placement) \in Nat /\ Len(Placement) # 0
  BY GrainAssumption DEF Positions
<1>2. IsFiniteSet(Positions) /\ Cardinality(Positions) = Len(Placement)
  BY <1>1, FS_Interval
<1>3. \A i \in Positions : Placement[i] \in Nodes /\ PointsOf[Placement[i]] # {}
  BY GrainAssumption DEF Positions
<1>. QED
  BY <1>1, <1>2, <1>3

LEMMA MaxInSet ==
    ASSUME NEW s \in SUBSET Positions, s # {}
    PROVE  Max(s) \in s /\ \A y \in s : Max(s) >= y
<1>. DEFINE N == Len(Placement)
            T == {N - x : x \in s}
<1>1. N \in Nat /\ s \subseteq 1..N
  BY PositionFacts
<1>. HIDE DEF N
<1>2. T \in SUBSET Nat /\ T # {}
  BY <1>1
<1>3. PICK m \in T : \A y \in T : m <= y
  BY <1>2, LeastExists
<1>4. PICK x \in s : m = N - x
  BY <1>3
<1>5. \A y \in s : x >= y
  <2>. SUFFICES ASSUME NEW y \in s PROVE x >= y
    OBVIOUS
  <2>1. N - x <= N - y
    BY <1>3, <1>4
  <2>. QED
    BY <1>1, <2>1
<1>. QED
  BY <1>5 DEF Max

(* There is such a function: by induction on the size of the subset.        *)
LEMMA BuildingExists == \E h : Building(h)
<1>. DEFINE L(n) == {s \in SUBSET Positions : Cardinality(s) <= n}
            G(n) == \E h : h = [s \in L(n) |->
                        IF s = {} THEN EmptyRing
                        ELSE AddNode(h[s \ {Max(s)}], Placement[Max(s)])]
            B == {n \in Nat : ~ G(n)}
<1>1. \A s \in SUBSET Positions : IsFiniteSet(s) /\ Cardinality(s) \in Nat
  BY PositionFacts, FS_Subset, FS_CardinalityType
<1>2. \A s \in SUBSET Positions : s # {} =>
         /\ s \ {Max(s)} \in SUBSET Positions
         /\ Cardinality(s \ {Max(s)}) = Cardinality(s) - 1
  BY <1>1, MaxInSet, FS_RemoveElement
<1>3. ASSUME B # {} PROVE FALSE
  <2>1. PICK m \in B : \A n \in B : m <= n
    <3>1. B \in SUBSET Nat
      OBVIOUS
    <3>. HIDE DEF B
    <3>. QED
      BY <1>3, <3>1, LeastExists
  <2>2. CASE m = 0
    <3>1. \A s \in L(0) : s = {}
      BY <1>1, FS_EmptySet
    <3>. DEFINE h == [s \in L(0) |-> EmptyRing]
    <3>2. h = [s \in L(0) |-> IF s = {} THEN EmptyRing
                              ELSE AddNode(h[s \ {Max(s)}], Placement[Max(s)])]
      BY <3>1
    <3>. QED
      BY <2>1, <2>2, <3>2
  <2>3. CASE m # 0
    <3>1. m \in Nat /\ m - 1 \in Nat /\ G(m - 1)
      <4>1. m \in Nat /\ m - 1 \in Nat
        BY <2>3
      <4>. HIDE DEF G
      <4>2. m - 1 \in B => m <= m - 1
        BY <2>1
      <4>3. m - 1 \notin B
        BY <4>1, <4>2
      <4>. QED
        BY <4>1, <4>3
    <3>2. PICK g : g = [s \in L(m - 1) |->
                          IF s = {} THEN EmptyRing
                          ELSE AddNode(g[s \ {Max(s)}], Placement[Max(s)])]
      BY <3>1
    <3>. DEFINE h == [s \in L(m) |-> IF s = {} THEN EmptyRing
                                     ELSE AddNode(g[s \ {Max(s)}], Placement[Max(s)])]
    <3>3. \A s \in L(m) : s # {} => s \ {Max(s)} \in L(m - 1) /\ s \ {Max(s)} \in L(m)
      BY <1>1, <1>2, <3>1
    <3>4. \A s \in L(m - 1) : s \in L(m) /\ g[s] = h[s]
      <4>1. \A s \in L(m - 1) : s \in L(m)
        BY <1>1, <3>1
      <4>. QED
        BY <3>2, <4>1
    <3>5. h = [s \in L(m) |-> IF s = {} THEN EmptyRing
                              ELSE AddNode(h[s \ {Max(s)}], Placement[Max(s)])]
      <4>. HIDE DEF L
      <4>1. \A s \in L(m) : h[s] = IF s = {} THEN EmptyRing
                                   ELSE AddNode(g[s \ {Max(s)}], Placement[Max(s)])
        OBVIOUS
      <4>. HIDE DEF h
      <4>2. \A s \in L(m) : s # {} => g[s \ {Max(s)}] = h[s \ {Max(s)}]
        BY <3>3, <3>4
      <4>3. \A s \in L(m) : h[s] = IF s = {} THEN EmptyRing
                                   ELSE AddNode(h[s \ {Max(s)}], Placement[Max(s)])
        BY <4>1, <4>2
      <4>4. h = [s \in L(m) |-> h[s]]
        BY DEF h
      <4>. QED
        BY <4>3, <4>4
    <3>. QED
      BY <2>1, <3>5
  <2>. QED
    BY <2>2, <2>3
<1>4. L(Len(Placement)) = SUBSET Positions
  <2>1. \A s \in SUBSET Positions : Cardinality(s) <= Len(Placement)
    BY PositionFacts, FS_Subset
  <2>. QED
    BY <2>1
<1>. HIDE DEF L
<1>5. G(Len(Placement))
  <2>. HIDE DEF G
  <2>1. \A n \in Nat : G(n)
    BY <1>3
  <2>2. Len(Placement) \in Nat
    BY PositionFacts
  <2>. QED
    BY <2>1, <2>2
<1>. QED
  BY <1>4, <1>5 DEF Building

(* What ring the first n partitions make: on it are their points, each with *)
(* the last of them that has it.                                            *)
Placed(ring, n) ==
    /\ DOMAIN ring = UNION {PointsOf[Placement[i]] : i \in 1..n}
    /\ \A i \in 1..n : \A p \in PointsOf[Placement[i]] :
          (\A j \in (i + 1)..n : p \notin PointsOf[Placement[j]]) => ring[p] = Placement[i]

LEMMA RingSteps ==
    \E h : /\ Ring = h[1..Len(Placement)] /\ h[{}] = EmptyRing
           /\ \A n \in 1..Len(Placement) : h[1..n] = AddNode(h[1..(n - 1)], Placement[n])
<1>. DEFINE h == CHOOSE h : Building(h)
<1>1. Building(h)
  BY BuildingExists
<1>2. Ring = h[Positions]
  BY DEF Ring, FoldLeft, MapThenFoldSet, Building, Positions
<1>. HIDE DEF h
<1>3. h[{}] = EmptyRing
  BY <1>1 DEF Building
<1>4. ASSUME NEW n \in 1..Len(Placement)
      PROVE  h[1..n] = AddNode(h[1..(n - 1)], Placement[n])
  <2>1. 1..n \in SUBSET Positions /\ 1..n # {} /\ n \in Nat
    BY PositionFacts
  <2>2. Max(1..n) = n
    <3>1. PICK s \in SUBSET Positions : s = 1..n
      BY <2>1
    <3>2. Max(s) \in s /\ \A y \in s : Max(s) >= y
      BY <2>1, <3>1, MaxInSet
    <3>3. n \in s /\ \A y \in s : y \in Nat /\ y <= n
      BY <2>1, <3>1
    <3>. QED
      BY <3>1, <3>2, <3>3
  <2>3. (1..n) \ {n} = 1..(n - 1)
    BY <2>1
  <2>4. h[1..n] = AddNode(h[(1..n) \ {Max(1..n)}], Placement[Max(1..n)])
    BY <1>1, <2>1 DEF Building
  <2>. QED
    BY <2>2, <2>3, <2>4
<1>. QED
  BY <1>2, <1>3, <1>4, PositionFacts

(* The constructor of ConsistentHashRing adds the nodes one after the       *)
(* other: it makes a ring of any placement, all their virtual nodes are on  *)
(* it, and where two nodes hash to one place the later one has it.          *)
THEOREM RingIsPlaced == IsRing(Ring) /\ Placed(Ring, Len(Placement))
<1>1. PICK h : /\ Ring = h[1..Len(Placement)] /\ h[{}] = EmptyRing
               /\ \A n \in 1..Len(Placement) : h[1..n] = AddNode(h[1..(n - 1)], Placement[n])
  BY RingSteps
<1>. DEFINE Bad == {n \in 1..Len(Placement) : ~ (IsRing(h[1..n]) /\ Placed(h[1..n], n))}
<1>2. Bad \in SUBSET Nat
  BY PositionFacts
<1>3. ASSUME Bad # {} PROVE FALSE
  <2>1. PICK n \in Bad : \A m \in Bad : n <= m
    <3>. HIDE DEF Bad
    <3>. QED
      BY <1>2, <1>3, LeastExists
  <2>2. /\ n \in 1..Len(Placement) /\ n \in Nat /\ Placement[n] \in Nodes
        /\ PointsOf[Placement[n]] # {}
    BY PositionFacts
  <2>. DEFINE before == h[1..(n - 1)]
              p == Placement[n]
  <2>3. h[1..n] = AddNode(before, p)
    BY <1>1, <2>2
  <2>4. CASE n = 1
    <3>1. before = EmptyRing
      BY <1>1, <2>4
    <3>2. IsRing(AddNode(EmptyRing, p))
      BY <2>2, FirstNode
    <3>3. Placed(AddNode(EmptyRing, p), 1)
      <4>1. /\ DOMAIN AddNode(EmptyRing, p) = PointsOf[p]
            /\ \A q \in PointsOf[p] : AddNode(EmptyRing, p)[q] = p
        BY DEF AddNode, EmptyRing
      <4>2. 1..1 = {1}
        OBVIOUS
      <4>. HIDE DEF p
      <4>3. UNION {PointsOf[Placement[i]] : i \in {1}} = PointsOf[p]
        BY <2>4 DEF p
      <4>. QED
        BY <2>4, <4>1, <4>2, <4>3 DEF Placed, p
    <3>. QED
      BY <2>1, <2>3, <2>4, <3>1, <3>2, <3>3
  <2>5. CASE n # 1
    <3>1. n - 1 \in 1..Len(Placement) /\ ~ (n <= n - 1)
      BY <2>2, <2>5, PositionFacts
    <3>2. IsRing(before) /\ Placed(before, n - 1)
      BY <2>1, <3>1
    <3>. HIDE DEF before, p, Bad
    <3>3. IsRing(AddNode(before, p))
      <4>1. 0 \in Nat
        OBVIOUS
      <4>. QED
        BY <2>2, <3>2, <4>1, AddMovesToTheNewNode DEF p
    <3>4. /\ DOMAIN AddNode(before, p) = DOMAIN before \cup PointsOf[p]
          /\ \A q \in DOMAIN before \cup PointsOf[p] :
                AddNode(before, p)[q] = IF q \in PointsOf[p] THEN p ELSE before[q]
      BY DEF AddNode
    <3>5. DOMAIN AddNode(before, p) = UNION {PointsOf[Placement[i]] : i \in 1..n}
      <4>1. 1..n = (1..(n - 1)) \cup {n}
        BY <2>2
      <4>2. UNION {PointsOf[Placement[i]] : i \in (1..(n - 1)) \cup {n}}
               = (UNION {PointsOf[Placement[i]] : i \in 1..(n - 1)}) \cup PointsOf[Placement[n]]
        OBVIOUS
      <4>. QED
        BY <3>2, <3>4, <4>1, <4>2 DEF Placed, p
    <3>6. ASSUME NEW i \in 1..n, NEW q \in PointsOf[Placement[i]],
                 \A j \in (i + 1)..n : q \notin PointsOf[Placement[j]]
          PROVE  AddNode(before, p)[q] = Placement[i]
      <4>1. CASE i = n
        BY <3>4, <4>1 DEF p
      <4>2. CASE i # n
        <5>1. i \in 1..(n - 1) /\ n \in (i + 1)..n
          BY <2>2, <4>2
        <5>2. q \notin PointsOf[p] /\ \A j \in (i + 1)..(n - 1) : q \notin PointsOf[Placement[j]]
          <6>1. \A j \in (i + 1)..(n - 1) : j \in (i + 1)..n
            BY <2>2
          <6>. QED
            BY <3>6, <5>1, <6>1 DEF p
        <5>3. q \in DOMAIN before /\ before[q] = Placement[i]
          BY <3>2, <5>1, <5>2 DEF Placed
        <5>. QED
          BY <3>4, <5>2, <5>3
      <4>. QED
        BY <4>1, <4>2
    <3>7. Placed(AddNode(before, p), n)
      BY <3>5, <3>6 DEF Placed
    <3>. QED
      BY <2>1, <2>3, <3>3, <3>7 DEF Bad
  <2>. QED
    BY <2>4, <2>5
<1>4. Len(Placement) \in 1..Len(Placement)
  BY PositionFacts
<1>. QED
  BY <1>1, <1>3, <1>4

-----------------------------------------------------------------------------
(* The replicas of a key *)

LEMMA SeqOfFunction ==
    ASSUME NEW n \in Nat, NEW S, NEW s \in [1..n -> S]
    PROVE  s \in Seq(S) /\ Len(s) = n
OBVIOUS

LEMMA ReplicaFacts ==
    ASSUME NEW k \in Keys
    PROVE  /\ GetReplicas[k] \in Seq(Partitions) /\ Len(GetReplicas[k]) = ReplicaCount
           /\ ReplicaCount \in Nat \ {0}
           /\ \A i \in 1..ReplicaCount : GetReplicas[k][i] \in Partitions
           /\ Primary(k) \in Partitions
           /\ Replicas(k) = {GetReplicas[k][i] : i \in 1..ReplicaCount}
           /\ Primary(k) \in Replicas(k) /\ Replicas(k) \subseteq Partitions
           /\ OthersOf(k) \in Seq(Partitions) /\ Len(OthersOf(k)) = ReplicaCount - 1
           /\ \A i \in 1..(ReplicaCount - 1) : OthersOf(k)[i] = GetReplicas[k][i + 1]
<1>1. ReplicaCount \in Nat \ {0} /\ KeyHash[k] \in Nat
  BY GrainAssumption
<1>2. GetReplicas[k] \in [1..ReplicaCount -> Partitions]
  BY <1>1, RingIsPlaced, ReplicasAreNodes DEF GetReplicas, Partitions
<1>. HIDE DEF GetReplicas
<1>3. GetReplicas[k] \in Seq(Partitions) /\ Len(GetReplicas[k]) = ReplicaCount
  BY <1>1, <1>2, SeqOfFunction
<1>4. DOMAIN GetReplicas[k] = 1..ReplicaCount /\ 1 \in 1..ReplicaCount
  BY <1>1, <1>2
<1>5. Replicas(k) = {GetReplicas[k][i] : i \in 1..ReplicaCount}
  BY <1>4 DEF Replicas, ToSet
<1>6. GetReplicas[k] # <<>>
  BY <1>1, <1>3
<1>7. /\ OthersOf(k) \in Seq(Partitions) /\ Len(OthersOf(k)) = ReplicaCount - 1
      /\ \A i \in 1..(ReplicaCount - 1) : OthersOf(k)[i] = GetReplicas[k][i + 1]
  BY <1>1, <1>3, <1>6, HeadTailProperties DEF OthersOf
<1>. QED
  BY <1>1, <1>2, <1>3, <1>4, <1>5, <1>7 DEF Primary

LEMMA FromFacts ==
    ASSUME NEW s \in Seq(Partitions), NEW skip
    PROVE  From(s, skip) \in Seq(Partitions) /\ From(s, {}) = s
<1>1. ASSUME NEW next \in SUBSET DOMAIN s, next # {}
      PROVE  SubSeq(s, LeastOf(next), Len(s)) \in Seq(Partitions)
  <2>1. DOMAIN s \in SUBSET Nat
    OBVIOUS
  <2>2. LeastOf(next) \in DOMAIN s
    BY <1>1, <2>1, LeastExists
  <2>. QED
    BY <2>2
<1>2. From(s, skip) \in Seq(Partitions)
  <2>. DEFINE next == {i \in DOMAIN s : s[i] \notin skip}
  <2>1. From(s, skip) = IF next = {} THEN <<>> ELSE SubSeq(s, LeastOf(next), Len(s))
    BY DEF From
  <2>2. next \in SUBSET DOMAIN s
    OBVIOUS
  <2>. HIDE DEF next
  <2>. QED
    BY <1>1, <2>1, <2>2
<1>3. {i \in DOMAIN s : s[i] \notin {}} = DOMAIN s
  OBVIOUS
<1>4. CASE s = <<>>
  BY <1>3, <1>4 DEF From
<1>5. CASE s # <<>>
  <2>1. DOMAIN s \in SUBSET Nat /\ 1 \in DOMAIN s /\ \A i \in DOMAIN s : 1 <= i
    BY <1>5
  <2>2. LeastOf(DOMAIN s) = 1
    BY <2>1, LeastIs
  <2>3. From(s, {}) = SubSeq(s, 1, Len(s))
    BY <1>3, <2>1, <2>2 DEF From
  <2>. QED
    BY <1>2, <2>3, SubSeqFull
<1>. QED
  BY <1>2, <1>4, <1>5

-----------------------------------------------------------------------------
(* The calls: what the parts that handlers share do to them *)

(* A call goes on: its next request, or its end.                            *)
LEMMA ContinueEffect ==
    ASSUME CallsInv, NEW p \in Partitions, NEW t \in Turn, NEW reply, NEW pending,
           pending \subseteq requests, \A r \in pending : r.from # p, t.from = Nil,
           Continue(p, t, reply, pending)
    PROVE  /\ turn' \in [Partitions -> Turn \cup {Nil}] /\ requests' \subseteq Request
           /\ answer' \in [Partitions -> Answer]
           /\ Linked' /\ Matched'
           /\ \A q \in Partitions : q # p => turn'[q] = turn[q] /\ answer'[q] = answer[q]
           /\ turn'[p] = IF t.todo = <<>> THEN Nil ELSE t
           /\ answer'[p].status # "ok"
<1>0. /\ turn \in [Partitions -> Turn \cup {Nil}] /\ requests \subseteq Request
      /\ answer \in [Partitions -> Answer] /\ Linked /\ Matched
      /\ Nil \notin Partitions /\ Nil \notin Turn
  BY NilAssumption DEF CallsInv, Types
<1>1. Idle \in Answer /\ Waiting \in Answer /\ Idle # Waiting
  BY DEF Idle, Waiting, Answer
<1>2. answer' = [answer EXCEPT ![p] = IF t.todo = <<>> THEN Idle ELSE Waiting]
  <2>1. Answered(Nil, reply) = answer
    BY <1>0 DEF Answered
  <2>. QED
    BY <2>1 DEF Continue
<1>3. turn' = [turn EXCEPT ![p] = IF t.todo = <<>> THEN Nil ELSE t]
  BY DEF Continue
<1>4. /\ turn' \in [Partitions -> Turn \cup {Nil}]
      /\ answer' \in [Partitions -> Answer]
      /\ \A q \in Partitions : q # p => turn'[q] = turn[q] /\ answer'[q] = answer[q]
      /\ turn'[p] = IF t.todo = <<>> THEN Nil ELSE t
      /\ answer'[p] = IF t.todo = <<>> THEN Idle ELSE Waiting
  BY <1>0, <1>1, <1>2, <1>3
<1>. DEFINE new == [to |-> Head(t.todo), op |-> IF t.op = "ask" THEN "getReplica" ELSE "putReplica",
                    key |-> t.key, val |-> t.val, from |-> p]
<1>5. requests' = pending \cup (IF t.todo = <<>> THEN {} ELSE {new})
  BY DEF Continue
<1>6. t.todo # <<>> => new \in Request
  <2>1. t.todo \in Seq(Partitions) /\ t.key \in Keys /\ t.val \in Values \cup {Nil}
    BY DEF Turn
  <2>2. t.todo # <<>> => Head(t.todo) \in Partitions
    BY <2>1
  <2>. QED
    BY <2>1, <2>2 DEF Request, Operations
<1>7. /\ t.todo # <<>> => /\ new.to = Head(t.todo) /\ new.key = t.key /\ new.val = t.val
                          /\ new.op = (IF t.op = "ask" THEN "getReplica" ELSE "putReplica")
                          /\ new.from = p
      /\ \A r \in requests' : r \in requests \/ (t.todo # <<>> /\ r = new)
      /\ \A r \in requests' : r \in pending \/ (t.todo # <<>> /\ r = new)
      /\ requests' \subseteq Request
  BY <1>0, <1>5, <1>6
<1>. HIDE DEF new
<1>8. Linked'
  <2>1. ASSUME NEW q \in Partitions
        PROVE  /\ turn'[q] = Nil <=> answer'[q] = Idle
               /\ turn'[q] # Nil => turn'[q].todo # <<>>
    BY <1>0, <1>1, <1>4 DEF Linked
  <2>2. ASSUME NEW q \in Partitions, NEW r \in requests', r.from = q
        PROVE  answer'[q] = Waiting /\ r.to = Head(turn'[q].todo)
    BY <1>0, <1>4, <1>7, <2>2 DEF Linked
  <2>. QED
    BY <2>1, <2>2 DEF Linked
<1>9. Matched'
  <2>1. ASSUME NEW r \in requests', r.from # Nil
        PROVE  /\ r.op = IF turn'[r.from].op = "ask" THEN "getReplica" ELSE "putReplica"
               /\ r.key = turn'[r.from].key /\ r.val = turn'[r.from].val
    <3>1. CASE r = new /\ t.todo # <<>>
      BY <1>4, <1>7, <3>1
    <3>2. CASE r \in pending
      <4>1. r.from \in Partitions /\ r.from # p /\ r \in requests
        BY <1>0, <2>1, <3>2 DEF Request
      <4>. QED
        BY <1>0, <1>4, <2>1, <4>1 DEF Matched
    <3>. QED
      BY <1>7, <3>1, <3>2
  <2>2. ASSUME NEW r \in requests', NEW s \in requests', r.from = s.from, r.from # Nil
        PROVE  r = s
    BY <1>0, <1>7, <2>2 DEF Matched
  <2>3. ASSUME NEW r \in requests', r.op = "put" PROVE r.to = Primary(r.key)
    BY <1>0, <1>7, <2>3 DEF Matched
  <2>4. ASSUME NEW q \in Partitions, turn'[q] # Nil PROVE turn'[q].from = Nil
    BY <1>0, <1>4, <2>4 DEF Matched
  <2>. QED
    BY <2>1, <2>2, <2>3, <2>4 DEF Matched
<1>10. answer'[p].status # "ok"
  BY <1>4 DEF Idle, Waiting
<1>. QED
  BY <1>4, <1>7, <1>8, <1>9, <1>10

(* A request is done with, and its caller has the reply.                    *)
LEMMA ReplyEffect ==
    ASSUME CallsInv, NEW r \in requests, NEW reply \in Answer,
           reply # Idle, reply # Waiting, UNCHANGED turn,
           requests' = requests \ {r}, answer' = Answered(r.from, reply)
    PROVE  /\ turn' \in [Partitions -> Turn \cup {Nil}] /\ requests' \subseteq Request
           /\ answer' \in [Partitions -> Answer]
           /\ Linked' /\ Matched'
           /\ \A q \in Partitions : answer'[q] = IF q = r.from THEN reply ELSE answer[q]
<1>0. /\ turn \in [Partitions -> Turn \cup {Nil}] /\ requests \subseteq Request
      /\ answer \in [Partitions -> Answer] /\ Linked /\ Matched
      /\ Nil \notin Partitions /\ Nil \notin Turn
  BY NilAssumption DEF CallsInv, Types
<1>1. \A q \in Partitions : answer'[q] = IF q = r.from THEN reply ELSE answer[q]
  BY DEF Answered
<1>2. answer' \in [Partitions -> Answer]
  BY <1>0 DEF Answered
<1>3. Linked'
  <2>1. ASSUME NEW q \in Partitions
        PROVE  /\ turn'[q] = Nil <=> answer'[q] = Idle
               /\ turn'[q] # Nil => turn'[q].todo # <<>>
    <3>1. CASE q = r.from
      <4>1. answer[q] = Waiting /\ Waiting # Idle
        BY <1>0, <3>1 DEF Linked, Waiting, Idle
      <4>. QED
        BY <1>0, <1>1, <3>1, <4>1 DEF Linked
    <3>2. CASE q # r.from
      BY <1>0, <1>1, <3>2 DEF Linked
    <3>. QED
      BY <3>1, <3>2
  <2>2. ASSUME NEW q \in Partitions, NEW s \in requests', s.from = q
        PROVE  answer'[q] = Waiting /\ s.to = Head(turn'[q].todo)
    <3>1. s \in requests /\ s # r /\ s.from # Nil
      BY <1>0, <2>2
    <3>2. q # r.from
      BY <1>0, <2>2, <3>1 DEF Matched
    <3>. QED
      BY <1>0, <1>1, <2>2, <3>1, <3>2 DEF Linked
  <2>. QED
    BY <2>1, <2>2 DEF Linked
<1>4. Matched'
  BY <1>0 DEF Matched
<1>. QED
  BY <1>0, <1>1, <1>2, <1>3, <1>4

(* Nobody waits for what p has asked for any more.                          *)
LEMMA AbandonEffect ==
    ASSUME CallsInv, NEW p \in Partitions, Abandon(p)
    PROVE  /\ requests' \subseteq Request /\ Orphaned(p) = turn
           /\ \A r \in requests' : r.from # p
           /\ \A r \in requests' : r \in requests \/ r.from = Nil
           /\ \A r \in requests' : r.op = "put" => r.to = Primary(r.key)
<1>. DEFINE asked == {r \in requests : r.from = p}
<1>0. /\ turn \in [Partitions -> Turn \cup {Nil}] /\ requests \subseteq Request
      /\ Matched /\ Nil \notin Partitions /\ Nil \notin Turn
  BY NilAssumption DEF CallsInv, Types
<1>1. ASSUME NEW r \in asked
      PROVE  /\ [r EXCEPT !.from = Nil] \in Request /\ [r EXCEPT !.from = Nil].from = Nil
             /\ [r EXCEPT !.from = Nil].op # "put"
  <2>1. r \in Request /\ r.from # Nil
    BY <1>0
  <2>2. r.op # "put"
    BY <1>0, <2>1 DEF Matched
  <2>. QED
    BY <2>1, <2>2 DEF Request
<1>2. ASSUME NEW r \in requests'
      PROVE  r \in requests \ asked \/ \E s \in asked : r = [s EXCEPT !.from = Nil]
  BY DEF Abandon
<1>3. Orphaned(p) = turn
  <2>1. \A q \in Partitions : turn[q] # Nil => turn[q].from # p
    BY <1>0 DEF Matched
  <2>. QED
    BY <1>0, <2>1 DEF Orphaned
<1>4. ASSUME NEW r \in requests'
      PROVE  /\ r \in Request /\ r.from # p
             /\ r \in requests \/ r.from = Nil
             /\ r.op = "put" => r.to = Primary(r.key)
  <2>1. CASE r \in requests \ asked
    BY <1>0, <2>1 DEF Matched
  <2>2. CASE \E s \in asked : r = [s EXCEPT !.from = Nil]
    BY <1>0, <1>1, <2>2
  <2>. QED
    BY <1>2, <2>1, <2>2
<1>. QED
  BY <1>3, <1>4

LEMMA AbandonedCalls ==
    ASSUME CallsInv, NEW p \in Partitions, Abandon(p), NEW t, NEW reply \in Answer,
           t \in {Nil, turn[p]}, t = Nil <=> reply = Idle, reply # Waiting,
           turn' = [turn EXCEPT ![p] = t], answer' = [answer EXCEPT ![p] = reply]
    PROVE  /\ turn' \in [Partitions -> Turn \cup {Nil}] /\ requests' \subseteq Request
           /\ answer' \in [Partitions -> Answer]
           /\ Linked' /\ Matched' /\ PutsInPlace'
           /\ \A q \in Partitions : q # p => turn'[q] = turn[q] /\ answer'[q] = answer[q]
<1>0. /\ turn \in [Partitions -> Turn \cup {Nil}] /\ requests \subseteq Request
      /\ answer \in [Partitions -> Answer] /\ Linked /\ Matched /\ PutsInPlace
      /\ Nil \notin Partitions /\ Nil \notin Turn
  BY NilAssumption DEF CallsInv, Types
<1>1. /\ turn' \in [Partitions -> Turn \cup {Nil}] /\ answer' \in [Partitions -> Answer]
      /\ \A q \in Partitions : q # p => turn'[q] = turn[q] /\ answer'[q] = answer[q]
      /\ turn'[p] = t /\ answer'[p] = reply
  BY <1>0
<1>2. /\ requests' \subseteq Request
      /\ \A r \in requests' : r.from # p
      /\ \A r \in requests' : r \in requests \/ r.from = Nil
      /\ \A r \in requests' : r.op = "put" => r.to = Primary(r.key)
  BY AbandonEffect
<1>3. Linked'
  <2>1. ASSUME NEW q \in Partitions
        PROVE  /\ turn'[q] = Nil <=> answer'[q] = Idle
               /\ turn'[q] # Nil => turn'[q].todo # <<>>
               /\ \A r \in requests' : r.from = q =>
                     answer'[q] = Waiting /\ r.to = Head(turn'[q].todo)
    <3>1. CASE q = p
      BY <1>0, <1>1, <1>2, <3>1 DEF Linked
    <3>2. CASE q # p
      BY <1>0, <1>1, <1>2, <3>2 DEF Linked
    <3>. QED
      BY <3>1, <3>2
  <2>. QED
    BY <2>1 DEF Linked
<1>4. Matched'
  <2>1. ASSUME NEW r \in requests', r.from # Nil
        PROVE  /\ r \in requests /\ r.from \in Partitions /\ r.from # p
               /\ turn'[r.from] = turn[r.from]
    BY <1>0, <1>1, <1>2, <2>1 DEF Request
  <2>2. \A q \in Partitions : turn'[q] # Nil => turn'[q].from = Nil
    BY <1>0, <1>1 DEF Matched
  <2>3. \A r, s \in requests' : r.from = s.from /\ r.from # Nil => r = s
    BY <1>0, <2>1 DEF Matched
  <2>4. \A r \in requests' : r.from # Nil =>
            /\ r.op = IF turn'[r.from].op = "ask" THEN "getReplica" ELSE "putReplica"
            /\ r.key = turn'[r.from].key /\ r.val = turn'[r.from].val
    BY <1>0, <2>1 DEF Matched
  <2>. QED
    BY <1>2, <2>2, <2>3, <2>4 DEF Matched
<1>5. PutsInPlace'
  <2>1. ASSUME NEW q \in Partitions PROVE InPlace(q, turn'[q])
    <3>1. turn'[q] \in {Nil, turn[q]}
      BY <1>1
    <3>. QED
      BY <1>0, <3>1 DEF PutsInPlace, InPlace
  <2>. QED
    BY <2>1 DEF PutsInPlace
<1>. QED
  BY <1>1, <1>2, <1>3, <1>4, <1>5

LEMMA StoreEffect ==
    ASSUME CallsInv, NEW p \in Partitions, NEW k \in Keys, NEW v \in Values \cup {Nil},
           Store(p, k, v)
    PROVE  /\ cache' \in [Partitions -> [Keys -> Values \cup {Nil}]]
           /\ cache'[p][k] = v
           /\ \A q \in Partitions : q # p => cache'[q] = cache[q]
           /\ failures' \in 0..MaxFailures
<1>1. PICK evicted \in SUBSET {j \in Keys \ {k} : cache[p][j] # Nil} :
        /\ cache' = [cache EXCEPT ![p] =
                        [j \in Keys |-> IF j = k THEN v ELSE IF j \in evicted THEN Nil ELSE @[j]]]
        /\ evicted # {} => failures < MaxFailures
        /\ failures' = IF evicted # {} THEN failures + 1 ELSE failures
  BY DEF Store
<1>2. cache \in [Partitions -> [Keys -> Values \cup {Nil}]] /\ failures \in 0..MaxFailures
  BY DEF CallsInv, Types
<1>3. MaxFailures \in Nat
  BY GrainAssumption
<1>4. failures' \in 0..MaxFailures
  BY <1>1, <1>2, <1>3
<1>5. cache'[p] = [j \in Keys |-> IF j = k THEN v ELSE IF j \in evicted THEN Nil ELSE cache[p][j]]
  BY <1>1, <1>2
<1>6. cache'[p] \in [Keys -> Values \cup {Nil}] /\ cache'[p][k] = v
  BY <1>2, <1>5
<1>7. \A q \in Partitions : q # p => cache'[q] = cache[q]
  BY <1>1, <1>2
<1>8. cache' \in [Partitions -> [Keys -> Values \cup {Nil}]]
  BY <1>1, <1>2, <1>6, <1>7
<1>. QED
  BY <1>4, <1>6, <1>7, <1>8

-----------------------------------------------------------------------------
(* The replicas of a key that a step leaves alone *)

LEMMA PutFacts ==
    ASSUME CallsInv, NEW k \in Keys, Putting(k), NEW t, t = turn[Primary(k)]
    PROVE  /\ t \in Turn /\ t.todo \in Seq(Partitions) /\ t.todo # <<>> /\ t.skip = {}
           /\ Len(t.todo) \in 1..(ReplicaCount - 1)
           /\ Head(t.todo) = GetReplicas[k][ReplicaCount - Len(t.todo) + 1]
           /\ Head(t.todo) \in Replicas(k)
           /\ Passed(k, t) \subseteq Replicas(k) /\ Ahead(k, t) \subseteq Replicas(k)
<1>1. /\ t \in Turn /\ t # Nil /\ t.todo # <<>> /\ t.op = "put" /\ t.key = k
      /\ InPlace(Primary(k), t)
  BY ReplicaFacts DEF Putting, CallsInv, Types, Linked, PutsInPlace
<1>2. t.todo \in Seq(Partitions)
  BY <1>1 DEF Turn
<1>3. Len(t.todo) \in 1..(ReplicaCount - 1)
  BY <1>1, <1>2, ReplicaFacts DEF InPlace
<1>4. t.todo[1] = GetReplicas[k][ReplicaCount - Len(t.todo) + 1] /\ t.skip = {}
  BY <1>1, <1>3 DEF InPlace
<1>5. Head(t.todo) = t.todo[1]
  BY <1>1, <1>2
<1>6. \A i \in 1..(ReplicaCount - Len(t.todo) + 1) : GetReplicas[k][i] \in Replicas(k)
  BY <1>3, ReplicaFacts
<1>7. Passed(k, t) \subseteq Replicas(k)
  <2>1. ASSUME NEW i \in 1..(ReplicaCount - Len(t.todo)) PROVE GetReplicas[k][i] \in Replicas(k)
    <3>1. i \in 1..(ReplicaCount - Len(t.todo) + 1)
      BY <1>3, ReplicaFacts
    <3>. QED
      BY <1>6, <3>1
  <2>. QED
    BY <2>1 DEF Passed
<1>8. ReplicaCount - Len(t.todo) + 1 \in 1..(ReplicaCount - Len(t.todo) + 1)
  <2>1. ReplicaCount \in Nat \ {0}
    BY ReplicaFacts
  <2>. QED
    BY <1>3, <2>1
<1>9. Head(t.todo) = GetReplicas[k][ReplicaCount - Len(t.todo) + 1]
  BY <1>4, <1>5
<1>10. Head(t.todo) \in Replicas(k)
  BY <1>6, <1>8, <1>9, Zenon
<1>11. Ahead(k, t) \subseteq Replicas(k)
  BY DEF Ahead
<1>. QED
  BY <1>1, <1>2, <1>3, <1>4, <1>7, <1>9, <1>10, <1>11

LEMMA AgreementKept ==
    ASSUME CallsInv, NEW k \in Keys, Agreement(k),
           \A r \in Replicas(k) : cache'[r][k] = cache[r][k],
           Putting(k)' <=> Putting(k), Putting(k) => turn'[Primary(k)] = turn[Primary(k)],
           latest'[k] = latest[k], agreed'[k] => agreed[k], steady'[k] => steady[k],
           Putting(k) /\ answer'[Primary(k)].status = "ok" => answer[Primary(k)].status = "ok"
    PROVE  Agreement(k)'
<1>1. CASE ~Putting(k)
  BY <1>1 DEF Agreement
<1>2. CASE Putting(k)
  <2>. DEFINE t == turn[Primary(k)]
  <2>1. /\ Head(t.todo) \in Replicas(k)
        /\ Passed(k, t) \subseteq Replicas(k) /\ Ahead(k, t) \subseteq Replicas(k)
    BY <1>2, PutFacts
  <2>2. turn'[Primary(k)] = t
    BY <1>2
  <2>3. /\ steady[k] => \A r \in Passed(k, t) : cache[r][k] = t.val
        /\ steady[k] /\ agreed[k] => \A r \in Ahead(k, t) : cache[r][k] = latest[k]
        /\ steady[k] /\ answer[Primary(k)].status = "ok" => cache[Head(t.todo)][k] = t.val
    BY <1>2 DEF Agreement
  <2>. HIDE DEF t
  <2>4. /\ steady'[k] => \A r \in Passed(k, t) : cache'[r][k] = t.val
        /\ steady'[k] /\ agreed'[k] => \A r \in Ahead(k, t) : cache'[r][k] = latest'[k]
        /\ steady'[k] /\ answer'[Primary(k)].status = "ok" => cache'[Head(t.todo)][k] = t.val
    BY <1>2, <2>1, <2>3
  <2>. QED
    BY <1>2, <2>2, <2>4 DEF Agreement, Passed, Ahead
<1>. QED
  BY <1>1, <1>2

LEMMA AgreementLost ==
    ASSUME NEW k \in Keys, ~agreed'[k], ~steady'[k]
    PROVE  Agreement(k)'
BY DEF Agreement

(* A step that counts the keys it changes as disturbed and leaves the puts  *)
(* where they are keeps the agreement.                                      *)
LEMMA DisturbEffect ==
    ASSUME GrainInv, NEW ks, Disturb(ks), Changed \subseteq ks,
           \A k \in Keys \ ks : Putting(k)' <=> Putting(k),
           \A k \in Keys \ ks : Putting(k) =>
               /\ turn'[Primary(k)] = turn[Primary(k)]
               /\ answer'[Primary(k)].status = "ok" => answer[Primary(k)].status = "ok"
    PROVE  /\ \A k \in Keys : Agreement(k)'
           /\ latest' \in [Keys -> Values \cup {Nil}]
           /\ agreed' \in [Keys -> BOOLEAN] /\ steady' \in [Keys -> BOOLEAN]
<1>1. /\ agreed' = [k \in Keys |-> agreed[k] /\ k \notin ks]
      /\ steady' = [k \in Keys |-> steady[k] /\ k \notin ks]
      /\ latest' = latest
  BY DEF Disturb
<1>2. /\ agreed' \in [Keys -> BOOLEAN] /\ steady' \in [Keys -> BOOLEAN]
      /\ \A k \in Keys : (agreed'[k] => agreed[k] /\ k \notin ks) /\ (steady'[k] => steady[k] /\ k \notin ks)
  <2>1. agreed \in [Keys -> BOOLEAN] /\ steady \in [Keys -> BOOLEAN]
    BY DEF GrainInv, CallsInv, Types
  <2>. QED
    BY <1>1, <2>1
<1>3. ASSUME NEW k \in Keys PROVE Agreement(k)'
  <2>1. CASE k \in ks
    BY <1>2, <2>1, AgreementLost
  <2>2. CASE k \notin ks
    <3>1. \A r \in Replicas(k) : cache'[r][k] = cache[r][k]
      BY <2>2 DEF Changed
    <3>. QED
      BY <1>1, <1>2, <2>2, <3>1, AgreementKept DEF GrainInv
  <2>. QED
    BY <2>1, <2>2
<1>. QED
  BY <1>1, <1>2, <1>3 DEF GrainInv, CallsInv, Types

-----------------------------------------------------------------------------
(* One lemma for each step *)

LEMMA ClientSteps ==
    ASSUME GrainInv, NEW k \in Keys,
           CallPut(k) \/ \E p \in Partitions : CallGet(p, k)
    PROVE  GrainInv'
<1>0. CallsInv /\ Types /\ Nil \notin Partitions
  BY NilAssumption DEF GrainInv, CallsInv
<1>1. PICK r \in Request : /\ r.from = Nil /\ (r.op = "put" => r.to = Primary(r.key))
                           /\ requests' = requests \cup {r}
  <2>1. CASE CallPut(k)
    <3>. DEFINE r == [to |-> Primary(k), op |-> "put", key |-> k, val |-> puts + 1, from |-> Nil]
    <3>1. puts + 1 \in Values
      BY <1>0, <2>1, GrainAssumption DEF CallPut, Types, Values
    <3>2. r \in Request /\ r.from = Nil /\ r.to = Primary(r.key)
      BY <3>1, ReplicaFacts DEF Request, Operations
    <3>3. requests' = requests \cup {r}
      BY <2>1 DEF CallPut
    <3>. QED
      BY <3>2, <3>3
  <2>2. CASE \E p \in Partitions : CallGet(p, k)
    <3>1. PICK p \in Partitions : CallGet(p, k)
      BY <2>2
    <3>. DEFINE r == [to |-> p, op |-> "get", key |-> k, val |-> Nil, from |-> Nil]
    <3>2. r \in Request /\ r.from = Nil /\ r.op = "get"
      BY DEF Request, Operations
    <3>3. requests' = requests \cup {r}
      BY <3>1 DEF CallGet
    <3>. QED
      BY <3>2, <3>3
  <2>. QED
    BY <2>1, <2>2
<1>2. /\ UNCHANGED <<cache, turn, answer, failures, latest, agreed, steady>>
      /\ puts' \in 0..MaxPuts /\ gets' \in 0..MaxGets
  BY <1>0, GrainAssumption DEF CallPut, CallGet, Undisturbed, Types
<1>3. Types'
  <2>1. requests' \subseteq Request
    BY <1>0, <1>1 DEF Types
  <2>. QED
    BY <1>0, <1>2, <2>1 DEF Types
<1>4. PutsInPlace'
  BY <1>0, <1>2 DEF CallsInv, PutsInPlace
<1>5. \A s \in requests' : s \in requests \/ s = r
  BY <1>1
<1>6. Linked'
  <2>1. ASSUME NEW q \in Partitions, NEW s \in requests', s.from = q
        PROVE  answer[q] = Waiting /\ s.to = Head(turn[q].todo)
    BY <1>0, <1>1, <1>5, <2>1 DEF CallsInv, Linked
  <2>2. ASSUME NEW q \in Partitions
        PROVE  (turn[q] = Nil <=> answer[q] = Idle) /\ (turn[q] # Nil => turn[q].todo # <<>>)
    BY <1>0 DEF CallsInv, Linked
  <2>. QED
    BY <1>2, <2>1, <2>2 DEF Linked
<1>7. Matched'
  <2>1. ASSUME NEW s \in requests', s.from # Nil
        PROVE  /\ s \in requests
               /\ s.op = IF turn[s.from].op = "ask" THEN "getReplica" ELSE "putReplica"
               /\ s.key = turn[s.from].key /\ s.val = turn[s.from].val
    BY <1>0, <1>1, <1>5, <2>1 DEF CallsInv, Matched
  <2>2. ASSUME NEW s \in requests', NEW u \in requests', s.from = u.from, s.from # Nil
        PROVE  s = u
    BY <1>0, <2>1, <2>2 DEF CallsInv, Matched
  <2>3. ASSUME NEW s \in requests', s.op = "put" PROVE s.to = Primary(s.key)
    BY <1>0, <1>1, <1>5, <2>3 DEF CallsInv, Matched
  <2>4. ASSUME NEW q \in Partitions, turn[q] # Nil PROVE turn[q].from = Nil
    BY <1>0, <2>4 DEF CallsInv, Matched
  <2>. QED
    BY <1>2, <2>1, <2>2, <2>3, <2>4 DEF Matched
<1>8. ASSUME NEW j \in Keys PROVE Agreement(j)'
  BY <1>0, <1>2, <1>8, AgreementKept DEF GrainInv, Putting
<1>. QED
  BY <1>3, <1>4, <1>6, <1>7, <1>8 DEF GrainInv, CallsInv

(* What a handler that begins or goes on may assume of its caller.          *)
LEMMA BeginFacts ==
    ASSUME CallsInv, NEW p \in Partitions, NEW r, NEW op, Begins(p, r, op)
    PROVE  /\ r \in requests /\ r \in Request /\ turn[p] = Nil /\ r.key \in Keys
           /\ r.val \in Values \cup {Nil}
           /\ op \in {"put", "get"} => r.from = Nil
           /\ op = "put" => p = Primary(r.key)
           /\ \A s \in requests : s.from # p
<1>1. r \in requests /\ r \in Request /\ turn[p] = Nil /\ r.to = p /\ r.op = op
  BY DEF Begins, CallsInv, Types
<1>2. \A s \in requests : s.from # p
  BY <1>1 DEF CallsInv, Linked, Idle, Waiting
<1>. QED
  BY <1>1, <1>2 DEF Request, CallsInv, Matched

LEMMA BeginPutStep ==
    ASSUME GrainInv, NEW p \in Partitions, NEW r \in requests, BeginPut(p, r)
    PROVE  GrainInv'
<1>. DEFINE k == r.key
            t == [op |-> "put", key |-> k, val |-> r.val, from |-> r.from, skip |-> {},
                  todo |-> OthersOf(k)]
<1>0. /\ CallsInv /\ r \in Request /\ turn[p] = Nil /\ k \in Keys /\ r.val \in Values \cup {Nil}
      /\ r.from = Nil /\ p = Primary(k) /\ \A s \in requests : s.from # p
  BY BeginFacts DEF GrainInv, BeginPut
<1>1. t \in Turn /\ t.from = Nil /\ t.op = "put" /\ t.key = k /\ t.val = r.val /\ t.skip = {}
      /\ t.todo = OthersOf(k)
  BY <1>0, ReplicaFacts DEF Turn
<1>2. Continue(p, t, Ok(Nil), requests \ {r}) /\ Store(p, k, r.val) /\ UNCHANGED <<puts, gets>>
  BY DEF BeginPut
<1>3. /\ steady' = [j \in Keys |-> j = k \/ (steady[j] /\ j \notin Changed)]
      /\ agreed' = [j \in Keys |-> IF j # k THEN agreed[j] /\ j \notin Changed
                                   ELSE agreed[j] \/ OthersOf(j) = <<>>]
      /\ latest' = IF OthersOf(k) = <<>> THEN [latest EXCEPT ![k] = r.val] ELSE latest
  BY DEF BeginPut
<1>. HIDE DEF t, k
<1>4. /\ turn' \in [Partitions -> Turn \cup {Nil}] /\ requests' \subseteq Request
      /\ answer' \in [Partitions -> Answer]
      /\ Linked' /\ Matched'
      /\ \A q \in Partitions : q # p => turn'[q] = turn[q] /\ answer'[q] = answer[q]
      /\ turn'[p] = IF t.todo = <<>> THEN Nil ELSE t
      /\ answer'[p].status # "ok"
  BY <1>0, <1>1, <1>2, ContinueEffect
<1>5. /\ cache' \in [Partitions -> [Keys -> Values \cup {Nil}]]
      /\ cache'[p][k] = r.val
      /\ \A q \in Partitions : q # p => cache'[q] = cache[q]
      /\ failures' \in 0..MaxFailures
  BY <1>0, <1>2, StoreEffect
<1>6. /\ latest \in [Keys -> Values \cup {Nil}]
      /\ agreed \in [Keys -> BOOLEAN] /\ steady \in [Keys -> BOOLEAN]
  BY <1>0 DEF CallsInv, Types
<1>7. /\ latest' \in [Keys -> Values \cup {Nil}]
      /\ agreed' \in [Keys -> BOOLEAN] /\ steady' \in [Keys -> BOOLEAN]
      /\ \A j \in Keys : j # k => /\ agreed'[j] => agreed[j] /\ j \notin Changed
                                  /\ steady'[j] => steady[j] /\ j \notin Changed
                                  /\ latest'[j] = latest[j]
      /\ OthersOf(k) # <<>> => agreed'[k] = agreed[k] /\ latest' = latest
      /\ OthersOf(k) = <<>> => latest'[k] = r.val
  BY <1>0, <1>3, <1>6
<1>8. Types'
  BY <1>0, <1>2, <1>4, <1>5, <1>7 DEF CallsInv, Types
<1>9. PutsInPlace'
  <2>1. InPlace(p, t)
    BY <1>0, <1>1, ReplicaFacts DEF InPlace
  <2>2. \A q \in Partitions : q # p => InPlace(q, turn'[q])
    BY <1>0, <1>4 DEF CallsInv, PutsInPlace
  <2>3. InPlace(p, turn'[p])
    BY <1>4, <2>1 DEF InPlace
  <2>. QED
    BY <2>2, <2>3 DEF PutsInPlace
<1>10. ASSUME NEW j \in Keys, j # k PROVE Agreement(j)'
  <2>1. CASE j \in Changed
    BY <1>7, <1>10, <2>1, AgreementLost
  <2>2. CASE j \notin Changed
    <3>1. \A q \in Replicas(j) : cache'[q][j] = cache[q][j]
      BY <2>2 DEF Changed
    <3>2. Putting(j)' <=> Putting(j)
      BY <1>0, <1>1, <1>4, <1>10, ReplicaFacts DEF Putting
    <3>3. Putting(j) => Primary(j) # p /\ Primary(j) \in Partitions
      BY <1>0, ReplicaFacts DEF Putting
    <3>. QED
      BY <1>0, <1>4, <1>7, <1>10, <3>1, <3>2, <3>3, AgreementKept DEF GrainInv
  <2>. QED
    BY <2>1, <2>2
<1>11. Agreement(k)'
  <2>1. CASE OthersOf(k) = <<>>
    <3>1. ~Putting(k)'
      BY <1>0, <1>1, <1>4, <2>1 DEF Putting
    <3>2. \A q \in Replicas(k) : q = p
      BY <1>0, <2>1, ReplicaFacts DEF Primary
    <3>. QED
      BY <1>0, <1>5, <1>7, <2>1, <3>1, <3>2 DEF Agreement
  <2>2. CASE OthersOf(k) # <<>>
    <3>1. Putting(k)' /\ turn'[Primary(k)] = t /\ ~Putting(k)
      BY <1>0, <1>1, <1>4, <2>2, NilAssumption DEF Putting
    <3>2. Passed(k, t) = {p}
      <4>1. ReplicaCount - Len(t.todo) = 1
        BY <1>0, <1>1, ReplicaFacts
      <4>. QED
        BY <1>0, <4>1 DEF Passed, Primary
    <3>3. agreed[k] => \A q \in Replicas(k) : cache[q][k] = latest[k]
      BY <1>0, <3>1 DEF GrainInv, Agreement
    <3>4. \A q \in Ahead(k, t) : q \in Replicas(k) /\ q # p /\ q \in Partitions
      BY <1>0, <3>2, ReplicaFacts DEF Ahead
    <3>5. agreed'[k] => \A q \in Ahead(k, t) : cache'[q][k] = latest'[k]
      BY <1>5, <1>7, <2>2, <3>3, <3>4
    <3>6. \A q \in Passed(k, t) : cache'[q][k] = t.val
      BY <1>1, <1>5, <3>2
    <3>7. answer'[Primary(k)].status # "ok"
      BY <1>0, <1>4
    <3>. QED
      BY <3>1, <3>5, <3>6, <3>7 DEF Agreement, Passed, Ahead
  <2>. QED
    BY <2>1, <2>2
<1>. QED
  BY <1>4, <1>8, <1>9, <1>10, <1>11 DEF GrainInv, CallsInv


(* What PutReplica stores of a put in progress is no disturbance of it.     *)
LEMMA PutReplicaStep ==
    ASSUME GrainInv, NEW p \in Partitions, NEW r \in requests, PutReplica(p, r)
    PROVE  GrainInv'
<1>. DEFINE k == r.key
            caller == r.from
            t == turn[caller]
<1>0. /\ CallsInv /\ r \in Request /\ turn[p] = Nil /\ k \in Keys /\ r.val \in Values \cup {Nil}
      /\ r.to = p /\ r.op = "putReplica" /\ UNCHANGED <<turn, puts, gets>>
      /\ caller \in Partitions \cup {Nil} /\ Nil \notin Partitions
  BY BeginFacts, NilAssumption DEF GrainInv, PutReplica, Begins, Request
<1>1. Ok(Nil) \in Answer /\ Ok(Nil) # Idle /\ Ok(Nil) # Waiting /\ Ok(Nil).status = "ok"
  BY DEF Ok, Answer, Idle, Waiting
<1>2. /\ turn' \in [Partitions -> Turn \cup {Nil}] /\ requests' \subseteq Request
      /\ answer' \in [Partitions -> Answer]
      /\ Linked' /\ Matched'
      /\ \A q \in Partitions : answer'[q] = IF q = caller THEN Ok(Nil) ELSE answer[q]
  BY <1>0, <1>1, ReplyEffect DEF PutReplica
<1>3. /\ cache' \in [Partitions -> [Keys -> Values \cup {Nil}]]
      /\ cache'[p][k] = r.val
      /\ \A q \in Partitions : q # p => cache'[q] = cache[q]
      /\ failures' \in 0..MaxFailures
  BY <1>0, StoreEffect DEF PutReplica
<1>4. PutsInPlace'
  BY <1>0 DEF CallsInv, PutsInPlace
<1>5. CASE caller = Nil \/ t.op # "put"
  <2>1. Disturb(Changed)
    BY <1>5 DEF PutReplica
  <2>2. ASSUME NEW j \in Keys, Putting(j) PROVE Primary(j) # caller /\ Primary(j) \in Partitions
    BY <1>0, <1>5, <2>2, ReplicaFacts DEF Putting
  <2>3. \A j \in Keys : Putting(j) =>
            /\ turn'[Primary(j)] = turn[Primary(j)]
            /\ answer'[Primary(j)].status = "ok" => answer[Primary(j)].status = "ok"
    BY <1>0, <1>2, <2>2
  <2>4. \A j \in Keys : Putting(j)' <=> Putting(j)
    BY <1>0 DEF Putting
  <2>5. /\ \A j \in Keys : Agreement(j)'
        /\ latest' \in [Keys -> Values \cup {Nil}]
        /\ agreed' \in [Keys -> BOOLEAN] /\ steady' \in [Keys -> BOOLEAN]
    <3>. DEFINE ks == Changed
    <3>1. Disturb(ks) /\ Changed \subseteq ks
      BY <2>1
    <3>2. \A j \in Keys \ ks : Putting(j)' <=> Putting(j)
      BY <2>4
    <3>3. \A j \in Keys \ ks : Putting(j) =>
              /\ turn'[Primary(j)] = turn[Primary(j)]
              /\ answer'[Primary(j)].status = "ok" => answer[Primary(j)].status = "ok"
      BY <2>3
    <3>. HIDE DEF ks
    <3>. QED
      BY <3>1, <3>2, <3>3, DisturbEffect
  <2>. QED
    BY <1>0, <1>2, <1>3, <1>4, <2>5 DEF GrainInv, CallsInv, Types
<1>6. CASE caller # Nil /\ t.op = "put"
  <2>1. /\ caller \in Partitions /\ t # Nil /\ t.key = k /\ t.val = r.val /\ Head(t.todo) = p
        /\ caller = Primary(k) /\ Putting(k)
    <3>1. caller \in Partitions /\ answer[caller] = Waiting /\ Head(t.todo) = p
      BY <1>0, <1>6 DEF CallsInv, Linked
    <3>2. t # Nil /\ t.key = k /\ t.val = r.val
      BY <1>0, <1>6, <3>1 DEF CallsInv, Linked, Matched, Waiting, Idle
    <3>3. caller = Primary(k)
      BY <1>0, <1>6, <3>1, <3>2 DEF CallsInv, PutsInPlace, InPlace
    <3>. QED
      BY <1>6, <3>1, <3>2, <3>3 DEF Putting
  <2>2. Disturb(Changed \ {k})
    BY <1>6 DEF PutReplica
  <2>3. /\ agreed' = [j \in Keys |-> agreed[j] /\ j \notin Changed \ {k}]
        /\ steady' = [j \in Keys |-> steady[j] /\ j \notin Changed \ {k}]
        /\ latest' = latest
    BY <2>2 DEF Disturb
  <2>4. latest \in [Keys -> Values \cup {Nil}] /\ agreed \in [Keys -> BOOLEAN] /\ steady \in [Keys -> BOOLEAN]
    BY <1>0 DEF CallsInv, Types
  <2>5. /\ latest' \in [Keys -> Values \cup {Nil}]
        /\ agreed' \in [Keys -> BOOLEAN] /\ steady' \in [Keys -> BOOLEAN]
        /\ \A j \in Keys : (agreed'[j] => agreed[j]) /\ (steady'[j] => steady[j])
        /\ \A j \in Keys : j # k /\ j \in Changed => ~agreed'[j] /\ ~steady'[j]
    BY <2>3, <2>4
  <2>6. ASSUME NEW j \in Keys, j # k PROVE Agreement(j)'
    <3>1. CASE j \in Changed
      BY <2>5, <2>6, <3>1, AgreementLost
    <3>2. CASE j \notin Changed
      <4>1. \A q \in Replicas(j) : cache'[q][j] = cache[q][j]
        BY <3>2 DEF Changed
      <4>2. Putting(j) => Primary(j) # caller /\ Primary(j) \in Partitions
        BY <2>1, <2>6, ReplicaFacts DEF Putting
      <4>3. Putting(j)' <=> Putting(j)
        BY <1>0 DEF Putting
      <4>. QED
        BY <1>0, <1>2, <2>3, <2>5, <4>1, <4>2, <4>3, AgreementKept DEF GrainInv
    <3>. QED
      BY <3>1, <3>2
  <2>7. Agreement(k)'
    <3>1. /\ steady[k] => \A q \in Passed(k, t) : cache[q][k] = t.val
          /\ steady[k] /\ agreed[k] => \A q \in Ahead(k, t) : cache[q][k] = latest[k]
      BY <1>0, <2>1 DEF GrainInv, Agreement
    <3>2. /\ Passed(k, t) \subseteq Partitions /\ Ahead(k, t) \subseteq Partitions
          /\ p \notin Ahead(k, t)
      BY <1>0, <2>1, PutFacts, ReplicaFacts DEF Ahead
    <3>3. /\ steady'[k] => \A q \in Passed(k, t) : cache'[q][k] = t.val
          /\ steady'[k] /\ agreed'[k] => \A q \in Ahead(k, t) : cache'[q][k] = latest'[k]
          /\ cache'[Head(t.todo)][k] = t.val
      BY <1>0, <1>3, <2>1, <2>3, <2>5, <3>1, <3>2
    <3>4. Putting(k)' /\ turn'[Primary(k)] = t
      BY <1>0, <2>1 DEF Putting
    <3>. HIDE DEF t
    <3>. QED
      BY <3>3, <3>4 DEF Agreement, Passed, Ahead
  <2>. QED
    BY <1>0, <1>2, <1>3, <1>4, <2>5, <2>6, <2>7 DEF GrainInv, CallsInv, Types
<1>. QED
  BY <1>5, <1>6

(* A grain that neither was in a put nor is in one now disturbs no other.   *)
LEMMA NoPutEffect ==
    ASSUME CallsInv, NEW p \in Partitions,
           turn[p] = Nil \/ turn[p].op # "put", turn'[p] = Nil \/ turn'[p].op # "put",
           \A q \in Partitions : q # p => turn'[q] = turn[q] /\ answer'[q] = answer[q]
    PROVE  /\ PutsInPlace'
           /\ \A k \in Keys : Putting(k)' <=> Putting(k)
           /\ \A k \in Keys : Putting(k) =>
                turn'[Primary(k)] = turn[Primary(k)] /\ answer'[Primary(k)] = answer[Primary(k)]
<1>1. ASSUME NEW k \in Keys
      PROVE  /\ Putting(k)' <=> Putting(k)
             /\ Putting(k) =>
                  turn'[Primary(k)] = turn[Primary(k)] /\ answer'[Primary(k)] = answer[Primary(k)]
  BY ReplicaFacts DEF Putting
<1>2. ASSUME NEW q \in Partitions PROVE InPlace(q, turn'[q])
  BY DEF CallsInv, PutsInPlace, InPlace
<1>. QED
  BY <1>1, <1>2 DEF PutsInPlace

(* Nothing but calls that are no puts changes.                              *)
LEMMA QuietEffect ==
    ASSUME GrainInv, UNCHANGED <<cache, puts, gets, latest, agreed, steady>>,
           failures' \in 0..MaxFailures,
           turn' \in [Partitions -> Turn \cup {Nil}], requests' \subseteq Request,
           answer' \in [Partitions -> Answer], Linked', Matched', PutsInPlace',
           \A k \in Keys : Putting(k)' <=> Putting(k),
           \A k \in Keys : Putting(k) =>
               /\ turn'[Primary(k)] = turn[Primary(k)]
               /\ answer'[Primary(k)].status = "ok" => answer[Primary(k)].status = "ok"
    PROVE  GrainInv'
<1>1. ASSUME NEW k \in Keys PROVE Agreement(k)'
  BY AgreementKept DEF GrainInv
<1>2. Types'
  BY DEF GrainInv, CallsInv, Types
<1>. QED
  BY <1>1, <1>2 DEF GrainInv, CallsInv


LEMMA BeginGetStep ==
    ASSUME GrainInv, NEW p \in Partitions, NEW r \in requests, BeginGet(p, r)
    PROVE  GrainInv'
<1>. DEFINE todo == IF cache[p][r.key] # Nil THEN <<>> ELSE From(GetReplicas[r.key], {p})
            t == [op |-> "ask", key |-> r.key, val |-> Nil, from |-> r.from, skip |-> {p}, todo |-> todo]
<1>0. /\ CallsInv /\ turn[p] = Nil /\ r.key \in Keys /\ r.from = Nil
      /\ \A s \in requests : s.from # p
  BY BeginFacts DEF GrainInv, BeginGet
<1>1. todo \in Seq(Partitions)
  BY <1>0, ReplicaFacts, FromFacts
<1>. HIDE DEF todo
<1>2. t \in Turn /\ t.from = Nil /\ t.op = "ask"
  BY <1>0, <1>1 DEF Turn
<1>3. /\ Continue(p, t, Ok(cache[p][r.key]), requests \ {r})
      /\ UNCHANGED <<cache, puts, gets, failures, latest, agreed, steady>>
  BY DEF BeginGet, Undisturbed, todo
<1>. HIDE DEF t
<1>4. /\ turn' \in [Partitions -> Turn \cup {Nil}] /\ requests' \subseteq Request
      /\ answer' \in [Partitions -> Answer]
      /\ Linked' /\ Matched'
      /\ \A q \in Partitions : q # p => turn'[q] = turn[q] /\ answer'[q] = answer[q]
      /\ turn'[p] = IF t.todo = <<>> THEN Nil ELSE t
  BY <1>0, <1>2, <1>3, ContinueEffect
<1>5. turn'[p] = Nil \/ turn'[p].op # "put"
  BY <1>2, <1>4
<1>6. /\ PutsInPlace'
      /\ \A k \in Keys : Putting(k)' <=> Putting(k)
      /\ \A k \in Keys : Putting(k) =>
           turn'[Primary(k)] = turn[Primary(k)] /\ answer'[Primary(k)] = answer[Primary(k)]
  BY <1>0, <1>4, <1>5, NoPutEffect
<1>7. failures' \in 0..MaxFailures
  BY <1>0, <1>3 DEF CallsInv, Types
<1>. QED
  BY <1>3, <1>4, <1>6, <1>7, QuietEffect

LEMMA GetReplicaStep ==
    ASSUME GrainInv, NEW p \in Partitions, NEW r \in requests, GetReplica(p, r)
    PROVE  GrainInv'
<1>. DEFINE reply == Ok(cache[p][r.key])
<1>0. /\ CallsInv /\ r \in Request /\ r.key \in Keys /\ r.op = "getReplica"
      /\ r.from \in Partitions \cup {Nil} /\ Nil \notin Partitions
  BY BeginFacts, NilAssumption DEF GrainInv, GetReplica, Begins, Request
<1>1. /\ requests' = requests \ {r} /\ answer' = Answered(r.from, reply)
      /\ UNCHANGED <<cache, turn, puts, gets, failures, latest, agreed, steady>>
  BY DEF GetReplica, Undisturbed
<1>2. reply \in Answer /\ reply # Idle /\ reply # Waiting
  BY <1>0 DEF Ok, Answer, Idle, Waiting, CallsInv, Types
<1>. HIDE DEF reply
<1>3. /\ turn' \in [Partitions -> Turn \cup {Nil}] /\ requests' \subseteq Request
      /\ answer' \in [Partitions -> Answer]
      /\ Linked' /\ Matched'
      /\ \A q \in Partitions : answer'[q] = IF q = r.from THEN reply ELSE answer[q]
  BY <1>0, <1>1, <1>2, ReplyEffect
<1>4. r.from # Nil => turn[r.from].op # "put"
  BY <1>0 DEF CallsInv, Matched
<1>5. ASSUME NEW k \in Keys, Putting(k) PROVE answer'[Primary(k)] = answer[Primary(k)]
  BY <1>0, <1>3, <1>4, <1>5, ReplicaFacts DEF Putting
<1>6. PutsInPlace' /\ \A k \in Keys : Putting(k)' <=> Putting(k)
  BY <1>0, <1>1 DEF CallsInv, PutsInPlace, Putting
<1>7. failures' \in 0..MaxFailures
  BY <1>0, <1>1 DEF CallsInv, Types
<1>. QED
  BY <1>1, <1>3, <1>5, <1>6, <1>7, QuietEffect

(* What a grain that goes on with a call may assume.                        *)
LEMMA ResumeFacts ==
    ASSUME CallsInv, NEW p \in Partitions, NEW op, Replied(p, op)
    PROVE  /\ turn[p] \in Turn /\ turn[p].op = op /\ turn[p].from = Nil /\ turn[p] # Nil
           /\ turn[p].todo \in Seq(Partitions) /\ turn[p].todo # <<>>
           /\ turn[p].key \in Keys /\ turn[p].val \in Values \cup {Nil}
           /\ answer[p].status = "ok" /\ answer[p].val \in Values \cup {Nil}
           /\ \A s \in requests : s.from # p
           /\ Onward(p) \in Turn /\ Onward(p).from = Nil /\ Onward(p).op = op
           /\ Onward(p).key = turn[p].key /\ Onward(p).val = turn[p].val
           /\ Onward(p).skip = turn[p].skip
           /\ Onward(p).todo = From(Tail(turn[p].todo), turn[p].skip)
<1>1. /\ turn[p] \in Turn /\ turn[p].op = op /\ turn[p].from = Nil /\ turn[p] # Nil
      /\ answer[p].status = "ok" /\ answer[p] \in Answer /\ turn[p].todo # <<>>
  BY DEF Replied, CallsInv, Types, Matched, Linked
<1>2. /\ turn[p].todo \in Seq(Partitions) /\ turn[p].key \in Keys
      /\ turn[p].val \in Values \cup {Nil} /\ turn[p].skip \in SUBSET Partitions
      /\ answer[p].val \in Values \cup {Nil}
  BY <1>1 DEF Turn, Answer
<1>3. ASSUME NEW s \in requests PROVE s.from # p
  BY <1>1 DEF CallsInv, Linked, Waiting
<1>4. From(Tail(turn[p].todo), turn[p].skip) \in Seq(Partitions)
  <2>1. Tail(turn[p].todo) \in Seq(Partitions)
    BY <1>1, <1>2, HeadTailProperties
  <2>. QED
    BY <2>1, FromFacts
<1>5. /\ Onward(p) \in Turn /\ Onward(p).from = turn[p].from /\ Onward(p).op = turn[p].op
      /\ Onward(p).key = turn[p].key /\ Onward(p).val = turn[p].val
      /\ Onward(p).skip = turn[p].skip
      /\ Onward(p).todo = From(Tail(turn[p].todo), turn[p].skip)
  BY <1>1, <1>4 DEF Onward, Turn
<1>. QED
  BY <1>1, <1>2, <1>3, <1>5

LEMMA ResumeGetStep ==
    ASSUME GrainInv, NEW p \in Partitions, ResumeAsk(p) \/ ResumeForward(p)
    PROVE  GrainInv'
<1>1. PICK op \in {"ask", "forward"} : Replied(p, op)
  BY DEF ResumeAsk, ResumeForward
<1>2. CallsInv
  BY DEF GrainInv
<1>3. /\ turn[p].op = op
      /\ \A s \in requests : s.from # p
      /\ Onward(p) \in Turn /\ Onward(p).from = Nil /\ Onward(p).op = op
  BY <1>1, <1>2, ResumeFacts
<1>4. PICK reply : /\ Continue(p, Onward(p), reply, requests)
                   /\ UNCHANGED <<cache, puts, gets, failures, latest, agreed, steady>>
  BY DEF ResumeAsk, ResumeForward, Undisturbed
<1>5. /\ turn' \in [Partitions -> Turn \cup {Nil}] /\ requests' \subseteq Request
      /\ answer' \in [Partitions -> Answer]
      /\ Linked' /\ Matched'
      /\ \A q \in Partitions : q # p => turn'[q] = turn[q] /\ answer'[q] = answer[q]
      /\ turn'[p] = IF Onward(p).todo = <<>> THEN Nil ELSE Onward(p)
  BY <1>2, <1>3, <1>4, ContinueEffect
<1>6. /\ PutsInPlace'
      /\ \A k \in Keys : Putting(k)' <=> Putting(k)
      /\ \A k \in Keys : Putting(k) =>
           turn'[Primary(k)] = turn[Primary(k)] /\ answer'[Primary(k)] = answer[Primary(k)]
  <2>1. turn'[p] = Nil \/ turn'[p].op # "put"
    BY <1>3, <1>5
  <2>2. turn[p].op # "put"
    BY <1>3
  <2>. QED
    BY <1>2, <1>5, <2>1, <2>2, NoPutEffect
<1>7. failures' \in 0..MaxFailures
  BY <1>2, <1>4 DEF CallsInv, Types
<1>. QED
  BY <1>4, <1>5, <1>6, <1>7, QuietEffect

LEMMA RepairStep ==
    ASSUME GrainInv, NEW p \in Partitions, Repair(p)
    PROVE  GrainInv'
<1>. DEFINE v == answer[p].val
            k == turn[p].key
            skip == {p, Head(turn[p].todo)}
            rest == From(GetReplicas[k], skip)
            t == [turn[p] EXCEPT !.op = "forward", !.val = v, !.skip = skip, !.todo = rest]
<1>0. /\ CallsInv /\ turn[p] \in Turn /\ turn[p].op = "ask" /\ turn[p].from = Nil
      /\ k \in Keys /\ v \in Values \cup {Nil} /\ skip \in SUBSET Partitions
      /\ \A s \in requests : s.from # p
  <2>1. /\ CallsInv /\ Replied(p, "ask")
    BY DEF GrainInv, Repair
  <2>2. turn[p].todo \in Seq(Partitions) /\ turn[p].todo # <<>>
    BY <2>1, ResumeFacts
  <2>3. Head(turn[p].todo) \in Partitions
    BY <2>2
  <2>. QED
    BY <2>1, <2>3, ResumeFacts
<1>1. rest \in Seq(Partitions)
  BY <1>0, ReplicaFacts, FromFacts
<1>2. /\ Store(p, k, v) /\ Continue(p, t, Ok(v), requests)
      /\ Disturb(Changed) /\ UNCHANGED <<puts, gets>>
  BY DEF Repair
<1>. HIDE DEF rest, skip, k, v
<1>3. t \in Turn /\ t.op = "forward" /\ t.from = Nil
  BY <1>0, <1>1 DEF Turn
<1>. HIDE DEF t
<1>4. /\ turn' \in [Partitions -> Turn \cup {Nil}] /\ requests' \subseteq Request
      /\ answer' \in [Partitions -> Answer]
      /\ Linked' /\ Matched'
      /\ \A q \in Partitions : q # p => turn'[q] = turn[q] /\ answer'[q] = answer[q]
      /\ turn'[p] = IF t.todo = <<>> THEN Nil ELSE t
  <2>1. \A r \in requests : r.from # p
    BY <1>0
  <2>. QED
    BY <1>0, <1>2, <1>3, <2>1, ContinueEffect
<1>5. /\ cache' \in [Partitions -> [Keys -> Values \cup {Nil}]] /\ failures' \in 0..MaxFailures
  BY <1>0, <1>2, StoreEffect
<1>6. /\ PutsInPlace'
      /\ \A j \in Keys : Putting(j)' <=> Putting(j)
      /\ \A j \in Keys : Putting(j) =>
           turn'[Primary(j)] = turn[Primary(j)] /\ answer'[Primary(j)] = answer[Primary(j)]
  <2>1. turn'[p] = Nil \/ turn'[p].op # "put"
    BY <1>3, <1>4
  <2>2. turn[p].op # "put"
    BY <1>0
  <2>. QED
    BY <1>0, <1>4, <2>1, <2>2, NoPutEffect
<1>7. /\ \A j \in Keys : Agreement(j)'
      /\ latest' \in [Keys -> Values \cup {Nil}]
      /\ agreed' \in [Keys -> BOOLEAN] /\ steady' \in [Keys -> BOOLEAN]
  <2>. DEFINE ks == Changed
  <2>1. Disturb(ks) /\ Changed \subseteq ks
    BY <1>2
  <2>2. \A j \in Keys \ ks : Putting(j)' <=> Putting(j)
    BY <1>6
  <2>3. \A j \in Keys \ ks : Putting(j) =>
            /\ turn'[Primary(j)] = turn[Primary(j)]
            /\ answer'[Primary(j)].status = "ok" => answer[Primary(j)].status = "ok"
    BY <1>6
  <2>. HIDE DEF ks
  <2>. QED
    BY <2>1, <2>2, <2>3, DisturbEffect
<1>8. Types'
  BY <1>0, <1>2, <1>4, <1>5, <1>7 DEF CallsInv, Types
<1>. QED
  BY <1>4, <1>6, <1>7, <1>8 DEF GrainInv, CallsInv


LEMMA ResumePutStep ==
    ASSUME GrainInv, NEW p \in Partitions, ResumePut(p),
           NEW t, t = turn[p], NEW k, k = t.key, NEW u, u = Onward(p)
    PROVE  GrainInv'
<1>. DEFINE n == Len(t.todo)
<1>0. /\ CallsInv /\ t \in Turn /\ t # Nil /\ t.op = "put" /\ t.from = Nil /\ k \in Keys
      /\ t.todo \in Seq(Partitions) /\ t.todo # <<>>
      /\ answer[p].status = "ok" /\ \A s \in requests : s.from # p
      /\ u \in Turn /\ u.from = Nil /\ u.op = "put" /\ u.key = k /\ u.val = t.val
      /\ u.skip = t.skip /\ u.todo = From(Tail(t.todo), t.skip)
  <2>1. CallsInv /\ Replied(p, "put")
    BY DEF GrainInv, ResumePut
  <2>. QED
    BY <2>1, ResumeFacts
<1>1. InPlace(p, t)
  BY <1>0 DEF CallsInv, PutsInPlace
<1>2. p = Primary(k) /\ t.skip = {} /\ Putting(k)
  BY <1>0, <1>1 DEF InPlace, Putting
<1>3. /\ n \in 1..(ReplicaCount - 1) /\ Tail(t.todo) \in Seq(Partitions)
      /\ Len(Tail(t.todo)) = n - 1 /\ ReplicaCount \in Nat
      /\ \A i \in 1..(n - 1) : Tail(t.todo)[i] = t.todo[i + 1]
      /\ Tail(t.todo) = <<>> <=> n = 1
      /\ Head(t.todo) = GetReplicas[k][ReplicaCount - n + 1]
  <2>1. /\ Tail(t.todo) \in Seq(Partitions) /\ Len(Tail(t.todo)) = n - 1
        /\ \A i \in 1..(n - 1) : Tail(t.todo)[i] = t.todo[i + 1]
    BY <1>0, HeadTailProperties
  <2>2. n \in 1..(ReplicaCount - 1) /\ Head(t.todo) = GetReplicas[k][ReplicaCount - n + 1]
    BY <1>0, <1>2, PutFacts
  <2>3. Tail(t.todo) = <<>> <=> n = 1
    <3>1. Tail(t.todo) = <<>> <=> Len(Tail(t.todo)) = 0
      BY <2>1, EmptySeq
    <3>. QED
      BY <2>1, <2>2, <3>1
  <2>. QED
    BY <1>0, <2>1, <2>2, <2>3, ReplicaFacts
<1>4. u.todo = Tail(t.todo)
  BY <1>0, <1>2, <1>3, FromFacts
<1>5. /\ Continue(p, u, Ok(Nil), requests) /\ UNCHANGED <<cache, puts, gets, failures>>
      /\ IF Tail(t.todo) = <<>>
         THEN /\ latest' = [latest EXCEPT ![k] = t.val]
              /\ agreed' = [agreed EXCEPT ![k] = steady[k]]
              /\ UNCHANGED steady
         ELSE UNCHANGED <<latest, agreed, steady>>
  BY DEF ResumePut, Undisturbed
<1>6. /\ steady[k] => \A q \in Passed(k, t) : cache[q][k] = t.val
      /\ steady[k] /\ agreed[k] => \A q \in Ahead(k, t) : cache[q][k] = latest[k]
      /\ steady[k] => cache[Head(t.todo)][k] = t.val
  BY <1>0, <1>2 DEF GrainInv, Agreement
<1>7. /\ turn' \in [Partitions -> Turn \cup {Nil}] /\ requests' \subseteq Request
      /\ answer' \in [Partitions -> Answer]
      /\ Linked' /\ Matched'
      /\ \A q \in Partitions : q # p => turn'[q] = turn[q] /\ answer'[q] = answer[q]
      /\ turn'[p] = IF u.todo = <<>> THEN Nil ELSE u
      /\ answer'[p].status # "ok"
  BY <1>0, <1>5, ContinueEffect
<1>8. /\ latest' \in [Keys -> Values \cup {Nil}]
      /\ agreed' \in [Keys -> BOOLEAN] /\ steady' = steady /\ steady \in [Keys -> BOOLEAN]
      /\ \A j \in Keys : j # k => latest'[j] = latest[j] /\ agreed'[j] = agreed[j]
      /\ n = 1 => latest'[k] = t.val /\ agreed'[k] = steady[k]
      /\ n # 1 => UNCHANGED <<latest, agreed>>
  <2>1. /\ latest \in [Keys -> Values \cup {Nil}] /\ agreed \in [Keys -> BOOLEAN]
        /\ steady \in [Keys -> BOOLEAN]
    BY <1>0 DEF CallsInv, Types
  <2>2. t.val \in Values \cup {Nil}
    BY <1>0 DEF Turn
  <2>. HIDE DEF n
  <2>. QED
    BY <1>0, <1>3, <1>5, <2>1, <2>2
<1>9. Types'
  BY <1>0, <1>5, <1>7, <1>8 DEF CallsInv, Types
<1>10. InPlace(p, u)
  <2>1. ASSUME NEW i \in 1..(n - 1)
        PROVE  u.todo[i] = GetReplicas[k][ReplicaCount - (n - 1) + i]
    <3>1. i + 1 \in 1..n /\ u.todo[i] = t.todo[i + 1]
      BY <1>3, <1>4
    <3>2. t.todo[i + 1] = GetReplicas[k][ReplicaCount - n + (i + 1)]
      BY <1>0, <1>1, <3>1 DEF InPlace
    <3>3. ReplicaCount - n + (i + 1) = ReplicaCount - (n - 1) + i
      BY <1>3
    <3>. QED
      BY <3>1, <3>2, <3>3
  <2>2. Len(u.todo) = n - 1 /\ n - 1 < ReplicaCount
    BY <1>3, <1>4
  <2>3. \A i \in 1..Len(u.todo) : u.todo[i] = GetReplicas[u.key][ReplicaCount - Len(u.todo) + i]
    BY <1>0, <2>1, <2>2, Zenon
  <2>4. p = Primary(u.key) /\ u.skip = {} /\ Len(u.todo) < ReplicaCount
    BY <1>0, <1>2, <2>2, Zenon
  <2>. QED
    BY <2>3, <2>4, Zenon DEF InPlace
<1>11. PutsInPlace'
  <2>1. \A q \in Partitions : q # p => InPlace(q, turn'[q])
    BY <1>0, <1>7 DEF CallsInv, PutsInPlace
  <2>2. InPlace(p, turn'[p])
    BY <1>7, <1>10 DEF InPlace
  <2>. QED
    BY <2>1, <2>2 DEF PutsInPlace
<1>12. ASSUME NEW j \in Keys, j # k PROVE Agreement(j)'
  <2>1. Putting(j) => Primary(j) # p /\ Primary(j) \in Partitions
    BY <1>12, ReplicaFacts DEF Putting
  <2>2. Putting(j)' <=> Putting(j)
    BY <1>0, <1>7, <1>12, <2>1, ReplicaFacts DEF Putting
  <2>. QED
    BY <1>0, <1>5, <1>7, <1>8, <1>12, <2>1, <2>2, AgreementKept DEF GrainInv
<1>13. Agreement(k)'
  <2>1. CASE n = 1
    <3>1. ~Putting(k)'
      <4>1. turn'[p] = Nil
        BY <1>3, <1>4, <1>7, <2>1
      <4>. QED
        BY <1>2, <4>1, SMTT(30) DEF Putting
    <3>2. ASSUME NEW q \in Replicas(k), agreed'[k] PROVE cache'[q][k] = latest'[k]
      <4>0. Replicas(k) = {GetReplicas[k][i] : i \in 1..ReplicaCount}
        BY <1>0, ReplicaFacts
      <4>1. PICK i \in 1..ReplicaCount : q = GetReplicas[k][i]
        BY <4>0
      <4>2. CASE i = ReplicaCount
        <5>1. q = Head(t.todo)
          BY <1>3, <2>1, <4>1, <4>2
        <5>. QED
          BY <1>5, <1>6, <1>8, <2>1, <3>2, <5>1
      <4>3. CASE i # ReplicaCount
        <5>1. i \in 1..(ReplicaCount - n)
          BY <1>3, <2>1, <4>3
        <5>2. q \in Passed(k, t)
          BY <4>1, <5>1 DEF Passed
        <5>. QED
          BY <1>5, <1>6, <1>8, <2>1, <3>2, <5>2
      <4>. QED
        BY <4>2, <4>3
    <3>. QED
      BY <3>1, <3>2 DEF Agreement
  <2>2. CASE n # 1
    <3>1. Putting(k)' /\ turn'[Primary(k)] = u
      <4>1. turn'[p] = u /\ u # Nil
        BY <1>0, <1>3, <1>4, <1>7, <2>2, NilAssumption
      <4>. QED
        BY <1>0, <1>2, <4>1, Zenon DEF Putting
    <3>2. Len(u.todo) = n - 1 /\ ReplicaCount - (n - 1) = ReplicaCount - n + 1
      BY <1>3, <1>4
    <3>3. \A q \in Passed(k, u) : q \in Passed(k, t) \/ q = Head(t.todo)
      <4>1. ASSUME NEW i \in 1..(ReplicaCount - (n - 1))
            PROVE  i \in 1..(ReplicaCount - n) \/ i = ReplicaCount - n + 1
        BY <1>3
      <4>. QED
        BY <1>3, <3>2, <4>1 DEF Passed
    <3>4. \A q \in Ahead(k, u) : q \in Ahead(k, t)
      <4>1. \A q \in Passed(k, t) : q \in Passed(k, u)
        <5>1. ASSUME NEW i \in 1..(ReplicaCount - n) PROVE i \in 1..(ReplicaCount - (n - 1))
          BY <1>3
        <5>. QED
          BY <3>2, <5>1 DEF Passed
      <4>2. Head(t.todo) \in Passed(k, u)
        <5>1. ReplicaCount - n + 1 \in 1..(ReplicaCount - (n - 1))
          BY <1>3
        <5>. QED
          BY <1>3, <3>2, <5>1 DEF Passed
      <4>. QED
        BY <4>1, <4>2 DEF Ahead
    <3>5. /\ steady'[k] => \A q \in Passed(k, u) : cache'[q][k] = u.val
          /\ steady'[k] /\ agreed'[k] => \A q \in Ahead(k, u) : cache'[q][k] = latest'[k]
      BY <1>0, <1>5, <1>6, <1>8, <2>2, <3>3, <3>4
    <3>6. answer'[Primary(k)].status # "ok"
      BY <1>2, <1>7
    <3>. QED
      BY <3>1, <3>5, <3>6 DEF Agreement, Passed, Ahead
  <2>. QED
    BY <2>1, <2>2
<1>. QED
  BY <1>7, <1>9, <1>11, <1>12, <1>13 DEF GrainInv, CallsInv

(* The end of a put that is not through is a disturbance.                   *)
LEMMA EndedTurn ==
    ASSUME CallsInv, NEW p \in Partitions, turn'[p] = Nil,
           \A q \in Partitions : q # p => turn'[q] = turn[q] /\ answer'[q] = answer[q],
           NEW k \in Keys, k \notin PutOf(p)
    PROVE  /\ Putting(k)' <=> Putting(k)
           /\ Putting(k) => /\ turn'[Primary(k)] = turn[Primary(k)]
                            /\ answer'[Primary(k)] = answer[Primary(k)]
<1>1. Primary(k) \in Partitions
  BY ReplicaFacts
<1>2. Primary(k) = p => ~Putting(k) /\ ~Putting(k)'
  BY DEF Putting, PutOf
<1>3. Primary(k) # p => (Putting(k)' <=> Putting(k))
  BY <1>1 DEF Putting
<1>. QED
  BY <1>1, <1>2, <1>3

LEMMA FailStep ==
    ASSUME GrainInv, NEW p \in Partitions, Fail(p)
    PROVE  GrainInv'
<1>0. /\ CallsInv /\ turn[p] \in Turn /\ turn[p].from = Nil /\ answer[p] = Error
      /\ turn \in [Partitions -> Turn \cup {Nil}] /\ answer \in [Partitions -> Answer]
      /\ Nil \notin Partitions
  BY NilAssumption DEF GrainInv, CallsInv, Types, Matched, Fail
<1>1. \A r \in requests : r.from # p
  BY <1>0 DEF CallsInv, Linked, Error, Waiting
<1>2. Abandon(p)
  <2>1. {r \in requests : r.from = p} = {}
    BY <1>1
  <2>. QED
    BY <2>1 DEF Abandon, Fail
<1>3. turn' = [turn EXCEPT ![p] = Nil] /\ answer' = [answer EXCEPT ![p] = Idle]
  <2>1. Answered(Nil, Error) = answer
    BY <1>0 DEF Answered
  <2>. QED
    BY <1>0, <2>1 DEF Fail
<1>4. Idle \in Answer /\ Idle # Waiting
  BY DEF Idle, Waiting, Answer
<1>5. /\ turn' \in [Partitions -> Turn \cup {Nil}] /\ requests' \subseteq Request
      /\ answer' \in [Partitions -> Answer]
      /\ Linked' /\ Matched' /\ PutsInPlace'
      /\ \A q \in Partitions : q # p => turn'[q] = turn[q] /\ answer'[q] = answer[q]
  <2>. DEFINE t == Nil
  <2>1. t \in {Nil, turn[p]} /\ (t = Nil <=> Idle = Idle) /\ turn' = [turn EXCEPT ![p] = t]
    BY <1>3
  <2>. HIDE DEF t
  <2>. QED
    BY <1>0, <1>2, <1>3, <1>4, <2>1, AbandonedCalls
<1>6. turn'[p] = Nil
  BY <1>0, <1>3
<1>7. /\ \A k \in Keys : Agreement(k)'
      /\ latest' \in [Keys -> Values \cup {Nil}]
      /\ agreed' \in [Keys -> BOOLEAN] /\ steady' \in [Keys -> BOOLEAN]
  <2>. DEFINE ks == PutOf(p)
  <2>1. Disturb(ks) /\ Changed \subseteq ks
    BY DEF Fail, Changed
  <2>2. \A k \in Keys \ ks :
            /\ Putting(k)' <=> Putting(k)
            /\ Putting(k) => /\ turn'[Primary(k)] = turn[Primary(k)]
                             /\ answer'[Primary(k)] = answer[Primary(k)]
    BY <1>0, <1>5, <1>6, EndedTurn
  <2>. HIDE DEF ks
  <2>. QED
    BY <2>1, <2>2, DisturbEffect
<1>8. Types'
  BY <1>0, <1>5, <1>7 DEF CallsInv, Types, Fail
<1>. QED
  BY <1>5, <1>7, <1>8 DEF GrainInv, CallsInv

LEMMA TimeOutStep ==
    ASSUME GrainInv, NEW p \in Partitions, TimeOut(p)
    PROVE  GrainInv'
<1>0. /\ CallsInv /\ answer[p] = Waiting /\ Abandon(p) /\ turn' = Orphaned(p)
      /\ turn \in [Partitions -> Turn \cup {Nil}] /\ answer \in [Partitions -> Answer]
      /\ answer' = [answer EXCEPT ![p] = Error]
      /\ UNCHANGED <<cache, puts, gets, failures, latest, agreed, steady>>
  BY DEF GrainInv, CallsInv, Types, TimeOut, Undisturbed
<1>1. turn' = turn /\ turn' = [turn EXCEPT ![p] = turn[p]]
  BY <1>0, AbandonEffect
<1>2. turn[p] # Nil
  BY <1>0 DEF CallsInv, Linked, Waiting, Idle
<1>3. Error \in Answer /\ Error # Waiting /\ Error # Idle /\ Error.status # "ok"
  BY DEF Idle, Waiting, Error, Answer
<1>4. /\ turn' \in [Partitions -> Turn \cup {Nil}] /\ requests' \subseteq Request
      /\ answer' \in [Partitions -> Answer]
      /\ Linked' /\ Matched' /\ PutsInPlace'
      /\ \A q \in Partitions : q # p => turn'[q] = turn[q] /\ answer'[q] = answer[q]
  <2>. DEFINE t == turn[p]
  <2>1. t \in {Nil, turn[p]} /\ (t = Nil <=> Error = Idle) /\ turn' = [turn EXCEPT ![p] = t]
    BY <1>1, <1>2, <1>3
  <2>. HIDE DEF t
  <2>. QED
    BY <1>0, <1>3, <2>1, AbandonedCalls
<1>5. answer'[p] = Error
  BY <1>0
<1>6. ASSUME NEW k \in Keys, answer'[Primary(k)].status = "ok"
      PROVE  answer[Primary(k)].status = "ok"
  BY <1>3, <1>4, <1>5, <1>6, ReplicaFacts
<1>7. \A k \in Keys : Putting(k)' <=> Putting(k)
  BY <1>1 DEF Putting
<1>8. failures' \in 0..MaxFailures
  BY <1>0 DEF CallsInv, Types
<1>. QED
  BY <1>0, <1>1, <1>4, <1>6, <1>7, <1>8, QuietEffect

LEMMA DeactivateStep ==
    ASSUME GrainInv, NEW p \in Partitions, Deactivate(p)
    PROVE  GrainInv'
<1>0. /\ CallsInv /\ Abandon(p) /\ turn' = [Orphaned(p) EXCEPT ![p] = Nil]
      /\ turn \in [Partitions -> Turn \cup {Nil}] /\ answer \in [Partitions -> Answer]
      /\ answer' = [answer EXCEPT ![p] = Idle]
      /\ Disturb(Changed \cup PutOf(p)) /\ UNCHANGED <<puts, gets>>
  BY DEF GrainInv, CallsInv, Types, Deactivate
<1>1. turn' = [turn EXCEPT ![p] = Nil] /\ turn'[p] = Nil
  BY <1>0, AbandonEffect
<1>2. Idle \in Answer /\ Idle # Waiting
  BY DEF Idle, Waiting, Answer
<1>3. /\ turn' \in [Partitions -> Turn \cup {Nil}] /\ requests' \subseteq Request
      /\ answer' \in [Partitions -> Answer]
      /\ Linked' /\ Matched' /\ PutsInPlace'
      /\ \A q \in Partitions : q # p => turn'[q] = turn[q] /\ answer'[q] = answer[q]
  <2>. DEFINE t == Nil
  <2>1. t \in {Nil, turn[p]} /\ (t = Nil <=> Idle = Idle) /\ turn' = [turn EXCEPT ![p] = t]
    BY <1>1
  <2>. HIDE DEF t
  <2>. QED
    BY <1>0, <1>2, <2>1, AbandonedCalls
<1>4. /\ cache' \in [Partitions -> [Keys -> Values \cup {Nil}]] /\ failures' \in 0..MaxFailures
  BY <1>0, GrainAssumption DEF Deactivate, CallsInv, Types
<1>5. /\ \A k \in Keys : Agreement(k)'
      /\ latest' \in [Keys -> Values \cup {Nil}]
      /\ agreed' \in [Keys -> BOOLEAN] /\ steady' \in [Keys -> BOOLEAN]
  <2>. DEFINE ks == Changed \cup PutOf(p)
  <2>1. Disturb(ks) /\ Changed \subseteq ks
    BY <1>0
  <2>2. \A k \in Keys \ ks :
            /\ Putting(k)' <=> Putting(k)
            /\ Putting(k) => /\ turn'[Primary(k)] = turn[Primary(k)]
                             /\ answer'[Primary(k)] = answer[Primary(k)]
    BY <1>0, <1>1, <1>3, EndedTurn
  <2>. HIDE DEF ks
  <2>. QED
    BY <2>1, <2>2, DisturbEffect
<1>6. Types'
  BY <1>0, <1>3, <1>4, <1>5 DEF CallsInv, Types
<1>. QED
  BY <1>3, <1>5, <1>6 DEF GrainInv, CallsInv

LEMMA ThrowStep ==
    ASSUME GrainInv, NEW p \in Partitions, NEW r \in requests, Throw(p, r)
    PROVE  GrainInv'
<1>0. CallsInv /\ r.from \in Partitions \cup {Nil}
  BY DEF GrainInv, CallsInv, Types, Request
<1>1. /\ requests' = requests \ {r} /\ answer' = Answered(r.from, Error)
      /\ UNCHANGED <<cache, turn, puts, gets, latest, agreed, steady>>
      /\ failures' \in 0..MaxFailures
  <2>1. failures \in 0..MaxFailures /\ MaxFailures \in Nat
    BY <1>0, GrainAssumption DEF CallsInv, Types
  <2>. QED
    BY <2>1 DEF Throw, Undisturbed
<1>2. Error \in Answer /\ Error # Idle /\ Error # Waiting /\ Error.status # "ok"
  BY DEF Error, Answer, Idle, Waiting
<1>3. /\ turn' \in [Partitions -> Turn \cup {Nil}] /\ requests' \subseteq Request
      /\ answer' \in [Partitions -> Answer]
      /\ Linked' /\ Matched'
      /\ \A q \in Partitions : answer'[q] = IF q = r.from THEN Error ELSE answer[q]
  BY <1>0, <1>1, <1>2, ReplyEffect
<1>4. ASSUME NEW k \in Keys, answer'[Primary(k)].status = "ok"
      PROVE  answer[Primary(k)].status = "ok"
  BY <1>2, <1>3, <1>4, ReplicaFacts
<1>5. PutsInPlace' /\ \A k \in Keys : Putting(k)' <=> Putting(k)
  BY <1>0, <1>1 DEF CallsInv, PutsInPlace, Putting
<1>. QED
  BY <1>1, <1>3, <1>4, <1>5, QuietEffect


-----------------------------------------------------------------------------
(* The specification *)

LEMMA InitEstablishes ==
    Init => GrainInv
<1>. SUFFICES ASSUME Init PROVE GrainInv
  OBVIOUS
<1>1. /\ cache = [p \in Partitions |-> [k \in Keys |-> Nil]]
      /\ turn = [p \in Partitions |-> Nil] /\ requests = {}
      /\ answer = [x \in Partitions |-> Idle]
      /\ puts = 0 /\ gets = 0 /\ failures = 0
      /\ latest = [k \in Keys |-> Nil]
      /\ agreed = [k \in Keys |-> TRUE] /\ steady = [k \in Keys |-> TRUE]
  BY DEF Init
<1>2. Idle \in Answer
  BY DEF Idle, Answer
<1>3. Types
  BY <1>1, <1>2, GrainAssumption DEF Types
<1>4. Linked /\ Matched /\ PutsInPlace
  BY <1>1 DEF Linked, Matched, PutsInPlace, InPlace
<1>5. ASSUME NEW k \in Keys PROVE Agreement(k)
  <2>1. ~Putting(k) /\ Replicas(k) \subseteq Partitions
    BY <1>1, ReplicaFacts DEF Putting
  <2>. QED
    BY <1>1, <2>1 DEF Agreement
<1>. QED
  BY <1>3, <1>4, <1>5 DEF GrainInv, CallsInv

LEMMA StutterKeeps ==
    GrainInv /\ UNCHANGED vars => GrainInv'
<1>. SUFFICES ASSUME GrainInv, UNCHANGED vars PROVE GrainInv'
  OBVIOUS
<1>1. UNCHANGED <<cache, turn, requests, answer, puts, gets, failures, latest, agreed, steady>>
  BY DEF vars
<1>2. Types' /\ Linked' /\ Matched' /\ PutsInPlace'
  BY <1>1 DEF GrainInv, CallsInv, Types, Linked, Matched, PutsInPlace
<1>3. ASSUME NEW k \in Keys PROVE Agreement(k)'
  BY <1>1, AgreementKept DEF GrainInv, Putting
<1>. QED
  BY <1>2, <1>3 DEF GrainInv, CallsInv

LEMMA NextKeeps ==
    GrainInv /\ [Next]_vars => GrainInv'
<1>. SUFFICES ASSUME GrainInv, [Next]_vars PROVE GrainInv'
  OBVIOUS
<1>1. ASSUME NEW k \in Keys, CallPut(k) \/ \E p \in Partitions : CallGet(p, k) PROVE GrainInv'
  BY <1>1, ClientSteps
<1>2. ASSUME NEW p \in Partitions, Begin(p) PROVE GrainInv'
  <2>1. PICK r \in requests : BeginPut(p, r) \/ PutReplica(p, r) \/ BeginGet(p, r) \/ GetReplica(p, r)
    BY <1>2 DEF Begin
  <2>. QED
    BY <2>1, BeginPutStep, PutReplicaStep, BeginGetStep, GetReplicaStep
<1>3. ASSUME NEW p \in Partitions, Resume(p) PROVE GrainInv'
  <2>1. CASE ResumePut(p)
    <3>1. PICK t, k, u : t = turn[p] /\ k = t.key /\ u = Onward(p)
      OBVIOUS
    <3>. QED
      BY <2>1, <3>1, ResumePutStep
  <2>2. CASE ResumeAsk(p) \/ ResumeForward(p)
    BY <2>2, ResumeGetStep
  <2>3. CASE Repair(p)
    BY <2>3, RepairStep
  <2>4. CASE Fail(p)
    BY <2>4, FailStep
  <2>. QED
    BY <1>3, <2>1, <2>2, <2>3, <2>4 DEF Resume
<1>4. ASSUME NEW p \in Partitions, TimeOut(p) PROVE GrainInv'
  BY <1>4, TimeOutStep
<1>5. ASSUME NEW p \in Partitions, Deactivate(p) PROVE GrainInv'
  BY <1>5, DeactivateStep
<1>6. ASSUME NEW p \in Partitions, NEW r \in requests, Throw(p, r) PROVE GrainInv'
  BY <1>6, ThrowStep
<1>7. CASE UNCHANGED vars
  BY <1>7, StutterKeeps
<1>. QED
  BY <1>1, <1>2, <1>3, <1>4, <1>5, <1>6, <1>7 DEF Next

LEMMA InvImpliesProperties ==
    GrainInv => TypeOK /\ ReplicasAgree
<1>. SUFFICES ASSUME GrainInv PROVE TypeOK /\ ReplicasAgree
  OBVIOUS
<1>1. TypeOK
  BY DEF GrainInv, CallsInv, Types, Linked, TypeOK
<1>2. ReplicasAgree
  BY DEF GrainInv, Agreement, ReplicasAgree
<1>. QED
  BY <1>1, <1>2

LEMMA GrainInvHolds == Spec => []GrainInv
<1>1. Init => GrainInv
  BY InitEstablishes
<1>2. GrainInv /\ [Next]_vars => GrainInv'
  BY NextKeeps
<1>. QED
  BY <1>1, <1>2, PTL DEF Spec

(* Whatever the calls and their failures, the state keeps its types, and a  *)
(* grain has one call under way exactly while it is in the middle of one.   *)
THEOREM GrainsTyped == Spec => []TypeOK
<1>1. GrainInv => TypeOK
  BY InvImpliesProperties
<1>. QED
  BY <1>1, GrainInvHolds, PTL

(* A put that went through is on every replica of its key until something   *)
(* else changes one of them, for any ring and any number of partitions.     *)
THEOREM ReplicasStayAgreed == Spec => []ReplicasAgree
<1>1. GrainInv => ReplicasAgree
  BY InvImpliesProperties
<1>. QED
  BY <1>1, GrainInvHolds, PTL
=============================================================================
