---------------------------- MODULE StreamLogProofs ----------------------------
(***************************************************************************)
(* What the stream log keeps, for any keys, values, bounds and threads:    *)
(* the order of the changes, and all of them that a later process needs.    *)
(* What is on its way to the archiver and what is in the log already are    *)
(* taken together: a notification that is archived moves from one to the    *)
(* other.  In a process that restored the log, and archives to the file     *)
(* this replaced, the log stands still: each key is as it says, or its last *)
(* change is on its way or was archived elsewhere.                          *)
(***************************************************************************)
EXTENDS StreamLog, FiniteSetTheorems, SequenceTheorems, TLAPS

Announced == sending \cup ToSet(log)

(* Archive entries of a store have a value.                                 *)
StoresHaveValues == \A r \in Announced : r.type = "store" => r.val \in Values

TypeInv ==
    /\ TypeOK /\ StoresHaveValues
    /\ ~up => sending = {}

(* Event ids: what is archived is older than what may still be archived.    *)
Ordered ==
    attached =>
        /\ \A i, j \in DOMAIN log : i < j => log[i].id < log[j].id
        /\ \A i \in DOMAIN log : log[i].id <= lastVersion
        /\ \A r \in sending, i \in DOMAIN log : r.id # log[i].id
        /\ \A r, s \in sending : r.id = s.id => r = s
        /\ \A r \in Announced : r.id <= currentId

OrderInv == TypeInv /\ Ordered

IsChange(r, k) == r.type = "clear" \/ (r.type \in {"store", "remove"} /\ r.key = k)
IsTouch(r, k) == r.type = "touch" /\ r.key = k

(* The change that gave k its state has been announced with the id told     *)
(* says, so has the newest touch after it, and nothing newer.               *)
Gives(r, k) ==
    IF cache[k] = Nil THEN r.type \in {"remove", "clear"} /\ IsChange(r, k)
    ELSE r.type = "store" /\ r.key = k /\ r.val = cache[k].val

ToldOf(k) ==
    \/ told[k] = {} /\ cache[k] = Nil /\ \A r \in Announced : ~IsChange(r, k)
    \/ \E n \in told[k], m \in told[k] :
        /\ told[k] = {n, m} /\ n <= m
        /\ \E r \in Announced : /\ r.id = n /\ Gives(r, k)
                                /\ n = m /\ cache[k] # Nil => r.exp = cache[k].exp
        /\ n # m => cache[k] # Nil /\ \E r \in Announced :
                        r.id = m /\ IsTouch(r, k) /\ r.exp = cache[k].exp
        /\ \A r \in Announced : (IsChange(r, k) => r.id <= n) /\ (IsTouch(r, k) => r.id <= m)

(* The log says of k what the cache has.                                    *)
TouchesOf(k) == {i \in AfterClear(log) : IsTouch(log[i], k)}

Newest(i, S) == i \in S /\ \A j \in S : j <= i

InLog(k) ==
    IF cache[k] = Nil
    THEN \A i \in Changes(log, k) : Newest(i, Changes(log, k)) => log[i].type = "remove"
    ELSE \E i \in Changes(log, k) :
            /\ Newest(i, Changes(log, k))
            /\ log[i].type = "store" /\ log[i].val = cache[k].val
            /\ \/ log[i].exp = cache[k].exp /\ \A j \in TouchesOf(k) : j < i
               \/ \E j \in TouchesOf(k) :
                    i < j /\ Newest(j, TouchesOf(k)) /\ log[j].exp = cache[k].exp

Pending(k) == \E r \in sending : r.id \in told[k]

AllTold == \A k \in Keys \ lost : ToldOf(k)
AllKept == \A k \in Keys \ (lost \cup unlogged) : InLog(k) \/ Pending(k)

LogInv ==
    /\ OrderInv
    /\ attached => AllTold
    /\ ~attached => AllKept

-----------------------------------------------------------------------------
(* Sets and sequences *)

LEMMA LargestIs ==
    ASSUME NEW S \in SUBSET Nat, NEW x \in S, \A y \in S : y <= x
    PROVE  LargestOf(S) = x
<1>1. LargestOf(S) \in S /\ \A y \in S : y <= LargestOf(S)
  BY DEF LargestOf
<1>2. LargestOf(S) \in Nat /\ x \in Nat /\ x <= LargestOf(S) /\ LargestOf(S) <= x
  BY <1>1
<1>. QED
  BY <1>2

LEMMA LargestExists ==
    ASSUME NEW n \in Nat, NEW S \in SUBSET (1..n), S # {}
    PROVE  LargestOf(S) \in S /\ \A y \in S : y <= LargestOf(S)
<1>. DEFINE From(x) == {h \in S : x <= h}
            T == {From(x) : x \in S}
<1>0. S \subseteq Nat /\ IsFiniteSet(S)
  <2>1. IsFiniteSet(1..n)
    BY FS_Interval
  <2>2. IsFiniteSet(S)
    BY <2>1, FS_Subset, Zenon
  <2>3. S \subseteq Nat
    OBVIOUS
  <2>. QED
    BY <2>2, <2>3
<1>1. \A x \in S : IsFiniteSet(From(x)) /\ From(x) \subseteq Nat
  BY <1>0, FS_Subset
<1>2. T \subseteq FiniteSubsetsOf(Nat) /\ T # {}
  BY <1>1 DEF FiniteSubsetsOf
<1>3. PICK U \in T : \A V \in T : <<V, U>> \notin StrictSubsetOrdering(Nat)
  <2>. HIDE DEF T
  <2>. QED
    BY <1>2, WFMin, FS_StrictSubsetOrderingWellFounded
<1>4. PICK x \in S : U = From(x)
  OBVIOUS
<1>5. ASSUME NEW y \in S, x < y PROVE FALSE
  <2>1. From(y) \in T
    OBVIOUS
  <2>0. \A h \in S : h \in Nat
    BY <1>0
  <2>2. From(y) \subseteq U /\ U \subseteq Nat
    <3>1. ASSUME NEW h \in S, y <= h PROVE x <= h
      BY <2>0, <1>5, <3>1
    <3>. QED
      BY <1>0, <1>4, <3>1
  <2>3. x \in U /\ x \notin From(y)
    BY <1>4, <1>5, <2>0
  <2>4. <<From(y), U>> \in StrictSubsetOrdering(Nat)
    <3>. HIDE DEF From, T
    <3>. QED
      BY <2>2, <2>3 DEF StrictSubsetOrdering
  <2>. QED
    BY <1>3, <2>1, <2>4
<1>6. \A y \in S : y <= x
  BY <1>0, <1>5
<1>. QED
  BY <1>6 DEF LargestOf

(* SetToSeq has every element of a finite set once.                         *)
LEMMA SetToSeqFacts ==
    ASSUME NEW S, IsFiniteSet(S)
    PROVE  /\ Cardinality(S) \in Nat
           /\ SetToSeq(S) \in [1..Cardinality(S) -> S]
           /\ SetToSeq(S) \in Seq(S) /\ Len(SetToSeq(S)) = Cardinality(S)
           /\ \A i, j \in 1..Cardinality(S) : SetToSeq(S)[i] = SetToSeq(S)[j] => i = j
           /\ \A x \in S : \E i \in 1..Cardinality(S) : SetToSeq(S)[i] = x
<1>. DEFINE n == Cardinality(S)
            f == SetToSeq(S)
<1>1. n \in Nat /\ ExistsBijection(1..n, S)
  BY FS_CardinalityType
<1>2. \E g \in [1..n -> S] : IsInjective(g)
  BY <1>1 DEF ExistsBijection, Bijection, Injection
<1>3. f \in [1..n -> S] /\ IsInjective(f)
  BY <1>2 DEF SetToSeq
<1>4. IsFiniteSet(1..n) /\ Cardinality(1..n) = n
  <2>. HIDE DEF n
  <2>. QED
    BY <1>1, FS_Interval
<1>5. f \in Surjection(1..n, S)
  <2>. HIDE DEF f
  <2>1. f \in Injection(1..n, S)
    BY <1>3 DEF Injection
  <2>. QED
    BY <1>4, <2>1, FS_Injection
<1>. HIDE DEF f, n
<1>6. f \in Seq(S) /\ Len(f) = n
  BY <1>1, <1>3
<1>7. \A i, j \in 1..n : f[i] = f[j] => i = j
  BY <1>3 DEF IsInjective
<1>8. \A x \in S : \E i \in 1..n : f[i] = x
  BY <1>5 DEF Surjection
<1>. QED
  BY <1>1, <1>3, <1>6, <1>7, <1>8 DEF f, n


-----------------------------------------------------------------------------
(* The restorer *)

LEMMA IndexFacts ==
    ASSUME NEW s \in Seq(Record), NEW k \in Keys, NEW t
    PROVE  /\ DOMAIN s = 1..Len(s) /\ Len(s) \in Nat
           /\ AfterClear(s) \subseteq 1..Len(s)
           /\ Changes(s, k) \subseteq AfterClear(s) /\ Touches(s, k, t) \subseteq AfterClear(s)
           /\ \A i \in 1..Len(s) : s[i] \in Record
<1>1. DOMAIN s = 1..Len(s) /\ Len(s) \in Nat /\ \A i \in 1..Len(s) : s[i] \in Record
  OBVIOUS
<1>2. AfterClear(s) \subseteq 1..Len(s)
  BY <1>1 DEF AfterClear
<1>3. Changes(s, k) \subseteq AfterClear(s)
  BY DEF Changes
<1>4. Touches(s, k, t) \subseteq AfterClear(s)
  BY DEF Touches
<1>. QED
  BY <1>1, <1>2, <1>3, <1>4

LEMMA RebuiltType ==
    ASSUME NEW s \in Seq(Record), \A i \in DOMAIN s : s[i].type = "store" => s[i].val \in Values,
           NEW k \in Keys, NEW t \in Times
    PROVE  /\ Rebuilt(s, k, t) \in [val : Values, exp : Expiries] \cup {Nil}
           /\ Rebuilt(s, k, t) \in Entry \cup {Nil}
<1>. DEFINE touches == Touches(s, k, t)
            i == LargestOf(Changes(s, k))
            e == [val |-> s[i].val, exp |-> IF touches # {} THEN s[LargestOf(touches)].exp ELSE s[i].exp]
<1>1. /\ DOMAIN s = 1..Len(s) /\ Len(s) \in Nat
      /\ Changes(s, k) \subseteq 1..Len(s) /\ touches \subseteq 1..Len(s)
      /\ \A j \in 1..Len(s) : s[j] \in Record
  BY IndexFacts
<1>2. Rebuilt(s, k, t) = IF Changes(s, k) = {} THEN Nil
                         ELSE IF s[i].type = "store" /\ (touches # {} \/ s[i].exp > t)
                         THEN e ELSE Nil
  BY DEF Rebuilt
<1>3. touches # {} => s[LargestOf(touches)].exp \in Expiries
  <2>. HIDE DEF touches
  <2>1. touches # {} => LargestOf(touches) \in 1..Len(s)
    BY <1>1, LargestExists
  <2>. QED
    BY <1>1, <2>1 DEF Record
<1>4. Changes(s, k) # {} => i \in 1..Len(s) /\ s[i].exp \in Expiries
  <2>1. Changes(s, k) # {} => i \in 1..Len(s)
    BY <1>1, LargestExists
  <2>. QED
    BY <1>1, <2>1 DEF Record
<1>. HIDE DEF touches, i
<1>5. Changes(s, k) # {} /\ s[i].type = "store" => e \in [val : Values, exp : Expiries]
  BY <1>1, <1>3, <1>4
<1>. HIDE DEF e
<1>6. Rebuilt(s, k, t) \in [val : Values, exp : Expiries] \cup {Nil}
  BY <1>2, <1>5
<1>. QED
  BY <1>6 DEF Entry

(* A log that says of k what the cache has is enough to restore k.          *)
LEMMA InLogRestores ==
    ASSUME TypeInv, NEW k \in Keys, InLog(k), NEW e, e = Rebuilt(log, k, now)
    PROVE  /\ e # Nil => cache[k] # Nil /\ e.val = cache[k].val
           /\ cache[k] # Nil /\ cache[k].exp > now =>
                  e # Nil /\ (e.exp = cache[k].exp \/ TouchedBefore(k))
<1>. DEFINE touches == Touches(log, k, now)
            C == Changes(log, k)
            found == LargestOf(C)
<1>0. /\ log \in Seq(Record) /\ now \in Times
      /\ \A j \in DOMAIN log : log[j].type = "store" => log[j].val \in Values
  BY DEF TypeInv, TypeOK, StoresHaveValues, Announced, ToSet
<1>1. /\ DOMAIN log = 1..Len(log) /\ Len(log) \in Nat
      /\ C \subseteq 1..Len(log) /\ touches \subseteq 1..Len(log)
      /\ AfterClear(log) \subseteq 1..Len(log)
      /\ C \in SUBSET Nat /\ touches \in SUBSET Nat
  <2>1. /\ DOMAIN log = 1..Len(log) /\ Len(log) \in Nat
        /\ C \subseteq 1..Len(log) /\ touches \subseteq 1..Len(log)
        /\ AfterClear(log) \subseteq 1..Len(log)
    BY <1>0, IndexFacts
  <2>. HIDE DEF C, touches
  <2>. QED
    BY <2>1
<1>2. /\ Nil \notin Entry
      /\ \A v \in Values, x \in Expiries : [val |-> v, exp |-> x] \in Entry
  BY NilIsNoEntry DEF Entry
<1>6. \A j \in 1..Len(log) :
        log[j].exp \in Expiries /\ (log[j].type = "store" => log[j].val \in Values)
  <2>1. ASSUME NEW j \in 1..Len(log) PROVE log[j].exp \in Expiries
    <3>1. log[j] \in Record
      BY <1>0
    <3>. QED
      BY <3>1 DEF Record
  <2>. QED
    BY <1>0, <1>1, <2>1
<1>3. e = IF C = {} THEN Nil
          ELSE IF log[found].type = "store" /\ (touches # {} \/ log[found].exp > now)
          THEN [val |-> log[found].val,
                exp |-> IF touches # {} THEN log[LargestOf(touches)].exp ELSE log[found].exp]
          ELSE Nil
  BY DEF Rebuilt
<1>4. CASE cache[k] = Nil
  <2>1. C # {} => Newest(found, C)
    BY <1>1, LargestExists DEF Newest
  <2>2. C # {} => log[found].type = "remove"
    BY <1>4, <2>1 DEF InLog, Newest
  <2>. QED
    BY <1>3, <1>4, <2>2
<1>5. CASE cache[k] # Nil
  <2>1. PICK i \in C :
            /\ Newest(i, C)
            /\ log[i].type = "store" /\ log[i].val = cache[k].val
            /\ \/ log[i].exp = cache[k].exp /\ \A j \in TouchesOf(k) : j < i
               \/ \E j \in TouchesOf(k) :
                    i < j /\ Newest(j, TouchesOf(k)) /\ log[j].exp = cache[k].exp
    BY <1>5 DEF InLog
  <2>2. found = i /\ C # {}
    BY <1>1, <2>1, LargestIs DEF Newest
  <2>3. log[i].key = k
    BY <2>1 DEF Changes
  <2>4. touches \subseteq TouchesOf(k)
    BY DEF Touches, TouchesOf, IsTouch
  <2>5. e # Nil => e.val = cache[k].val
    BY <1>3, <2>1, <2>2
  <2>6. ASSUME cache[k].exp > now PROVE e # Nil /\ (e.exp = cache[k].exp \/ TouchedBefore(k))
    <3>1. CASE log[i].exp = cache[k].exp /\ \A j \in TouchesOf(k) : j < i
      <4>1. CASE touches = {}
        <5>1. e = [val |-> log[i].val, exp |-> log[i].exp]
          BY <1>3, <2>1, <2>2, <2>6, <3>1, <4>1
        <5>2. e \in Entry
          <6>1. i \in 1..Len(log)
            BY <1>1, <2>1
          <6>. QED
            BY <1>2, <1>6, <2>1, <5>1, <6>1
        <5>. QED
          BY <1>2, <3>1, <5>1, <5>2
      <4>2. CASE touches # {}
        <5>1. PICK j \in touches : TRUE
          BY <4>2
        <5>2. j < i /\ log[j].type = "touch" /\ log[j].key = k
          BY <2>4, <3>1, <5>1 DEF Touches
        <5>3. j \in DOMAIN log /\ i \in DOMAIN log
          BY <1>1, <2>1, <5>1
        <5>4. TouchedBefore(k)
          BY <2>1, <2>3, <5>2, <5>3 DEF TouchedBefore
        <5>5. e = [val |-> log[i].val, exp |-> log[LargestOf(touches)].exp]
          BY <1>3, <2>1, <2>2, <4>2
        <5>6. LargestOf(touches) \in 1..Len(log)
          BY <1>1, <4>2, LargestExists
        <5>7. e \in Entry
          <6>1. i \in 1..Len(log)
            BY <1>1, <2>1
          <6>. QED
            BY <1>2, <1>6, <2>1, <5>5, <5>6, <6>1
        <5>. QED
          BY <1>2, <5>4, <5>7
      <4>. QED
        BY <4>1, <4>2
    <3>2. CASE \E j \in TouchesOf(k) :
                  i < j /\ Newest(j, TouchesOf(k)) /\ log[j].exp = cache[k].exp
      <4>1. PICK j \in TouchesOf(k) : i < j /\ Newest(j, TouchesOf(k)) /\ log[j].exp = cache[k].exp
        BY <3>2
      <4>2. j \in touches
        BY <2>6, <4>1 DEF Touches, TouchesOf, IsTouch
      <4>3. \A l \in touches : l <= j
        BY <2>4, <4>1 DEF Newest
      <4>4. LargestOf(touches) = j
        <5>. HIDE DEF touches
        <5>. QED
          BY <1>1, <4>2, <4>3, LargestIs
      <4>5. e = [val |-> log[i].val, exp |-> log[j].exp]
        BY <1>3, <2>1, <2>2, <4>2, <4>4
      <4>6. e \in Entry
        <5>1. i \in 1..Len(log) /\ j \in 1..Len(log)
          BY <1>1, <2>1, <4>2
        <5>2. log[i].val \in Values /\ log[j].exp \in Expiries
          BY <1>6, <2>1, <5>1
        <5>. QED
          BY <1>2, <4>5, <5>2
      <4>. QED
        BY <1>2, <4>1, <4>5, <4>6
    <3>. QED
      BY <2>1, <3>1, <3>2
  <2>. QED
    BY <1>5, <2>5, <2>6
<1>. QED
  BY <1>4, <1>5


-----------------------------------------------------------------------------
(* Once nothing about k is under way, the log says of it what the cache has. *)

LEMMA SettledInLog ==
    ASSUME OrderInv, attached, NEW k \in Keys, ToldOf(k),
           \A r \in sending : r.id \notin told[k]
    PROVE  InLog(k)
<1>. DEFINE C == Changes(log, k)
<1>0. /\ log \in Seq(Record) /\ told[k] \in SUBSET Nat
      /\ DOMAIN log = 1..Len(log) /\ Len(log) \in Nat
      /\ \A i, j \in DOMAIN log : i < j => log[i].id < log[j].id
      /\ \A i \in DOMAIN log : log[i].id \in Nat /\ log[i] \in Announced
  <2>1. log \in Seq(Record) /\ told[k] \in SUBSET Ids /\ Ids \in SUBSET Nat
    BY StreamLogAssumption DEF OrderInv, TypeInv, TypeOK, Ids
  <2>2. DOMAIN log = 1..Len(log) /\ Len(log) \in Nat /\ \A i \in DOMAIN log : log[i] \in Record
    BY <2>1
  <2>3. \A i \in DOMAIN log : log[i].id \in Nat /\ log[i] \in Announced
    BY <2>1, <2>2 DEF Record, Announced, ToSet
  <2>. QED
    BY <2>1, <2>2, <2>3 DEF OrderInv, Ordered
<1>1. /\ \A i \in C : i \in DOMAIN log /\ IsChange(log[i], k)
      /\ \A i \in TouchesOf(k) : i \in DOMAIN log /\ IsTouch(log[i], k)
  BY DEF Changes, TouchesOf, AfterClear, IsChange
<1>2. CASE told[k] = {} /\ cache[k] = Nil /\ \A r \in Announced : ~IsChange(r, k)
  BY <1>0, <1>1, <1>2 DEF InLog
<1>3. CASE ~(told[k] = {} /\ cache[k] = Nil /\ \A r \in Announced : ~IsChange(r, k))
  <2>1. PICK n \in told[k], m \in told[k] :
          /\ told[k] = {n, m} /\ n <= m
          /\ \E r \in Announced : /\ r.id = n /\ Gives(r, k)
                                  /\ n = m /\ cache[k] # Nil => r.exp = cache[k].exp
          /\ n # m => cache[k] # Nil /\ \E r \in Announced :
                          r.id = m /\ IsTouch(r, k) /\ r.exp = cache[k].exp
          /\ \A r \in Announced : (IsChange(r, k) => r.id <= n) /\ (IsTouch(r, k) => r.id <= m)
    BY <1>3, Zenon DEF ToldOf
  <2>2. \A r \in Announced : r.id \in told[k] => \E i \in DOMAIN log : r = log[i]
    BY DEF Announced, ToSet
  <2>3. PICK i \in DOMAIN log : /\ log[i].id = n /\ Gives(log[i], k)
                                /\ n = m /\ cache[k] # Nil => log[i].exp = cache[k].exp
    BY <2>1, <2>2
  <2>4. n \in Nat /\ m \in Nat /\ i \in Nat
    BY <1>0, <2>1, <2>3
  <2>5. \A j \in DOMAIN log : i < j => ~IsChange(log[j], k)
    BY <1>0, <2>1, <2>3, <2>4
  <2>6. \A j \in DOMAIN log : i < j => log[j].type # "clear"
    BY <2>5 DEF IsChange
  <2>7. \A j \in DOMAIN log : j <= i \/ i < j
    BY <1>0, <2>4
  <2>8. \A j \in C : j <= i
    BY <1>1, <2>5, <2>7
  <2>9. CASE cache[k] = Nil
    <3>1. log[i].type \in {"remove", "clear"}
      BY <2>3, <2>9 DEF Gives
    <3>2. ASSUME NEW j \in C, Newest(j, C) PROVE log[j].type = "remove"
      <4>1. i \in j..Len(log)
        BY <1>0, <1>1, <2>3, <2>8, <3>2
      <4>2. log[i].type # "clear"
        BY <3>2, <4>1 DEF Changes, AfterClear
      <4>3. log[i].type = "remove" /\ log[i].key = k
        BY <2>3, <2>9, <3>1, <4>2 DEF Gives, IsChange
      <4>4. \A l \in i..Len(log) : log[l].type # "clear"
        BY <1>0, <2>3, <2>4, <2>6, <4>2
      <4>5. i \in C
        BY <2>3, <4>3, <4>4 DEF Changes, AfterClear
      <4>6. j = i
        <5>1. i <= j /\ j <= i /\ j \in Nat
          BY <1>0, <1>1, <2>8, <3>2, <4>5 DEF Newest
        <5>. QED
          BY <2>4, <5>1
      <4>. QED
        BY <4>3, <4>6
    <3>. QED
      BY <2>9, <3>2 DEF InLog
  <2>10. CASE cache[k] # Nil
    <3>1. log[i].type = "store" /\ log[i].key = k /\ log[i].val = cache[k].val
      BY <2>3, <2>10 DEF Gives
    <3>2. \A l \in i..Len(log) : log[l].type # "clear"
      BY <1>0, <2>3, <2>4, <2>6, <3>1
    <3>3. i \in C /\ Newest(i, C)
      BY <2>3, <2>8, <3>1, <3>2 DEF Changes, AfterClear, Newest
    <3>4. CASE n = m
      <4>1. ASSUME NEW j \in TouchesOf(k) PROVE j < i
        <5>1. j \in DOMAIN log /\ log[j].id <= log[i].id /\ IsTouch(log[j], k)
          BY <1>0, <1>1, <2>1, <2>3, <3>4
        <5>2. ~(i < j)
          BY <1>0, <2>3, <2>4, <5>1
        <5>3. i # j
          BY <3>1, <5>1 DEF IsTouch
        <5>. QED
          BY <2>4, <2>7, <5>1, <5>2, <5>3, <1>0
      <4>2. log[i].exp = cache[k].exp
        BY <2>3, <2>10, <3>4
      <4>. QED
        BY <2>10, <3>1, <3>3, <4>1, <4>2 DEF InLog
    <3>5. CASE n # m
      <4>1. PICK j \in DOMAIN log : log[j].id = m /\ IsTouch(log[j], k) /\ log[j].exp = cache[k].exp
        BY <2>1, <2>2, <3>5
      <4>2. i < j
        <5>1. j \in Nat /\ ~(j < i) /\ j # i
          BY <1>0, <2>1, <2>3, <2>4, <3>5, <4>1
        <5>. QED
          BY <2>4, <5>1
      <4>3. j \in TouchesOf(k)
        <5>1. \A l \in j..Len(log) : l \in i..Len(log)
          BY <1>0, <2>4, <4>1, <4>2
        <5>. QED
          BY <3>2, <4>1, <5>1 DEF TouchesOf, AfterClear
      <4>4. ASSUME NEW l \in TouchesOf(k) PROVE l <= j
        <5>1. l \in DOMAIN log /\ log[l].id <= log[j].id
          BY <1>0, <1>1, <2>1, <4>1
        <5>2. ~(j < l) /\ l \in Nat /\ j \in Nat
          BY <1>0, <4>1, <5>1
        <5>. QED
          BY <5>2
      <4>. QED
        BY <2>10, <3>1, <3>3, <4>1, <4>2, <4>3, <4>4 DEF InLog, Newest
    <3>. QED
      BY <3>4, <3>5
  <2>. QED
    BY <2>9, <2>10
<1>. QED
  BY <1>2, <1>3


-----------------------------------------------------------------------------
(* The steps: changes of the cache *)

LEMMA ChangeEffect ==
    ASSUME OrderInv, NEW c \in [Keys -> Entry \cup {Nil}], NEW rs \in SUBSET Record,
           \A r \in rs : r.id = NextId /\ (r.type = "store" => r.val \in Values),
           \A r, s \in rs : r = s,
           Change(c, rs), told' \in [Keys -> SUBSET Ids], lost' \subseteq Keys
    PROVE  /\ OrderInv' /\ cache' = c /\ Announced' = Announced \cup rs
           /\ sending' = sending \cup rs /\ UNCHANGED <<log, attached, unlogged>>
<1>0. /\ up /\ currentId < MaxId
      /\ currentId' = currentId + 1 /\ cache' = c /\ sending' = sending \cup rs
      /\ UNCHANGED <<now, up, lastVersion, log, cut, attached, position, length, failed, unlogged>>
  BY DEF Change, archive
<1>1. TypeOK /\ currentId \in Nat /\ MaxId \in Nat /\ NextId \in Ids /\ NextId = currentId + 1
  BY <1>0, StreamLogAssumption DEF OrderInv, TypeInv, TypeOK, Ids, NextId
<1>2. Announced' = Announced \cup rs
  BY <1>0 DEF Announced
<1>3. TypeOK'
  BY <1>0, <1>1 DEF TypeOK, NextId
<1>4. StoresHaveValues'
  BY <1>2 DEF StoresHaveValues, OrderInv, TypeInv
<1>5. Ordered'
  <2>. SUFFICES ASSUME attached PROVE Ordered'
    BY <1>0 DEF Ordered
  <2>1. /\ \A i, j \in DOMAIN log : i < j => log[i].id < log[j].id
        /\ \A i \in DOMAIN log : log[i].id <= lastVersion
        /\ \A r \in sending, i \in DOMAIN log : r.id # log[i].id
        /\ \A r, s \in sending : r.id = s.id => r = s
        /\ \A r \in Announced : r.id <= currentId
    BY DEF OrderInv, Ordered
  <2>2. \A r \in Announced : r.id \in Nat
    <3>1. ASSUME NEW r \in Announced PROVE r \in Record
      BY <1>1 DEF TypeOK, Announced, ToSet
    <3>. QED
      BY <1>1, <3>1 DEF Record, Ids
  <2>3. \A r \in Announced : r.id < NextId /\ r.id <= NextId
    BY <1>1, <2>1, <2>2
  <2>4. \A i \in DOMAIN log : log[i] \in Announced
    BY DEF Announced, ToSet
  <2>5. \A r \in sending : r \in Announced
    BY DEF Announced
  <2>6. \A r \in sending', i \in DOMAIN log : r.id # log[i].id
    BY <1>0, <1>1, <2>1, <2>3, <2>4
  <2>7. \A r, s \in sending' : r.id = s.id => r = s
    BY <1>0, <1>1, <2>1, <2>3, <2>5
  <2>8. \A r \in Announced' : r.id <= currentId'
    BY <1>0, <1>1, <1>2, <2>3
  <2>. QED
    BY <1>0, <2>1, <2>6, <2>7, <2>8 DEF Ordered
<1>. QED
  BY <1>0, <1>2, <1>3, <1>4, <1>5 DEF OrderInv, TypeInv

(* What the changes have in common.                                         *)
LEMMA IdFacts ==
    ASSUME OrderInv
    PROVE  /\ currentId \in Nat /\ NextId = currentId + 1
           /\ currentId < MaxId => NextId \in Ids
           /\ cache \in [Keys -> Entry \cup {Nil}] /\ Nil \notin Entry
           /\ told \in [Keys -> SUBSET Ids] /\ lost \subseteq Keys
           /\ \A r \in Announced : r \in Record /\ r.id \in Ids /\ r.id \in Nat
           /\ attached => \A r \in Announced : r.id < NextId
           /\ Never \in Expiries /\ Ids \subseteq Nat
<1>1. TypeOK /\ MaxId \in Nat /\ MaxTime \in Nat
  BY StreamLogAssumption DEF OrderInv, TypeInv
<1>2. ASSUME NEW r \in Announced PROVE r \in Record /\ r.id \in Ids /\ r.id \in Nat
  <2>1. r \in Record
    BY <1>1 DEF TypeOK, Announced, ToSet
  <2>. QED
    BY <1>1, <2>1 DEF Record, Ids
<1>3. currentId \in Nat /\ NextId = currentId + 1 /\ (currentId < MaxId => NextId \in Ids)
  BY <1>1 DEF TypeOK, Ids, NextId
<1>4. attached => \A r \in Announced : r.id < NextId
  BY <1>2, <1>3 DEF OrderInv, Ordered
<1>. QED
  BY <1>1, <1>2, <1>3, <1>4, NilIsNoEntry DEF TypeOK, Expiries, Ids

(* A key that is told less of: what it was told of is announced still.      *)
LEMMA ToldKept ==
    ASSUME NEW k \in Keys, ToldOf(k), cache'[k] = cache[k], told'[k] = told[k],
           \A r \in Announced' : r \in Announced \/ ~(IsChange(r, k) \/ IsTouch(r, k)),
           \A r \in Announced : r.id \in told[k] => r \in Announced'
    PROVE  ToldOf(k)'
<1>1. CASE told[k] = {} /\ cache[k] = Nil /\ \A r \in Announced : ~IsChange(r, k)
  <2>1. \A r \in Announced' : ~IsChange(r, k)
    BY <1>1
  <2>. QED
    BY <1>1, <2>1 DEF ToldOf
<1>2. CASE ~(told[k] = {} /\ cache[k] = Nil /\ \A r \in Announced : ~IsChange(r, k))
  <2>1. PICK n \in told[k], m \in told[k] :
          /\ told[k] = {n, m} /\ n <= m
          /\ \E r \in Announced : /\ r.id = n /\ Gives(r, k)
                                  /\ n = m /\ cache[k] # Nil => r.exp = cache[k].exp
          /\ n # m => cache[k] # Nil /\ \E r \in Announced :
                          r.id = m /\ IsTouch(r, k) /\ r.exp = cache[k].exp
          /\ \A r \in Announced : (IsChange(r, k) => r.id <= n) /\ (IsTouch(r, k) => r.id <= m)
    BY <1>2, Zenon DEF ToldOf
  <2>2. \A r : Gives(r, k)' <=> Gives(r, k)
    BY DEF Gives
  <2>3. \E r \in Announced' : /\ r.id = n /\ Gives(r, k)'
                              /\ n = m /\ cache'[k] # Nil => r.exp = cache'[k].exp
    BY <2>1, <2>2
  <2>4. n # m => cache'[k] # Nil /\ \E r \in Announced' :
                    r.id = m /\ IsTouch(r, k) /\ r.exp = cache'[k].exp
    BY <2>1
  <2>5. \A r \in Announced' : (IsChange(r, k) => r.id <= n) /\ (IsTouch(r, k) => r.id <= m)
    BY <2>1
  <2>6. n \in told'[k] /\ m \in told'[k] /\ told'[k] = {n, m} /\ n <= m
    BY <2>1
  <2>. QED
    BY <2>3, <2>4, <2>5, <2>6, Zenon DEF ToldOf
<1>. QED
  BY <1>1, <1>2

LEMMA ToldAnew ==
    ASSUME NEW k \in Keys, NEW r \in Announced', told'[k] = {r.id}, Gives(r, k)', r.id \in Nat,
           cache'[k] # Nil => r.exp = cache'[k].exp,
           \A s \in Announced' : s.id <= r.id
    PROVE  ToldOf(k)'
<1>1. r.id \in told'[k] /\ told'[k] = {r.id, r.id} /\ r.id <= r.id
  OBVIOUS
<1>. QED
  BY <1>1 DEF ToldOf


(* A key that a step leaves alone, while the log stands still.              *)
LEMMA KeptBeside ==
    ASSUME NEW k \in Keys, InLog(k) \/ Pending(k), cache'[k] = cache[k], told'[k] = told[k],
           log' = log, \A r \in sending : r.id \in told[k] => r \in sending'
    PROVE  InLog(k)' \/ Pending(k)'
<1>1. InLog(k) => InLog(k)'
  BY DEF InLog, TouchesOf
<1>2. Pending(k) => Pending(k)'
  BY DEF Pending
<1>. QED
  BY <1>1, <1>2

(* A change of the cache: nothing but announcements are added to the files. *)
IsCacheStep ==
    /\ OrderInv' /\ UNCHANGED <<log, attached>>
    /\ attached /\ AllTold => AllTold'
    /\ ~attached /\ AllKept => AllKept'

LEMMA StoreStep ==
    ASSUME OrderInv, NEW k \in Keys, NEW v \in Values, NEW e \in Expiries, StoreEntry(k, v, e)
    PROVE  IsCacheStep
<1>. DEFINE c == [cache EXCEPT ![k] = [val |-> v, exp |-> e]]
<1>0. PICK r : r = Store(k, v, e, NextId)
  OBVIOUS
<1>1. /\ Change(c, {r}) /\ told' = [told EXCEPT ![k] = {NextId}] /\ lost' = lost \ {k}
      /\ currentId < MaxId
  BY <1>0 DEF StoreEntry, Change
<1>2. /\ r \in Record /\ r.type = "store" /\ r.key = k /\ r.val = v /\ r.exp = e /\ r.id = NextId
      /\ NextId \in Nat
  BY <1>0, <1>1, IdFacts DEF Store, Record
<1>3. /\ c \in [Keys -> Entry \cup {Nil}] /\ c[k] = [val |-> v, exp |-> e] /\ c[k] # Nil
      /\ \A j \in Keys : j # k => c[j] = cache[j]
  <2>1. [val |-> v, exp |-> e] \in Entry
    BY DEF Entry
  <2>. QED
    BY <2>1, IdFacts
<1>4. /\ told' \in [Keys -> SUBSET Ids] /\ lost' \subseteq Keys /\ told'[k] = {NextId}
      /\ \A j \in Keys : j # k => told'[j] = told[j]
  BY <1>1, IdFacts
<1>. HIDE DEF c
<1>5. /\ OrderInv' /\ cache' = c /\ Announced' = Announced \cup {r}
      /\ sending' = sending \cup {r} /\ UNCHANGED <<log, attached, unlogged>>
  BY <1>1, <1>2, <1>3, <1>4, ChangeEffect
<1>6. ASSUME attached, AllTold, NEW j \in Keys \ lost' PROVE ToldOf(j)'
  <2>1. CASE j = k
    <3>1. Gives(r, k)' /\ (cache'[k] # Nil => r.exp = cache'[k].exp)
      BY <1>2, <1>3, <1>5 DEF Gives
    <3>2. \A s \in Announced' : s.id <= r.id
      BY <1>2, <1>5, <1>6, IdFacts
    <3>. QED
      BY <1>2, <1>4, <1>5, <2>1, <3>1, <3>2, ToldAnew
  <2>2. CASE j # k
    <3>1. ToldOf(j)
      BY <1>1, <1>6, <2>2 DEF AllTold
    <3>2. ~(IsChange(r, j) \/ IsTouch(r, j))
      BY <1>2, <2>2 DEF IsChange, IsTouch
    <3>. QED
      BY <1>3, <1>4, <1>5, <2>2, <3>1, <3>2, ToldKept
  <2>. QED
    BY <2>1, <2>2
<1>7. ASSUME AllKept, NEW j \in Keys \ (lost' \cup unlogged') PROVE InLog(j)' \/ Pending(j)'
  <2>1. CASE j = k
    BY <1>2, <1>4, <1>5, <2>1 DEF Pending
  <2>2. CASE j # k
    <3>1. InLog(j) \/ Pending(j)
      BY <1>1, <1>5, <1>7, <2>2 DEF AllKept
    <3>. QED
      BY <1>3, <1>4, <1>5, <2>2, <3>1, KeptBeside
  <2>. QED
    BY <2>1, <2>2
<1>. QED
  BY <1>5, <1>6, <1>7 DEF IsCacheStep, AllTold, AllKept

LEMMA RemoveStep ==
    ASSUME OrderInv, NEW k \in Keys, RemoveEntry(k)
    PROVE  IsCacheStep
<1>. DEFINE c == [cache EXCEPT ![k] = Nil]
<1>0. PICK r : r = [type |-> "remove", key |-> k, val |-> Nil, exp |-> Never, id |-> NextId]
  OBVIOUS
<1>1. /\ Change(c, {r}) /\ told' = [told EXCEPT ![k] = {NextId}] /\ lost' = lost \ {k}
      /\ currentId < MaxId
  BY <1>0 DEF RemoveEntry, Change
<1>2. /\ r \in Record /\ r.type = "remove" /\ r.key = k /\ r.id = NextId /\ NextId \in Nat
  BY <1>0, <1>1, IdFacts DEF Record
<1>3. /\ c \in [Keys -> Entry \cup {Nil}] /\ c[k] = Nil
      /\ \A j \in Keys : j # k => c[j] = cache[j]
  BY IdFacts
<1>4. /\ told' \in [Keys -> SUBSET Ids] /\ lost' \subseteq Keys /\ told'[k] = {NextId}
      /\ \A j \in Keys : j # k => told'[j] = told[j]
  BY <1>1, IdFacts
<1>. HIDE DEF c
<1>5. /\ OrderInv' /\ cache' = c /\ Announced' = Announced \cup {r}
      /\ sending' = sending \cup {r} /\ UNCHANGED <<log, attached, unlogged>>
  BY <1>1, <1>2, <1>3, <1>4, ChangeEffect
<1>6. ASSUME attached, AllTold, NEW j \in Keys \ lost' PROVE ToldOf(j)'
  <2>1. CASE j = k
    <3>1. Gives(r, k)' /\ (cache'[k] # Nil => r.exp = cache'[k].exp)
      BY <1>2, <1>3, <1>5 DEF Gives, IsChange
    <3>2. \A s \in Announced' : s.id <= r.id
      BY <1>2, <1>5, <1>6, IdFacts
    <3>. QED
      BY <1>2, <1>4, <1>5, <2>1, <3>1, <3>2, ToldAnew
  <2>2. CASE j # k
    <3>1. ToldOf(j)
      BY <1>1, <1>6, <2>2 DEF AllTold
    <3>2. ~(IsChange(r, j) \/ IsTouch(r, j))
      BY <1>2, <2>2 DEF IsChange, IsTouch
    <3>. QED
      BY <1>3, <1>4, <1>5, <2>2, <3>1, <3>2, ToldKept
  <2>. QED
    BY <2>1, <2>2
<1>7. ASSUME AllKept, NEW j \in Keys \ (lost' \cup unlogged') PROVE InLog(j)' \/ Pending(j)'
  <2>1. CASE j = k
    BY <1>2, <1>4, <1>5, <2>1 DEF Pending
  <2>2. CASE j # k
    <3>1. InLog(j) \/ Pending(j)
      BY <1>1, <1>5, <1>7, <2>2 DEF AllKept
    <3>. QED
      BY <1>3, <1>4, <1>5, <2>2, <3>1, KeptBeside
  <2>. QED
    BY <2>1, <2>2
<1>. QED
  BY <1>5, <1>6, <1>7 DEF IsCacheStep, AllTold, AllKept

LEMMA ClearStep ==
    ASSUME OrderInv, Clear
    PROVE  IsCacheStep
<1>. DEFINE c == [k \in Keys |-> Nil]
<1>0. PICK r : r = [type |-> "clear", key |-> Nil, val |-> Nil, exp |-> Never, id |-> NextId]
  OBVIOUS
<1>1. /\ Change(c, {r}) /\ told' = [k \in Keys |-> {NextId}] /\ lost' = {} /\ currentId < MaxId
  BY <1>0 DEF Clear, Change
<1>2. r \in Record /\ r.type = "clear" /\ r.id = NextId /\ NextId \in Nat
  BY <1>0, <1>1, IdFacts DEF Record
<1>3. c \in [Keys -> Entry \cup {Nil}] /\ \A j \in Keys : c[j] = Nil
  OBVIOUS
<1>4. /\ told' \in [Keys -> SUBSET Ids] /\ lost' \subseteq Keys
      /\ \A j \in Keys : told'[j] = {NextId}
  BY <1>1, IdFacts
<1>. HIDE DEF c
<1>5. /\ OrderInv' /\ cache' = c /\ Announced' = Announced \cup {r}
      /\ sending' = sending \cup {r} /\ UNCHANGED <<log, attached, unlogged>>
  BY <1>1, <1>2, <1>3, <1>4, ChangeEffect
<1>6. ASSUME attached, NEW j \in Keys PROVE ToldOf(j)'
  <2>1. Gives(r, j)' /\ cache'[j] = Nil
    BY <1>2, <1>3, <1>5 DEF Gives, IsChange
  <2>2. \A s \in Announced' : s.id <= r.id
    BY <1>2, <1>5, <1>6, IdFacts
  <2>. QED
    BY <1>2, <1>4, <1>5, <2>1, <2>2, ToldAnew
<1>7. ASSUME NEW j \in Keys PROVE Pending(j)'
  BY <1>2, <1>4, <1>5 DEF Pending
<1>. QED
  BY <1>5, <1>6, <1>7 DEF IsCacheStep, AllTold, AllKept

(* The archiver is not told the value of k.                                 *)
LEMMA LossyStep ==
    ASSUME OrderInv, NEW k \in Keys,
           ReplaceSilently(k) \/ \E v \in Values, e \in Expiries : AppendEntry(k, v, e)
    PROVE  IsCacheStep
<1>. DEFINE c == [cache EXCEPT ![k].val = Other]
<1>1. PICK rs \in SUBSET Record :
        /\ \A r \in rs : r.id = NextId /\ r.type = "store" /\ r.val \in Values /\ r.key = k
        /\ \A r, s \in rs : r = s
        /\ Change(c, rs) /\ cache[k] # Nil /\ lost' = lost \cup {k}
        /\ \E S \in SUBSET {NextId} : told' = [told EXCEPT ![k] = S]
  <2>1. CASE ReplaceSilently(k)
    <3>1. Change(c, {}) /\ cache[k] # Nil /\ lost' = lost \cup {k} /\ told' = [told EXCEPT ![k] = {}]
      BY <2>1 DEF ReplaceSilently
    <3>. HIDE DEF c
    <3>. QED
      BY <3>1
  <2>2. CASE \E v \in Values, e \in Expiries : AppendEntry(k, v, e)
    <3>1. PICK v \in Values, e \in Expiries : AppendEntry(k, v, e)
      BY <2>2
    <3>. DEFINE r == Store(k, v, e, NextId)
    <3>2. Change(c, {r}) /\ cache[k] # Nil /\ lost' = lost \cup {k} /\ told' = [told EXCEPT ![k] = {NextId}]
      BY <3>1 DEF AppendEntry
    <3>3. currentId < MaxId
      BY <3>2 DEF Change
    <3>4. r \in Record /\ r.type = "store" /\ r.key = k /\ r.val = v /\ r.id = NextId
      BY <3>3, IdFacts DEF Store, Record
    <3>. HIDE DEF c, r
    <3>. QED
      BY <3>2, <3>4
  <2>. QED
    BY <2>1, <2>2
<1>2. c \in [Keys -> Entry \cup {Nil}] /\ \A j \in Keys : j # k => c[j] = cache[j]
  <2>1. cache \in [Keys -> Entry \cup {Nil}] /\ cache[k] \in Entry
    BY <1>1, IdFacts
  <2>2. [cache[k] EXCEPT !.val = Other] \in Entry
    BY <2>1 DEF Entry
  <2>. QED
    BY <2>1, <2>2
<1>. HIDE DEF c
<1>3. currentId < MaxId
  BY <1>1 DEF Change
<1>4. /\ told' \in [Keys -> SUBSET Ids] /\ lost' \subseteq Keys
      /\ \A j \in Keys : j # k => told'[j] = told[j]
  BY <1>1, <1>3, IdFacts
<1>5. /\ OrderInv' /\ cache' = c /\ Announced' = Announced \cup rs
      /\ sending' = sending \cup rs /\ UNCHANGED <<log, attached, unlogged>>
  BY <1>1, <1>2, <1>4, ChangeEffect
<1>6. ASSUME AllTold, NEW j \in Keys \ lost' PROVE ToldOf(j)'
  <2>1. j # k /\ j \in Keys \ lost
    BY <1>1, <1>6
  <2>2. ToldOf(j)
    BY <1>6, <2>1 DEF AllTold
  <2>3. \A r \in rs : ~(IsChange(r, j) \/ IsTouch(r, j))
    BY <1>1, <2>1 DEF IsChange, IsTouch
  <2>. QED
    BY <1>2, <1>4, <1>5, <2>1, <2>2, <2>3, ToldKept
<1>7. ASSUME AllKept, NEW j \in Keys \ (lost' \cup unlogged') PROVE InLog(j)' \/ Pending(j)'
  <2>1. j # k /\ (InLog(j) \/ Pending(j))
    BY <1>1, <1>5, <1>7 DEF AllKept
  <2>. QED
    BY <1>2, <1>4, <1>5, <2>1, KeptBeside
<1>. QED
  BY <1>5, <1>6, <1>7 DEF IsCacheStep, AllTold, AllKept


LEMMA TouchStep ==
    ASSUME OrderInv, NEW k \in Keys, NEW e \in Expiries, Touch(k, e)
    PROVE  IsCacheStep
<1>. DEFINE c == [cache EXCEPT ![k].exp = e]
            firsts == {n \in told[k] : \A m \in told[k] : n <= m}
<1>0. PICK r : r = [type |-> "touch", key |-> k, val |-> Nil, exp |-> e, id |-> NextId]
  OBVIOUS
<1>1. /\ Change(c, {r}) /\ cache[k] # Nil /\ currentId < MaxId
      /\ told' = [told EXCEPT ![k] = firsts \cup {NextId}] /\ lost' = lost
  BY <1>0 DEF Touch, Change
<1>2. /\ r \in Record /\ r.type = "touch" /\ r.key = k /\ r.exp = e /\ r.id = NextId
      /\ NextId \in Nat
  BY <1>0, <1>1, IdFacts DEF Record
<1>3. /\ c \in [Keys -> Entry \cup {Nil}] /\ c[k].exp = e /\ c[k].val = cache[k].val /\ c[k] # Nil
      /\ \A j \in Keys : j # k => c[j] = cache[j]
  <2>1. cache \in [Keys -> Entry \cup {Nil}] /\ cache[k] \in Entry
    BY <1>1, IdFacts
  <2>2. /\ [cache[k] EXCEPT !.exp = e] \in Entry
        /\ [cache[k] EXCEPT !.exp = e].exp = e /\ [cache[k] EXCEPT !.exp = e].val = cache[k].val
    BY <2>1 DEF Entry
  <2>. QED
    BY <2>1, <2>2, IdFacts
<1>. HIDE DEF c
<1>4. /\ told' \in [Keys -> SUBSET Ids] /\ lost' \subseteq Keys
      /\ told'[k] = firsts \cup {NextId}
      /\ \A j \in Keys : j # k => told'[j] = told[j]
  BY <1>1, IdFacts
<1>5. /\ OrderInv' /\ cache' = c /\ Announced' = Announced \cup {r}
      /\ sending' = sending \cup {r} /\ UNCHANGED <<log, attached, unlogged>>
  BY <1>1, <1>2, <1>3, <1>4, ChangeEffect
<1>6. ASSUME attached, AllTold, NEW j \in Keys \ lost' PROVE ToldOf(j)'
  <2>1. ToldOf(j)
    BY <1>1, <1>6 DEF AllTold
  <2>2. CASE j = k
    <3>0. ToldOf(k)
      BY <2>1, <2>2
    <3>1. PICK n \in told[k], m \in told[k] :
            /\ told[k] = {n, m} /\ n <= m
            /\ \E s \in Announced : /\ s.id = n /\ Gives(s, k)
                                    /\ n = m /\ cache[k] # Nil => s.exp = cache[k].exp
            /\ n # m => cache[k] # Nil /\ \E s \in Announced :
                            s.id = m /\ IsTouch(s, k) /\ s.exp = cache[k].exp
            /\ \A s \in Announced : (IsChange(s, k) => s.id <= n) /\ (IsTouch(s, k) => s.id <= m)
      BY <1>1, <3>0, Zenon DEF ToldOf
    <3>2. /\ \A s \in Announced : s.id \in Nat /\ s.id < NextId
          /\ n \in Nat /\ m \in Nat
      BY <1>6, <3>1, IdFacts
    <3>3. n < NextId
      BY <3>1, <3>2
    <3>4. told'[k] = {n, NextId}
      <4>1. firsts = {n}
        BY <3>1, <3>2
      <4>. QED
        BY <1>4, <4>1
    <3>5. \E s \in Announced' : s.id = n /\ Gives(s, k)'
      <4>1. PICK s \in Announced : s.id = n /\ Gives(s, k)
        BY <3>1
      <4>2. Gives(s, k)'
        BY <1>1, <1>3, <1>5, <4>1 DEF Gives
      <4>. QED
        BY <1>5, <4>1, <4>2
    <3>6. \E s \in Announced' : s.id = NextId /\ IsTouch(s, k) /\ s.exp = cache'[k].exp
      BY <1>2, <1>3, <1>5 DEF IsTouch
    <3>7. \A s \in Announced' : (IsChange(s, k) => s.id <= n) /\ (IsTouch(s, k) => s.id <= NextId)
      <4>1. ~IsChange(r, k)
        BY <1>2 DEF IsChange
      <4>. QED
        BY <1>2, <1>5, <3>1, <3>2, <4>1
    <3>8. PICK x : x = NextId
      OBVIOUS
    <3>9. /\ n \in told'[k] /\ x \in told'[k] /\ told'[k] = {n, x} /\ n <= x /\ n # x
          /\ cache'[k] # Nil
      BY <1>2, <1>3, <1>5, <3>2, <3>3, <3>4, <3>8
    <3>. QED
      BY <2>2, <3>5, <3>6, <3>7, <3>8, <3>9 DEF ToldOf
  <2>3. CASE j # k
    <3>1. ~(IsChange(r, j) \/ IsTouch(r, j))
      BY <1>2, <2>3 DEF IsChange, IsTouch
    <3>. QED
      BY <1>3, <1>4, <1>5, <2>1, <2>3, <3>1, ToldKept
  <2>. QED
    BY <2>2, <2>3
<1>7. ASSUME AllKept, NEW j \in Keys \ (lost' \cup unlogged') PROVE InLog(j)' \/ Pending(j)'
  <2>1. CASE j = k
    BY <1>2, <1>4, <1>5, <2>1 DEF Pending
  <2>2. CASE j # k
    <3>1. InLog(j) \/ Pending(j)
      BY <1>1, <1>5, <1>7, <2>2 DEF AllKept
    <3>. QED
      BY <1>3, <1>4, <1>5, <2>2, <3>1, KeptBeside
  <2>. QED
    BY <2>1, <2>2
<1>. QED
  BY <1>5, <1>6, <1>7 DEF IsCacheStep, AllTold, AllKept

-----------------------------------------------------------------------------
(* The steps: the archiver *)

LEMMA ArchiveStep ==
    ASSUME OrderInv, NEW r \in sending, Archive(r)
    PROVE  /\ OrderInv' /\ attached' = attached
           /\ attached /\ AllTold => AllTold'
           /\ ~attached /\ AllKept => AllKept'
<1>0. /\ lastVersion <= r.id /\ sending' = sending \ {r} /\ lastVersion' = r.id
      /\ log' = (IF attached THEN Append(log, r) ELSE log)
      /\ position' = position + 1
      /\ length' = (IF position' > length THEN position' ELSE length)
      /\ unlogged' = (IF attached THEN unlogged ELSE unlogged \cup {k \in Keys : r.id \in told[k]})
      /\ UNCHANGED <<now, up, cache, currentId, cut, attached, failed, told, lost>>
  BY DEF Archive, Write, About
<1>1. TypeOK /\ r \in Record /\ r.id \in Ids /\ log \in Seq(Record)
  BY DEF OrderInv, TypeInv, TypeOK, Record
<1>2. attached => /\ Len(log') = Len(log) + 1 /\ DOMAIN log' = 1..(Len(log) + 1)
                  /\ log'[Len(log) + 1] = r /\ \A i \in 1..Len(log) : log'[i] = log[i]
  BY <1>0, <1>1
<1>3. log' \in Seq(Record)
  BY <1>0, <1>1
<1>4. DOMAIN log = 1..Len(log) /\ Len(log) \in Nat
  BY <1>1
<1>5. /\ ToSet(log') = IF attached THEN ToSet(log) \cup {r} ELSE ToSet(log)
      /\ attached => Announced' = Announced
      /\ Announced' \subseteq Announced
  <2>1. CASE attached
    <3>1. ToSet(log') = ToSet(log) \cup {r}
      <4>1. ASSUME NEW x \in ToSet(log') PROVE x \in ToSet(log) \cup {r}
        <5>1. PICK i \in DOMAIN log' : x = log'[i]
          BY <4>1 DEF ToSet
        <5>2. i \in 1..Len(log) \/ i = Len(log) + 1
          BY <1>2, <1>4, <2>1, <5>1
        <5>. QED
          BY <1>2, <1>4, <2>1, <5>1, <5>2 DEF ToSet
      <4>2. ASSUME NEW x \in ToSet(log) PROVE x \in ToSet(log')
        <5>1. PICK i \in DOMAIN log : x = log[i]
          BY <4>2 DEF ToSet
        <5>2. i \in DOMAIN log' /\ log'[i] = x
          BY <1>2, <1>4, <2>1, <5>1
        <5>. QED
          BY <5>2 DEF ToSet
      <4>3. Len(log) + 1 \in DOMAIN log'
        BY <1>2, <1>4, <2>1
      <4>4. r \in ToSet(log')
        BY <1>2, <2>1, <4>3 DEF ToSet
      <4>. QED
        BY <4>1, <4>2, <4>4
    <3>. QED
      BY <1>0, <2>1, <3>1 DEF Announced
  <2>2. CASE ~attached
    BY <1>0, <2>2 DEF Announced
  <2>. QED
    BY <2>1, <2>2
<1>6. TypeInv'
  <2>1. TypeOK'
    <3>1. /\ position' \in Nat /\ length' \in Nat /\ position' <= length'
          /\ attached' => position' = Len(log') /\ length' = Len(log') /\ unlogged' = {}
          /\ unlogged' \subseteq Keys
      BY <1>0, <1>1, <1>2 DEF TypeOK
    <3>. QED
      BY <1>0, <1>1, <1>3, <3>1 DEF TypeOK
  <2>2. StoresHaveValues'
    BY <1>5 DEF OrderInv, TypeInv, StoresHaveValues
  <2>. QED
    BY <1>0, <2>1, <2>2 DEF OrderInv, TypeInv
<1>7. ASSUME attached PROVE Ordered'
  <2>1. /\ \A i, j \in DOMAIN log : i < j => log[i].id < log[j].id
        /\ \A i \in DOMAIN log : log[i].id <= lastVersion
        /\ \A s \in sending, i \in DOMAIN log : s.id # log[i].id
        /\ \A s, u \in sending : s.id = u.id => s = u
        /\ \A s \in Announced : s.id <= currentId
    BY <1>7 DEF OrderInv, Ordered
  <2>2. \A i \in DOMAIN log : log[i].id \in Nat
    <3>1. \A i \in DOMAIN log : log[i] \in Announced
      BY DEF Announced, ToSet
    <3>. QED
      BY <3>1, IdFacts
  <2>3. lastVersion \in Nat /\ r.id \in Nat
    BY <1>1, IdFacts DEF TypeOK
  <2>4. \A i \in DOMAIN log : log[i].id < r.id
    BY <1>0, <2>1, <2>2, <2>3
  <2>5. \A i \in DOMAIN log' : (i \in DOMAIN log /\ log'[i] = log[i]) \/ (i = Len(log) + 1 /\ log'[i] = r)
    BY <1>2, <1>4, <1>7
  <2>6. ASSUME NEW i \in DOMAIN log', NEW j \in DOMAIN log', i < j PROVE log'[i].id < log'[j].id
    <3>1. i \in DOMAIN log /\ log'[i] = log[i]
      BY <1>2, <1>4, <1>7, <2>6
    <3>. QED
      BY <2>1, <2>4, <2>5, <2>6, <3>1
  <2>7. \A i \in DOMAIN log' : log'[i].id <= lastVersion'
    BY <1>0, <2>2, <2>3, <2>4, <2>5
  <2>8. \A s \in sending', i \in DOMAIN log' : s.id # log'[i].id
    BY <1>0, <2>1, <2>5
  <2>9. \A s, u \in sending' : s.id = u.id => s = u
    BY <1>0, <2>1
  <2>10. \A s \in Announced' : s.id <= currentId'
    BY <1>0, <1>5, <2>1
  <2>. QED
    BY <2>6, <2>7, <2>8, <2>9, <2>10 DEF Ordered
<1>8. OrderInv'
  BY <1>0, <1>6, <1>7 DEF OrderInv, Ordered
<1>9. ASSUME attached, AllTold, NEW k \in Keys \ lost' PROVE ToldOf(k)'
  BY <1>0, <1>5, <1>9, ToldKept DEF AllTold
<1>10. ASSUME ~attached, AllKept, NEW k \in Keys \ (lost' \cup unlogged')
       PROVE  InLog(k)' \/ Pending(k)'
  <2>1. r.id \notin told[k] /\ (InLog(k) \/ Pending(k))
    BY <1>0, <1>10 DEF AllKept
  <2>. QED
    BY <1>0, <1>10, <2>1, KeptBeside
<1>. QED
  BY <1>0, <1>8, <1>9, <1>10 DEF AllTold, AllKept

LEMMA SkipStep ==
    ASSUME OrderInv, NEW r \in sending, Skip(r)
    PROVE  /\ OrderInv' /\ UNCHANGED <<log, attached>>
           /\ attached /\ AllTold => AllTold'
           /\ ~attached /\ AllKept => AllKept'
<1>0. /\ sending' = sending \ {r} /\ ToldLess({r})
      /\ UNCHANGED <<now, up, cache, currentId, failed, told, unlogged>>
      /\ UNCHANGED <<lastVersion, log, cut, attached, position, length>>
  BY DEF Skip, archive
<1>1. Announced' \subseteq Announced /\ \A s \in Announced : s \in Announced' \/ s = r
  BY <1>0 DEF Announced
<1>2. lost' = lost \cup {k \in Keys : r.id \in told[k]}
  BY <1>0 DEF ToldLess, About
<1>3. TypeInv'
  <2>1. TypeOK'
    BY <1>0, <1>2 DEF OrderInv, TypeInv, TypeOK
  <2>. QED
    BY <1>0, <1>1, <2>1 DEF OrderInv, TypeInv, StoresHaveValues
<1>4. Ordered'
  BY <1>0, <1>1 DEF OrderInv, Ordered
<1>5. ASSUME attached, AllTold, NEW k \in Keys \ lost' PROVE ToldOf(k)'
  <2>1. ToldOf(k) /\ r.id \notin told[k]
    BY <1>2, <1>5 DEF AllTold
  <2>. QED
    BY <1>0, <1>1, <1>5, <2>1, ToldKept
<1>6. ASSUME AllKept, NEW k \in Keys \ (lost' \cup unlogged') PROVE InLog(k)' \/ Pending(k)'
  <2>1. r.id \notin told[k] /\ (InLog(k) \/ Pending(k))
    BY <1>0, <1>2, <1>6 DEF AllKept
  <2>. QED
    BY <1>0, <1>6, <2>1, KeptBeside
<1>. QED
  BY <1>0, <1>3, <1>4, <1>5, <1>6 DEF OrderInv, AllTold, AllKept


-----------------------------------------------------------------------------
(* The steps: processes *)

LEMMA EndStep ==
    ASSUME OrderInv, Stop \/ \E r \in sending : CompactCache(r)
    PROVE  /\ OrderInv' /\ sending' = {} /\ ~attached' /\ UNCHANGED <<cache, log, told, unlogged>>
           /\ lost' = lost \cup {k \in Keys : Pending(k)}
<1>1. End /\ UNCHANGED log /\ cut' \in BOOLEAN
  BY DEF Stop, CompactCache, OrderInv, TypeInv, TypeOK
<1>2. /\ ~up' /\ sending' = {} /\ lastVersion' = 0 /\ ~attached' /\ position' = 0 /\ length' = 0
      /\ UNCHANGED <<now, cache, currentId, failed, told, unlogged, log>>
      /\ attached' = FALSE /\ up' = FALSE
      /\ lost' = lost \cup {k \in Keys : Pending(k)}
  BY <1>1 DEF End, ToldLess, About, Pending
<1>3. TypeOK'
  <2>1. 0 \in Ids /\ TypeOK
    BY StreamLogAssumption DEF Ids, OrderInv, TypeInv
  <2>2. /\ now' \in Times /\ cache' \in [Keys -> Entry \cup {Nil}]
        /\ currentId' \in Ids /\ lastVersion' \in Ids /\ position' \in Nat /\ length' \in Nat
        /\ sending' \subseteq Record /\ log' \in Seq(Record)
        /\ told' \in [Keys -> SUBSET Ids] /\ lost' \subseteq Keys /\ unlogged' \subseteq Keys
        /\ position' <= length'
    BY <1>2, <2>1 DEF TypeOK
  <2>3. /\ up' \in BOOLEAN /\ cut' \in BOOLEAN /\ attached' \in BOOLEAN /\ failed' \in BOOLEAN
        /\ ~attached'
    BY <1>1, <1>2, <2>1, Zenon DEF TypeOK
  <2>. QED
    BY <2>2, <2>3, Zenon DEF TypeOK
<1>4. StoresHaveValues'
  BY <1>2 DEF OrderInv, TypeInv, StoresHaveValues, Announced
<1>. QED
  BY <1>2, <1>3, <1>4 DEF OrderInv, TypeInv, Ordered

(* The rebuilt log has one record for each entry of the rebuilt cache.      *)
LEMMA StartStep ==
    ASSUME OrderInv, Start
    PROVE  /\ OrderInv' /\ sending' = {} /\ ~attached'
           /\ \A k \in Keys : InLog(k)'
<1>. DEFINE S == {k \in Keys : Rebuilt(log, k, now) # Nil}
            n == Cardinality(S)
            kept == SetToSeq(S)
            e(k) == Rebuilt(log, k, now)
<1>0. /\ up' = TRUE /\ cache' = [k \in Keys |-> e(k)] /\ log' = NewLog(log, now)
      /\ currentId' = Len(log') /\ lastVersion' = 0
      /\ attached' = FALSE /\ position' = 0 /\ length' = Len(log) /\ failed' = FALSE
      /\ told' = [k \in Keys |-> {}] /\ lost' = {} /\ unlogged' = {} /\ UNCHANGED <<now, sending, cut>>
      /\ sending = {} /\ TypeOK /\ MaxId \in Nat /\ MaxTime \in Nat
  BY StreamLogAssumption DEF Start, OrderInv, TypeInv
<1>1. \A k \in Keys : e(k) \in [val : Values, exp : Expiries] \cup {Nil} /\ e(k) \in Entry \cup {Nil}
  <2>1. log \in Seq(Record) /\ now \in Times
    BY <1>0 DEF TypeOK
  <2>2. \A i \in DOMAIN log : log[i].type = "store" => log[i].val \in Values
    BY DEF OrderInv, TypeInv, StoresHaveValues, Announced, ToSet
  <2>. QED
    BY <2>1, <2>2, RebuiltType
<1>2. IsFiniteSet(S) /\ n <= Cardinality(Keys) /\ Cardinality(Keys) \in Nat /\ Cardinality(Keys) <= MaxId
  <2>1. IsFiniteSet(Keys) /\ Cardinality(Keys) <= MaxId
    BY StreamLogAssumption
  <2>2. S \in SUBSET Keys
    OBVIOUS
  <2>. HIDE DEF S
  <2>. QED
    BY <2>1, <2>2, FS_Subset, FS_CardinalityType
<1>3. /\ n \in Nat /\ kept \in Seq(S) /\ Len(kept) = n /\ kept \in [1..n -> S]
      /\ \A i, j \in 1..n : kept[i] = kept[j] => i = j
      /\ \A x \in S : \E i \in 1..n : kept[i] = x
  <2>. HIDE DEF S
  <2>. QED
    BY <1>2, SetToSeqFacts
<1>4. log' = [i \in 1..n |-> Store(kept[i], e(kept[i]).val, e(kept[i]).exp, 0)]
  BY <1>0, <1>3 DEF NewLog
<1>5. \A k \in S : k \in Keys /\ e(k) # Nil
  OBVIOUS
<1>6. \A k \in Keys : k \notin S => e(k) = Nil
  OBVIOUS
<1>. HIDE DEF S, e, kept, n
<1>7. ASSUME NEW i \in 1..n
      PROVE  /\ kept[i] \in S
             /\ log'[i] \in Record /\ log'[i].type = "store" /\ log'[i].key = kept[i]
             /\ log'[i].val = e(kept[i]).val /\ log'[i].exp = e(kept[i]).exp
             /\ log'[i].val \in Values
  <2>1. kept[i] \in S /\ kept[i] \in Keys /\ e(kept[i]) \in [val : Values, exp : Expiries]
    BY <1>1, <1>3, <1>5
  <2>2. e(kept[i]).val \in Values /\ e(kept[i]).exp \in Expiries /\ 0 \in Ids
    BY <1>0, <2>1 DEF Ids
  <2>3. log'[i] = Store(kept[i], e(kept[i]).val, e(kept[i]).exp, 0)
    BY <1>4
  <2>. QED
    BY <2>1, <2>2, <2>3 DEF Store, Record
<1>8. log' \in Seq(Record) /\ Len(log') = n /\ DOMAIN log' = 1..n
  <2>1. log' \in [1..n -> Record]
    BY <1>4, <1>7
  <2>. QED
    BY <1>3, <2>1
<1>9. TypeOK'
  <2>1. cache' \in [Keys -> Entry \cup {Nil}]
    BY <1>0, <1>1
  <2>2. currentId' \in Ids /\ lastVersion' \in Ids /\ length' \in Nat /\ position' <= length'
    BY <1>0, <1>2, <1>3, <1>8 DEF Ids, TypeOK
  <2>. QED
    BY <1>0, <1>8, <2>1, <2>2 DEF TypeOK
<1>10. StoresHaveValues'
  <2>1. \A r \in Announced' : \E i \in 1..n : r = log'[i]
    BY <1>0, <1>8 DEF Announced, ToSet
  <2>. QED
    BY <1>7, <2>1 DEF StoresHaveValues
<1>11. ASSUME NEW k \in Keys PROVE InLog(k)'
  <2>1. \A i \in Changes(log', k) : i \in 1..n /\ kept[i] = k
    BY <1>7, <1>8 DEF Changes, AfterClear
  <2>2. \A i \in TouchesOf(k)' : FALSE
    BY <1>7, <1>8 DEF TouchesOf, AfterClear, IsTouch
  <2>3. CASE k \notin S
    <3>1. cache'[k] = Nil /\ \A i \in Changes(log', k) : FALSE
      BY <1>0, <1>6, <1>7, <2>1, <2>3
    <3>. QED
      BY <3>1 DEF InLog
  <2>4. CASE k \in S
    <3>1. PICK i \in 1..n : kept[i] = k
      BY <1>3, <2>4
    <3>2. \A j \in i..n : j \in 1..n
      BY <1>3, <3>1
    <3>3. \A j \in i..Len(log') : log'[j].type # "clear"
      BY <1>7, <1>8, <3>2
    <3>4. i \in Changes(log', k)
      BY <1>7, <1>8, <3>1, <3>3 DEF Changes, AfterClear
    <3>5. Newest(i, Changes(log', k))
      BY <1>3, <2>1, <3>1, <3>4 DEF Newest
    <3>6. cache'[k] = e(k) /\ cache'[k] # Nil
      BY <1>0, <1>5, <2>4
    <3>7. log'[i].type = "store" /\ log'[i].val = cache'[k].val /\ log'[i].exp = cache'[k].exp
      BY <1>7, <3>1, <3>6
    <3>. QED
      BY <2>2, <3>4, <3>5, <3>6, <3>7 DEF InLog
  <2>. QED
    BY <2>3, <2>4
<1>. QED
  BY <1>0, <1>9, <1>10, <1>11 DEF OrderInv, TypeInv, Ordered

-----------------------------------------------------------------------------
(* The specification *)

LEMMA TickStep ==
    ASSUME OrderInv, Tick \/ StartThrows \/ UNCHANGED vars
    PROVE  /\ OrderInv' /\ UNCHANGED <<cache, sending, log, attached, told, lost, unlogged>>
<1>1. /\ UNCHANGED <<up, cache, currentId, sending, lastVersion, log, cut, attached, position, length>>
      /\ UNCHANGED <<told, lost, unlogged>>
      /\ now' \in Times /\ failed' \in BOOLEAN
  <2>1. now \in Times /\ MaxTime \in Nat /\ failed \in BOOLEAN
    BY StreamLogAssumption DEF OrderInv, TypeInv, TypeOK
  <2>2. CASE Tick
    BY <2>1, <2>2 DEF Tick, archive, Times
  <2>3. CASE StartThrows
    BY <2>1, <2>3 DEF StartThrows, archive
  <2>4. CASE UNCHANGED vars
    BY <2>1, <2>4 DEF vars
  <2>. QED
    BY <2>2, <2>3, <2>4
<1>2. TypeOK'
  BY <1>1 DEF OrderInv, TypeInv, TypeOK
<1>. QED
  BY <1>1, <1>2 DEF OrderInv, TypeInv, StoresHaveValues, Announced, Ordered

IsChangeAction ==
    \/ \E k \in Keys :
        \/ \E v \in Values, e \in Expiries : StoreEntry(k, v, e) \/ AppendEntry(k, v, e)
        \/ \E e \in Expiries : Touch(k, e)
        \/ Delete(k) \/ RemoveExpired(k) \/ ReplaceSilently(k)
    \/ Clear

LEMMA CacheSteps ==
    ASSUME OrderInv, IsChangeAction
    PROVE  IsCacheStep
<1>1. ASSUME NEW k \in Keys, NEW v \in Values, NEW e \in Expiries,
             StoreEntry(k, v, e) \/ AppendEntry(k, v, e)
      PROVE  IsCacheStep
  BY <1>1, StoreStep, LossyStep
<1>2. ASSUME NEW k \in Keys, NEW e \in Expiries, Touch(k, e) PROVE IsCacheStep
  BY <1>2, TouchStep
<1>3. ASSUME NEW k \in Keys, Delete(k) \/ RemoveExpired(k) PROVE IsCacheStep
  BY <1>3, RemoveStep DEF Delete, RemoveExpired
<1>4. ASSUME NEW k \in Keys, ReplaceSilently(k) PROVE IsCacheStep
  BY <1>4, LossyStep
<1>. QED
  BY <1>1, <1>2, <1>3, <1>4, ClearStep DEF IsChangeAction

LEMMA OrderInvNext ==
    OrderInv /\ [Next]_vars => OrderInv'
<1>. SUFFICES ASSUME OrderInv, [Next]_vars PROVE OrderInv'
  OBVIOUS
<1>1. CASE IsChangeAction
  BY <1>1, CacheSteps DEF IsCacheStep
<1>2. CASE \E r \in sending : Archive(r) \/ Skip(r)
  BY <1>2, ArchiveStep, SkipStep
<1>3. CASE Stop \/ \E r \in sending : CompactCache(r)
  BY <1>3, EndStep
<1>4. CASE Start
  BY <1>4, StartStep
<1>5. CASE Tick \/ StartThrows \/ UNCHANGED vars
  BY <1>5, TickStep
<1>. QED
  BY <1>1, <1>2, <1>3, <1>4, <1>5 DEF Next, IsChangeAction

LEMMA OrderInvInit ==
    Init => OrderInv
<1>. SUFFICES ASSUME Init PROVE OrderInv
  OBVIOUS
<1>1. TypeOK
  <2>1. MaxTime \in Nat /\ MaxId \in Nat
    BY StreamLogAssumption
  <2>2. 0 \in Times /\ 0 \in Ids /\ <<>> \in Seq(Record) /\ Len(<<>>) = 0
    BY <2>1 DEF Times, Ids
  <2>3. /\ now \in Times /\ cache \in [Keys -> Entry \cup {Nil}]
        /\ currentId \in Ids /\ lastVersion \in Ids /\ position \in Nat /\ length \in Nat
        /\ sending \subseteq Record /\ log \in Seq(Record)
        /\ told \in [Keys -> SUBSET Ids] /\ lost \subseteq Keys /\ unlogged \subseteq Keys
    BY <2>2 DEF Init
  <2>4. /\ up \in BOOLEAN /\ cut \in BOOLEAN /\ attached \in BOOLEAN /\ failed \in BOOLEAN
        /\ up \/ ~attached
    BY Zenon DEF Init
  <2>5. position <= length /\ position = Len(log) /\ length = Len(log) /\ unlogged = {}
    BY <2>2 DEF Init
  <2>. QED
    BY <2>3, <2>4, <2>5, Zenon DEF TypeOK
<1>2. Announced = {}
  BY DEF Init, Announced, ToSet
<1>. QED
  BY <1>1, <1>2 DEF Init, OrderInv, TypeInv, StoresHaveValues, Ordered

LEMMA OrderInvHolds == Spec => []OrderInv
<1>1. OrderInv /\ [Next]_vars => OrderInv'
  BY OrderInvNext
<1>. QED
  BY <1>1, OrderInvInit, PTL DEF Spec

LEMMA LogInvNext ==
    LogInv /\ [Next]_vars => LogInv'
<1>. SUFFICES ASSUME LogInv, [Next]_vars PROVE LogInv'
  OBVIOUS
<1>0. OrderInv /\ OrderInv'
  BY OrderInvNext DEF LogInv
<1>1. CASE IsChangeAction
  BY <1>0, <1>1, CacheSteps DEF IsCacheStep, LogInv
<1>2. CASE \E r \in sending : Archive(r) \/ Skip(r)
  BY <1>0, <1>2, ArchiveStep, SkipStep DEF LogInv
<1>3. CASE Stop \/ \E r \in sending : CompactCache(r)
  <2>1. /\ sending' = {} /\ ~attached' /\ UNCHANGED <<cache, log, told, unlogged>>
        /\ lost' = lost \cup {k \in Keys : Pending(k)}
    BY <1>0, <1>3, EndStep
  <2>2. ASSUME NEW k \in Keys \ (lost' \cup unlogged') PROVE InLog(k)
    <3>1. k \notin lost /\ ~Pending(k) /\ k \notin unlogged
      BY <2>1, <2>2
    <3>2. CASE attached
      BY <1>0, <2>2, <3>1, <3>2, SettledInLog DEF LogInv, AllTold, Pending
    <3>3. CASE ~attached
      BY <3>1, <3>3 DEF LogInv, AllKept
    <3>. QED
      BY <3>2, <3>3
  <2>3. ASSUME NEW k \in Keys \ (lost' \cup unlogged') PROVE InLog(k)'
    BY <2>1, <2>2, <2>3 DEF InLog, TouchesOf
  <2>. QED
    BY <1>0, <2>1, <2>3 DEF LogInv, AllKept
<1>4. CASE Start
  BY <1>0, <1>4, StartStep DEF LogInv, AllKept
<1>5. CASE Tick \/ StartThrows \/ UNCHANGED vars
  <2>1. UNCHANGED <<cache, sending, log, attached, told, lost, unlogged>>
    BY <1>0, <1>5, TickStep
  <2>2. Announced' = Announced
    BY <2>1 DEF Announced
  <2>3. ASSUME NEW k \in Keys, ToldOf(k) PROVE ToldOf(k)'
    BY <2>1, <2>2, <2>3, ToldKept
  <2>4. ASSUME NEW k \in Keys, InLog(k) \/ Pending(k) PROVE InLog(k)' \/ Pending(k)'
    BY <2>1, <2>4, KeptBeside
  <2>. QED
    BY <1>0, <2>1, <2>3, <2>4 DEF LogInv, AllTold, AllKept
<1>. QED
  BY <1>1, <1>2, <1>3, <1>4, <1>5 DEF Next, IsChangeAction

LEMMA LogInvInit ==
    Init => LogInv
<1>. SUFFICES ASSUME Init PROVE LogInv
  OBVIOUS
<1>1. OrderInv
  BY OrderInvInit
<1>2. Announced = {} /\ log = <<>> /\ \A k \in Keys : told[k] = {} /\ cache[k] = Nil
  BY DEF Init, Announced, ToSet
<1>3. \A k \in Keys : ToldOf(k)
  BY <1>2 DEF ToldOf
<1>4. \A k \in Keys : InLog(k)
  BY <1>2 DEF InLog, Changes, AfterClear
<1>. QED
  BY <1>1, <1>3, <1>4 DEF LogInv, AllTold, AllKept

(* The archiver and the processes keep their types, and a file the archiver *)
(* is attached to has as many records as the archiver counts.               *)
THEOREM LogTyped == Spec => []TypeOK
<1>1. OrderInv => TypeOK
  BY DEF OrderInv, TypeInv
<1>. QED
  BY <1>1, OrderInvHolds, PTL

(* OnNotification: whatever the order in which threads announce changes,    *)
(* the log has them in the order of their ids.                              *)
THEOREM LogStaysOrdered == Spec => []LogOrdered
<1>1. OrderInv => LogOrdered
  BY DEF OrderInv, Ordered, LogOrdered
<1>. QED
  BY <1>1, OrderInvHolds, PTL

(* ReadLogFile and RebuildLog, in the service's wiring and in the tests':   *)
(* the log is enough for every key of which nothing was lost or archived    *)
(* elsewhere, however the threads interleave, whenever the process ends and *)
(* however often it is started again.                                       *)
THEOREM LogRestoresCache == Spec => []RestoresCache
<1>1. LogInv => RestoresCache
  <2>. SUFFICES ASSUME LogInv, NEW k \in Keys, Settled(k), k \notin unlogged
                PROVE  Restored(k)
    BY DEF RestoresCache
  <2>1. InLog(k)
    <3>1. k \notin lost /\ ~Pending(k) /\ \A r \in sending : r.id \notin told[k]
      BY DEF Settled, Pending
    <3>2. CASE attached
      BY <3>1, <3>2, SettledInLog DEF LogInv, AllTold
    <3>3. CASE ~attached
      BY <3>1, <3>3 DEF LogInv, AllKept
    <3>. QED
      BY <3>2, <3>3
  <2>2. PICK e : e = Rebuilt(log, k, now)
    OBVIOUS
  <2>3. /\ e # Nil => cache[k] # Nil /\ e.val = cache[k].val
        /\ cache[k] # Nil /\ cache[k].exp > now =>
               e # Nil /\ (e.exp = cache[k].exp \/ TouchedBefore(k))
    BY <2>1, <2>2, InLogRestores DEF LogInv, OrderInv
  <2>. QED
    BY <2>2, <2>3, Zenon DEF Restored
<1>2. LogInv /\ [Next]_vars => LogInv'
  BY LogInvNext
<1>3. Init => LogInv
  BY LogInvInit
<1>. QED
  BY <1>1, <1>2, <1>3, PTL DEF Spec
=============================================================================
