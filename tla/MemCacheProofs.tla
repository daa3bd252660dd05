--------------------------- MODULE MemCacheProofs ---------------------------
(***************************************************************************)
(* Proofs about MemCache, for any number of threads and keys, any requests *)
(* and any capacity.                                                       *)
(***************************************************************************)
EXTENDS MemCache, TLAPS, FiniteSetTheorems, SequenceTheorems, WellFoundedInduction

-----------------------------------------------------------------------------
(* Lemmas about values *)

(* A non-empty set of naturals has a least element. *)
LEMMA LeastElement ==
    ASSUME NEW S \in SUBSET Nat, S # {}
    PROVE  \E m \in S : \A n \in S : m <= n
<1>1. OpToRel(<, Nat) = {p \in Nat \X Nat : p[1] < p[2]}
  BY DEF OpToRel
<1>2. PICK m \in S : \A n \in S : <<n, m>> \notin OpToRel(<, Nat)
  BY NatLessThanWellFounded, WFMin
<1>3. ASSUME NEW n \in S  PROVE m <= n
  <2>1. <<n, m>> \notin {p \in Nat \X Nat : p[1] < p[2]}
    BY <1>1, <1>2
  <2>. QED
    BY <2>1
<1>. QED
  BY <1>3

(* Min picks one. *)
LEMMA MinInSet ==
    ASSUME NEW S \in SUBSET Nat, S # {}
    PROVE  Min(S) \in S
  BY LeastElement DEF Min

(* A part of a sequence over S is a sequence over S.                        *)
LEMMA SubSeqType ==
    ASSUME NEW S, NEW s \in Seq(S), NEW a \in Int, NEW b \in Int, 1 <= a, b <= Len(s)
    PROVE  SubSeq(s, a, b) \in Seq(S)
<1>1. \A i \in a..b : s[i] \in S
  BY ElementOfSeq
<1>. QED
  BY <1>1, SubSeqProperties

(* List.Remove leaves a list of keys a list of keys.                        *)
LEMMA RemoveFirstType ==
    ASSUME NEW S, NEW s \in Seq(S), NEW e
    PROVE  RemoveFirst(s, e) \in Seq(S)
<1>1. CASE ~ \E i \in 1..Len(s) : s[i] = e
  BY <1>1 DEF RemoveFirst
<1>2. CASE \E i \in 1..Len(s) : s[i] = e
  <2>. DEFINE I == {i \in 1..Len(s) : s[i] = e}
  <2>1. I # {} /\ I \in SUBSET Nat
    BY <1>2
  <2>2. PICK j \in 1..Len(s) : j = Min(I)
    BY <2>1, MinInSet
  <2>3. RemoveFirst(s, e) = SubSeq(s, 1, j - 1) \o SubSeq(s, j + 1, Len(s))
    BY <1>2, <2>1, <2>2 DEF RemoveFirst, RemoveAt, SelectInSeq
  <2>4. Len(s) \in Nat /\ j \in Int /\ j - 1 <= Len(s) /\ 1 <= j + 1
    BY <2>2, LenProperties
  <2>. HIDE DEF I
  <2>5. SubSeq(s, 1, j - 1) \in Seq(S)
    BY <2>4, SubSeqType
  <2>6. SubSeq(s, j + 1, Len(s)) \in Seq(S)
    BY <2>4, SubSeqType
  <2>. QED
    BY <2>3, <2>5, <2>6, ConcatProperties
<1>. QED
  BY <1>1, <1>2

LEMMA NumberType ==
    ASSUME NEW n \in Int
    PROVE  Number(n) \in Data
<1>1. IsFiniteSet(1..(MaxDigits - 1))
  BY UlongAssumption, FS_Interval
<1>. DEFINE D == {d \in 1..(MaxDigits - 1) : n >= 10^d}
<1>2. IsFiniteSet(D)
  BY <1>1, FS_Subset
<1>3. Cardinality(D) \in Nat
  BY <1>2, FS_CardinalityType
<1>4. DecimalLength(n) \in Nat
  BY <1>3 DEF DecimalLength
<1>. QED
  BY <1>4 DEF Number, Data

LEMMA GrownType ==
    ASSUME NEW r \in Request, NEW d \in Data
    PROVE  Grown(r, d) \in Data
<1>1. Concat(d, r.data) \in Data
  BY DEF Concat, Text, Request, Data, NotANumber
<1>2. (d.num + r.delta) % UlongMod \in Int
  BY UlongAssumption DEF Request, Data
<1>. QED
  BY <1>1, <1>2, NumberType DEF Grown

LEMMA NewEntryType ==
    ASSUME NEW r \in Request, NEW id \in Int
    PROVE  NewEntry(r, id) \in Entry
BY DEF NewEntry, Request, Entry

LEMMA UpdatedType ==
    ASSUME NEW t, req[t] \in Request, loc[t].old \in Entry, loc[t].eid \in Int,
           req[t].op \in {"Replace", "Cas", "Append", "Mutate", "Touch"}
    PROVE  Updated(t) \in Entry
<1>1. NewEntry(req[t], loc[t].eid) \in Entry
  BY NewEntryType
<1>2. loc[t].old.data \in Data
  BY DEF Entry
<1>3. Grown(req[t], loc[t].old.data) \in Data
  BY <1>2, GrownType
<1>4. req[t].expiry \in Nat
  BY DEF Request
<1>5. CASE req[t].op \in {"Replace", "Cas"}
  BY <1>1, <1>5 DEF Updated
<1>6. CASE req[t].op = "Append"
  BY <1>3, <1>6 DEF Updated, Entry
<1>7. CASE req[t].op = "Mutate"
  <2>. DEFINE e == loc[t].old
  <2>1. Updated(t) = [e EXCEPT !.data = Grown(req[t], e.data), !.gen = e.gen + 1]
    BY <1>7 DEF Updated
  <2>2. e.gen + 1 \in Nat
    BY DEF Entry
  <2>. QED
    BY <1>3, <2>1, <2>2 DEF Entry
<1>8. CASE req[t].op = "Touch"
  BY <1>4, <1>8 DEF Updated, Entry
<1>. QED
  BY <1>5, <1>6, <1>7, <1>8

LEMMA NotificationType ==
    ASSUME NEW r \in Request, NEW id \in Int
    PROVE  NotificationOf(r, id) \in Notification
BY DEF NotificationOf, Notification, Request

-----------------------------------------------------------------------------
(* Type correctness.  TypeOK is not inductive as it stands: a step that     *)
(* writes the entry a thread read earlier, or removes the key it noted,     *)
(* needs to know what that label of the thread implies.                     *)

SpaceOps == {"Store", "Add", "Replace", "Append", "Cas"}

RemoveLabels == {"rmInc", "rmTake", "rmUsed", "rmLru", "rmQueue"}

(* What holds of a thread that is at label at, in call r, with locals l,    *)
(* and holds the lock or not.                                               *)
ControlAt(at, r, l, holds) ==
    /\ at # "idle" => r \in Request
    /\ holds => at \in RemoveLabels
    /\ (holds \/ at \in {"space", "evict"}) => r.op \in SpaceOps
    /\ at \in {"rContains", "rSize", "rSubtract"} => r.op = "Replace"
    /\ at \in {"loopRead", "loopSwap"} => r.op \in {"Replace", "Append", "Mutate"}
    /\ at \in {"tRead", "tSwap"} => r.op = "Touch"
    /\ at \in {"cRead", "cSwap"} => r.op = "Cas"
    /\ (at \in {"loopSwap", "tSwap", "cSwap"} \/ (at = "inc" /\ r.op = "Touch"))
          => l.old \in Entry
    /\ at \in RemoveLabels \cup {"gIndex"} => l.cur \in Keys

Control(t) == ControlAt(pc[t], req[t], loc[t], lock = t)

ControlOK == \A t \in Threads : Control(t)

TypeInv == TypeOK /\ ControlOK

(* One thread moves: it suffices to look at its label and its locals.       *)
LEMMA ThreadStep ==
    ASSUME NEW t \in Threads, NEW l \in Labels, NEW x \in Local,
           TypeInv, SharedOK', UNCHANGED req,
           pc' = [pc EXCEPT ![t] = l], loc' = [loc EXCEPT ![t] = x],
           \A u \in Threads : u # t => (lock' = u => lock = u),
           ControlAt(l, req[t], x, lock' = t)
    PROVE  TypeInv'
<1>1. ThreadsOK'
  BY DEF TypeInv, TypeOK, ThreadsOK
<1>2. pc'[t] = l /\ loc'[t] = x /\ req'[t] = req[t]
  BY DEF TypeInv, TypeOK, ThreadsOK
<1>3. Control(t)'
  BY <1>2 DEF Control
<1>4. ASSUME NEW u \in Threads, u # t PROVE Control(u)'
  <2>1. Control(u) /\ pc'[u] = pc[u] /\ loc'[u] = loc[u] /\ req'[u] = req[u]
    BY <1>4 DEF TypeInv, TypeOK, ThreadsOK, ControlOK
  <2>2. (lock' = u) => (lock = u)
    BY <1>4
  <2>. QED
    BY <2>1, <2>2 DEF Control, ControlAt
<1>. QED
  BY <1>1, <1>3, <1>4 DEF TypeInv, TypeOK, ControlOK

(* The two locals ControlAt speaks of. *)
SameRefs(x, y) == x.old = y.old /\ x.cur = y.cur

LEMMA LocalUpdate ==
    ASSUME NEW l \in Local
    PROVE  /\ \A v \in EntryOrNil : [l EXCEPT !.old = v] \in Local
           /\ \A v \in Int : LET x == [l EXCEPT !.eid = v] IN x \in Local /\ SameRefs(x, l)
           /\ \A v \in Int : LET x == [l EXCEPT !.n = v] IN x \in Local /\ SameRefs(x, l)
           /\ \A v \in Int : LET x == [l EXCEPT !.vlen = v] IN x \in Local /\ SameRefs(x, l)
           /\ \A v \in Int : LET x == [l EXCEPT !.seq = v] IN x \in Local /\ SameRefs(x, l)
           /\ \A v \in Keys \cup {Nil} : [l EXCEPT !.cur = v] \in Local
           /\ \A v \in SUBSET Keys :
                LET x == [l EXCEPT !.todo = v] IN x \in Local /\ SameRefs(x, l)
           /\ \A v \in [Keys -> EntryOrNil] :
                LET x == [l EXCEPT !.snap = v] IN x \in Local /\ SameRefs(x, l)
           /\ \A v \in Results :
                LET x == [l EXCEPT !.result = v] IN x \in Local /\ SameRefs(x, l)
BY DEF Local, SameRefs

(* What TypeInv says about the thread that moves. *)
LEMMA ThreadFacts ==
    ASSUME TypeInv, NEW t \in Threads
    PROVE  /\ loc[t] \in Local /\ DOMAIN loc = Threads
           /\ pc[t] # "idle" => req[t] \in Request /\ req[t].key \in Keys
                                /\ Current(t) \in EntryOrNil
           /\ Control(t)
           /\ lock = t => pc[t] \in RemoveLabels
<1>1. loc[t] \in Local /\ DOMAIN loc = Threads /\ cache \in [Keys -> EntryOrNil]
  BY DEF TypeInv, TypeOK, ThreadsOK, SharedOK
<1>2. Control(t)
  BY DEF TypeInv, ControlOK
<1>. QED
  BY <1>1, <1>2 DEF Control, ControlAt, Current, Request

(* A step that touches neither the shared state nor the locals.             *)
LEMMA MoveStep ==
    ASSUME NEW t \in Threads, NEW l \in Labels, TypeInv, SharedOK', UNCHANGED <<req, loc>>,
           pc' = [pc EXCEPT ![t] = l],
           \A u \in Threads : u # t => (lock' = u => lock = u),
           ControlAt(l, req[t], loc[t], lock' = t)
    PROVE  TypeInv'
<1>1. loc[t] \in Local /\ loc \in [Threads -> Local]
  BY DEF TypeInv, TypeOK, ThreadsOK
<1>2. loc' = [loc EXCEPT ![t] = loc[t]]
  BY <1>1
<1>. QED
  BY <1>1, <1>2, ThreadStep

(* A step that gives the call its result and leaves the lock alone. *)
LEMMA FinishStep ==
    ASSUME NEW t \in Threads, NEW result \in Results, TypeInv, SharedOK',
           UNCHANGED <<req, lock>>, Finish(t, result), pc[t] # "idle", lock # t
    PROVE  TypeInv'
<1>1. loc[t] \in Local /\ req[t] \in Request
  BY ThreadFacts
<1>. DEFINE x == [loc[t] EXCEPT !.result = result]
<1>2. x \in Local
  BY <1>1, LocalUpdate
<1>3. loc' = [loc EXCEPT ![t] = x] /\ pc' = [pc EXCEPT ![t] = "done"]
  BY DEF Finish, Goto
<1>4. ControlAt("done", req[t], x, lock' = t)
  BY <1>1 DEF ControlAt, RemoveLabels
<1>. QED
  BY <1>2, <1>3, <1>4, ThreadStep DEF Labels

LEMMA WrapType == \A n \in Int : Wrap(n) \in Int
BY SizesAssumption DEF Wrap

LEMMA TakeEventIdType ==
    ASSUME NEW t \in Threads, TypeInv, TakeEventId(t)
    PROVE  /\ SharedOK' /\ UNCHANGED <<lock, req>>
           /\ \E x \in Local : loc' = [loc EXCEPT ![t] = x] /\ SameRefs(x, loc[t])
<1>1. SharedOK /\ loc[t] \in Local
  BY ThreadFacts DEF TypeInv, TypeOK
<1>2. Wrap(seqId + 1) \in Int
  BY <1>1, WrapType DEF SharedOK
<1>3. SharedOK' /\ UNCHANGED <<lock, req>>
  BY <1>1, <1>2 DEF TakeEventId, Frame, SharedOK
<1>. DEFINE x == [loc[t] EXCEPT !.eid = Wrap(seqId + 1)]
<1>4. x \in Local /\ SameRefs(x, loc[t])
  BY <1>1, <1>2, LocalUpdate
<1>5. loc' = [loc EXCEPT ![t] = x]
  BY DEF TakeEventId
<1>. QED
  BY <1>3, <1>4, <1>5

LEMMA AfterRemoveType ==
    ASSUME NEW t \in Threads, NEW result \in Results, TypeInv, SharedOK', UNCHANGED req,
           pc[t] \in RemoveLabels, AfterRemove(t, result)
    PROVE  TypeInv'
<1>. DEFINE back == lock = t \/ req[t].op = "RemoveExpired"
            a == [loc[t] EXCEPT !.cur = req[t].key]
            b == [a EXCEPT !.eid = 0]
            c == [b EXCEPT !.vlen = 0]
            d == [loc[t] EXCEPT !.result = result]
            x == IF back THEN c ELSE d
            l == IF ~ back THEN "done" ELSE IF lock = t THEN "space" ELSE "sweep"
<1>1. loc[t] \in Local /\ req[t] \in Request /\ req[t].key \in Keys /\ Control(t)
  BY ThreadFacts DEF RemoveLabels
<1>2. x \in Local
  <2>1. a \in Local /\ d \in Local
    BY <1>1, LocalUpdate
  <2>. HIDE DEF a
  <2>2. b \in Local
    BY <2>1 DEF Local
  <2>. HIDE DEF b
  <2>3. c \in Local
    BY <2>2 DEF Local
  <2>. QED
    BY <2>1, <2>3
<1>3. pc' = [pc EXCEPT ![t] = l] /\ l \in Labels
  BY DEF AfterRemove, Finish, Goto, Labels
<1>4. loc' = [loc EXCEPT ![t] = x]
  BY DEF AfterRemove, Finish
<1>5. lock' = (IF lock = t THEN Nil ELSE lock) /\ Nil \notin Threads
  BY NilAssumption DEF AfterRemove
<1>6. (lock = t) => req[t].op \in SpaceOps
  BY <1>1 DEF Control, ControlAt
<1>7. ControlAt(l, req[t], x, lock' = t)
  BY <1>1, <1>5, <1>6 DEF ControlAt, RemoveLabels
<1>. QED
  BY <1>2, <1>3, <1>4, <1>5, <1>7, ThreadStep

LEMMA RemoveSteps ==
    ASSUME NEW t \in Threads, TypeInv,
           \/ RemoveNextId(t) \/ RemoveTake(t) \/ RemoveUsed(t)
           \/ RemoveNotifyLru(t) \/ RemoveNotifyQueue(t)
    PROVE  TypeInv'
<1>. USE DEF Move, Goto
<1>0. SharedOK /\ loc[t] \in Local /\ loc \in [Threads -> Local] /\ Control(t)
  BY ThreadFacts DEF TypeInv, TypeOK, ThreadsOK
<1>1. CASE RemoveNextId(t)
  <2>1. PICK x \in Local : loc' = [loc EXCEPT ![t] = x] /\ SameRefs(x, loc[t])
    BY <1>1, TakeEventIdType DEF RemoveNextId
  <2>2. SharedOK' /\ UNCHANGED <<lock, req>>
    BY <1>1, TakeEventIdType DEF RemoveNextId
  <2>3. pc[t] = "rmInc" /\ pc' = [pc EXCEPT ![t] = "rmTake"]
    BY <1>1 DEF RemoveNextId
  <2>4. ControlAt("rmTake", req[t], x, lock' = t)
    BY <1>0, <2>1, <2>2, <2>3 DEF Control, ControlAt, SameRefs, RemoveLabels
  <2>. QED
    BY <2>1, <2>2, <2>3, <2>4, ThreadStep DEF Labels
<1>2. CASE RemoveTake(t)
  <2>. DEFINE k == loc[t].cur
  <2>1. pc[t] = "rmTake" /\ pc[t] \in RemoveLabels /\ UNCHANGED req /\ k \in Keys
    BY <1>0, <1>2 DEF RemoveTake, Frame, Control, ControlAt, RemoveLabels
  <2>2. CASE AfterRemove(t, "no") /\ UNCHANGED cache
    <3>1. SharedOK'
      BY <1>0, <1>2, <2>2 DEF RemoveTake, AfterRemove, Frame, SharedOK
    <3>. QED
      BY <2>1, <2>2, <3>1, AfterRemoveType DEF Results
  <2>3. CASE ~ (AfterRemove(t, "no") /\ UNCHANGED cache)
    <3>1. /\ cache[k] # Nil
          /\ cache' = [cache EXCEPT ![k] = Nil]
          /\ loc' = [loc EXCEPT ![t].vlen = cache[k].data.len,
                                ![t].result = IF req[t].op = "Remove" THEN "ok" ELSE @]
          /\ pc' = [pc EXCEPT ![t] = "rmUsed"]
          /\ UNCHANGED lock
      BY <1>2, <2>3 DEF RemoveTake
    <3>2. SharedOK'
      BY <1>0, <1>2, <3>1 DEF RemoveTake, Frame, SharedOK, EntryOrNil
    <3>3. cache[k].data.len \in Int
      BY <1>0, <2>1, <3>1 DEF SharedOK, EntryOrNil, Entry, Data
    <3>. DEFINE y == [loc[t] EXCEPT !.vlen = cache[k].data.len]
                r == IF req[t].op = "Remove" THEN "ok" ELSE y.result
                x == [y EXCEPT !.result = r]
    <3>4. y \in Local /\ SameRefs(y, loc[t])
      BY <1>0, <3>3, LocalUpdate
    <3>5. r \in Results
      BY <3>4 DEF Local, Results
    <3>6. x \in Local /\ SameRefs(x, y)
      BY <3>4, <3>5, LocalUpdate
    <3>7. loc' = [loc EXCEPT ![t] = x]
      BY <1>0, <3>1
    <3>8. ControlAt("rmUsed", req[t], x, lock' = t)
      BY <1>0, <2>1, <3>1, <3>4, <3>6 DEF Control, ControlAt, SameRefs, RemoveLabels
    <3>. QED
      BY <2>1, <3>1, <3>2, <3>6, <3>7, <3>8, ThreadStep, ZenonT(30) DEF Labels
  <2>. QED
    BY <2>2, <2>3
<1>3. CASE RemoveUsed(t)
  <2>1. loc[t].vlen \in Int
    BY <1>0 DEF Local
  <2>2. used' \in Int
    BY <1>0, <1>3, <2>1, WrapType DEF RemoveUsed, SharedOK
  <2>3. SharedOK' /\ UNCHANGED <<lock, req, loc>>
    BY <1>0, <1>3, <2>2 DEF RemoveUsed, OnUsed, Frame, SharedOK
  <2>4. pc[t] = "rmUsed" /\ pc' = [pc EXCEPT ![t] = "rmLru"]
    BY <1>3 DEF RemoveUsed
  <2>5. ControlAt("rmLru", req[t], loc[t], lock' = t)
    BY <1>0, <2>3, <2>4 DEF Control, ControlAt, RemoveLabels
  <2>. QED
    BY <2>3, <2>4, <2>5, MoveStep DEF Labels
<1>4. CASE RemoveNotifyLru(t)
  <2>2. lruKeys' \in Seq(Keys)
    BY <1>0, <1>4, RemoveFirstType DEF RemoveNotifyLru, SharedOK
  <2>3. SharedOK' /\ UNCHANGED <<lock, req, loc>>
    BY <1>0, <1>4, <2>2 DEF RemoveNotifyLru, OnLru, Frame, SharedOK
  <2>4. pc[t] = "rmLru" /\ pc' = [pc EXCEPT ![t] = "rmQueue"]
    BY <1>4 DEF RemoveNotifyLru
  <2>5. ControlAt("rmQueue", req[t], loc[t], lock' = t)
    BY <1>0, <2>3, <2>4 DEF Control, ControlAt, RemoveLabels
  <2>. QED
    BY <2>3, <2>4, <2>5, MoveStep DEF Labels
<1>5. CASE RemoveNotifyQueue(t)
  <2>. DEFINE note == [kind |-> "remove", eid |-> loc[t].eid, key |-> loc[t].cur]
  <2>1. pc[t] = "rmQueue" /\ pc[t] \in RemoveLabels /\ UNCHANGED req /\ loc[t].cur \in Keys
    BY <1>0, <1>5 DEF RemoveNotifyQueue, Frame, Control, ControlAt, RemoveLabels
  <2>2. note \in Notification
    BY <1>0, <2>1 DEF Notification, Local
  <2>3. queue' \in Seq(Notification)
    BY <1>0, <1>5, <2>2, AppendProperties DEF RemoveNotifyQueue, SharedOK
  <2>4. SharedOK'
    BY <1>0, <1>5, <2>3 DEF RemoveNotifyQueue, AfterRemove, Frame, SharedOK
  <2>. QED
    BY <1>5, <2>1, <2>4, AfterRemoveType DEF RemoveNotifyQueue, Results
<1>. QED
  BY <1>1, <1>2, <1>3, <1>4, <1>5

(* A step on the thread's own state only. *)
LEMMA LocalStepType ==
    ASSUME TypeInv, LocalStep
    PROVE  SharedOK' /\ UNCHANGED <<lock, req>>
BY DEF TypeInv, TypeOK, SharedOK, LocalStep, Frame, shared

(* A step on the dictionary: the new contents are all there is to check.    *)
LEMMA CacheStepType ==
    ASSUME TypeInv, OnCache, cache' \in [Keys -> EntryOrNil]
    PROVE  SharedOK' /\ UNCHANGED <<lock, req>>
BY DEF TypeInv, TypeOK, SharedOK, OnCache, Frame

LEMMA SpaceSteps ==
    ASSUME NEW t \in Threads, TypeInv,
           MakeSpace(t) \/ EvictEntry(t) \/ NextEventId(t)
    PROVE  TypeInv'
<1>. USE DEF Move, Goto
<1>0. SharedOK /\ loc[t] \in Local /\ loc \in [Threads -> Local] /\ Control(t)
  BY ThreadFacts DEF TypeInv, TypeOK, ThreadsOK
<1>1. CASE MakeSpace(t)
  <2>. DEFINE l == IF HasAvailableSpace(loc[t].n) THEN "inc" ELSE "evict"
  <2>1. pc[t] = "space" /\ pc' = [pc EXCEPT ![t] = l] /\ UNCHANGED loc /\ l \in Labels
    BY <1>1 DEF MakeSpace, Labels
  <2>2. SharedOK' /\ UNCHANGED <<lock, req>>
    BY <1>1, LocalStepType DEF MakeSpace
  <2>3. ControlAt(l, req[t], loc[t], lock' = t)
    BY <1>0, <2>1, <2>2 DEF Control, ControlAt, RemoveLabels, SpaceOps
  <2>. QED
    BY <2>1, <2>2, <2>3, MoveStep
<1>2. CASE EvictEntry(t)
  <2>1. pc[t] = "evict" /\ lock = Nil /\ Nil # t /\ UNCHANGED req
    BY <1>2, NilAssumption DEF EvictEntry, Frame
  <2>2. CASE lruKeys = <<>>
    <3>1. UNCHANGED <<lock, loc>> /\ pc' = [pc EXCEPT ![t] = "space"]
      BY <1>2, <2>2 DEF EvictEntry
    <3>2. SharedOK'
      BY <1>0, <1>2, <3>1 DEF EvictEntry, Frame, SharedOK
    <3>3. ControlAt("space", req[t], loc[t], lock' = t)
      BY <1>0, <2>1, <3>1 DEF Control, ControlAt, RemoveLabels
    <3>. QED
      BY <2>1, <3>1, <3>2, <3>3, MoveStep DEF Labels
  <2>3. CASE lruKeys # <<>>
    <3>. DEFINE x == [loc[t] EXCEPT !.cur = Head(lruKeys)]
    <3>1. lock' = t /\ loc' = [loc EXCEPT ![t] = x] /\ pc' = [pc EXCEPT ![t] = "rmInc"]
      BY <1>2, <2>3 DEF EvictEntry
    <3>2. Head(lruKeys) \in Keys
      BY <1>0, <2>3, HeadTailProperties DEF SharedOK
    <3>3. x \in Local /\ x.cur = Head(lruKeys)
      BY <1>0, <3>2, LocalUpdate DEF Local
    <3>4. SharedOK'
      BY <1>0, <1>2, <3>1 DEF EvictEntry, Frame, SharedOK
    <3>5. req[t] \in Request /\ req[t].op \in SpaceOps
      BY <1>0, <2>1 DEF Control, ControlAt
    <3>6. ControlAt("rmInc", req[t], x, lock' = t)
      BY <3>2, <3>3, <3>5 DEF ControlAt, RemoveLabels
    <3>7. \A u \in Threads : u # t => lock' # u
      BY <3>1
    <3>. HIDE DEF x
    <3>. QED
      BY <2>1, <3>1, <3>3, <3>4, <3>6, <3>7, ThreadStep DEF Labels
  <2>. QED
    BY <2>2, <2>3
<1>3. CASE NextEventId(t)
  <2>. DEFINE l == CASE req[t].op = "Add" -> "tryAdd"
                     [] req[t].op \in {"Replace", "Append"} -> "loopRead"
                     [] req[t].op = "Touch" -> "tSwap"
                     [] req[t].op = "Clear" -> "clear"
                     [] req[t].op = "Cas" /\ loc[t].old # Nil -> "cSwap"
                     [] OTHER -> "contains"
  <2>1. PICK x \in Local : loc' = [loc EXCEPT ![t] = x] /\ SameRefs(x, loc[t])
    BY <1>3, TakeEventIdType DEF NextEventId
  <2>2. SharedOK' /\ UNCHANGED <<lock, req>>
    BY <1>3, TakeEventIdType DEF NextEventId
  <2>3. pc[t] = "inc" /\ pc' = [pc EXCEPT ![t] = l] /\ l \in Labels
    BY <1>3 DEF NextEventId, Labels
  <2>4. x.old \in EntryOrNil /\ x.old = loc[t].old
    BY <2>1 DEF SameRefs, Local
  <2>5. lock # t /\ req[t] \in Request /\ (req[t].op = "Touch" => x.old \in Entry)
    BY <1>0, <2>3, <2>4 DEF Control, ControlAt, RemoveLabels
  <2>6. ControlAt(l, req[t], x, lock' = t)
    <3>1. CASE req[t].op = "Cas" /\ x.old # Nil
      BY <2>2, <2>4, <2>5, <3>1 DEF ControlAt, RemoveLabels, EntryOrNil
    <3>2. CASE ~ (req[t].op = "Cas" /\ x.old # Nil)
      BY <2>2, <2>4, <2>5, <3>2 DEF ControlAt, RemoveLabels
    <3>. QED
      BY <3>1, <3>2
  <2>. HIDE DEF l
  <2>. QED
    BY <2>1, <2>2, <2>3, <2>6, ThreadStep
<1>. QED
  BY <1>1, <1>2, <1>3

(* A step of a thread that does not hold the lock and does not take it.     *)
LEMMA PlainStep ==
    ASSUME NEW t \in Threads, NEW l \in Labels, NEW x \in Local, TypeInv,
           SharedOK', UNCHANGED <<lock, req>>, pc[t] \notin RemoveLabels \cup {"idle"},
           pc' = [pc EXCEPT ![t] = l], loc' = [loc EXCEPT ![t] = x],
           req[t] \in Request => ControlAt(l, req[t], x, FALSE)
    PROVE  TypeInv'
<1>1. lock # t /\ req[t] \in Request
  BY ThreadFacts
<1>2. (lock' = t) = FALSE
  BY <1>1
<1>3. ControlAt(l, req[t], x, lock' = t)
  BY <1>1, <1>2
<1>. QED
  BY <1>3, ThreadStep

LEMMA StoreSteps ==
    ASSUME NEW t \in Threads, TypeInv,
           \/ StoreContains(t) \/ ReplaceContains(t) \/ ReadSize(t)
           \/ StoreWrite(t) \/ ReplaceSubtract(t)
    PROVE  TypeInv'
<1>. USE DEF Move, Goto
<1>0. SharedOK /\ loc[t] \in Local /\ loc \in [Threads -> Local] /\ Control(t)
  BY ThreadFacts DEF TypeInv, TypeOK, ThreadsOK
<1>00. loc[t].n \in Int /\ \A k \in Keys : cache[k] \in EntryOrNil
  BY <1>0 DEF Local, SharedOK
<1>1. CASE StoreContains(t)
  <2>. DEFINE l == IF Current(t) = Nil THEN "write" ELSE "size"
              x == [loc[t] EXCEPT !.n = 0]
  <2>1. pc[t] = "contains" /\ pc' = [pc EXCEPT ![t] = l] /\ loc' = [loc EXCEPT ![t] = x]
    BY <1>1 DEF StoreContains
  <2>2. SharedOK' /\ UNCHANGED <<lock, req>>
    BY <1>1, LocalStepType DEF StoreContains
  <2>3. x \in Local
    BY <1>0, LocalUpdate, 0 \in Int
  <2>4. l \in Labels /\ (req[t] \in Request => ControlAt(l, req[t], x, FALSE))
    BY DEF Labels, ControlAt, RemoveLabels
  <2>. HIDE DEF l, x
  <2>. QED
    BY <2>1, <2>2, <2>3, <2>4, PlainStep DEF RemoveLabels
<1>2. CASE ReplaceContains(t)
  <2>. DEFINE l == IF Current(t) = Nil THEN "space" ELSE "rSize"
  <2>1. pc[t] = "rContains" /\ pc' = [pc EXCEPT ![t] = l] /\ UNCHANGED loc
    BY <1>2 DEF ReplaceContains
  <2>2. SharedOK' /\ UNCHANGED <<lock, req>>
    BY <1>2, LocalStepType DEF ReplaceContains
  <2>3. req[t].op = "Replace" /\ lock # t
    BY <1>0, <2>1 DEF Control, ControlAt, RemoveLabels
  <2>4. l \in Labels /\ ControlAt(l, req[t], loc[t], lock' = t)
    BY <1>0, <2>1, <2>2, <2>3 DEF Labels, Control, ControlAt, RemoveLabels, SpaceOps
  <2>. HIDE DEF l
  <2>. QED
    BY <2>1, <2>2, <2>4, MoveStep
<1>3. CASE ReadSize(t)
  <2>1. pc[t] \in {"size", "rSize"} /\ Current(t) \in EntryOrNil
    BY <1>3, ThreadFacts DEF ReadSize
  <2>2. SharedOK' /\ UNCHANGED <<lock, req>>
    BY <1>3, LocalStepType DEF ReadSize
  <2>3. lock # t
    BY <1>0, <2>1 DEF Control, ControlAt, RemoveLabels
  <2>4. CASE Current(t) = Nil
    BY <1>3, <2>1, <2>2, <2>3, <2>4, FinishStep DEF ReadSize, Results
  <2>5. CASE Current(t) # Nil
    <3>. DEFINE l == IF pc[t] = "size" THEN "write" ELSE "rSubtract"
                x == [loc[t] EXCEPT !.n = Current(t).data.len]
    <3>1. pc' = [pc EXCEPT ![t] = l] /\ loc' = [loc EXCEPT ![t] = x]
      BY <1>3, <2>5 DEF ReadSize
    <3>2. Current(t).data.len \in Int
      BY <2>1, <2>5 DEF EntryOrNil, Entry, Data
    <3>3. x \in Local
      BY <1>0, <3>2, LocalUpdate
    <3>4. pc[t] = "rSize" => req[t].op = "Replace"
      BY <1>0 DEF Control, ControlAt
    <3>5. l \in Labels /\ (req[t] \in Request => ControlAt(l, req[t], x, FALSE))
      BY <2>1, <3>4 DEF Labels, ControlAt, RemoveLabels
    <3>. HIDE DEF l, x
    <3>. QED
      BY <2>1, <2>2, <3>1, <3>3, <3>5, PlainStep DEF RemoveLabels
  <2>. QED
    BY <2>4, <2>5
<1>4. CASE StoreWrite(t)
  <2>1. pc[t] = "write" /\ pc' = [pc EXCEPT ![t] = "used"]
    BY <1>4 DEF StoreWrite
  <2>2. req[t] \in Request /\ loc[t].eid \in Int
    BY <1>0, <2>1 DEF Control, ControlAt, Local
  <2>3. NewEntry(req[t], loc[t].eid) \in EntryOrNil /\ req[t].data.len \in Nat
    BY <2>2, NewEntryType DEF EntryOrNil, Request, Data
  <2>4. SharedOK' /\ UNCHANGED <<lock, req>>
    <3>1. cache' \in [Keys -> EntryOrNil]
      BY <1>0, <1>4, <2>3 DEF StoreWrite, SharedOK
    <3>. QED
      BY <1>4, <3>1, CacheStepType DEF StoreWrite
  <2>. DEFINE y == [loc[t] EXCEPT !.n = req[t].data.len - loc[t].n]
              x == [y EXCEPT !.result = "ok"]
  <2>5. loc' = [loc EXCEPT ![t] = x]
    BY <1>0, <1>4 DEF StoreWrite
  <2>6. y \in Local
    BY <1>0, <1>00, <2>3, LocalUpdate
  <2>. HIDE DEF y
  <2>7. x \in Local
    BY <2>6, LocalUpdate DEF Results
  <2>8. req[t] \in Request => ControlAt("used", req[t], x, FALSE)
    BY DEF ControlAt, RemoveLabels
  <2>. HIDE DEF x
  <2>. QED
    BY <2>1, <2>4, <2>5, <2>7, <2>8, PlainStep DEF Labels, RemoveLabels
<1>5. CASE ReplaceSubtract(t)
  <2>1. pc[t] = "rSubtract" /\ pc' = [pc EXCEPT ![t] = "space"]
    BY <1>5 DEF ReplaceSubtract
  <2>2. req[t] \in Request /\ req[t].op = "Replace"
    BY <1>0, <2>1 DEF Control, ControlAt
  <2>3. SharedOK' /\ UNCHANGED <<lock, req>>
    <3>1. used' \in Int
      BY <1>0, <1>00, <1>5, WrapType DEF ReplaceSubtract, SharedOK
    <3>. QED
      BY <1>0, <1>5, <3>1 DEF ReplaceSubtract, OnUsed, Frame, SharedOK
  <2>. DEFINE x == [loc[t] EXCEPT !.n = Abs(req[t].data.len - loc[t].n)]
  <2>4. loc' = [loc EXCEPT ![t] = x]
    BY <1>0, <1>5 DEF ReplaceSubtract
  <2>5. Abs(req[t].data.len - loc[t].n) \in Int
    BY <1>00, <2>2 DEF Request, Data, Abs
  <2>6. x \in Local
    BY <1>0, <2>5, LocalUpdate
  <2>7. ControlAt("space", req[t], x, FALSE)
    BY <2>2 DEF ControlAt, RemoveLabels, SpaceOps
  <2>. HIDE DEF x
  <2>. QED
    BY <2>1, <2>3, <2>4, <2>6, <2>7, PlainStep DEF Labels, RemoveLabels
<1>. QED
  BY <1>1, <1>2, <1>3, <1>4, <1>5

LEMMA SwapSteps ==
    ASSUME NEW t \in Threads, TypeInv,
           \/ TryAdd(t) \/ LoopRead(t) \/ LoopSwap(t)
           \/ TouchRead(t) \/ TouchSwap(t) \/ CasRead(t) \/ CasSwap(t)
    PROVE  TypeInv'
<1>. USE DEF Move, Goto
<1>0. /\ SharedOK /\ loc[t] \in Local /\ loc \in [Threads -> Local] /\ Control(t)
      /\ pc[t] # "idle"
  BY ThreadFacts DEF TypeInv, TypeOK, ThreadsOK, TryAdd, LoopRead, LoopSwap, TouchRead,
                     TouchSwap, CasRead, CasSwap
<1>00. /\ req[t] \in Request /\ req[t].key \in Keys /\ Current(t) \in EntryOrNil
       /\ cache \in [Keys -> EntryOrNil] /\ loc[t].eid \in Int /\ req[t].data.len \in Int
  BY <1>0, ThreadFacts, SMTT(20) DEF SharedOK, Local, Request, Data
(* The entry that a winning TryUpdate puts in place, and the locals after it *)
<1>u. ASSUME req[t].op \in {"Replace", "Cas", "Append", "Mutate", "Touch"},
             loc[t].old \in Entry
      PROVE  [cache EXCEPT ![req[t].key] = Updated(t)] \in [Keys -> EntryOrNil]
  <2>1. Updated(t) \in EntryOrNil
    BY <1>00, <1>u, UpdatedType DEF EntryOrNil
  <2>. QED
    BY <1>00, <2>1
<1>r. [loc[t] EXCEPT !.result = "ok"] \in Local
  BY <1>0, LocalUpdate, "ok" \in Results DEF Results
<1>f. ASSUME NEW r \in Results, LocalStep, Finish(t, r), pc[t] \notin RemoveLabels
      PROVE  TypeInv'
  BY <1>0, <1>f, LocalStepType, FinishStep, ThreadFacts
<1>1. CASE TryAdd(t)
  <2>1. pc[t] = "tryAdd" /\ lock # t
    BY <1>0, <1>1 DEF TryAdd, Control, ControlAt, RemoveLabels
  <2>2. NewEntry(req[t], loc[t].eid) \in EntryOrNil
    BY <1>00, NewEntryType DEF EntryOrNil
  <2>3. SharedOK' /\ UNCHANGED <<lock, req>>
    <3>1. cache' \in [Keys -> EntryOrNil]
      BY <1>00, <1>1, <2>2 DEF TryAdd
    <3>. QED
      BY <1>1, <3>1, CacheStepType DEF TryAdd
  <2>4. CASE Current(t) # Nil
    BY <1>1, <2>1, <2>3, <2>4, FinishStep DEF TryAdd, Results
  <2>5. CASE Current(t) = Nil
    <3>. DEFINE x == [loc[t] EXCEPT !.result = "ok"]
    <3>1. pc' = [pc EXCEPT ![t] = "used"] /\ loc' = [loc EXCEPT ![t] = x]
      BY <1>1, <2>5 DEF TryAdd
    <3>2. req[t] \in Request => ControlAt("used", req[t], x, FALSE)
      BY DEF ControlAt, RemoveLabels
    <3>3. x \in Local
      BY <1>r
    <3>. HIDE DEF x
    <3>. QED
      BY <2>1, <2>3, <3>1, <3>2, <3>3, PlainStep DEF Labels, RemoveLabels
  <2>. QED
    BY <2>4, <2>5
<1>2. CASE LoopRead(t)
  <2>1. pc[t] = "loopRead" /\ pc[t] \notin RemoveLabels /\ LocalStep
    BY <1>2 DEF LoopRead, RemoveLabels
  <2>2. CASE Finish(t, "no") \/ Finish(t, "throws")
    BY <1>f, <2>1, <2>2 DEF Results
  <2>3. CASE ~ (Finish(t, "no") \/ Finish(t, "throws"))
    <3>. DEFINE x == [loc[t] EXCEPT !.old = Current(t)]
    <3>1. /\ Current(t) # Nil
          /\ pc' = [pc EXCEPT ![t] = "loopSwap"] /\ loc' = [loc EXCEPT ![t] = x]
      BY <1>2, <2>3 DEF LoopRead
    <3>2. x \in Local /\ x.old = Current(t)
      BY <1>0, <1>00, LocalUpdate DEF Local
    <3>3. Current(t) \in Entry /\ req[t].op \in {"Replace", "Append", "Mutate"}
      BY <1>0, <1>00, <2>1, <3>1 DEF Control, ControlAt, EntryOrNil
    <3>4. ControlAt("loopSwap", req[t], x, FALSE)
      BY <1>00, <3>2, <3>3 DEF ControlAt, RemoveLabels
    <3>5. SharedOK' /\ UNCHANGED <<lock, req>>
      BY <2>1, LocalStepType
    <3>. HIDE DEF x
    <3>. QED
      BY <2>1, <3>1, <3>2, <3>4, <3>5, PlainStep DEF Labels
  <2>. QED
    BY <2>2, <2>3
<1>3. CASE LoopSwap(t)
  <2>1. pc[t] = "loopSwap" /\ pc[t] \notin RemoveLabels \cup {"idle"}
    BY <1>3 DEF LoopSwap, RemoveLabels
  <2>2. req[t].op \in {"Replace", "Append", "Mutate"} /\ loc[t].old \in Entry
    BY <1>0, <2>1 DEF Control, ControlAt
  <2>3. SharedOK' /\ UNCHANGED <<lock, req>>
    <3>1. cache' \in [Keys -> EntryOrNil]
      BY <1>00, <1>3, <1>u, <2>2 DEF LoopSwap
    <3>. QED
      BY <1>3, <3>1, CacheStepType DEF LoopSwap
  <2>4. CASE Current(t) # loc[t].old
    <3>. DEFINE x == [loc[t] EXCEPT !.old = Nil]
    <3>1. pc' = [pc EXCEPT ![t] = "loopRead"] /\ loc' = [loc EXCEPT ![t] = x]
      BY <1>3, <2>4 DEF LoopSwap
    <3>2. x \in Local
      BY <1>0, LocalUpdate, Nil \in EntryOrNil DEF EntryOrNil
    <3>3. ControlAt("loopRead", req[t], x, FALSE)
      BY <1>00, <2>2 DEF ControlAt, RemoveLabels
    <3>. HIDE DEF x
    <3>. QED
      BY <2>1, <2>3, <3>1, <3>2, <3>3, PlainStep DEF Labels
  <2>5. CASE Current(t) = loc[t].old
    <3>. DEFINE y == [loc[t] EXCEPT !.n = req[t].data.len]
                x == [y EXCEPT !.result = "ok"]
                l == IF req[t].op = "Mutate" THEN "done" ELSE "used"
    <3>1. pc' = [pc EXCEPT ![t] = l] /\ loc' = [loc EXCEPT ![t] = x] /\ l \in Labels
      BY <1>0, <1>3, <2>5 DEF LoopSwap, Labels
    <3>2. y \in Local
      BY <1>0, <1>00, LocalUpdate
    <3>. HIDE DEF y
    <3>3. x \in Local
      BY <3>2, LocalUpdate, "ok" \in Results DEF Results
    <3>4. req[t] \in Request => ControlAt(l, req[t], x, FALSE)
      BY DEF ControlAt, RemoveLabels
    <3>. HIDE DEF x, l
    <3>. QED
      BY <2>1, <2>3, <3>1, <3>3, <3>4, PlainStep
  <2>. QED
    BY <2>4, <2>5
<1>4. CASE TouchRead(t)
  <2>1. pc[t] = "tRead" /\ pc[t] \notin RemoveLabels /\ LocalStep
    BY <1>4 DEF TouchRead, RemoveLabels
  <2>2. CASE Finish(t, "no")
    BY <1>f, <2>1, <2>2 DEF Results
  <2>3. CASE ~ Finish(t, "no")
    <3>. DEFINE x == [loc[t] EXCEPT !.old = Current(t)]
    <3>1. /\ Current(t) # Nil
          /\ pc' = [pc EXCEPT ![t] = "inc"] /\ loc' = [loc EXCEPT ![t] = x]
      BY <1>4, <2>3 DEF TouchRead
    <3>2. x \in Local /\ x.old = Current(t)
      BY <1>0, <1>00, LocalUpdate DEF Local
    <3>3. Current(t) \in Entry
      BY <1>00, <3>1 DEF EntryOrNil
    <3>4. ControlAt("inc", req[t], x, FALSE)
      BY <1>00, <3>2, <3>3 DEF ControlAt, RemoveLabels
    <3>5. SharedOK' /\ UNCHANGED <<lock, req>>
      BY <2>1, LocalStepType
    <3>. HIDE DEF x
    <3>. QED
      BY <2>1, <3>1, <3>2, <3>4, <3>5, PlainStep DEF Labels
  <2>. QED
    BY <2>2, <2>3
<1>5. CASE TouchSwap(t)
  <2>. DEFINE x == [loc[t] EXCEPT !.result = "ok"]
  <2>1. /\ pc[t] = "tSwap" /\ pc[t] \notin RemoveLabels \cup {"idle"}
        /\ pc' = [pc EXCEPT ![t] = "lru"] /\ loc' = [loc EXCEPT ![t] = x]
    BY <1>5 DEF TouchSwap, RemoveLabels
  <2>2. req[t].op = "Touch" /\ loc[t].old \in Entry
    BY <1>0, <2>1 DEF Control, ControlAt
  <2>3. SharedOK' /\ UNCHANGED <<lock, req>>
    <3>1. cache' \in [Keys -> EntryOrNil]
      BY <1>00, <1>5, <1>u, <2>2 DEF TouchSwap
    <3>. QED
      BY <1>5, <3>1, CacheStepType DEF TouchSwap
  <2>4. x \in Local
    BY <1>r
  <2>5. req[t] \in Request => ControlAt("lru", req[t], x, FALSE)
    BY DEF ControlAt, RemoveLabels
  <2>. HIDE DEF x
  <2>. QED
    BY <2>1, <2>3, <2>4, <2>5, PlainStep DEF Labels
<1>6. CASE CasRead(t)
  <2>1. /\ pc[t] = "cRead" /\ pc[t] \notin RemoveLabels \cup {"idle"} /\ LocalStep
        /\ req[t].op = "Cas"
    BY <1>0, <1>6 DEF CasRead, RemoveLabels, Control, ControlAt
  <2>2. SharedOK' /\ UNCHANGED <<lock, req>>
    BY <2>1, LocalStepType
  <2>3. CASE Current(t) = Nil
    <3>1. pc' = [pc EXCEPT ![t] = "space"] /\ UNCHANGED loc
      BY <1>6, <2>3 DEF CasRead
    <3>2. lock # t
      BY <2>1, ThreadFacts
    <3>3. ControlAt("space", req[t], loc[t], lock' = t)
      BY <1>00, <2>1, <2>2, <3>2 DEF ControlAt, RemoveLabels, SpaceOps
    <3>. QED
      BY <2>2, <3>1, <3>3, MoveStep DEF Labels
  <2>4. CASE Finish(t, "no")
    BY <1>f, <2>1, <2>4 DEF Results
  <2>5. CASE Current(t) # Nil /\ ~ Finish(t, "no")
    <3>. DEFINE length == Abs(req[t].data.len - Current(t).data.len)
                l == IF length > 0 THEN "space" ELSE "inc"
                y == [loc[t] EXCEPT !.old = Current(t)]
                x == [y EXCEPT !.n = length]
    <3>1. pc' = [pc EXCEPT ![t] = l] /\ l \in Labels
      BY <1>6, <2>5 DEF CasRead, Labels
    <3>2. loc' = [loc EXCEPT ![t] = x]
      BY <1>0, <1>6, <2>5 DEF CasRead
    <3>3. length \in Int
      BY <1>00, <2>5 DEF EntryOrNil, Entry, Data, Abs
    <3>. HIDE DEF length
    <3>4. y \in Local
      BY <1>0, <1>00, LocalUpdate
    <3>. HIDE DEF y
    <3>5. x \in Local
      BY <3>3, <3>4, LocalUpdate
    <3>6. req[t] \in Request => ControlAt(l, req[t], x, FALSE)
      BY <2>1 DEF ControlAt, RemoveLabels, SpaceOps
    <3>. HIDE DEF x, l
    <3>. QED
      BY <2>1, <2>2, <3>1, <3>2, <3>5, <3>6, PlainStep
  <2>. QED
    BY <2>3, <2>4, <2>5
<1>7. CASE CasSwap(t)
  <2>1. pc[t] = "cSwap" /\ pc[t] \notin RemoveLabels
    BY <1>7 DEF CasSwap, RemoveLabels
  <2>2. req[t].op = "Cas" /\ loc[t].old \in Entry /\ lock # t
    BY <1>0, <2>1, ThreadFacts DEF Control, ControlAt
  <2>3. SharedOK' /\ UNCHANGED <<lock, req>>
    <3>1. cache' \in [Keys -> EntryOrNil]
      BY <1>00, <1>7, <1>u, <2>2 DEF CasSwap
    <3>. QED
      BY <1>7, <3>1, CacheStepType DEF CasSwap
  <2>4. Finish(t, "ok") \/ Finish(t, "no")
    BY <1>7 DEF CasSwap
  <2>. QED
    BY <1>0, <2>2, <2>3, <2>4, FinishStep DEF Results
<1>. QED
  BY <1>1, <1>2, <1>3, <1>4, <1>5, <1>6, <1>7

(* Use of the LRU strategy leaves a list of keys. *)
LEMMA MoveToBackType ==
    ASSUME NEW k \in Keys, SharedOK
    PROVE  MoveToBack(k) \in Seq(Keys)
BY RemoveFirstType, AppendProperties DEF MoveToBack, SharedOK

LEMMA LruStepType ==
    ASSUME TypeInv, OnLru, lruKeys' \in Seq(Keys)
    PROVE  SharedOK' /\ UNCHANGED <<lock, req>>
BY DEF TypeInv, TypeOK, SharedOK, OnLru, Frame

LEMMA NotifySteps ==
    ASSUME NEW t \in Threads, TypeInv,
           \/ ClearCache(t) \/ AddUsed(t) \/ NotifyLru(t) \/ NotifyQueue(t) \/ GetUse(t)
    PROVE  TypeInv'
<1>. USE DEF Move, Goto
<1>0. SharedOK /\ loc[t] \in Local /\ pc[t] # "idle"
  BY ThreadFacts DEF TypeInv, TypeOK, ClearCache, AddUsed, NotifyLru, NotifyQueue, GetUse
<1>00. /\ req[t] \in Request /\ req[t].key \in Keys /\ loc[t].n \in Int /\ loc[t].eid \in Int
       /\ loc[t].cur \in Keys \cup {Nil}
  BY <1>0, ThreadFacts DEF Local
(* None of the labels these steps lead to says anything of the locals.      *)
<1>c. ASSUME NEW l \in {"lru", "queue", "done", "getIndex"}
      PROVE  l \in Labels /\ ControlAt(l, req[t], loc[t], FALSE)
  BY <1>00 DEF Labels, ControlAt, RemoveLabels
<1>1. CASE ClearCache(t)
  <2>. DEFINE x == [loc[t] EXCEPT !.result = "ok"]
  <2>1. /\ pc[t] = "clear" /\ pc' = [pc EXCEPT ![t] = "queue"]
        /\ loc' = [loc EXCEPT ![t] = x]
    BY <1>1 DEF ClearCache
  <2>2. SharedOK' /\ UNCHANGED <<lock, req>>
    BY <1>1, CacheStepType DEF ClearCache, NoKeys, EntryOrNil
  <2>3. x \in Local
    BY <1>0, LocalUpdate, "ok" \in Results DEF Results
  <2>4. req[t] \in Request => ControlAt("queue", req[t], x, FALSE)
    BY DEF ControlAt, RemoveLabels
  <2>. HIDE DEF x
  <2>. QED
    BY <2>1, <2>2, <2>3, <2>4, PlainStep DEF Labels, RemoveLabels
<1>2. CASE AddUsed(t)
  <2>1. pc[t] = "used" /\ pc' = [pc EXCEPT ![t] = "lru"] /\ UNCHANGED loc
    BY <1>2 DEF AddUsed
  <2>2. SharedOK' /\ UNCHANGED <<lock, req>>
    <3>1. used + loc[t].n \in Int
      BY <1>0, <1>00 DEF SharedOK
    <3>2. used' = Wrap(used + loc[t].n)
      BY <1>2 DEF AddUsed
    <3>. QED
      BY <1>0, <1>2, <3>1, <3>2, WrapType DEF AddUsed, OnUsed, Frame, SharedOK
  <2>3. (lock' = t) = FALSE
    BY <2>1, <2>2, ThreadFacts DEF RemoveLabels
  <2>. QED
    BY <1>c, <2>1, <2>2, <2>3, MoveStep
<1>3. CASE NotifyLru(t)
  <2>1. /\ pc[t] = "lru" /\ pc' = [pc EXCEPT ![t] = "queue"] /\ UNCHANGED loc
        /\ lruKeys' = MoveToBack(req[t].key) /\ OnLru
    BY <1>3 DEF NotifyLru
  <2>2. SharedOK' /\ UNCHANGED <<lock, req>>
    BY <1>0, <1>00, <2>1, MoveToBackType, LruStepType
  <2>3. (lock' = t) = FALSE
    BY <2>1, <2>2, ThreadFacts DEF RemoveLabels
  <2>. QED
    BY <1>c, <2>1, <2>2, <2>3, MoveStep
<1>4. CASE NotifyQueue(t)
  <2>1. pc[t] = "queue" /\ pc' = [pc EXCEPT ![t] = "done"] /\ UNCHANGED loc
    BY <1>4 DEF NotifyQueue
  <2>2. SharedOK' /\ UNCHANGED <<lock, req>>
    <3>1. queue' \in Seq(Notification)
      BY <1>0, <1>00, <1>4, NotificationType, AppendProperties DEF NotifyQueue, SharedOK
    <3>. QED
      BY <1>0, <1>4, <3>1 DEF NotifyQueue, Frame, SharedOK
  <2>3. (lock' = t) = FALSE
    BY <2>1, <2>2, ThreadFacts DEF RemoveLabels
  <2>. QED
    BY <1>c, <2>1, <2>2, <2>3, MoveStep
<1>5. CASE GetUse(t)
  <2>1. /\ pc[t] = "getUse" /\ pc' = [pc EXCEPT ![t] = "getIndex"] /\ UNCHANGED loc
        /\ lruKeys' = MoveToBack(req[t].key) /\ OnLru
    BY <1>5 DEF GetUse
  <2>2. SharedOK' /\ UNCHANGED <<lock, req>>
    BY <1>0, <1>00, <2>1, MoveToBackType, LruStepType
  <2>3. (lock' = t) = FALSE
    BY <2>1, <2>2, ThreadFacts DEF RemoveLabels
  <2>. QED
    BY <1>c, <2>1, <2>2, <2>3, MoveStep
<1>. QED
  BY <1>1, <1>2, <1>3, <1>4, <1>5

LEMMA ReadSteps ==
    ASSUME NEW t \in Threads, TypeInv,
           \/ RetrieveContains(t) \/ RetrieveIndex(t) \/ RetrieveUse(t) \/ GetIndex(t)
           \/ ScanExpired(t) \/ SweepNext(t) \/ SnapshotContents(t) \/ SnapshotSequence(t)
    PROVE  TypeInv'
<1>. USE DEF Move, Goto
<1>0. SharedOK /\ loc[t] \in Local /\ loc \in [Threads -> Local] /\ pc[t] # "idle"
  BY ThreadFacts DEF TypeInv, TypeOK, ThreadsOK, RetrieveContains, RetrieveIndex,
                     RetrieveUse, GetIndex, ScanExpired, SweepNext, SnapshotContents,
                     SnapshotSequence
<1>00. /\ req[t] \in Request /\ req[t].keys \subseteq Keys /\ req[t].key \in Keys
       /\ cache \in [Keys -> EntryOrNil] /\ loc[t].todo \subseteq Keys
       /\ loc[t].snap \in [Keys -> EntryOrNil] /\ seqId \in Int /\ Control(t)
  BY <1>0, ThreadFacts DEF SharedOK, Local, Request
(* These labels say nothing of the locals. *)
<1>c. ASSUME NEW l \in {"gContains", "gUse", "done", "sweep", "sequence"}, NEW x
      PROVE  l \in Labels /\ ControlAt(l, req[t], x, FALSE)
  BY <1>00 DEF Labels, ControlAt, RemoveLabels
<1>n. \A k \in Keys : Visited(t, k) \subseteq Keys /\ AfterVisit(t, k) \in {"gContains", "gUse"}
  BY <1>00 DEF Visited, AfterVisit
<1>f. ASSUME NEW r \in Results, SharedOK', UNCHANGED <<lock, req>>, Finish(t, r),
             pc[t] \notin RemoveLabels
      PROVE  TypeInv'
  BY <1>0, <1>f, FinishStep, ThreadFacts
<1>1. CASE RetrieveContains(t)
  <2>1. pc[t] = "gContains" /\ LocalStep
    BY <1>1 DEF RetrieveContains
  <2>2. SharedOK' /\ UNCHANGED <<lock, req>>
    BY <2>1, LocalStepType
  <2>3. PICK k \in Keys :
           \/ loc' = [loc EXCEPT ![t].cur = k] /\ pc' = [pc EXCEPT ![t] = "gIndex"]
           \/ /\ loc' = [loc EXCEPT ![t].todo = Visited(t, k)]
              /\ pc' = [pc EXCEPT ![t] = AfterVisit(t, k)]
    BY <1>00, <1>1 DEF RetrieveContains
  <2>4. CASE loc' = [loc EXCEPT ![t].cur = k] /\ pc' = [pc EXCEPT ![t] = "gIndex"]
    <3>. DEFINE x == [loc[t] EXCEPT !.cur = k]
    <3>1. x \in Local /\ x.cur = k
      BY <1>0, LocalUpdate DEF Local
    <3>2. ControlAt("gIndex", req[t], x, FALSE)
      BY <1>00, <3>1 DEF ControlAt, RemoveLabels
    <3>3. loc' = [loc EXCEPT ![t] = x]
      BY <2>4
    <3>. HIDE DEF x
    <3>. QED
      BY <2>1, <2>2, <2>4, <3>1, <3>2, <3>3, PlainStep DEF Labels, RemoveLabels
  <2>5. CASE /\ loc' = [loc EXCEPT ![t].todo = Visited(t, k)]
             /\ pc' = [pc EXCEPT ![t] = AfterVisit(t, k)]
    <3>. DEFINE x == [loc[t] EXCEPT !.todo = Visited(t, k)]
    <3>1. x \in Local
      BY <1>0, <1>n, LocalUpdate
    <3>2. loc' = [loc EXCEPT ![t] = x]
      BY <2>5
    <3>. HIDE DEF x
    <3>. QED
      BY <1>c, <1>n, <2>1, <2>2, <2>5, <3>1, <3>2, PlainStep DEF RemoveLabels
  <2>. QED
    BY <2>3, <2>4, <2>5
<1>2. CASE RetrieveIndex(t)
  <2>. DEFINE k == loc[t].cur
  <2>1. pc[t] = "gIndex" /\ pc[t] \notin RemoveLabels /\ LocalStep
    BY <1>2 DEF RetrieveIndex, RemoveLabels
  <2>2. SharedOK' /\ UNCHANGED <<lock, req>>
    BY <2>1, LocalStepType
  <2>3. CASE Finish(t, "throws")
    BY <1>f, <2>1, <2>2, <2>3 DEF Results
  <2>4. CASE ~ Finish(t, "throws")
    <3>. DEFINE y == [loc[t] EXCEPT !.snap = [loc[t].snap EXCEPT ![k] = cache[k]]]
                x == [y EXCEPT !.todo = Visited(t, k)]
    <3>1. k \in Keys
      BY <1>00, <2>1 DEF Control, ControlAt
    <3>2. [loc[t].snap EXCEPT ![k] = cache[k]] \in [Keys -> EntryOrNil]
      BY <1>00, <3>1
    <3>3. y \in Local
      BY <1>0, <3>2, LocalUpdate
    <3>4. loc' = [loc EXCEPT ![t] = x] /\ pc' = [pc EXCEPT ![t] = AfterVisit(t, k)]
      BY <1>0, <1>2, <2>4 DEF RetrieveIndex
    <3>. HIDE DEF y
    <3>5. x \in Local
      BY <1>n, <3>1, <3>3, LocalUpdate
    <3>. HIDE DEF x, k
    <3>. QED
      BY <1>c, <1>n, <2>1, <2>2, <3>1, <3>4, <3>5, PlainStep DEF RemoveLabels
  <2>. QED
    BY <2>3, <2>4
<1>3. CASE RetrieveUse(t)
  <2>1. pc[t] = "gUse" /\ pc[t] \notin RemoveLabels /\ OnLru
    BY <1>3 DEF RetrieveUse, RemoveLabels
  <2>2. PICK k \in loc[t].todo :
          /\ lruKeys' = MoveToBack(k)
          /\ IF loc[t].todo = {k}
             THEN Finish(t, "ok")
             ELSE loc' = [loc EXCEPT ![t].todo = @ \ {k}] /\ UNCHANGED pc
    BY <1>3 DEF RetrieveUse
  <2>3. SharedOK' /\ UNCHANGED <<lock, req>>
    BY <1>0, <1>00, <2>1, <2>2, MoveToBackType, LruStepType
  <2>4. CASE Finish(t, "ok")
    BY <1>f, <2>1, <2>3, <2>4 DEF Results
  <2>5. CASE loc' = [loc EXCEPT ![t].todo = @ \ {k}] /\ UNCHANGED pc
    <3>. DEFINE x == [loc[t] EXCEPT !.todo = loc[t].todo \ {k}]
    <3>1. x \in Local
      BY <1>0, <1>00, LocalUpdate
    <3>2. loc' = [loc EXCEPT ![t] = x]
      BY <1>0, <2>5
    <3>3. pc' = [pc EXCEPT ![t] = "gUse"]
      BY <2>1, <2>5 DEF TypeInv, TypeOK, ThreadsOK
    <3>. HIDE DEF x
    <3>. QED
      BY <1>c, <2>1, <2>3, <3>1, <3>2, <3>3, PlainStep DEF RemoveLabels
  <2>. QED
    BY <2>2, <2>4, <2>5
<1>4. CASE GetIndex(t)
  <2>1. /\ pc[t] = "getIndex" /\ pc[t] \notin RemoveLabels /\ LocalStep
        /\ pc' = [pc EXCEPT ![t] = "done"]
    BY <1>4 DEF GetIndex, RemoveLabels
  <2>2. SharedOK' /\ UNCHANGED <<lock, req>>
    BY <2>1, LocalStepType
  <2>3. CASE Current(t) = Nil
    <3>1. Finish(t, "throws")
      BY <1>4, <2>3 DEF GetIndex, Finish
    <3>. QED
      BY <1>f, <2>1, <2>2, <3>1 DEF Results
  <2>4. CASE Current(t) # Nil
    <3>. DEFINE k == req[t].key
                y == [loc[t] EXCEPT !.result = "ok"]
                x == [y EXCEPT !.snap = [loc[t].snap EXCEPT ![k] = Current(t)]]
    <3>1. [loc[t].snap EXCEPT ![k] = Current(t)] \in [Keys -> EntryOrNil]
      BY <1>00 DEF Current
    <3>2. y \in Local
      BY <1>0, LocalUpdate, "ok" \in Results DEF Results
    <3>3. loc' = [loc EXCEPT ![t] = x]
      BY <1>0, <1>4, <2>4 DEF GetIndex
    <3>. HIDE DEF y
    <3>4. x \in Local
      BY <3>1, <3>2, LocalUpdate
    <3>. HIDE DEF x
    <3>. QED
      BY <1>c, <2>1, <2>2, <3>3, <3>4, PlainStep DEF RemoveLabels
  <2>. QED
    BY <2>3, <2>4
<1>5. CASE ScanExpired(t)
  <2>. DEFINE S == {k \in Keys : cache[k] # Nil /\ IsExpired(cache[k])}
              y == [loc[t] EXCEPT !.todo = S]
              x == [y EXCEPT !.snap = cache]
  <2>1. pc[t] = "scan" /\ LocalStep /\ pc' = [pc EXCEPT ![t] = "sweep"]
    BY <1>5 DEF ScanExpired
  <2>2. loc' = [loc EXCEPT ![t] = x]
    BY <1>0, <1>5 DEF ScanExpired
  <2>3. S \in SUBSET Keys
    OBVIOUS
  <2>. HIDE DEF S
  <2>4. y \in Local
    BY <1>0, <2>3, LocalUpdate
  <2>. HIDE DEF y
  <2>5. x \in Local
    BY <1>00, <2>4, LocalUpdate
  <2>. HIDE DEF x
  <2>. QED
    BY <1>c, <2>1, <2>2, <2>5, LocalStepType, PlainStep DEF RemoveLabels
<1>6. CASE SweepNext(t)
  <2>1. pc[t] = "sweep" /\ pc[t] \notin RemoveLabels /\ LocalStep
    BY <1>6 DEF SweepNext, RemoveLabels
  <2>2. SharedOK' /\ UNCHANGED <<lock, req>>
    BY <2>1, LocalStepType
  <2>3. CASE Finish(t, "ok")
    BY <1>f, <2>1, <2>2, <2>3 DEF Results
  <2>4. CASE ~ Finish(t, "ok")
    <3>1. PICK k \in loc[t].todo :
            /\ loc' = [loc EXCEPT ![t].cur = k, ![t].todo = @ \ {k}]
            /\ pc' = [pc EXCEPT ![t] = "rmInc"]
      BY <1>6, <2>4 DEF SweepNext
    <3>. DEFINE y == [loc[t] EXCEPT !.cur = k]
                x == [y EXCEPT !.todo = loc[t].todo \ {k}]
    <3>2. loc' = [loc EXCEPT ![t] = x]
      BY <1>0, <3>1
    <3>3. y \in Local /\ y.cur = k /\ k \in Keys
      BY <1>0, <1>00, LocalUpdate DEF Local
    <3>. HIDE DEF y
    <3>4. x \in Local /\ x.cur = k
      BY <1>00, <3>3, LocalUpdate DEF SameRefs
    <3>5. ControlAt("rmInc", req[t], x, FALSE)
      BY <1>00, <3>3, <3>4 DEF ControlAt, RemoveLabels
    <3>. HIDE DEF x
    <3>. QED
      BY <2>1, <2>2, <3>1, <3>2, <3>4, <3>5, PlainStep DEF Labels
  <2>. QED
    BY <2>3, <2>4
<1>7. CASE SnapshotContents(t)
  <2>. DEFINE x == [loc[t] EXCEPT !.snap = cache]
  <2>1. /\ pc[t] = "snapshot" /\ LocalStep /\ pc' = [pc EXCEPT ![t] = "sequence"]
        /\ loc' = [loc EXCEPT ![t] = x]
    BY <1>7 DEF SnapshotContents
  <2>2. x \in Local
    BY <1>0, <1>00, LocalUpdate
  <2>. HIDE DEF x
  <2>. QED
    BY <1>c, <2>1, <2>2, LocalStepType, PlainStep DEF RemoveLabels
<1>8. CASE SnapshotSequence(t)
  <2>. DEFINE y == [loc[t] EXCEPT !.seq = seqId]
              x == [y EXCEPT !.result = "ok"]
  <2>1. pc[t] = "sequence" /\ LocalStep /\ pc' = [pc EXCEPT ![t] = "done"]
    BY <1>8 DEF SnapshotSequence
  <2>2. loc' = [loc EXCEPT ![t] = x]
    BY <1>0, <1>8 DEF SnapshotSequence
  <2>3. y \in Local
    BY <1>0, <1>00, LocalUpdate
  <2>. HIDE DEF y
  <2>4. x \in Local
    BY <2>3, LocalUpdate, "ok" \in Results DEF Results
  <2>. HIDE DEF x
  <2>. QED
    BY <1>c, <2>1, <2>2, <2>4, LocalStepType, PlainStep DEF RemoveLabels
<1>. QED
  BY <1>1, <1>2, <1>3, <1>4, <1>5, <1>6, <1>7, <1>8

LEMMA FreshLocalType == FreshLocal \in Local
BY DEF FreshLocal, NoKeys, Local, EntryOrNil, Results

LEMMA TypeInvStep ==
    ASSUME NEW t \in Threads, TypeInv, Step(t)
    PROVE  TypeInv'
<1>1. CASE Return(t)
  <2>1. /\ pc' = [pc EXCEPT ![t] = "idle"] /\ req' = [req EXCEPT ![t] = Nil]
        /\ loc' = [loc EXCEPT ![t] = FreshLocal] /\ UNCHANGED <<shared, now, issued>>
        /\ pc[t] = "done"
    BY <1>1 DEF Return, Move, Goto
  <2>2. SharedOK' /\ UNCHANGED lock
    BY <2>1 DEF TypeInv, TypeOK, SharedOK, shared
  <2>3. FreshLocal \in Local
    BY FreshLocalType
  <2>4. ThreadsOK'
    BY <2>1, <2>3 DEF TypeInv, TypeOK, ThreadsOK, Labels
  <2>5. lock # t
    BY <2>1, ThreadFacts DEF RemoveLabels
  <2>6. Control(t)'
    BY <2>1, <2>2, <2>5 DEF TypeInv, TypeOK, ThreadsOK, Control, ControlAt, RemoveLabels
  <2>7. ASSUME NEW u \in Threads, u # t PROVE Control(u)'
    <3>1. Control(u) /\ pc'[u] = pc[u] /\ loc'[u] = loc[u] /\ req'[u] = req[u]
      BY <2>1, <2>7 DEF TypeInv, TypeOK, ThreadsOK, ControlOK
    <3>. QED
      BY <2>2, <3>1 DEF Control
  <2>. QED
    BY <2>2, <2>4, <2>6, <2>7 DEF TypeInv, TypeOK, ControlOK
<1>2. CASE ~ Return(t)
  BY <1>2, RemoveSteps, SpaceSteps, StoreSteps, SwapSteps, NotifySteps, ReadSteps DEF Step
<1>. QED
  BY <1>1, <1>2

LEMMA TypeInvCall ==
    ASSUME NEW t \in Threads, NEW r \in Requests[t], TypeInv, Call(t, r)
    PROVE  TypeInv'
<1>. DEFINE l == FirstLabel(r.op)
            x == [FreshLocal EXCEPT !.cur = r.key, !.todo = r.keys, !.n = r.data.len]
<1>1. /\ pc' = [pc EXCEPT ![t] = l] /\ req' = [req EXCEPT ![t] = r] /\ issued' = issued + 1
      /\ loc' = [loc EXCEPT ![t] = x] /\ UNCHANGED <<shared, now>> /\ pc[t] = "idle"
  BY DEF Call, Move, Goto
<1>2. SharedOK' /\ UNCHANGED lock
  BY <1>1 DEF TypeInv, TypeOK, SharedOK, shared
<1>3. r \in Request /\ r.key \in Keys /\ r.keys \subseteq Keys /\ r.data.len \in Int
  BY RequestsAssumption DEF Request, Data
<1>4. x \in Local /\ x.cur = r.key
  <2>. DEFINE a == [FreshLocal EXCEPT !.cur = r.key]
              b == [a EXCEPT !.todo = r.keys]
  <2>1. FreshLocal \in Local
    BY FreshLocalType
  <2>2. a \in Local /\ a.cur = r.key
    BY <1>3, <2>1, LocalUpdate DEF Local
  <2>3. x = [b EXCEPT !.n = r.data.len]
    BY <2>1 DEF Local
  <2>. HIDE DEF a, x
  <2>4. b \in Local /\ b.cur = a.cur
    BY <1>3, <2>2, LocalUpdate DEF SameRefs
  <2>. HIDE DEF b
  <2>. QED
    BY <1>3, <2>2, <2>3, <2>4, LocalUpdate DEF SameRefs
<1>5. r.op \in Ops
  BY <1>3 DEF Request
<1>6. l \in Labels
  BY <1>5 DEF FirstLabel, Ops, Labels
<1>. HIDE DEF x
<1>7. ThreadsOK'
  BY <1>1, <1>3, <1>4, <1>6 DEF TypeInv, TypeOK, ThreadsOK
<1>8. lock # t
  BY <1>1, ThreadFacts DEF RemoveLabels
<1>9. ControlAt(l, r, x, FALSE)
  BY <1>3, <1>4, <1>5 DEF FirstLabel, Ops, ControlAt, SpaceOps, RemoveLabels
<1>10. Control(t)'
  <2>1. pc'[t] = l /\ req'[t] = r /\ loc'[t] = x /\ (lock' = t) = FALSE
    BY <1>1, <1>2, <1>8 DEF TypeInv, TypeOK, ThreadsOK
  <2>. QED
    BY <1>9, <2>1 DEF Control
<1>11. ASSUME NEW u \in Threads, u # t PROVE Control(u)'
  <2>1. Control(u) /\ pc'[u] = pc[u] /\ loc'[u] = loc[u] /\ req'[u] = req[u]
    BY <1>1, <1>11 DEF TypeInv, TypeOK, ThreadsOK, ControlOK
  <2>. QED
    BY <1>2, <2>1 DEF Control
<1>. QED
  BY <1>2, <1>7, <1>10, <1>11 DEF TypeInv, TypeOK, ControlOK

LEMMA TypeInvNext == TypeInv /\ [Next]_vars => TypeInv'
<1>. SUFFICES ASSUME TypeInv, [Next]_vars PROVE TypeInv'
  OBVIOUS
<1>1. ASSUME NEW t \in Threads, Step(t) PROVE TypeInv'
  BY <1>1, TypeInvStep
<1>2. ASSUME NEW t \in Threads, NEW r \in Requests[t], Call(t, r) PROVE TypeInv'
  BY <1>2, TypeInvCall
<1>3. CASE Tick
  BY <1>3 DEF Tick, shared, TypeInv, TypeOK, SharedOK, ThreadsOK, ControlOK, Control
<1>4. CASE Stopped \/ UNCHANGED vars
  BY <1>4 DEF Stopped, vars, shared, TypeInv, TypeOK, SharedOK, ThreadsOK, ControlOK, Control
<1>. QED
  BY <1>1, <1>2, <1>3, <1>4 DEF Next

LEMMA TypeInvInit == Init => TypeInv
<1>. SUFFICES ASSUME Init PROVE TypeInv
  OBVIOUS
<1>1. FreshLocal \in Local
  BY FreshLocalType
<1>2. TypeOK
  BY <1>1 DEF Init, TypeOK, SharedOK, ThreadsOK, NoKeys, EntryOrNil, Labels
<1>3. ControlOK
  BY NilAssumption DEF Init, ControlOK, Control, ControlAt, RemoveLabels
<1>. QED
  BY <1>2, <1>3 DEF TypeInv

(* In every reachable state the variables have their types, and each thread *)
(* has at its label what the rest of its method relies on: the entry a      *)
(* TryUpdate compares with, the key a removal is about.                     *)
THEOREM TypeCorrect == Spec => []TypeOK
<1>1. Spec => []TypeInv
  BY TypeInvInit, TypeInvNext, PTL DEF Spec
<1>2. TypeInv => TypeOK
  BY DEF TypeInv
<1>. QED
  BY <1>1, <1>2, PTL

-----------------------------------------------------------------------------
(* Event ids: the id that goes with a snapshot covers it, and no id is used *)
(* twice.                                                                  *)
(*                                                                         *)
(* The inductive invariant.  SnapshotCovered and EventIdsUnique speak of    *)
(* entries and notifications; what makes them true is what holds of the ids *)
(* that threads have taken and not used yet.                                *)

(* Every id about is one that has been taken. *)
Covered(e) == e # Nil => e.eid <= seqId

IdsTaken ==
    /\ seqId >= 0
    /\ \A k \in Keys : Covered(cache[k])
    /\ \A i \in 1..Len(queue) : queue[i].eid <= seqId
    /\ \A t \in Threads : /\ loc[t].eid <= seqId
                          /\ Covered(loc[t].old)
                          /\ \A k \in Keys : Covered(loc[t].snap[k])

(* At these labels a method has taken the id it is going to use. *)
IdLabels == {"rmTake", "rmUsed", "rmLru", "rmQueue", "contains", "size", "write",
             "tryAdd", "tSwap", "cSwap", "clear", "used", "lru", "queue"}

HasId(t) ==
    (pc[t] \in IdLabels \/ (pc[t] \in {"loopRead", "loopSwap"} /\ req[t].op # "Mutate"))
        => loc[t].eid # 0

(* The id a thread has taken is in nobody else's hands, in no notification  *)
(* before its own, and in no entry but that of its key.                     *)
IdOwned(t) ==
    loc[t].eid # 0 =>
        /\ \A u \in Threads : u # t => loc[u].eid # loc[t].eid
        /\ pc[t] # "done" => \A i \in 1..Len(queue) : queue[i].eid # loc[t].eid
        /\ \A k \in Keys : (k # req[t].key /\ cache[k] # Nil)
                              => cache[k].eid # loc[t].eid

SnapshotControl(t) ==
    (pc[t] # "idle" /\ req[t].op = "CurrentState")
        => pc[t] \in {"snapshot", "sequence", "done"}

IdInv ==
    /\ TypeInv
    /\ IdsTaken
    /\ \A t \in Threads : HasId(t) /\ IdOwned(t) /\ SnapshotControl(t)
    /\ SnapshotCovered
    /\ EventIdsUnique

-----------------------------------------------------------------------------
(* What a step of a thread does with ids, whatever the method it is in.     *)

OnlyThread(t) ==
    /\ req' = req /\ pc[t] # "idle" /\ pc'[t] # "idle" /\ pc[t] # "done"
    /\ \A u \in Threads : u # t => loc'[u] = loc[u] /\ pc'[u] = pc[u]

TakesId(t) == seqId' = seqId + 1 /\ loc'[t].eid = seqId' /\ UNCHANGED <<cache, queue>>

KeepsId(t) == seqId' = seqId /\ loc'[t].eid \in {loc[t].eid, 0}

WritesId(t) ==
    \A k \in Keys : cache'[k] # Nil =>
        \/ cache'[k] = cache[k]
        \/ k = req[t].key /\ loc[t].eid # 0 /\ cache'[k].eid = loc[t].eid
        \/ cache[k] # Nil /\ cache'[k].eid = cache[k].eid

AnnouncesId(t) ==
    \/ UNCHANGED queue
    \/ /\ loc[t].eid # 0 /\ (pc'[t] = "done" \/ loc'[t].eid = 0)
       /\ \E n \in Notification : n.eid = loc[t].eid /\ queue' = Append(queue, n)

ReadsIds(t) ==
    /\ loc'[t].old \in {Nil, loc[t].old, Current(t)}
    /\ \A k \in Keys : loc'[t].snap[k] \in {loc[t].snap[k], cache[k]}

Snapshots(t) ==
    req[t].op = "CurrentState" =>
        \/ pc[t] = "snapshot" /\ pc'[t] = "sequence"
        \/ /\ pc[t] = "sequence" /\ pc'[t] = "done"
           /\ loc'[t].seq = seqId /\ loc'[t].snap = loc[t].snap

IdEffect(t) ==
    /\ OnlyThread(t)
    /\ TakesId(t) \/ KeepsId(t)
    /\ WritesId(t) /\ AnnouncesId(t) /\ ReadsIds(t) /\ Snapshots(t) /\ HasId(t)'

(* The facts every action's effect needs. *)
LEMMA IdFacts ==
    ASSUME NEW t \in Threads, IdInv
    PROVE  /\ loc \in [Threads -> Local] /\ pc \in [Threads -> Labels]
           /\ cache \in [Keys -> EntryOrNil] /\ seqId \in Int
           /\ loc[t] \in Local /\ HasId(t) /\ SnapshotControl(t)
           /\ pc[t] # "idle" => req[t] \in Request /\ req[t].key \in Keys
BY ThreadFacts DEF IdInv, TypeInv, TypeOK, SharedOK, ThreadsOK

LEMMA RemoveEffect ==
    ASSUME NEW t \in Threads, IdInv,
           RemoveTake(t) \/ RemoveUsed(t) \/ RemoveNotifyLru(t) \/ RemoveNotifyQueue(t)
    PROVE  IdEffect(t)
<1>. USE DEF Move, Goto, Frame
<1>0. /\ loc \in [Threads -> Local] /\ pc \in [Threads -> Labels]
      /\ cache \in [Keys -> EntryOrNil] /\ loc[t] \in Local
      /\ HasId(t) /\ SnapshotControl(t)
  BY IdFacts
<1>1. /\ pc[t] \in {"rmTake", "rmUsed", "rmLru", "rmQueue"} /\ loc[t].eid # 0
      /\ req[t].op # "CurrentState"
  BY <1>0 DEF RemoveTake, RemoveUsed, RemoveNotifyLru, RemoveNotifyQueue, HasId, IdLabels,
              SnapshotControl
<1>a. ASSUME NEW result, AfterRemove(t, result), UNCHANGED req
      PROVE  /\ OnlyThread(t) /\ ReadsIds(t) /\ HasId(t)'
             /\ (loc'[t].eid = loc[t].eid /\ pc'[t] = "done") \/ loc'[t].eid = 0
             /\ loc'[t].eid \in {loc[t].eid, 0}
  <2>1. /\ pc'[t] \in {"done", "space", "sweep"}
        /\ \A u \in Threads : u # t => loc'[u] = loc[u] /\ pc'[u] = pc[u]
    BY <1>0, <1>a DEF AfterRemove, Finish
  <2>2. /\ loc'[t].old = loc[t].old /\ loc'[t].snap = loc[t].snap
        /\ (loc'[t].eid = loc[t].eid /\ pc'[t] = "done") \/ loc'[t].eid = 0
    BY <1>0, <1>a DEF AfterRemove, Finish, Local
  <2>. QED
    BY <1>1, <1>a, <2>1, <2>2 DEF OnlyThread, ReadsIds, HasId, IdLabels
<1>2. CASE RemoveTake(t)
  <2>. DEFINE k == loc[t].cur
  <2>1. UNCHANGED <<seqId, queue, req>>
    BY <1>2 DEF RemoveTake
  <2>2. CASE AfterRemove(t, "no") /\ UNCHANGED cache
    BY <1>1, <1>a, <2>1, <2>2 DEF IdEffect, KeepsId, WritesId, AnnouncesId, Snapshots
  <2>3. CASE ~ (AfterRemove(t, "no") /\ UNCHANGED cache)
    <3>1. /\ cache' = [cache EXCEPT ![k] = Nil] /\ pc' = [pc EXCEPT ![t] = "rmUsed"]
          /\ loc' = [loc EXCEPT ![t].vlen = cache[k].data.len,
                                ![t].result = IF req[t].op = "Remove" THEN "ok" ELSE @]
      BY <1>2, <2>3 DEF RemoveTake
    <3>2. /\ loc'[t].old = loc[t].old /\ loc'[t].snap = loc[t].snap
          /\ loc'[t].eid = loc[t].eid
      BY <1>0, <3>1 DEF Local
    <3>3. OnlyThread(t) /\ ReadsIds(t) /\ HasId(t)'
      BY <1>0, <1>1, <2>1, <3>1, <3>2 DEF OnlyThread, ReadsIds, HasId, IdLabels
    <3>4. WritesId(t)
      BY <1>0, <3>1 DEF WritesId
    <3>. QED
      BY <1>1, <2>1, <3>2, <3>3, <3>4 DEF IdEffect, KeepsId, AnnouncesId, Snapshots
  <2>. QED
    BY <2>2, <2>3
<1>3. CASE RemoveUsed(t) \/ RemoveNotifyLru(t)
  <2>1. /\ UNCHANGED <<seqId, queue, cache, req, loc>>
        /\ \E l \in {"rmLru", "rmQueue"} : pc' = [pc EXCEPT ![t] = l]
    BY <1>3 DEF RemoveUsed, RemoveNotifyLru, OnUsed, OnLru
  <2>2. OnlyThread(t) /\ ReadsIds(t) /\ HasId(t)'
    BY <1>0, <1>1, <2>1 DEF OnlyThread, ReadsIds, HasId, IdLabels
  <2>. QED
    BY <1>1, <2>1, <2>2 DEF IdEffect, KeepsId, WritesId, AnnouncesId, Snapshots
<1>4. CASE RemoveNotifyQueue(t)
  <2>. DEFINE n == [kind |-> "remove", eid |-> loc[t].eid, key |-> loc[t].cur]
  <2>1. /\ UNCHANGED <<seqId, cache, req>> /\ AfterRemove(t, "ok") /\ queue' = Append(queue, n)
        /\ pc[t] = "rmQueue"
    BY <1>4 DEF RemoveNotifyQueue
  <2>2. loc[t].cur \in Keys
    BY <2>1, ThreadFacts DEF IdInv, Control, ControlAt, RemoveLabels
  <2>3. n \in Notification /\ n.eid = loc[t].eid
    BY <1>0, <2>2 DEF Notification, Local
  <2>4. AnnouncesId(t)
    BY <1>1, <1>a, <2>1, <2>3 DEF AnnouncesId
  <2>. QED
    BY <1>1, <1>a, <2>1, <2>4 DEF IdEffect, KeepsId, WritesId, Snapshots
<1>. QED
  BY <1>2, <1>3, <1>4

(* With fewer than 2^31 ids, Interlocked.Increment does not wrap around.    *)
LEMMA TakeEffect ==
    ASSUME NEW t \in Threads, IdInv, MaxEventId < IntHalf,
           RemoveNextId(t) \/ NextEventId(t)
    PROVE  IdEffect(t)
<1>0. /\ loc \in [Threads -> Local] /\ pc \in [Threads -> Labels] /\ seqId \in Int
      /\ loc[t] \in Local /\ SnapshotControl(t)
  BY IdFacts
<1>1. pc[t] \in {"inc", "rmInc"} /\ req[t].op # "CurrentState" /\ TakeEventId(t)
  BY <1>0 DEF RemoveNextId, NextEventId, Move, SnapshotControl
<1>2. \E l \in Labels : l # "idle" /\ pc' = [pc EXCEPT ![t] = l]
  BY DEF RemoveNextId, NextEventId, Move, Goto, Labels
<1>3. seqId >= 0 /\ seqId < MaxEventId /\ MaxEventId \in Nat /\ IntHalf \in Nat
  BY <1>1, SizesAssumption DEF IdInv, IdsTaken, TakeEventId
<1>4. Wrap(seqId + 1) = seqId + 1
  BY <1>0, <1>3 DEF Wrap
<1>5. /\ seqId' = seqId + 1 /\ UNCHANGED <<cache, queue, req>>
      /\ loc' = [loc EXCEPT ![t].eid = seqId + 1]
  BY <1>1, <1>4 DEF TakeEventId, Frame
<1>6. /\ loc'[t].eid = seqId + 1 /\ loc'[t].old = loc[t].old /\ loc'[t].snap = loc[t].snap
      /\ seqId + 1 # 0
  BY <1>0, <1>3, <1>5 DEF Local
<1>7. OnlyThread(t) /\ ReadsIds(t) /\ HasId(t)'
  BY <1>0, <1>1, <1>2, <1>5, <1>6 DEF OnlyThread, ReadsIds, HasId
<1>. QED
  BY <1>1, <1>5, <1>6, <1>7 DEF IdEffect, TakesId, WritesId, AnnouncesId, Snapshots

(* Steps that write no entry and no notification and take no id.            *)
Quiet(t) ==
    /\ UNCHANGED <<seqId, cache, queue, req>>
    /\ loc'[t].eid = loc[t].eid
    /\ ReadsIds(t)
    /\ \A u \in Threads : u # t => loc'[u] = loc[u] /\ pc'[u] = pc[u]

LEMMA QuietEffect ==
    ASSUME NEW t \in Threads, IdInv, Quiet(t), pc[t] \notin {"idle", "done"},
           pc'[t] # "idle", Snapshots(t), HasId(t)'
    PROVE  IdEffect(t)
BY DEF IdEffect, Quiet, OnlyThread, KeepsId, WritesId, AnnouncesId

LEMMA QuietSteps ==
    ASSUME NEW t \in Threads, IdInv,
           \/ MakeSpace(t) \/ EvictEntry(t) \/ StoreContains(t) \/ ReplaceContains(t)
           \/ ReadSize(t) \/ ReplaceSubtract(t) \/ LoopRead(t) \/ TouchRead(t)
           \/ CasRead(t) \/ AddUsed(t) \/ NotifyLru(t)
    PROVE  IdEffect(t)
<1>. USE DEF Move, Goto, Frame
<1>0. /\ loc \in [Threads -> Local] /\ pc \in [Threads -> Labels] /\ loc[t] \in Local
      /\ HasId(t) /\ SnapshotControl(t)
  BY IdFacts
<1>e. ASSUME Quiet(t), pc[t] \notin {"idle", "done", "snapshot", "sequence"},
             pc'[t] # "idle", HasId(t)'
      PROVE  IdEffect(t)
  BY <1>0, <1>e, QuietEffect DEF Snapshots, SnapshotControl
<1>1. CASE MakeSpace(t)
  <2>1. pc[t] \in {"space"} /\ Quiet(t)
    BY <1>0, <1>1 DEF MakeSpace, LocalStep, shared, Local, Quiet, ReadsIds
  <2>2. pc'[t] # "idle" /\ HasId(t)'
    BY <1>0, <1>1, <2>1 DEF MakeSpace, Quiet, HasId, IdLabels
  <2>. QED
    BY <1>e, <2>1, <2>2
<1>2. CASE EvictEntry(t)
  <2>0. /\ pc[t] = "evict" /\ UNCHANGED <<seqId, cache, queue, req>>
        /\ \E l \in Labels : pc' = [pc EXCEPT ![t] = l]
        /\ UNCHANGED loc \/ loc' = [loc EXCEPT ![t].cur = Head(lruKeys)]
    BY <1>2 DEF EvictEntry, Labels
  <2>1. pc[t] \in {"evict"} /\ Quiet(t)
    BY <1>0, <2>0 DEF Local, Quiet, ReadsIds
  <2>2. pc'[t] # "idle" /\ HasId(t)'
    BY <1>0, <1>2, <2>1 DEF EvictEntry, Quiet, HasId, IdLabels
  <2>. QED
    BY <1>e, <2>1, <2>2
<1>3. CASE StoreContains(t)
  <2>1. pc[t] \in {"contains"} /\ Quiet(t)
    BY <1>0, <1>3 DEF StoreContains, LocalStep, shared, Local, Quiet, ReadsIds
  <2>2. pc'[t] # "idle" /\ HasId(t)'
    BY <1>0, <1>3, <2>1 DEF StoreContains, Quiet, HasId, IdLabels
  <2>. QED
    BY <1>e, <2>1, <2>2
<1>4. CASE ReplaceContains(t)
  <2>1. pc[t] \in {"rContains"} /\ Quiet(t)
    BY <1>0, <1>4 DEF ReplaceContains, LocalStep, shared, Local, Quiet, ReadsIds
  <2>2. pc'[t] # "idle" /\ HasId(t)'
    BY <1>0, <1>4, <2>1 DEF ReplaceContains, Quiet, HasId, IdLabels
  <2>. QED
    BY <1>e, <2>1, <2>2
<1>5. CASE ReadSize(t)
  <2>1. pc[t] \in {"size", "rSize"} /\ Quiet(t)
    BY <1>0, <1>5 DEF ReadSize, LocalStep, shared, Finish, Local, Quiet, ReadsIds
  <2>2. pc'[t] # "idle" /\ HasId(t)'
    BY <1>0, <1>5, <2>1 DEF ReadSize, Finish, Quiet, HasId, IdLabels
  <2>. QED
    BY <1>e, <2>1, <2>2
<1>6. CASE ReplaceSubtract(t)
  <2>1. pc[t] \in {"rSubtract"} /\ Quiet(t)
    BY <1>0, <1>6 DEF ReplaceSubtract, OnUsed, Local, Quiet, ReadsIds
  <2>2. pc'[t] # "idle" /\ HasId(t)'
    BY <1>0, <1>6, <2>1 DEF ReplaceSubtract, Quiet, HasId, IdLabels
  <2>. QED
    BY <1>e, <2>1, <2>2
<1>7. CASE LoopRead(t)
  <2>0. /\ pc[t] = "loopRead" /\ UNCHANGED <<seqId, cache, queue, req>>
        /\ \E l \in Labels : pc' = [pc EXCEPT ![t] = l]
        /\ \/ loc' = [loc EXCEPT ![t].result = "no"]
           \/ loc' = [loc EXCEPT ![t].result = "throws"]
           \/ loc' = [loc EXCEPT ![t].old = Current(t)]
    BY <1>7, SMTT(30) DEF LoopRead, LocalStep, shared, Finish, Labels
  <2>1. pc[t] \in {"loopRead"} /\ Quiet(t)
    <3>1. \A u \in Threads : u # t => loc'[u] = loc[u] /\ pc'[u] = pc[u]
      BY <1>0, <2>0
    <3>2. /\ loc'[t].eid = loc[t].eid /\ loc'[t].snap = loc[t].snap
          /\ loc'[t].old \in {loc[t].old, Current(t)}
      BY <1>0, <2>0 DEF Local
    <3>. QED
      BY <2>0, <3>1, <3>2 DEF Quiet, ReadsIds
  <2>2. pc'[t] # "idle" /\ HasId(t)'
    BY <1>0, <1>7, <2>1 DEF LoopRead, Finish, Quiet, HasId, IdLabels
  <2>. QED
    BY <1>e, <2>1, <2>2
<1>8. CASE TouchRead(t)
  <2>1. pc[t] \in {"tRead"} /\ Quiet(t)
    BY <1>0, <1>8 DEF TouchRead, LocalStep, shared, Finish, Local, Quiet, ReadsIds
  <2>2. pc'[t] # "idle" /\ HasId(t)'
    BY <1>0, <1>8, <2>1 DEF TouchRead, Finish, Quiet, HasId, IdLabels
  <2>. QED
    BY <1>e, <2>1, <2>2
<1>9. CASE CasRead(t)
  <2>. DEFINE length == Abs(req[t].data.len - Current(t).data.len)
  <2>0. /\ pc[t] = "cRead" /\ UNCHANGED <<seqId, cache, queue, req>>
        /\ \E l \in Labels : pc' = [pc EXCEPT ![t] = l]
        /\ \/ UNCHANGED loc
           \/ loc' = [loc EXCEPT ![t].result = "no"]
           \/ loc' = [loc EXCEPT ![t].old = Current(t), ![t].n = length]
    BY <1>9 DEF CasRead, LocalStep, shared, Finish, Labels
  <2>. HIDE DEF length
  <2>1. pc[t] \in {"cRead"} /\ Quiet(t)
    BY <1>0, <2>0, SMTT(20) DEF Local, Quiet, ReadsIds
  <2>2. pc'[t] # "idle" /\ HasId(t)'
    BY <1>0, <1>9, <2>1 DEF CasRead, Finish, Quiet, HasId, IdLabels
  <2>. QED
    BY <1>e, <2>1, <2>2
<1>10. CASE AddUsed(t)
  <2>1. pc[t] \in {"used"} /\ Quiet(t)
    BY <1>0, <1>10 DEF AddUsed, OnUsed, Local, Quiet, ReadsIds
  <2>2. pc'[t] # "idle" /\ HasId(t)'
    BY <1>0, <1>10, <2>1 DEF AddUsed, Quiet, HasId, IdLabels
  <2>. QED
    BY <1>e, <2>1, <2>2
<1>11. CASE NotifyLru(t)
  <2>1. pc[t] \in {"lru"} /\ Quiet(t)
    BY <1>0, <1>11 DEF NotifyLru, OnLru, Local, Quiet, ReadsIds
  <2>2. pc'[t] # "idle" /\ HasId(t)'
    BY <1>0, <1>11, <2>1 DEF NotifyLru, Quiet, HasId, IdLabels
  <2>. QED
    BY <1>e, <2>1, <2>2
<1>. QED
  BY <1>1, <1>2, <1>3, <1>4, <1>5, <1>6, <1>7, <1>8, <1>9, <1>10, <1>11

LEMMA ReadEffect ==
    ASSUME NEW t \in Threads, IdInv,
           \/ RetrieveContains(t) \/ RetrieveIndex(t) \/ RetrieveUse(t) \/ GetUse(t)
           \/ GetIndex(t) \/ ScanExpired(t) \/ SweepNext(t)
           \/ SnapshotContents(t) \/ SnapshotSequence(t)
    PROVE  IdEffect(t)
<1>. USE DEF Move, Goto, Frame
<1>0. /\ loc \in [Threads -> Local] /\ pc \in [Threads -> Labels] /\ loc[t] \in Local
      /\ SnapshotControl(t) /\ cache \in [Keys -> EntryOrNil]
      /\ loc[t].snap \in [Keys -> EntryOrNil]
  BY IdFacts DEF Local
<1>e. ASSUME Quiet(t), pc[t] \notin {"idle", "done", "snapshot", "sequence"},
             pc'[t] \notin IdLabels \cup {"idle", "loopRead", "loopSwap"}
      PROVE  IdEffect(t)
  BY <1>0, <1>e, QuietEffect DEF Snapshots, SnapshotControl, HasId
<1>1. CASE RetrieveContains(t)
  <2>1. PICK k \in loc[t].todo, l \in {"gIndex", "gUse", "gContains"} :
          /\ pc[t] = "gContains" /\ pc' = [pc EXCEPT ![t] = l]
          /\ \/ loc' = [loc EXCEPT ![t].cur = k]
             \/ loc' = [loc EXCEPT ![t].todo = Visited(t, k)]
          /\ UNCHANGED <<seqId, cache, queue, req>>
    BY <1>1 DEF RetrieveContains, AfterVisit, LocalStep, shared
  <2>2. Quiet(t)
    <3>1. CASE loc' = [loc EXCEPT ![t].cur = k]
      BY <1>0, <2>1, <3>1 DEF Local, Quiet, ReadsIds
    <3>2. CASE loc' = [loc EXCEPT ![t].todo = Visited(t, k)]
      <4>. DEFINE S == Visited(t, k)
      <4>1. loc' = [loc EXCEPT ![t].todo = S]
        BY <3>2
      <4>. HIDE DEF S
      <4>. QED
        BY <1>0, <2>1, <4>1 DEF Local, Quiet, ReadsIds
    <3>. QED
      BY <2>1, <3>1, <3>2
  <2>. QED
    BY <1>0, <1>e, <2>1, <2>2 DEF IdLabels
<1>2. CASE RetrieveIndex(t)
  <2>. DEFINE k == loc[t].cur
  <2>1. PICK l \in {"done", "gUse", "gContains"} :
          /\ pc[t] = "gIndex" /\ pc' = [pc EXCEPT ![t] = l]
          /\ \/ loc' = [loc EXCEPT ![t].result = "throws"]
             \/ loc' = [loc EXCEPT ![t].snap[k] = cache[k], ![t].todo = Visited(t, k)]
          /\ UNCHANGED <<seqId, cache, queue, req>>
    BY <1>2 DEF RetrieveIndex, AfterVisit, LocalStep, shared, Finish
  <2>2. CASE loc' = [loc EXCEPT ![t].result = "throws"]
    <3>1. Quiet(t)
      BY <1>0, <2>1, <2>2 DEF Local, Quiet, ReadsIds
    <3>. QED
      BY <1>0, <1>e, <2>1, <3>1 DEF IdLabels
  <2>3. CASE loc' = [loc EXCEPT ![t].snap[k] = cache[k], ![t].todo = Visited(t, k)]
    <3>1. /\ loc'[t].snap = [loc[t].snap EXCEPT ![k] = cache[k]]
          /\ loc'[t].eid = loc[t].eid /\ loc'[t].old = loc[t].old
      BY <1>0, <2>3 DEF Local
    <3>2. \A j \in Keys : loc'[t].snap[j] \in {loc[t].snap[j], cache[j]}
      BY <1>0, <3>1
    <3>3. \A u \in Threads : u # t => loc'[u] = loc[u] /\ pc'[u] = pc[u]
      BY <1>0, <2>1, <2>3
    <3>4. Quiet(t)
      BY <2>1, <3>1, <3>2, <3>3 DEF Quiet, ReadsIds
    <3>. QED
      BY <1>0, <1>e, <2>1, <3>4 DEF IdLabels
  <2>. QED
    BY <2>1, <2>2, <2>3
<1>3. CASE RetrieveUse(t)
  <2>1. pc[t] = "gUse" /\ UNCHANGED <<seqId, cache, queue, req>>
    BY <1>3 DEF RetrieveUse, OnLru
  <2>2. CASE Finish(t, "ok")
    <3>1. Quiet(t) /\ pc'[t] = "done"
      BY <1>0, <2>1, <2>2 DEF Finish, Local, Quiet, ReadsIds
    <3>. QED
      BY <1>e, <2>1, <3>1 DEF IdLabels
  <2>3. CASE ~ Finish(t, "ok")
    <3>1. PICK k : loc' = [loc EXCEPT ![t].todo = loc[t].todo \ {k}] /\ UNCHANGED pc
      BY <1>3, <2>3 DEF RetrieveUse
    <3>2. Quiet(t)
      BY <1>0, <2>1, <3>1 DEF Local, Quiet, ReadsIds
    <3>. QED
      BY <1>e, <2>1, <3>1, <3>2 DEF IdLabels
  <2>. QED
    BY <2>2, <2>3
<1>7. CASE GetUse(t)
  <2>1. /\ pc[t] = "getUse" /\ pc' = [pc EXCEPT ![t] = "getIndex"]
        /\ UNCHANGED <<seqId, cache, queue, req, loc>>
    BY <1>7 DEF GetUse, OnLru
  <2>2. Quiet(t)
    BY <1>0, <2>1 DEF Quiet, ReadsIds
  <2>. QED
    BY <1>0, <1>e, <2>1, <2>2 DEF IdLabels
<1>4. CASE GetIndex(t)
  <2>1. /\ pc[t] = "getIndex" /\ pc' = [pc EXCEPT ![t] = "done"]
        /\ \/ loc' = [loc EXCEPT ![t].result = "throws"]
           \/ loc' = [loc EXCEPT ![t].result = "ok", ![t].snap[req[t].key] = Current(t)]
        /\ UNCHANGED <<seqId, cache, queue, req>>
    BY <1>4 DEF GetIndex, LocalStep, shared
  <2>2. /\ loc'[t].eid = loc[t].eid /\ loc'[t].old = loc[t].old
        /\ \/ loc'[t].snap = loc[t].snap
           \/ loc'[t].snap = [loc[t].snap EXCEPT ![req[t].key] = Current(t)]
    BY <1>0, <2>1 DEF Local
  <2>3. \A j \in Keys : loc'[t].snap[j] \in {loc[t].snap[j], cache[j]}
    BY <1>0, <2>2 DEF Current
  <2>4. \A u \in Threads : u # t => loc'[u] = loc[u] /\ pc'[u] = pc[u]
    BY <1>0, <2>1
  <2>5. Quiet(t)
    BY <2>1, <2>2, <2>3, <2>4 DEF Quiet, ReadsIds
  <2>. QED
    BY <1>0, <1>e, <2>1, <2>5 DEF IdLabels
<1>5. CASE ScanExpired(t)
  <2>1. PICK S \in SUBSET Keys :
          /\ pc[t] = "scan" /\ pc' = [pc EXCEPT ![t] = "sweep"]
          /\ loc' = [loc EXCEPT ![t].todo = S, ![t].snap = cache]
          /\ UNCHANGED <<seqId, cache, queue, req>>
    BY <1>5 DEF ScanExpired, LocalStep, shared
  <2>2. Quiet(t)
    BY <1>0, <2>1 DEF Local, Quiet, ReadsIds
  <2>. QED
    BY <1>0, <1>e, <2>1, <2>2 DEF IdLabels
<1>8. CASE SweepNext(t)
  <2>1. pc[t] = "sweep" /\ UNCHANGED <<seqId, cache, queue, req>>
    BY <1>8 DEF SweepNext, LocalStep, shared
  <2>2. CASE Finish(t, "ok")
    <3>1. Quiet(t) /\ pc'[t] = "done"
      BY <1>0, <2>1, <2>2 DEF Finish, Local, Quiet, ReadsIds
    <3>. QED
      BY <1>e, <2>1, <3>1 DEF IdLabels
  <2>3. CASE ~ Finish(t, "ok")
    <3>1. PICK k : /\ loc' = [loc EXCEPT ![t].cur = k, ![t].todo = loc[t].todo \ {k}]
                   /\ pc' = [pc EXCEPT ![t] = "rmInc"]
      BY <1>8, <2>3 DEF SweepNext
    <3>2. Quiet(t)
      BY <1>0, <2>1, <3>1 DEF Local, Quiet, ReadsIds
    <3>. QED
      BY <1>0, <1>e, <2>1, <3>1, <3>2 DEF IdLabels
  <2>. QED
    BY <2>2, <2>3
<1>6. CASE SnapshotContents(t) \/ SnapshotSequence(t)
  <2>1. /\ UNCHANGED <<seqId, cache, queue, req>>
        /\ \/ /\ pc[t] = "snapshot" /\ pc' = [pc EXCEPT ![t] = "sequence"]
              /\ loc' = [loc EXCEPT ![t].snap = cache]
           \/ /\ pc[t] = "sequence" /\ pc' = [pc EXCEPT ![t] = "done"]
              /\ loc' = [loc EXCEPT ![t].seq = seqId, ![t].result = "ok"]
    BY <1>6 DEF SnapshotContents, SnapshotSequence, LocalStep, shared
  <2>2. Quiet(t) /\ Snapshots(t)
    BY <1>0, <2>1 DEF Local, Quiet, ReadsIds, Snapshots
  <2>3. pc[t] \notin {"idle", "done"} /\ pc'[t] # "idle" /\ HasId(t)'
    BY <1>0, <2>1 DEF HasId, IdLabels
  <2>. QED
    BY <2>2, <2>3, QuietEffect
<1>. QED
  BY <1>1, <1>2, <1>3, <1>4, <1>5, <1>6, <1>7, <1>8

(* The steps that write an entry or announce one. *)
LEMMA WriteEffect ==
    ASSUME NEW t \in Threads, IdInv,
           \/ StoreWrite(t) \/ TryAdd(t) \/ LoopSwap(t) \/ TouchSwap(t) \/ CasSwap(t)
           \/ ClearCache(t) \/ NotifyQueue(t)
    PROVE  IdEffect(t)
<1>. USE DEF Move, Goto, Frame
<1>0. /\ loc \in [Threads -> Local] /\ pc \in [Threads -> Labels] /\ loc[t] \in Local
      /\ HasId(t) /\ SnapshotControl(t) /\ cache \in [Keys -> EntryOrNil]
  BY IdFacts
<1>1. /\ pc[t] \in {"write", "tryAdd", "loopSwap", "tSwap", "cSwap", "clear", "queue"}
      /\ req[t].op # "CurrentState" /\ req[t] \in Request /\ req[t].key \in Keys
      /\ UNCHANGED <<seqId, req>>
  BY <1>0, IdFacts DEF StoreWrite, TryAdd, LoopSwap, TouchSwap, CasSwap, ClearCache,
                       NotifyQueue, SnapshotControl, OnCache
(* An entry made from the arguments of the call carries the thread's id.    *)
<1>2. /\ NewEntry(req[t], loc[t].eid).eid = loc[t].eid
      /\ loc[t].old \in Entry /\ req[t].op \in {"Replace", "Append", "Touch", "Cas"}
            => Updated(t).eid = loc[t].eid
      /\ loc[t].old \in Entry /\ req[t].op = "Mutate" => Updated(t).eid = loc[t].old.eid
  BY DEF NewEntry, Updated, Entry
<1>3. Control(t)
  BY ThreadFacts DEF IdInv
<1>e. ASSUME OnlyThread(t), WritesId(t), UNCHANGED queue, HasId(t)', loc'[t].eid = loc[t].eid,
             loc'[t].old \in {Nil, loc[t].old}, loc'[t].snap = loc[t].snap
      PROVE  IdEffect(t)
  BY <1>1, <1>e DEF IdEffect, KeepsId, AnnouncesId, ReadsIds, Snapshots
(* All of them leave eid and snap alone and go on without another id. *)
<1>4. CASE ~ NotifyQueue(t)
  <2>1. PICK l \in {"used", "done", "loopRead", "lru", "queue"} :
          /\ UNCHANGED queue /\ pc' = [pc EXCEPT ![t] = l]
          /\ l = "loopRead" => pc[t] = "loopSwap"
          /\ pc[t] = "loopSwap" /\ req[t].op = "Mutate" => l \in {"loopRead", "done"}
    BY <1>4 DEF StoreWrite, TryAdd, LoopSwap, TouchSwap, CasSwap, ClearCache, OnCache, Finish
  <2>2. /\ loc'[t].eid = loc[t].eid /\ loc'[t].old \in {Nil, loc[t].old}
        /\ loc'[t].snap = loc[t].snap
        /\ \A u \in Threads : u # t => loc'[u] = loc[u] /\ pc'[u] = pc[u]
    <3>1. CASE StoreWrite(t)
      BY <1>0, <3>1 DEF StoreWrite, Local
    <3>2. CASE TryAdd(t)
      BY <1>0, <3>2 DEF TryAdd, Finish, Local
    <3>3. CASE LoopSwap(t)
      BY <1>0, <3>3 DEF LoopSwap, Local
    <3>4. CASE TouchSwap(t)
      BY <1>0, <3>4 DEF TouchSwap, Local
    <3>5. CASE CasSwap(t)
      BY <1>0, <3>5 DEF CasSwap, Finish, Local
    <3>6. CASE ClearCache(t)
      BY <1>0, <3>6 DEF ClearCache, Local
    <3>. QED
      BY <1>4, <3>1, <3>2, <3>3, <3>4, <3>5, <3>6
  <2>3. OnlyThread(t)
    BY <1>0, <1>1, <2>1, <2>2 DEF OnlyThread
  <2>4. WritesId(t)
    <3>1. CASE StoreWrite(t) \/ TryAdd(t)
      BY <1>0, <1>1, <1>2, <3>1 DEF StoreWrite, TryAdd, WritesId, HasId, IdLabels
    <3>2. CASE LoopSwap(t)
      <4>1. /\ pc[t] = "loopSwap" /\ loc[t].old \in Entry
            /\ req[t].op \in {"Replace", "Append", "Mutate"}
        BY <1>3, <3>2 DEF LoopSwap, Control, ControlAt
      <4>2. req[t].op # "Mutate" => loc[t].eid # 0
        BY <1>0, <4>1 DEF HasId
      <4>3. \/ UNCHANGED cache
            \/ /\ Current(t) = loc[t].old
               /\ cache' = [cache EXCEPT ![req[t].key] = Updated(t)]
        BY <3>2 DEF LoopSwap
      <4>. QED
        BY <1>0, <1>1, <1>2, <4>1, <4>2, <4>3, NilAssumption DEF WritesId, Current
    <3>3. CASE TouchSwap(t) \/ CasSwap(t)
      <4>1. /\ pc[t] \in {"tSwap", "cSwap"} /\ loc[t].old \in Entry
            /\ req[t].op \in {"Touch", "Cas"}
        BY <1>3, <3>3 DEF TouchSwap, CasSwap, Control, ControlAt
      <4>2. loc[t].eid # 0
        BY <1>0, <4>1 DEF HasId, IdLabels
      <4>3. UNCHANGED cache \/ cache' = [cache EXCEPT ![req[t].key] = Updated(t)]
        BY <3>3 DEF TouchSwap, CasSwap
      <4>. QED
        BY <1>0, <1>1, <1>2, <4>1, <4>2, <4>3 DEF WritesId
    <3>4. CASE ClearCache(t)
      BY <3>4 DEF ClearCache, NoKeys, WritesId
    <3>. QED
      BY <1>4, <3>1, <3>2, <3>3, <3>4
  <2>5. HasId(t)'
    BY <1>0, <1>1, <2>1, <2>2 DEF HasId, IdLabels
  <2>. QED
    BY <1>e, <2>1, <2>2, <2>3, <2>4, <2>5
<1>5. CASE NotifyQueue(t)
  <2>. DEFINE n == NotificationOf(req[t], loc[t].eid)
  <2>1. /\ pc[t] = "queue" /\ pc' = [pc EXCEPT ![t] = "done"] /\ queue' = Append(queue, n)
        /\ UNCHANGED <<cache, loc>>
    BY <1>5 DEF NotifyQueue
  <2>2. loc[t].eid # 0 /\ loc[t].eid \in Int
    BY <1>0, <2>1 DEF HasId, IdLabels, Local
  <2>3. n \in Notification /\ n.eid = loc[t].eid
    BY <1>1, <2>2, NotificationType DEF NotificationOf
  <2>. HIDE DEF n
  <2>4. OnlyThread(t) /\ pc'[t] = "done" /\ HasId(t)'
    BY <1>0, <1>1, <2>1 DEF OnlyThread, HasId, IdLabels
  <2>5. AnnouncesId(t)
    BY <2>1, <2>2, <2>3, <2>4 DEF AnnouncesId
  <2>. QED
    BY <1>1, <2>1, <2>4, <2>5 DEF IdEffect, KeepsId, WritesId, ReadsIds, Snapshots
<1>. QED
  BY <1>4, <1>5

-----------------------------------------------------------------------------
(* Such an effect preserves each part of the invariant.                     *)

LEMMA TakenStep ==
    ASSUME NEW t \in Threads, IdInv, TypeInv', IdEffect(t)
    PROVE  IdsTaken' /\ seqId' >= seqId
<1>0. /\ seqId \in Int /\ queue \in Seq(Notification) /\ IdsTaken /\ loc[t] \in Local
      /\ \A u \in Threads : loc[u].eid \in Int
      /\ \A i \in 1..Len(queue) : queue[i].eid \in Int
      /\ \A k \in Keys : cache[k] # Nil => cache[k].eid \in Int
      /\ \A u \in Threads : /\ loc[u].old # Nil => loc[u].old.eid \in Int
                            /\ \A k \in Keys : loc[u].snap[k] # Nil => loc[u].snap[k].eid \in Int
  <2>1. /\ seqId \in Int /\ queue \in Seq(Notification) /\ IdsTaken
        /\ loc \in [Threads -> Local] /\ cache \in [Keys -> EntryOrNil]
    BY DEF IdInv, TypeInv, TypeOK, SharedOK, ThreadsOK
  <2>2. \A e \in EntryOrNil : e # Nil => e.eid \in Int
    BY DEF EntryOrNil, Entry
  <2>3. \A n \in Notification : n.eid \in Int
    BY DEF Notification
  <2>4. \A i \in 1..Len(queue) : queue[i].eid \in Int
    BY <2>1, <2>3, ElementOfSeq
  <2>5. \A l \in Local : /\ l.eid \in Int /\ l.old \in EntryOrNil
                         /\ l.snap \in [Keys -> EntryOrNil]
    BY DEF Local
  <2>. QED
    BY <2>1, <2>2, <2>4, <2>5
<1>1. seqId' \in Int /\ seqId' >= seqId /\ seqId >= 0
  BY <1>0 DEF IdEffect, TakesId, KeepsId, IdsTaken
<1>2. \A k \in Keys : Covered(cache[k])'
  BY <1>0, <1>1 DEF IdEffect, TakesId, KeepsId, WritesId, IdsTaken, Covered
<1>3. \A i \in 1..Len(queue') : queue'[i].eid <= seqId'
  <2>1. CASE UNCHANGED queue
    BY <1>0, <1>1, <2>1 DEF IdsTaken
  <2>2. CASE ~ UNCHANGED queue
    <3>1. PICK n \in Notification : n.eid = loc[t].eid /\ queue' = Append(queue, n)
      BY <2>2 DEF IdEffect, AnnouncesId
    <3>2. /\ Len(queue') = Len(queue) + 1 /\ queue'[Len(queue) + 1] = n
          /\ \A i \in 1..Len(queue) : queue'[i] = queue[i]
      BY <1>0, <3>1, AppendProperties
    <3>3. Len(queue) \in Nat /\ loc[t].eid <= seqId /\ loc[t].eid \in Int
      BY <1>0, LenProperties DEF IdsTaken
    <3>4. ASSUME NEW i \in 1..Len(queue') PROVE queue'[i].eid <= seqId'
      <4>1. CASE i \in 1..Len(queue)
        BY <1>0, <1>1, <3>2, <4>1 DEF IdsTaken
      <4>2. CASE i = Len(queue) + 1
        BY <1>0, <1>1, <3>1, <3>2, <3>3, <4>2
      <4>. QED
        BY <3>2, <3>3, <4>1, <4>2
    <3>. QED
      BY <3>4
  <2>. QED
    BY <2>1, <2>2
<1>4. ASSUME NEW u \in Threads
      PROVE  /\ loc'[u].eid <= seqId' /\ Covered(loc[u].old)'
             /\ \A k \in Keys : Covered(loc[u].snap[k])'
  <2>1. CASE u # t
    <3>1. loc'[u] = loc[u]
      BY <2>1 DEF IdEffect, OnlyThread
    <3>. QED
      BY <1>0, <1>1, <3>1 DEF IdsTaken, Covered
  <2>2. CASE u = t
    <3>1. loc'[t].eid <= seqId'
      BY <1>0, <1>1 DEF IdEffect, TakesId, KeepsId, IdsTaken
    <3>2. req[t] \in Request /\ req[t].key \in Keys
      BY IdFacts DEF IdEffect, OnlyThread
    <3>3. Covered(loc[t].old)'
      <4>1. loc'[t].old \in {Nil, loc[t].old, cache[req[t].key]}
        BY DEF IdEffect, ReadsIds, Current
      <4>. QED
        BY <1>0, <1>1, <3>2, <4>1, SMTT(20) DEF IdsTaken, Covered
    <3>4. ASSUME NEW k \in Keys PROVE Covered(loc[t].snap[k])'
      <4>1. loc'[t].snap[k] \in {loc[t].snap[k], cache[k]}
        BY DEF IdEffect, ReadsIds
      <4>. QED
        BY <1>0, <1>1, <4>1, SMTT(30) DEF IdsTaken, Covered
    <3>. QED
      BY <2>2, <3>1, <3>3, <3>4
  <2>. QED
    BY <2>1, <2>2
<1>. QED
  <2>1. (\A u \in Threads : /\ loc[u].eid <= seqId /\ Covered(loc[u].old)
                            /\ \A k \in Keys : Covered(loc[u].snap[k]))'
    BY <1>4 DEF Covered
  <2>2. (\A k \in Keys : Covered(cache[k]))'
    BY <1>2 DEF Covered
  <2>3. (\A i \in 1..Len(queue) : queue[i].eid <= seqId)'
    BY <1>3
  <2>4. seqId' >= 0
    BY <1>0, <1>1
  <2>5. IdsTaken'
    BY <2>1, <2>2, <2>3, <2>4 DEF IdsTaken
  <2>. QED
    BY <1>1, <2>5

LEMMA SnapshotStep ==
    ASSUME NEW t \in Threads, IdInv, TypeInv', IdEffect(t)
    PROVE  SnapshotCovered' /\ \A u \in Threads : SnapshotControl(u)'
<1>1. ASSUME NEW u \in Threads, u # t
      PROVE  /\ SnapshotControl(u)'
             /\ \A k \in Keys :
                  (pc'[u] = "done" /\ req'[u].op = "CurrentState" /\ loc'[u].snap[k] # Nil)
                      => loc'[u].snap[k].eid <= loc'[u].seq
  <2>1. loc'[u] = loc[u] /\ pc'[u] = pc[u] /\ req' = req /\ SnapshotControl(u)
    BY <1>1 DEF IdEffect, OnlyThread, IdInv
  <2>. QED
    BY <2>1 DEF IdInv, SnapshotCovered, SnapshotControl
<1>2. SnapshotControl(t)'
  BY DEF IdEffect, OnlyThread, Snapshots, SnapshotControl
<1>3. ASSUME NEW k \in Keys, pc'[t] = "done", req'[t].op = "CurrentState",
             loc'[t].snap[k] # Nil
      PROVE  loc'[t].snap[k].eid <= loc'[t].seq
  <2>1. loc'[t].seq = seqId /\ loc'[t].snap = loc[t].snap
    BY <1>3 DEF IdEffect, OnlyThread, Snapshots
  <2>. QED
    BY <1>3, <2>1 DEF IdInv, IdsTaken, Covered
<1>. QED
  BY <1>1, <1>2, <1>3 DEF SnapshotCovered

LEMMA OwnedStep ==
    ASSUME NEW t \in Threads, IdInv, TypeInv', IdEffect(t)
    PROVE  \A u \in Threads : IdOwned(u)' /\ HasId(u)'
<1>0. /\ seqId \in Int /\ queue \in Seq(Notification) /\ IdsTaken /\ req' = req
      /\ Len(queue) \in Nat
      /\ \A u \in Threads : loc[u].eid \in Int /\ loc[u].eid <= seqId
      /\ \A u \in Threads : u # t => loc'[u] = loc[u] /\ pc'[u] = pc[u]
      /\ pc[t] # "done" /\ \A u \in Threads : IdOwned(u) /\ HasId(u)
  BY LenProperties
     DEF IdInv, TypeInv, TypeOK, SharedOK, ThreadsOK, Local, IdsTaken, IdEffect, OnlyThread
(* The entries and notifications other than the thread's own. *)
<1>1. CASE TakesId(t)
  <2>1. /\ UNCHANGED <<cache, queue>> /\ loc'[t].eid = seqId + 1
        /\ \A k \in Keys : cache[k] # Nil => cache[k].eid <= seqId /\ cache[k].eid \in Int
        /\ \A i \in 1..Len(queue) : queue[i].eid <= seqId /\ queue[i].eid \in Int
    <3>1. \A n \in Notification : n.eid \in Int
      BY DEF Notification
    <3>2. \A i \in 1..Len(queue) : queue[i].eid \in Int
      BY <1>0, <3>1, ElementOfSeq
    <3>3. \A k \in Keys : cache[k] # Nil => cache[k].eid \in Int
      BY DEF IdInv, TypeInv, TypeOK, SharedOK, EntryOrNil, Entry
    <3>. QED
      BY <1>0, <1>1, <3>2, <3>3 DEF TakesId, IdsTaken, Covered
  <2>2. IdOwned(t)'
    <3>1. \A u \in Threads : u # t => loc'[u].eid # seqId + 1
      BY <1>0
    <3>2. \A i \in 1..Len(queue) : queue[i].eid # seqId + 1
      BY <1>0, <2>1
    <3>3. \A k \in Keys : cache[k] # Nil => cache[k].eid # seqId + 1
      BY <1>0, <2>1
    <3>. QED
      BY <2>1, <3>1, <3>2, <3>3 DEF IdOwned
  <2>3. ASSUME NEW u \in Threads, u # t PROVE IdOwned(u)'
    <3>1. IdOwned(u) /\ loc'[u] = loc[u] /\ pc'[u] = pc[u] /\ loc[u].eid <= seqId
          /\ loc[u].eid \in Int
      BY <1>0, <2>3
    <3>2. ASSUME loc[u].eid # 0, NEW v \in Threads, v # u PROVE loc'[v].eid # loc'[u].eid
      BY <1>0, <2>1, <3>1, <3>2 DEF IdOwned
    <3>. QED
      BY <1>0, <2>1, <3>1, <3>2 DEF IdOwned
  <2>. QED
    BY <1>0, <2>2, <2>3 DEF IdEffect, HasId
<1>2. CASE KeepsId(t)
  <2>1. ASSUME NEW u \in Threads, loc'[u].eid # 0
        PROVE  /\ loc[u].eid = loc'[u].eid /\ IdOwned(u)
               /\ pc'[u] # "done" => pc[u] # "done"
    BY <1>0, <1>2, <2>1 DEF KeepsId
  <2>2. ASSUME NEW u \in Threads, loc'[u].eid # 0, NEW v \in Threads, v # u
        PROVE  loc'[v].eid # loc'[u].eid
    <3>1. CASE loc'[v].eid = 0
      BY <2>2, <3>1
    <3>2. CASE loc'[v].eid # 0
      <4>1. loc[v].eid = loc'[v].eid
        BY <2>1, <3>2
      <4>. QED
        BY <2>1, <2>2, <4>1 DEF IdOwned
    <3>. QED
      BY <3>1, <3>2
  <2>3. ASSUME NEW u \in Threads, loc'[u].eid # 0, pc'[u] # "done",
               NEW i \in 1..Len(queue')
        PROVE  queue'[i].eid # loc'[u].eid
    <3>1. loc[u].eid = loc'[u].eid /\ IdOwned(u) /\ pc[u] # "done"
      BY <2>1, <2>3
    <3>2. CASE UNCHANGED queue
      BY <2>3, <3>1, <3>2 DEF IdOwned
    <3>3. CASE ~ UNCHANGED queue
      <4>1. PICK n \in Notification : n.eid = loc[t].eid /\ queue' = Append(queue, n)
        BY <3>3 DEF IdEffect, AnnouncesId
      <4>2. /\ loc[t].eid # 0 /\ (pc'[t] = "done" \/ loc'[t].eid = 0)
        BY <3>3 DEF IdEffect, AnnouncesId
      <4>3. /\ Len(queue') = Len(queue) + 1 /\ queue'[Len(queue) + 1] = n
            /\ \A j \in 1..Len(queue) : queue'[j] = queue[j]
        BY <1>0, <4>1, AppendProperties
      <4>4. u # t
        BY <2>3, <4>2
      <4>5. n.eid # loc'[u].eid
        BY <2>3, <3>1, <4>1, <4>4 DEF IdOwned
      <4>6. CASE i \in 1..Len(queue)
        BY <2>3, <3>1, <4>3, <4>6 DEF IdOwned
      <4>7. CASE i = Len(queue) + 1
        BY <4>3, <4>5, <4>7
      <4>. QED
        BY <1>0, <4>3, <4>6, <4>7
    <3>. QED
      BY <3>2, <3>3
  <2>4. ASSUME NEW u \in Threads, loc'[u].eid # 0, NEW k \in Keys, k # req'[u].key,
               cache'[k] # Nil
        PROVE  cache'[k].eid # loc'[u].eid
    <3>1. loc[u].eid = loc'[u].eid /\ IdOwned(u) /\ k # req[u].key
      BY <1>0, <2>1, <2>4
    <3>2. CASE cache[k] # Nil /\ cache'[k].eid = cache[k].eid
      BY <2>4, <3>1, <3>2 DEF IdOwned
    <3>3. CASE k = req[t].key /\ loc[t].eid # 0 /\ cache'[k].eid = loc[t].eid
      <4>1. u # t
        BY <3>1, <3>3
      <4>. QED
        BY <2>4, <3>1, <3>3, <4>1 DEF IdOwned
    <3>. QED
      BY <2>4, <3>2, <3>3 DEF IdEffect, WritesId
  <2>5. \A u \in Threads : IdOwned(u)'
    BY <2>2, <2>3, <2>4 DEF IdOwned
  <2>. QED
    BY <1>0, <2>5 DEF IdEffect, HasId
<1>. QED
  BY <1>1, <1>2 DEF IdEffect

LEMMA UniqueStep ==
    ASSUME NEW t \in Threads, IdInv, TypeInv', IdEffect(t)
    PROVE  EventIdsUnique'
<1>0. /\ queue \in Seq(Notification) /\ Len(queue) \in Nat /\ IdOwned(t) /\ EventIdsUnique
      /\ pc[t] # "done"
  BY LenProperties DEF IdInv, TypeInv, TypeOK, SharedOK, IdEffect, OnlyThread
<1>1. ASSUME NEW i \in 1..Len(queue'), NEW j \in 1..Len(queue'), i # j
      PROVE  queue'[i].eid # queue'[j].eid
  <2>1. CASE UNCHANGED queue
    BY <1>0, <1>1, <2>1 DEF EventIdsUnique
  <2>2. CASE ~ UNCHANGED queue
    <3>1. PICK n \in Notification : n.eid = loc[t].eid /\ queue' = Append(queue, n)
      BY <2>2 DEF IdEffect, AnnouncesId
    <3>2. loc[t].eid # 0
      BY <2>2 DEF IdEffect, AnnouncesId
    <3>3. /\ Len(queue') = Len(queue) + 1 /\ queue'[Len(queue) + 1] = n
          /\ \A k \in 1..Len(queue) : queue'[k] = queue[k]
      BY <1>0, <3>1, AppendProperties
    <3>4. \A k \in 1..Len(queue) : queue[k].eid # n.eid
      BY <1>0, <3>1, <3>2 DEF IdOwned
    <3>5. CASE i \in 1..Len(queue) /\ j \in 1..Len(queue)
      BY <1>0, <1>1, <3>3, <3>5 DEF EventIdsUnique
    <3>6. CASE i = Len(queue) + 1 /\ j \in 1..Len(queue)
      BY <3>3, <3>4, <3>6
    <3>7. CASE i \in 1..Len(queue) /\ j = Len(queue) + 1
      BY <3>3, <3>4, <3>7
    <3>. QED
      BY <1>0, <1>1, <3>3, <3>5, <3>6, <3>7
  <2>. QED
    BY <2>1, <2>2
<1>2. ASSUME NEW k \in Keys, NEW l \in Keys, k # l, cache'[k] # Nil, cache'[l] # Nil
      PROVE  cache'[k].eid # cache'[l].eid
  <2>. DEFINE kept(x) == cache[x] # Nil /\ cache'[x].eid = cache[x].eid
              mine(x) == x = req[t].key /\ loc[t].eid # 0 /\ cache'[x].eid = loc[t].eid
  <2>1. (kept(k) \/ mine(k)) /\ (kept(l) \/ mine(l))
    BY <1>2 DEF IdEffect, WritesId
  <2>2. CASE kept(k) /\ kept(l)
    BY <1>0, <1>2, <2>2 DEF EventIdsUnique
  <2>3. CASE mine(k) /\ kept(l)
    BY <1>0, <1>2, <2>3 DEF IdOwned
  <2>4. CASE kept(k) /\ mine(l)
    BY <1>0, <1>2, <2>4 DEF IdOwned
  <2>5. CASE mine(k) /\ mine(l)
    BY <1>2, <2>5
  <2>. QED
    BY <2>1, <2>2, <2>3, <2>4, <2>5
<1>. QED
  BY <1>1, <1>2 DEF EventIdsUnique

-----------------------------------------------------------------------------
(* Every step preserves the invariant. *)

LEMMA IdInvStep ==
    ASSUME NEW t \in Threads, IdInv, MaxEventId < IntHalf, Step(t), ~ Return(t)
    PROVE  IdInv'
<1>1. IdEffect(t)
  BY RemoveEffect, TakeEffect, QuietSteps, ReadEffect, WriteEffect DEF Step
<1>2. TypeInv'
  BY TypeInvStep DEF IdInv
<1>. QED
  BY <1>1, <1>2, TakenStep, SnapshotStep, OwnedStep, UniqueStep DEF IdInv

(* A call starts and ends with no id, no entry read and no snapshot.        *)
LEMMA IdInvFresh ==
    ASSUME NEW t \in Threads, IdInv, TypeInv', UNCHANGED <<cache, seqId, queue>>, NEW l, NEW r,
           NEW x, pc' = [pc EXCEPT ![t] = l], req' = [req EXCEPT ![t] = r],
           loc' = [loc EXCEPT ![t] = x], x.eid = 0, x.old = Nil, x.snap = NoKeys,
           l \notin IdLabels \cup {"done"},
           l \in {"loopRead", "loopSwap"} => r.op = "Mutate",
           l # "idle" /\ r.op = "CurrentState" => l = "snapshot"
    PROVE  IdInv'
<1>0. /\ pc'[t] = l /\ req'[t] = r /\ loc'[t] = x
      /\ \A u \in Threads : u # t => pc'[u] = pc[u] /\ req'[u] = req[u] /\ loc'[u] = loc[u]
  BY DEF IdInv, TypeInv, TypeOK, ThreadsOK
<1>1. IdsTaken'
  <2>1. ASSUME NEW u \in Threads
        PROVE  /\ loc'[u].eid <= seqId /\ (loc'[u].old # Nil => loc'[u].old.eid <= seqId)
               /\ \A k \in Keys : loc'[u].snap[k] # Nil => loc'[u].snap[k].eid <= seqId
    BY <1>0 DEF IdInv, IdsTaken, Covered, NoKeys
  <2>. QED
    BY <2>1 DEF IdInv, IdsTaken, Covered
<1>2. ASSUME NEW u \in Threads PROVE HasId(u)' /\ IdOwned(u)' /\ SnapshotControl(u)'
  <2>1. CASE u = t
    BY <1>0, <2>1 DEF HasId, IdOwned, SnapshotControl
  <2>2. CASE u # t
    <3>1. HasId(u)' /\ SnapshotControl(u)'
      BY <1>0, <2>2 DEF IdInv, HasId, SnapshotControl
    <3>2. IdOwned(u)'
      BY <1>0, <2>2 DEF IdInv, IdOwned
    <3>. QED
      BY <3>1, <3>2
  <2>. QED
    BY <2>1, <2>2
<1>3. SnapshotCovered'
  BY <1>0 DEF IdInv, SnapshotCovered, NoKeys
<1>4. EventIdsUnique'
  BY DEF IdInv, EventIdsUnique
<1>. QED
  BY <1>1, <1>2, <1>3, <1>4 DEF IdInv

LEMMA IdInvNext == (MaxEventId < IntHalf) => (IdInv /\ [Next]_vars => IdInv')
<1>. SUFFICES ASSUME MaxEventId < IntHalf, IdInv, [Next]_vars PROVE IdInv'
  OBVIOUS
<1>0. TypeInv'
  BY TypeInvNext DEF IdInv
<1>1. ASSUME NEW t \in Threads, Step(t) PROVE IdInv'
  <2>1. CASE Return(t)
    <3>1. /\ UNCHANGED <<cache, seqId, queue>> /\ pc' = [pc EXCEPT ![t] = "idle"]
          /\ req' = [req EXCEPT ![t] = Nil] /\ loc' = [loc EXCEPT ![t] = FreshLocal]
      BY <2>1 DEF Return, Move, Goto, shared
    <3>2. FreshLocal.eid = 0 /\ FreshLocal.old = Nil /\ FreshLocal.snap = NoKeys
      BY DEF FreshLocal
    <3>. QED
      BY <1>0, <3>1, <3>2, IdInvFresh DEF IdLabels
  <2>. QED
    BY <1>1, <2>1, IdInvStep
<1>2. ASSUME NEW t \in Threads, NEW r \in Requests[t], Call(t, r) PROVE IdInv'
  <2>. DEFINE l == FirstLabel(r.op)
              x == [FreshLocal EXCEPT !.cur = r.key, !.todo = r.keys, !.n = r.data.len]
  <2>1. /\ pc' = [pc EXCEPT ![t] = l] /\ req' = [req EXCEPT ![t] = r]
        /\ loc' = [loc EXCEPT ![t] = x] /\ UNCHANGED <<cache, seqId, queue>>
    BY <1>2 DEF Call, Move, Goto, shared
  <2>2. x.eid = 0 /\ x.old = Nil /\ x.snap = NoKeys
    BY DEF FreshLocal
  <2>3. r.op \in Ops
    BY RequestsAssumption DEF Request
  <2>4. /\ l \notin IdLabels \cup {"done"}
        /\ l \in {"loopRead", "loopSwap"} => r.op = "Mutate"
        /\ l # "idle" /\ r.op = "CurrentState" => l = "snapshot"
    BY <2>3 DEF FirstLabel, Ops, IdLabels
  <2>. HIDE DEF l, x
  <2>. QED
    BY <1>0, <2>1, <2>2, <2>4, IdInvFresh
<1>3. CASE Tick \/ Stopped \/ UNCHANGED vars
  <2>1. UNCHANGED <<cache, seqId, queue, pc, req, loc>>
    BY <1>3 DEF Tick, Stopped, vars, shared
  <2>. QED
    BY <1>0, <2>1
       DEF IdInv, IdsTaken, Covered, HasId, IdOwned, SnapshotControl, SnapshotCovered,
           EventIdsUnique
<1>. QED
  BY <1>1, <1>2, <1>3 DEF Next

LEMMA IdInvInit == Init => IdInv
<1>. SUFFICES ASSUME Init PROVE IdInv
  OBVIOUS
<1>1. IdsTaken
  BY DEF Init, IdsTaken, Covered, NoKeys, FreshLocal
<1>2. \A t \in Threads : HasId(t) /\ IdOwned(t) /\ SnapshotControl(t)
  BY DEF Init, HasId, IdLabels, IdOwned, SnapshotControl, FreshLocal
<1>3. SnapshotCovered /\ EventIdsUnique
  BY DEF Init, SnapshotCovered, EventIdsUnique, NoKeys
<1>. QED
  BY <1>1, <1>2, <1>3, TypeInvInit DEF IdInv

LEMMA IdInvCorrect ==
    ASSUME MaxEventId < IntHalf
    PROVE  Spec => []IdInv
<1>1. IdInv /\ [Next]_vars => IdInv'
  BY IdInvNext
<1>. QED
  BY <1>1, IdInvInit, PTL DEF Spec

(* CurrentState of MemCache.cs reads the dictionary first and the sequence  *)
(* id second, and every writer takes its id before it writes: as long as    *)
(* fewer than 2^31 ids are taken, the id covers the snapshot, whatever the  *)
(* number of threads and however their steps interleave.                    *)
THEOREM SnapshotsCovered ==
    ASSUME MaxEventId < IntHalf
    PROVE  Spec => []SnapshotCovered
<1>1. IdInv => SnapshotCovered
  BY DEF IdInv
<1>. QED
  BY <1>1, IdInvCorrect, PTL

(* Under the same assumption no two notifications in the persistence queue  *)
(* and no two entries of the dictionary share an event id.                  *)
THEOREM IdsUnique ==
    ASSUME MaxEventId < IntHalf
    PROVE  Spec => []EventIdsUnique
<1>1. IdInv => EventIdsUnique
  BY DEF IdInv
<1>. QED
  BY <1>1, IdInvCorrect, PTL

-----------------------------------------------------------------------------
(* Announcements.  Between a write of the dictionary and the notification   *)
(* that tells of it the writing thread is at one of the labels Telling,     *)
(* with the entry's key and event id in its call and its locals.            *)

Telling == {"used", "lru", "queue"}

(* Thread t is about to announce key k with event id id. *)
Tells(t, k, id) ==
    pc[t] \in Telling /\ req[t].op # "Clear" /\ req[t].key = k /\ loc[t].eid = id

(* The queue holds such an announcement. *)
Told(k, id) ==
    \E i \in 1..Len(queue) : /\ queue[i].kind \in {"store", "touch"}
                             /\ queue[i].key = k /\ queue[i].eid = id

(* The entry e of key k has been announced, or somebody is about to do so.  *)
Known(k, e) == e # Nil => Told(k, e.eid) \/ \E t \in Threads : Tells(t, k, e.eid)

(* Clear has no key of its own, so the labels it passes are told apart. *)
ClearLabels == {"inc", "clear", "queue", "done"}

CallControl(t) ==
    pc[t] # "idle" => req[t] \in Requests[t] /\ (req[t].op = "Clear" => pc[t] \in ClearLabels)

TellInv ==
    /\ TypeInv
    /\ \A t \in Threads : CallControl(t)
    /\ \A k \in Keys : Known(k, cache[k])

(* Every step of a thread but Return: its call and the other threads stay   *)
(* as they are.                                                             *)
Alone(t) ==
    /\ req' = req /\ pc[t] \notin {"idle", "done"} /\ pc'[t] # "idle"
    /\ \A u \in Threads : u # t => loc'[u] = loc[u] /\ pc'[u] = pc[u]

(* A step that leaves the dictionary and the queue alone. *)
Aside(t) ==
    /\ Alone(t) /\ UNCHANGED <<cache, queue>>
    /\ pc[t] \in {"inc", "used", "lru"} =>
          /\ loc[t].eid = loc'[t].eid \/ pc[t] = "inc"
          /\ pc[t] = "inc" /\ req[t].op = "Clear" => pc'[t] = "clear"
          /\ pc[t] = "used" => pc'[t] = "lru"
          /\ pc[t] = "lru" => pc'[t] = "queue"
    /\ pc[t] \notin {"clear", "queue"}

(* The steps of MakeSpaceForNewEntry, of the writers and of the readers     *)
(* that neither write an entry nor announce one.                            *)
LEMMA AsideSpace ==
    ASSUME NEW t \in Threads, TypeInv,
           \/ RemoveNextId(t) \/ RemoveUsed(t) \/ RemoveNotifyLru(t) \/ MakeSpace(t)
           \/ EvictEntry(t) \/ NextEventId(t) \/ AddUsed(t) \/ NotifyLru(t)
    PROVE  Aside(t)
<1>. USE DEF Move, Goto, Frame
<1>0. loc \in [Threads -> Local] /\ pc \in [Threads -> Labels] /\ loc[t] \in Local
  BY ThreadFacts DEF TypeInv, TypeOK, ThreadsOK
<1>1. CASE RemoveNextId(t)
  BY <1>0, <1>1 DEF RemoveNextId, TakeEventId, Aside, Alone
<1>2. CASE RemoveUsed(t)
  BY <1>0, <1>2 DEF RemoveUsed, OnUsed, Aside, Alone
<1>3. CASE RemoveNotifyLru(t)
  BY <1>0, <1>3 DEF RemoveNotifyLru, OnLru, Aside, Alone
<1>4. CASE MakeSpace(t)
  BY <1>0, <1>4 DEF MakeSpace, LocalStep, shared, Aside, Alone
<1>5. CASE EvictEntry(t)
  BY <1>0, <1>5 DEF EvictEntry, Aside, Alone
<1>6. CASE NextEventId(t)
  BY <1>0, <1>6 DEF NextEventId, TakeEventId, Aside, Alone
<1>7. CASE AddUsed(t)
  BY <1>0, <1>7 DEF AddUsed, OnUsed, Aside, Alone
<1>8. CASE NotifyLru(t)
  BY <1>0, <1>8 DEF NotifyLru, OnLru, Aside, Alone
<1>. QED
  BY <1>1, <1>2, <1>3, <1>4, <1>5, <1>6, <1>7, <1>8

(* ... and those of the calls that write entries, up to the write, ... *)
LEMMA AsideWriters ==
    ASSUME NEW t \in Threads, TypeInv,
           \/ StoreContains(t) \/ ReplaceContains(t) \/ ReadSize(t) \/ ReplaceSubtract(t)
           \/ LoopRead(t) \/ TouchRead(t) \/ CasRead(t)
    PROVE  Aside(t)
<1>. USE DEF Move, Goto, Frame
<1>0. loc \in [Threads -> Local] /\ pc \in [Threads -> Labels] /\ loc[t] \in Local
  BY ThreadFacts DEF TypeInv, TypeOK, ThreadsOK
<1>1. CASE StoreContains(t)
  BY <1>0, <1>1 DEF StoreContains, LocalStep, shared, Aside, Alone
<1>2. CASE ReplaceContains(t)
  BY <1>0, <1>2 DEF ReplaceContains, LocalStep, shared, Aside, Alone
<1>3. CASE ReadSize(t)
  BY <1>0, <1>3 DEF ReadSize, LocalStep, shared, Finish, Aside, Alone
<1>4. CASE ReplaceSubtract(t)
  BY <1>0, <1>4 DEF ReplaceSubtract, OnUsed, Aside, Alone
<1>5. CASE LoopRead(t)
  BY <1>0, <1>5 DEF LoopRead, LocalStep, shared, Finish, Aside, Alone
<1>6. CASE TouchRead(t)
  BY <1>0, <1>6 DEF TouchRead, LocalStep, shared, Finish, Aside, Alone
<1>7. CASE CasRead(t)
  BY <1>0, <1>7 DEF CasRead, LocalStep, shared, Finish, Aside, Alone
<1>. QED
  BY <1>1, <1>2, <1>3, <1>4, <1>5, <1>6, <1>7

(* ... and those of the calls that only read. *)
LEMMA AsideReaders ==
    ASSUME NEW t \in Threads, TypeInv,
           \/ RetrieveContains(t) \/ RetrieveIndex(t) \/ RetrieveUse(t) \/ GetUse(t)
           \/ GetIndex(t) \/ ScanExpired(t) \/ SweepNext(t)
           \/ SnapshotContents(t) \/ SnapshotSequence(t)
    PROVE  Aside(t)
<1>. USE DEF Move, Goto, Frame
<1>0. loc \in [Threads -> Local] /\ pc \in [Threads -> Labels] /\ loc[t] \in Local
  BY ThreadFacts DEF TypeInv, TypeOK, ThreadsOK
<1>1. CASE RetrieveContains(t)
  BY <1>0, <1>1 DEF RetrieveContains, AfterVisit, LocalStep, shared, Aside, Alone
<1>2. CASE RetrieveIndex(t)
  BY <1>0, <1>2 DEF RetrieveIndex, AfterVisit, LocalStep, shared, Finish, Aside, Alone
<1>3. CASE RetrieveUse(t)
  BY <1>0, <1>3 DEF RetrieveUse, OnLru, Finish, Aside, Alone
<1>4. CASE GetUse(t)
  BY <1>0, <1>4 DEF GetUse, OnLru, Aside, Alone
<1>5. CASE GetIndex(t)
  BY <1>0, <1>5 DEF GetIndex, LocalStep, shared, Aside, Alone
<1>6. CASE ScanExpired(t)
  BY <1>0, <1>6 DEF ScanExpired, LocalStep, shared, Aside, Alone
<1>7. CASE SweepNext(t)
  BY <1>0, <1>7 DEF SweepNext, LocalStep, shared, Finish, Aside, Alone
<1>8. CASE SnapshotContents(t)
  BY <1>0, <1>8 DEF SnapshotContents, LocalStep, shared, Aside, Alone
<1>9. CASE SnapshotSequence(t)
  BY <1>0, <1>9 DEF SnapshotSequence, LocalStep, shared, Aside, Alone
<1>. QED
  BY <1>1, <1>2, <1>3, <1>4, <1>5, <1>6, <1>7, <1>8, <1>9

(* What any step does: an entry it writes is the thread's to tell of, and a *)
(* thread that has one to tell of keeps it or announces it.                 *)
Writes(t) ==
    \A k \in Keys : cache'[k] # Nil =>
        \/ cache[k] # Nil /\ cache'[k].eid = cache[k].eid
        \/ /\ pc'[t] \in Telling /\ req[t].op # "Clear"
           /\ k = req[t].key /\ cache'[k].eid = loc'[t].eid

Announces(t) ==
    LET telling == pc[t] \in Telling /\ req[t].op # "Clear" IN
    \/ /\ UNCHANGED queue
       /\ telling => pc'[t] \in Telling /\ loc'[t].eid = loc[t].eid
    \/ \E n \in Notification :
          /\ queue' = Append(queue, n)
          /\ telling => /\ n.kind \in {"store", "touch"}
                        /\ n.key = req[t].key /\ n.eid = loc[t].eid

TellEffect(t) == Alone(t) /\ Writes(t) /\ Announces(t) /\ CallControl(t)'

(* A step aside has that effect. *)
LEMMA AsideEffect ==
    ASSUME NEW t \in Threads, CallControl(t), Aside(t)
    PROVE  TellEffect(t)
BY DEF Aside, Alone, CallControl, ClearLabels, TellEffect, Writes, Announces, Telling

(* So have the steps that write an entry or announce one. *)
LEMMA TellWriters ==
    ASSUME NEW t \in Threads, TypeInv, CallControl(t),
           \A r \in Requests[t] : r.op # "Cas",
           \/ RemoveTake(t) \/ RemoveNotifyQueue(t) \/ StoreWrite(t) \/ TryAdd(t)
           \/ LoopSwap(t) \/ TouchSwap(t) \/ CasSwap(t) \/ ClearCache(t) \/ NotifyQueue(t)
    PROVE  TellEffect(t)
<1>. USE DEF Move, Goto, Frame
<1>0. /\ loc \in [Threads -> Local] /\ pc \in [Threads -> Labels] /\ loc[t] \in Local
      /\ cache \in [Keys -> EntryOrNil] /\ Control(t)
  BY ThreadFacts DEF TypeInv, TypeOK, ThreadsOK, SharedOK
<1>1. /\ pc[t] \in {"rmTake", "rmQueue", "write", "tryAdd", "loopSwap", "tSwap", "cSwap",
                    "clear", "queue"}
      /\ UNCHANGED req
  BY DEF RemoveTake, RemoveNotifyQueue, StoreWrite, TryAdd, LoopSwap, TouchSwap, CasSwap,
         ClearCache, NotifyQueue, OnCache
<1>2. /\ req[t] \in Request /\ req[t].key \in Keys /\ req[t].op # "Cas"
      /\ req[t].op = "Clear" => pc[t] \in ClearLabels
      /\ req[t] \in Requests[t]
  BY <1>1, ThreadFacts DEF CallControl
(* An entry made from the arguments of the call carries the thread's id.    *)
<1>3. /\ NewEntry(req[t], loc[t].eid).eid = loc[t].eid
      /\ loc[t].old \in Entry /\ req[t].op \in {"Replace", "Append", "Touch"}
            => Updated(t).eid = loc[t].eid
      /\ loc[t].old \in Entry /\ req[t].op = "Mutate" => Updated(t).eid = loc[t].old.eid
  BY DEF NewEntry, Updated, Entry
<1>e. ASSUME Alone(t), Writes(t), UNCHANGED queue, pc[t] # "queue",
             req[t].op = "Clear" => pc'[t] = "queue"
      PROVE  TellEffect(t)
  BY <1>1, <1>2, <1>e DEF Alone, TellEffect, Announces, CallControl, ClearLabels, Telling
<1>4. CASE RemoveTake(t)
  <2>1. Alone(t) /\ pc[t] = "rmTake" /\ UNCHANGED queue
    BY <1>0, <1>4 DEF RemoveTake, AfterRemove, Finish, Alone
  <2>2. Writes(t)
    BY <1>0, <1>4 DEF RemoveTake, Writes
  <2>. QED
    BY <1>2, <1>e, <2>1, <2>2 DEF ClearLabels
<1>5. CASE RemoveNotifyQueue(t)
  <2>1. Alone(t) /\ pc[t] = "rmQueue" /\ UNCHANGED cache
    BY <1>0, <1>5 DEF RemoveNotifyQueue, AfterRemove, Finish, Alone
  <2>2. /\ queue' = Append(queue, [kind |-> "remove", eid |-> loc[t].eid, key |-> loc[t].cur])
        /\ loc[t].eid \in Int /\ loc[t].cur \in Keys
    BY <1>0, <1>5, <2>1 DEF RemoveNotifyQueue, Control, ControlAt, RemoveLabels, Local
  <2>3. [kind |-> "remove", eid |-> loc[t].eid, key |-> loc[t].cur] \in Notification
    BY <2>2 DEF Notification
  <2>4. Announces(t)
    BY <2>1, <2>2, <2>3 DEF Announces, Telling
  <2>5. CallControl(t)' /\ Writes(t)
    BY <1>2, <2>1 DEF Alone, CallControl, ClearLabels, Writes
  <2>. QED
    BY <2>1, <2>4, <2>5 DEF TellEffect
<1>6. CASE StoreWrite(t)
  <2>1. Alone(t) /\ pc[t] = "write" /\ pc'[t] = "used" /\ UNCHANGED queue
        /\ loc'[t].eid = loc[t].eid
    BY <1>0, <1>6 DEF StoreWrite, OnCache, Alone, Local
  <2>2. Writes(t)
    BY <1>0, <1>2, <1>3, <1>6, <2>1 DEF StoreWrite, Writes, Telling, ClearLabels
  <2>. QED
    BY <1>2, <1>e, <2>1, <2>2 DEF ClearLabels
<1>7. CASE TryAdd(t)
  <2>1. /\ Alone(t) /\ pc[t] = "tryAdd" /\ UNCHANGED queue /\ loc'[t].eid = loc[t].eid
        /\ UNCHANGED cache \/ pc'[t] = "used"
    BY <1>0, <1>7 DEF TryAdd, Finish, OnCache, Alone, Local
  <2>2. Writes(t)
    BY <1>0, <1>2, <1>3, <1>7, <2>1 DEF TryAdd, Writes, Telling, ClearLabels
  <2>. QED
    BY <1>2, <1>e, <2>1, <2>2 DEF ClearLabels
<1>8. CASE LoopSwap(t)
  <2>1. /\ Alone(t) /\ pc[t] = "loopSwap" /\ UNCHANGED queue /\ loc'[t].eid = loc[t].eid
        /\ \/ UNCHANGED cache
           \/ /\ Current(t) = loc[t].old
              /\ cache' = [cache EXCEPT ![req[t].key] = Updated(t)]
              /\ req[t].op # "Mutate" => pc'[t] = "used"
    BY <1>0, <1>8 DEF LoopSwap, OnCache, Alone, Local
  <2>2. loc[t].old \in Entry /\ req[t].op \in {"Replace", "Append", "Mutate"}
    BY <1>0, <2>1 DEF Control, ControlAt
  <2>3. Writes(t)
    BY <1>0, <1>2, <1>3, <2>1, <2>2, NilAssumption DEF Writes, Telling, Current
  <2>. QED
    BY <1>2, <1>e, <2>1, <2>3 DEF ClearLabels
<1>9. CASE TouchSwap(t)
  <2>1. /\ Alone(t) /\ pc[t] = "tSwap" /\ UNCHANGED queue /\ loc'[t].eid = loc[t].eid
        /\ UNCHANGED cache \/ cache' = [cache EXCEPT ![req[t].key] = Updated(t)]
        /\ pc'[t] = "lru"
    BY <1>0, <1>9 DEF TouchSwap, OnCache, Alone, Local
  <2>2. loc[t].old \in Entry /\ req[t].op = "Touch"
    BY <1>0, <2>1 DEF Control, ControlAt
  <2>3. Writes(t)
    BY <1>0, <1>2, <1>3, <2>1, <2>2 DEF Writes, Telling
  <2>. QED
    BY <1>2, <1>e, <2>1, <2>3 DEF ClearLabels
<1>10. CASE CasSwap(t)
  BY <1>0, <1>2, <1>10 DEF CasSwap, Control, ControlAt
<1>11. CASE ClearCache(t)
  <2>1. Alone(t) /\ pc[t] = "clear" /\ UNCHANGED queue /\ pc'[t] = "queue" /\ cache' = NoKeys
    BY <1>0, <1>11 DEF ClearCache, OnCache, Alone
  <2>2. Writes(t)
    BY <2>1 DEF Writes, NoKeys
  <2>. QED
    BY <1>e, <2>1, <2>2
<1>12. CASE NotifyQueue(t)
  <2>. DEFINE n == NotificationOf(req[t], loc[t].eid)
  <2>1. /\ Alone(t) /\ pc'[t] = "done" /\ queue' = Append(queue, n) /\ UNCHANGED cache
    BY <1>0, <1>12 DEF NotifyQueue, Alone
  <2>2. /\ n \in Notification
        /\ req[t].op # "Clear" => /\ n.kind \in {"store", "touch"} /\ n.key = req[t].key
                                  /\ n.eid = loc[t].eid
    BY <1>0, <1>2, NotificationType DEF NotificationOf, Local
  <2>. HIDE DEF n
  <2>3. Announces(t) /\ Writes(t) /\ CallControl(t)'
    BY <1>2, <2>1, <2>2 DEF Announces, Writes, CallControl, Alone, ClearLabels
  <2>. QED
    BY <2>1, <2>3 DEF TellEffect
<1>. QED
  BY <1>4, <1>5, <1>6, <1>7, <1>8, <1>9, <1>10, <1>11, <1>12

(* Such an effect leaves no entry unknown. *)
LEMMA TellStep ==
    ASSUME NEW t \in Threads, TellInv, TypeInv', TellEffect(t)
    PROVE  TellInv'
<1>1. \A u \in Threads : CallControl(u)'
  BY DEF TellInv, TellEffect, Alone, CallControl
<1>2. queue \in Seq(Notification)
  BY DEF TellInv, TypeInv, TypeOK, SharedOK
<1>3. ASSUME NEW k \in Keys, NEW id, Told(k, id) PROVE Told(k, id)'
  <2>1. CASE UNCHANGED queue
    BY <1>3, <2>1 DEF Told
  <2>2. CASE ~ UNCHANGED queue
    <3>1. PICK n \in Notification : queue' = Append(queue, n)
      BY <2>2 DEF TellEffect, Announces
    <3>2. /\ Len(queue') = Len(queue) + 1 /\ Len(queue) \in Nat
          /\ \A i \in 1..Len(queue) : queue'[i] = queue[i]
      BY <1>2, <3>1, AppendProperties, LenProperties
    <3>. QED
      BY <1>3, <3>2 DEF Told
  <2>. QED
    BY <2>1, <2>2
<1>4. ASSUME NEW k \in Keys, NEW id, NEW u \in Threads, Tells(u, k, id)
      PROVE  Told(k, id)' \/ Tells(u, k, id)'
  <2>1. CASE u # t
    BY <1>4, <2>1 DEF Tells, TellEffect, Alone
  <2>2. CASE u = t /\ UNCHANGED queue
    BY <1>4, <2>2 DEF Tells, TellEffect, Alone, Announces
  <2>3. CASE u = t /\ ~ UNCHANGED queue
    <3>1. PICK n \in Notification :
            /\ queue' = Append(queue, n)
            /\ n.kind \in {"store", "touch"} /\ n.key = k /\ n.eid = id
      BY <1>4, <2>3 DEF Tells, TellEffect, Announces
    <3>2. /\ Len(queue') = Len(queue) + 1 /\ Len(queue) \in Nat
          /\ queue'[Len(queue) + 1] = n
      BY <1>2, <3>1, AppendProperties, LenProperties
    <3>. QED
      BY <3>1, <3>2 DEF Told
  <2>. QED
    BY <2>1, <2>2, <2>3
<1>5. ASSUME NEW k \in Keys, NEW id, cache'[k] # Nil, id = cache'[k].eid
      PROVE  Told(k, id)' \/ \E u \in Threads : Tells(u, k, id)'
  <2>1. CASE cache[k] # Nil /\ cache[k].eid = id
    <3>1. Told(k, id) \/ \E u \in Threads : Tells(u, k, id)
      BY <2>1 DEF TellInv, Known
    <3>. QED
      BY <1>3, <1>4, <3>1
  <2>2. CASE /\ pc'[t] \in Telling /\ req[t].op # "Clear"
             /\ k = req[t].key /\ id = loc'[t].eid
    BY <2>2 DEF TellEffect, Alone, Tells
  <2>. QED
    BY <1>5, <2>1, <2>2 DEF TellEffect, Writes
<1>6. ASSUME NEW k \in Keys PROVE Known(k, cache[k])'
  <2>1. PICK id : id = cache'[k].eid
    OBVIOUS
  <2>2. CASE cache'[k] = Nil
    BY <2>2 DEF Known
  <2>3. CASE cache'[k] # Nil /\ Told(k, id)'
    BY <2>1, <2>3 DEF Known, Told
  <2>4. CASE cache'[k] # Nil /\ \E u \in Threads : Tells(u, k, id)'
    BY <2>1, <2>4 DEF Known, Tells
  <2>. QED
    BY <1>5, <2>1, <2>2, <2>3, <2>4
<1>. QED
  BY <1>1, <1>6 DEF TellInv

(* No entry becomes unknown, whichever thread moves. *)
LEMMA TellInvNext ==
    (\A t \in Threads : \A r \in Requests[t] : r.op # "Cas") =>
        (TellInv /\ [Next]_vars => TellInv')
<1>. SUFFICES ASSUME \A t \in Threads : \A r \in Requests[t] : r.op # "Cas",
                     TellInv, [Next]_vars
              PROVE  TellInv'
  OBVIOUS
<1>0. TypeInv'
  BY TypeInvNext DEF TellInv
<1>1. ASSUME NEW t \in Threads, Step(t), ~ Return(t) PROVE TellInv'
  <2>1. TypeInv /\ CallControl(t)
    BY DEF TellInv
  <2>2. TellEffect(t)
    BY <1>1, <2>1, AsideEffect, AsideSpace, AsideWriters, AsideReaders, TellWriters DEF Step
  <2>. QED
    BY <1>0, <2>2, TellStep
(* Calls come and go at labels that tell of nothing. *)
<1>2. ASSUME NEW t \in Threads, NEW l, NEW r, NEW x, UNCHANGED <<cache, queue>>,
             pc' = [pc EXCEPT ![t] = l], req' = [req EXCEPT ![t] = r],
             loc' = [loc EXCEPT ![t] = x], pc[t] \notin Telling, CallControl(t)'
      PROVE  TellInv'
  <2>1. \A u \in Threads : u # t => pc'[u] = pc[u] /\ req'[u] = req[u] /\ loc'[u] = loc[u]
    BY <1>2 DEF TellInv, TypeInv, TypeOK, ThreadsOK
  <2>2. \A u \in Threads : CallControl(u)'
    BY <1>2, <2>1 DEF TellInv, CallControl
  <2>3. ASSUME NEW k \in Keys PROVE Known(k, cache[k])'
    <3>1. \A u \in Threads : Tells(u, k, cache[k].eid) => Tells(u, k, cache[k].eid)'
      BY <1>2, <2>1 DEF Tells
    <3>2. Told(k, cache[k].eid) => Told(k, cache[k].eid)'
      BY <1>2 DEF Told
    <3>. QED
      BY <1>2, <3>1, <3>2 DEF TellInv, Known
  <2>. QED
    BY <1>0, <2>2, <2>3 DEF TellInv
<1>3. ASSUME NEW t \in Threads, Return(t) PROVE TellInv'
  <2>1. /\ pc' = [pc EXCEPT ![t] = "idle"] /\ req' = [req EXCEPT ![t] = Nil]
        /\ loc' = [loc EXCEPT ![t] = FreshLocal] /\ UNCHANGED <<cache, queue>>
        /\ pc[t] = "done"
    BY <1>3 DEF Return, Move, Goto, shared
  <2>2. CallControl(t)'
    BY <2>1 DEF TellInv, TypeInv, TypeOK, ThreadsOK, CallControl
  <2>. QED
    BY <1>2, <2>1, <2>2 DEF Telling
<1>4. ASSUME NEW t \in Threads, NEW r \in Requests[t], Call(t, r) PROVE TellInv'
  <2>. DEFINE l == FirstLabel(r.op)
              x == [FreshLocal EXCEPT !.cur = r.key, !.todo = r.keys, !.n = r.data.len]
  <2>1. /\ pc' = [pc EXCEPT ![t] = l] /\ req' = [req EXCEPT ![t] = r]
        /\ loc' = [loc EXCEPT ![t] = x] /\ UNCHANGED <<cache, queue>> /\ pc[t] = "idle"
    BY <1>4 DEF Call, Move, Goto, shared
  <2>2. r.op = "Clear" => l \in ClearLabels
    BY DEF FirstLabel, ClearLabels
  <2>. HIDE DEF l, x
  <2>3. CallControl(t)'
    BY <2>1, <2>2 DEF TellInv, TypeInv, TypeOK, ThreadsOK, CallControl
  <2>. QED
    BY <1>2, <2>1, <2>3 DEF Telling
<1>5. CASE Tick \/ Stopped \/ UNCHANGED vars
  <2>1. UNCHANGED <<cache, queue, pc, req, loc>>
    BY <1>5 DEF Tick, Stopped, vars, shared
  <2>. QED
    BY <1>0, <2>1 DEF TellInv, CallControl, Known, Told, Tells
<1>. QED
  BY <1>1, <1>3, <1>4, <1>5 DEF Next

(* Every write of the dictionary but a Cas is announced to the persistence  *)
(* queue: when every call has returned, each entry has a notification under *)
(* its key and its event id, whatever the threads did to it meanwhile.  A   *)
(* Cas of MemCache.cs tells nobody, so none may be among the calls.         *)
THEOREM EntriesReachQueue ==
    ASSUME \A t \in Threads : \A r \in Requests[t] : r.op # "Cas"
    PROVE  Spec => []EntriesAnnounced
<1>1. Init => TellInv
  BY TypeInvInit DEF Init, TellInv, CallControl, Known, NoKeys
<1>2. TellInv /\ [Next]_vars => TellInv'
  BY TellInvNext
<1>3. TellInv => EntriesAnnounced
  BY DEF TellInv, Known, Told, Tells, Telling, EntriesAnnounced, Idle
<1>. QED
  BY <1>1, <1>2, <1>3, PTL DEF Spec

-----------------------------------------------------------------------------
(* Sums over a finite set, as SumFunction of the library folds them.        *)

(* Induction over the subsets of a finite set, by taking out an element.    *)
LEMMA SubsetInduction ==
    ASSUME NEW S, IsFiniteSet(S), NEW Q, {} \in Q,
           \A s \in SUBSET S : (s # {} /\ \A x \in s : s \ {x} \in Q) => s \in Q
    PROVE  SUBSET S \subseteq Q
<1>. SUFFICES ASSUME NEW z \in SUBSET S, z \notin Q PROVE FALSE
  OBVIOUS
<1>. DEFINE N == {Cardinality(s) : s \in {u \in SUBSET S : u \notin Q}}
<1>1. \A s \in SUBSET S : IsFiniteSet(s) /\ Cardinality(s) \in Nat
  BY FS_Subset, FS_CardinalityType
<1>2. N \in SUBSET Nat /\ N # {}
  BY <1>1
<1>3. PICK m \in N : \A n \in N : m <= n
  BY <1>2, LeastElement
<1>4. PICK s \in SUBSET S : s \notin Q /\ m = Cardinality(s)
  OBVIOUS
<1>5. ASSUME NEW x \in s PROVE s \ {x} \in Q
  <2>1. Cardinality(s \ {x}) = m - 1 /\ m \in Nat
    BY <1>1, <1>4, FS_RemoveElement
  <2>2. s \ {x} \in SUBSET S
    BY <1>4
  <2>. QED
    BY <1>3, <2>1, <2>2
<1>. QED
  BY <1>4, <1>5

(* The element a fold takes out of a set. *)
Taken(s) == CHOOSE x \in s : TRUE

(* h is the fold of f: h[s] is the sum of f over s. *)
IsSum(h, f) ==
    h = [s \in SUBSET (DOMAIN f) |->
            IF s = {} THEN 0 ELSE f[Taken(s)] + h[s \ {Taken(s)}]]

(* The function that sums f over every subset exists. *)
LEMMA SumExists ==
    ASSUME NEW S, IsFiniteSet(S), NEW f \in [S -> Int]
    PROVE  \E h : IsSum(h, f)
<1>. DEFINE L(n) == {s \in SUBSET S : Cardinality(s) <= n}
            G(n) == \E h : h = [s \in L(n) |->
                        IF s = {} THEN 0 ELSE f[Taken(s)] + h[s \ {Taken(s)}]]
            B == {n \in Nat : ~ G(n)}
<1>1. \A s \in SUBSET S : IsFiniteSet(s) /\ Cardinality(s) \in Nat
  BY FS_Subset, FS_CardinalityType
<1>2. \A s \in SUBSET S : s # {} => /\ Taken(s) \in s /\ s \ {Taken(s)} \in SUBSET S
                                    /\ Cardinality(s \ {Taken(s)}) = Cardinality(s) - 1
  BY <1>1, FS_RemoveElement DEF Taken
<1>3. ASSUME B # {} PROVE FALSE
  <2>1. PICK m \in B : \A n \in B : m <= n
    BY <1>3, LeastElement
  <2>2. CASE m = 0
    <3>1. \A s \in L(0) : s = {}
      BY <1>1, FS_EmptySet
    <3>. DEFINE h == [s \in L(0) |-> 0]
    <3>2. h = [s \in L(0) |-> IF s = {} THEN 0 ELSE f[Taken(s)] + h[s \ {Taken(s)}]]
      BY <3>1
    <3>. QED
      BY <2>1, <2>2, <3>2
  <2>3. CASE m # 0
    <3>1. m \in Nat /\ m - 1 \in Nat /\ G(m - 1)
      <4>1. m \in Nat /\ m - 1 \in Nat
        BY <2>3
      <4>. HIDE DEF G
      <4>2. m - 1 \in B => m <= m - 1
        BY <2>1
      <4>3. m - 1 \notin B
        BY <4>1, <4>2
      <4>. QED
        BY <4>1, <4>3
    <3>2. PICK g : g = [s \in L(m - 1) |->
                          IF s = {} THEN 0 ELSE f[Taken(s)] + g[s \ {Taken(s)}]]
      BY <3>1
    <3>. DEFINE h == [s \in L(m) |-> IF s = {} THEN 0 ELSE f[Taken(s)] + g[s \ {Taken(s)}]]
    <3>3. \A s \in L(m) : s # {} => s \ {Taken(s)} \in L(m - 1) /\ s \ {Taken(s)} \in L(m)
      BY <1>1, <1>2, <3>1
    <3>4. \A s \in L(m - 1) : s \in L(m) /\ g[s] = h[s]
      <4>1. \A s \in L(m - 1) : s \in L(m)
        BY <1>1, <3>1
      <4>. QED
        BY <3>2, <4>1
    <3>5. h = [s \in L(m) |-> IF s = {} THEN 0 ELSE f[Taken(s)] + h[s \ {Taken(s)}]]
      <4>. HIDE DEF L
      <4>1. \A s \in L(m) : h[s] = IF s = {} THEN 0 ELSE f[Taken(s)] + g[s \ {Taken(s)}]
        OBVIOUS
      <4>. HIDE DEF h
      <4>2. \A s \in L(m) : s # {} => g[s \ {Taken(s)}] = h[s \ {Taken(s)}]
        BY <3>3, <3>4
      <4>3. \A s \in L(m) : h[s] = IF s = {} THEN 0 ELSE f[Taken(s)] + h[s \ {Taken(s)}]
        BY <4>1, <4>2
      <4>4. h = [s \in L(m) |-> h[s]]
        BY DEF h
      <4>. QED
        BY <4>3, <4>4
    <3>. QED
      BY <2>1, <3>5
  <2>. QED
    BY <2>2, <2>3
<1>4. L(Cardinality(S)) = SUBSET S /\ DOMAIN f = S
  BY <1>1, FS_Subset
<1>5. Cardinality(S) \in Nat
  BY FS_CardinalityType
<1>. HIDE DEF L
<1>6. G(Cardinality(S))
  BY <1>3, <1>5
<1>. QED
  BY <1>4, <1>6 DEF IsSum

(* The fold of the library is that function. *)
LEMMA SumIs ==
    ASSUME NEW S, IsFiniteSet(S), NEW f \in [S -> Int]
    PROVE  \E h : IsSum(h, f) /\ SumFunction(f) = h[S]
<1>. DEFINE iter == CHOOSE h : IsSum(h, f)
<1>1. SumFunction(f) = iter[DOMAIN f]
  BY DEF SumFunction, SumFunctionOnSet, FoldFunctionOnSet, MapThenFoldSet, IsSum, Taken
<1>2. IsSum(iter, f)
  BY SumExists
<1>. QED
  BY <1>1, <1>2

(* The equations of the fold. *)
LEMMA SumFacts ==
    ASSUME NEW S, IsFiniteSet(S), NEW f \in [S -> Int], NEW h, IsSum(h, f)
    PROVE  /\ h \in [SUBSET S -> Int] /\ h[{}] = 0
           /\ \A s \in SUBSET S : s # {} =>
                 /\ Taken(s) \in s /\ s \ {Taken(s)} \in SUBSET S
                 /\ h[s] = f[Taken(s)] + h[s \ {Taken(s)}]
<1>1. /\ DOMAIN h = SUBSET S /\ h[{}] = 0
      /\ \A s \in SUBSET S : s # {} => h[s] = f[Taken(s)] + h[s \ {Taken(s)}]
  BY DEF IsSum
<1>2. \A s \in SUBSET S : s # {} => Taken(s) \in s /\ s \ {Taken(s)} \in SUBSET S
  BY DEF Taken
<1>. DEFINE Q == {s \in SUBSET S : h[s] \in Int}
<1>3. {} \in Q
  BY <1>1
<1>4. ASSUME NEW s \in SUBSET S, s # {}, \A x \in s : s \ {x} \in Q PROVE s \in Q
  <2>1. Taken(s) \in S /\ s \ {Taken(s)} \in Q
    BY <1>2, <1>4
  <2>2. f[Taken(s)] \in Int /\ h[s \ {Taken(s)}] \in Int
    BY <2>1
  <2>. QED
    BY <1>1, <1>4, <2>2
<1>. HIDE DEF Q
<1>5. SUBSET S \subseteq Q
  BY <1>3, <1>4, SubsetInduction
<1>6. \A s \in SUBSET S : h[s] \in Int
  BY <1>5 DEF Q
<1>7. h \in [SUBSET S -> Int]
  <2>1. h = [s \in SUBSET S |-> h[s]]
    BY DEF IsSum
  <2>. QED
    BY <1>6, <2>1
<1>. QED
  BY <1>1, <1>2, <1>7

(* What the proofs below use of the fold. *)
IsFold(S, f, h) ==
    /\ SumFunction(f) = h[S] /\ h \in [SUBSET S -> Int] /\ h[{}] = 0
    /\ \A s \in SUBSET S : s # {} =>
          /\ Taken(s) \in s /\ s \ {Taken(s)} \in SUBSET S
          /\ h[s] = f[Taken(s)] + h[s \ {Taken(s)}]

(* SumFunction is such a fold. *)
LEMMA SumFold ==
    ASSUME NEW S, IsFiniteSet(S), NEW f \in [S -> Int]
    PROVE  \E h : IsFold(S, f, h)
<1>1. PICK h : IsSum(h, f) /\ SumFunction(f) = h[S]
  BY SumIs
<1>2. /\ h \in [SUBSET S -> Int] /\ h[{}] = 0
      /\ \A s \in SUBSET S : s # {} =>
            /\ Taken(s) \in s /\ s \ {Taken(s)} \in SUBSET S
            /\ h[s] = f[Taken(s)] + h[s \ {Taken(s)}]
  BY <1>1, SumFacts
<1>. QED
  BY <1>1, <1>2 DEF IsFold

(* Integers add up to an integer. *)
LEMMA SumType ==
    ASSUME NEW S, IsFiniteSet(S), NEW f \in [S -> Int]
    PROVE  SumFunction(f) \in Int
<1>1. PICK h : IsFold(S, f, h)
  BY SumFold
<1>. QED
  BY <1>1 DEF IsFold

(* Changing one term changes the sum by the difference. *)
LEMMA SumChange ==
    ASSUME NEW S, IsFiniteSet(S), NEW f \in [S -> Int], NEW e \in [S -> Int],
           NEW t \in S, \A x \in S : x # t => e[x] = f[x]
    PROVE  SumFunction(e) = SumFunction(f) - f[t] + e[t]
<1>. PICK v \in Int : v = e[t]
  OBVIOUS
<1>0. e[t] = v /\ f[t] \in Int /\ \A x \in S : x # t => e[x] = f[x]
  OBVIOUS
<1>1. PICK h : IsFold(S, f, h)
  BY SumFold
<1>2. PICK g : IsFold(S, e, g)
  BY SumFold
<1>. DEFINE Q == {s \in SUBSET S : g[s] = h[s] + (IF t \in s THEN v - f[t] ELSE 0)}
<1>5. {} \in Q
  <2>1. h[{}] = 0 /\ g[{}] = 0 /\ t \notin {}
    BY <1>1, <1>2 DEF IsFold
  <2>2. g[{}] = h[{}] + (IF t \in {} THEN v - f[t] ELSE 0)
    BY <2>1
  <2>. QED
    BY <2>2
<1>6. ASSUME NEW s \in SUBSET S, s # {}, \A x \in s : s \ {x} \in Q PROVE s \in Q
  <2>. DEFINE x == Taken(s)  r == s \ {Taken(s)}
  <2>1. x \in s /\ x \in S /\ r \in Q /\ r \in SUBSET S
    BY <1>1, <1>2, <1>6 DEF IsFold
  <2>2. h[s] = f[x] + h[r] /\ g[s] = e[x] + g[r]
    BY <1>1, <1>2, <1>6 DEF IsFold
  <2>3. h[r] \in Int /\ g[r] \in Int /\ f[x] \in Int /\ h[s] \in Int
    BY <1>1, <1>2, <2>1 DEF IsFold
  <2>4. CASE x = t
    <3>1. t \notin r /\ t \in s
      BY <2>1, <2>4
    <3>2. g[r] = h[r]
      BY <2>1, <2>3, <3>1
    <3>3. g[s] = h[s] + (v - f[t])
      BY <1>0, <2>2, <2>3, <2>4, <3>2
    <3>. QED
      BY <3>1, <3>3
  <2>5. CASE x # t
    <3>1. (t \in r) = (t \in s) /\ e[x] = f[x]
      BY <1>0, <2>1, <2>5
    <3>2. g[r] = h[r] + (IF t \in s THEN v - f[t] ELSE 0)
      BY <2>1, <3>1
    <3>3. g[s] = h[s] + (IF t \in s THEN v - f[t] ELSE 0)
      BY <1>0, <2>2, <2>3, <3>1, <3>2
    <3>. QED
      BY <3>3
  <2>. QED
    BY <2>4, <2>5
<1>. HIDE DEF Q
<1>7. SUBSET S \subseteq Q
  BY <1>5, <1>6, SubsetInduction
<1>8. g[S] = h[S] + (v - f[t])
  BY <1>7 DEF Q
<1>. QED
  BY <1>0, <1>1, <1>2, <1>8 DEF IsFold

(* Larger terms, larger sum. *)
LEMMA SumLeq ==
    ASSUME NEW S, IsFiniteSet(S), NEW f \in [S -> Int], NEW e \in [S -> Int],
           \A x \in S : f[x] <= e[x]
    PROVE  SumFunction(f) <= SumFunction(e)
<1>1. PICK h : IsFold(S, f, h)
  BY SumFold
<1>2. PICK g : IsFold(S, e, g)
  BY SumFold
<1>. DEFINE Q == {s \in SUBSET S : h[s] <= g[s]}
<1>3. {} \in Q
  BY <1>1, <1>2 DEF IsFold
<1>4. ASSUME NEW s \in SUBSET S, s # {}, \A x \in s : s \ {x} \in Q PROVE s \in Q
  <2>. DEFINE x == Taken(s)  r == s \ {Taken(s)}
  <2>1. x \in s /\ x \in S /\ r \in Q /\ r \in SUBSET S
    BY <1>1, <1>2, <1>4 DEF IsFold
  <2>2. h[s] = f[x] + h[r] /\ g[s] = e[x] + g[r]
    BY <1>1, <1>2, <1>4 DEF IsFold
  <2>3. h[r] \in Int /\ g[r] \in Int /\ f[x] \in Int /\ e[x] \in Int
    BY <1>1, <1>2, <2>1 DEF IsFold
  <2>4. h[r] <= g[r] /\ f[x] <= e[x]
    BY <2>1
  <2>. HIDE DEF x, r
  <2>5. h[s] <= g[s]
    BY <2>2, <2>3, <2>4
  <2>. QED
    BY <2>5
<1>. HIDE DEF Q
<1>5. SUBSET S \subseteq Q
  BY <1>3, <1>4, SubsetInduction
<1>. QED
  BY <1>1, <1>2, <1>5 DEF Q, IsFold

(* Equal terms. *)
LEMMA SumConstant ==
    ASSUME NEW S, IsFiniteSet(S), NEW f \in [S -> Int], NEW c \in Int,
           \A x \in S : f[x] = c
    PROVE  SumFunction(f) = Cardinality(S) * c
<1>1. PICK h : IsFold(S, f, h)
  BY SumFold
<1>2. \A s \in SUBSET S : IsFiniteSet(s) /\ Cardinality(s) \in Nat
  BY FS_Subset, FS_CardinalityType
<1>. DEFINE Q == {s \in SUBSET S : h[s] = Cardinality(s) * c}
<1>3. {} \in Q
  BY <1>1, FS_EmptySet DEF IsFold
<1>4. ASSUME NEW s \in SUBSET S, s # {}, \A x \in s : s \ {x} \in Q PROVE s \in Q
  <2>1. PICK x \in s : h[s] = f[x] + h[s \ {x}] /\ s \ {x} \in Q
    BY <1>1, <1>4 DEF IsFold
  <2>2. PICK m \in Nat : m = Cardinality(s \ {x}) /\ Cardinality(s) = m + 1
    <3>1. Cardinality(s \ {x}) = Cardinality(s) - 1 /\ Cardinality(s \ {x}) \in Nat
      BY <1>2, FS_RemoveElement
    <3>. QED
      BY <1>2, <3>1
  <2>3. h[s \ {x}] = m * c /\ f[x] = c
    BY <2>1, <2>2
  <2>4. (m + 1) * c = c + m * c
    OBVIOUS
  <2>. QED
    BY <2>1, <2>2, <2>3, <2>4
<1>. HIDE DEF Q
<1>5. SUBSET S \subseteq Q
  BY <1>3, <1>4, SubsetInduction
<1>. QED
  BY <1>1, <1>5 DEF Q, IsFold

(* A sum of terms that are not negative is at least each of them.           *)
LEMMA SumAtLeast ==
    ASSUME NEW S, IsFiniteSet(S), NEW f \in [S -> Int], \A x \in S : 0 <= f[x]
    PROVE  0 <= SumFunction(f) /\ \A t \in S : f[t] <= SumFunction(f)
<1>. DEFINE z == [x \in S |-> 0]
<1>0. z \in [S -> Int] /\ \A x \in S : z[x] = 0
  OBVIOUS
<1>. HIDE DEF z
<1>2. SumFunction(z) = 0
  <2>1. SumFunction(z) = Cardinality(S) * 0
    BY <1>0, SumConstant
  <2>. QED
    BY <2>1, FS_CardinalityType
<1>3. 0 <= SumFunction(f)
  BY <1>0, <1>2, SumLeq
<1>4. ASSUME NEW t \in S PROVE f[t] <= SumFunction(f)
  <2>. DEFINE e == [f EXCEPT ![t] = 0]
  <2>1. e \in [S -> Int] /\ e[t] = 0 /\ \A x \in S : x # t => e[x] = f[x]
    OBVIOUS
  <2>. HIDE DEF e
  <2>2. SumFunction(e) = SumFunction(f) - f[t] + e[t]
    BY <2>1, SumChange
  <2>3. \A x \in S : z[x] <= e[x]
    BY <1>0, <2>1
  <2>4. 0 <= SumFunction(e)
    BY <1>0, <1>2, <2>1, <2>3, SumLeq
  <2>5. SumFunction(f) \in Int /\ f[t] \in Int
    BY SumType
  <2>. QED
    BY <2>1, <2>2, <2>4, <2>5
<1>. QED
  BY <1>3, <1>4

(* Terms of at most c: all but one of them add up to |S| - 1 times c.       *)
LEMMA SumOthers ==
    ASSUME NEW S, IsFiniteSet(S), NEW f \in [S -> Int], NEW c \in Nat,
           \A x \in S : f[x] <= c, NEW t \in S
    PROVE  SumFunction(f) - f[t] <= (Cardinality(S) - 1) * c
<1>. DEFINE z == [x \in S |-> c]
<1>0. z \in [S -> Int] /\ \A x \in S : z[x] = c
  OBVIOUS
<1>. HIDE DEF z
<1>1. SumFunction(z) = Cardinality(S) * c
  BY <1>0, SumConstant
<1>. DEFINE e == [f EXCEPT ![t] = c]
<1>2. e \in [S -> Int] /\ e[t] = c /\ \A x \in S : x # t => e[x] = f[x]
  OBVIOUS
<1>. HIDE DEF e
<1>3. SumFunction(e) = SumFunction(f) - f[t] + e[t]
  BY <1>2, SumChange
<1>4. \A x \in S : e[x] <= z[x]
  BY <1>0, <1>2
<1>5. SumFunction(e) <= SumFunction(z)
  BY <1>0, <1>2, <1>4, SumLeq
<1>6. SumFunction(f) \in Int /\ f[t] \in Int /\ Cardinality(S) \in Nat
  BY SumType, FS_CardinalityType
<1>7. PICK p \in Int : p = Cardinality(S) * c /\ (Cardinality(S) - 1) * c = p - c
  BY <1>6
<1>. QED
  BY <1>1, <1>2, <1>3, <1>5, <1>6, <1>7

-----------------------------------------------------------------------------
(* Accounting of _used for the calls that keep it.  Owed is what a thread   *)
(* has changed in the dictionary and not yet in _used, Reserved what it has *)
(* been granted and not yet added to _used; every step changes the term of  *)
(* one thread, the size of one key or _used, and keeps both sums in balance.*)

(* The calls of UsedAccounted.  Cas and Mutate change the length of an      *)
(* entry and not _used, Clear leaves _used as it is, and Store and Replace  *)
(* read a length that may have changed when they write.                     *)
AccountedOps == {"Add", "Append", "Touch", "Remove", "Retrieve", "Get", "RemoveExpired",
                 "CurrentState"}

Growing == {"Add", "Append"}

(* What holds of a thread at label at, in call r, with locals l. *)
AccountAt(at, r, l) ==
    /\ at \notin {"contains", "size", "write", "rContains", "rSize", "rSubtract", "clear"}
    /\ at \in {"space", "evict", "tryAdd", "used"} => r.op \in Growing
    /\ at = "inc" => r.op \in {"Add", "Append", "Touch"}
    /\ r.op \in Growing => l.n = r.data.len
    /\ at = "rmUsed" => l.vlen \in Nat

AccountControl(t) ==
    pc[t] # "idle" => req[t] \in Requests[t] /\ AccountAt(pc[t], req[t], loc[t])

(* The bytes a thread has been granted by MakeSpaceForNewEntry and has not  *)
(* added to _used.                                                          *)
Reserved(t) ==
    IF pc[t] \in {"inc", "tryAdd", "loopRead", "loopSwap", "used"} /\ req[t].op \in Growing
    THEN loc[t].n ELSE 0

ReservedBounded ==
    Counted + SumFunction([t \in Threads |-> Reserved(t)])
        <= Ceiling + (Cardinality(Threads) - 1) * LongestData

AccountInv ==
    /\ TypeInv
    /\ \A t \in Threads : AccountControl(t)
    /\ UsedAccounted /\ ReservedBounded

(* The assumptions of the theorems below: finitely many threads and keys,   *)
(* only the calls whose accounting is exact, data no larger than the cache  *)
(* (SetHandler refuses the rest), and data not so long that one entry for   *)
(* each thread overflows an int.  The capacity may be anything; where it is *)
(* above 2^31, as by default, the last conjunct asks for the longest entry, *)
(* once for each thread and once more, to stay within 2^31.                 *)
Accountable ==
    /\ IsFiniteSet(Threads) /\ IsFiniteSet(Keys)
    /\ \E t \in Threads : Requests[t] # {}
    /\ \A t \in Threads : \A r \in Requests[t] :
           r.op \in AccountedOps /\ r.data.len <= Capacity
    /\ Cardinality(Threads) * LongestData <= IntHalf
    /\ Ceiling + Cardinality(Threads) * LongestData < 2 * IntHalf

(* LongestData bounds the data of every call. *)
LEMMA LongestFacts ==
    ASSUME Accountable
    PROVE  /\ LongestData \in Nat
           /\ \A t \in Threads : \A r \in Requests[t] : r.data.len <= LongestData
<1>. DEFINE lengths == UNION {{r.data.len : r \in Requests[t]} : t \in Threads}
            U == {c \in Nat : \A l \in lengths : l <= c}
<1>1. lengths \in SUBSET Nat /\ lengths # {} /\ \A l \in lengths : l <= Capacity
  <2>1. \A t \in Threads : \A r \in Requests[t] : r.data.len \in Nat /\ r.data.len <= Capacity
    BY RequestsAssumption DEF Accountable, Request, Data
  <2>2. \A l \in lengths : \E t \in Threads : \E r \in Requests[t] : l = r.data.len
    OBVIOUS
  <2>3. lengths # {}
    <3>1. PICK t \in Threads : Requests[t] # {}
      BY DEF Accountable
    <3>2. PICK r : r \in Requests[t]
      BY <3>1
    <3>3. r.data.len \in lengths
      BY <3>2
    <3>. QED
      BY <3>3
  <2>. QED
    BY <2>1, <2>2, <2>3
<1>2. \A t \in Threads : \A r \in Requests[t] : r.data.len \in lengths
  OBVIOUS
<1>3. LongestData = CHOOSE m \in lengths : \A l \in lengths : l <= m
  BY DEF LongestData
<1>. HIDE DEF lengths
<1>4. U \in SUBSET Nat /\ U # {}
  BY <1>1, SizesAssumption
<1>5. PICK m \in U : \A n \in U : m <= n
  BY <1>4, LeastElement
<1>6. m \in lengths
  <2>1. CASE m = 0
    <3>1. PICK l \in lengths : l \in Nat /\ l <= m
      BY <1>1
    <3>2. l = m
      BY <2>1, <3>1
    <3>. QED
      BY <3>2
  <2>2. CASE m # 0
    <3>1. SUFFICES ASSUME m \notin lengths PROVE FALSE
      OBVIOUS
    <3>2. \A l \in lengths : l <= m - 1
      BY <1>1, <1>5, <3>1
    <3>3. m - 1 \in U
      BY <2>2, <3>2
    <3>. QED
      BY <1>5, <3>3
  <2>. QED
    BY <2>1, <2>2
<1>7. LongestData \in lengths /\ \A l \in lengths : l <= LongestData
  BY <1>5, <1>6, <1>3
<1>. QED
  BY <1>1, <1>7, <1>2

(* The terms of the three sums. *)
Size(e) == IF e = Nil THEN 0 ELSE e.data.len

Sizes == [k \in Keys |-> IF cache[k] = Nil THEN 0 ELSE cache[k].data.len]
Owes == [u \in Threads |-> Owed(u)]
Reserves == [u \in Threads |-> Reserved(u)]

(* The terms are integers, and what is owed is at most what is reserved. *)
LEMMA TermTypes ==
    ASSUME Accountable, AccountInv
    PROVE  /\ Sizes \in [Keys -> Nat] /\ Sizes \in [Keys -> Int]
           /\ Owes \in [Threads -> Int] /\ Reserves \in [Threads -> Int]
           /\ used \in Int /\ SumFunction(Sizes) \in Int
           /\ SumFunction(Owes) \in Int /\ SumFunction(Reserves) \in Int
           /\ Counted \in Int /\ used = Wrap(Counted)
           /\ Counted = SumFunction(Sizes) - SumFunction(Owes)
           /\ Counted + SumFunction(Reserves)
                  <= Ceiling + (Cardinality(Threads) - 1) * LongestData
           /\ \A u \in Threads :
                 /\ Owed(u) \in Int /\ Reserved(u) \in Nat
                 /\ Owed(u) <= Reserved(u) /\ Reserved(u) <= LongestData
<1>1. /\ loc \in [Threads -> Local] /\ cache \in [Keys -> EntryOrNil] /\ used \in Int
      /\ \A u \in Threads : pc[u] # "idle" => req[u] \in Request
  BY ThreadFacts DEF AccountInv, TypeInv, TypeOK, ThreadsOK, SharedOK
<1>2. \A k \in Keys : Sizes[k] \in Nat
  BY <1>1 DEF Sizes, EntryOrNil, Entry, Data
<1>3. ASSUME NEW u \in Threads
      PROVE  /\ Owed(u) \in Int /\ Reserved(u) \in Nat
             /\ Owed(u) <= Reserved(u) /\ Reserved(u) <= LongestData
  <2>1. loc[u].n \in Int /\ loc[u].vlen \in Int /\ LongestData \in Nat
    BY <1>1, LongestFacts DEF Local
  <2>2. pc[u] # "idle" => req[u] \in Requests[u] /\ AccountAt(pc[u], req[u], loc[u])
    BY DEF AccountInv, AccountControl
  <2>3. (pc[u] # "idle" /\ req[u].op \in Growing)
           => loc[u].n \in Nat /\ loc[u].n <= LongestData
    BY <1>1, <2>2, LongestFacts DEF AccountAt, Request, Data
  <2>. QED
    BY <2>1, <2>2, <2>3 DEF Owed, Reserved, AccountAt
<1>4. /\ Sizes \in [Keys -> Nat] /\ Sizes \in [Keys -> Int]
      /\ Owes \in [Threads -> Int] /\ Reserves \in [Threads -> Int]
  BY <1>2, <1>3 DEF Sizes, Owes, Reserves
<1>5. /\ SumFunction(Sizes) \in Int /\ SumFunction(Owes) \in Int
      /\ SumFunction(Reserves) \in Int
  BY <1>4, SumType DEF Accountable
<1>6. Counted = SumFunction(Sizes) - SumFunction(Owes)
  BY DEF Counted, Bytes, Sizes, Owes
<1>. QED
  BY <1>1, <1>3, <1>4, <1>5, <1>6
     DEF AccountInv, UsedAccounted, ReservedBounded, Reserves

(* What a single thread may fill is not above the capacity, nor above one   *)
(* entry more than the ints.                                                *)
LEMMA CeilingFacts ==
    ASSUME Accountable
    PROVE  /\ Ceiling \in Nat
           /\ \A c \in Int : (c <= Capacity /\ c < IntHalf + LongestData) => c <= Ceiling
<1>. QED
  BY LongestFacts, SizesAssumption DEF Ceiling

(* The other threads owe and have reserved at most an entry each, so what   *)
(* is counted stays where an int tells its values apart.                    *)
LEMMA CountedRange ==
    ASSUME Accountable, AccountInv, NEW t \in Threads
    PROVE  /\ -IntHalf <= Counted /\ Counted + LongestData < 2 * IntHalf
           /\ -IntHalf <= Counted + Owed(t) /\ Counted + Owed(t) < 2 * IntHalf
<1>1. PICK s \in [Keys -> Int], o \in [Threads -> Int], r \in [Threads -> Int] :
         s = Sizes /\ o = Owes /\ r = Reserves
  BY TermTypes
<1>0. PICK N \in Nat, L \in Nat, C \in Nat :
         N = Cardinality(Threads) /\ L = LongestData /\ C = Ceiling
  BY LongestFacts, CeilingFacts, FS_CardinalityType DEF Accountable
<1>d. PICK c \in Int : c = Counted
  BY TermTypes
<1>8. PICK p \in Int : p = N * L /\ (N - 1) * L = p - L
  BY <1>0
<1>2. IntHalf \in Nat /\ p <= IntHalf /\ C + p < 2 * IntHalf
  BY <1>0, <1>8, SizesAssumption DEF Accountable
<1>3. /\ SumFunction(s) \in Int /\ SumFunction(o) \in Int /\ SumFunction(r) \in Int
      /\ c = SumFunction(s) - SumFunction(o) /\ c + SumFunction(r) <= C + (N - 1) * L
      /\ \A k \in Keys : 0 <= s[k]
      /\ \A u \in Threads : /\ o[u] = Owed(u) /\ r[u] = Reserved(u)
                            /\ o[u] <= r[u] /\ 0 <= r[u] /\ r[u] <= L
  BY <1>0, <1>1, <1>d, TermTypes DEF Owes, Reserves
<1>4. 0 <= SumFunction(s)
  BY <1>3, SumAtLeast DEF Accountable
<1>5. r[t] <= SumFunction(r)
  BY <1>3, SumAtLeast DEF Accountable
<1>6. \A u \in Threads : o[u] <= L
  BY <1>0, <1>3
<1>7. SumFunction(o) - o[t] <= (N - 1) * L
  BY <1>0, <1>6, SumOthers DEF Accountable
<1>9. o[t] \in Int /\ r[t] \in Int /\ o[t] <= r[t] /\ 0 <= r[t] /\ o[t] <= L /\ o[t] = Owed(t)
  BY <1>3, <1>6
<1>10. c + o[t] >= L - p /\ c >= - p
  BY <1>3, <1>4, <1>7, <1>8, <1>9
<1>11. c + o[t] <= C + p - L /\ c <= C + p - L
  BY <1>3, <1>5, <1>8, <1>9
<1>. QED
  BY <1>0, <1>2, <1>9, <1>10, <1>11, <1>d

(* Adding to an int that has wrapped around. *)
LEMMA WrapSum ==
    ASSUME NEW c \in Int, NEW d \in Int, -IntHalf <= c, c < 2 * IntHalf,
           -IntHalf <= c + d, c + d < 2 * IntHalf
    PROVE  Wrap(Wrap(c) + d) = Wrap(c + d)
  BY SizesAssumption DEF Wrap

(* What a step of a thread does.  Either _used stays as it is, and the      *)
(* thread owes more by as much as the dictionary has grown, and it has no   *)
(* more reserved or has just found space for it; or the thread adds to      *)
(* _used what it owes.                                                      *)
Balanced(t) ==
    \E d \in Int : /\ SumFunction(Sizes)' = SumFunction(Sizes) + d
                   /\ Owed(t)' = Owed(t) + d

Granted(t) ==
    \/ Reserved(t)' <= Reserved(t)
    \/ HasAvailableSpace(Reserved(t)')

Settled(t) ==
    /\ used' = Wrap(used + Owed(t)) /\ SumFunction(Sizes)' = SumFunction(Sizes)
    /\ Owed(t)' = 0 /\ Reserved(t)' + Owed(t) <= Reserved(t)

Accounts(t) ==
    \/ used' = used /\ Balanced(t) /\ Granted(t)
    \/ Settled(t)

AccountEffect(t) ==
    /\ Alone(t) /\ AccountAt(pc'[t], req[t], loc'[t])
    /\ Accounts(t)

(* Such an effect keeps the accounts. *)
LEMMA AccountStep ==
    ASSUME NEW t \in Threads, Accountable, AccountInv, TypeInv',
           \A u \in Threads : AccountControl(u)',
           \A u \in Threads : u # t => Owed(u)' = Owed(u) /\ Reserved(u)' = Reserved(u),
           Accounts(t)
    PROVE  AccountInv'
<1>1. PICK s \in [Keys -> Int], o \in [Threads -> Int], r \in [Threads -> Int] :
         s = Sizes /\ o = Owes /\ r = Reserves
  BY TermTypes
<1>2. PICK N \in Nat, L \in Nat, C \in Nat :
         N = Cardinality(Threads) /\ L = LongestData /\ C = Ceiling
  BY LongestFacts, CeilingFacts, FS_CardinalityType DEF Accountable
<1>d. PICK c \in Int : c = Counted
  BY TermTypes
<1>3. /\ used = Wrap(c) /\ SumFunction(s) \in Int /\ SumFunction(o) \in Int
      /\ SumFunction(r) \in Int /\ Capacity \in Nat /\ IntHalf \in Nat
      /\ c = SumFunction(s) - SumFunction(o)
      /\ c + SumFunction(r) <= C + (N - 1) * L
      /\ \A u \in Threads : /\ o[u] = Owed(u) /\ r[u] = Reserved(u) /\ r[u] <= L
  BY <1>1, <1>2, <1>d, TermTypes, SizesAssumption DEF Owes, Reserves
<1>r. /\ -IntHalf <= c /\ c + L < 2 * IntHalf
      /\ -IntHalf <= c + o[t] /\ c + o[t] < 2 * IntHalf
  BY <1>2, <1>3, <1>d, CountedRange
<1>4. \A u \in Threads : Owed(u)' \in Int /\ Reserved(u)' \in Int
  <2>1. \A u \in Threads : loc'[u].n \in Int /\ loc'[u].vlen \in Int
    BY DEF TypeInv, TypeOK, ThreadsOK, Local
  <2>. QED
    BY <2>1 DEF Owed, Reserved
<1>l. Reserved(t)' <= L
  <2>1. /\ pc'[t] # "idle" => req'[t] \in Requests[t] /\ AccountAt(pc'[t], req'[t], loc'[t])
        /\ \A x \in Requests[t] : x.data.len <= L
    BY <1>2, LongestFacts DEF AccountControl
  <2>. QED
    BY <1>2, <2>1 DEF Reserved, AccountAt
<1>5. PICK oo \in [Threads -> Int] : oo = [u \in Threads |-> Owed(u)']
  BY <1>4
<1>6. PICK rr \in [Threads -> Int] : rr = [u \in Threads |-> Reserved(u)']
  BY <1>4
<1>7. /\ \A u \in Threads : u # t => oo[u] = o[u]
      /\ \A u \in Threads : u # t => rr[u] = r[u]
      /\ oo[t] = Owed(t)' /\ rr[t] = Reserved(t)'
  BY <1>3, <1>5, <1>6
<1>8. SumFunction(oo) = SumFunction(o) - o[t] + oo[t]
  BY <1>7, SumChange DEF Accountable
<1>9. SumFunction(rr) = SumFunction(r) - r[t] + rr[t]
  BY <1>7, SumChange DEF Accountable
<1>t. o[t] \in Int /\ oo[t] \in Int /\ r[t] \in Int /\ rr[t] \in Int /\ rr[t] <= L /\ r[t] <= L
  BY <1>3, <1>7, <1>l
<1>c. Counted' = SumFunction(Sizes)' - SumFunction(oo)
  BY <1>5 DEF Counted, Bytes, Sizes
<1>p. PICK p \in Int : p = (N - 1) * L
  BY <1>2
<1>10. used' = Wrap(Counted') /\ Counted' + SumFunction(rr) <= C + p
  <2>1. CASE used' = used /\ Balanced(t) /\ Granted(t)
    <3>1. PICK d \in Int : SumFunction(Sizes)' = SumFunction(s) + d /\ oo[t] = o[t] + d
      BY <1>1, <1>3, <1>7, <2>1 DEF Balanced
    <3>2. Counted' = c
      BY <1>3, <1>8, <1>c, <1>t, <3>1
    <3>3. CASE rr[t] <= r[t]
      BY <1>3, <1>9, <1>p, <1>t, <2>1, <3>2, <3>3
    <3>4. CASE HasAvailableSpace(Reserved(t)')
      <4>1. Wrap(c) + rr[t] \in 0..Capacity
        BY <1>3, <1>7, <3>4 DEF HasAvailableSpace
      <4>2. c < IntHalf /\ Wrap(c) = c
        BY <1>2, <1>3, <1>r, <1>t, <4>1 DEF Wrap
      <4>3. c + rr[t] <= Capacity /\ c + rr[t] < IntHalf + L /\ c + rr[t] \in Int
        BY <1>2, <1>3, <1>t, <4>1, <4>2
      <4>4. c + rr[t] <= C
        BY <1>2, <4>3, CeilingFacts
      <4>5. SumFunction(r) - r[t] <= (N - 1) * L
        BY <1>2, <1>3, SumOthers DEF Accountable
      <4>6. SumFunction(rr) = SumFunction(r) - r[t] + rr[t] /\ SumFunction(r) - r[t] <= p
        BY <1>9, <1>p, <4>5
      <4>7. c + SumFunction(rr) <= C + p
        <5>. QED
          BY <1>3, <1>t, <4>4, <4>6
      <4>. QED
        BY <1>3, <2>1, <3>2, <4>7
    <3>. QED
      BY <1>3, <1>7, <2>1, <3>3, <3>4 DEF Granted
  <2>2. CASE Settled(t)
    <3>1. /\ used' = Wrap(Wrap(c) + o[t]) /\ SumFunction(Sizes)' = SumFunction(s)
          /\ oo[t] = 0 /\ rr[t] + o[t] <= r[t]
      BY <1>1, <1>3, <1>7, <2>2 DEF Settled
    <3>2. Counted' = c + o[t]
      BY <1>2, <1>3, <1>8, <1>c, <1>t, <3>1
    <3>3. used' = Wrap(c + o[t])
      BY <1>2, <1>3, <1>r, <1>t, <3>1, WrapSum
    <3>. QED
      BY <1>2, <1>3, <1>9, <1>p, <1>t, <3>1, <3>2, <3>3
  <2>. QED
    BY <2>1, <2>2 DEF Accounts
<1>12. UsedAccounted'
  BY <1>10 DEF UsedAccounted
<1>13. ReservedBounded'
  BY <1>2, <1>6, <1>10, <1>p DEF ReservedBounded
<1>. QED
  BY <1>12, <1>13 DEF AccountInv

(* The dictionary changes at one key. *)
LEMMA SizeChange ==
    ASSUME Accountable, TypeInv, NEW k \in Keys, NEW e \in EntryOrNil,
           cache' = [cache EXCEPT ![k] = e]
    PROVE  SumFunction(Sizes)' = SumFunction(Sizes) - Size(cache[k]) + Size(e)
<1>1. cache \in [Keys -> EntryOrNil]
  BY DEF TypeInv, TypeOK, SharedOK
<1>2. \A x \in EntryOrNil : Size(x) \in Int
  BY DEF EntryOrNil, Entry, Data, Size
<1>3. PICK s \in [Keys -> Int] : s = Sizes
  BY <1>1, <1>2 DEF Sizes, Size
<1>4. PICK z \in [Keys -> Int] : z = Sizes'
  BY <1>1, <1>2 DEF Sizes, Size
<1>5. /\ \A x \in Keys : x # k => z[x] = s[x]
      /\ s[k] = Size(cache[k]) /\ z[k] = Size(e)
  BY <1>1, <1>3, <1>4 DEF Sizes, Size
<1>6. SumFunction(z) = SumFunction(s) - s[k] + z[k]
  BY <1>5, SumChange DEF Accountable
<1>. QED
  BY <1>3, <1>4, <1>5, <1>6

(* What the steps below need to know of the thread that moves. *)
LEMMA AccountFacts ==
    ASSUME NEW t \in Threads, Accountable, AccountInv
    PROVE  /\ loc \in [Threads -> Local] /\ pc \in [Threads -> Labels] /\ loc[t] \in Local
           /\ cache \in [Keys -> EntryOrNil] /\ used \in Int /\ Control(t) /\ TypeInv
           /\ SumFunction(Sizes) \in Int /\ Owed(t) \in Int /\ Reserved(t) \in Nat
           /\ pc[t] # "idle" => /\ req[t] \in Request /\ req[t].key \in Keys
                                /\ req[t].op \in AccountedOps
                                /\ AccountAt(pc[t], req[t], loc[t])
<1>1. /\ used \in Int /\ SumFunction(Sizes) \in Int /\ Owed(t) \in Int
      /\ Reserved(t) \in Nat
  BY TermTypes
<1>2. /\ loc \in [Threads -> Local] /\ pc \in [Threads -> Labels] /\ loc[t] \in Local
      /\ cache \in [Keys -> EntryOrNil] /\ Control(t) /\ TypeInv
  BY ThreadFacts DEF AccountInv, TypeInv, TypeOK, ThreadsOK, SharedOK
<1>3. pc[t] # "idle" => /\ req[t] \in Request /\ req[t].key \in Keys
                        /\ req[t].op \in AccountedOps
                        /\ AccountAt(pc[t], req[t], loc[t])
  BY ThreadFacts DEF AccountInv, AccountControl, Accountable
<1>. QED
  BY <1>1, <1>2, <1>3

(* Steps that touch neither the dictionary nor _used, by threads that owe   *)
(* nothing before and after.                                                *)
Still(t) ==
    /\ Alone(t) /\ UNCHANGED <<cache, used>>
    /\ pc[t] \notin {"used", "rmUsed"} /\ pc'[t] \notin {"used", "rmUsed"}
    /\ AccountAt(pc'[t], req[t], loc'[t])

(* Such a step has that effect. *)
LEMMA StillEffect ==
    ASSUME NEW t \in Threads, Accountable, AccountInv, TypeInv', Still(t), Granted(t)
    PROVE  AccountEffect(t)
<1>1. SumFunction(Sizes)' = SumFunction(Sizes)
  BY DEF Still, Sizes
<1>2. Owed(t) = 0 /\ Owed(t)' = 0
  BY DEF Still, Owed
<1>3. Balanced(t)
  BY <1>1, <1>2, AccountFacts DEF Balanced
<1>. QED
  BY <1>3 DEF Still, AccountEffect, Accounts

ReserveLabels == {"inc", "tryAdd", "loopRead", "loopSwap", "used"}

(* ... and have no more reserved after it. *)
LEMMA PlainEffect ==
    ASSUME NEW t \in Threads, Accountable, AccountInv, TypeInv', Still(t),
           pc'[t] \in ReserveLabels => pc[t] \in ReserveLabels /\ loc'[t].n = loc[t].n
    PROVE  AccountEffect(t)
<1>1. Reserved(t)' <= Reserved(t)
  <2>1. CASE pc'[t] \in ReserveLabels
    BY <2>1, AccountFacts DEF Still, Alone, Reserved, ReserveLabels
  <2>2. CASE pc'[t] \notin ReserveLabels
    BY <2>2, AccountFacts DEF Still, Reserved, ReserveLabels
  <2>. QED
    BY <2>1, <2>2
<1>2. Granted(t)
  BY <1>1 DEF Granted
<1>. QED
  BY <1>2, StillEffect

(* The steps of the calls that only read. *)
LEMMA AccountReaders ==
    ASSUME NEW t \in Threads, Accountable, AccountInv, TypeInv',
           \/ RetrieveContains(t) \/ RetrieveIndex(t) \/ RetrieveUse(t) \/ GetUse(t)
           \/ GetIndex(t) \/ ScanExpired(t) \/ SweepNext(t)
           \/ SnapshotContents(t) \/ SnapshotSequence(t)
    PROVE  AccountEffect(t)
<1>. USE DEF Move, Goto, Frame
<1>0. /\ loc \in [Threads -> Local] /\ pc \in [Threads -> Labels] /\ loc[t] \in Local
      /\ Alone(t) /\ AccountAt(pc[t], req[t], loc[t])
  BY AccountFacts, AsideReaders DEF Aside, Alone
<1>1. /\ pc[t] \notin ReserveLabels \cup {"rmUsed"}
      /\ pc'[t] \in {"gContains", "gIndex", "gUse", "getIndex", "sweep", "rmInc",
                     "sequence", "done"}
      /\ UNCHANGED <<cache, used>>
  BY <1>0 DEF RetrieveContains, RetrieveIndex, RetrieveUse, GetUse, GetIndex, ScanExpired,
              SweepNext, SnapshotContents, SnapshotSequence, AfterVisit, Finish, LocalStep,
              OnLru, shared, ReserveLabels
<1>2. loc'[t].n = loc[t].n
  <2>1. CASE RetrieveContains(t)
    BY <1>0, <2>1 DEF RetrieveContains, Local
  <2>2. CASE RetrieveIndex(t)
    BY <1>0, <2>2 DEF RetrieveIndex, Finish, Local
  <2>3. CASE RetrieveUse(t)
    BY <1>0, <2>3 DEF RetrieveUse, Finish, Local
  <2>4. CASE GetUse(t) \/ GetIndex(t)
    BY <1>0, <2>4 DEF GetUse, GetIndex, Local
  <2>5. CASE ScanExpired(t)
    <3>1. PICK T : loc' = [loc EXCEPT ![t].todo = T, ![t].snap = cache]
      BY <2>5 DEF ScanExpired
    <3>. QED
      BY <1>0, <3>1 DEF Local
  <2>7. CASE SweepNext(t)
    <3>1. \/ loc' = [loc EXCEPT ![t].result = "ok"]
          \/ \E k : loc' = [loc EXCEPT ![t].cur = k, ![t].todo = loc[t].todo \ {k}]
      BY <1>0, <2>7 DEF SweepNext, Finish
    <3>2. CASE loc' = [loc EXCEPT ![t].result = "ok"]
      BY <1>0, <3>2 DEF Local
    <3>3. ASSUME NEW k, loc' = [loc EXCEPT ![t].cur = k, ![t].todo = loc[t].todo \ {k}]
          PROVE  loc'[t].n = loc[t].n
      BY <1>0, <3>3 DEF Local
    <3>. QED
      BY <3>1, <3>2, <3>3
  <2>6. CASE SnapshotContents(t) \/ SnapshotSequence(t)
    BY <1>0, <2>6 DEF SnapshotContents, SnapshotSequence, Local
  <2>. QED
    BY <2>1, <2>2, <2>3, <2>4, <2>5, <2>6, <2>7
<1>3. AccountAt(pc'[t], req[t], loc'[t])
  BY <1>0, <1>1, <1>2 DEF AccountAt
<1>. QED
  BY <1>0, <1>1, <1>3, PlainEffect DEF Still, ReserveLabels

(* AfterRemove returns to a label where nothing is owed or reserved.        *)
LEMMA AccountAfterRemove ==
    ASSUME NEW t \in Threads, Accountable, AccountInv, TypeInv', NEW result,
           pc[t] \in {"rmTake", "rmQueue"}, Alone(t), UNCHANGED <<cache, used>>,
           AfterRemove(t, result)
    PROVE  AccountEffect(t)
<1>0. /\ loc \in [Threads -> Local] /\ pc \in [Threads -> Labels] /\ loc[t] \in Local
      /\ AccountAt(pc[t], req[t], loc[t]) /\ Control(t) /\ req[t].op \in AccountedOps
  BY AccountFacts
<1>1. pc'[t] \in {"space", "sweep", "done"} /\ (pc'[t] = "space" => lock = t)
  BY <1>0 DEF AfterRemove, Goto, Finish
<1>2. loc'[t].n = loc[t].n
  BY <1>0 DEF AfterRemove, Finish, Local
<1>3. lock = t => req[t].op \in Growing
  BY <1>0 DEF Control, ControlAt, SpaceOps, AccountedOps, Growing
<1>4. AccountAt(pc'[t], req[t], loc'[t])
  BY <1>0, <1>1, <1>2, <1>3 DEF AccountAt
<1>. QED
  BY <1>1, <1>4, PlainEffect DEF Still, ReserveLabels

(* The steps of Remove, of the eviction and of the expiry timer. *)
LEMMA AccountRemove ==
    ASSUME NEW t \in Threads, Accountable, AccountInv, TypeInv',
           \/ RemoveNextId(t) \/ RemoveTake(t) \/ RemoveUsed(t)
           \/ RemoveNotifyLru(t) \/ RemoveNotifyQueue(t)
    PROVE  AccountEffect(t)
<1>. USE DEF Move, Goto, Frame
<1>0. /\ loc \in [Threads -> Local] /\ pc \in [Threads -> Labels] /\ loc[t] \in Local
      /\ Control(t) /\ cache \in [Keys -> EntryOrNil] /\ used \in Int /\ TypeInv
      /\ SumFunction(Sizes) \in Int
      /\ pc[t] # "idle" => /\ req[t].op \in AccountedOps
                           /\ AccountAt(pc[t], req[t], loc[t])
  BY AccountFacts
<1>1. CASE RemoveNextId(t) \/ RemoveNotifyLru(t)
  <2>1. Alone(t)
    BY <1>0, <1>1, AsideSpace DEF Aside
  <2>2. /\ pc[t] \in {"rmInc", "rmLru"} /\ pc'[t] \in {"rmTake", "rmQueue"}
        /\ loc'[t].n = loc[t].n /\ UNCHANGED <<cache, used>>
    BY <1>0, <1>1 DEF RemoveNextId, RemoveNotifyLru, TakeEventId, OnLru, Local
  <2>3. AccountAt(pc'[t], req[t], loc'[t])
    BY <1>0, <2>2 DEF AccountAt
  <2>. QED
    BY <2>1, <2>2, <2>3, PlainEffect DEF Still, ReserveLabels
<1>2. CASE RemoveTake(t)
  <2>. DEFINE k == loc[t].cur
  <2>1. Alone(t) /\ pc[t] = "rmTake" /\ UNCHANGED used /\ k \in Keys
    BY <1>0, <1>2 DEF RemoveTake, AfterRemove, Finish, Alone, Control, ControlAt, RemoveLabels
  <2>2. CASE AfterRemove(t, "no") /\ UNCHANGED cache
    BY <2>1, <2>2, AccountAfterRemove
  <2>3. CASE ~ (AfterRemove(t, "no") /\ UNCHANGED cache)
    <3>1. /\ cache[k] # Nil /\ cache' = [cache EXCEPT ![k] = Nil] /\ pc'[t] = "rmUsed"
          /\ loc' = [loc EXCEPT ![t].vlen = cache[k].data.len,
                                ![t].result = IF req[t].op = "Remove" THEN "ok" ELSE @]
      BY <1>0, <1>2, <2>3 DEF RemoveTake
    <3>2. loc'[t].vlen = cache[k].data.len /\ loc'[t].n = loc[t].n
      BY <1>0, <3>1 DEF Local
    <3>3. cache[k].data.len \in Nat
      BY <1>0, <2>1, <3>1 DEF EntryOrNil, Entry, Data
    <3>4. SumFunction(Sizes)' = SumFunction(Sizes) - cache[k].data.len
      <4>1. SumFunction(Sizes)' = SumFunction(Sizes) - Size(cache[k]) + Size(Nil)
        BY <1>0, <2>1, <3>1, SizeChange DEF EntryOrNil
      <4>. QED
        BY <1>0, <3>1, <3>3, <4>1 DEF Size
    <3>5. Owed(t) = 0 /\ Owed(t)' = -cache[k].data.len
      BY <2>1, <3>1, <3>2 DEF Owed
    <3>6. Balanced(t)
      BY <1>0, <2>1, <3>3, <3>4, <3>5 DEF Balanced
    <3>7. Reserved(t) = 0 /\ Reserved(t)' = 0
      BY <2>1, <3>1 DEF Reserved
    <3>8. Granted(t)
      BY <1>0, <2>1, <3>7 DEF Granted
    <3>9. AccountAt(pc'[t], req[t], loc'[t])
      BY <1>0, <2>1, <3>1, <3>2, <3>3 DEF AccountAt
    <3>. QED
      BY <2>1, <3>6, <3>8, <3>9 DEF AccountEffect, Accounts
  <2>. QED
    BY <2>2, <2>3
<1>3. CASE RemoveUsed(t)
  <2>1. Alone(t)
    BY <1>0, <1>3, AsideSpace DEF Aside
  <2>2. /\ pc[t] = "rmUsed" /\ pc'[t] = "rmLru" /\ UNCHANGED <<cache, loc>>
        /\ used' = Wrap(used - loc[t].vlen) /\ loc[t].vlen \in Nat
    BY <1>0, <1>3 DEF RemoveUsed, OnUsed, AccountAt
  <2>3. Owed(t) = -loc[t].vlen /\ Owed(t)' = 0 /\ Reserved(t) = 0 /\ Reserved(t)' = 0
    BY <2>2 DEF Owed, Reserved
  <2>4. used' = Wrap(used + Owed(t))
    <3>1. used - loc[t].vlen = used + Owed(t)
      BY <1>0, <2>2, <2>3
    <3>. QED
      BY <2>2, <3>1
  <2>5. SumFunction(Sizes)' = SumFunction(Sizes)
    BY <2>2 DEF Sizes
  <2>6. Settled(t)
    BY <2>2, <2>3, <2>4, <2>5 DEF Settled
  <2>7. AccountAt(pc'[t], req[t], loc'[t])
    BY <1>0, <2>2 DEF AccountAt
  <2>. QED
    BY <2>1, <2>6, <2>7 DEF AccountEffect, Accounts
<1>4. CASE RemoveNotifyQueue(t)
  <2>1. Alone(t) /\ pc[t] = "rmQueue" /\ UNCHANGED <<cache, used>>
    BY <1>0, <1>4 DEF RemoveNotifyQueue, AfterRemove, Finish, Alone
  <2>2. AfterRemove(t, "ok")
    BY <1>4 DEF RemoveNotifyQueue
  <2>. QED
    BY <2>1, <2>2, AccountAfterRemove
<1>. QED
  BY <1>1, <1>2, <1>3, <1>4

(* The steps of a writer that leave the dictionary alone: where             *)
(* MakeSpaceForNewEntry returns it grants the bytes of one call, and        *)
(* AddUsed settles them.                                                    *)
LEMMA AccountSpace ==
    ASSUME NEW t \in Threads, Accountable, AccountInv, TypeInv',
           \/ MakeSpace(t) \/ EvictEntry(t) \/ NextEventId(t) \/ LoopRead(t) \/ TouchRead(t)
           \/ AddUsed(t) \/ NotifyLru(t) \/ NotifyQueue(t)
    PROVE  AccountEffect(t)
<1>. USE DEF Move, Goto, Frame
<1>0. /\ loc \in [Threads -> Local] /\ pc \in [Threads -> Labels] /\ loc[t] \in Local
      /\ Control(t) /\ used \in Int /\ Reserved(t) \in Nat /\ SumFunction(Sizes) \in Int
      /\ TypeInv
      /\ pc[t] # "idle" => /\ req[t].op \in AccountedOps /\ req[t] \in Request
                           /\ AccountAt(pc[t], req[t], loc[t])
  BY AccountFacts
<1>1. Alone(t)
  <2>1. CASE NotifyQueue(t)
    BY <1>0, <2>1 DEF NotifyQueue, Alone
  <2>. QED
    BY <1>0, <2>1, AsideSpace, AsideWriters DEF Aside
<1>2. CASE MakeSpace(t)
  <2>1. /\ pc[t] = "space" /\ UNCHANGED <<loc, used, cache>>
        /\ \/ pc'[t] = "evict"
           \/ pc'[t] = "inc" /\ HasAvailableSpace(loc[t].n)
    BY <1>0, <1>2 DEF MakeSpace, LocalStep, shared
  <2>2. AccountAt(pc'[t], req[t], loc'[t])
    BY <1>0, <2>1 DEF AccountAt, Growing
  <2>3. Granted(t)
    <3>1. CASE pc'[t] = "evict"
      BY <1>0, <3>1 DEF Granted, Reserved
    <3>2. CASE pc'[t] = "inc" /\ HasAvailableSpace(loc[t].n)
      <4>1. Reserved(t)' = loc[t].n
        BY <1>0, <1>1, <2>1, <3>2 DEF Reserved, AccountAt, Alone
      <4>. QED
        BY <3>2, <4>1 DEF Granted
    <3>. QED
      BY <2>1, <3>1, <3>2
  <2>. QED
    BY <1>1, <2>1, <2>2, <2>3, StillEffect DEF Still
<1>3. CASE EvictEntry(t)
  <2>1. /\ pc[t] = "evict" /\ pc'[t] \in {"space", "rmInc"} /\ UNCHANGED <<used, cache>>
        /\ loc'[t].n = loc[t].n
    BY <1>0, <1>3 DEF EvictEntry, Local
  <2>2. AccountAt(pc'[t], req[t], loc'[t])
    BY <1>0, <2>1 DEF AccountAt
  <2>. QED
    BY <1>1, <2>1, <2>2, PlainEffect DEF Still, ReserveLabels
<1>4. CASE NextEventId(t)
  <2>1. pc[t] = "inc" /\ UNCHANGED <<used, cache>> /\ loc'[t].n = loc[t].n
    BY <1>0, <1>4 DEF NextEventId, TakeEventId, Local
  <2>2. /\ pc'[t] \in {"tryAdd", "loopRead", "tSwap"}
        /\ pc'[t] = "tryAdd" => req[t].op = "Add"
    BY <1>0, <1>4, <2>1 DEF NextEventId, AccountAt
  <2>3. AccountAt(pc'[t], req[t], loc'[t])
    BY <1>0, <2>1, <2>2 DEF AccountAt, Growing
  <2>. QED
    BY <1>1, <2>1, <2>2, <2>3, PlainEffect DEF Still, ReserveLabels
<1>5. CASE LoopRead(t)
  <2>1. /\ pc[t] = "loopRead" /\ pc'[t] \in {"done", "loopSwap"}
        /\ UNCHANGED <<used, cache>> /\ loc'[t].n = loc[t].n
    BY <1>0, <1>5 DEF LoopRead, LocalStep, shared, Finish, Local
  <2>2. AccountAt(pc'[t], req[t], loc'[t])
    BY <1>0, <2>1 DEF AccountAt
  <2>. QED
    BY <1>1, <2>1, <2>2, PlainEffect DEF Still, ReserveLabels
<1>6. CASE TouchRead(t)
  <2>1. /\ pc[t] = "tRead" /\ pc'[t] \in {"done", "inc"} /\ req[t].op = "Touch"
        /\ UNCHANGED <<used, cache>> /\ loc'[t].n = loc[t].n
    BY <1>0, <1>6 DEF TouchRead, LocalStep, shared, Finish, Local, Control, ControlAt
  <2>2. AccountAt(pc'[t], req[t], loc'[t])
    BY <1>0, <2>1 DEF AccountAt
  <2>3. Reserved(t)' = 0 /\ Reserved(t) = 0
    BY <1>1, <2>1 DEF Reserved, Growing, Alone
  <2>. QED
    BY <1>0, <1>1, <2>1, <2>2, <2>3, StillEffect DEF Still, Granted
<1>7. CASE AddUsed(t)
  <2>1. /\ pc[t] = "used" /\ pc'[t] = "lru" /\ UNCHANGED <<cache, loc>>
        /\ used' = Wrap(used + loc[t].n) /\ req[t].op \in Growing /\ loc[t].n \in Int
    BY <1>0, <1>7 DEF AddUsed, OnUsed, AccountAt, Local
  <2>2. Owed(t) = loc[t].n /\ Owed(t)' = 0 /\ Reserved(t) = loc[t].n /\ Reserved(t)' = 0
    BY <2>1 DEF Owed, Reserved
  <2>4. SumFunction(Sizes)' = SumFunction(Sizes)
    BY <2>1 DEF Sizes
  <2>5. Settled(t)
    BY <2>1, <2>2, <2>4 DEF Settled
  <2>6. AccountAt(pc'[t], req[t], loc'[t])
    BY <1>0, <2>1 DEF AccountAt
  <2>. QED
    BY <1>1, <2>5, <2>6 DEF AccountEffect, Accounts
<1>8. CASE NotifyLru(t) \/ NotifyQueue(t)
  <2>1. /\ pc[t] \in {"lru", "queue"} /\ pc'[t] \in {"queue", "done"}
        /\ UNCHANGED <<used, cache, loc>>
    BY <1>0, <1>8 DEF NotifyLru, NotifyQueue, OnLru
  <2>2. AccountAt(pc'[t], req[t], loc'[t])
    BY <1>0, <2>1 DEF AccountAt
  <2>. QED
    BY <1>1, <2>1, <2>2, PlainEffect DEF Still, ReserveLabels
<1>. QED
  BY <1>2, <1>3, <1>4, <1>5, <1>6, <1>7, <1>8

(* The steps that write an entry. *)
LEMMA AccountWriters ==
    ASSUME NEW t \in Threads, Accountable, AccountInv, TypeInv',
           TryAdd(t) \/ LoopSwap(t) \/ TouchSwap(t)
    PROVE  AccountEffect(t)
<1>. USE DEF Move, Goto, Frame
<1>. DEFINE k == req[t].key
<1>0. /\ loc \in [Threads -> Local] /\ pc \in [Threads -> Labels] /\ loc[t] \in Local
      /\ Control(t) /\ used \in Int /\ Reserved(t) \in Nat /\ SumFunction(Sizes) \in Int
      /\ cache \in [Keys -> EntryOrNil] /\ TypeInv
      /\ pc[t] # "idle" => /\ req[t].op \in AccountedOps /\ req[t] \in Request
                           /\ AccountAt(pc[t], req[t], loc[t]) /\ k \in Keys
  BY AccountFacts
(* A write of entry e by a thread that grows the entry of its key. *)
<1>1. ASSUME NEW e \in Entry, Alone(t), cache' = [cache EXCEPT ![k] = e], UNCHANGED used,
             pc[t] \in {"tryAdd", "loopSwap"}, pc'[t] = "used", req[t].op \in Growing,
             loc'[t].n = req[t].data.len,
             e.data.len = Size(cache[k]) + req[t].data.len
      PROVE  AccountEffect(t)
  <2>1. /\ k \in Keys /\ loc[t].n = req[t].data.len /\ req[t].data.len \in Nat
        /\ req[t] \in Request
    BY <1>0, <1>1 DEF AccountAt, Request, Data
  <2>2. e # Nil /\ e \in EntryOrNil /\ Size(cache[k]) \in Int /\ Size(e) = e.data.len
    BY <1>0, <2>1, NilAssumption DEF EntryOrNil, Entry, Data, Size
  <2>3. SumFunction(Sizes)' = SumFunction(Sizes) - Size(cache[k]) + Size(e)
    BY <1>0, <1>1, <2>1, <2>2, SizeChange
  <2>4. SumFunction(Sizes)' = SumFunction(Sizes) + req[t].data.len
    BY <1>0, <1>1, <2>1, <2>2, <2>3
  <2>5. Owed(t) = 0 /\ Owed(t)' = req[t].data.len
    BY <1>1 DEF Owed
  <2>6. Reserved(t) = req[t].data.len /\ Reserved(t)' = req[t].data.len
    BY <1>1, <2>1 DEF Reserved, Alone
  <2>7. Balanced(t) /\ Granted(t)
    BY <1>0, <1>1, <2>1, <2>4, <2>5, <2>6 DEF Balanced, Granted
  <2>8. AccountAt(pc'[t], req[t], loc'[t])
    BY <1>1 DEF AccountAt
  <2>. QED
    BY <1>1, <2>7, <2>8 DEF AccountEffect, Accounts
<1>2. CASE TryAdd(t)
  <2>1. Alone(t) /\ pc[t] = "tryAdd" /\ UNCHANGED used /\ req[t].op \in Growing
    BY <1>0, <1>2 DEF TryAdd, Finish, OnCache, Alone, AccountAt
  <2>2. CASE Finish(t, "no") /\ UNCHANGED cache
    <3>1. pc'[t] = "done" /\ loc'[t].n = loc[t].n
      BY <1>0, <2>2 DEF Finish, Local
    <3>2. AccountAt(pc'[t], req[t], loc'[t])
      BY <1>0, <2>1, <3>1 DEF AccountAt
    <3>. QED
      BY <2>1, <2>2, <3>1, <3>2, PlainEffect DEF Still, ReserveLabels
  <2>3. CASE ~ (Finish(t, "no") /\ UNCHANGED cache)
    <3>. DEFINE e == NewEntry(req[t], loc[t].eid)
    <3>1. /\ Current(t) = Nil /\ cache' = [cache EXCEPT ![k] = e] /\ pc'[t] = "used"
          /\ loc' = [loc EXCEPT ![t].result = "ok"]
      BY <1>0, <1>2, <2>3 DEF TryAdd
    <3>2. loc'[t].n = req[t].data.len
      BY <1>0, <2>1, <3>1 DEF AccountAt, Local
    <3>3. e \in Entry /\ e.data = req[t].data
      BY <1>0, <2>1, NewEntryType DEF NewEntry, Local
    <3>4. e.data.len = Size(cache[k]) + req[t].data.len
      BY <1>0, <2>1, <3>1, <3>3 DEF Size, Current, Request, Data
    <3>. HIDE DEF e
    <3>. QED
      BY <1>1, <2>1, <3>1, <3>2, <3>3, <3>4
  <2>. QED
    BY <2>2, <2>3
<1>3. CASE LoopSwap(t)
  <2>1. Alone(t) /\ pc[t] = "loopSwap" /\ UNCHANGED used
    BY <1>0, <1>3 DEF LoopSwap, OnCache, Alone
  <2>2. req[t].op = "Append" /\ loc[t].old \in Entry
    BY <1>0, <2>1 DEF Control, ControlAt, AccountedOps
  <2>3. CASE UNCHANGED cache /\ pc'[t] = "loopRead" /\ loc' = [loc EXCEPT ![t].old = Nil]
    <3>1. loc'[t].n = loc[t].n
      BY <1>0, <2>3 DEF Local
    <3>2. AccountAt(pc'[t], req[t], loc'[t])
      BY <1>0, <2>1, <2>3, <3>1 DEF AccountAt
    <3>. QED
      BY <2>1, <2>3, <3>1, <3>2, PlainEffect DEF Still, ReserveLabels
  <2>4. CASE /\ Current(t) = loc[t].old /\ cache' = [cache EXCEPT ![k] = Updated(t)]
             /\ loc' = [loc EXCEPT ![t].n = req[t].data.len, ![t].result = "ok"]
             /\ pc'[t] = "used"
    <3>1. loc'[t].n = req[t].data.len
      BY <1>0, <2>4 DEF Local
    <3>2. Updated(t) \in Entry
      BY <1>0, <2>1, <2>2, UpdatedType DEF Local
    <3>3. Updated(t).data = Concat(loc[t].old.data, req[t].data)
      BY <2>2 DEF Updated, Grown, Entry
    <3>4. Updated(t).data.len = Size(cache[k]) + req[t].data.len
      BY <2>2, <2>4, <3>3, NilAssumption DEF Size, Current, Concat, Text
    <3>. QED
      BY <1>1, <2>1, <2>2, <2>4, <3>1, <3>2, <3>4 DEF Growing
  <2>. QED
    BY <1>0, <1>3, <2>2, <2>3, <2>4 DEF LoopSwap
<1>4. CASE TouchSwap(t)
  <2>1. /\ Alone(t) /\ pc[t] = "tSwap" /\ pc'[t] = "lru" /\ UNCHANGED used
        /\ loc'[t].n = loc[t].n
        /\ \/ UNCHANGED cache
           \/ Current(t) = loc[t].old /\ cache' = [cache EXCEPT ![k] = Updated(t)]
    BY <1>0, <1>4 DEF TouchSwap, OnCache, Alone, Local
  <2>2. req[t].op = "Touch" /\ loc[t].old \in Entry /\ k \in Keys
    BY <1>0, <2>1 DEF Control, ControlAt
  <2>3. SumFunction(Sizes)' = SumFunction(Sizes)
    <3>1. CASE UNCHANGED cache
      BY <3>1 DEF Sizes
    <3>2. CASE Current(t) = loc[t].old /\ cache' = [cache EXCEPT ![k] = Updated(t)]
      <4>1. Updated(t) \in Entry
        BY <1>0, <2>1, <2>2, UpdatedType DEF Local
      <4>2. Updated(t).data = loc[t].old.data
        BY <2>2 DEF Updated, Entry
      <4>3. Size(Updated(t)) = Size(cache[k]) /\ Size(cache[k]) \in Int
        BY <2>2, <3>2, <4>1, <4>2, NilAssumption DEF Size, Current, Entry, Data
      <4>4. SumFunction(Sizes)' = SumFunction(Sizes) - Size(cache[k]) + Size(Updated(t))
        BY <1>0, <2>2, <3>2, <4>1, SizeChange DEF EntryOrNil
      <4>. QED
        BY <1>0, <4>3, <4>4
    <3>. QED
      BY <2>1, <3>1, <3>2
  <2>4. Owed(t) = 0 /\ Owed(t)' = 0 /\ Reserved(t) = 0 /\ Reserved(t)' = 0
    BY <2>1 DEF Owed, Reserved
  <2>5. Balanced(t) /\ Granted(t)
    BY <1>0, <2>1, <2>3, <2>4 DEF Balanced, Granted
  <2>6. AccountAt(pc'[t], req[t], loc'[t])
    BY <1>0, <2>1 DEF AccountAt
  <2>. QED
    BY <2>1, <2>5, <2>6 DEF AccountEffect, Accounts
<1>. QED
  BY <1>2, <1>3, <1>4

(* The accounts are kept whichever thread moves. *)
LEMMA AccountInvNext == Accountable => (AccountInv /\ [Next]_vars => AccountInv')
<1>. SUFFICES ASSUME Accountable, AccountInv, [Next]_vars PROVE AccountInv'
  OBVIOUS
<1>0. TypeInv' /\ TypeInv
  BY TypeInvNext DEF AccountInv
<1>1. ASSUME NEW t \in Threads, Step(t), ~ Return(t) PROVE AccountInv'
  <2>1. Control(t) /\ (pc[t] # "idle" => /\ req[t].op \in AccountedOps
                                         /\ AccountAt(pc[t], req[t], loc[t]))
    BY AccountFacts
  <2>2. /\ ~ StoreContains(t) /\ ~ ReadSize(t) /\ ~ StoreWrite(t) /\ ~ ReplaceContains(t)
        /\ ~ ReplaceSubtract(t) /\ ~ ClearCache(t)
    BY <2>1 DEF StoreContains, ReadSize, StoreWrite, ReplaceContains, ReplaceSubtract,
                ClearCache, Move, AccountAt
  <2>3. ~ CasRead(t) /\ ~ CasSwap(t)
    BY <2>1 DEF CasRead, CasSwap, Control, ControlAt, AccountedOps
  <2>4. AccountEffect(t)
    BY <1>0, <1>1, <2>2, <2>3, AccountReaders, AccountRemove, AccountSpace, AccountWriters
       DEF Step
  <2>5. \A u \in Threads : AccountControl(u)'
    BY <2>4 DEF AccountInv, AccountEffect, Alone, AccountControl
  <2>6. \A u \in Threads : u # t => Owed(u)' = Owed(u) /\ Reserved(u)' = Reserved(u)
    BY <2>4 DEF AccountEffect, Alone, Owed, Reserved
  <2>. QED
    BY <1>0, <2>4, <2>5, <2>6, AccountStep DEF AccountEffect
(* Calls come and go at labels where nothing is owed or reserved. *)
<1>2. ASSUME NEW t \in Threads, NEW l, NEW r, NEW x, UNCHANGED <<cache, used>>,
             pc' = [pc EXCEPT ![t] = l], req' = [req EXCEPT ![t] = r],
             loc' = [loc EXCEPT ![t] = x], pc[t] \in {"idle", "done"},
             l \notin ReserveLabels \cup {"rmUsed"}, AccountControl(t)'
      PROVE  AccountInv'
  <2>1. /\ pc'[t] = l
        /\ \A u \in Threads : u # t => pc'[u] = pc[u] /\ req'[u] = req[u] /\ loc'[u] = loc[u]
    BY <1>0, <1>2 DEF TypeInv, TypeOK, ThreadsOK
  <2>2. \A u \in Threads : AccountControl(u)'
    BY <1>2, <2>1 DEF AccountInv, AccountControl
  <2>3. /\ \A u \in Threads : u # t => Owed(u)' = Owed(u) /\ Reserved(u)' = Reserved(u)
        /\ Owed(t) = 0 /\ Owed(t)' = 0 /\ Reserved(t) = 0 /\ Reserved(t)' = 0
    BY <1>2, <2>1 DEF Owed, Reserved, ReserveLabels
  <2>4. SumFunction(Sizes)' = SumFunction(Sizes)
    BY <1>2 DEF Sizes
  <2>5. Accounts(t)
    BY <1>2, <2>3, <2>4, TermTypes DEF Balanced, Granted, Accounts
  <2>. QED
    BY <1>0, <2>2, <2>3, <2>5, AccountStep
<1>3. ASSUME NEW t \in Threads, Return(t) PROVE AccountInv'
  <2>1. /\ pc' = [pc EXCEPT ![t] = "idle"] /\ req' = [req EXCEPT ![t] = Nil]
        /\ loc' = [loc EXCEPT ![t] = FreshLocal] /\ UNCHANGED <<cache, used>>
        /\ pc[t] = "done"
    BY <1>3 DEF Return, Move, Goto, shared
  <2>2. AccountControl(t)'
    BY <1>0, <2>1 DEF TypeInv, TypeOK, ThreadsOK, AccountControl
  <2>. QED
    BY <1>2, <2>1, <2>2 DEF ReserveLabels
<1>4. ASSUME NEW t \in Threads, NEW r \in Requests[t], Call(t, r) PROVE AccountInv'
  <2>. DEFINE l == FirstLabel(r.op)
              x == [FreshLocal EXCEPT !.cur = r.key, !.todo = r.keys, !.n = r.data.len]
  <2>1. /\ pc' = [pc EXCEPT ![t] = l] /\ req' = [req EXCEPT ![t] = r]
        /\ loc' = [loc EXCEPT ![t] = x] /\ UNCHANGED <<cache, used>> /\ pc[t] = "idle"
    BY <1>4 DEF Call, Move, Goto, shared
  <2>2. /\ l \in {"space", "tRead", "rmInc", "gContains", "getUse", "scan", "snapshot"}
        /\ l = "space" => r.op \in Growing
    BY DEF Accountable, AccountedOps, FirstLabel, Growing
  <2>3. x.n = r.data.len
    BY DEF FreshLocal
  <2>. HIDE DEF l, x
  <2>4. pc'[t] = l /\ req'[t] = r /\ loc'[t] = x
    BY <1>0, <2>1 DEF TypeInv, TypeOK, ThreadsOK
  <2>5. AccountAt(l, r, x)
    BY <2>2, <2>3 DEF AccountAt
  <2>6. AccountControl(t)'
    BY <2>4, <2>5 DEF AccountControl
  <2>. QED
    BY <1>2, <2>1, <2>2, <2>6 DEF ReserveLabels
<1>5. CASE Tick \/ Stopped \/ UNCHANGED vars
  <2>1. UNCHANGED <<cache, used, pc, req, loc>>
    BY <1>5 DEF Tick, Stopped, vars, shared
  <2>2. \A u \in Threads : Owed(u)' = Owed(u) /\ Reserved(u)' = Reserved(u)
    BY <2>1 DEF Owed, Reserved
  <2>3. UsedAccounted' /\ ReservedBounded'
    BY <2>1, <2>2 DEF AccountInv, UsedAccounted, Counted, Bytes, ReservedBounded
  <2>. QED
    BY <1>0, <2>1, <2>3 DEF AccountInv, AccountControl
<1>. QED
  BY <1>1, <1>3, <1>4, <1>5 DEF Next

(* At the start every sum is zero. *)
LEMMA AccountInvInit == Accountable => (Init => AccountInv)
<1>. SUFFICES ASSUME Accountable, Init PROVE AccountInv
  OBVIOUS
<1>1. TypeInv /\ \A t \in Threads : AccountControl(t)
  BY TypeInvInit DEF Init, AccountControl
<1>2. PICK N \in Nat, L \in Nat : N = Cardinality(Threads) /\ L = LongestData
  BY LongestFacts, FS_CardinalityType DEF Accountable
<1>3. \A t \in Threads : Owed(t) = 0 /\ Reserved(t) = 0
  BY DEF Init, Owed, Reserved
<1>4. SumFunction([t \in Threads |-> Owed(t)]) = 0
  <2>1. [t \in Threads |-> Owed(t)] \in [Threads -> Int]
    BY <1>3
  <2>2. SumFunction([t \in Threads |-> Owed(t)]) = N * 0
    BY <1>2, <1>3, <2>1, SumConstant DEF Accountable
  <2>. QED
    BY <1>2, <2>2
<1>5. SumFunction([t \in Threads |-> Reserved(t)]) = 0
  <2>1. [t \in Threads |-> Reserved(t)] \in [Threads -> Int]
    BY <1>3
  <2>2. SumFunction([t \in Threads |-> Reserved(t)]) = N * 0
    BY <1>2, <1>3, <2>1, SumConstant DEF Accountable
  <2>. QED
    BY <1>2, <2>2
<1>6. Bytes = 0
  <2>1. \A k \in Keys : cache[k] = Nil
    BY DEF Init, NoKeys
  <2>2. \A k \in Keys : Sizes[k] = 0
    BY <2>1 DEF Sizes
  <2>3. Sizes \in [Keys -> Int]
    BY <2>1 DEF Sizes
  <2>4. SumFunction(Sizes) = Cardinality(Keys) * 0
    BY <2>2, <2>3, SumConstant DEF Accountable
  <2>5. Cardinality(Keys) \in Nat
    BY FS_CardinalityType DEF Accountable
  <2>. QED
    BY <2>4, <2>5 DEF Bytes, Sizes
<1>7. N >= 1
  BY <1>2, FS_EmptySet DEF Accountable
<1>8. (N - 1) * L \in Nat
  BY <1>2, <1>7
<1>9. Counted = 0 /\ Wrap(0) = 0 /\ Ceiling \in Nat
  BY <1>4, <1>6, CeilingFacts, SizesAssumption DEF Counted, Wrap
<1>. QED
  BY <1>1, <1>2, <1>5, <1>8, <1>9 DEF Init, AccountInv, UsedAccounted, ReservedBounded

LEMMA AccountInvCorrect ==
    ASSUME Accountable
    PROVE  Spec => []AccountInv
<1>1. Init => AccountInv
  BY AccountInvInit
<1>2. AccountInv /\ [Next]_vars => AccountInv'
  BY AccountInvNext
<1>. QED
  BY <1>1, <1>2, PTL DEF Spec

(* _used of MemCache.cs, which every method changes apart from the          *)
(* dictionary, is the bytes in it as an int, up to what the threads have    *)
(* yet to add or take off, whatever the capacity, for any number of threads *)
(* that add, append, touch, remove, read, evict and expire.                 *)
THEOREM UsedIsAccounted ==
    ASSUME Accountable
    PROVE  Spec => []UsedAccounted
<1>1. AccountInv => UsedAccounted
  BY DEF AccountInv
<1>. QED
  BY <1>1, AccountInvCorrect, PTL

(* MakeSpaceForNewEntry checks the capacity before the entry is counted;    *)
(* for the same calls the dictionary exceeds the capacity by at most one    *)
(* longest entry for each thread but one, and where the capacity is above   *)
(* 2^31 it does not get so far: _used turns negative, which reads as full.  *)
THEOREM OvershootIsBounded ==
    ASSUME Accountable
    PROVE  Spec => []OvershootBounded
<1>1. ASSUME AccountInv PROVE OvershootBounded
  <2>1. PICK o \in [Threads -> Int], r \in [Threads -> Int] : o = Owes /\ r = Reserves
    BY <1>1, TermTypes
  <2>2. \A u \in Threads : o[u] <= r[u]
    BY <1>1, <2>1, TermTypes DEF Owes, Reserves
  <2>3. SumFunction(o) <= SumFunction(r)
    BY <2>2, SumLeq DEF Accountable
  <2>4. PICK N \in Nat, L \in Nat, C \in Nat :
           N = Cardinality(Threads) /\ L = LongestData /\ C = Ceiling
    BY LongestFacts, CeilingFacts, FS_CardinalityType DEF Accountable
  <2>5. /\ Bytes \in Int /\ SumFunction(o) \in Int /\ SumFunction(r) \in Int
        /\ Counted = Bytes - SumFunction(o)
        /\ Counted + SumFunction(r) <= C + (N - 1) * L
    BY <1>1, <2>1, <2>4, TermTypes DEF Bytes, Sizes
  <2>6. PICK p \in Int : p = (N - 1) * L
    BY <2>4
  <2>. QED
    BY <2>3, <2>4, <2>5, <2>6 DEF OvershootBounded
<1>. QED
  BY <1>1, AccountInvCorrect, PTL

-----------------------------------------------------------------------------
(* The expiry timer.  While a RemoveExpired is under way the copy the timer *)
(* made in ScanExpired does not change, and time only goes on: the keys it  *)
(* has still to remove, and the one it is removing, are expired in the copy.*)

SweepLabels == RemoveLabels \cup {"scan", "sweep", "done"}

Expired(e) == e # Nil /\ IsExpired(e)

Swept(t) ==
    pc[t] # "idle" /\ req[t].op = "RemoveExpired" =>
        /\ pc[t] \in SweepLabels
        /\ pc[t] \in RemoveLabels \cup {"sweep"} =>
              \A k \in loc[t].todo : Expired(loc[t].snap[k])
        /\ pc[t] \in {"rmInc", "rmTake"} => Expired(loc[t].snap[loc[t].cur])

SweepInv == TypeInv /\ \A t \in Threads : Swept(t)

(* The steps of a method leave the other threads, their calls and the clock *)
(* as they are ...                                                          *)
LEMMA StepAlone ==
    ASSUME NEW t \in Threads, TypeInv, Step(t), ~ Return(t)
    PROVE  Alone(t) /\ now' = now
<1>. USE DEF Move, Goto, Frame
<1>0. loc \in [Threads -> Local] /\ pc \in [Threads -> Labels] /\ loc[t] \in Local
  BY ThreadFacts DEF TypeInv, TypeOK, ThreadsOK
<1>1. CASE RemoveNextId(t)
  BY <1>0, <1>1 DEF RemoveNextId, TakeEventId, Alone
<1>2. CASE RemoveTake(t)
  BY <1>0, <1>2 DEF RemoveTake, AfterRemove, Finish, Alone
<1>3. CASE RemoveUsed(t)
  BY <1>0, <1>3 DEF RemoveUsed, OnUsed, Alone
<1>4. CASE RemoveNotifyLru(t)
  BY <1>0, <1>4 DEF RemoveNotifyLru, OnLru, Alone
<1>5. CASE RemoveNotifyQueue(t)
  BY <1>0, <1>5 DEF RemoveNotifyQueue, AfterRemove, Finish, Alone
<1>6. CASE ScanExpired(t)
  BY <1>0, <1>6 DEF ScanExpired, LocalStep, Alone
<1>7. CASE SweepNext(t)
  BY <1>0, <1>7 DEF SweepNext, LocalStep, Finish, Alone
<1>8. CASE MakeSpace(t)
  BY <1>0, <1>8 DEF MakeSpace, LocalStep, Alone
<1>9. CASE EvictEntry(t)
  BY <1>0, <1>9 DEF EvictEntry, Alone
<1>10. CASE NextEventId(t)
  BY <1>0, <1>10 DEF NextEventId, TakeEventId, Alone
<1>11. CASE StoreContains(t)
  BY <1>0, <1>11 DEF StoreContains, LocalStep, Alone
<1>12. CASE ReadSize(t)
  BY <1>0, <1>12 DEF ReadSize, LocalStep, Finish, Alone
<1>13. CASE StoreWrite(t)
  BY <1>0, <1>13 DEF StoreWrite, OnCache, Alone
<1>14. CASE ReplaceContains(t)
  BY <1>0, <1>14 DEF ReplaceContains, LocalStep, Finish, Alone
<1>15. CASE ReplaceSubtract(t)
  BY <1>0, <1>15 DEF ReplaceSubtract, OnUsed, Alone
<1>16. CASE TryAdd(t)
  BY <1>0, <1>16 DEF TryAdd, OnCache, LocalStep, Finish, Alone
<1>17. CASE LoopRead(t)
  BY <1>0, <1>17 DEF LoopRead, LocalStep, Finish, Alone
<1>18. CASE LoopSwap(t)
  BY <1>0, <1>18 DEF LoopSwap, OnCache, LocalStep, Finish, Alone
<1>19. CASE TouchRead(t)
  BY <1>0, <1>19 DEF TouchRead, LocalStep, Finish, Alone
<1>20. CASE TouchSwap(t)
  BY <1>0, <1>20 DEF TouchSwap, OnCache, LocalStep, Finish, Alone
<1>21. CASE CasRead(t)
  BY <1>0, <1>21 DEF CasRead, LocalStep, Finish, Alone
<1>22. CASE CasSwap(t)
  BY <1>0, <1>22 DEF CasSwap, OnCache, LocalStep, Finish, Alone
<1>23. CASE ClearCache(t)
  BY <1>0, <1>23 DEF ClearCache, OnCache, Alone
<1>24. CASE AddUsed(t)
  BY <1>0, <1>24 DEF AddUsed, OnUsed, Alone
<1>25. CASE NotifyLru(t)
  BY <1>0, <1>25 DEF NotifyLru, OnLru, Alone
<1>26. CASE NotifyQueue(t)
  BY <1>0, <1>26 DEF NotifyQueue, Alone
<1>27. CASE RetrieveContains(t)
  BY <1>0, <1>27 DEF RetrieveContains, LocalStep, AfterVisit, Alone
<1>28. CASE RetrieveIndex(t)
  BY <1>0, <1>28 DEF RetrieveIndex, LocalStep, AfterVisit, Finish, Alone
<1>29. CASE RetrieveUse(t)
  BY <1>0, <1>29 DEF RetrieveUse, OnLru, Finish, Alone
<1>30. CASE GetUse(t)
  BY <1>0, <1>30 DEF GetUse, OnLru, Alone
<1>31. CASE GetIndex(t)
  BY <1>0, <1>31 DEF GetIndex, LocalStep, Alone
<1>32. CASE SnapshotContents(t)
  BY <1>0, <1>32 DEF SnapshotContents, LocalStep, Alone
<1>33. CASE SnapshotSequence(t)
  BY <1>0, <1>33 DEF SnapshotSequence, LocalStep, Alone
<1>. QED
  BY <1>1, <1>2, <1>3, <1>4, <1>5, <1>6, <1>7, <1>8, <1>9, <1>10, <1>11, <1>12, <1>13,
     <1>14, <1>15, <1>16, <1>17, <1>18, <1>19, <1>20, <1>21, <1>22, <1>23, <1>24,
     <1>25, <1>26, <1>27, <1>28, <1>29, <1>30, <1>31, <1>32, <1>33 DEF Step

(* ... and only these are steps of the timer. *)
SweepStep(t) ==
    \/ RemoveNextId(t) \/ RemoveTake(t) \/ RemoveUsed(t)
    \/ RemoveNotifyLru(t) \/ RemoveNotifyQueue(t) \/ ScanExpired(t) \/ SweepNext(t)

LEMMA OtherLabels ==
    ASSUME NEW t \in Threads, Step(t), ~ Return(t), ~ SweepStep(t)
    PROVE  pc[t] \notin SweepLabels
<1>. USE DEF Move, SweepLabels, RemoveLabels
<1>1. CASE MakeSpace(t)
  BY <1>1 DEF MakeSpace
<1>2. CASE EvictEntry(t)
  BY <1>2 DEF EvictEntry
<1>3. CASE NextEventId(t)
  BY <1>3 DEF NextEventId
<1>4. CASE StoreContains(t)
  BY <1>4 DEF StoreContains
<1>5. CASE ReadSize(t)
  BY <1>5 DEF ReadSize
<1>6. CASE StoreWrite(t)
  BY <1>6 DEF StoreWrite
<1>7. CASE ReplaceContains(t)
  BY <1>7 DEF ReplaceContains
<1>8. CASE ReplaceSubtract(t)
  BY <1>8 DEF ReplaceSubtract
<1>9. CASE TryAdd(t)
  BY <1>9 DEF TryAdd
<1>10. CASE LoopRead(t)
  BY <1>10 DEF LoopRead
<1>11. CASE LoopSwap(t)
  BY <1>11 DEF LoopSwap
<1>12. CASE TouchRead(t)
  BY <1>12 DEF TouchRead
<1>13. CASE TouchSwap(t)
  BY <1>13 DEF TouchSwap
<1>14. CASE CasRead(t)
  BY <1>14 DEF CasRead
<1>15. CASE CasSwap(t)
  BY <1>15 DEF CasSwap
<1>16. CASE ClearCache(t)
  BY <1>16 DEF ClearCache
<1>17. CASE AddUsed(t)
  BY <1>17 DEF AddUsed
<1>18. CASE NotifyLru(t)
  BY <1>18 DEF NotifyLru
<1>19. CASE NotifyQueue(t)
  BY <1>19 DEF NotifyQueue
<1>20. CASE RetrieveContains(t)
  BY <1>20 DEF RetrieveContains
<1>21. CASE RetrieveIndex(t)
  BY <1>21 DEF RetrieveIndex
<1>22. CASE RetrieveUse(t)
  BY <1>22 DEF RetrieveUse
<1>23. CASE GetUse(t)
  BY <1>23 DEF GetUse
<1>24. CASE GetIndex(t)
  BY <1>24 DEF GetIndex
<1>25. CASE SnapshotContents(t)
  BY <1>25 DEF SnapshotContents
<1>26. CASE SnapshotSequence(t)
  BY <1>26 DEF SnapshotSequence
<1>. QED
  BY <1>1, <1>2, <1>3, <1>4, <1>5, <1>6, <1>7, <1>8, <1>9, <1>10, <1>11, <1>12, <1>13,
     <1>14, <1>15, <1>16, <1>17, <1>18, <1>19, <1>20, <1>21, <1>22, <1>23, <1>24,
     <1>25, <1>26 DEF Step, SweepStep

(* What a thread learns while it sweeps. *)
LEMMA SweptStep ==
    ASSUME NEW t \in Threads, SweepInv, SweepStep(t)
    PROVE  Swept(t)'
<1>. USE DEF Move, Goto, Frame
<1>0. /\ loc \in [Threads -> Local] /\ pc \in [Threads -> Labels] /\ loc[t] \in Local
      /\ Control(t) /\ TypeInv
  BY ThreadFacts DEF SweepInv, TypeInv, TypeOK, ThreadsOK
<1>. SUFFICES ASSUME pc'[t] # "idle", req'[t].op = "RemoveExpired"
              PROVE  /\ pc'[t] \in SweepLabels
                     /\ pc'[t] \in RemoveLabels \cup {"sweep"} =>
                           \A k \in loc'[t].todo : Expired(loc[t].snap[k])'
                     /\ pc'[t] \in {"rmInc", "rmTake"} =>
                           Expired(loc[t].snap[loc[t].cur])'
  BY DEF Swept
<1>1. req' = req /\ now' = now /\ pc[t] # "idle"
  <2>1. Step(t) /\ ~ Return(t)
    BY DEF SweepStep, Step, Return, RemoveNextId, RemoveTake, RemoveUsed, RemoveNotifyLru,
           RemoveNotifyQueue, ScanExpired, SweepNext
  <2>. QED
    BY <1>0, <2>1, StepAlone DEF Alone
<1>2. /\ pc[t] \in SweepLabels
      /\ pc[t] \in RemoveLabels \cup {"sweep"} => \A k \in loc[t].todo : Expired(loc[t].snap[k])
      /\ pc[t] \in {"rmInc", "rmTake"} => Expired(loc[t].snap[loc[t].cur])
  BY <1>1 DEF SweepInv, Swept
<1>3. lock # t
  BY <1>0, <1>1 DEF Control, ControlAt, SpaceOps
<1>. DEFINE Kept == loc'[t].snap = loc[t].snap /\ loc'[t].todo \subseteq loc[t].todo
<1>4. ASSUME Kept, pc[t] \in RemoveLabels \cup {"sweep"}, pc'[t] \in SweepLabels,
             pc'[t] \in {"rmInc", "rmTake"} => \/ loc'[t].cur \in loc[t].todo
                                               \/ /\ loc'[t].cur = loc[t].cur
                                                  /\ pc[t] \in {"rmInc", "rmTake"}
      PROVE  /\ \A k \in loc'[t].todo : Expired(loc[t].snap[k])'
             /\ pc'[t] \in {"rmInc", "rmTake"} => Expired(loc[t].snap[loc[t].cur])'
  BY <1>1, <1>2, <1>4 DEF Expired, IsExpired
<1>5. CASE RemoveNextId(t)
  BY <1>0, <1>4, <1>5 DEF RemoveNextId, TakeEventId, SweepLabels, RemoveLabels, Local
<1>6. CASE RemoveTake(t)
  <2>1. pc[t] = "rmTake" /\ pc'[t] \in {"sweep", "rmUsed"}
    BY <1>0, <1>1, <1>3, <1>6 DEF RemoveTake, AfterRemove
  <2>2. Kept
    <3>1. CASE cache[loc[t].cur] = Nil
      <4>1. loc' = [loc EXCEPT ![t].cur = req[t].key, ![t].eid = 0, ![t].vlen = 0]
        BY <1>1, <1>3, <1>6, <3>1 DEF RemoveTake, AfterRemove
      <4>. QED
        BY <1>0, <4>1 DEF Local
    <3>2. CASE cache[loc[t].cur] # Nil
      <4>1. PICK n : loc' = [loc EXCEPT ![t].vlen = n, ![t].result = @]
        BY <1>1, <1>6, <3>2 DEF RemoveTake
      <4>2. loc'[t] = [[loc[t] EXCEPT !.vlen = n] EXCEPT !.result = @]
        BY <1>0, <4>1
      <4>3. loc'[t].snap = loc[t].snap /\ loc'[t].todo = loc[t].todo
        BY <1>0, <4>2 DEF Local
      <4>. QED
        BY <4>3
    <3>. QED
      BY <3>1, <3>2
  <2>. QED
    BY <1>4, <2>1, <2>2 DEF SweepLabels, RemoveLabels
<1>7. CASE RemoveUsed(t)
  BY <1>0, <1>4, <1>7 DEF RemoveUsed, SweepLabels, RemoveLabels
<1>8. CASE RemoveNotifyLru(t)
  BY <1>0, <1>4, <1>8 DEF RemoveNotifyLru, SweepLabels, RemoveLabels
<1>9. CASE RemoveNotifyQueue(t)
  <2>1. pc[t] = "rmQueue" /\ pc'[t] = "sweep"
    BY <1>0, <1>1, <1>3, <1>9 DEF RemoveNotifyQueue, AfterRemove
  <2>2. loc' = [loc EXCEPT ![t].cur = req[t].key, ![t].eid = 0, ![t].vlen = 0]
    BY <1>1, <1>3, <1>9 DEF RemoveNotifyQueue, AfterRemove
  <2>3. Kept
    BY <1>0, <2>2 DEF Local
  <2>. QED
    BY <1>4, <2>1, <2>3 DEF SweepLabels, RemoveLabels
<1>10. CASE ScanExpired(t)
  BY <1>0, <1>1, <1>10
     DEF ScanExpired, SweepLabels, RemoveLabels, Local, Expired, IsExpired
<1>11. CASE SweepNext(t)
  <2>1. CASE pc'[t] = "done"
    BY <2>1 DEF SweepLabels, RemoveLabels
  <2>2. CASE pc'[t] # "done"
    <3>1. PICK k \in loc[t].todo : loc' = [loc EXCEPT ![t].cur = k, ![t].todo = @ \ {k}]
      BY <1>0, <1>11, <2>2 DEF SweepNext, Finish
    <3>2. pc[t] = "sweep" /\ pc'[t] = "rmInc"
      BY <1>0, <1>11, <2>2 DEF SweepNext, Finish
    <3>3. Kept /\ loc'[t].cur = k
      BY <1>0, <3>1 DEF Local
    <3>. QED
      BY <1>4, <3>2, <3>3 DEF SweepLabels, RemoveLabels
  <2>. QED
    BY <2>1, <2>2
<1>. QED
  BY <1>5, <1>6, <1>7, <1>8, <1>9, <1>10, <1>11 DEF SweepStep

(* The invariant is inductive; a tick of the clock only expires more. *)
LEMMA SweepInvNext == SweepInv /\ [Next]_vars => SweepInv'
<1>. SUFFICES ASSUME SweepInv, [Next]_vars PROVE SweepInv'
  OBVIOUS
<1>0. TypeInv' /\ TypeInv
  BY TypeInvNext DEF SweepInv
<1>1. ASSUME NEW u \in Threads, UNCHANGED now, pc'[u] = pc[u], req'[u] = req[u],
             loc'[u] = loc[u]
      PROVE  Swept(u)'
  BY <1>1 DEF SweepInv, Swept, Expired, IsExpired
<1>2. ASSUME NEW t \in Threads, Step(t), ~ Return(t) PROVE SweepInv'
  <2>1. Alone(t) /\ now' = now
    BY <1>0, <1>2, StepAlone
  <2>2. Swept(t)'
    <3>1. CASE SweepStep(t)
      BY <3>1, SweptStep
    <3>2. CASE ~ SweepStep(t)
      <4>1. pc[t] \notin SweepLabels
        BY <1>2, <3>2, OtherLabels
      <4>. QED
        BY <2>1, <4>1 DEF SweepInv, Swept, Alone
    <3>. QED
      BY <3>1, <3>2
  <2>3. ASSUME NEW u \in Threads, u # t PROVE Swept(u)'
    BY <1>1, <2>1, <2>3 DEF Alone
  <2>. QED
    BY <1>0, <2>2, <2>3 DEF SweepInv
<1>3. ASSUME NEW t \in Threads, Return(t) \/ \E r \in Requests[t] : Call(t, r) PROVE SweepInv'
  <2>1. \A u \in Threads : u # t => pc'[u] = pc[u] /\ req'[u] = req[u] /\ loc'[u] = loc[u]
    BY <1>0, <1>3 DEF Return, Call, Move, Goto, TypeInv, TypeOK, ThreadsOK
  <2>2. now' = now /\ (pc'[t] = "idle" \/ (req'[t].op = "RemoveExpired" => pc'[t] = "scan"))
    BY <1>0, <1>3 DEF Return, Call, Move, Goto, FirstLabel, TypeInv, TypeOK, ThreadsOK
  <2>3. Swept(t)'
    BY <2>2 DEF Swept, SweepLabels, RemoveLabels
  <2>. QED
    BY <1>0, <1>1, <2>1, <2>2, <2>3 DEF SweepInv
<1>4. CASE Tick
  <2>1. /\ UNCHANGED <<pc, req, loc>> /\ now \in Int /\ now' = now + 1
        /\ loc \in [Threads -> Local]
    BY <1>0, <1>4 DEF Tick, TypeInv, TypeOK, SharedOK, ThreadsOK
  <2>2. ASSUME NEW t \in Threads PROVE Swept(t)'
    <3>1. \A k \in Keys : loc[t].snap[k] # Nil => loc[t].snap[k].expiry \in Int
      BY <2>1 DEF Local, EntryOrNil, Entry
    <3>2. \A k \in Keys : Expired(loc[t].snap[k]) => Expired(loc[t].snap[k])'
      BY <2>1, <3>1 DEF Expired, IsExpired
    <3>3. loc[t].todo \subseteq Keys /\ (pc[t] \in RemoveLabels => loc[t].cur \in Keys)
      BY <1>0, <2>1, ThreadFacts DEF Local, Control, ControlAt
    <3>. QED
      BY <2>1, <3>2, <3>3 DEF SweepInv, Swept, RemoveLabels
  <2>. QED
    BY <1>0, <2>2 DEF SweepInv
<1>5. CASE Stopped \/ UNCHANGED vars
  BY <1>0, <1>1, <1>5 DEF SweepInv, Stopped, vars
<1>. QED
  BY <1>2, <1>3, <1>4, <1>5 DEF Next

(* The expiry timer of MemCache.cs works on a copy of the dictionary while  *)
(* others rewrite it: still, when it takes an entry out, that entry has     *)
(* expired or is not the one it copied.                                     *)
THEOREM SweepTakesExpired ==
    Spec => SweepRemovesExpired
<1>1. Init => SweepInv
  BY TypeInvInit DEF Init, SweepInv, Swept
<1>2. SweepInv /\ [Next]_vars => SweepInv'
  BY SweepInvNext
<1>. DEFINE Sweeps == \A t \in Threads : \A k \in Keys :
                (/\ pc[t] = "rmTake" /\ req[t].op = "RemoveExpired"
                 /\ cache[k] # Nil /\ cache'[k] = Nil /\ pc'[t] = "rmUsed")
                    => IsExpired(cache[k]) \/ cache[k] # loc[t].snap[k]
<1>3. SweepInv /\ [Next]_vars => [Sweeps]_vars
  <2>. SUFFICES ASSUME SweepInv, Next, NEW t \in Threads, NEW k \in Keys, pc[t] = "rmTake",
                       req[t].op = "RemoveExpired", cache[k] # Nil, cache'[k] = Nil,
                       pc'[t] = "rmUsed"
                PROVE  IsExpired(cache[k]) \/ cache[k] # loc[t].snap[k]
    OBVIOUS
  <2>1. PICK u \in Threads : Step(u) \/ \E r \in Requests[u] : Call(u, r)
    BY DEF Next, Tick, Stopped, vars
  <2>2. TypeInv /\ pc \in [Threads -> Labels] /\ cache \in [Keys -> EntryOrNil]
    BY DEF SweepInv, TypeInv, TypeOK, ThreadsOK, SharedOK
  <2>3. u = t /\ Step(t)
    <3>1. ASSUME Return(u) \/ \E r \in Requests[u] : Call(u, r) PROVE FALSE
      BY <2>2, <3>1 DEF Return, Call, Move, Goto, shared
    <3>2. Alone(u)
      BY <2>1, <2>2, <3>1, StepAlone
    <3>. QED
      BY <2>1, <3>1, <3>2 DEF Alone
  <2>4. RemoveTake(t)
    <3>1. SweepStep(t)
      BY <2>3, OtherLabels DEF SweepLabels, RemoveLabels, Return, Move
    <3>. QED
      BY <3>1 DEF SweepStep, RemoveNextId, RemoveUsed, RemoveNotifyLru, RemoveNotifyQueue,
                  ScanExpired, SweepNext, Move
  <2>5. k = loc[t].cur
    BY <2>2, <2>4 DEF RemoveTake
  <2>6. Expired(loc[t].snap[k])
    BY <2>5 DEF SweepInv, Swept
  <2>. QED
    BY <2>6 DEF Expired
<1>. QED
  BY <1>1, <1>2, <1>3, PTL DEF Spec, SweepRemovesExpired
=============================================================================
