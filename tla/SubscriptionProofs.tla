-------------------------- MODULE SubscriptionProofs --------------------------
(***************************************************************************)
(* Proofs about Subscription: its type invariant, and that the messages of *)
(* a subscription are complete, in order, and end with it.                 *)
(*                                                                         *)
(* The three rest on what an id stands for.  Every change has an id of its *)
(* own, and an id belongs to one key for good; so that a subscription that *)
(* skips an id it has just seen, and a replay that keeps one notification  *)
(* of each id, lose no update of the key but a touch, or what a touch      *)
(* stands for.  The other half is about observers: a change that is being  *)
(* announced is among the messages, or in the buffer, or the observer is   *)
(* still to be called with it, or it was under way when the subscription   *)
(* was attached.                                                           *)
(***************************************************************************)
EXTENDS Subscription, FiniteSetTheorems, TLAPS

(* The changes of the key: those announced, those that threads have in      *)
(* hand, and of the latter those that have reached the cache.               *)
Mine(t) == Change(work[t].note)

OfKey(i) == i \in begun \/ \E t \in Threads : i \in Mine(t)

Written(i) == i \in begun \/ \E t \in Threads : work[t].step # "write" /\ i \in Mine(t)

Announcing(t) == work[t].step \in {"call", "add", "forward"}

OwnIds(notes) == {n.id : n \in Own(notes)}

(* What a subscription has told, or need not tell. *)
Got(s) == Out(s) \cup touched

(* Nothing has an id that is still to be taken, or the id of another key;   *)
(* what is told of the key is the id, but of a touch.                       *)
Placed(n) ==
    /\ n.id <= lastId
    /\ n.key # Click => ~OfKey(n.id)
    /\ n.key = Click => Message(n) = n.id \/ n.id \in touched

(* A subscription is attached by a loop that runs, on a connection that     *)
(* lasts.                                                                   *)
Control ==
    /\ ended => ~receiving
    /\ ~receiving => handling = "idle"
    /\ handling \in {"replay", "replayed"} => Len(subs) > 0
    /\ handling = "replay" =>
        /\ subs[Len(subs)].stage = "buffering"
        /\ subs[Len(subs)].snapshot = read /\ read # 0
    /\ handling = "replayed" => subs[Len(subs)].stage = "replayed"

ThreadOK(t) ==
    /\ Placed(work[t].note)
    /\ work[t].step = "idle" => Mine(t) = {}
    /\ work[t].step = "write" =>
        work[t].note.id # 0 /\ (work[t].note.type \in {"store", "touch"} => work[t].note.key = Click)
    /\ work[t].step \in {"write", "notify"} => Mine(t) \cap begun = {}
    /\ Announcing(t) => Mine(t) \subseteq begun /\ work[t].todo \subseteq DOMAIN subs
    /\ Mine(t) \cap finished = {}
    /\ work[t].step = "forward" => \A s \in Turn(t) : subs[s].stage \in {"live", "disposed"}
    /\ \A u \in Threads \ {t} : Mine(t) \cap Mine(u) = {}

IdsOK ==
    /\ begun \subseteq 1..lastId
    /\ \A i \in {cache, read} : i # 0 => Written(i)
    /\ \A n \in Ids : earlier[n] \subseteq {m \in finished : m < n}

SubIds(s) ==
    /\ subs[s].snapshot # 0 => Written(subs[s].snapshot)
    /\ subs[s].before \subseteq begun
    /\ \A n \in subs[s].buffer : Placed(n) /\ Change(n) \subseteq begun \ subs[s].before
    /\ Out(s) \subseteq 0..lastId
    /\ subs[s].seen <= lastId
    /\ Combined(s) /\ OfKey(subs[s].seen) => subs[s].seen \in Got(s)

(* A change that thread t announces, or has announced, is in X or observer  *)
(* s is still to be called with it.                                         *)
Reaches(s, X) ==
    /\ finished \subseteq X
    /\ \A t \in Threads : Announcing(t) => s \in work[t].todo \/ Mine(t) \subseteq X

(* The value it begins with is queued, or a touch stands for it. *)
Began(s) == subs[s].snapshot \in Out(s) \cup (touched \ subs[s].before)

Delivered(s) ==
    /\ subs[s].stage = "buffering" => Reaches(s, subs[s].before \cup OwnIds(subs[s].buffer))
    /\ subs[s].stage = "replayed" => subs[s].gap \subseteq Got(s) /\ Began(s)
    /\ subs[s].stage = "live" /\ ~ended =>
        /\ Combined(s) => Began(s)
        /\ Reaches(s, subs[s].gap \cup Got(s))

(* An observer is called with what was first announced since it is there. *)
Fresh(s) ==
    \A t \in Threads : Announcing(t) /\ s \in work[t].todo => Mine(t) \cap subs[s].before = {}

Ordered(s) ==
    \A i, j \in DOMAIN subs[s].out : i < j => subs[s].out[j] \notin earlier[subs[s].out[i]]

Silent(s) ==
    /\ subs[s].stage # "disposed" => subs[s].until = Ids
    /\ Out(s) \subseteq {0} \cup subs[s].until
    /\ subs[s].stage = "disposed" =>
        \A t \in Threads : Announcing(t) /\ s \in work[t].todo => Mine(t) \subseteq subs[s].until

SubOK(s) == SubIds(s) /\ Delivered(s) /\ Fresh(s) /\ Ordered(s) /\ Silent(s)

Inv ==
    /\ TypeOK /\ Control /\ IdsOK
    /\ \A t \in Threads : ThreadOK(t)
    /\ \A s \in DOMAIN subs : SubOK(s)
-----------------------------------------------------------------------------
(* Types, and what a call of an observer leaves *)

LEMMA Constants ==
    /\ MaxId \in Nat /\ MaxEvents \in Nat /\ Ids \subseteq Nat /\ 0 \in Ids
    /\ NoNote \in Note /\ Idle \in Work /\ Change(NoNote) = {}
<1>1. MaxId \in Nat /\ MaxEvents \in Nat /\ Ids \subseteq Nat /\ 0 \in Ids
  BY SubscriptionAssumption DEF Ids
<1>2. NoNote \in Note /\ Change(NoNote) = {}
  BY <1>1, SubscriptionAssumption DEF NoNote, Note, Types, Keys, Change
<1>3. Idle \in Work
  BY <1>1, <1>2 DEF Idle, Work
<1> QED
  BY <1>1, <1>2, <1>3

LEMMA WorkFields ==
    ASSUME NEW w \in Work
    PROVE  /\ w = [step |-> w.step, note |-> w.note, read |-> w.read, todo |-> w.todo]
           /\ w.step \in {"idle", "write", "notify", "call", "add", "forward"}
           /\ w.note \in Note /\ w.read \in Ids /\ w.todo \subseteq Nat
           /\ w.note.id \in Ids /\ w.note.key \in Keys \cup {Nil} /\ w.note.type \in Types
           /\ Change(w.note) \subseteq Ids
<1>1. w.note \in Note
  BY DEF Work
<1>2. w.note.id \in Ids /\ w.note.key \in Keys \cup {Nil} /\ w.note.type \in Types
  BY <1>1 DEF Note
<1>3. Change(w.note) \subseteq Ids
  BY <1>2 DEF Change
<1> QED
  BY <1>1, <1>2, <1>3 DEF Work

LEMMA SubFields ==
    ASSUME NEW r \in Sub
    PROVE  /\ r.stage \in {"buffering", "replayed", "live", "disposed"} /\ r.snapshot \in Ids
           /\ r.buffer \subseteq Note /\ r.seen \in Ids \cup {-1} /\ r.out \in Seq(Ids)
           /\ r.before \subseteq Ids /\ r.gap \subseteq Ids /\ r.until \subseteq Ids
<1> QED
  BY DEF Sub

(* What follows from the types. *)
LEMMA Typed ==
    ASSUME TypeOK
    PROVE  /\ cache \in Ids /\ lastId \in Ids /\ read \in Ids
           /\ begun \subseteq Ids /\ finished \subseteq begun
           /\ \A t \in Threads : work[t] \in Work /\ work[t].note \in Note /\ Mine(t) \subseteq Ids
           /\ subs \in Seq(Sub) /\ Len(subs) \in Nat /\ DOMAIN subs = 1..Len(subs)
           /\ \A s \in DOMAIN subs : subs[s] \in Sub /\ subs[s].out \in Seq(Ids) /\ Out(s) \subseteq Ids
<1>1. \A t \in Threads : work[t] \in Work
  BY DEF TypeOK
<1>2. \A t \in Threads : work[t].note \in Note /\ Mine(t) \subseteq Ids
  BY <1>1, WorkFields DEF Mine
<1>3. subs \in Seq(Sub) /\ Len(subs) \in Nat /\ DOMAIN subs = 1..Len(subs)
  BY DEF TypeOK
<1>4. \A s \in DOMAIN subs : subs[s] \in Sub
  BY <1>3
<1>5. \A s \in DOMAIN subs : subs[s].out \in Seq(Ids)
  BY <1>4, SubFields
<1>6. \A s \in DOMAIN subs : Out(s) \subseteq Ids
  BY <1>5 DEF Out, ToSet
<1> QED
  BY <1>1, <1>2, <1>3, <1>4, <1>5, <1>6 DEF TypeOK

(* The thread t goes on in its call, and no other thread does. *)
ThreadStep(t) ==
    /\ work' \in [Threads -> Work] /\ lastId' \in Ids /\ lastId <= lastId'
    /\ \A u \in Threads \ {t} : work'[u] = work[u]
    /\ \A i \in Mine(t)' : i \in Mine(t) \/ i > lastId
    /\ work[t].step # "write" =>
        \A i \in Mine(t) : i \in begun' \/ (work'[t].step # "write" /\ i \in Mine(t)')
    /\ begun \subseteq begun' /\ begun' \subseteq begun \cup Mine(t)
    /\ finished \subseteq finished' /\ finished' \subseteq finished \cup Mine(t)
    /\ touched \subseteq touched'

(* Thread t has left observers, or has called the last. *)
Proceeded(t, todo) ==
    /\ work' \in [Threads -> Work] /\ lastId' \in Ids /\ lastId <= lastId'
    /\ \A u \in Threads \ {t} : work'[u] = work[u]
    /\ todo # {} =>
        /\ work'[t].step = "call" /\ work'[t].todo = todo /\ work'[t].note = work[t].note
        /\ finished' = finished /\ lastId' = lastId
    /\ todo = {} =>
        /\ work'[t].step \in {"idle", "notify"} /\ Mine(t)' = {}
        /\ work'[t].note.key # Click /\ work'[t].note.id <= lastId'
        /\ work'[t].note.id = 0 \/ work'[t].note.id > lastId
        /\ finished' = finished \cup Mine(t)

LEMMA ProceedShape ==
    ASSUME TypeOK, NEW t \in Threads, NEW todo \in SUBSET Nat, Proceed(t, todo)
    PROVE  Proceeded(t, todo)
<1>1. work \in [Threads -> Work] /\ work[t] \in Work /\ lastId \in Ids
  BY DEF TypeOK
<1>2. CASE todo # {}
  <2>1. work' = [work EXCEPT ![t].step = "call", ![t].todo = todo] /\ lastId' = lastId /\ finished' = finished
    BY <1>2 DEF Proceed
  <2>2. work' = [work EXCEPT ![t] = [work[t] EXCEPT !.step = "call", !.todo = todo]]
    BY <1>1, <2>1
  <2>3. [work[t] EXCEPT !.step = "call", !.todo = todo] \in Work
    BY <1>1 DEF Work
  <2>4. work'[t] = [work[t] EXCEPT !.step = "call", !.todo = todo] /\ work' \in [Threads -> Work]
        /\ \A u \in Threads \ {t} : work'[u] = work[u]
    BY <1>1, <2>2, <2>3
  <2>5. work'[t].step = "call" /\ work'[t].todo = todo /\ work'[t].note = work[t].note
    BY <1>1, <2>4 DEF Work
  <2> QED
    BY <1>1, <1>2, <2>1, <2>4, <2>5, Constants DEF Proceeded
<1>3. CASE todo = {} /\ work[t].note.type = "store" /\ work[t].note.key = Click
  <2> DEFINE n == [type |-> "store", key |-> Content, id |-> lastId + 1]
             w == [Idle EXCEPT !.step = "notify", !.note = n]
  <2>1. lastId < MaxId /\ lastId' = lastId + 1 /\ work' = [work EXCEPT ![t] = w]
        /\ finished' = finished \cup Mine(t)
    BY <1>3 DEF Proceed, Mine
  <2>2. lastId' \in Ids /\ lastId' > lastId /\ lastId \in Nat
    BY <1>1, <2>1, Constants DEF Ids
  <2>3. n \in Note
    BY <2>1, <2>2 DEF Note, Types, Keys
  <2>4. w \in Work /\ w.step = "notify" /\ w.note = n
    <3> HIDE DEF n
    <3> QED
      BY <2>3, Constants DEF Work
  <2>6. work'[t] = w /\ work' \in [Threads -> Work] /\ \A u \in Threads \ {t} : work'[u] = work[u]
    BY <1>1, <2>1, <2>4
  <2>7. work'[t].step = "notify" /\ work'[t].note = n
    BY <2>4, <2>6
  <2>8. Mine(t)' = {} /\ n.key # Click /\ n.id = lastId'
    BY <2>1, <2>7, SubscriptionAssumption DEF Mine, Change
  <2> HIDE DEF n, w
  <2> QED
    BY <1>3, <2>1, <2>2, <2>6, <2>7, <2>8, Constants DEF Proceeded
<1>4. CASE todo = {} /\ ~(work[t].note.type = "store" /\ work[t].note.key = Click)
  <2>1. lastId' = lastId /\ work' = [work EXCEPT ![t] = Idle] /\ finished' = finished \cup Mine(t)
    BY <1>4 DEF Proceed, Mine
  <2>2. work'[t] = Idle /\ work' \in [Threads -> Work] /\ \A u \in Threads \ {t} : work'[u] = work[u]
    BY <1>1, <2>1, Constants
  <2>3. work'[t].step = "idle" /\ work'[t].note = NoNote
    BY <2>2 DEF Idle
  <2>4. Mine(t)' = {} /\ NoNote.key # Click /\ NoNote.id = 0
    BY <2>3, Constants, SubscriptionAssumption DEF Mine, NoNote, Keys
  <2> QED
    BY <1>1, <1>4, <2>1, <2>2, <2>3, <2>4, Constants DEF Proceeded
<1> QED
  BY <1>2, <1>3, <1>4
-----------------------------------------------------------------------------
(* What a step of one thread leaves to the others *)

(* Subscriptions stay, and one that forwards updates is not to buffer them  *)
(* again.                                                                   *)
SubsGoOn ==
    /\ DOMAIN subs \subseteq DOMAIN subs'
    /\ \A s \in DOMAIN subs :
        subs[s].stage \in {"live", "disposed"} => subs'[s].stage \in {"live", "disposed"}

LEMMA MineKept ==
    ASSUME NEW t \in Threads, ThreadStep(t)
    PROVE  /\ \A u \in Threads \ {t} : Mine(u)' = Mine(u)
           /\ \A u \in Threads : \A i \in Mine(u)' : i \in Mine(u) \/ i > lastId
<1>1. \A u \in Threads \ {t} : Mine(u)' = Mine(u)
  BY DEF ThreadStep, Mine
<1> QED
  BY <1>1 DEF ThreadStep

LEMMA OfKeyKept ==
    ASSUME TypeOK, NEW t \in Threads, ThreadStep(t)
    PROVE  /\ \A i : OfKey(i)' => OfKey(i) \/ i > lastId
           /\ \A i : Written(i) => Written(i)'
<1>1. ASSUME NEW i, OfKey(i)', ~(i > lastId) PROVE OfKey(i)
  <2>1. CASE i \in begun'
    BY <2>1 DEF ThreadStep, OfKey
  <2>2. CASE \E u \in Threads : i \in Mine(u)'
    BY <2>2, <1>1, MineKept DEF OfKey
  <2> QED
    BY <1>1, <2>1, <2>2 DEF OfKey
<1>2. ASSUME NEW i, Written(i) PROVE Written(i)'
  <2>1. CASE i \in begun
    BY <2>1 DEF ThreadStep, Written
  <2>2. ASSUME NEW u \in Threads, work[u].step # "write", i \in Mine(u) PROVE Written(i)'
    <3>1. CASE u = t
      BY <2>2, <3>1 DEF ThreadStep, Written
    <3>2. CASE u # t
      <4>1. work'[u] = work[u] /\ i \in Mine(u)'
        BY <2>2, <3>2, MineKept DEF ThreadStep
      <4> QED
        BY <2>2, <4>1 DEF Written
    <3> QED
      BY <3>1, <3>2
  <2> QED
    BY <1>2, <2>1, <2>2 DEF Written
<1> QED
  BY <1>1, <1>2

LEMMA PlacedKept ==
    ASSUME TypeOK, NEW t \in Threads, ThreadStep(t), NEW n \in Note, Placed(n)
    PROVE  Placed(n)'
<1>1. n.id \in Nat /\ lastId \in Nat /\ lastId' \in Nat /\ lastId <= lastId'
  BY Constants, Typed DEF Note, ThreadStep
<1>2. n.key # Click => ~OfKey(n.id)'
  BY <1>1, OfKeyKept DEF Placed
<1>3. n.key = Click => Message(n) = n.id \/ n.id \in touched'
  BY DEF Placed, ThreadStep
<1> QED
  BY <1>1, <1>2, <1>3 DEF Placed

(* The id of a change in hand has been taken. *)
LEMMA MineTaken ==
    ASSUME TypeOK, NEW t \in Threads, Placed(work[t].note)
    PROVE  \A i \in Mine(t) : i \in Nat /\ i # 0 /\ i <= lastId /\ i = work[t].note.id
<1> QED
  BY Typed, Constants DEF Placed, Mine, Change

LEMMA OthersKept ==
    ASSUME TypeOK, NEW t \in Threads, ThreadStep(t), SubsGoOn,
           \A v \in Threads : ThreadOK(v), NEW u \in Threads, u # t
    PROVE  ThreadOK(u)'
<1>1. work'[u] = work[u] /\ Mine(u)' = Mine(u) /\ ThreadOK(u)
  BY MineKept DEF ThreadStep
<1>2. Mine(u) \cap Mine(t) = {}
  BY <1>1 DEF ThreadOK
<1>3. Placed(work[u].note)'
  <2>1. Placed(work[u].note) /\ work[u].note \in Note
    BY <1>1, Typed DEF ThreadOK
  <2>2. PICK n \in Note : n = work[u].note /\ Placed(n)
    BY <2>1
  <2>3. Placed(n)' /\ n = work'[u].note
    BY <1>1, <2>2, PlacedKept
  <2> QED
    BY <2>3 DEF Placed
<1>4. /\ work'[u].step = "idle" => Mine(u)' = {}
      /\ work'[u].step = "write" =>
          work'[u].note.id # 0 /\ (work'[u].note.type \in {"store", "touch"} => work'[u].note.key = Click)
  BY <1>1 DEF ThreadOK
<1>5. work'[u].step \in {"write", "notify"} => Mine(u)' \cap begun' = {}
  BY <1>1, <1>2 DEF ThreadOK, ThreadStep
<1>6. Announcing(u)' => Mine(u)' \subseteq begun' /\ work'[u].todo \subseteq DOMAIN subs'
  BY <1>1 DEF ThreadOK, ThreadStep, Announcing, SubsGoOn
<1>7. Mine(u)' \cap finished' = {}
  BY <1>1, <1>2 DEF ThreadOK, ThreadStep
<1>8. work'[u].step = "forward" => \A s \in Turn(u)' : subs'[s].stage \in {"live", "disposed"}
  <2>1. ASSUME work[u].step = "forward", NEW s \in Turn(u)' PROVE subs'[s].stage \in {"live", "disposed"}
    <3>1. s \in Turn(u)
      BY <1>1, <2>1 DEF Turn
    <3>2. s \in DOMAIN subs
      BY <1>1, <2>1, <3>1 DEF ThreadOK, Announcing, Turn
    <3> QED
      BY <1>1, <2>1, <3>1, <3>2 DEF ThreadOK, SubsGoOn
  <2> QED
    BY <1>1, <2>1
<1>9. \A v \in Threads \ {u} : Mine(u)' \cap Mine(v)' = {}
  <2>1. ASSUME NEW v \in Threads \ {u}, NEW i \in Mine(u)', i \in Mine(v)' PROVE FALSE
    <3>1. i \in Mine(u) /\ i <= lastId /\ i \in Nat /\ lastId \in Nat
      BY <1>1, <2>1, MineTaken, Typed, Constants DEF ThreadOK
    <3>2. i \in Mine(v)
      BY <2>1, <3>1, MineKept
    <3> QED
      BY <1>1, <3>1, <3>2 DEF ThreadOK
  <2> QED
    BY <2>1
<1> QED
  BY <1>3, <1>4, <1>5, <1>6, <1>7, <1>8, <1>9 DEF ThreadOK

(* The ids of the thread that steps are not those of another.               *)
LEMMA OwnApart ==
    ASSUME TypeOK, NEW t \in Threads, ThreadStep(t), \A v \in Threads : ThreadOK(v)
    PROVE  \A v \in Threads \ {t} : Mine(t)' \cap Mine(v)' = {}
<1>1. ASSUME NEW v \in Threads \ {t}, NEW i \in Mine(t)', i \in Mine(v)' PROVE FALSE
  <2>1. i \in Mine(v)
    BY <1>1, MineKept
  <2>2. i \in Nat /\ i <= lastId /\ lastId \in Nat
    BY <2>1, MineTaken, Typed, Constants DEF ThreadOK
  <2>3. i \in Mine(t)
    BY <1>1, <2>2 DEF ThreadStep
  <2> QED
    BY <2>1, <2>3 DEF ThreadOK
<1> QED
  BY <1>1

(* The ids of the changes stay in place when nothing is taken or written.   *)
LEMMA IdsKept ==
    ASSUME TypeOK, IdsOK, NEW t \in Threads, ThreadStep(t), Placed(work[t].note),
           UNCHANGED <<read, earlier>>, cache' \in {0, cache} \/ Written(cache)'
    PROVE  IdsOK'
<1>0. lastId \in Nat /\ lastId' \in Nat /\ lastId <= lastId'
  BY Typed, Constants DEF ThreadStep
<1>1. begun' \subseteq 1..lastId'
  <2>1. ASSUME NEW i \in begun' PROVE i \in 1..lastId'
    <3>1. i \in begun \/ i \in Mine(t)
      BY <2>1 DEF ThreadStep
    <3>2. CASE i \in begun
      BY <1>0, <3>2 DEF IdsOK
    <3>3. CASE i \in Mine(t)
      BY <1>0, <3>3, MineTaken
    <3> QED
      BY <3>1, <3>2, <3>3
  <2> QED
    BY <2>1
<1>2. \A i \in {cache', read'} : i # 0 => Written(i)'
  <2>1. read # 0 => Written(read)
    BY DEF IdsOK
  <2>2. cache # 0 => Written(cache)
    BY DEF IdsOK
  <2>3. read' # 0 => Written(read)'
    BY <2>1, OfKeyKept
  <2>4. ASSUME cache' # 0 PROVE Written(cache)'
    <3>1. CASE cache' = cache
      <4>1. PICK c : c = cache /\ cache' = c
        BY <3>1
      <4>2. Written(c)'
        BY <2>2, <2>4, <4>1, OfKeyKept
      <4> QED
        BY <4>1, <4>2 DEF Written
    <3> QED
      BY <2>4, <3>1
  <2> QED
    BY <2>3, <2>4
<1>3. \A n \in Ids : earlier'[n] \subseteq {m \in finished' : m < n}
  BY DEF IdsOK, ThreadStep
<1> QED
  BY <1>1, <1>2, <1>3 DEF IdsOK
-----------------------------------------------------------------------------
(* What a step of a thread leaves of a subscription that it leaves alone *)

ReachesThen(s, X) ==
    /\ finished' \subseteq X
    /\ \A t \in Threads : Announcing(t)' => s \in work'[t].todo \/ Mine(t)' \subseteq X

(* Thread t does not pass over the observer s. *)
Passes(t, s) ==
    /\ Announcing(t)' =>
        s \in work'[t].todo \/ (Announcing(t) /\ s \notin work[t].todo /\ Mine(t)' \subseteq Mine(t))
    /\ finished' = finished \/ (Announcing(t) /\ s \notin work[t].todo)

LEMMA ReachesKept ==
    ASSUME NEW t \in Threads, ThreadStep(t), NEW s, NEW X, NEW Y, X \subseteq Y, Reaches(s, X),
           Passes(t, s) \/ (Mine(t) \subseteq Y /\ (Announcing(t)' => Mine(t)' \subseteq Mine(t)))
    PROVE  ReachesThen(s, Y)
<1>1. Announcing(t) => s \in work[t].todo \/ Mine(t) \subseteq X
  BY DEF Reaches
<1>2. finished' \subseteq Y
  <2>1. finished \subseteq X /\ finished' \subseteq finished \cup Mine(t)
    BY DEF Reaches, ThreadStep
  <2> QED
    BY <1>1, <2>1 DEF Passes
<1>3. ASSUME NEW u \in Threads, Announcing(u)' PROVE s \in work'[u].todo \/ Mine(u)' \subseteq Y
  <2>1. CASE u = t
    BY <1>1, <1>3, <2>1 DEF Passes
  <2>2. CASE u # t
    <3>1. work'[u] = work[u] /\ Mine(u)' = Mine(u) /\ Announcing(u)
      BY <1>3, <2>2, MineKept DEF ThreadStep, Announcing
    <3> QED
      BY <3>1 DEF Reaches
  <2> QED
    BY <2>1, <2>2
<1> QED
  BY <1>2, <1>3 DEF ReachesThen

(* The observer s of a thread step: it is left as it is. *)
LeavesSub(t, s) ==
    /\ subs'[s] = subs[s] /\ s \in DOMAIN subs /\ ended' = ended
    /\ \A n \in Ids : n <= lastId => earlier'[n] = earlier[n]
    /\ subs[s].stage # "disposed" => Passes(t, s)
    /\ Announcing(t)' /\ s \in work'[t].todo =>
        /\ Mine(t)' \subseteq Mine(t)
        /\ \/ Announcing(t) /\ s \in work[t].todo
           \/ subs[s].stage # "disposed" /\ Mine(t) \cap begun = {}

(* A thread that has called the observer calls it with nothing else. *)
LEMMA FreshKept ==
    ASSUME NEW t \in Threads, ThreadStep(t), NEW s, subs'[s].before = subs[s].before, Fresh(s),
           Announcing(t)' => s \notin work'[t].todo
    PROVE  Fresh(s)'
<1>1. ASSUME NEW u \in Threads, Announcing(u)', s \in work'[u].todo
      PROVE  Mine(u)' \cap subs[s].before = {}
  <2>1. u # t
    BY <1>1
  <2>2. work'[u] = work[u] /\ Mine(u)' = Mine(u) /\ Announcing(u) /\ s \in work[u].todo
    BY <1>1, <2>1, MineKept DEF ThreadStep, Announcing
  <2> QED
    BY <2>2 DEF Fresh
<1> QED
  BY <1>1 DEF Fresh

LEMMA SubIdsKept ==
    ASSUME TypeOK, NEW t \in Threads, ThreadStep(t), NEW s \in DOMAIN subs,
           subs'[s].snapshot = subs[s].snapshot, subs'[s].seen = subs[s].seen,
           subs'[s].out = subs[s].out, subs'[s].before = subs[s].before, SubIds(s),
           \A n \in subs'[s].buffer :
               \/ n \in subs[s].buffer
               \/ n \in Note /\ Placed(n) /\ Change(n) \subseteq begun \ subs[s].before
    PROVE  SubIds(s)'
<1>0. subs[s] \in Sub /\ lastId \in Nat /\ lastId' \in Nat /\ lastId <= lastId' /\ Out(s) \subseteq Ids
  BY Typed, Constants DEF ThreadStep
<1>s. subs[s].seen \in Int /\ subs[s].seen <= lastId
  <2>1. subs[s].seen \in Ids \cup {-1} /\ Ids \subseteq Nat
    BY <1>0, SubFields, Constants
  <2>2. subs[s].seen \in Int
    <3>1. subs[s].seen = -1 \/ subs[s].seen \in Nat
      BY <2>1
    <3> QED
      BY <3>1
  <2>3. subs[s].seen <= lastId
    BY DEF SubIds
  <2> QED
    BY <2>2, <2>3
<1>1. Out(s)' = Out(s) /\ Combined(s)' = Combined(s)
  BY DEF Out, Combined
<1>2. ASSUME subs[s].snapshot # 0 PROVE Written(subs[s].snapshot)'
  <2>1. PICK i : i = subs[s].snapshot
    OBVIOUS
  <2>2. Written(i)'
    BY <1>2, <2>1, OfKeyKept DEF SubIds
  <2> QED
    BY <2>1, <2>2 DEF Written
<1>b. subs[s].before \subseteq begun'
  BY DEF SubIds, ThreadStep
<1>3. \A n \in subs'[s].buffer : Placed(n)' /\ Change(n) \subseteq begun' \ subs[s].before
  <2>1. ASSUME NEW n \in subs'[s].buffer
        PROVE  Placed(n)' /\ Change(n) \subseteq begun' \ subs[s].before
    <3>1. n \in Note /\ Placed(n) /\ Change(n) \subseteq begun \ subs[s].before
      BY <1>0, <2>1, SubFields DEF SubIds
    <3> QED
      BY <3>1, PlacedKept DEF ThreadStep
  <2> QED
    BY <2>1
<1>4. Out(s) \subseteq 0..lastId'
  BY <1>0, Constants DEF SubIds
<1>5. subs[s].seen <= lastId'
  BY <1>0, <1>s
<1>6. Combined(s) /\ OfKey(subs[s].seen)' => subs[s].seen \in Got(s)
  <2>1. PICK i : i = subs[s].seen
    OBVIOUS
  <2>2. i <= lastId /\ i \in Int
    BY <1>s, <2>1
  <2>3. Combined(s) /\ OfKey(i)' => i \in Got(s)
    BY <1>0, <2>1, <2>2, OfKeyKept DEF SubIds
  <2>4. OfKey(subs[s].seen)' => OfKey(i)'
    BY <2>1 DEF OfKey
  <2> QED
    BY <2>1, <2>3, <2>4
<1>7. Got(s) \subseteq Got(s)'
  BY <1>1 DEF Got, ThreadStep
<1> QED
  BY <1>1, <1>2, <1>b, <1>3, <1>4, <1>5, <1>6, <1>7 DEF SubIds

LEMMA SubKept ==
    ASSUME TypeOK, NEW t \in Threads, ThreadStep(t), NEW s, LeavesSub(t, s), SubOK(s)
    PROVE  SubOK(s)'
<1>1. s \in DOMAIN subs /\ subs'[s] = subs[s] /\ ended' = ended /\ subs[s] \in Sub
  BY Typed DEF LeavesSub
<1>2. SubIds(s)'
  BY <1>1, SubIdsKept DEF SubOK
<1>3. Delivered(s)'
  <2>1. ASSUME NEW X, subs[s].stage # "disposed", Reaches(s, X) PROVE ReachesThen(s, X)
    BY <2>1, ReachesKept DEF LeavesSub
  <2>2. PICK B : B = subs[s].before \cup OwnIds(subs[s].buffer)
    OBVIOUS
  <2>3. subs[s].stage = "buffering" => ReachesThen(s, B)
    BY <2>1, <2>2 DEF SubOK, Delivered
  <2>4. PICK G : G = subs[s].gap \cup Got(s)
    OBVIOUS
  <2>5. subs[s].stage = "live" /\ ~ended => ReachesThen(s, G)
    BY <2>1, <2>4 DEF SubOK, Delivered
  <2>6. B = (subs[s].before \cup OwnIds(subs[s].buffer))' /\ G \subseteq (subs[s].gap \cup Got(s))'
        /\ Got(s) \subseteq Got(s)' /\ Combined(s)' = Combined(s) /\ (Began(s) => Began(s)')
    BY <1>1, <2>2, <2>4 DEF OwnIds, Got, Out, Combined, Began, ThreadStep
  <2>7. /\ subs'[s].stage = "buffering" => Reaches(s, subs[s].before \cup OwnIds(subs[s].buffer))'
        /\ subs'[s].stage = "live" /\ ~ended' => Reaches(s, subs[s].gap \cup Got(s))'
    BY <1>1, <2>3, <2>5, <2>6 DEF Reaches, ReachesThen
  <2>8. /\ subs[s].stage = "replayed" => subs[s].gap \subseteq Got(s) /\ Began(s)
        /\ subs[s].stage = "live" /\ ~ended => (Combined(s) => Began(s))
    BY DEF SubOK, Delivered
  <2> QED
    BY <1>1, <2>6, <2>7, <2>8 DEF Delivered
<1>f. Fresh(s)'
  <2>1. ASSUME NEW u \in Threads, Announcing(u)', s \in work'[u].todo
        PROVE  Mine(u)' \cap subs[s].before = {}
    <3>1. CASE u = t
      <4>1. Mine(t)' \subseteq Mine(t) /\ ((Announcing(t) /\ s \in work[t].todo) \/ Mine(t) \cap begun = {})
        BY <2>1, <3>1 DEF LeavesSub
      <4>2. Mine(t) \cap subs[s].before = {}
        BY <4>1 DEF SubOK, Fresh, SubIds
      <4> QED
        BY <3>1, <4>1, <4>2
    <3>2. CASE u # t
      <4>1. work'[u] = work[u] /\ Mine(u)' = Mine(u) /\ Announcing(u) /\ s \in work[u].todo
        BY <2>1, <3>2, MineKept DEF ThreadStep, Announcing
      <4>2. Mine(u) \cap subs[s].before = {}
        BY <4>1 DEF SubOK, Fresh
      <4> QED
        BY <4>1, <4>2
    <3> QED
      BY <3>1, <3>2
  <2> QED
    BY <1>1, <2>1 DEF Fresh
<1>4. Ordered(s)'
  <2>1. ASSUME NEW i \in DOMAIN subs[s].out, NEW j \in DOMAIN subs[s].out, i < j
        PROVE  subs[s].out[j] \notin earlier'[subs[s].out[i]]
    <3>1. subs[s].out[i] \in Out(s)
      BY <2>1 DEF Out, ToSet
    <3>2. subs[s].out[i] \in Ids /\ subs[s].out[i] <= lastId
      BY <1>1, <3>1, Typed, Constants DEF SubOK, SubIds
    <3>3. earlier'[subs[s].out[i]] = earlier[subs[s].out[i]]
      BY <3>2 DEF LeavesSub
    <3> QED
      BY <2>1, <3>3 DEF SubOK, Ordered
  <2> QED
    BY <1>1, <2>1 DEF Ordered
<1>5. Silent(s)'
  <2>1. Out(s)' = Out(s)
    BY <1>1 DEF Out
  <2>2. ASSUME subs[s].stage = "disposed", NEW u \in Threads, Announcing(u)', s \in work'[u].todo
        PROVE  Mine(u)' \subseteq subs[s].until
    <3>1. CASE u = t
      <4>1. Announcing(t) /\ s \in work[t].todo /\ Mine(t)' \subseteq Mine(t)
        BY <2>2, <3>1 DEF LeavesSub
      <4>2. Mine(t) \subseteq subs[s].until
        BY <2>2, <4>1 DEF SubOK, Silent
      <4> QED
        BY <3>1, <4>1, <4>2
    <3>2. CASE u # t
      <4>1. work'[u] = work[u] /\ Mine(u)' = Mine(u) /\ Announcing(u) /\ s \in work[u].todo
        BY <2>2, <3>2, MineKept DEF ThreadStep, Announcing
      <4>2. Mine(u) \subseteq subs[s].until
        BY <2>2, <4>1 DEF SubOK, Silent
      <4> QED
        BY <4>1, <4>2
    <3> QED
      BY <3>1, <3>2
  <2> QED
    BY <1>1, <2>1, <2>2 DEF SubOK, Silent
<1> QED
  BY <1>2, <1>3, <1>f, <1>4, <1>5 DEF SubOK
-----------------------------------------------------------------------------
(* The steps of a thread *)

LEMMA ThreadsTyped ==
    ASSUME Inv, NEW t \in Threads, ThreadStep(t), SubsGoOn, ThreadOK(t)'
    PROVE  \A u \in Threads : ThreadOK(u)'
<1> QED
  BY OthersKept DEF Inv

(* A step of a thread that leaves the connection as it is. *)
LEMMA ApartStep ==
    ASSUME Inv, NEW t \in Threads, ThreadStep(t), ThreadOK(t)', IdsOK',
           UNCHANGED <<handlerVars, socketVars, waits>>, cache' \in Ids, events' \in 0..MaxEvents,
           earlier' \in [Ids -> SUBSET Ids], finished' \subseteq begun', touched' \subseteq Ids,
           \A s \in DOMAIN subs : LeavesSub(t, s)
    PROVE  Inv'
<1>1. SubsGoOn
  BY DEF SubsGoOn, handlerVars
<1>2. \A u \in Threads : ThreadOK(u)'
  BY <1>1, ThreadsTyped
<1>3. \A s \in DOMAIN subs' : SubOK(s)'
  <2>1. DOMAIN subs' = DOMAIN subs
    BY DEF handlerVars
  <2> QED
    BY <2>1, SubKept DEF Inv
<1>4. Control'
  BY DEF Inv, Control, handlerVars, socketVars
<1>5. begun' \subseteq Ids
  BY Typed DEF Inv, ThreadStep
<1>6. TypeOK'
  BY <1>5 DEF Inv, TypeOK, handlerVars, socketVars, ThreadStep
<1> QED
  BY <1>2, <1>3, <1>4, <1>6 DEF Inv

LEMMA IdleMine ==
    ASSUME Inv, NEW t \in Threads, work[t].step = "idle"
    PROVE  Mine(t) = {} /\ ~Announcing(t) /\ ThreadOK(t)
<1> QED
  BY DEF Inv, ThreadOK, Announcing

(* A call that begins. *)
LEMMA BeginStep ==
    ASSUME Inv, NEW t \in Threads, work[t].step = "idle", NEW w \in Work,
           work' = [work EXCEPT ![t] = w], w.step \in {"write", "notify"},
           w.step = "write" =>
               w.note.id # 0 /\ (w.note.type \in {"store", "touch"} => w.note.key = Click),
           \/ w.note.id = 0 /\ lastId' = lastId /\ earlier' = earlier
           \/ /\ w.note.id = lastId + 1 /\ lastId' = lastId + 1 /\ lastId < MaxId
              /\ earlier' = [earlier EXCEPT ![lastId + 1] = finished],
           w.note.key = Click => Message(w.note) = w.note.id \/ w.note.id \in touched',
           touched \subseteq touched', touched' \subseteq Ids,
           Event, UNCHANGED <<cache, handlerVars, waits, socketVars, begun, finished>>
    PROVE  Inv'
<1>0. Mine(t) = {} /\ ~Announcing(t) /\ TypeOK /\ IdsOK /\ \A v \in Threads : ThreadOK(v)
  BY IdleMine DEF Inv
<1>1. lastId \in Nat /\ lastId' \in Nat /\ lastId <= lastId' /\ lastId' \in Ids /\ lastId \in Ids
  BY <1>0, Typed, Constants DEF Ids
<1>2. work'[t] = w /\ work' \in [Threads -> Work] /\ \A u \in Threads \ {t} : work'[u] = work[u]
  BY <1>0 DEF TypeOK
<1>3. w.note \in Note /\ w.note.id \in Nat /\ ~Announcing(t)'
  BY <1>2, WorkFields, Constants DEF Announcing
<1>4. \A i \in Mine(t)' : i = w.note.id /\ i = lastId + 1 /\ i = lastId'
  BY <1>2, <1>3 DEF Mine, Change
<1>5. ThreadStep(t)
  BY <1>0, <1>1, <1>2, <1>4 DEF ThreadStep
<1>6. \A i : i > lastId => ~OfKey(i) /\ i \notin begun /\ i \notin finished
  <2>1. ASSUME NEW i, i > lastId PROVE i \notin begun /\ i \notin finished
    <3>1. begun \subseteq 1..lastId /\ finished \subseteq begun
      BY <1>0 DEF IdsOK, TypeOK
    <3>2. i \notin 1..lastId
      BY <1>1, <2>1
    <3> QED
      BY <3>1, <3>2
  <2>2. ASSUME NEW i, i > lastId, NEW u \in Threads, i \in Mine(u) PROVE FALSE
    BY <1>0, <1>1, <2>2, MineTaken DEF ThreadOK
  <2> QED
    BY <2>1, <2>2 DEF OfKey
<1>7. Placed(w.note)'
  <2>1. w.note.id <= lastId'
    BY <1>1
  <2>2. ASSUME w.note.key # Click PROVE ~OfKey(w.note.id)'
    <3>1. Mine(t)' = {}
      BY <1>2, <2>2 DEF Mine, Change
    <3>2. w.note.id \notin begun
      BY <1>0, <1>1, <1>6 DEF IdsOK
    <3>3. ASSUME NEW u \in Threads, w.note.id \in Mine(u) PROVE FALSE
      BY <1>0, <1>1, <3>3, MineTaken DEF ThreadOK
    <3>4. \A u \in Threads : w.note.id \notin Mine(u)'
      BY <3>1, <3>3, <1>5, MineKept
    <3> QED
      BY <3>2, <3>4 DEF OfKey
  <2> QED
    BY <2>1, <2>2 DEF Placed, Message
<1>8. ThreadOK(t)'
  <2>1. Placed(work[t].note)'
    BY <1>2, <1>7 DEF Placed
  <2>2. Mine(t)' \cap begun' = {} /\ Mine(t)' \cap finished' = {}
    BY <1>1, <1>4, <1>6
  <2>3. \A v \in Threads \ {t} : Mine(t)' \cap Mine(v)' = {}
    BY <1>0, <1>5, OwnApart
  <2> QED
    BY <1>2, <1>3, <2>1, <2>2, <2>3 DEF ThreadOK
<1>9. IdsOK'
  <2>1. begun' \subseteq 1..lastId'
    BY <1>0, <1>1 DEF IdsOK
  <2>2. \A i \in {cache', read'} : i # 0 => Written(i)'
    <3>1. cache' = cache /\ read' = read
      BY DEF handlerVars
    <3> QED
      BY <1>0, <1>5, <3>1, OfKeyKept DEF IdsOK
  <2>3. \A n \in Ids : earlier'[n] \subseteq {m \in finished' : m < n}
    <3>1. \A n \in Ids : earlier'[n] = earlier[n] \/ (n = lastId + 1 /\ earlier'[n] = finished)
      BY <1>0 DEF TypeOK
    <3>2. \A m \in finished : m < lastId + 1
      BY <1>0, <1>1 DEF IdsOK, TypeOK
    <3> QED
      BY <1>0, <3>1, <3>2 DEF IdsOK
  <2> QED
    BY <2>1, <2>2, <2>3 DEF IdsOK
<1>10. \A s \in DOMAIN subs : LeavesSub(t, s)
  <2>1. \A n \in Ids : n <= lastId => earlier'[n] = earlier[n]
    BY <1>0, <1>1, Constants DEF TypeOK
  <2> QED
    BY <1>3, <2>1 DEF LeavesSub, Passes, handlerVars, socketVars
<1>11. earlier' \in [Ids -> SUBSET Ids] /\ finished' \subseteq begun'
  BY <1>0, <1>1 DEF TypeOK
<1>12. events' \in 0..MaxEvents /\ cache' \in Ids
  BY <1>0, Constants DEF TypeOK, Event
<1> QED
  BY <1>5, <1>8, <1>9, <1>10, <1>11, <1>12, ApartStep
LEMMA RequestStep ==
    ASSUME Inv, NEW t \in Threads, Request(t)
    PROVE  Inv'
<1>0. TypeOK /\ lastId \in Ids /\ cache \in Ids /\ lastId \in Nat /\ MaxId \in Nat
  BY Typed, Constants DEF Inv
<1>1. ASSUME NEW type \in Types, NEW k \in Keys \cup {Nil}, type \in {"store", "touch"} => k = Click,
             k = Click => type \in {"store", "remove", "touch"}, Begins(t, type), TakeId(t, type, k)
      PROVE  Inv'
  <2> DEFINE n == [type |-> type, key |-> k, id |-> lastId + 1]
  <2>1. lastId + 1 \in Ids /\ lastId < MaxId /\ lastId + 1 # 0
    BY <1>0, <1>1 DEF TakeId, Ids
  <2>2. n \in Note
    BY <2>1 DEF Note
  <2>3. n.id = lastId + 1 /\ n.key = k /\ n.type = type
    OBVIOUS
  <2>4. work' = [work EXCEPT ![t] = [Idle EXCEPT !.step = "write", !.read = cache, !.note = n]]
    BY <1>1 DEF TakeId
  <2>t. /\ touched \subseteq touched' /\ touched' \subseteq Ids
        /\ k = Click => Message(n) = n.id \/ n.id \in touched'
    <3>1. touched \subseteq Ids /\ touched' = IF type = "touch" THEN touched \cup {lastId + 1} ELSE touched
      BY <1>0, <1>1 DEF TypeOK, TakeId
    <3>2. CASE type = "touch"
      BY <2>1, <2>3, <3>1, <3>2
    <3>3. CASE type \in {"store", "remove"}
      BY <2>3, <3>1, <3>3 DEF Message
    <3>4. CASE type \notin {"store", "remove", "touch"}
      BY <1>1, <3>1, <3>4
    <3> QED
      BY <3>2, <3>3, <3>4
  <2> HIDE DEF n
  <2>5. PICK w : w = [Idle EXCEPT !.step = "write", !.read = cache, !.note = n]
    OBVIOUS
  <2>6. w \in Work /\ w.step = "write" /\ w.note = n
    BY <2>2, <2>5, <1>0, Constants DEF Work
  <2>7. work' = [work EXCEPT ![t] = w]
    BY <2>4, <2>5
  <2>8. w.note.id # 0 /\ (w.note.type \in {"store", "touch"} => w.note.key = Click)
    BY <1>1, <2>1, <2>3, <2>6
  <2>9. work[t].step = "idle" /\ Event
    BY <1>1 DEF Begins
  <2>10. /\ w.note.id = lastId + 1 /\ lastId' = lastId + 1 /\ lastId < MaxId
         /\ earlier' = [earlier EXCEPT ![lastId + 1] = finished]
         /\ UNCHANGED <<cache, handlerVars, waits, socketVars, begun, finished>>
    BY <1>1, <2>3, <2>6 DEF TakeId
  <2> QED
    BY <2>3, <2>t, <2>6, <2>7, <2>8, <2>9, <2>10, BeginStep
<1>2. CASE Retrieve(t)
  <2>1. PICK w : w = [Idle EXCEPT !.step = "notify", !.note.key = Click]
    OBVIOUS
  <2>2. w = [Idle EXCEPT !.step = "notify", !.note = [NoNote EXCEPT !.key = Click]]
    BY <2>1 DEF Idle
  <2>3. [NoNote EXCEPT !.key = Click] \in Note /\ [NoNote EXCEPT !.key = Click].id = 0
    BY Constants DEF NoNote, Note, Keys
  <2>4. w \in Work /\ w.step = "notify" /\ w.note.id = 0 /\ Message(w.note) = 0
    <3>1. [NoNote EXCEPT !.key = Click].type = "retrieve"
      BY DEF NoNote
    <3> QED
      BY <2>2, <2>3, <3>1, Constants DEF Work, Message
  <2>5. /\ work' = [work EXCEPT ![t] = w] /\ work[t].step = "idle" /\ Event
        /\ lastId' = lastId /\ earlier' = earlier /\ touched' = touched
        /\ UNCHANGED <<cache, handlerVars, waits, socketVars, begun, finished>>
    BY <1>2, <2>1 DEF Retrieve, Begins, history
  <2>6. touched \subseteq Ids
    BY <1>0 DEF TypeOK
  <2> QED
    BY <2>4, <2>5, <2>6, BeginStep
<1>3. CASE Put(t)
  BY <1>1, <1>3 DEF Put, Types, Keys
<1>4. CASE RemoveKey(t)
  BY <1>1, <1>4 DEF RemoveKey, Types, Keys
<1>5. CASE Touch(t)
  BY <1>1, <1>5 DEF Touch, Types, Keys
<1>6. CASE Clear(t)
  BY <1>1, <1>6, SubscriptionAssumption DEF Clear, Types, Keys
<1> QED
  BY <1>2, <1>3, <1>4, <1>5, <1>6 DEF Request

LEMMA WriteStep ==
    ASSUME Inv, NEW t \in Threads, Write(t)
    PROVE  Inv'
<1>0. /\ TypeOK /\ IdsOK /\ (\A v \in Threads : ThreadOK(v)) /\ work[t].step = "write"
      /\ work[t] \in Work /\ cache \in Ids /\ work[t].note.id \in Ids
  BY Typed, WorkFields DEF Inv, Write
<1>1. /\ UNCHANGED <<events, lastId, handlerVars, waits, socketVars, history>>
      /\ cache' = CASE work[t].note.type = "store" -> work[t].note.id
                    [] work[t].note.type = "touch" ->
                            IF cache = work[t].read THEN work[t].note.id ELSE cache
                    [] OTHER -> 0
  BY DEF Write
<1>2. cache' \in Ids /\ (cache' \in {0, cache} \/
          (cache' = work[t].note.id /\ work[t].note.type \in {"store", "touch"}))
  BY <1>0, <1>1, Constants
<1>3. CASE work[t].note.type = "remove" /\ cache = 0
  <2>1. work' = [work EXCEPT ![t] = Idle] /\ cache' = 0
    BY <1>1, <1>3 DEF Write
  <2>2. work'[t] = Idle /\ work' \in [Threads -> Work] /\ \A u \in Threads \ {t} : work'[u] = work[u]
    BY <1>0, <2>1, Constants DEF TypeOK
  <2>3. work'[t].step = "idle" /\ work'[t].note = NoNote /\ Mine(t)' = {} /\ ~Announcing(t)'
    BY <2>2, Constants DEF Idle, Mine, Announcing
  <2>4. ThreadStep(t)
    BY <1>0, <1>1, <2>2, <2>3, Typed, Constants DEF ThreadStep, history
  <2>5. Placed(work[t].note)'
    <3>1. 0 <= lastId' /\ begun' = begun
      BY <1>0, <1>1, Typed, Constants DEF history
    <3>2. 0 \notin begun
      BY <1>0 DEF IdsOK
    <3>3. \A u \in Threads : 0 \notin Mine(u)'
      BY DEF Mine, Change
    <3> QED
      BY <2>3, <3>1, <3>2, <3>3 DEF Placed, OfKey, NoNote, Message
  <2>6. ThreadOK(t)'
    BY <2>3, <2>5 DEF ThreadOK
  <2>7. IdsOK'
    BY <1>0, <1>1, <2>1, <2>4, IdsKept DEF ThreadOK, handlerVars, history
  <2>8. \A s \in DOMAIN subs : LeavesSub(t, s)
    BY <1>1, <2>3 DEF LeavesSub, Passes, handlerVars, socketVars, history
  <2> QED
    BY <1>0, <1>1, <1>2, <2>4, <2>6, <2>7, <2>8, ApartStep DEF TypeOK, handlerVars, history
<1>4. CASE ~(work[t].note.type = "remove" /\ cache = 0)
  <2>1. work' = [work EXCEPT ![t] = [work[t] EXCEPT !.step = "notify"]]
    BY <1>4, <1>0 DEF Write, TypeOK
  <2>2. PICK w : w = [work[t] EXCEPT !.step = "notify"]
    OBVIOUS
  <2>3. w \in Work /\ w.step = "notify" /\ w.note = work[t].note
    BY <1>0, <2>2 DEF Work
  <2>4. work'[t] = w /\ work' \in [Threads -> Work] /\ \A u \in Threads \ {t} : work'[u] = work[u]
    BY <1>0, <2>1, <2>2, <2>3 DEF TypeOK
  <2>5. work'[t].step = "notify" /\ work'[t].note = work[t].note /\ Mine(t)' = Mine(t) /\ ~Announcing(t)'
    BY <2>3, <2>4 DEF Mine, Announcing
  <2>6. ThreadStep(t)
    BY <1>0, <1>1, <2>4, <2>5, Typed, Constants DEF ThreadStep, history
  <2>7. Placed(work[t].note)'
    <3>1. PICK n \in Note : n = work[t].note /\ Placed(n)
      BY <1>0, Typed DEF ThreadOK
    <3>2. Placed(n)' /\ n = work'[t].note
      BY <1>0, <2>5, <2>6, <3>1, PlacedKept
    <3> QED
      BY <3>2 DEF Placed
  <2>8. ThreadOK(t)'
    <3>1. Mine(t) \cap begun = {} /\ Mine(t) \cap finished = {} /\ begun' = begun /\ finished' = finished
      BY <1>0, <1>1 DEF ThreadOK, history
    <3>2. \A v \in Threads \ {t} : Mine(t)' \cap Mine(v)' = {}
      BY <1>0, <2>6, OwnApart
    <3> QED
      BY <2>5, <2>7, <3>1, <3>2 DEF ThreadOK
  <2>9. cache' \in {0, cache} \/ Written(cache)'
    <3>1. ASSUME cache' = work[t].note.id, work[t].note.type \in {"store", "touch"}
          PROVE  Written(cache)'
      <4>1. cache' \in Mine(t)'
        BY <1>0, <2>5, <3>1 DEF ThreadOK, Mine, Change
      <4> QED
        BY <2>5, <4>1 DEF Written
    <3> QED
      BY <1>2, <3>1
  <2>10. IdsOK'
    BY <1>0, <1>1, <2>6, <2>9, IdsKept DEF ThreadOK, handlerVars, history
  <2>11. \A s \in DOMAIN subs : LeavesSub(t, s)
    BY <1>1, <2>5 DEF LeavesSub, Passes, handlerVars, socketVars, history
  <2> QED
    BY <1>0, <1>1, <1>2, <2>6, <2>8, <2>10, <2>11, ApartStep DEF TypeOK, handlerVars, history
<1> QED
  BY <1>3, <1>4
(* A thread that leaves observers or comes to the first: its own invariant. *)
LEMMA ProceedThread ==
    ASSUME Inv, NEW t \in Threads, NEW todo \in SUBSET Nat, Proceeded(t, todo),
           work[t].step # "write", todo \subseteq DOMAIN subs', SubsGoOn,
           begun \subseteq begun', begun' \subseteq begun \cup Mine(t), Mine(t) \subseteq begun',
           touched' = touched
    PROVE  ThreadStep(t) /\ ThreadOK(t)' /\ finished' \subseteq begun'
           /\ (Announcing(t)' => todo # {} /\ work'[t].todo = todo /\ Mine(t)' = Mine(t))
<1>0. /\ TypeOK /\ IdsOK /\ (\A v \in Threads : ThreadOK(v)) /\ work[t].note \in Note
      /\ lastId \in Nat /\ lastId' \in Nat /\ lastId <= lastId'
  BY Typed, Constants DEF Inv, Proceeded
<1>1. finished \subseteq finished' /\ finished' \subseteq finished \cup Mine(t)
  BY DEF Proceeded
<1>2. Mine(t)' = Mine(t) \/ Mine(t)' = {}
  BY DEF Proceeded, Mine
<1>3. ThreadStep(t)
  BY <1>0, <1>1, <1>2 DEF ThreadStep, Proceeded
<1>4. finished' \subseteq begun'
  BY <1>0, <1>1 DEF TypeOK
<1>5. \A v \in Threads \ {t} : Mine(t)' \cap Mine(v)' = {}
  BY <1>0, <1>3, OwnApart
<1>6. CASE todo # {}
  <2>1. work'[t].step = "call" /\ work'[t].todo = todo /\ work'[t].note = work[t].note
        /\ finished' = finished /\ Mine(t)' = Mine(t)
    BY <1>6 DEF Proceeded, Mine
  <2>2. Placed(work[t].note)'
    <3>1. PICK n \in Note : n = work[t].note /\ Placed(n)
      BY <1>0 DEF ThreadOK
    <3>2. Placed(n)' /\ n = work'[t].note
      BY <1>0, <1>3, <2>1, <3>1, PlacedKept
    <3> QED
      BY <3>2 DEF Placed
  <2>3. Mine(t) \cap finished = {}
    BY <1>0 DEF ThreadOK
  <2>4. ThreadOK(t)'
    BY <1>5, <2>1, <2>2, <2>3 DEF ThreadOK, Announcing
  <2> QED
    BY <1>3, <1>4, <1>6, <2>1, <2>4
<1>7. CASE todo = {}
  <2>1. work'[t].step \in {"idle", "notify"} /\ Mine(t)' = {}
        /\ work'[t].note.key # Click /\ work'[t].note.id <= lastId'
        /\ (work'[t].note.id = 0 \/ work'[t].note.id > lastId)
    BY <1>7 DEF Proceeded
  <2>2. PICK i : i = work'[t].note.id
    OBVIOUS
  <2>3. i \in Nat
    BY <2>2, <1>3, WorkFields, Constants DEF ThreadStep
  <2>4. i \notin begun /\ \A u \in Threads : i \notin Mine(u)
    <3>1. begun \subseteq 1..lastId
      BY <1>0 DEF IdsOK
    <3>2. i \notin 1..lastId
      BY <1>0, <2>1, <2>2
    <3>3. \A u \in Threads : i \notin Mine(u)
      BY <1>0, <2>1, <2>2, MineTaken DEF ThreadOK
    <3> QED
      BY <3>1, <3>2, <3>3
  <2>5. i \notin begun' /\ \A u \in Threads : i \notin Mine(u)'
    BY <1>3, <2>1, <2>4, MineKept
  <2>6. Placed(work[t].note)'
    BY <2>1, <2>2, <2>5 DEF Placed, OfKey
  <2>7. ~Announcing(t)'
    BY <2>1 DEF Announcing
  <2>8. ThreadOK(t)'
    BY <2>1, <2>6, <2>7 DEF ThreadOK
  <2> QED
    BY <1>3, <1>4, <2>7, <2>8
<1> QED
  BY <1>6, <1>7

LEMMA ObserversIn == ASSUME TypeOK PROVE Observers \in SUBSET Nat /\ Observers \subseteq DOMAIN subs
<1> QED
  BY Typed DEF Observers

LEMMA NotifyStep ==
    ASSUME Inv, NEW t \in Threads, Notify(t)
    PROVE  Inv'
<1>0. /\ TypeOK /\ IdsOK /\ (\A v \in Threads : ThreadOK(v)) /\ work[t].step = "notify"
      /\ Proceed(t, Observers) /\ begun' = begun \cup Mine(t)
      /\ UNCHANGED <<events, cache, handlerVars, waits, socketVars, earlier, touched>>
  BY DEF Inv, Notify, Mine
<1>1. PICK S : S = Observers
  OBVIOUS
<1>2. S \in SUBSET Nat /\ S \subseteq DOMAIN subs /\ Proceed(t, S)
  BY <1>0, <1>1, ObserversIn
<1>3. Proceeded(t, S)
  BY <1>0, <1>2, ProceedShape
<1>4. subs' = subs /\ SubsGoOn
  BY <1>0 DEF SubsGoOn, handlerVars
<1>5. ThreadStep(t) /\ ThreadOK(t)' /\ finished' \subseteq begun'
      /\ (Announcing(t)' => S # {} /\ work'[t].todo = S /\ Mine(t)' = Mine(t))
  BY <1>0, <1>2, <1>3, <1>4, ProceedThread
<1>6. \A s \in DOMAIN subs : LeavesSub(t, s)
  <2>1. ASSUME NEW s \in DOMAIN subs, subs[s].stage # "disposed" PROVE Passes(t, s)
    <3>1. s \in S
      BY <1>1, <2>1 DEF Observers
    <3>2. finished' = finished
      BY <1>3, <3>1 DEF Proceeded
    <3> QED
      BY <1>5, <3>1, <3>2 DEF Passes
  <2>2. ASSUME NEW s \in DOMAIN subs, subs[s].stage = "disposed", Announcing(t)' PROVE s \notin work'[t].todo
    BY <1>1, <1>5, <2>2 DEF Observers
  <2>3. Mine(t) \cap begun = {} /\ (Announcing(t)' => Mine(t)' = Mine(t))
    BY <1>0, <1>5 DEF ThreadOK
  <2> QED
    BY <1>0, <1>4, <2>1, <2>2, <2>3 DEF LeavesSub, socketVars
<1>7. IdsOK'
  BY <1>0, <1>5, IdsKept DEF ThreadOK, handlerVars
<1> QED
  BY <1>0, <1>5, <1>6, <1>7, ApartStep DEF TypeOK

(* The observer whose turn it is. *)
LEMMA TurnFacts ==
    ASSUME Inv, NEW t \in Threads, Announcing(t), NEW s \in Turn(t)
    PROVE  /\ s \in work[t].todo /\ s \in DOMAIN subs /\ s \in Nat
           /\ Rest(t, s) \in SUBSET Nat /\ Rest(t, s) \subseteq DOMAIN subs
           /\ Rest(t, s) = work[t].todo \ {s} /\ Mine(t) \subseteq begun
           /\ \A i \in Turn(t) : i = s
           /\ work[t].step = "forward" => subs[s].stage \in {"live", "disposed"}
<1>1. work[t].todo \subseteq DOMAIN subs /\ Mine(t) \subseteq begun
  BY DEF Inv, ThreadOK
<1>2. work[t].todo \subseteq Nat
  BY <1>1, Typed DEF Inv
<1>3. \A i \in Turn(t) : i = s
  BY <1>2 DEF Turn
<1> QED
  BY <1>1, <1>2, <1>3 DEF Turn, Rest, Inv, ThreadOK

(* A thread that is done with s is not done with another. *)
LEMMA LeftOne ==
    ASSUME Inv, NEW t \in Threads, Announcing(t), NEW s \in Turn(t), Proceeded(t, Rest(t, s)),
           ThreadStep(t), Announcing(t)' => work'[t].todo = Rest(t, s) /\ Mine(t)' = Mine(t),
           ended' = ended, earlier' = earlier,
           NEW r \in DOMAIN subs, subs'[r] = subs[r], r # s \/ subs[r].stage = "disposed"
    PROVE  LeavesSub(t, r)
<1>1. Rest(t, s) = work[t].todo \ {s} /\ s \in work[t].todo
  BY TurnFacts
<1>2. Announcing(t)' /\ r \in work'[t].todo => r \in work[t].todo /\ Mine(t)' \subseteq Mine(t)
  BY <1>1
<1>3. ASSUME r # s PROVE Passes(t, r)
  <2>1. CASE r \in work[t].todo
    <3>1. r \in Rest(t, s)
      BY <1>1, <1>3, <2>1
    <3>2. finished' = finished
      BY <3>1 DEF Proceeded
    <3> QED
      BY <3>1, <3>2 DEF Passes
  <2>2. CASE r \notin work[t].todo
    BY <2>2 DEF Passes
  <2> QED
    BY <2>1, <2>2
<1> QED
  BY <1>2, <1>3 DEF LeavesSub

(* The turn of s passes, and it is not changed by that: it is disposed of,  *)
(* or its queue is not.                                                     *)
LEMMA DoneWith ==
    ASSUME Inv, NEW t \in Threads, Announcing(t), NEW s \in Turn(t), Proceed(t, Rest(t, s)),
           SubsGoOn, begun' = begun, touched' = touched, DOMAIN subs' = DOMAIN subs
    PROVE  /\ Proceeded(t, Rest(t, s)) /\ ThreadStep(t) /\ ThreadOK(t)' /\ finished' \subseteq begun'
           /\ (Announcing(t)' => work'[t].todo = Rest(t, s) /\ Mine(t)' = Mine(t))
<1>1. PICK S : S = Rest(t, s)
  OBVIOUS
<1>2. S \in SUBSET Nat /\ S \subseteq DOMAIN subs /\ Mine(t) \subseteq begun /\ work[t].step # "write"
  BY <1>1, TurnFacts DEF Announcing
<1>3. Proceeded(t, S)
  BY <1>1, <1>2, ProceedShape DEF Inv
<1>4. /\ ThreadStep(t) /\ ThreadOK(t)' /\ finished' \subseteq begun'
      /\ (Announcing(t)' => work'[t].todo = S /\ Mine(t)' = Mine(t))
  BY <1>2, <1>3, ProceedThread
<1> QED
  BY <1>1, <1>3, <1>4
(* An observer is passed over, or a thread ends between two of them.        *)
LEMMA CallStep ==
    ASSUME Inv, NEW t \in Threads, NEW s \in Turn(t), Call(t, s)
    PROVE  Inv'
<1>0. /\ TypeOK /\ IdsOK /\ (\A v \in Threads : ThreadOK(v)) /\ work[t].step = "call"
      /\ UNCHANGED <<events, cache, handlerVars, waits, socketVars, begun, earlier, touched>>
      /\ Announcing(t) /\ work[t] \in Work
  BY Typed DEF Inv, Call, Announcing
<1>1. subs' = subs /\ SubsGoOn
  BY <1>0 DEF SubsGoOn, handlerVars
<1>2. CASE subs[s].stage = "disposed"
  <2>1. Proceed(t, Rest(t, s))
    BY <1>2 DEF Call
  <2>2. /\ Proceeded(t, Rest(t, s)) /\ ThreadStep(t) /\ ThreadOK(t)' /\ finished' \subseteq begun'
        /\ (Announcing(t)' => work'[t].todo = Rest(t, s) /\ Mine(t)' = Mine(t))
    BY <1>0, <1>1, <2>1, DoneWith
  <2>3. \A r \in DOMAIN subs : LeavesSub(t, r)
    BY <1>0, <1>1, <1>2, <2>2, LeftOne DEF socketVars
  <2>4. IdsOK'
    BY <1>0, <2>2, IdsKept DEF ThreadOK, handlerVars
  <2> QED
    BY <1>0, <2>2, <2>3, <2>4, ApartStep DEF TypeOK
<1>3. CASE subs[s].stage # "disposed"
  <2>1. PICK x \in {"forward", "add"} : x = IF subs[s].stage = "live" THEN "forward" ELSE "add"
    OBVIOUS
  <2>2. work' = [work EXCEPT ![t] = [work[t] EXCEPT !.step = x]] /\ UNCHANGED <<lastId, finished>>
    BY <1>0, <1>3, <2>1 DEF Call, TypeOK
  <2>3. PICK w : w = [work[t] EXCEPT !.step = x]
    OBVIOUS
  <2>4. w \in Work /\ w.step = x /\ w.note = work[t].note /\ w.todo = work[t].todo
    BY <1>0, <2>3 DEF Work
  <2>5. work'[t] = w /\ work' \in [Threads -> Work] /\ \A u \in Threads \ {t} : work'[u] = work[u]
    BY <1>0, <2>2, <2>3, <2>4 DEF TypeOK
  <2>6. Mine(t)' = Mine(t) /\ Announcing(t)' /\ work'[t].note = work[t].note
        /\ work'[t].todo = work[t].todo /\ Turn(t)' = Turn(t) /\ work'[t].step = x
    BY <2>4, <2>5 DEF Mine, Announcing, Turn
  <2>7. ThreadStep(t)
    BY <1>0, <2>2, <2>5, <2>6, Typed, Constants DEF ThreadStep
  <2>8. Placed(work[t].note)'
    <3>1. PICK n \in Note : n = work[t].note /\ Placed(n)
      BY <1>0, Typed DEF ThreadOK
    <3>2. Placed(n)' /\ n = work'[t].note
      BY <1>0, <2>6, <2>7, <3>1, PlacedKept
    <3> QED
      BY <3>2 DEF Placed
  <2>9. ThreadOK(t)'
    <3>1. /\ Mine(t) \subseteq begun /\ work[t].todo \subseteq DOMAIN subs /\ Mine(t) \cap finished = {}
      BY <1>0 DEF ThreadOK
    <3>2. \A v \in Threads \ {t} : Mine(t)' \cap Mine(v)' = {}
      BY <1>0, <2>7, OwnApart
    <3>3. x = "forward" => \A i \in Turn(t) : subs[i].stage \in {"live", "disposed"}
      BY <1>0, <2>1, TurnFacts
    <3> QED
      BY <1>0, <1>1, <2>2, <2>6, <2>8, <3>1, <3>2, <3>3 DEF ThreadOK
  <2>10. \A r \in DOMAIN subs : LeavesSub(t, r)
    BY <1>0, <1>1, <2>2, <2>6 DEF LeavesSub, Passes, socketVars
  <2>11. IdsOK'
    BY <1>0, <2>7, IdsKept DEF ThreadOK, handlerVars
  <2> QED
    BY <1>0, <2>2, <2>7, <2>9, <2>10, <2>11, ApartStep DEF TypeOK
<1> QED
  BY <1>2, <1>3

LEMMA DropStep ==
    ASSUME Inv, NEW t \in Threads, NEW s \in Turn(t), Drop(t, s)
    PROVE  Inv'
<1>0. /\ TypeOK /\ IdsOK /\ (\A v \in Threads : ThreadOK(v)) /\ subs[s].stage = "disposed"
      /\ UNCHANGED <<events, cache, handlerVars, waits, socketVars, begun, earlier, touched>>
      /\ Announcing(t) /\ Proceed(t, Rest(t, s))
  BY DEF Inv, Drop, Announcing
<1>1. subs' = subs /\ SubsGoOn
  BY <1>0 DEF SubsGoOn, handlerVars
<1>2. /\ Proceeded(t, Rest(t, s)) /\ ThreadStep(t) /\ ThreadOK(t)' /\ finished' \subseteq begun'
      /\ (Announcing(t)' => work'[t].todo = Rest(t, s) /\ Mine(t)' = Mine(t))
  BY <1>0, <1>1, DoneWith
<1>3. \A r \in DOMAIN subs : LeavesSub(t, r)
  BY <1>0, <1>1, <1>2, LeftOne DEF socketVars
<1>4. IdsOK'
  BY <1>0, <1>2, IdsKept DEF ThreadOK, handlerVars
<1> QED
  BY <1>0, <1>2, <1>3, <1>4, ApartStep DEF TypeOK

LEMMA ThrowStep ==
    ASSUME Inv, NEW t \in Threads, NEW s \in Turn(t), Throw(t, s)
    PROVE  Inv'
<1>0. /\ TypeOK /\ IdsOK /\ (\A v \in Threads : ThreadOK(v)) /\ work[t].step = "add"
      /\ UNCHANGED <<events, cache, lastId, handlerVars, waits, socketVars, history>>
      /\ Announcing(t) /\ work' = [work EXCEPT ![t] = Idle]
  BY DEF Inv, Throw, Announcing
<1>1. work'[t] = Idle /\ work' \in [Threads -> Work] /\ \A u \in Threads \ {t} : work'[u] = work[u]
  BY <1>0, Constants DEF TypeOK
<1>2. work'[t].step = "idle" /\ work'[t].note = NoNote /\ Mine(t)' = {} /\ ~Announcing(t)'
  BY <1>1, Constants DEF Idle, Mine, Announcing
<1>l. lastId \in Ids /\ lastId \in Nat
  BY <1>0, Typed, Constants
<1>u. lastId' = lastId /\ begun' = begun /\ finished' = finished /\ touched' = touched
  BY <1>0 DEF history
<1>3. Mine(t) \subseteq begun
  BY <1>0 DEF ThreadOK
<1>4. ThreadStep(t)
  BY <1>l, <1>u, <1>1, <1>2, <1>3 DEF ThreadStep
<1>5. Placed(work[t].note)'
  <2>1. 0 <= lastId' /\ begun' = begun
    BY <1>l, <1>u
  <2>2. 0 \notin begun
    BY <1>0 DEF IdsOK
  <2>3. \A u \in Threads : 0 \notin Mine(u)'
    BY DEF Mine, Change
  <2> QED
    BY <1>2, <2>1, <2>2, <2>3 DEF Placed, OfKey, NoNote, Message
<1>6. ThreadOK(t)'
  BY <1>2, <1>5 DEF ThreadOK
<1>7. IdsOK'
  BY <1>0, <1>4, IdsKept DEF ThreadOK, handlerVars, history
<1>8. \A r \in DOMAIN subs : LeavesSub(t, r)
  BY <1>0, <1>2 DEF LeavesSub, Passes, handlerVars, socketVars, history
<1> QED
  BY <1>0, <1>4, <1>6, <1>7, <1>8, ApartStep DEF TypeOK, history
(* The step of a thread that changes one subscription. *)
LEMMA SubsExcept ==
    ASSUME TypeOK, NEW s \in DOMAIN subs, NEW q \in Sub, subs' = [subs EXCEPT ![s] = q]
    PROVE  /\ subs' \in Seq(Sub) /\ Len(subs') = Len(subs) /\ DOMAIN subs' = DOMAIN subs
           /\ subs'[s] = q /\ \A r \in DOMAIN subs \ {s} : subs'[r] = subs[r]
<1>1. subs \in Seq(Sub) /\ DOMAIN subs = 1..Len(subs) /\ Len(subs) \in Nat
  BY Typed
<1>2. subs \in [1..Len(subs) -> Sub]
  BY <1>1
<1>3. subs' \in [1..Len(subs) -> Sub]
  BY <1>1, <1>2
<1>4. subs' \in Seq(Sub) /\ Len(subs') = Len(subs)
  BY <1>1, <1>3
<1> QED
  BY <1>1, <1>2, <1>4

(* What the handler relies on: where the subscription is. *)
LEMMA StagesKept ==
    ASSUME Inv, UNCHANGED <<tracked, handling, read, socketVars>>, Len(subs') = Len(subs),
           DOMAIN subs' = DOMAIN subs,
           \A s \in DOMAIN subs : subs'[s].stage = subs[s].stage /\ subs'[s].snapshot = subs[s].snapshot
    PROVE  Control' /\ SubsGoOn
<1>1. DOMAIN subs = 1..Len(subs) /\ Len(subs) \in Nat
  BY Typed DEF Inv
<1>2. Control
  BY DEF Inv
<1>3. Len(subs) > 0 => Len(subs) \in DOMAIN subs
  BY <1>1
<1> QED
  BY <1>2, <1>3 DEF Control, SubsGoOn, socketVars

LEMMA ObserverStep ==
    ASSUME Inv, NEW t \in Threads, Announcing(t), NEW s \in Turn(t), Proceed(t, Rest(t, s)),
           NEW q \in Sub, subs' = [subs EXCEPT ![s] = q],
           q.stage = subs[s].stage, q.snapshot = subs[s].snapshot,
           UNCHANGED <<events, cache, tracked, handling, read, socketVars, begun, earlier, touched>>,
           waits' \in BOOLEAN,
           ThreadStep(t) /\ (Announcing(t)' => s \notin work'[t].todo /\ Mine(t)' = Mine(t)) =>
               SubOK(s)'
    PROVE  Inv'
<1>0. TypeOK /\ IdsOK /\ (\A v \in Threads : ThreadOK(v)) /\ s \in DOMAIN subs
  BY TurnFacts DEF Inv
<1>1. /\ subs' \in Seq(Sub) /\ Len(subs') = Len(subs) /\ DOMAIN subs' = DOMAIN subs
      /\ subs'[s] = q /\ \A r \in DOMAIN subs \ {s} : subs'[r] = subs[r]
  BY <1>0, SubsExcept
<1>2. \A r \in DOMAIN subs : subs'[r].stage = subs[r].stage /\ subs'[r].snapshot = subs[r].snapshot
  BY <1>1
<1>3. Control' /\ SubsGoOn
  BY <1>1, <1>2, StagesKept
<1>4. /\ Proceeded(t, Rest(t, s)) /\ ThreadStep(t) /\ ThreadOK(t)' /\ finished' \subseteq begun'
      /\ (Announcing(t)' => work'[t].todo = Rest(t, s) /\ Mine(t)' = Mine(t))
  BY <1>1, <1>3, DoneWith
<1>5. SubOK(s)'
  BY <1>4, TurnFacts
<1>6. ASSUME NEW r \in DOMAIN subs, r # s PROVE SubOK(r)'
  <2>1. LeavesSub(t, r)
    BY <1>1, <1>4, <1>6, LeftOne DEF socketVars
  <2> QED
    BY <1>0, <1>4, <1>6, <2>1, SubKept DEF Inv
<1>7. \A u \in Threads : ThreadOK(u)'
  BY <1>3, <1>4, ThreadsTyped
<1>8. IdsOK'
  BY <1>0, <1>4, IdsKept DEF ThreadOK
<1>9. TypeOK'
  <2>1. begun' \subseteq Ids /\ work' \in [Threads -> Work] /\ lastId' \in Ids
    BY <1>0, <1>4 DEF TypeOK, ThreadStep
  <2>2. tracked' # 0 => subs'[tracked'].stage = IF ended' THEN "disposed" ELSE "live"
    <3>1. ASSUME tracked # 0 PROVE tracked \in DOMAIN subs
      BY <1>0, <3>1, Typed DEF TypeOK
    <3> QED
      BY <1>0, <1>2, <3>1 DEF TypeOK, socketVars
  <2>3. \A i \in DOMAIN subs' : subs'[i].stage \in {"buffering", "replayed"} =>
          i = Len(subs') /\ handling' = IF subs'[i].stage = "buffering" THEN "replay" ELSE "replayed"
    BY <1>0, <1>1, <1>2 DEF TypeOK
  <2> QED
    BY <1>0, <1>1, <1>4, <2>1, <2>2, <2>3 DEF TypeOK, socketVars
<1> QED
  BY <1>1, <1>3, <1>5, <1>6, <1>7, <1>8, <1>9 DEF Inv
(* An update that an observer buffers. *)
LEMMA Buffered ==
    ASSUME Inv, NEW t \in Threads, Announcing(t), NEW s \in Turn(t), ThreadStep(t),
           Announcing(t)' => s \notin work'[t].todo /\ Mine(t)' = Mine(t),
           subs[s].stage \in {"buffering", "replayed"}, earlier' = earlier, ended' = ended,
           subs'[s].stage = subs[s].stage, subs'[s].snapshot = subs[s].snapshot,
           subs'[s].seen = subs[s].seen, subs'[s].out = subs[s].out, subs'[s].gap = subs[s].gap,
           subs'[s].before = subs[s].before, subs'[s].until = subs[s].until,
           subs[s].stage = "buffering" => subs'[s].buffer = subs[s].buffer \cup {work[t].note},
           subs[s].stage = "replayed" => subs'[s].buffer = subs[s].buffer
    PROVE  SubOK(s)'
<1>0. /\ TypeOK /\ s \in DOMAIN subs /\ SubOK(s) /\ ThreadOK(t) /\ work[t].note \in Note
      /\ Mine(t) \subseteq begun
  BY TurnFacts, Typed DEF Inv
<1>1. SubIds(s)'
  <2>1. Placed(work[t].note) /\ Change(work[t].note) \subseteq begun \ subs[s].before
    BY <1>0, TurnFacts DEF ThreadOK, Mine, SubOK, Fresh
  <2> QED
    BY <1>0, <2>1, SubIdsKept DEF SubOK
<1>2. Out(s)' = Out(s) /\ Got(s) \subseteq Got(s)' /\ (Began(s) => Began(s)')
  BY DEF Out, Got, Began, ThreadStep
<1>3. Delivered(s)'
  <2>1. PICK X : X = subs[s].before \cup OwnIds(subs[s].buffer)
    OBVIOUS
  <2>2. PICK Y : Y = X \cup Mine(t)
    OBVIOUS
  <2>3. ASSUME subs[s].stage = "buffering" PROVE ReachesThen(s, Y)
    <3>1. Reaches(s, X)
      BY <1>0, <2>1, <2>3 DEF SubOK, Delivered
    <3> QED
      BY <2>2, <3>1, ReachesKept
  <2>4. ASSUME subs[s].stage = "buffering" PROVE Reaches(s, subs[s].before \cup OwnIds(subs[s].buffer))'
    <3>1. Y \subseteq subs'[s].before \cup OwnIds(subs'[s].buffer)
      BY <2>1, <2>2, <2>4 DEF OwnIds, Own, Mine, Change
    <3> QED
      BY <2>3, <2>4, <3>1 DEF Reaches, ReachesThen
  <2>5. subs[s].stage = "replayed" => subs[s].gap \subseteq Got(s) /\ Began(s)
    BY <1>0 DEF SubOK, Delivered
  <2> QED
    BY <1>2, <2>4, <2>5 DEF Delivered
<1>f. Fresh(s)'
  BY <1>0, FreshKept DEF SubOK
<1>4. Ordered(s)'
  BY <1>0 DEF SubOK, Ordered
<1>5. Silent(s)'
  BY <1>0, <1>2 DEF SubOK, Silent
<1> QED
  BY <1>1, <1>3, <1>f, <1>4, <1>5 DEF SubOK

LEMMA AddStep ==
    ASSUME Inv, NEW t \in Threads, NEW s \in Turn(t), Add(t, s)
    PROVE  Inv'
<1>0. /\ Announcing(t) /\ TypeOK /\ subs[s].stage \in {"buffering", "replayed"} /\ Proceed(t, Rest(t, s))
      /\ UNCHANGED <<events, cache, tracked, handling, read, waits, socketVars, begun, earlier, touched>>
  BY DEF Add, Announcing, Inv
<1>1. s \in DOMAIN subs /\ subs[s] \in Sub /\ work[t].note \in Note
  BY <1>0, TurnFacts, Typed
<1>2. ended' = ended
  BY <1>0 DEF socketVars
<1>3. CASE subs[s].stage = "buffering"
  <2>1. PICK q : q = [subs[s] EXCEPT !.buffer = subs[s].buffer \cup {work[t].note}]
    OBVIOUS
  <2>2. subs' = [subs EXCEPT ![s] = q]
    BY <1>1, <1>3, <2>1 DEF Add
  <2>3. /\ q \in Sub /\ q.stage = subs[s].stage /\ q.snapshot = subs[s].snapshot
        /\ q.buffer = subs[s].buffer \cup {work[t].note} /\ q.seen = subs[s].seen /\ q.out = subs[s].out
        /\ q.before = subs[s].before /\ q.gap = subs[s].gap /\ q.until = subs[s].until
    BY <1>1, <2>1 DEF Sub
  <2>4. subs'[s] = q
    BY <1>0, <1>1, <2>2, <2>3, SubsExcept
  <2>5. ThreadStep(t) /\ (Announcing(t)' => s \notin work'[t].todo /\ Mine(t)' = Mine(t)) => SubOK(s)'
    BY <1>0, <1>2, <1>3, <2>3, <2>4, Buffered
  <2> QED
    BY <1>0, <2>2, <2>3, <2>5, ObserverStep DEF Inv, TypeOK
<1>4. CASE subs[s].stage = "replayed"
  <2>1. PICK q : q = subs[s]
    OBVIOUS
  <2>a. subs' = subs
    BY <1>4 DEF Add
  <2>b. subs \in [1..Len(subs) -> Sub] /\ s \in 1..Len(subs)
    BY <1>0, <1>1, Typed
  <2>c. subs = [subs EXCEPT ![s] = q]
    BY <2>1, <2>b
  <2>2. subs' = subs /\ subs' = [subs EXCEPT ![s] = q] /\ subs'[s] = q
    BY <2>1, <2>a, <2>c
  <2>3. ThreadStep(t) /\ (Announcing(t)' => s \notin work'[t].todo /\ Mine(t)' = Mine(t)) => SubOK(s)'
    BY <1>0, <1>2, <1>4, <2>2, Buffered
  <2> QED
    BY <1>0, <1>1, <2>1, <2>2, <2>3, ObserverStep DEF Inv, TypeOK
<1> QED
  BY <1>0, <1>3, <1>4

-----------------------------------------------------------------------------
(* An update that an observer passes on *)

LEMMA AppendOne ==
    ASSUME NEW S, NEW o \in Seq(S), NEW i \in S
    PROVE  /\ o \o <<i>> \in Seq(S) /\ ToSet(o \o <<i>>) = ToSet(o) \cup {i}
           /\ DOMAIN (o \o <<i>>) = 1..(Len(o) + 1) /\ (o \o <<i>>)[Len(o) + 1] = i
           /\ \A j \in DOMAIN o : (o \o <<i>>)[j] = o[j]
           /\ DOMAIN o = 1..Len(o) /\ Len(o) \in Nat
<1>1. /\ o \o <<i>> \in Seq(S) /\ Len(o) \in Nat /\ Len(o \o <<i>>) = Len(o) + 1
      /\ DOMAIN o = 1..Len(o) /\ DOMAIN (o \o <<i>>) = 1..(Len(o) + 1)
      /\ (o \o <<i>>)[Len(o) + 1] = i /\ \A j \in DOMAIN o : (o \o <<i>>)[j] = o[j]
  OBVIOUS
<1>2. ToSet(o \o <<i>>) = ToSet(o) \cup {i}
  BY <1>1 DEF ToSet
<1> QED
  BY <1>1, <1>2

LEMMA NoneAppended == ASSUME NEW S, NEW o \in Seq(S) PROVE o \o <<>> = o
<1> QED
  OBVIOUS

(* What forwarding does to the observer, whether a message comes of it.     *)
Forwarded(s, n) ==
    /\ subs'[s].stage = subs[s].stage /\ subs'[s].snapshot = subs[s].snapshot
    /\ subs'[s].buffer = subs[s].buffer /\ subs'[s].before = subs[s].before
    /\ subs'[s].gap = subs[s].gap /\ subs'[s].until = subs[s].until
    /\ subs'[s].seen = n.id
    /\ \/ n.key = Click /\ subs'[s].out = subs[s].out \o <<Message(n)>>
       \/ n.key # Click /\ subs'[s].out = subs[s].out

LEMMA ForwardedOK ==
    ASSUME Inv, NEW t \in Threads, work[t].step = "forward", NEW s \in Turn(t), ThreadStep(t),
           Announcing(t)' => s \notin work'[t].todo /\ Mine(t)' = Mine(t),
           earlier' = earlier, ended' = ended, NEW n, n = work[t].note, Forwarded(s, n),
           NEW m \in Ids, m = Message(n)
    PROVE  SubOK(s)'
<1>0. /\ TypeOK /\ IdsOK /\ s \in DOMAIN subs /\ SubOK(s) /\ ThreadOK(t) /\ n \in Note /\ Announcing(t)
      /\ Mine(t) \subseteq begun /\ s \in work[t].todo /\ subs[s].stage \in {"live", "disposed"}
  BY TurnFacts, Typed DEF Inv, Announcing
<1>1. /\ lastId \in Nat /\ lastId' \in Nat /\ lastId <= lastId' /\ n.id \in Ids /\ n.id \in Nat
      /\ n.id <= lastId /\ Placed(n) /\ Change(n) = Mine(t)
      /\ subs[s].out \in Seq(Ids) /\ Out(s) \subseteq Ids /\ subs[s] \in Sub
  BY <1>0, Typed, Constants DEF ThreadStep, Note, ThreadOK, Placed, Mine
<1>m. m \in {0, n.id} /\ (n.key = Click => m = n.id \/ n.id \in touched)
  BY <1>1 DEF Message, Placed
<1>2. /\ Out(s) \subseteq Out(s)' /\ Out(s)' \subseteq Out(s) \cup {m} /\ Combined(s)' = Combined(s)
      /\ n.key = Click => m \in Out(s)'
  <2>1. CASE n.key = Click
    <3>1. PICK o \in Seq(Ids) : o = subs[s].out
      BY <1>1
    <3>2. subs'[s].out = o \o <<m>>
      BY <2>1, <3>1 DEF Forwarded
    <3>3. Out(s)' = Out(s) \cup {m}
      BY <1>1, <3>1, <3>2, AppendOne DEF Out
    <3> QED
      BY <3>3 DEF Forwarded, Combined
  <2>2. CASE n.key # Click
    BY <2>2 DEF Forwarded, Out, Combined
  <2> QED
    BY <2>1, <2>2
<1>g. /\ Got(s) \subseteq Got(s)' /\ (Began(s) => Began(s)') /\ (n.key = Click => n.id \in Got(s)')
      /\ subs'[s].before = subs[s].before
  BY <1>m, <1>2 DEF Got, Began, Forwarded, ThreadStep
<1>3. SubIds(s)'
  <2>1. ASSUME subs[s].snapshot # 0 PROVE Written(subs[s].snapshot)'
    <3>1. PICK i : i = subs[s].snapshot /\ Written(i)
      BY <1>0, <2>1 DEF SubOK, SubIds
    <3>2. Written(i)'
      BY <1>0, <3>1, OfKeyKept
    <3> QED
      BY <3>1, <3>2 DEF Written, Forwarded
  <2>b. subs[s].before \subseteq begun'
    BY <1>0 DEF SubOK, SubIds, ThreadStep
  <2>2. \A b \in subs[s].buffer : Placed(b)' /\ Change(b) \subseteq begun' \ subs[s].before
    <3>1. ASSUME NEW b \in subs[s].buffer
          PROVE  Placed(b)' /\ Change(b) \subseteq begun' \ subs[s].before
      <4>1. b \in Note /\ Placed(b) /\ Change(b) \subseteq begun \ subs[s].before
        BY <1>0, <1>1, SubFields DEF SubOK, SubIds
      <4> QED
        BY <1>0, <4>1, PlacedKept DEF ThreadStep
    <3> QED
      BY <3>1
  <2>3. Out(s)' \subseteq 0..lastId'
    <3>1. \A i \in Out(s) : i \in 0..lastId
      BY <1>0 DEF SubOK, SubIds
    <3> QED
      BY <1>1, <1>m, <1>2, <3>1
  <2>4. OfKey(n.id)' => n.id \in Got(s)'
    <3>1. Placed(n)'
      BY <1>0, <1>1, PlacedKept
    <3> QED
      BY <1>g, <3>1 DEF Placed
  <2>5. subs'[s].seen <= lastId'
    BY <1>1 DEF Forwarded
  <2>6. OfKey(subs[s].seen)' => OfKey(n.id)'
    BY DEF Forwarded, OfKey
  <2> QED
    BY <2>1, <2>b, <2>2, <2>3, <2>4, <2>5, <2>6 DEF SubIds, Forwarded
<1>4. Delivered(s)'
  <2>1. PICK X : X = subs[s].gap \cup Got(s)
    OBVIOUS
  <2>2. PICK Y : Y = subs'[s].gap \cup Got(s)'
    OBVIOUS
  <2>3. X \subseteq Y /\ Mine(t) \subseteq Y
    BY <1>1, <1>g, <2>1, <2>2 DEF Forwarded, Change
  <2>4. ASSUME subs[s].stage = "live", ~ended
        PROVE  Reaches(s, subs[s].gap \cup Got(s))' /\ (Combined(s) => Began(s)')
    <3>1. Reaches(s, X) /\ (Combined(s) => Began(s))
      BY <1>0, <2>1, <2>4 DEF SubOK, Delivered
    <3>2. ReachesThen(s, Y)
      BY <2>3, <3>1, ReachesKept
    <3> QED
      BY <1>g, <2>2, <3>1, <3>2 DEF Reaches, ReachesThen
  <2> QED
    BY <1>0, <1>2, <2>4 DEF Delivered, Forwarded
<1>f. Fresh(s)'
  BY <1>0, <1>g, FreshKept DEF SubOK
<1>5. Ordered(s)'
  <2>1. CASE n.key # Click
    BY <1>0, <2>1 DEF Forwarded, SubOK, Ordered
  <2>2. CASE n.key = Click
    <3>1. PICK o \in Seq(Ids) : o = subs[s].out
      BY <1>1
    <3>2. PICK p : p = o \o <<m>> /\ p = subs'[s].out
      BY <2>2, <3>1 DEF Forwarded
    <3>3. /\ DOMAIN p = 1..(Len(o) + 1) /\ p[Len(o) + 1] = m /\ (\A j \in DOMAIN o : p[j] = o[j])
          /\ DOMAIN o = 1..Len(o) /\ Len(o) \in Nat /\ (\A j \in DOMAIN o : o[j] \in Ids)
      BY <1>1, <3>2, AppendOne
    <3>4. m \notin finished
      <4>1. CASE m = 0
        BY <1>0, <4>1 DEF IdsOK, TypeOK
      <4>2. CASE m # 0
        <5>1. m = n.id /\ m \in Mine(t)
          BY <1>1, <1>m, <2>2, <4>2 DEF Change
        <5> QED
          BY <1>0, <5>1 DEF ThreadOK
      <4> QED
        BY <4>1, <4>2
    <3>5. ASSUME NEW i \in DOMAIN p, NEW j \in DOMAIN p, i < j PROVE p[j] \notin earlier[p[i]]
      <4>1. i \in DOMAIN o /\ p[i] = o[i] /\ o[i] \in Ids
        BY <3>3, <3>5
      <4>2. CASE j \in DOMAIN o
        BY <1>0, <3>1, <3>3, <3>5, <4>1, <4>2 DEF SubOK, Ordered
      <4>3. CASE j = Len(o) + 1
        <5>1. earlier[o[i]] \subseteq finished
          BY <1>0, <4>1 DEF IdsOK
        <5> QED
          BY <3>3, <3>4, <4>1, <4>3, <5>1
      <4> QED
        BY <3>3, <3>5, <4>2, <4>3
    <3> QED
      BY <3>2, <3>5 DEF Ordered
  <2> QED
    BY <2>1, <2>2
<1>6. Silent(s)'
  <2>1. m \in {0} \cup subs[s].until \/ Out(s)' = Out(s)
    <3>1. CASE n.key # Click
      BY <3>1 DEF Forwarded, Out
    <3>2. CASE subs[s].stage = "disposed" /\ n.key = Click
      <4>1. Mine(t) \subseteq subs[s].until
        BY <1>0, <3>2 DEF SubOK, Silent
      <4> QED
        BY <1>1, <1>m, <3>2, <4>1 DEF Change
    <3>3. CASE subs[s].stage # "disposed"
      BY <1>0, <3>3 DEF SubOK, Silent
    <3> QED
      BY <3>1, <3>2, <3>3
  <2>2. ASSUME subs[s].stage = "disposed", NEW u \in Threads, Announcing(u)', s \in work'[u].todo
        PROVE  Mine(u)' \subseteq subs[s].until
    <3>1. u # t
      BY <2>2
    <3>2. work'[u] = work[u] /\ Mine(u)' = Mine(u) /\ Announcing(u) /\ s \in work[u].todo
      BY <2>2, <3>1, MineKept DEF ThreadStep, Announcing
    <3> QED
      BY <1>0, <2>2, <3>2 DEF SubOK, Silent
  <2>3. Out(s) \subseteq {0} \cup subs[s].until /\ (subs[s].stage # "disposed" => subs[s].until = Ids)
    BY <1>0 DEF SubOK, Silent
  <2> QED
    BY <1>2, <2>1, <2>2, <2>3 DEF Silent, Forwarded
<1> QED
  BY <1>3, <1>4, <1>f, <1>5, <1>6 DEF SubOK

(* An update that an observer has seen. *)
LEMMA SkippedOK ==
    ASSUME Inv, NEW t \in Threads, work[t].step = "forward", NEW s \in Turn(t), ThreadStep(t),
           Announcing(t)' => s \notin work'[t].todo /\ Mine(t)' = Mine(t),
           earlier' = earlier, ended' = ended, subs' = subs,
           ended \/ (Combined(s) /\ subs[s].seen = work[t].note.id)
    PROVE  SubOK(s)'
<1>0. /\ TypeOK /\ s \in DOMAIN subs /\ SubOK(s) /\ ThreadOK(t) /\ Announcing(t)
      /\ subs[s].stage \in {"live", "disposed"}
  BY TurnFacts DEF Inv, Announcing
<1>1. SubIds(s)'
  BY <1>0, SubIdsKept DEF SubOK
<1>2. Delivered(s)'
  <2>1. PICK X : X = subs[s].gap \cup Got(s)
    OBVIOUS
  <2>g. Got(s) \subseteq Got(s)' /\ (Began(s) => Began(s)')
    BY DEF Got, Began, Out, ThreadStep
  <2>2. ASSUME subs[s].stage = "live", ~ended
        PROVE  Reaches(s, subs[s].gap \cup Got(s))' /\ (Combined(s) => Began(s)')
    <3>1. Reaches(s, X) /\ (Combined(s) => Began(s))
      BY <1>0, <2>1, <2>2 DEF SubOK, Delivered
    <3>2. Mine(t) \subseteq Got(s)
      <4>1. ASSUME NEW i \in Mine(t) PROVE i = subs[s].seen /\ OfKey(subs[s].seen) /\ Combined(s)
        BY <2>2, <4>1 DEF OfKey, Mine, Change
      <4> QED
        BY <1>0, <4>1 DEF SubOK, SubIds
    <3>3. ReachesThen(s, X)
      BY <2>1, <3>1, <3>2, ReachesKept
    <3>4. X \subseteq subs'[s].gap \cup Got(s)'
      BY <2>1, <2>g
    <3> QED
      BY <2>g, <3>1, <3>3, <3>4 DEF Reaches, ReachesThen
  <2> QED
    BY <1>0, <2>2 DEF Delivered, Combined
<1>f. Fresh(s)'
  BY <1>0, FreshKept DEF SubOK
<1>3. Ordered(s)'
  BY <1>0 DEF SubOK, Ordered
<1>4. Silent(s)'
  <2>1. ASSUME subs[s].stage = "disposed", NEW u \in Threads, Announcing(u)', s \in work'[u].todo
        PROVE  Mine(u)' \subseteq subs[s].until
    <3>1. u # t
      BY <2>1
    <3>2. work'[u] = work[u] /\ Mine(u)' = Mine(u) /\ Announcing(u) /\ s \in work[u].todo
      BY <2>1, <3>1, MineKept DEF ThreadStep, Announcing
    <3> QED
      BY <1>0, <2>1, <3>2 DEF SubOK, Silent
  <2>2. Out(s) \subseteq {0} \cup subs[s].until /\ (subs[s].stage # "disposed" => subs[s].until = Ids)
    BY <1>0 DEF SubOK, Silent
  <2> QED
    BY <2>1, <2>2 DEF Silent, Out
<1> QED
  BY <1>1, <1>2, <1>f, <1>3, <1>4 DEF SubOK

LEMMA ForwardStep ==
    ASSUME Inv, NEW t \in Threads, NEW s \in Turn(t), Forward(t, s)
    PROVE  Inv'
<1>0. /\ Announcing(t) /\ TypeOK /\ work[t].step = "forward" /\ Proceed(t, Rest(t, s))
      /\ UNCHANGED <<events, cache, tracked, handling, read, socketVars, begun, earlier, touched>>
  BY DEF Forward, Announcing, Inv
<1>1. s \in DOMAIN subs /\ subs[s] \in Sub /\ work[t].note \in Note /\ subs[s].out \in Seq(Ids)
      /\ subs \in [1..Len(subs) -> Sub] /\ s \in 1..Len(subs)
  BY <1>0, TurnFacts, Typed
<1>2. ended' = ended /\ waits' \in BOOLEAN
  BY <1>0 DEF socketVars, Forward, Enqueue, TypeOK
<1>3. CASE ended \/ (Combined(s) /\ subs[s].seen = work[t].note.id)
  <2>1. subs' = subs
    BY <1>3 DEF Forward
  <2>2. PICK q : q = subs[s]
    OBVIOUS
  <2>3. subs' = [subs EXCEPT ![s] = q]
    BY <1>1, <2>1, <2>2
  <2>4. ThreadStep(t) /\ (Announcing(t)' => s \notin work'[t].todo /\ Mine(t)' = Mine(t)) => SubOK(s)'
    BY <1>0, <1>2, <1>3, <2>1, SkippedOK
  <2> QED
    BY <1>0, <1>1, <1>2, <2>2, <2>3, <2>4, ObserverStep
<1>4. CASE ~(ended \/ (Combined(s) /\ subs[s].seen = work[t].note.id))
  <2>1. PICK n \in Note : n = work[t].note
    BY <1>1
  <2>2. PICK m : m = Messages(n)
    OBVIOUS
  <2>3. PICK o \in Seq(Ids) : o = subs[s].out
    BY <1>1
  <2>4. PICK q : q = [subs[s] EXCEPT !.seen = n.id, !.out = o \o m]
    OBVIOUS
  <2>5. subs' = [subs EXCEPT ![s].seen = n.id, ![s].out = @ \o m]
    BY <1>4, <2>1, <2>2 DEF Forward
  <2>6. subs' = [subs EXCEPT ![s] = q]
    BY <1>1, <2>3, <2>4, <2>5
  <2>7. /\ n.id \in Ids /\ Message(n) \in Ids
        /\ (n.key = Click => m = <<Message(n)>>) /\ (n.key # Click => m = <<>>)
    BY <2>2, Constants DEF Messages, Message, Note
  <2>8. /\ o \o m \in Seq(Ids) /\ (n.key = Click => o \o m = o \o <<Message(n)>>)
        /\ (n.key # Click => o \o m = o)
    <3>1. CASE n.key = Click
      BY <2>7, <3>1, AppendOne
    <3>2. CASE n.key # Click
      <4>1. m = <<>> /\ o \o <<>> = o
        BY <2>7, <3>2, NoneAppended
      <4> QED
        BY <3>2, <4>1
    <3> QED
      BY <3>1, <3>2
  <2>9. /\ q \in Sub /\ q.stage = subs[s].stage /\ q.snapshot = subs[s].snapshot
        /\ q.buffer = subs[s].buffer /\ q.before = subs[s].before /\ q.gap = subs[s].gap
        /\ q.until = subs[s].until /\ q.seen = n.id /\ q.out = o \o m
    BY <1>1, <2>4, <2>7, <2>8 DEF Sub
  <2>10. subs'[s] = q
    BY <1>0, <1>1, <2>6, <2>9, SubsExcept
  <2>11. Forwarded(s, n)
    BY <2>3, <2>8, <2>9, <2>10 DEF Forwarded
  <2>12. ThreadStep(t) /\ (Announcing(t)' => s \notin work'[t].todo /\ Mine(t)' = Mine(t)) => SubOK(s)'
    BY <1>0, <1>2, <2>1, <2>7, <2>11, ForwardedOK
  <2> QED
    BY <1>0, <1>2, <2>6, <2>9, <2>12, ObserverStep
<1> QED
  BY <1>3, <1>4
-----------------------------------------------------------------------------
(* The steps of the handler and of the connection: the cache's threads stay *)
(* where they are                                                           *)

Still == UNCHANGED <<cacheVars, history>>

LEMMA StillIds ==
    ASSUME Still
    PROVE  /\ \A t \in Threads : Mine(t)' = Mine(t) /\ Announcing(t)' = Announcing(t)
           /\ \A i : OfKey(i)' = OfKey(i) /\ Written(i)' = Written(i)
           /\ \A n : Placed(n)' = Placed(n)
           /\ \A s, X : Reaches(s, X) = ReachesThen(s, X)
<1>1. work' = work /\ begun' = begun /\ finished' = finished /\ lastId' = lastId
      /\ touched' = touched
  BY DEF Still, cacheVars, history
<1>2. \A t \in Threads : Mine(t)' = Mine(t) /\ Announcing(t)' = Announcing(t)
  BY <1>1 DEF Mine, Announcing
<1>3. \A i : OfKey(i)' = OfKey(i) /\ Written(i)' = Written(i)
  BY <1>1, <1>2 DEF OfKey, Written
<1>4. \A n : Placed(n)' = Placed(n)
  BY <1>1, <1>3 DEF Placed
<1>5. \A s, X : Reaches(s, X) = ReachesThen(s, X)
  BY <1>1, <1>2 DEF Reaches, ReachesThen
<1> QED
  BY <1>2, <1>3, <1>4, <1>5

LEMMA StillThreads ==
    ASSUME Inv, Still, SubsGoOn
    PROVE  \A t \in Threads : ThreadOK(t)'
<1>1. work' = work /\ begun' = begun /\ finished' = finished /\ lastId' = lastId
  BY DEF Still, cacheVars, history
<1>2. ASSUME NEW t \in Threads PROVE ThreadOK(t)'
  <2>1. ThreadOK(t) /\ Placed(work[t].note)
    BY DEF Inv, ThreadOK
  <2>2. Placed(work[t].note)'
    <3>1. PICK n : n = work[t].note /\ Placed(n)
      BY <2>1
    <3>2. Placed(n)' /\ n = work'[t].note
      BY <1>1, <3>1, StillIds
    <3> QED
      BY <3>2 DEF Placed
  <2>3. Announcing(t)' => Mine(t)' \subseteq begun' /\ work'[t].todo \subseteq DOMAIN subs'
    BY <1>1, <2>1, StillIds DEF ThreadOK, SubsGoOn
  <2>4. work[t].step = "forward" => \A s \in Turn(t) : subs'[s].stage \in {"live", "disposed"}
    <3>1. ASSUME work[t].step = "forward", NEW s \in Turn(t) PROVE subs'[s].stage \in {"live", "disposed"}
      <4>1. s \in DOMAIN subs
        BY <2>1, <3>1 DEF ThreadOK, Announcing, Turn
      <4> QED
        BY <2>1, <3>1, <4>1 DEF ThreadOK, SubsGoOn
    <3> QED
      BY <3>1
  <2>5. Turn(t)' = Turn(t)
    BY <1>1 DEF Turn
  <2>6. \A v \in Threads : Mine(v)' = Mine(v)
    BY StillIds
  <2> QED
    BY <1>1, <2>1, <2>2, <2>3, <2>4, <2>5, <2>6 DEF ThreadOK
<1> QED
  BY <1>2

LEMMA StillIdsOK ==
    ASSUME Inv, Still, read' \in {read, cache}
    PROVE  IdsOK'
<1>1. cache' = cache /\ lastId' = lastId /\ begun' = begun /\ finished' = finished /\ earlier' = earlier
  BY DEF Still, cacheVars, history
<1>2. \A i \in {cache', read'} : i # 0 => Written(i)'
  <2>1. \A i \in {cache, read} : i # 0 => Written(i)
    BY DEF Inv, IdsOK
  <2>2. {cache', read'} \subseteq {cache, read}
    BY <1>1
  <2> QED
    BY <2>1, <2>2, StillIds
<1> QED
  BY <1>1, <1>2 DEF Inv, IdsOK

(* A subscription that changes stays sound when its ids do, *)
LEMMA StillSubIds ==
    ASSUME Still, NEW s, subs'[s] = subs[s], SubIds(s)
    PROVE  SubIds(s)'
<1>1. begun' = begun /\ lastId' = lastId /\ Out(s)' = Out(s) /\ Combined(s)' = Combined(s)
      /\ Got(s)' = Got(s)
  BY DEF Still, cacheVars, history, Out, Got, Combined
<1>2. PICK i : i = subs[s].snapshot
  OBVIOUS
<1>3. PICK j : j = subs[s].seen
  OBVIOUS
<1>4. (i # 0 => Written(i)') /\ (Combined(s) /\ OfKey(j)' => j \in Got(s))
  BY <1>2, <1>3, StillIds DEF SubIds
<1>5. (subs'[s].snapshot # 0 => Written(subs[s].snapshot)')
      /\ (Combined(s)' /\ OfKey(subs[s].seen)' => subs'[s].seen \in Got(s)')
  BY <1>1, <1>2, <1>3, <1>4 DEF Written, OfKey
<1>6. \A n \in subs'[s].buffer : Placed(n)' /\ Change(n) \subseteq begun' \ subs'[s].before
      /\ subs'[s].before \subseteq begun'
  BY <1>1, StillIds DEF SubIds
<1> QED
  BY <1>1, <1>5, <1>6 DEF SubIds

(* and one that does not change stays as it is. *)
LEMMA StillSub ==
    ASSUME Still, NEW s, subs'[s] = subs[s], SubOK(s), ended => ended'
    PROVE  SubOK(s)'
<1>1. begun' = begun /\ lastId' = lastId /\ finished' = finished /\ earlier' = earlier /\ work' = work
      /\ Out(s)' = Out(s) /\ Combined(s)' = Combined(s) /\ Got(s)' = Got(s) /\ Began(s)' = Began(s)
  BY DEF Still, cacheVars, history, Out, Got, Began, Combined
<1>2. SubIds(s)'
  BY StillSubIds DEF SubOK
<1>3. Delivered(s)'
  <2>1. PICK X : X = subs[s].before \cup OwnIds(subs[s].buffer)
    OBVIOUS
  <2>2. PICK Y : Y = subs[s].gap \cup Got(s)
    OBVIOUS
  <2>3. /\ subs[s].stage = "buffering" => ReachesThen(s, X)
        /\ subs[s].stage = "live" /\ ~ended => ReachesThen(s, Y)
    BY <2>1, <2>2, StillIds DEF SubOK, Delivered
  <2>4. /\ subs'[s].stage = "buffering" => Reaches(s, subs[s].before \cup OwnIds(subs[s].buffer))'
        /\ subs'[s].stage = "live" /\ ~ended => Reaches(s, subs[s].gap \cup Got(s))'
    BY <1>1, <2>1, <2>2, <2>3 DEF Reaches, ReachesThen, OwnIds
  <2> QED
    BY <1>1, <2>4 DEF SubOK, Delivered
<1>f. Fresh(s)'
  BY <1>1, StillIds DEF SubOK, Fresh
<1>4. Ordered(s)'
  BY <1>1 DEF SubOK, Ordered
<1>5. Silent(s)'
  BY <1>1, StillIds DEF SubOK, Silent
<1> QED
  BY <1>2, <1>3, <1>f, <1>4, <1>5 DEF SubOK

(* The connection goes on or comes to its end. *)
LEMMA QuietStep ==
    ASSUME Inv, Still, UNCHANGED <<subs, tracked, ended>>, read' \in {read, cache},
           \/ handling' = handling /\ read' = read
           \/ handling = "idle" /\ handling' = "read",
           events' \in 0..MaxEvents, {waits', open', stopped', receiving', sending'} \subseteq BOOLEAN,
           ended' => ~receiving', ~receiving' => handling' = "idle"
    PROVE  Inv'
<1>1. SubsGoOn /\ TypeOK /\ Control /\ subs' = subs
  BY DEF SubsGoOn, Inv
<1>2. Control'
  BY <1>1 DEF Control
<1>3. TypeOK'
  <2>1. read' \in Ids
    BY <1>1 DEF TypeOK
  <2>2. \A i \in DOMAIN subs' : subs'[i].stage \in {"buffering", "replayed"} =>
          i = Len(subs') /\ handling' = IF subs'[i].stage = "buffering" THEN "replay" ELSE "replayed"
    BY <1>1 DEF TypeOK
  <2>3. handling' \in {"idle", "read", "replay", "replayed"} /\ ended' \in BOOLEAN
    BY <1>1 DEF TypeOK
  <2> QED
    BY <1>1, <2>1, <2>2, <2>3 DEF TypeOK, Still, cacheVars, history
<1>4. \A t \in Threads : ThreadOK(t)'
  BY <1>1, StillThreads
<1>5. \A s \in DOMAIN subs' : SubOK(s)'
  BY <1>1, StillSub DEF Inv
<1> QED
  BY <1>2, <1>3, <1>4, <1>5, StillIdsOK DEF Inv

LEMMA QuietSteps ==
    ASSUME Inv,
           \/ Subscribe \/ SubscribeToNothing \/ UnsubscribeUnknown \/ CommandThrows
           \/ CloseSocket \/ StopServer \/ ReceiveEnds \/ Send \/ SendEnds \/ UNCHANGED vars
    PROVE  Inv'
<1>0. TypeOK /\ Control /\ MaxEvents \in Nat
  BY Constants DEF Inv
<1>1. events \in 0..MaxEvents /\ (Event => events' \in 0..MaxEvents)
  BY <1>0 DEF TypeOK, Event
<1>2. {waits, open, stopped, receiving, sending, ended} \subseteq BOOLEAN
  BY <1>0 DEF TypeOK
<1>3. CASE Subscribe
  <2>1. receiving
    BY <1>3 DEF Subscribe, Command, Receives
  <2> QED
    BY <1>0, <1>1, <1>2, <1>3, <2>1, QuietStep
       DEF Subscribe, Command, Receives, Enqueue, socketVars, Still, history, Control
<1>4. CASE SubscribeToNothing
  BY <1>0, <1>1, <1>2, <1>4, QuietStep
     DEF SubscribeToNothing, Command, Enqueue, socketVars, Still, history, Control
<1>u. CASE UnsubscribeUnknown
  BY <1>0, <1>1, <1>2, <1>u, QuietStep
     DEF UnsubscribeUnknown, Command, Enqueue, socketVars, Still, history, Control
<1>c. CASE CommandThrows
  BY <1>0, <1>1, <1>2, <1>c, QuietStep DEF CommandThrows, Receives, handlerVars, Still, history, Control
<1>5. CASE CloseSocket
  BY <1>0, <1>1, <1>2, <1>5, QuietStep DEF CloseSocket, handlerVars, Still, history, Control
<1>6. CASE StopServer
  BY <1>0, <1>1, <1>2, <1>6, QuietStep DEF StopServer, handlerVars, Still, history, Control
<1>7. CASE ReceiveEnds
  BY <1>0, <1>1, <1>2, <1>7, QuietStep DEF ReceiveEnds, handlerVars, Still, history, Control
<1>8. CASE Send
  BY <1>0, <1>1, <1>2, <1>8, QuietStep DEF Send, handlerVars, Still, history, Control
<1>9. CASE SendEnds
  BY <1>0, <1>1, <1>2, <1>9, QuietStep DEF SendEnds, handlerVars, Still, history, Control
<1>10. CASE UNCHANGED vars
  BY <1>0, <1>1, <1>2, <1>10, QuietStep DEF vars, handlerVars, socketVars, Still, history, Control
<1> QED
  BY <1>3, <1>4, <1>u, <1>c, <1>5, <1>6, <1>7, <1>8, <1>9, <1>10
-----------------------------------------------------------------------------
(* The steps of the handler that change a subscription *)

LEMMA SubsAppend ==
    ASSUME TypeOK, NEW q \in Sub, subs' = Append(subs, q)
    PROVE  /\ subs' \in Seq(Sub) /\ Len(subs') = Len(subs) + 1 /\ Len(subs) \in Nat
           /\ DOMAIN subs = 1..Len(subs) /\ DOMAIN subs' = 1..Len(subs')
           /\ subs'[Len(subs')] = q /\ \A s \in DOMAIN subs : subs'[s] = subs[s]
<1> QED
  BY Typed

(* A subscription is attached. *)
LEMMA AttachStep ==
    ASSUME Inv, Still, UNCHANGED <<events, read, waits, socketVars>>, handling = "read",
           NEW stage \in {"live", "buffering"}, NEW gap \in SUBSET Ids, subs' = NewSub(stage, gap),
           \/ stage = "live" /\ read = 0 /\ gap = begun /\ tracked' = Len(subs') /\ handling' = "idle"
           \/ stage = "buffering" /\ read # 0 /\ tracked' = tracked /\ handling' = "replay"
    PROVE  Inv'
<1>0. TypeOK /\ Control /\ IdsOK /\ (\A t \in Threads : ThreadOK(t))
      /\ begun \in SUBSET Ids /\ finished \subseteq begun /\ read \in Ids /\ lastId \in Nat /\ Still
      /\ ~ended /\ receiving
  BY Typed, Constants DEF Inv, Control
<1>1. PICK q : q = [stage |-> stage, snapshot |-> read, buffer |-> {}, seen |-> -1, out |-> <<>>,
                    before |-> begun, gap |-> gap, until |-> Ids]
  OBVIOUS
<1>2. q \in Sub
  BY <1>0, <1>1 DEF Sub
<1>3. subs' = Append(subs, q)
  BY <1>1 DEF NewSub
<1>4. /\ subs' \in Seq(Sub) /\ Len(subs') = Len(subs) + 1 /\ Len(subs) \in Nat
      /\ DOMAIN subs = 1..Len(subs) /\ DOMAIN subs' = 1..Len(subs')
      /\ subs'[Len(subs')] = q /\ \A s \in DOMAIN subs : subs'[s] = subs[s]
  BY <1>0, <1>2, <1>3, SubsAppend
<1>5. SubsGoOn
  BY <1>4 DEF SubsGoOn
<1>6. PICK s : s = Len(subs')
  OBVIOUS
<1>7. /\ subs'[s].stage = stage /\ subs'[s].snapshot = read /\ subs'[s].buffer = {}
      /\ subs'[s].seen = -1 /\ subs'[s].out = <<>> /\ subs'[s].before = begun
      /\ subs'[s].gap = gap /\ subs'[s].until = Ids /\ Out(s)' = {} /\ DOMAIN subs'[s].out = {}
  BY <1>1, <1>4, <1>6 DEF Out, ToSet
<1>8. SubOK(s)'
  <2>1. SubIds(s)'
    <3>1. read # 0 => Written(read)'
      BY <1>0, StillIds DEF IdsOK
    <3>2. -1 <= lastId' /\ ~OfKey(-1)'
      <4>1. lastId' = lastId /\ ~(-1 \in begun)
        BY <1>0, Constants DEF Still, cacheVars, IdsOK
      <4>2. \A t \in Threads : ~(-1 \in Mine(t))
        <5>1. ~(-1 \in Nat)
          OBVIOUS
        <5> QED
          BY <1>0, <5>1, MineTaken DEF ThreadOK
      <4> QED
        BY <1>0, <4>1, <4>2, StillIds DEF OfKey
    <3>3. (subs'[s].snapshot # 0 => Written(subs[s].snapshot)') /\ ~OfKey(subs[s].seen)'
      BY <1>0, <1>7, <3>1, <3>2 DEF Written, OfKey
    <3>4. subs'[s].before \subseteq begun'
      BY <1>0, <1>7 DEF Still, history
    <3> QED
      BY <1>7, <3>2, <3>3, <3>4 DEF SubIds
  <2>2. Delivered(s)'
    <3>1. begun' = begun /\ finished' = finished
      BY <1>0 DEF Still, history
    <3>2. \A t \in Threads : Announcing(t)' => Mine(t)' \subseteq begun
      BY <1>0, StillIds DEF ThreadOK
    <3>3. begun \subseteq subs'[s].before \cup OwnIds(subs'[s].buffer)
          /\ (stage = "live" => begun \subseteq subs'[s].gap \cup Got(s)')
      BY <1>7
    <3>4. Reaches(s, subs[s].before \cup OwnIds(subs[s].buffer))'
          /\ (stage = "live" => Reaches(s, subs[s].gap \cup Got(s))')
      BY <1>0, <3>1, <3>2, <3>3 DEF Reaches
    <3>5. stage = "live" => ~Combined(s)'
      BY <1>7 DEF Combined
    <3> QED
      BY <1>7, <3>4, <3>5 DEF Delivered
  <2>f. Fresh(s)'
    <3>1. ASSUME NEW t \in Threads, Announcing(t)', s \in work'[t].todo PROVE FALSE
      <4>1. Announcing(t) /\ s \in work[t].todo
        BY <1>0, <3>1, StillIds DEF Still, cacheVars
      <4>2. s \in DOMAIN subs
        BY <1>0, <4>1 DEF ThreadOK
      <4> QED
        BY <1>4, <1>6, <4>2
    <3> QED
      BY <3>1 DEF Fresh
  <2>3. Ordered(s)'
    BY <1>7 DEF Ordered
  <2>4. Silent(s)'
    BY <1>7 DEF Silent
  <2> QED
    BY <2>1, <2>2, <2>f, <2>3, <2>4 DEF SubOK
<1>9. \A r \in DOMAIN subs' : SubOK(r)'
  <2>1. ASSUME NEW r \in DOMAIN subs PROVE SubOK(r)'
    BY <1>4, <2>1, StillSub DEF Inv, socketVars
  <2>2. \A r \in DOMAIN subs' : r = s \/ r \in DOMAIN subs
    BY <1>4, <1>6
  <2> QED
    BY <1>8, <2>1, <2>2
<1>10. ended' = ended /\ receiving' = receiving /\ read' = read
  BY DEF socketVars
<1>11. Control'
  BY <1>0, <1>4, <1>6, <1>7, <1>10 DEF Control
<1>12. \A i \in DOMAIN subs : subs[i].stage \in {"live", "disposed"}
  <2>1. \A i \in DOMAIN subs : subs[i].stage \notin {"buffering", "replayed"}
    BY <1>0 DEF TypeOK
  <2> QED
    BY <1>0, <2>1, Typed, SubFields
<1>13. TypeOK'
  <2>1. \A i \in DOMAIN subs' : subs'[i].stage \in {"buffering", "replayed"} =>
          i = Len(subs') /\ handling' = IF subs'[i].stage = "buffering" THEN "replay" ELSE "replayed"
    <3>1. \A i \in DOMAIN subs' : i = s \/ (i \in DOMAIN subs /\ subs'[i].stage \in {"live", "disposed"})
      BY <1>4, <1>6, <1>12
    <3> QED
      BY <1>6, <1>7, <3>1
  <2>2. tracked' \in 0..Len(subs')
    BY <1>0, <1>4 DEF TypeOK
  <2>3. tracked' # 0 => subs'[tracked'].stage = IF ended' THEN "disposed" ELSE "live"
    <3>1. CASE tracked' = Len(subs') /\ stage = "live"
      BY <1>0, <1>6, <1>7, <1>10, <3>1
    <3>2. CASE tracked' = tracked
      <4>1. tracked # 0 => tracked \in DOMAIN subs
        BY <1>0, <1>4 DEF TypeOK
      <4> QED
        BY <1>0, <1>4, <1>10, <3>2, <4>1 DEF TypeOK
    <3> QED
      BY <3>1, <3>2
  <2> QED
    BY <1>0, <1>4, <1>10, <2>1, <2>2, <2>3 DEF TypeOK, Still, cacheVars, history, socketVars
<1> QED
  BY <1>0, <1>5, <1>9, <1>10, <1>11, <1>13, StillThreads, StillIdsOK DEF Inv

LEMMA AttachSteps ==
    ASSUME Inv, SubscribeLive \/ SubscribeCombined
    PROVE  Inv'
<1>1. begun \in SUBSET Ids /\ {} \in SUBSET Ids
  BY Typed DEF Inv
<1>2. CASE SubscribeLive
  BY <1>1, <1>2, AttachStep DEF SubscribeLive, Still
<1>3. CASE SubscribeCombined
  BY <1>1, <1>3, AttachStep DEF SubscribeCombined, Still
<1> QED
  BY <1>2, <1>3

(* One subscription changes. *)
LEMMA ChangeStep ==
    ASSUME Inv, Still, read' = read, NEW s \in DOMAIN subs, NEW q \in Sub,
           subs' = [subs EXCEPT ![s] = q], ended => ended', SubOK(s)', TypeOK', Control',
           subs[s].stage \in {"live", "disposed"} => q.stage \in {"live", "disposed"}
    PROVE  Inv'
<1>1. /\ subs' \in Seq(Sub) /\ Len(subs') = Len(subs) /\ DOMAIN subs' = DOMAIN subs
      /\ subs'[s] = q /\ \A r \in DOMAIN subs \ {s} : subs'[r] = subs[r]
  BY SubsExcept DEF Inv
<1>2. SubsGoOn
  BY <1>1 DEF SubsGoOn
<1>3. \A r \in DOMAIN subs' : SubOK(r)'
  <2>1. ASSUME NEW r \in DOMAIN subs, r # s PROVE SubOK(r)'
    BY <1>1, <2>1, StillSub DEF Inv
  <2> QED
    BY <1>1, <2>1
<1> QED
  BY <1>2, <1>3, StillThreads, StillIdsOK DEF Inv

(* Notes of which no two have the same id are as many as ids. *)
LEMMA AscendingFacts ==
    ASSUME NEW S, \A n \in S : n.id \in Ids, \A m, n \in S : m.id = n.id => m = n,
           NEW o \in Ascending(S)
    PROVE  /\ o \in Seq(S) /\ ToSet(o) = S
           /\ \A i, j \in DOMAIN o : i < j => o[i].id < o[j].id
<1>1. IsFiniteSet(S)
  <2>1. PICK I : I = {n.id : n \in S}
    OBVIOUS
  <2>2. IsFiniteSet(I)
    <3>1. IsFiniteSet(Ids)
      BY Constants, FS_Interval DEF Ids
    <3> QED
      BY <2>1, <3>1, FS_Subset
  <2>3. PICK f : f = [i \in I |-> CHOOSE n \in S : n.id = i]
    OBVIOUS
  <2>4. ASSUME NEW n \in S PROVE n.id \in I /\ f[n.id] = n
    <3>1. \E m \in S : m.id = n.id
      OBVIOUS
    <3>2. (CHOOSE m \in S : m.id = n.id) = n
      BY <3>1
    <3> QED
      BY <2>1, <2>3, <3>2
  <2>5. \A i \in I : f[i] \in S
    BY <2>1, <2>4
  <2>6. f \in Surjection(I, S)
    BY <2>3, <2>4, <2>5 DEF Surjection
  <2> QED
    BY <2>2, <2>6, FS_Surjection
<1>2. Cardinality(S) \in Nat
  BY <1>1, FS_CardinalityType
<1>3. o \in [1..Cardinality(S) -> S] /\ S \subseteq ToSet(o)
      /\ \A i, j \in DOMAIN o : i < j => o[i].id < o[j].id
  BY DEF Ascending, Orders
<1>4. PICK n \in Nat : n = Cardinality(S)
  BY <1>2
<1>5. o \in [1..n -> S]
  BY <1>3, <1>4
<1>6. o \in Seq(S)
  BY <1>5
<1>7. ToSet(o) = S
  BY <1>3, <1>5 DEF ToSet
<1> QED
  BY <1>3, <1>6, <1>7

(* What is told of notes. *)
LEMMA MessagesOf ==
    ASSUME NEW S, NEW own \in Seq(S), ToSet(own) = S, \A n \in S : Message(n) \in Ids
    PROVE  /\ [i \in DOMAIN own |-> Message(own[i])] \in Seq(Ids)
           /\ ToSet([i \in DOMAIN own |-> Message(own[i])]) = {Message(n) : n \in S}
<1>1. DOMAIN own = 1..Len(own) /\ Len(own) \in Nat /\ \A i \in DOMAIN own : own[i] \in S
  OBVIOUS
<1>2. PICK f : f = [i \in DOMAIN own |-> Message(own[i])]
  OBVIOUS
<1>3. f \in [1..Len(own) -> Ids]
  BY <1>1, <1>2
<1>4. f \in Seq(Ids)
  BY <1>1, <1>3
<1>5. ToSet(f) = {Message(n) : n \in S}
  BY <1>1, <1>2 DEF ToSet
<1> QED
  BY <1>2, <1>4, <1>5

(* Of each id that an update of the key has, one is replayed, and it is     *)
(* that update: another key has other ids.                                  *)
LEMMA KeptIds ==
    ASSUME NEW notes, \A n \in notes : Placed(n) /\ (n.key = Click /\ n.id # 0 => OfKey(n.id)),
           NEW kept \in Distinct(notes)
    PROVE  /\ \A i \in OwnIds(notes) : i # 0 => i \in OwnIds(kept)
           /\ kept \subseteq notes
           /\ \A n \in kept : OfKey(n.id) => n.id \in OwnIds(kept)
           /\ \A m, n \in kept : m.id = n.id => m = n
<1>1. kept \subseteq notes /\ \A n \in notes : \E m \in kept : m.id = n.id
  BY DEF Distinct
<1>2. ASSUME NEW n \in kept, OfKey(n.id) PROVE n.id \in OwnIds(kept)
  BY <1>1, <1>2 DEF Placed, OwnIds, Own
<1>3. ASSUME NEW i \in OwnIds(notes), i # 0 PROVE i \in OwnIds(kept)
  <2>1. PICK n \in notes : n.id = i /\ n.key = Click
    BY <1>3 DEF OwnIds, Own
  <2>2. OfKey(i)
    BY <1>3, <2>1
  <2>3. PICK m \in kept : m.id = i
    BY <1>1, <2>1
  <2> QED
    BY <1>2, <2>2, <2>3
<1>4. \A m, n \in kept : m.id = n.id => m = n
  BY DEF Distinct
<1> QED
  BY <1>1, <1>2, <1>3, <1>4

LEMMA ReplayStep ==
    ASSUME Inv, Replay
    PROVE  Inv'
<1>1. PICK s : s = Len(subs)
  OBVIOUS
<1>0. /\ TypeOK /\ Control /\ IdsOK /\ (\A t \in Threads : ThreadOK(t)) /\ handling = "replay"
      /\ s \in DOMAIN subs /\ subs[s].stage = "buffering" /\ subs[s].snapshot = read /\ read # 0
      /\ SubOK(s) /\ subs[s] \in Sub /\ read \in Ids /\ lastId \in Nat
      /\ begun \subseteq Ids /\ finished \subseteq begun /\ Ids \subseteq Nat
      /\ subs[s].buffer \subseteq Note
  <2>1. TypeOK /\ Control /\ IdsOK /\ (\A t \in Threads : ThreadOK(t)) /\ handling = "replay"
    BY DEF Inv, Replay
  <2>2. Len(subs) > 0 /\ subs[s].stage = "buffering" /\ subs[s].snapshot = read /\ read # 0
    BY <1>1, <2>1 DEF Control
  <2>3. s \in DOMAIN subs
    BY <1>1, <2>1, <2>2, Typed
  <2>4. SubOK(s) /\ subs[s] \in Sub /\ subs[s].buffer \subseteq Note
    BY <2>1, <2>3, Typed, SubFields DEF Inv
  <2> QED
    BY <2>1, <2>2, <2>3, <2>4, Typed, Constants
<1>2. /\ tracked' = tracked /\ read' = read /\ handling' = "replayed" /\ waits' = TRUE /\ events' = events
      /\ UNCHANGED socketVars /\ Still
  BY DEF Replay, Enqueue, Still
<1>3. PICK notes : notes = subs[s].buffer \cup {[type |-> "store", key |-> Click, id |-> read]}
  OBVIOUS
<1>k. PICK kept \in Distinct(notes) :
        \E own \in Ascending(Own(kept)), n \in Latest(kept) : subs' = Replayed(s, own, n.id)
  BY <1>1, <1>3 DEF Replay
<1>4. PICK own \in Ascending(Own(kept)), n \in Latest(kept) : subs' = Replayed(s, own, n.id)
  BY <1>k
<1>5. OfKey(read) /\ read <= lastId
  <2>1. Written(read)
    BY <1>0 DEF IdsOK
  <2>2. OfKey(read)
    BY <2>1 DEF Written, OfKey
  <2>3. \A i : OfKey(i) => i <= lastId
    <3>1. \A i \in begun : i <= lastId
      BY <1>0 DEF IdsOK
    <3>2. \A t \in Threads : \A i \in Mine(t) : i <= lastId
      BY <1>0, MineTaken DEF ThreadOK
    <3> QED
      BY <3>1, <3>2 DEF OfKey
  <2> QED
    BY <2>2, <2>3
<1>6. \A m \in notes : Placed(m) /\ (m.key = Click /\ m.id # 0 => OfKey(m.id)) /\ m.id \in Ids
  <2>1. ASSUME NEW m \in subs[s].buffer
        PROVE  Placed(m) /\ (m.key = Click /\ m.id # 0 => OfKey(m.id)) /\ m.id \in Ids
    <3>1. Placed(m) /\ Change(m) \subseteq begun \ subs[s].before /\ m.id \in Ids
      BY <1>0 DEF SubOK, SubIds, Note
    <3> QED
      BY <3>1 DEF Change, OfKey
  <2>2. ASSUME NEW m, m = [type |-> "store", key |-> Click, id |-> read]
        PROVE  Placed(m) /\ (m.key = Click /\ m.id # 0 => OfKey(m.id)) /\ m.id \in Ids
    BY <1>0, <1>5, <2>2 DEF Placed, Message
  <2> QED
    BY <1>3, <2>1, <2>2
<1>7. /\ \A i \in OwnIds(notes) : i # 0 => i \in OwnIds(kept)
      /\ kept \subseteq notes
      /\ \A m \in kept : OfKey(m.id) => m.id \in OwnIds(kept)
      /\ \A l, m \in kept : l.id = m.id => l = m
  BY <1>6, KeptIds
<1>8. \A m \in Own(kept) : /\ m \in kept /\ m.key = Click /\ m.id \in Ids /\ m.id <= lastId
                           /\ Message(m) \in {0, m.id} /\ Message(m) \in Ids
                           /\ (Message(m) = m.id \/ m.id \in touched)
  <2>1. ASSUME NEW m \in Own(kept)
        PROVE  m \in kept /\ m.key = Click /\ Placed(m) /\ m.id \in Ids
    BY <1>6, <1>7, <2>1 DEF Own
  <2>2. ASSUME NEW m \in Own(kept) PROVE Message(m) \in {0, m.id} /\ Message(m) \in Ids
    BY <1>0, <2>1, <2>2, Constants DEF Message
  <2>3. ASSUME NEW m \in Own(kept)
        PROVE  m.id <= lastId /\ (Message(m) = m.id \/ m.id \in touched)
    BY <2>1, <2>3 DEF Placed
  <2> QED
    BY <2>1, <2>2, <2>3
<1>9. /\ own \in Seq(Own(kept)) /\ ToSet(own) = Own(kept)
      /\ \A i, j \in DOMAIN own : i < j => own[i].id < own[j].id
  <2>1. \A l, m \in Own(kept) : l.id = m.id => l = m
    BY <1>7 DEF Own
  <2> QED
    BY <1>8, <2>1, AscendingFacts
<1>o. PICK out : out = [i \in DOMAIN own |-> Message(own[i])]
  OBVIOUS
<1>a. /\ out \in Seq(Ids) /\ ToSet(out) = {Message(m) : m \in Own(kept)} /\ DOMAIN out = DOMAIN own
      /\ \A i \in DOMAIN own : out[i] = Message(own[i]) /\ own[i] \in Own(kept)
  BY <1>8, <1>9, <1>o, MessagesOf
<1>b. (\A i \in ToSet(out) : i \in 0..lastId) /\ \A i \in OwnIds(kept) : i \in ToSet(out) \cup touched
  <2>1. ASSUME NEW i \in ToSet(out) PROVE i \in 0..lastId
    <3>1. PICK m \in Own(kept) : i = Message(m)
      BY <1>a, <2>1
    <3>2. m.id \in Nat /\ m.id <= lastId /\ i \in {0, m.id}
      BY <1>0, <1>8, <3>1
    <3> QED
      BY <1>0, <3>2
  <2>2. ASSUME NEW i \in OwnIds(kept) PROVE i \in ToSet(out) \cup touched
    <3>1. PICK m \in Own(kept) : i = m.id
      BY <2>2 DEF OwnIds
    <3> QED
      BY <1>a, <1>8, <3>1
  <2> QED
    BY <2>1, <2>2
<1>10. n \in kept /\ n.id \in Ids /\ n.id <= lastId /\ (OfKey(n.id) => n.id \in OwnIds(kept))
  BY <1>6, <1>7 DEF Latest, Placed
<1>11. read \in OwnIds(kept)
  <2>1. read \in OwnIds(notes)
    <3>1. PICK m : m = [type |-> "store", key |-> Click, id |-> read]
      OBVIOUS
    <3>2. m \in notes /\ m.key = Click /\ m.id = read
      BY <1>3, <3>1
    <3> QED
      BY <3>2 DEF OwnIds, Own
  <2> QED
    BY <1>0, <1>7, <2>1
<1>c. read \in ToSet(out) \cup (touched \ subs[s].before)
  <2>1. PICK m \in Own(kept) : m.id = read
    BY <1>11 DEF OwnIds
  <2>2. CASE Message(m) = m.id
    BY <1>a, <2>1, <2>2
  <2>3. CASE Message(m) # m.id
    <3>1. m \in notes /\ m.key = Click /\ read \in touched
      BY <1>7, <1>8, <2>1, <2>3
    <3>2. m # [type |-> "store", key |-> Click, id |-> read]
      BY <2>1, <2>3 DEF Message
    <3>3. m \in subs[s].buffer
      BY <1>3, <3>1, <3>2
    <3>4. read \in Change(m)
      BY <1>0, <2>1, <3>1 DEF Change
    <3> QED
      BY <1>0, <3>1, <3>3, <3>4 DEF SubOK, SubIds
  <2> QED
    BY <2>2, <2>3
<1>12. PICK g : g = finished \ subs[s].before
  OBVIOUS
<1>13. g \subseteq OwnIds(kept)
  <2>1. ASSUME NEW i \in g PROVE i \in OwnIds(kept)
    <3>1. i \in finished /\ i \notin subs[s].before /\ i # 0
      BY <1>0, <1>12, <2>1 DEF IdsOK
    <3>2. i \in OwnIds(subs[s].buffer)
      BY <1>0, <3>1 DEF SubOK, Delivered, Reaches
    <3>3. i \in OwnIds(notes)
      BY <1>3, <3>2 DEF OwnIds, Own
    <3> QED
      BY <1>7, <3>1, <3>3
  <2> QED
    BY <2>1
<1>14. PICK q : q = [subs[s] EXCEPT !.stage = "replayed", !.buffer = {}, !.seen = n.id, !.out = out,
                                    !.gap = g]
  OBVIOUS
<1>15. /\ q \in Sub /\ q.stage = "replayed" /\ q.snapshot = read /\ q.buffer = {} /\ q.out = out
       /\ q.seen = n.id /\ q.gap = g /\ q.until = subs[s].until
       /\ q.before = subs[s].before
  BY <1>0, <1>a, <1>10, <1>12, <1>14 DEF Sub
<1>16. subs' = [subs EXCEPT ![s] = q]
  <2>1. subs \in [1..Len(subs) -> Sub] /\ s \in 1..Len(subs)
    BY <1>0, Typed
  <2>2. subs' = [subs EXCEPT ![s].stage = "replayed", ![s].buffer = {}, ![s].seen = n.id,
                             ![s].out = out, ![s].gap = g]
    BY <1>4, <1>o, <1>12 DEF Replayed
  <2> QED
    BY <1>14, <2>1, <2>2
<1>17. /\ subs' \in Seq(Sub) /\ Len(subs') = Len(subs) /\ DOMAIN subs' = DOMAIN subs
       /\ subs'[s] = q /\ \A r \in DOMAIN subs \ {s} : subs'[r] = subs[r]
  BY <1>0, <1>15, <1>16, SubsExcept
<1>18. Out(s)' = ToSet(out) /\ touched' = touched /\ OwnIds(kept) \subseteq Got(s)'
  <2>1. Out(s)' = ToSet(out) /\ touched' = touched
    BY <1>2, <1>15, <1>17 DEF Out, Still, history
  <2> QED
    BY <1>b, <2>1 DEF Got
<1>19. SubOK(s)'
  <2>1. SubIds(s)'
    <3>1. Written(read)'
      BY <1>0, StillIds, <1>2 DEF IdsOK
    <3>2. Written(subs[s].snapshot)'
      BY <1>2, <1>15, <1>17, <3>1 DEF Written
    <3>3. OfKey(n.id)' => n.id \in OwnIds(kept)
      BY <1>2, <1>10, StillIds
    <3>4. OfKey(subs[s].seen)' => OfKey(n.id)'
      BY <1>15, <1>17 DEF OfKey
    <3>5. lastId' = lastId
      BY <1>2 DEF Still, cacheVars
    <3>6. Out(s)' \subseteq 0..lastId'
      BY <1>b, <1>18, <3>5
    <3>7. subs'[s].before \subseteq begun'
      BY <1>0, <1>2, <1>15, <1>17 DEF SubOK, SubIds, Still, history
    <3> QED
      BY <1>10, <1>15, <1>17, <1>18, <3>2, <3>3, <3>4, <3>5, <3>6, <3>7 DEF SubIds
  <2>2. Delivered(s)'
    BY <1>c, <1>13, <1>15, <1>17, <1>18 DEF Delivered, Began
  <2>f. Fresh(s)'
    BY <1>0, <1>2, <1>15, <1>17, StillIds DEF SubOK, Fresh, Still, cacheVars
  <2>3. Ordered(s)'
    <3>1. ASSUME NEW i \in DOMAIN out, NEW j \in DOMAIN out, i < j PROVE out[j] \notin earlier[out[i]]
      <4>1. /\ own[i].id < own[j].id /\ own[i].id \in Nat /\ own[j].id \in Nat
            /\ out[i] \in {0, own[i].id} /\ out[j] \in {0, own[j].id} /\ out[i] \in Ids
        BY <1>0, <1>8, <1>9, <1>a, <3>1
      <4>2. \A m \in earlier[out[i]] : m < out[i] /\ m \in finished
        BY <1>0, <4>1 DEF IdsOK
      <4>3. 0 \notin finished
        BY <1>0 DEF IdsOK
      <4>4. CASE out[j] = 0
        BY <4>2, <4>3, <4>4
      <4>5. CASE out[j] = own[j].id
        <5>1. ~(own[j].id < out[i])
          BY <4>1
        <5> QED
          BY <4>2, <4>5, <5>1
      <4> QED
        BY <4>1, <4>4, <4>5
    <3>2. earlier' = earlier
      BY <1>2 DEF Still, history
    <3> QED
      BY <1>15, <1>17, <3>1, <3>2 DEF Ordered
  <2>4. Silent(s)'
    <3>1. subs[s].until = Ids
      BY <1>0 DEF SubOK, Silent
    <3>2. ToSet(out) \subseteq Ids
      BY <1>a DEF ToSet
    <3> QED
      BY <1>15, <1>17, <1>18, <3>1, <3>2 DEF Silent
  <2> QED
    BY <2>1, <2>2, <2>f, <2>3, <2>4 DEF SubOK
<1>20. Control'
  <2>1. Len(subs) > 0
    BY <1>0, <1>1, Typed
  <2> QED
    BY <1>0, <1>1, <1>2, <1>15, <1>17, <2>1 DEF Control, socketVars
<1>21. TypeOK'
  <2>1. \A i \in DOMAIN subs' : subs'[i].stage \in {"buffering", "replayed"} =>
          i = Len(subs') /\ handling' = IF subs'[i].stage = "buffering" THEN "replay" ELSE "replayed"
    BY <1>0, <1>1, <1>2, <1>15, <1>17 DEF TypeOK
  <2>2. tracked' # 0 => subs'[tracked'].stage = IF ended' THEN "disposed" ELSE "live"
    <3>1. tracked # 0 => tracked \in DOMAIN subs
      BY <1>0, Typed DEF TypeOK
    <3>2. tracked # 0 => tracked # s
      BY <1>0 DEF TypeOK
    <3> QED
      BY <1>0, <1>2, <1>17, <3>1, <3>2 DEF TypeOK, socketVars
  <2> QED
    BY <1>0, <1>2, <1>17, <2>1, <2>2 DEF TypeOK, Still, cacheVars, history, socketVars
<1> QED
  BY <1>0, <1>2, <1>15, <1>16, <1>19, <1>20, <1>21, ChangeStep DEF socketVars

LEMMA GoLiveStep ==
    ASSUME Inv, GoLive
    PROVE  Inv'
<1>1. PICK s : s = Len(subs)
  OBVIOUS
<1>0. /\ TypeOK /\ Control /\ IdsOK /\ (\A t \in Threads : ThreadOK(t)) /\ handling = "replayed"
      /\ s \in DOMAIN subs /\ subs[s].stage = "replayed" /\ SubOK(s) /\ subs[s] \in Sub
      /\ begun \subseteq Ids /\ finished \subseteq begun /\ ~ended /\ receiving
      /\ s \in 1..Len(subs) /\ subs \in [1..Len(subs) -> Sub]
  <2>1. TypeOK /\ Control /\ IdsOK /\ (\A t \in Threads : ThreadOK(t)) /\ handling = "replayed"
    BY DEF Inv, GoLive
  <2>2. Len(subs) > 0 /\ subs[s].stage = "replayed" /\ ~ended /\ receiving
    BY <1>1, <2>1 DEF Control
  <2>3. s \in DOMAIN subs /\ s \in 1..Len(subs) /\ subs \in [1..Len(subs) -> Sub]
    BY <1>1, <2>1, <2>2, Typed
  <2>4. SubOK(s)
    BY <2>3 DEF Inv
  <2> QED
    BY <2>1, <2>2, <2>3, <2>4, Typed
<1>2. /\ tracked' = s /\ read' = read /\ handling' = "idle" /\ waits' = waits /\ events' = events
      /\ UNCHANGED socketVars /\ Still
  BY <1>1 DEF GoLive, Still
<1>3. PICK g : g = begun \ subs[s].gap
  OBVIOUS
<1>4. PICK q : q = [subs[s] EXCEPT !.stage = "live", !.gap = g]
  OBVIOUS
<1>5. /\ q \in Sub /\ q.stage = "live" /\ q.snapshot = subs[s].snapshot /\ q.buffer = subs[s].buffer
      /\ q.out = subs[s].out /\ q.seen = subs[s].seen /\ q.gap = g /\ q.until = subs[s].until
      /\ q.before = subs[s].before
  BY <1>0, <1>3, <1>4 DEF Sub
<1>6. subs' = [subs EXCEPT ![s] = q]
  BY <1>0, <1>1, <1>3, <1>4 DEF GoLive
<1>7. /\ subs' \in Seq(Sub) /\ Len(subs') = Len(subs) /\ DOMAIN subs' = DOMAIN subs
      /\ subs'[s] = q /\ \A r \in DOMAIN subs \ {s} : subs'[r] = subs[r]
  BY <1>0, <1>5, <1>6, SubsExcept
<1>8. Out(s)' = Out(s) /\ Combined(s)' = Combined(s) /\ Got(s)' = Got(s) /\ Began(s)' = Began(s)
  <2>1. touched' = touched
    BY <1>2 DEF Still, history
  <2> QED
    BY <1>5, <1>7, <2>1 DEF Out, Combined, Got, Began
<1>9. SubOK(s)'
  <2>0. begun' = begun /\ lastId' = lastId /\ finished' = finished /\ earlier' = earlier
    BY <1>2 DEF Still, cacheVars, history
  <2>1. SubIds(s)'
    <3>1. PICK i : i = subs[s].snapshot
      OBVIOUS
    <3>2. PICK j : j = subs[s].seen
      OBVIOUS
    <3>3. (i # 0 => Written(i)') /\ (Combined(s) /\ OfKey(j)' => j \in Got(s))
      BY <1>0, <1>2, <3>1, <3>2, StillIds DEF SubOK, SubIds
    <3>4. (subs'[s].snapshot # 0 => Written(subs[s].snapshot)')
          /\ (Combined(s)' /\ OfKey(subs[s].seen)' => subs'[s].seen \in Got(s)')
      BY <1>5, <1>7, <1>8, <3>1, <3>2, <3>3 DEF Written, OfKey
    <3>5. subs'[s].before \subseteq begun'
          /\ \A n \in subs'[s].buffer : Placed(n)' /\ Change(n) \subseteq begun' \ subs'[s].before
      BY <1>0, <1>2, <1>5, <1>7, <2>0, StillIds DEF SubOK, SubIds
    <3>6. Out(s)' \subseteq 0..lastId' /\ subs'[s].seen <= lastId'
      BY <1>0, <1>5, <1>7, <1>8, <2>0 DEF SubOK, SubIds
    <3> QED
      BY <3>4, <3>5, <3>6 DEF SubIds
  <2>2. Delivered(s)'
    <3>1. subs[s].gap \subseteq Got(s) /\ Began(s)
      BY <1>0 DEF SubOK, Delivered
    <3>2. begun \subseteq subs'[s].gap \cup Got(s)'
      BY <1>3, <1>5, <1>7, <1>8, <3>1
    <3>3. \A t \in Threads : Announcing(t)' => Mine(t)' \subseteq begun
      BY <1>0, <1>2, StillIds DEF ThreadOK
    <3>4. Reaches(s, subs[s].gap \cup Got(s))'
      BY <1>0, <2>0, <3>2, <3>3 DEF Reaches
    <3> QED
      BY <1>5, <1>7, <1>8, <3>1, <3>4 DEF Delivered
  <2>f. Fresh(s)'
    BY <1>0, <1>2, <1>5, <1>7, StillIds DEF SubOK, Fresh, Still, cacheVars
  <2>3. Ordered(s)'
    BY <1>0, <1>5, <1>7, <2>0 DEF SubOK, Ordered
  <2>4. Silent(s)'
    BY <1>0, <1>5, <1>7, <1>8 DEF SubOK, Silent
  <2> QED
    BY <2>1, <2>2, <2>f, <2>3, <2>4 DEF SubOK
<1>10. Control'
  BY <1>0, <1>2 DEF Control, socketVars
<1>11. TypeOK'
  <2>1. \A i \in DOMAIN subs' : subs'[i].stage \notin {"buffering", "replayed"}
    BY <1>0, <1>1, <1>5, <1>7 DEF TypeOK
  <2>2. tracked' \in 0..Len(subs') /\ subs'[tracked'].stage = IF ended' THEN "disposed" ELSE "live"
    BY <1>0, <1>2, <1>5, <1>7, Typed DEF socketVars
  <2> QED
    BY <1>0, <1>2, <1>7, <2>1, <2>2 DEF TypeOK, Still, cacheVars, history, socketVars
<1> QED
  BY <1>0, <1>2, <1>5, <1>6, <1>9, <1>10, <1>11, ChangeStep DEF socketVars

(* The subscription that is tracked is disposed of. *)
LEMMA DisposeStep ==
    ASSUME Inv, Still, tracked # 0, subs' = Disposed(tracked), read' = read, handling' = handling,
           handling = "idle", receiving' = receiving, ended' => ~receiving',
           \/ tracked' = 0 /\ ended' = ended
           \/ tracked' = tracked /\ ended' = TRUE,
           events' \in 0..MaxEvents, {waits', open', stopped', receiving', sending'} \subseteq BOOLEAN
    PROVE  Inv'
<1>1. PICK s : s = tracked
  OBVIOUS
<1>0. /\ TypeOK /\ Control /\ IdsOK /\ (\A t \in Threads : ThreadOK(t)) /\ s \in DOMAIN subs
      /\ subs[s].stage \in {"live", "disposed"} /\ SubOK(s) /\ subs[s] \in Sub
      /\ begun \subseteq Ids /\ Out(s) \subseteq Ids
      /\ s \in 1..Len(subs) /\ subs \in [1..Len(subs) -> Sub]
  <2>1. TypeOK /\ Control /\ IdsOK /\ (\A t \in Threads : ThreadOK(t))
    BY DEF Inv
  <2>2. s \in DOMAIN subs /\ s \in 1..Len(subs) /\ subs \in [1..Len(subs) -> Sub]
    BY <1>1, <2>1, Typed DEF TypeOK
  <2>3. SubOK(s) /\ subs[s].stage \in {"live", "disposed"}
    BY <1>1, <2>1, <2>2 DEF Inv, TypeOK
  <2> QED
    BY <2>1, <2>2, <2>3, Typed
<1>2. begun' = begun /\ lastId' = lastId /\ finished' = finished /\ earlier' = earlier /\ work' = work
  BY DEF Still, cacheVars, history
<1>3. PICK x : x = begun \cup Out(s)
  OBVIOUS
<1>4. PICK q : q = [subs[s] EXCEPT !.stage = "disposed", !.until = x]
  OBVIOUS
<1>5. /\ q \in Sub /\ q.stage = "disposed" /\ q.snapshot = subs[s].snapshot /\ q.buffer = subs[s].buffer
      /\ q.out = subs[s].out /\ q.seen = subs[s].seen /\ q.until = x /\ q.before = subs[s].before
  BY <1>0, <1>3, <1>4 DEF Sub
<1>6. subs' = [subs EXCEPT ![s] = q]
  BY <1>0, <1>1, <1>3, <1>4 DEF Disposed
<1>7. /\ subs' \in Seq(Sub) /\ Len(subs') = Len(subs) /\ DOMAIN subs' = DOMAIN subs
      /\ subs'[s] = q /\ \A r \in DOMAIN subs \ {s} : subs'[r] = subs[r]
  BY <1>0, <1>5, <1>6, SubsExcept
<1>8. Out(s)' = Out(s) /\ Combined(s)' = Combined(s) /\ Got(s)' = Got(s) /\ Began(s)' = Began(s)
  <2>1. touched' = touched
    BY DEF Still, history
  <2> QED
    BY <1>5, <1>7, <2>1 DEF Out, Combined, Got, Began
<1>9. SubOK(s)'
  <2>1. SubIds(s)'
    <3>1. PICK i : i = subs[s].snapshot
      OBVIOUS
    <3>2. PICK j : j = subs[s].seen
      OBVIOUS
    <3>3. (i # 0 => Written(i)') /\ (Combined(s) /\ OfKey(j)' => j \in Got(s))
      BY <1>0, <3>1, <3>2, StillIds DEF SubOK, SubIds
    <3>4. (subs'[s].snapshot # 0 => Written(subs[s].snapshot)')
          /\ (Combined(s)' /\ OfKey(subs[s].seen)' => subs'[s].seen \in Got(s)')
      BY <1>5, <1>7, <1>8, <3>1, <3>2, <3>3 DEF Written, OfKey
    <3>5. subs'[s].before \subseteq begun'
          /\ \A n \in subs'[s].buffer : Placed(n)' /\ Change(n) \subseteq begun' \ subs'[s].before
      BY <1>0, <1>2, <1>5, <1>7, StillIds DEF SubOK, SubIds
    <3>6. Out(s)' \subseteq 0..lastId' /\ subs'[s].seen <= lastId'
      BY <1>0, <1>2, <1>5, <1>7, <1>8 DEF SubOK, SubIds
    <3> QED
      BY <3>4, <3>5, <3>6 DEF SubIds
  <2>2. Delivered(s)'
    BY <1>5, <1>7 DEF Delivered
  <2>f. Fresh(s)'
    BY <1>0, <1>2, <1>5, <1>7, StillIds DEF SubOK, Fresh
  <2>3. Ordered(s)'
    BY <1>0, <1>2, <1>5, <1>7 DEF SubOK, Ordered
  <2>4. Silent(s)'
    <3>1. \A t \in Threads : Announcing(t)' => Mine(t)' \subseteq begun
      BY <1>0, StillIds DEF ThreadOK
    <3> QED
      BY <1>3, <1>5, <1>7, <1>8, <3>1 DEF Silent
  <2> QED
    BY <2>1, <2>2, <2>f, <2>3, <2>4 DEF SubOK
<1>10. Control'
  BY DEF Control
<1>11. TypeOK'
  <2>1. \A i \in DOMAIN subs' : subs'[i].stage \notin {"buffering", "replayed"}
    BY <1>0, <1>5, <1>7 DEF TypeOK
  <2>2. tracked' \in 0..Len(subs') /\ read' \in Ids /\ ended' \in BOOLEAN
    <3>1. tracked \in 0..Len(subs) /\ Len(subs) \in Nat /\ ended \in BOOLEAN /\ read \in Ids
      BY <1>0, Typed DEF TypeOK
    <3>2. tracked' \in 0..Len(subs')
      BY <1>7, <3>1
    <3> QED
      BY <3>1, <3>2
  <2>3. tracked' # 0 => subs'[tracked'].stage = IF ended' THEN "disposed" ELSE "live"
    BY <1>1, <1>5, <1>7
  <2> QED
    BY <1>0, <1>7, <2>1, <2>2, <2>3 DEF TypeOK, Still, cacheVars, history
<1>12. ended => ended'
  OBVIOUS
<1> QED
  BY <1>0, <1>5, <1>6, <1>9, <1>10, <1>11, <1>12, ChangeStep

LEMMA EndSteps ==
    ASSUME Inv, Unsubscribe \/ End
    PROVE  Inv'
<1>0. TypeOK /\ Control /\ events \in 0..MaxEvents
      /\ {waits, open, stopped, receiving, sending, ended} \subseteq BOOLEAN
  BY DEF Inv, TypeOK
<1>1. CASE Unsubscribe
  <2>1. /\ receiving /\ handling = "idle" /\ tracked # 0 /\ subs' = Disposed(tracked) /\ tracked' = 0
        /\ read' = read /\ handling' = handling /\ waits' = TRUE /\ events' = events /\ Still
        /\ UNCHANGED socketVars
    BY <1>1 DEF Unsubscribe, Command, Receives, Enqueue, Still
  <2>2. ended' = ended /\ receiving' = receiving /\ open' = open /\ stopped' = stopped /\ sending' = sending
    BY <2>1 DEF socketVars
  <2> QED
    BY <1>0, <2>1, <2>2, DisposeStep DEF Control
<1>2. CASE End /\ tracked # 0
  BY <1>0, <1>2, DisposeStep DEF End, Still, Control
<1>3. CASE End /\ tracked = 0
  <2>1. /\ ~receiving /\ ended' = TRUE /\ subs' = subs /\ Still /\ handling = "idle"
        /\ UNCHANGED <<events, tracked, handling, read, waits, open, stopped, receiving, sending>>
    BY <1>0, <1>3 DEF End, Still, Control
  <2>2. \A s \in DOMAIN subs' : SubOK(s)'
    BY <2>1, StillSub DEF Inv
  <2>3. \A t \in Threads : ThreadOK(t)'
    BY <2>1, StillThreads DEF SubsGoOn
  <2>4. Control' /\ IdsOK'
    BY <1>0, <2>1, StillIdsOK DEF Control
  <2>5. TypeOK'
    BY <1>0, <1>3, <2>1 DEF TypeOK, Still, cacheVars, history
  <2> QED
    BY <2>2, <2>3, <2>4, <2>5 DEF Inv
<1> QED
  BY <1>1, <1>2, <1>3
-----------------------------------------------------------------------------
LEMMA InvInit == Init => Inv
<1> SUFFICES ASSUME Init PROVE Inv
  OBVIOUS
<1>0. lastId \in {0, 1} /\ cache = lastId /\ begun = {lastId} \ {0} /\ finished = begun /\ read = 0
      /\ subs = <<>> /\ tracked = 0 /\ handling = "idle" /\ events = 0
      /\ work = [t \in Threads |-> Idle] /\ earlier = [n \in Ids |-> {}]
      /\ waits = FALSE /\ open = TRUE /\ stopped = FALSE
      /\ receiving = TRUE /\ sending = TRUE /\ ended = FALSE /\ touched = {}
  BY DEF Init
<1>1. lastId \in Ids /\ lastId \in Nat /\ begun \subseteq Ids /\ 0 \notin begun /\ begun \subseteq 1..lastId
  BY <1>0, SubscriptionAssumption DEF Ids
<1>2. subs \in Seq(Sub) /\ Len(subs) = 0 /\ DOMAIN subs = {}
  BY <1>0
<1>3. \A t \in Threads : work[t] = Idle /\ work[t].step = "idle" /\ work[t].note = NoNote /\ Mine(t) = {}
  BY <1>0, Constants DEF Idle, Mine
<1>4. TypeOK
  <2>1. work \in [Threads -> Work] /\ earlier \in [Ids -> SUBSET Ids]
    BY <1>0, Constants
  <2>2. {waits, open, stopped, receiving, sending, ended} \subseteq BOOLEAN
    BY <1>0
  <2> QED
    BY <1>0, <1>1, <1>2, <2>1, <2>2, Constants DEF TypeOK
<1>5. Control
  BY <1>0 DEF Control
<1>6. IdsOK
  <2>1. \A i \in {cache, read} : i # 0 => Written(i)
    BY <1>0 DEF Written
  <2>2. \A n \in Ids : earlier[n] \subseteq {m \in finished : m < n}
    BY <1>0
  <2> QED
    BY <1>1, <2>1, <2>2 DEF IdsOK
<1>7. \A t \in Threads : ThreadOK(t)
  <2>1. Placed(NoNote)
    BY <1>1, <1>3 DEF Placed, OfKey, NoNote, Message
  <2> QED
    BY <1>3, <2>1 DEF ThreadOK, Announcing
<1> QED
  BY <1>2, <1>4, <1>5, <1>6, <1>7 DEF Inv

LEMMA InvNext == Inv /\ [Next]_vars => Inv'
<1> SUFFICES ASSUME Inv, [Next]_vars PROVE Inv'
  OBVIOUS
<1>1. ASSUME NEW t \in Threads, Run(t) PROVE Inv'
  <2>1. ASSUME NEW s \in Turn(t),
               Call(t, s) \/ Add(t, s) \/ Throw(t, s) \/ Forward(t, s) \/ Drop(t, s)
        PROVE  Inv'
    BY <2>1, CallStep, AddStep, ThrowStep, ForwardStep, DropStep
  <2> QED
    BY <1>1, <2>1, WriteStep, NotifyStep DEF Run
<1>2. ASSUME NEW t \in Threads, Request(t) PROVE Inv'
  BY <1>2, RequestStep
<1>3. CASE Handle
  BY <1>3, AttachSteps, ReplayStep, GoLiveStep DEF Handle
<1>4. CASE Unsubscribe \/ End
  BY <1>4, EndSteps
<1>5. CASE \/ Subscribe \/ SubscribeToNothing \/ UnsubscribeUnknown \/ CommandThrows
           \/ CloseSocket \/ StopServer \/ ReceiveEnds \/ Send \/ SendEnds \/ UNCHANGED vars
  BY <1>5, QuietSteps
<1> QED
  BY <1>1, <1>2, <1>3, <1>4, <1>5 DEF Next

LEMMA InvHolds == Spec => []Inv
<1> QED
  BY InvInit, InvNext, PTL DEF Spec

-----------------------------------------------------------------------------
(* The variables of the connection, of its subscriptions and of the cache's *)
(* threads always have their types; the subscription that is tracked is     *)
(* live until the connection ends, and one that is being attached is the    *)
(* last.                                                                    *)
THEOREM SubscriptionTyped == Spec => []TypeOK
<1>1. Inv => TypeOK
  BY DEF Inv
<1> QED
  BY <1>1, InvHolds, PTL

(* Any number of writers: no value and no removal of a key whose            *)
(* announcement began after a subscription was attached is lost, unless it  *)
(* falls into the time in which the buffer is given up; and the value the   *)
(* subscription begins with is told, unless that entry comes from a touch   *)
(* that was announced after the subscription was attached.                  *)
THEOREM NoUpdateLost == Spec => []UpdatesArrive
<1>1. Inv => UpdatesArrive
  <2>1. ASSUME Inv, NEW s \in DOMAIN subs, subs[s].stage = "live", ~ended
        PROVE  /\ subs[s].snapshot \in {0} \cup Out(s) \cup (touched \ subs[s].before)
               /\ finished \ (subs[s].gap \cup touched) \subseteq Out(s)
    <3>1. (Combined(s) => Began(s)) /\ Reaches(s, subs[s].gap \cup Got(s))
      BY <2>1 DEF Inv, SubOK, Delivered
    <3> QED
      BY <3>1 DEF Combined, Began, Got, Reaches
  <2> QED
    BY <2>1 DEF UpdatesArrive
<1> QED
  BY <1>1, InvHolds, PTL

(* The order of the messages of a subscription is never that of two changes *)
(* reversed of which one was announced before the other was taken.          *)
THEOREM MessagesInOrder == Spec => []InOrder
<1>1. Inv => InOrder
  BY DEF Inv, SubOK, Ordered, InOrder
<1> QED
  BY <1>1, InvHolds, PTL

(* Once the end of a subscription is confirmed it tells no value and no     *)
(* removal but those threads were announcing at that time.                  *)
THEOREM EndedIsSilent == Spec => []SilentAfterUnsubscribe
<1>1. Inv => SilentAfterUnsubscribe
  BY DEF Inv, SubOK, Silent, SilentAfterUnsubscribe
<1> QED
  BY <1>1, InvHolds, PTL
=============================================================================
