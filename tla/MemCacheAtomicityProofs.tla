----------------------- MODULE MemCacheAtomicityProofs -----------------------
(***************************************************************************)
(* MemCache implements AtomicCache, for any number of threads and keys and *)
(* any requests, as long as fewer than 2^31 event ids are taken.           *)
(*                                                                         *)
(* The contract excuses a call only by a change of its key while it ran,   *)
(* which dirty records.  So the invariant says of each label what the      *)
(* thread saw there before: either it is still so, or the key is dirty.    *)
(***************************************************************************)
EXTENDS MemCacheAtomicity, MemCacheProofs

(* Which calls get to a label. *)
OpAt(at, r, l, holds) ==
    /\ at = "inc" => r.op \in SpaceOps \cup {"Touch", "Clear"}
    /\ at \in {"contains", "size", "write"} => r.op = "Store" \/ (r.op = "Cas" /\ l.old = Nil)
    /\ at = "tryAdd" => r.op = "Add"
    /\ at = "clear" => r.op = "Clear"
    /\ at \in {"gContains", "gIndex", "gUse"} => r.op = "Retrieve"
    /\ at \in {"getUse", "getIndex"} => r.op = "Get"
    /\ at \in {"scan", "sweep"} => r.op = "RemoveExpired"
    /\ at \in {"snapshot", "sequence"} => r.op = "CurrentState"
    /\ (at \in RemoveLabels /\ ~holds) => r.op \in {"Remove", "RemoveExpired"}
    /\ (at \in RemoveLabels /\ r.op = "Remove") => l.cur = r.key

(* The result is set by the step that takes effect. *)
OutcomeAt(at, r, l) ==
    CASE at \in {"done", "used", "lru", "queue"} -> l.result # "none"
      [] at \in {"rmUsed", "rmLru", "rmQueue"} ->
            l.result = IF r.op = "Remove" THEN "ok" ELSE "none"
      [] OTHER -> l.result = "none"

(* What a call has read is still so, or its key is in d.                    *)
CasLabels == {"space", "evict", "inc", "contains", "size", "write", "cSwap"} \cup RemoveLabels

SeenAt(at, r, l, d, c) ==
    /\ (at \in {"size", "rSize"} /\ c[r.key] = Nil) => r.key \in d
    /\ (r.op = "Touch" /\ at \in {"inc", "tSwap"} /\ c[r.key] # l.old) => r.key \in d
    /\ (r.op = "Cas" /\ at \in CasLabels /\ c[r.key] # l.old) => r.key \in d
    /\ (r.op = "Cas" /\ at \in CasLabels /\ l.old # Nil) => l.old.cas = r.cas
    /\ at = "cRead" => l.old = Nil
    /\ (r.op = "Mutate" /\ at = "loopSwap") => l.old.data.num # NotANumber
    /\ at = "gIndex" => l.cur \in l.todo /\ (c[l.cur] = Nil => l.cur \in d)
    /\ at \in {"gContains", "gIndex"} => \A k \in l.todo : l.snap[k] = Nil

(* The entry of the key does not have the id of the one that will replace   *)
(* it, so every write changes the entry.                                    *)
BeforeWrite(at, r) ==
    \/ at \in {"contains", "size", "write", "tryAdd", "tSwap", "cSwap"}
    \/ at \in {"loopRead", "loopSwap"} /\ r.op # "Mutate"

FreshAt(at, r, l, c) == (BeforeWrite(at, r) /\ c[r.key] # Nil) => c[r.key].eid # l.eid

CallAt(at, r, l, holds, d, c) ==
    /\ r = Nil <=> at = "idle"
    /\ OutcomeAt(at, r, l)
    /\ at = "idle" => d = {}
    /\ at # "idle" => OpAt(at, r, l, holds) /\ SeenAt(at, r, l, d, c) /\ FreshAt(at, r, l, c)

CallOK(t) == CallAt(pc[t], req[t], loc[t], lock = t, dirty[t], cache)

AtomInv ==
    /\ IdInv
    /\ dirty \in [Threads -> SUBSET Keys]
    /\ \A t \in Threads : CallOK(t)

CallsOK == dirty \in [Threads -> SUBSET Keys] /\ \A t \in Threads : CallOK(t)


-----------------------------------------------------------------------------
(* What a thread has seen is still so after a step of another thread, or    *)
(* the key is dirty now.                                                    *)
LEMMA SeenKept ==
    ASSUME NEW at, NEW r, NEW l, NEW d, NEW c, NEW e, NEW b,
           SeenAt(at, r, l, d, c), d \subseteq e, \A k \in Keys : b[k] # c[k] => k \in e,
           r.key \in Keys, at = "gIndex" => l.cur \in Keys
    PROVE  SeenAt(at, r, l, e, b)
<1>1. b[r.key] # c[r.key] => r.key \in e
  OBVIOUS
<1>2. at = "gIndex" => (b[l.cur] # c[l.cur] => l.cur \in e)
  OBVIOUS
<1>. QED
  BY <1>1, <1>2 DEF SeenAt

LEMMA CallFacts ==
    ASSUME NEW t \in Threads, AtomInv
    PROVE  /\ loc \in [Threads -> Local] /\ pc \in [Threads -> Labels]
           /\ req \in [Threads -> Request \cup {Nil}]
           /\ cache \in [Keys -> EntryOrNil] /\ seqId \in Int /\ loc[t] \in Local
           /\ dirty \in [Threads -> SUBSET Keys]
           /\ Control(t) /\ CallOK(t) /\ IdOwned(t) /\ HasId(t)
           /\ pc[t] # "idle" => req[t] \in Request /\ req[t].key \in Keys /\ req[t] # Nil
           /\ pc[t] = "gIndex" => loc[t].cur \in Keys
<1>1. IdInv /\ TypeInv /\ CallOK(t)
  BY DEF AtomInv, IdInv
<1>2. Control(t)
  BY <1>1 DEF TypeInv, ControlOK
<1>. QED
  BY <1>1, <1>2, IdFacts, NilAssumption
     DEF AtomInv, IdInv, TypeInv, TypeOK, SharedOK, ThreadsOK, Control, ControlAt

(* What dirty is after a step.                                              *)
LEMMA SmudgeFacts ==
    ASSUME AtomInv, Smudge
    PROVE  /\ dirty' \in [Threads -> SUBSET Keys]
           /\ \A u \in Threads : req[u] # Nil =>
                /\ dirty[u] \subseteq dirty'[u]
                /\ \A k \in Keys : cache'[k] # cache[k] => k \in dirty'[u]
           /\ \A u \in Threads : req[u] = Nil => dirty'[u] = {}
BY DEF AtomInv, Smudge

(* It suffices to look at the thread that moves. *)
LEMMA CallsStep ==
    ASSUME NEW t \in Threads, AtomInv, Smudge, IdEffect(t), TypeInv',
           \A u \in Threads : u # t => (lock' = u <=> lock = u),
           OutcomeAt(pc'[t], req[t], loc'[t]),
           OpAt(pc'[t], req[t], loc'[t], lock' = t),
           SeenAt(pc'[t], req[t], loc'[t], dirty[t], cache),
           BeforeWrite(pc'[t], req[t]) =>
              \/ TakesId(t)
              \/ BeforeWrite(pc[t], req[t]) /\ loc'[t].eid = loc[t].eid /\ cache' = cache
    PROVE  CallsOK'
<1>1. /\ req' = req /\ pc[t] # "idle" /\ pc'[t] # "idle"
      /\ \A u \in Threads : u # t => loc'[u] = loc[u] /\ pc'[u] = pc[u]
  BY DEF IdEffect, OnlyThread
<1>2. ASSUME NEW u \in Threads, pc[u] # "idle", pc'[u] # "idle",
             SeenAt(pc'[u], req[u], loc'[u], dirty[u], cache)
      PROVE  SeenAt(pc'[u], req[u], loc'[u], dirty'[u], cache')
  <2>1. /\ req[u] # Nil /\ req[u].key \in Keys
        /\ dirty[u] \subseteq dirty'[u]
        /\ \A k \in Keys : cache'[k] # cache[k] => k \in dirty'[u]
    BY <1>2, CallFacts, SmudgeFacts
  <2>2. pc'[u] = "gIndex" => loc'[u].cur \in Keys
    BY <1>2 DEF TypeInv, ControlOK, Control, ControlAt, RemoveLabels
  <2>. QED
    BY <1>2, <2>1, <2>2, SeenKept
<1>3. FreshAt(pc'[t], req[t], loc'[t], cache')
  <2>. SUFFICES ASSUME BeforeWrite(pc'[t], req[t]), cache'[req[t].key] # Nil
                PROVE  cache'[req[t].key].eid # loc'[t].eid
    BY DEF FreshAt
  <2>0. req[t].key \in Keys
    BY <1>1, CallFacts
  <2>1. CASE TakesId(t)
    <3>1. cache' = cache /\ loc'[t].eid = seqId + 1 /\ seqId \in Int
      BY <2>1, CallFacts DEF TakesId
    <3>2. cache[req[t].key].eid <= seqId /\ cache[req[t].key].eid \in Int
      BY <2>0, <3>1, CallFacts DEF AtomInv, IdInv, IdsTaken, Covered, EntryOrNil, Entry
    <3>. QED
      BY <3>1, <3>2
  <2>2. CASE BeforeWrite(pc[t], req[t]) /\ loc'[t].eid = loc[t].eid /\ cache' = cache
    BY <1>1, <2>2, CallFacts DEF CallOK, CallAt, FreshAt
  <2>. QED
    BY <2>1, <2>2
<1>4. CallOK(t)'
  <2>1. CallAt(pc'[t], req[t], loc'[t], lock' = t, dirty'[t], cache')
    BY <1>1, <1>2, <1>3, CallFacts DEF CallAt
  <2>. QED
    BY <1>1, <2>1 DEF CallOK
<1>5. ASSUME NEW u \in Threads, u # t PROVE CallOK(u)'
  <2>1. loc'[u] = loc[u] /\ pc'[u] = pc[u] /\ (lock' = u <=> lock = u) /\ CallOK(u)
    BY <1>1, <1>5, CallFacts
  <2>2. CASE pc[u] = "idle"
    <3>1. req[u] = Nil /\ OutcomeAt(pc[u], req[u], loc[u])
      BY <2>1, <2>2 DEF CallOK, CallAt
    <3>2. dirty'[u] = {}
      BY <3>1, SmudgeFacts
    <3>. QED
      BY <1>1, <2>1, <2>2, <3>1, <3>2 DEF CallOK, CallAt
  <2>3. CASE pc[u] # "idle"
    <3>0. /\ req[u] # Nil /\ OutcomeAt(pc[u], req[u], loc[u]) /\ OpAt(pc[u], req[u], loc[u], lock = u)
          /\ SeenAt(pc[u], req[u], loc[u], dirty[u], cache) /\ FreshAt(pc[u], req[u], loc[u], cache)
          /\ req[u].key \in Keys
      BY <2>1, <2>3, CallFacts DEF CallOK, CallAt
    <3>1. SeenAt(pc[u], req[u], loc[u], dirty'[u], cache')
      BY <1>2, <2>1, <2>3, <3>0
    <3>2. FreshAt(pc[u], req[u], loc[u], cache')
      <4>. SUFFICES ASSUME BeforeWrite(pc[u], req[u]), cache'[req[u].key] # Nil
                    PROVE  cache'[req[u].key].eid # loc[u].eid
        BY DEF FreshAt
      <4>1. CASE cache[req[u].key] # Nil /\ cache'[req[u].key].eid = cache[req[u].key].eid
        BY <3>0, <4>1 DEF FreshAt
      <4>2. CASE loc[t].eid # 0 /\ cache'[req[u].key].eid = loc[t].eid
        BY <1>5, <4>2, CallFacts DEF IdOwned
      <4>3. \/ UNCHANGED cache
            \/ WritesId(t)
        BY DEF IdEffect
      <4>. QED
        BY <3>0, <4>1, <4>2, <4>3 DEF WritesId
    <3>3. OpAt(pc[u], req[u], loc[u], lock' = u)
      BY <2>1, <3>0 DEF OpAt
    <3>4. CallAt(pc[u], req[u], loc[u], lock' = u, dirty'[u], cache')
      BY <2>3, <3>0, <3>1, <3>2, <3>3 DEF CallAt
    <3>. QED
      BY <1>1, <2>1, <3>4 DEF CallOK
  <2>. QED
    BY <2>2, <2>3
<1>. QED
  BY <1>4, <1>5, SmudgeFacts DEF CallsOK

-----------------------------------------------------------------------------
(* The refinement mapping, thread by thread. *)
GotAt(r, l) ==
    IF r # Nil /\ r.op \in {"Retrieve", "Get", "CurrentState"} THEN Values(l.snap) ELSE NoKeys

TodoAt(at, l) ==
    CASE at \in {"gContains", "gIndex"} -> l.todo
      [] at = "snapshot" -> Keys
      [] OTHER -> {}

Reply == [t \in Threads |-> loc[t].result]
Got == [t \in Threads |-> GotAt(req[t], loc[t])]
Todo == [t \in Threads |-> TodoAt(pc[t], loc[t])]

SameView(t) ==
    /\ GotAt(req[t], loc'[t]) = GotAt(req[t], loc[t])
    /\ TodoAt(pc'[t], loc'[t]) = TodoAt(pc[t], loc[t])

(* A step of t changes the image of t alone. *)
LEMMA ImageStep ==
    ASSUME NEW t \in Threads, OnlyThread(t)
    PROVE  /\ Reply' = [Reply EXCEPT ![t] = loc'[t].result]
           /\ Got' = [Got EXCEPT ![t] = GotAt(req[t], loc'[t])]
           /\ Todo' = [Todo EXCEPT ![t] = TodoAt(pc'[t], loc'[t])]
<1>1. \A u \in Threads : u # t => /\ loc'[u].result = loc[u].result
                                   /\ GotAt(req'[u], loc'[u]) = GotAt(req[u], loc[u])
                                   /\ TodoAt(pc'[u], loc'[u]) = TodoAt(pc[u], loc[u])
  BY DEF OnlyThread
<1>2. req'[t] = req[t]
  BY DEF OnlyThread
<1>. QED
  BY <1>1, <1>2 DEF Reply, Got, Todo

LEMMA SameImage ==
    ASSUME NEW t \in Threads, OnlyThread(t), SameView(t)
    PROVE  /\ Got' = Got /\ Todo' = Todo
           /\ loc'[t].result = loc[t].result => Reply' = Reply
<1>1. /\ Reply[t] = loc[t].result /\ Got[t] = GotAt(req[t], loc[t])
      /\ Todo[t] = TodoAt(pc[t], loc[t])
  BY DEF Reply, Got, Todo
<1>2. /\ Reply' = [Reply EXCEPT ![t] = loc'[t].result]
      /\ Got' = [Got EXCEPT ![t] = GotAt(req[t], loc'[t])]
      /\ Todo' = [Todo EXCEPT ![t] = TodoAt(pc'[t], loc'[t])]
  BY ImageStep
<1>3. Got' = Got
  BY <1>1, <1>2 DEF SameView, Got
<1>4. Todo' = Todo
  BY <1>1, <1>2 DEF SameView, Todo
<1>5. loc'[t].result = loc[t].result => Reply' = Reply
  BY <1>1, <1>2 DEF Reply
<1>. QED
  BY <1>3, <1>4, <1>5

(* What the contract calls an answer. *)
LEMMA AnswerStep ==
    ASSUME NEW t \in Threads, OnlyThread(t), SameView(t), NEW result, loc'[t].result = result
    PROVE  Contract!Answer(t, result)
<1>1. Got' = Got /\ Todo' = Todo /\ req' = req
  BY SameImage DEF OnlyThread
<1>. QED
  BY <1>1, ImageStep DEF Contract!Answer, Reply, Got, Todo, GotAt, TodoAt, Reads

(* A step that leaves the cache alone keeps the map. *)
LEMMA KeepStep ==
    ASSUME AtomInv, Smudge, UNCHANGED <<cache, req>>
    PROVE  Contract!Keep
<1>1. Values(cache)' = Values(cache)
  BY DEF Values
<1>2. dirty' = dirty
  <2>1. dirty \in [Threads -> SUBSET Keys] /\ \A u \in Threads : req[u] = Nil => dirty[u] = {}
    BY DEF AtomInv, CallOK, CallAt
  <2>2. dirty' = [u \in Threads |-> IF req[u] = Nil THEN {}
                                    ELSE dirty[u] \cup {k \in Keys : cache'[k] # cache[k]}]
    BY DEF Smudge
  <2>3. {k \in Keys : cache'[k] # cache[k]} = {}
    OBVIOUS
  <2>. QED
    BY <2>1, <2>2, <2>3
<1>. QED
  BY <1>1, <1>2 DEF Contract!Keep

(* A step that changes the entry of k puts its value into the map. *)
LEMMA PutStep ==
    ASSUME AtomInv, Smudge, NEW k \in Keys, NEW e, e # cache[k],
           cache' = [cache EXCEPT ![k] = e]
    PROVE  Contract!Put(k, Value(e))
<1>0. cache \in [Keys -> EntryOrNil]
  BY DEF AtomInv, IdInv, TypeInv, TypeOK, SharedOK
<1>1. Values(cache)' = [Values(cache) EXCEPT ![k] = Value(e)]
  BY <1>0 DEF Values
<1>2. {x \in Keys : cache'[x] # cache[x]} = {k}
  BY <1>0
<1>3. dirty' = [u \in Threads |-> IF req[u] = Nil THEN {} ELSE dirty[u] \cup {k}]
  BY <1>2 DEF Smudge
<1>. QED
  BY <1>1, <1>3 DEF Contract!Put, Contract!Smudge

-----------------------------------------------------------------------------
(* One thread moves. *)

Here(t) ==
    /\ OutcomeAt(pc[t], req[t], loc[t])
    /\ OpAt(pc[t], req[t], loc[t], lock = t)
    /\ SeenAt(pc[t], req[t], loc[t], dirty[t], cache)
    /\ FreshAt(pc[t], req[t], loc[t], cache)
    /\ ControlAt(pc[t], req[t], loc[t], lock = t)

LEMMA HereFacts ==
    ASSUME NEW t \in Threads, AtomInv, pc[t] # "idle"
    PROVE  Here(t)
BY CallFacts DEF Here, CallOK, CallAt, Control

Lands(t) ==
    /\ OutcomeAt(pc'[t], req[t], loc'[t])
    /\ OpAt(pc'[t], req[t], loc'[t], lock' = t)
    /\ SeenAt(pc'[t], req[t], loc'[t], dirty[t], cache)
    /\ BeforeWrite(pc'[t], req[t]) =>
          \/ TakesId(t)
          \/ BeforeWrite(pc[t], req[t]) /\ loc'[t].eid = loc[t].eid /\ cache' = cache

(* What every step of a call in progress does, whatever it is.              *)
Moves(t) ==
    /\ IdEffect(t) /\ TypeInv'
    /\ \A u \in Threads : u # t => (lock' = u <=> lock = u)

(* What is known of a thread that moves. *)
MoveFacts(t) ==
    /\ loc \in [Threads -> Local] /\ pc \in [Threads -> Labels] /\ cache \in [Keys -> EntryOrNil]
    /\ loc[t] \in Local /\ req[t] \in Request /\ req[t].key \in Keys /\ req[t].op \in Ops
    /\ pc[t] # "idle" /\ pc'[t] # "idle" /\ OnlyThread(t) /\ req' = req
    /\ Here(t) /\ ControlAt(pc'[t], req[t], loc'[t], lock' = t)

LEMMA MovesFacts ==
    ASSUME NEW t \in Threads, AtomInv, Moves(t)
    PROVE  MoveFacts(t)
<1>1. pc[t] # "idle" /\ pc'[t] # "idle" /\ req' = req /\ OnlyThread(t)
  BY DEF Moves, IdEffect, OnlyThread
<1>2. ControlAt(pc'[t], req[t], loc'[t], lock' = t)
  BY <1>1 DEF Moves, TypeInv, ControlOK, Control
<1>. QED
  BY <1>1, <1>2, HereFacts, CallFacts DEF Request, MoveFacts

Simulates == CallsOK' /\ (Contract!Next \/ UNCHANGED Contract!vars)

LEMMA SilentStep ==
    ASSUME NEW t \in Threads, AtomInv, Smudge, Moves(t), Lands(t), cache' = cache,
           loc'[t].result = loc[t].result, SameView(t)
    PROVE  Simulates
<1>1. CallsOK'
  BY CallsStep DEF Moves, Lands
<1>2. OnlyThread(t) /\ req' = req
  BY DEF Moves, IdEffect, OnlyThread
<1>3. Reply' = Reply /\ Got' = Got /\ Todo' = Todo
  BY <1>2, SameImage
<1>4. Values(cache)' = Values(cache) /\ dirty' = dirty
  BY <1>2, KeepStep DEF Contract!Keep
<1>5. UNCHANGED <<Values(cache), req, Reply, Got, Todo, dirty>>
  BY <1>2, <1>3, <1>4
<1>. QED
  BY <1>1, <1>5 DEF Simulates, Contract!vars, Reply, Got, Todo, GotAt, TodoAt, Reads


(* With fewer than 2^31 ids, the id taken is a new one.                     *)
LEMMA TakeIsTaken ==
    ASSUME NEW t \in Threads, AtomInv, MaxEventId < IntHalf, TakeEventId(t)
    PROVE  TakesId(t)
<1>1. seqId \in Int /\ loc[t] \in Local /\ loc \in [Threads -> Local] /\ seqId >= 0
  BY CallFacts DEF AtomInv, IdInv, IdsTaken
<1>2. Wrap(seqId + 1) = seqId + 1
  BY <1>1, SizesAssumption DEF TakeEventId, Wrap
<1>. QED
  BY <1>1, <1>2 DEF TakeEventId, TakesId, Local

(* Going on without answering. *)
LEMMA SpaceSimulates ==
    ASSUME NEW t \in Threads, AtomInv, MaxEventId < IntHalf, Moves(t),
           MakeSpace(t) \/ EvictEntry(t) \/ NextEventId(t) \/ StoreContains(t)
             \/ ReplaceContains(t) \/ ReplaceSubtract(t)
    PROVE  Simulates
<1>. USE DEF Move, Goto, Frame, MoveFacts
<1>0. MoveFacts(t)
  BY MovesFacts
<1>1. CASE MakeSpace(t)
  <2>1. /\ pc[t] = "space" /\ pc'[t] \in {"inc", "evict"} /\ loc' = loc /\ cache' = cache
        /\ lock' = lock /\ Smudge
    BY <1>0, <1>1 DEF MakeSpace, LocalStep, shared
  <2>2. Lands(t) /\ SameView(t)
    BY <1>0, <2>1 DEF Lands, Here, OutcomeAt, OpAt, SeenAt, BeforeWrite, SameView, TodoAt, ControlAt,
                      CasLabels, RemoveLabels, SpaceOps
  <2>. QED
    BY <2>1, <2>2, SilentStep
<1>2. CASE EvictEntry(t)
  <2>1. /\ pc[t] = "evict" /\ cache' = cache /\ Smudge
        /\ \/ pc'[t] = "space" /\ loc' = loc /\ lock' = lock
           \/ pc'[t] = "rmInc" /\ lock' = t /\ loc' = [loc EXCEPT ![t].cur = Head(lruKeys)]
    BY <1>0, <1>2 DEF EvictEntry
  <2>2. loc'[t].old = loc[t].old /\ loc'[t].result = loc[t].result /\ loc'[t].snap = loc[t].snap
    BY <1>0, <2>1 DEF Local
  <2>3. Lands(t) /\ SameView(t)
    BY <1>0, <2>1, <2>2 DEF Lands, Here, OutcomeAt, OpAt, SeenAt, BeforeWrite, SameView, GotAt, TodoAt,
                      ControlAt, CasLabels, RemoveLabels, SpaceOps
  <2>. QED
    BY <2>1, <2>2, <2>3, SilentStep
<1>3. CASE NextEventId(t)
  <2>1. /\ pc[t] = "inc" /\ cache' = cache /\ Smudge /\ lock' = lock
        /\ loc' = [loc EXCEPT ![t].eid = Wrap(seqId + 1)]
        /\ pc'[t] = CASE req[t].op = "Add" -> "tryAdd"
                      [] req[t].op \in {"Replace", "Append"} -> "loopRead"
                      [] req[t].op = "Touch" -> "tSwap"
                      [] req[t].op = "Clear" -> "clear"
                      [] req[t].op = "Cas" /\ loc[t].old # Nil -> "cSwap"
                      [] OTHER -> "contains"
    BY <1>0, <1>3 DEF NextEventId, TakeEventId
  <2>2. /\ loc'[t].old = loc[t].old /\ loc'[t].result = loc[t].result
        /\ loc'[t].snap = loc[t].snap
    BY <1>0, <2>1 DEF Local
  <2>3. TakesId(t)
    BY <1>3, TakeIsTaken DEF NextEventId
  <2>4. Lands(t) /\ SameView(t)
    BY <1>0, <2>1, <2>2, <2>3
       DEF Lands, Here, OutcomeAt, OpAt, SeenAt, SameView, GotAt, TodoAt, ControlAt, CasLabels,
           RemoveLabels, SpaceOps
  <2>. QED
    BY <2>1, <2>2, <2>4, SilentStep
<1>4. CASE StoreContains(t)
  <2>1. /\ pc[t] = "contains" /\ cache' = cache /\ Smudge /\ lock' = lock
        /\ loc' = [loc EXCEPT ![t].n = 0]
        /\ pc'[t] = IF cache[req[t].key] = Nil THEN "write" ELSE "size"
    BY <1>0, <1>4 DEF StoreContains, LocalStep, shared, Current
  <2>2. /\ loc'[t].old = loc[t].old /\ loc'[t].result = loc[t].result
        /\ loc'[t].snap = loc[t].snap /\ loc'[t].eid = loc[t].eid
    BY <1>0, <2>1 DEF Local
  <2>3. Lands(t) /\ SameView(t)
    BY <1>0, <2>1, <2>2
       DEF Lands, Here, OutcomeAt, OpAt, SeenAt, BeforeWrite, SameView, GotAt, TodoAt, ControlAt,
           CasLabels, RemoveLabels
  <2>. QED
    BY <2>1, <2>2, <2>3, SilentStep
<1>5. CASE ReplaceContains(t)
  <2>1. /\ pc[t] = "rContains" /\ cache' = cache /\ Smudge /\ lock' = lock /\ loc' = loc
        /\ pc'[t] = IF cache[req[t].key] = Nil THEN "space" ELSE "rSize"
    BY <1>0, <1>5 DEF ReplaceContains, LocalStep, shared, Current
  <2>2. Lands(t) /\ SameView(t)
    BY <1>0, <2>1
       DEF Lands, Here, OutcomeAt, OpAt, SeenAt, BeforeWrite, SameView, TodoAt, ControlAt,
           CasLabels, RemoveLabels
  <2>. QED
    BY <2>1, <2>2, SilentStep
<1>6. CASE ReplaceSubtract(t)
  <2>1. /\ pc[t] = "rSubtract" /\ cache' = cache /\ Smudge /\ lock' = lock
        /\ loc' = [loc EXCEPT ![t].n = Abs(req[t].data.len - loc[t].n)]
        /\ pc'[t] = "space"
    BY <1>0, <1>6 DEF ReplaceSubtract, OnUsed
  <2>2. /\ loc'[t].old = loc[t].old /\ loc'[t].result = loc[t].result
        /\ loc'[t].snap = loc[t].snap
    BY <1>0, <2>1 DEF Local
  <2>3. Lands(t) /\ SameView(t)
    BY <1>0, <2>1, <2>2
       DEF Lands, Here, OutcomeAt, OpAt, SeenAt, BeforeWrite, SameView, GotAt, TodoAt, ControlAt,
           CasLabels, RemoveLabels
  <2>. QED
    BY <2>1, <2>2, <2>3, SilentStep
<1>. QED
  BY <1>1, <1>2, <1>3, <1>4, <1>5, <1>6


(* Values and entries are Nil together. *)
LEMMA ValueFacts ==
    ASSUME NEW e \in EntryOrNil
    PROVE  /\ Value(e) = Nil <=> e = Nil
           /\ e # Nil => /\ Value(e).data = e.data /\ Value(e).expiry = e.expiry
                         /\ Value(e).cas = e.cas /\ e \in Entry
BY ValueAssumption DEF Value, EntryOrNil, Entry

LEMMA PendingFacts ==
    ASSUME NEW t \in Threads, AtomInv, pc[t] # "idle", loc[t].result = "none", NEW ops,
           req[t].op \in ops
    PROVE  Contract!Pending(t, ops)
BY CallFacts DEF Contract!Pending

(* Answering without a change of the map. *)
LEMMA AnswerSimulates ==
    ASSUME NEW t \in Threads, AtomInv, Smudge, Moves(t), cache' = cache, pc'[t] = "done",
           NEW result, result # "none", loc'[t].result = result, SameView(t),
           Contract!Keep /\ Contract!Answer(t, result) => Contract!Next
    PROVE  Simulates
<1>1. OnlyThread(t) /\ req' = req
  BY DEF Moves, IdEffect, OnlyThread
<1>2. Contract!Keep /\ Contract!Answer(t, result)
  BY <1>1, KeepStep, AnswerStep
<1>3. Lands(t)
  <2>1. lock' # t
    BY DEF Moves, TypeInv, ControlOK, Control, ControlAt, RemoveLabels
  <2>. QED
    BY <2>1 DEF Lands, OutcomeAt, OpAt, SeenAt, BeforeWrite, CasLabels, RemoveLabels
<1>. QED
  BY <1>2, <1>3, CallsStep DEF Moves, Lands, Simulates

(* Remove, for a client, for EvictEntry or for RemoveExpired. *)
LEMMA RemoveSimulates ==
    ASSUME NEW t \in Threads, AtomInv, MaxEventId < IntHalf, Moves(t),
           \/ RemoveNextId(t) \/ RemoveTake(t) \/ RemoveUsed(t) \/ RemoveNotifyLru(t)
           \/ RemoveNotifyQueue(t)
    PROVE  Simulates
<1>. USE DEF Move, Goto, Frame, MoveFacts
<1>0. MoveFacts(t)
  BY MovesFacts
<1>1. CASE RemoveNextId(t)
  <2>1. /\ pc[t] = "rmInc" /\ pc'[t] = "rmTake" /\ cache' = cache /\ Smudge /\ lock' = lock
        /\ loc' = [loc EXCEPT ![t].eid = Wrap(seqId + 1)]
    BY <1>0, <1>1 DEF RemoveNextId, TakeEventId
  <2>2. /\ loc'[t].old = loc[t].old /\ loc'[t].result = loc[t].result
        /\ loc'[t].snap = loc[t].snap /\ loc'[t].cur = loc[t].cur
    BY <1>0, <2>1 DEF Local
  <2>3. Lands(t) /\ SameView(t)
    BY <1>0, <2>1, <2>2
       DEF Lands, Here, OutcomeAt, OpAt, SeenAt, BeforeWrite, SameView, GotAt, TodoAt,
           CasLabels, RemoveLabels
  <2>. QED
    BY <2>1, <2>2, <2>3, SilentStep
<1>2. CASE RemoveUsed(t) \/ RemoveNotifyLru(t)
  <2>1. /\ (pc[t] = "rmUsed" /\ pc'[t] = "rmLru") \/ (pc[t] = "rmLru" /\ pc'[t] = "rmQueue")
        /\ cache' = cache /\ Smudge /\ lock' = lock /\ loc' = loc
    BY <1>0, <1>2 DEF RemoveUsed, RemoveNotifyLru, OnUsed, OnLru
  <2>2. Lands(t) /\ SameView(t)
    BY <1>0, <2>1
       DEF Lands, Here, OutcomeAt, OpAt, SeenAt, BeforeWrite, SameView, GotAt, TodoAt,
           CasLabels, RemoveLabels
  <2>. QED
    BY <2>1, <2>2, SilentStep
(* Back to the eviction or the sweep, or to the client. *)
<1>3. ASSUME NEW result, AfterRemove(t, result), pc[t] \in RemoveLabels
      PROVE  \/ /\ req[t].op # "Remove"
                /\ loc'[t].old = loc[t].old /\ loc'[t].result = loc[t].result
                /\ loc'[t].snap = loc[t].snap
                /\ \/ lock = t /\ pc'[t] = "space"
                   \/ req[t].op = "RemoveExpired" /\ pc'[t] = "sweep"
             \/ /\ req[t].op = "Remove" /\ loc[t].cur = req[t].key
                /\ Finish(t, result) /\ loc'[t].result = result /\ loc'[t].snap = loc[t].snap
                /\ pc'[t] = "done"
  <2>1. CASE lock = t \/ req[t].op = "RemoveExpired"
    <3>1. loc' = [loc EXCEPT ![t].cur = req[t].key, ![t].eid = 0, ![t].vlen = 0]
      BY <1>3, <2>1 DEF AfterRemove
    <3>2. /\ loc'[t].old = loc[t].old /\ loc'[t].result = loc[t].result
          /\ loc'[t].snap = loc[t].snap
      BY <1>0, <3>1 DEF Local
    <3>3. (lock = t /\ pc'[t] = "space") \/ (req[t].op = "RemoveExpired" /\ pc'[t] = "sweep")
      BY <1>0, <1>3, <2>1 DEF AfterRemove
    <3>4. req[t].op # "Remove"
      BY <1>0, <2>1 DEF Here, ControlAt, SpaceOps
    <3>. QED
      BY <3>2, <3>3, <3>4
  <2>2. CASE ~ (lock = t \/ req[t].op = "RemoveExpired")
    <3>1. Finish(t, result) /\ req[t].op = "Remove" /\ loc[t].cur = req[t].key
      BY <1>0, <1>3, <2>2 DEF AfterRemove, Here, OpAt
    <3>2. loc'[t].result = result /\ loc'[t].snap = loc[t].snap /\ pc'[t] = "done"
      BY <1>0, <3>1 DEF Finish, Local
    <3>. QED
      BY <3>1, <3>2
  <2>. QED
    BY <2>1, <2>2
<1>4. ASSUME NEW result, AfterRemove(t, result), pc[t] \in {"rmTake", "rmQueue"}, cache' = cache,
             Smudge, req[t].op # "Remove"
      PROVE  Simulates
  <2>1. /\ loc'[t].old = loc[t].old /\ loc'[t].result = loc[t].result
        /\ loc'[t].snap = loc[t].snap
        /\ (lock = t /\ pc'[t] = "space") \/ (req[t].op = "RemoveExpired" /\ pc'[t] = "sweep")
    BY <1>3, <1>4 DEF RemoveLabels
  <2>2. Lands(t) /\ SameView(t)
    BY <1>0, <1>4, <2>1
       DEF Lands, Here, OutcomeAt, OpAt, SeenAt, BeforeWrite, SameView, GotAt, TodoAt,
           ControlAt, SpaceOps, CasLabels, RemoveLabels
  <2>. QED
    BY <1>4, <2>1, <2>2, SilentStep
<1>5. CASE RemoveNotifyQueue(t)
  <2>1. pc[t] = "rmQueue" /\ AfterRemove(t, "ok") /\ cache' = cache /\ Smudge
    BY <1>5 DEF RemoveNotifyQueue
  <2>2. CASE req[t].op = "Remove"
    <3>1. /\ loc'[t].result = "ok" /\ loc[t].result = "ok" /\ loc'[t].snap = loc[t].snap
          /\ pc'[t] = "done"
      BY <1>0, <1>3, <2>1, <2>2 DEF Here, OutcomeAt, RemoveLabels
    <3>2. Lands(t) /\ SameView(t)
      BY <1>0, <2>1, <2>2, <3>1
         DEF Lands, OutcomeAt, OpAt, SeenAt, BeforeWrite, SameView, GotAt, TodoAt,
             ControlAt, CasLabels, RemoveLabels
    <3>. QED
      BY <2>1, <3>1, <3>2, SilentStep
  <2>. QED
    BY <1>4, <2>1, <2>2
<1>6. CASE RemoveTake(t) /\ cache[loc[t].cur] = Nil
  <2>1. pc[t] = "rmTake" /\ AfterRemove(t, "no") /\ cache' = cache /\ Smudge
    BY <1>6 DEF RemoveTake
  <2>2. CASE req[t].op = "Remove"
    <3>1. /\ loc[t].cur = req[t].key /\ loc'[t].result = "no" /\ loc[t].result = "none"
          /\ loc'[t].snap = loc[t].snap /\ pc'[t] = "done" /\ req[t].key \in Keys
      BY <1>0, <1>3, <2>1, <2>2 DEF Here, OutcomeAt, RemoveLabels, Request
    <3>2. SameView(t)
      BY <2>1, <2>2, <3>1 DEF SameView, GotAt, TodoAt
    <3>3. Contract!Pending(t, {"Remove"}) /\ Values(cache)[req[t].key] = Nil
      BY <1>0, <1>6, <2>2, <3>1, PendingFacts DEF Values, Value
    <3>4. Contract!Keep /\ Contract!Answer(t, "no") => Contract!Write(t)
      BY <3>3 DEF Contract!Write
    <3>. QED
      BY <2>1, <3>1, <3>2, <3>4, AnswerSimulates DEF Contract!Next
  <2>. QED
    BY <1>4, <2>1, <2>2
<1>7. CASE RemoveTake(t) /\ cache[loc[t].cur] # Nil
  <2>. DEFINE k == loc[t].cur
  <2>0. PICK result : result = IF req[t].op = "Remove" THEN "ok" ELSE loc[t].result
    OBVIOUS
  <2>1. /\ pc[t] = "rmTake" /\ pc'[t] = "rmUsed" /\ Smudge /\ lock' = lock
        /\ cache' = [cache EXCEPT ![k] = Nil] /\ k \in Keys
        /\ \E n : loc' = [loc EXCEPT ![t].vlen = n, ![t].result = result]
    BY <1>0, <1>7, <2>0 DEF RemoveTake, Here, ControlAt, RemoveLabels
  <2>2. /\ loc'[t].result = result /\ loc'[t].snap = loc[t].snap /\ loc'[t].cur = loc[t].cur
        /\ loc'[t].old = loc[t].old /\ loc[t].result = "none"
    BY <1>0, <2>1 DEF Local, Here, OutcomeAt
  <2>3. Lands(t) /\ SameView(t)
    BY <1>0, <2>0, <2>1, <2>2
       DEF Lands, Here, OutcomeAt, OpAt, SeenAt, BeforeWrite, SameView, GotAt, TodoAt,
           CasLabels, RemoveLabels
  <2>4. Contract!Put(k, Nil)
    BY <1>7, <2>1, PutStep DEF Value
  <2>5. Contract!Answer(t, result)
    BY <1>0, <2>2, <2>3, AnswerStep
  <2>6. Values(cache)[k] # Nil
    BY <1>0, <1>7, <2>1, ValueFacts DEF Values
  <2>7. Contract!Next
    <3>1. CASE req[t].op = "Remove"
      <4>1. k = req[t].key
        BY <1>0, <2>1, <3>1 DEF Here, OpAt, RemoveLabels
      <4>2. Contract!Pending(t, {"Remove"})
        BY <1>0, <2>2, <3>1, PendingFacts
      <4>3. Contract!Write(t)
        BY <2>0, <2>4, <2>5, <2>6, <3>1, <4>1, <4>2 DEF Contract!Write
      <4>. QED
        BY <4>3 DEF Contract!Next
    <3>2. CASE req[t].op # "Remove"
      <4>1. Reply' = Reply /\ Got' = Got /\ Todo' = Todo /\ req' = req
        <5>1. OnlyThread(t) /\ req' = req /\ loc'[t].result = loc[t].result
          BY <1>0, <2>0, <2>2, <3>2
        <5>. QED
          BY <2>3, <5>1, SameImage
      <4>2. Contract!Drop(k)
        BY <2>4, <2>6, <4>1 DEF Contract!Drop, Reply, Got, Todo, GotAt, TodoAt, Reads
      <4>. QED
        BY <2>1, <4>2 DEF Contract!Next
    <3>. QED
      BY <3>1, <3>2
  <2>8. CallsOK'
    BY <2>1, <2>3, CallsStep DEF Moves, Lands
  <2>. QED
    BY <2>7, <2>8 DEF Simulates
<1>. QED
  BY <1>1, <1>2, <1>5, <1>6, <1>7


(* Answering with a change of the map. *)
LEMMA PutSimulates ==
    ASSUME NEW t \in Threads, AtomInv, Smudge, Moves(t), pc'[t] \in {"used", "lru", "done"},
           NEW k \in Keys, NEW e, e # cache[k], cache' = [cache EXCEPT ![k] = e],
           NEW result, result # "none", loc'[t].result = result, SameView(t),
           Contract!Put(k, Value(e)) /\ Contract!Answer(t, result) => Contract!Next
    PROVE  Simulates
<1>1. OnlyThread(t)
  BY DEF Moves, IdEffect
<1>2. Contract!Put(k, Value(e)) /\ Contract!Answer(t, result)
  BY <1>1, PutStep, AnswerStep
<1>3. Lands(t)
  <2>1. lock' # t
    BY DEF Moves, TypeInv, ControlOK, Control, ControlAt, RemoveLabels
  <2>. QED
    BY <2>1 DEF Lands, OutcomeAt, OpAt, SeenAt, BeforeWrite, CasLabels, RemoveLabels
<1>. QED
  BY <1>2, <1>3, CallsStep DEF Moves, Lands, Simulates

(* The value a write puts. *)
LEMMA NewValueFacts ==
    ASSUME NEW r, NEW id
    PROVE  /\ NewEntry(r, id) # Nil => Value(NewEntry(r, id)) = Contract!NewValue(r)
           /\ NewEntry(r, id).eid = id
BY DEF NewEntry, Value, Contract!NewValue

LEMMA GrownSame == \A r, d : Contract!Grown(r, d) = Grown(r, d)
<1>1. \A S : Contract!Cardinality(S) = Cardinality(S)
  BY Zenon DEF Contract!Cardinality, Cardinality
<1>2. ASSUME NEW n PROVE Contract!Number(n) = Number(n)
  BY <1>1, Zenon DEF Contract!Number, Contract!DecimalLength, Number, DecimalLength
<1>. QED
  BY <1>2, Zenon DEF Contract!Grown, Contract!Concat, Contract!Text, Contract!NotANumber, Grown, Concat,
                Text, NotANumber

LEMMA StoreSimulates ==
    ASSUME NEW t \in Threads, AtomInv, Moves(t),
           ReadSize(t) \/ StoreWrite(t) \/ TryAdd(t)
    PROVE  Simulates
<1>. USE DEF Move, Goto, Frame, MoveFacts
<1>0. MoveFacts(t)
  BY MovesFacts
<1>v. /\ NewEntry(req[t], loc[t].eid) \in Entry
      /\ Value(NewEntry(req[t], loc[t].eid)) = Contract!NewValue(req[t])
      /\ NewEntry(req[t], loc[t].eid).eid = loc[t].eid
  <2>1. loc[t].eid \in Int
    BY <1>0 DEF Local
  <2>2. NewEntry(req[t], loc[t].eid) \in Entry
    BY <1>0, <2>1, NewEntryType
  <2>. QED
    BY <2>2, NilAssumption, NewValueFacts
<1>c. Values(cache)[req[t].key] = Value(cache[req[t].key])
  BY <1>0 DEF Values
<1>1. CASE ReadSize(t) /\ Current(t) # Nil
  <2>1. /\ pc[t] \in {"size", "rSize"} /\ cache' = cache /\ Smudge /\ lock' = lock
        /\ pc'[t] = IF pc[t] = "size" THEN "write" ELSE "rSubtract"
        /\ loc' = [loc EXCEPT ![t].n = Current(t).data.len]
    BY <1>0, <1>1 DEF ReadSize, LocalStep, shared
  <2>2. /\ loc'[t].old = loc[t].old /\ loc'[t].result = loc[t].result
        /\ loc'[t].snap = loc[t].snap /\ loc'[t].eid = loc[t].eid
    BY <1>0, <2>1 DEF Local
  <2>3. Lands(t) /\ SameView(t)
    BY <1>0, <2>1, <2>2
       DEF Lands, Here, OutcomeAt, OpAt, SeenAt, BeforeWrite, SameView, GotAt, TodoAt, ControlAt,
           CasLabels, RemoveLabels
  <2>. QED
    BY <2>1, <2>2, <2>3, SilentStep
<1>2. CASE ReadSize(t) /\ Current(t) = Nil
  <2>1. /\ pc[t] \in {"size", "rSize"} /\ cache' = cache /\ Smudge /\ lock' = lock
        /\ pc'[t] = "done" /\ loc' = [loc EXCEPT ![t].result = "throws"]
    BY <1>0, <1>2 DEF ReadSize, LocalStep, shared, Finish
  <2>2. /\ loc'[t].result = "throws" /\ loc'[t].snap = loc[t].snap /\ loc[t].result = "none"
    BY <1>0, <2>1 DEF Local, Here, OutcomeAt
  <2>3. SameView(t)
    BY <1>0, <2>1, <2>2 DEF SameView, GotAt, TodoAt
  <2>4. /\ cache[req[t].key] = Nil /\ req[t].key \in dirty[t]
        /\ req[t].op \in {"Store", "Cas", "Replace"}
    BY <1>0, <1>2, <2>1 DEF Current, Here, SeenAt, OpAt, ControlAt
  <2>5. Values(cache)[req[t].key] = Nil /\ Contract!Pending(t, {"Store", "Cas", "Replace"})
    BY <1>0, <1>c, <2>2, <2>4, PendingFacts DEF Value
  <2>6. ASSUME Contract!Keep, Contract!Answer(t, "throws") PROVE Contract!Vanished(t)
    <3>1. Todo' = Todo /\ Todo' = [Todo EXCEPT ![t] = {}]
      BY <1>0, <2>1, <2>3, SameImage DEF Todo, TodoAt
    <3>. QED
      BY <2>4, <2>5, <2>6, <3>1
         DEF Contract!Vanished, Contract!Keep, Contract!Answer, Todo, TodoAt
  <2>. QED
    BY <2>1, <2>2, <2>3, <2>6, AnswerSimulates DEF Contract!Next
<1>3. CASE StoreWrite(t)
  <2>1. PICK k \in Keys : k = req[t].key
    BY <1>0
  <2>2. PICK e : e = NewEntry(req[t], loc[t].eid)
    OBVIOUS
  <2>3. /\ pc[t] = "write" /\ cache' = [cache EXCEPT ![k] = e] /\ Smudge
        /\ pc'[t] = "used"
        /\ loc' = [loc EXCEPT ![t].n = req[t].data.len - @, ![t].result = "ok"]
    BY <1>0, <1>3, <2>1, <2>2 DEF StoreWrite, OnCache
  <2>4. loc'[t].result = "ok" /\ loc'[t].snap = loc[t].snap /\ loc[t].result = "none"
    BY <1>0, <2>3 DEF Local, Here, OutcomeAt
  <2>5. SameView(t)
    BY <1>0, <2>3, <2>4 DEF SameView, GotAt, TodoAt
  <2>6. e # cache[k]
    BY <1>0, <1>v, <2>1, <2>2, <2>3, NilAssumption DEF Here, FreshAt, BeforeWrite
  <2>7. \/ req[t].op = "Store"
        \/ req[t].op = "Cas" /\ (cache[k] # Nil => k \in dirty[t])
    BY <1>0, <2>1, <2>3 DEF Here, OpAt, SeenAt, CasLabels
  <2>8. ASSUME Contract!Put(k, Value(e)), Contract!Answer(t, "ok") PROVE Contract!Next
    <3>1. Contract!Pending(t, {req[t].op})
      BY <1>0, <2>4, PendingFacts
    <3>2. CASE req[t].op = "Store"
      BY <1>v, <2>1, <2>2, <2>8, <3>1, <3>2 DEF Contract!Next, Contract!Write
    <3>3. CASE req[t].op = "Cas" /\ cache[k] = Nil
      <4>1. Values(cache)[k] = Nil
        BY <1>c, <2>1, <3>3 DEF Value
      <4>. QED
        BY <1>v, <2>1, <2>2, <2>8, <3>1, <3>3, <4>1 DEF Contract!Next, Contract!Write
    <3>4. CASE req[t].op = "Cas" /\ cache[k] # Nil
      BY <1>v, <2>1, <2>2, <2>7, <2>8, <3>1, <3>4 DEF Contract!Next, Contract!Overwrite
    <3>. QED
      BY <2>7, <3>2, <3>3, <3>4
  <2>. QED
    BY <2>3, <2>4, <2>5, <2>6, <2>8, PutSimulates
<1>4. CASE TryAdd(t) /\ Current(t) # Nil
  <2>1. /\ pc[t] = "tryAdd" /\ cache' = cache /\ Smudge
        /\ pc'[t] = "done" /\ loc' = [loc EXCEPT ![t].result = "no"]
    BY <1>0, <1>4 DEF TryAdd, OnCache, Finish
  <2>2. loc'[t].result = "no" /\ loc'[t].snap = loc[t].snap /\ loc[t].result = "none"
    BY <1>0, <2>1 DEF Local, Here, OutcomeAt
  <2>3. SameView(t)
    BY <1>0, <2>1, <2>2 DEF SameView, GotAt, TodoAt
  <2>4. Contract!Pending(t, {"Add"}) /\ Values(cache)[req[t].key] # Nil
    BY <1>0, <1>4, <1>c, <2>1, <2>2, PendingFacts, ValueFacts DEF Here, OpAt, Current
  <2>. QED
    BY <2>1, <2>2, <2>3, <2>4, AnswerSimulates DEF Contract!Next, Contract!Write
<1>5. CASE TryAdd(t) /\ Current(t) = Nil
  <2>1. PICK k \in Keys : k = req[t].key
    BY <1>0
  <2>2. PICK e : e = NewEntry(req[t], loc[t].eid)
    OBVIOUS
  <2>3. /\ pc[t] = "tryAdd" /\ cache' = [cache EXCEPT ![k] = e] /\ Smudge
        /\ pc'[t] = "used" /\ loc' = [loc EXCEPT ![t].result = "ok"]
    BY <1>0, <1>5, <2>1, <2>2 DEF TryAdd, OnCache
  <2>4. loc'[t].result = "ok" /\ loc'[t].snap = loc[t].snap /\ loc[t].result = "none"
    BY <1>0, <2>3 DEF Local, Here, OutcomeAt
  <2>5. SameView(t)
    BY <1>0, <2>3, <2>4 DEF SameView, GotAt, TodoAt
  <2>6. e # cache[k]
    BY <1>5, <1>v, <2>1, <2>2, NilAssumption DEF Current
  <2>7. Contract!Pending(t, {"Add"}) /\ Values(cache)[k] = Nil
    BY <1>0, <1>5, <1>c, <2>1, <2>3, <2>4, PendingFacts DEF Here, OpAt, Current, Value
  <2>8. ASSUME Contract!Put(k, Value(e)), Contract!Answer(t, "ok") PROVE Contract!Write(t)
    BY <1>v, <2>1, <2>2, <2>7, <2>8 DEF Contract!Write
  <2>. QED
    BY <2>3, <2>4, <2>5, <2>6, <2>8, PutSimulates DEF Contract!Next
<1>. QED
  BY <1>1, <1>2, <1>3, <1>4, <1>5 DEF TryAdd


(* What a TryUpdate puts in the place of the entry it read. *)
LEMMA UpdatedFacts ==
    ASSUME NEW t \in Threads, AtomInv, pc[t] # "idle", loc[t].old \in Entry, NEW r, r = req[t],
           r.op \in {"Replace", "Cas", "Append", "Mutate", "Touch"},
           NEW v, v = Value(loc[t].old)
    PROVE  /\ Updated(t) \in Entry
           /\ r.op # "Mutate" => Updated(t).eid = loc[t].eid
           /\ r.op = "Mutate" => Updated(t) # loc[t].old
           /\ r.op \in {"Replace", "Cas"} => Value(Updated(t)) = Contract!NewValue(r)
           /\ r.op \in {"Append", "Mutate"} =>
                Value(Updated(t)) = [v EXCEPT !.data = Contract!Grown(r, v.data)]
           /\ r.op = "Touch" => Value(Updated(t)) = [v EXCEPT !.expiry = r.expiry]
<1>. DEFINE e == loc[t].old
<1>1. req[t] \in Request /\ loc[t].eid \in Int
  BY CallFacts DEF Local
<1>2. Updated(t) \in Entry
  BY <1>1, UpdatedType
<1>3. e # Nil /\ Updated(t) # Nil
  BY <1>2, NilAssumption
<1>4. v = [data |-> e.data, expiry |-> e.expiry, cas |-> e.cas]
  BY <1>3 DEF Value
<1>5. CASE r.op \in {"Replace", "Cas"}
  <2>1. Updated(t) = NewEntry(r, loc[t].eid)
    BY <1>5 DEF Updated
  <2>. QED
    BY <1>2, <1>3, <1>5, <2>1, NewValueFacts
<1>6. CASE r.op \in {"Append", "Mutate"}
  <2>1. PICK d : d = Grown(r, e.data) /\ d = Contract!Grown(r, v.data)
    BY <1>4, GrownSame
  <2>2. Updated(t) = IF r.op = "Append" THEN [e EXCEPT !.data = d, !.eid = loc[t].eid]
                     ELSE [e EXCEPT !.data = d, !.gen = e.gen + 1]
    BY <1>6, <2>1 DEF Updated
  <2>3. e.gen \in Int
    BY DEF Entry
  <2>4. /\ Updated(t).data = d /\ Updated(t).expiry = e.expiry /\ Updated(t).cas = e.cas
        /\ r.op = "Append" => Updated(t).eid = loc[t].eid
        /\ r.op = "Mutate" => Updated(t).gen # e.gen
    BY <1>6, <2>2, <2>3 DEF Entry
  <2>5. Value(Updated(t)) = [v EXCEPT !.data = d]
    BY <1>3, <1>4, <2>4 DEF Value
  <2>. QED
    BY <1>2, <1>6, <2>1, <2>4, <2>5
<1>7. CASE r.op = "Touch"
  <2>1. Updated(t) = [e EXCEPT !.expiry = r.expiry, !.eid = loc[t].eid]
    BY <1>7 DEF Updated
  <2>2. /\ Updated(t).data = e.data /\ Updated(t).expiry = r.expiry /\ Updated(t).cas = e.cas
        /\ Updated(t).eid = loc[t].eid
    BY <2>1 DEF Entry
  <2>3. Value(Updated(t)) = [v EXCEPT !.expiry = r.expiry]
    BY <1>3, <1>4, <2>2 DEF Value
  <2>. QED
    BY <1>2, <1>7, <2>2, <2>3
<1>. QED
  BY <1>5, <1>6, <1>7

(* The entry a swap puts is not the one it replaces. *)
LEMMA SwapFacts ==
    ASSUME NEW t \in Threads, AtomInv, pc[t] \in {"loopSwap", "tSwap", "cSwap"},
           Current(t) = loc[t].old
    PROVE  Updated(t) # cache[req[t].key] /\ Updated(t) \in Entry /\ loc[t].old \in Entry
           /\ req[t].op \in {"Replace", "Append", "Mutate", "Touch", "Cas"}
<1>1. Here(t) /\ cache[req[t].key] = loc[t].old
  BY HereFacts DEF Current
<1>2. /\ loc[t].old \in Entry
      /\ req[t].op \in {"Replace", "Append", "Mutate", "Touch", "Cas"}
      /\ req[t].op # "Mutate" => BeforeWrite(pc[t], req[t])
  BY <1>1 DEF Here, ControlAt, BeforeWrite
<1>3. /\ Updated(t) \in Entry
      /\ req[t].op # "Mutate" => Updated(t).eid = loc[t].eid
      /\ req[t].op = "Mutate" => Updated(t) # loc[t].old
  BY <1>2, UpdatedFacts
<1>. QED
  BY <1>1, <1>2, <1>3, NilAssumption DEF Here, FreshAt

LEMMA LoopSimulates ==
    ASSUME NEW t \in Threads, AtomInv, Moves(t), LoopRead(t) \/ LoopSwap(t)
    PROVE  Simulates
<1>. USE DEF Move, Goto, Frame, MoveFacts
<1>0. MoveFacts(t)
  BY MovesFacts
<1>c. Values(cache)[req[t].key] = Value(Current(t)) /\ Current(t) \in EntryOrNil
      /\ Current(t) = cache[req[t].key]
  BY <1>0 DEF Values, Current
<1>1. CASE LoopRead(t) /\ Current(t) = Nil
  <2>1. /\ pc[t] = "loopRead" /\ cache' = cache /\ Smudge
        /\ pc'[t] = "done" /\ loc' = [loc EXCEPT ![t].result = "no"]
    BY <1>0, <1>1 DEF LoopRead, LocalStep, shared, Finish
  <2>2. loc'[t].result = "no" /\ loc'[t].snap = loc[t].snap /\ loc[t].result = "none"
    BY <1>0, <2>1 DEF Local, Here, OutcomeAt
  <2>3. SameView(t)
    BY <1>0, <2>1, <2>2 DEF SameView, GotAt, TodoAt
  <2>4. req[t].op \in {"Replace", "Append", "Mutate"} /\ Contract!Pending(t, {req[t].op})
    BY <1>0, <2>1, <2>2, PendingFacts DEF Here, ControlAt
  <2>5. Values(cache)[req[t].key] = Nil
    BY <1>1, <1>c DEF Value
  <2>6. ASSUME Contract!Keep, Contract!Answer(t, "no") PROVE Contract!Write(t)
    BY <2>4, <2>5, <2>6 DEF Contract!Write
  <2>. QED
    BY <2>1, <2>2, <2>3, <2>6, AnswerSimulates DEF Contract!Next
<1>2. CASE LoopRead(t) /\ Current(t) # Nil /\ req[t].op = "Mutate"
                       /\ Current(t).data.num = NotANumber
  <2>1. /\ pc[t] = "loopRead" /\ cache' = cache /\ Smudge
        /\ pc'[t] = "done" /\ loc' = [loc EXCEPT ![t].result = "throws"]
    BY <1>0, <1>2 DEF LoopRead, LocalStep, shared, Finish
  <2>2. loc'[t].result = "throws" /\ loc'[t].snap = loc[t].snap /\ loc[t].result = "none"
    BY <1>0, <2>1 DEF Local, Here, OutcomeAt
  <2>3. SameView(t)
    BY <1>0, <2>1, <2>2 DEF SameView, GotAt, TodoAt
  <2>4. Contract!Pending(t, {"Mutate"})
    BY <1>0, <1>2, <2>2, PendingFacts
  <2>5. /\ Values(cache)[req[t].key] # Nil
        /\ Values(cache)[req[t].key].data.num = Contract!NotANumber
    BY <1>2, <1>c, ValueFacts DEF NotANumber, Contract!NotANumber
  <2>6. ASSUME Contract!Keep, Contract!Answer(t, "throws") PROVE Contract!Write(t)
    BY <2>4, <2>5, <2>6 DEF Contract!Write
  <2>. QED
    BY <2>1, <2>2, <2>3, <2>6, AnswerSimulates DEF Contract!Next
<1>3. CASE LoopRead(t) /\ Current(t) # Nil
                       /\ (req[t].op = "Mutate" => Current(t).data.num # NotANumber)
  <2>1. /\ pc[t] = "loopRead" /\ cache' = cache /\ Smudge /\ lock' = lock
        /\ pc'[t] = "loopSwap" /\ loc' = [loc EXCEPT ![t].old = Current(t)]
    BY <1>0, <1>3 DEF LoopRead, LocalStep, shared
  <2>2. /\ loc'[t].old = Current(t) /\ loc'[t].result = loc[t].result
        /\ loc'[t].snap = loc[t].snap /\ loc'[t].eid = loc[t].eid
    BY <1>0, <2>1 DEF Local
  <2>3. Lands(t) /\ SameView(t)
    BY <1>0, <1>3, <2>1, <2>2
       DEF Lands, Here, OutcomeAt, OpAt, SeenAt, BeforeWrite, SameView, GotAt, TodoAt, ControlAt,
           CasLabels, RemoveLabels
  <2>. QED
    BY <2>1, <2>2, <2>3, SilentStep
<1>4. CASE LoopSwap(t) /\ Current(t) # loc[t].old
  <2>1. /\ pc[t] = "loopSwap" /\ cache' = cache /\ Smudge /\ lock' = lock
        /\ pc'[t] = "loopRead" /\ loc' = [loc EXCEPT ![t].old = Nil]
    BY <1>0, <1>4 DEF LoopSwap, OnCache
  <2>2. /\ loc'[t].result = loc[t].result
        /\ loc'[t].snap = loc[t].snap /\ loc'[t].eid = loc[t].eid
    BY <1>0, <2>1 DEF Local
  <2>3. Lands(t) /\ SameView(t)
    BY <1>0, <2>1, <2>2
       DEF Lands, Here, OutcomeAt, OpAt, SeenAt, BeforeWrite, SameView, GotAt, TodoAt, ControlAt,
           CasLabels, RemoveLabels
  <2>. QED
    BY <2>1, <2>2, <2>3, SilentStep
<1>5. CASE LoopSwap(t) /\ Current(t) = loc[t].old
  <2>1. PICK k \in Keys : k = req[t].key
    BY <1>0
  <2>2. PICK e : e = Updated(t)
    OBVIOUS
  <2>3. /\ pc[t] = "loopSwap" /\ cache' = [cache EXCEPT ![k] = e] /\ Smudge
        /\ pc'[t] \in {"used", "done"}
        /\ loc' = [loc EXCEPT ![t].n = req[t].data.len, ![t].result = "ok"]
    BY <1>0, <1>5, <2>1, <2>2 DEF LoopSwap, OnCache
  <2>4. loc'[t].result = "ok" /\ loc'[t].snap = loc[t].snap /\ loc[t].result = "none"
    BY <1>0, <2>3 DEF Local, Here, OutcomeAt
  <2>5. SameView(t)
    BY <1>0, <2>3, <2>4 DEF SameView, GotAt, TodoAt
  <2>6. e # cache[k] /\ loc[t].old \in Entry
    BY <1>5, <2>1, <2>2, <2>3, SwapFacts
  <2>7. /\ req[t].op \in {"Replace", "Append", "Mutate"} /\ Contract!Pending(t, {req[t].op})
        /\ req[t].op = "Mutate" => loc[t].old.data.num # NotANumber
    BY <1>0, <2>3, <2>4, PendingFacts DEF Here, ControlAt, SeenAt
  <2>8. PICK v : v = Value(loc[t].old)
    OBVIOUS
  <2>9. /\ Values(cache)[k] = v /\ v # Nil
        /\ req[t].op = "Mutate" => v.data.num # Contract!NotANumber
    BY <1>5, <1>c, <2>1, <2>6, <2>7, <2>8, NilAssumption, ValueFacts
       DEF NotANumber, Contract!NotANumber
  <2>10. ASSUME Contract!Put(k, Value(e)), Contract!Answer(t, "ok") PROVE Contract!Write(t)
    <3>1. /\ req[t].op = "Replace" => Value(e) = Contract!NewValue(req[t])
          /\ req[t].op \in {"Append", "Mutate"} =>
                Value(e) = [v EXCEPT !.data = Contract!Grown(req[t], v.data)]
      BY <1>0, <2>2, <2>6, <2>7, <2>8, UpdatedFacts
    <3>2. CASE req[t].op = "Replace"
      BY <2>1, <2>7, <2>9, <2>10, <3>1, <3>2 DEF Contract!Write
    <3>3. CASE req[t].op = "Append"
      BY <2>1, <2>7, <2>9, <2>10, <3>1, <3>3 DEF Contract!Write
    <3>4. CASE req[t].op = "Mutate"
      BY <2>1, <2>7, <2>9, <2>10, <3>1, <3>4 DEF Contract!Write
    <3>. QED
      BY <2>7, <3>2, <3>3, <3>4
  <2>. QED
    BY <2>3, <2>4, <2>5, <2>6, <2>10, PutSimulates DEF Contract!Next
<1>. QED
  BY <1>1, <1>2, <1>3, <1>4, <1>5


LEMMA TouchSimulates ==
    ASSUME NEW t \in Threads, AtomInv, Moves(t), TouchRead(t) \/ TouchSwap(t)
    PROVE  Simulates
<1>. USE DEF Move, Goto, Frame, MoveFacts
<1>0. MoveFacts(t)
  BY MovesFacts
<1>c. Values(cache)[req[t].key] = Value(Current(t)) /\ Current(t) \in EntryOrNil
      /\ Current(t) = cache[req[t].key]
  BY <1>0 DEF Values, Current
<1>1. CASE TouchRead(t) /\ Current(t) = Nil
  <2>1. /\ pc[t] = "tRead" /\ cache' = cache /\ Smudge
        /\ pc'[t] = "done" /\ loc' = [loc EXCEPT ![t].result = "no"]
    BY <1>0, <1>1 DEF TouchRead, LocalStep, shared, Finish
  <2>2. loc'[t].result = "no" /\ loc'[t].snap = loc[t].snap /\ loc[t].result = "none"
    BY <1>0, <2>1 DEF Local, Here, OutcomeAt
  <2>3. SameView(t)
    BY <1>0, <2>1, <2>2 DEF SameView, GotAt, TodoAt
  <2>4. Contract!Pending(t, {"Touch"}) /\ Values(cache)[req[t].key] = Nil
    BY <1>0, <1>1, <1>c, <2>1, <2>2, PendingFacts DEF Here, ControlAt, Value
  <2>. QED
    BY <2>1, <2>2, <2>3, <2>4, AnswerSimulates DEF Contract!Next, Contract!Write
<1>2. CASE TouchRead(t) /\ Current(t) # Nil
  <2>1. /\ pc[t] = "tRead" /\ cache' = cache /\ Smudge /\ lock' = lock
        /\ pc'[t] = "inc" /\ loc' = [loc EXCEPT ![t].old = Current(t)]
    BY <1>0, <1>2 DEF TouchRead, LocalStep, shared
  <2>2. /\ loc'[t].old = Current(t) /\ loc'[t].result = loc[t].result
        /\ loc'[t].snap = loc[t].snap
    BY <1>0, <2>1 DEF Local
  <2>3. Lands(t) /\ SameView(t)
    BY <1>0, <1>c, <2>1, <2>2
       DEF Lands, Here, OutcomeAt, OpAt, SeenAt, BeforeWrite, SameView, GotAt, TodoAt, ControlAt,
           CasLabels, RemoveLabels
  <2>. QED
    BY <2>1, <2>2, <2>3, SilentStep
<1>3. ASSUME TouchSwap(t)
      PROVE  /\ pc[t] = "tSwap" /\ Smudge /\ pc'[t] = "lru"
             /\ loc' = [loc EXCEPT ![t].result = "ok"] /\ loc'[t].result = "ok"
             /\ Contract!Pending(t, {"Touch"}) /\ req[t].op = "Touch" /\ SameView(t)
  <2>1. /\ pc[t] = "tSwap" /\ Smudge /\ pc'[t] = "lru"
        /\ loc' = [loc EXCEPT ![t].result = "ok"]
    BY <1>0, <1>3 DEF TouchSwap, OnCache
  <2>2. loc'[t].result = "ok" /\ loc'[t].snap = loc[t].snap /\ loc[t].result = "none"
    BY <1>0, <2>1 DEF Local, Here, OutcomeAt
  <2>3. SameView(t)
    BY <1>0, <2>1, <2>2 DEF SameView, GotAt, TodoAt
  <2>4. req[t].op = "Touch"
    BY <1>0, <2>1 DEF Here, ControlAt
  <2>. QED
    BY <1>0, <2>1, <2>2, <2>3, <2>4, PendingFacts
<1>4. CASE TouchSwap(t) /\ Current(t) = loc[t].old
  <2>1. PICK k \in Keys : k = req[t].key
    BY <1>0
  <2>2. PICK e : e = Updated(t)
    OBVIOUS
  <2>3. cache' = [cache EXCEPT ![k] = e]
    BY <1>4, <2>1, <2>2 DEF TouchSwap
  <2>4. e # cache[k] /\ loc[t].old \in Entry
    BY <1>3, <1>4, <2>1, <2>2, SwapFacts
  <2>5. PICK v : v = Value(loc[t].old)
    OBVIOUS
  <2>6. Values(cache)[k] = v /\ v # Nil
    BY <1>4, <1>c, <2>1, <2>4, <2>5, NilAssumption, ValueFacts
  <2>7. Value(e) = [v EXCEPT !.expiry = req[t].expiry]
    BY <1>0, <1>3, <1>4, <2>2, <2>4, <2>5, UpdatedFacts
  <2>8. ASSUME Contract!Put(k, Value(e)), Contract!Answer(t, "ok") PROVE Contract!Write(t)
    BY <1>3, <1>4, <2>1, <2>6, <2>7, <2>8 DEF Contract!Write
  <2>. QED
    BY <1>3, <1>4, <2>3, <2>4, <2>8, PutSimulates DEF Contract!Next
<1>5. CASE TouchSwap(t) /\ Current(t) # loc[t].old
  <2>1. cache' = cache /\ req[t].key \in dirty[t]
    BY <1>0, <1>3, <1>5, <1>c DEF TouchSwap, Here, SeenAt
  <2>2. ASSUME Contract!Keep, Contract!Answer(t, "ok") PROVE Contract!Lost(t)
    BY <1>3, <1>5, <2>1, <2>2 DEF Contract!Lost, Contract!Pending, Contract!Answer
  <2>3. Contract!Keep /\ Contract!Answer(t, "ok")
    BY <1>0, <1>3, <1>5, <2>1, KeepStep, AnswerStep
  <2>4. Lands(t)
    <3>1. lock' # t
      BY <1>0, <1>3, <1>5 DEF ControlAt, RemoveLabels
    <3>. QED
      BY <1>3, <1>5, <3>1 DEF Lands, OutcomeAt, OpAt, SeenAt, BeforeWrite, CasLabels, RemoveLabels
  <2>. QED
    BY <1>3, <1>5, <2>2, <2>3, <2>4, CallsStep DEF Moves, Lands, Simulates, Contract!Next
<1>. QED
  BY <1>1, <1>2, <1>4, <1>5

LEMMA CasSimulates ==
    ASSUME NEW t \in Threads, AtomInv, Moves(t), CasRead(t) \/ CasSwap(t)
    PROVE  Simulates
<1>. USE DEF Move, Goto, Frame, MoveFacts
<1>0. MoveFacts(t)
  BY MovesFacts
<1>c. Values(cache)[req[t].key] = Value(Current(t)) /\ Current(t) \in EntryOrNil
      /\ Current(t) = cache[req[t].key]
  BY <1>0 DEF Values, Current
<1>1. CASE CasRead(t) /\ Current(t) # Nil /\ Current(t).cas # req[t].cas
  <2>1. /\ pc[t] = "cRead" /\ cache' = cache /\ Smudge
        /\ pc'[t] = "done" /\ loc' = [loc EXCEPT ![t].result = "no"]
    BY <1>0, <1>1 DEF CasRead, LocalStep, shared, Finish
  <2>2. loc'[t].result = "no" /\ loc'[t].snap = loc[t].snap /\ loc[t].result = "none"
    BY <1>0, <2>1 DEF Local, Here, OutcomeAt
  <2>3. SameView(t)
    BY <1>0, <2>1, <2>2 DEF SameView, GotAt, TodoAt
  <2>4. /\ Contract!Pending(t, {"Cas"}) /\ Values(cache)[req[t].key] # Nil
        /\ Values(cache)[req[t].key].cas # req[t].cas
    BY <1>0, <1>1, <1>c, <2>1, <2>2, PendingFacts, ValueFacts DEF Here, ControlAt
  <2>. QED
    BY <2>1, <2>2, <2>3, <2>4, AnswerSimulates DEF Contract!Next, Contract!Write
<1>2. CASE CasRead(t) /\ Current(t) = Nil
  <2>1. /\ pc[t] = "cRead" /\ cache' = cache /\ Smudge /\ lock' = lock
        /\ pc'[t] = "space" /\ loc' = loc
    BY <1>0, <1>2 DEF CasRead, LocalStep, shared
  <2>2. Lands(t) /\ SameView(t)
    BY <1>0, <1>2, <1>c, <2>1
       DEF Lands, Here, OutcomeAt, OpAt, SeenAt, BeforeWrite, SameView, GotAt, TodoAt, ControlAt,
           CasLabels, RemoveLabels
  <2>. QED
    BY <2>1, <2>2, SilentStep
<1>3. CASE CasRead(t) /\ Current(t) # Nil /\ Current(t).cas = req[t].cas
  <2>1. PICK length : length = Abs(req[t].data.len - Current(t).data.len)
    OBVIOUS
  <2>2. /\ pc[t] = "cRead" /\ cache' = cache /\ Smudge /\ lock' = lock
        /\ pc'[t] \in {"space", "inc"}
        /\ loc' = [loc EXCEPT ![t].old = Current(t), ![t].n = length]
    BY <1>0, <1>3, <2>1 DEF CasRead, LocalStep, shared
  <2>3. /\ loc'[t].old = Current(t) /\ loc'[t].result = loc[t].result
        /\ loc'[t].snap = loc[t].snap
    BY <1>0, <2>2 DEF Local
  <2>4. Lands(t) /\ SameView(t)
    BY <1>0, <1>3, <1>c, <2>2, <2>3
       DEF Lands, Here, OutcomeAt, OpAt, SeenAt, BeforeWrite, SameView, GotAt, TodoAt, ControlAt,
           CasLabels, RemoveLabels, SpaceOps
  <2>. QED
    BY <2>2, <2>3, <2>4, SilentStep
<1>4. CASE CasSwap(t) /\ Current(t) # loc[t].old
  <2>1. /\ pc[t] = "cSwap" /\ cache' = cache /\ Smudge
        /\ pc'[t] = "done" /\ loc' = [loc EXCEPT ![t].result = "no"]
    BY <1>0, <1>4 DEF CasSwap, OnCache, Finish
  <2>2. loc'[t].result = "no" /\ loc'[t].snap = loc[t].snap /\ loc[t].result = "none"
    BY <1>0, <2>1 DEF Local, Here, OutcomeAt
  <2>3. SameView(t)
    BY <1>0, <2>1, <2>2 DEF SameView, GotAt, TodoAt
  <2>4. req[t].op = "Cas" /\ Contract!Pending(t, {"Cas"}) /\ req[t].key \in dirty[t]
    BY <1>0, <1>4, <1>c, <2>1, <2>2, PendingFacts DEF Here, ControlAt, SeenAt, CasLabels
  <2>5. ASSUME Contract!Keep, Contract!Answer(t, "no") PROVE Contract!Lost(t)
    BY <2>4, <2>5 DEF Contract!Lost, Contract!Pending, Contract!Answer
  <2>. QED
    BY <2>1, <2>2, <2>3, <2>5, AnswerSimulates DEF Contract!Next
<1>5. CASE CasSwap(t) /\ Current(t) = loc[t].old
  <2>1. PICK k \in Keys : k = req[t].key
    BY <1>0
  <2>2. PICK e : e = Updated(t)
    OBVIOUS
  <2>3. /\ pc[t] = "cSwap" /\ cache' = [cache EXCEPT ![k] = e] /\ Smudge
        /\ pc'[t] = "done" /\ loc' = [loc EXCEPT ![t].result = "ok"]
    BY <1>0, <1>5, <2>1, <2>2 DEF CasSwap, OnCache, Finish
  <2>4. loc'[t].result = "ok" /\ loc'[t].snap = loc[t].snap /\ loc[t].result = "none"
    BY <1>0, <2>3 DEF Local, Here, OutcomeAt
  <2>5. SameView(t)
    BY <1>0, <2>3, <2>4 DEF SameView, GotAt, TodoAt
  <2>6. e # cache[k] /\ loc[t].old \in Entry /\ loc[t].old # Nil
    BY <1>5, <2>1, <2>2, <2>3, SwapFacts, NilAssumption
  <2>7. req[t].op = "Cas" /\ Contract!Pending(t, {"Cas"}) /\ loc[t].old.cas = req[t].cas
    BY <1>0, <2>3, <2>4, <2>6, PendingFacts DEF Here, ControlAt, SeenAt, CasLabels
  <2>8. /\ Values(cache)[k] # Nil /\ Values(cache)[k].cas = req[t].cas
        /\ Value(e) = Contract!NewValue(req[t])
    <3>1. Value(e) = Contract!NewValue(req[t])
      BY <1>0, <2>2, <2>6, <2>7, UpdatedFacts
    <3>2. Values(cache)[k] = Value(Current(t)) /\ Current(t) \in EntryOrNil /\ Current(t) # Nil
          /\ Current(t).cas = req[t].cas
      BY <1>5, <1>c, <2>1, <2>6, <2>7
    <3>. QED
      BY <3>1, <3>2, ValueFacts
  <2>9. ASSUME Contract!Put(k, Value(e)), Contract!Answer(t, "ok") PROVE Contract!Write(t)
    BY <2>1, <2>7, <2>8, <2>9 DEF Contract!Write
  <2>. QED
    BY <2>3, <2>4, <2>5, <2>6, <2>9, PutSimulates DEF Contract!Next
<1>. QED
  BY <1>1, <1>2, <1>3, <1>4, <1>5


LEMMA EndSimulates ==
    ASSUME NEW t \in Threads, AtomInv, Moves(t),
           ClearCache(t) \/ AddUsed(t) \/ NotifyLru(t) \/ NotifyQueue(t)
    PROVE  Simulates
<1>. USE DEF Move, Goto, Frame, MoveFacts
<1>0. MoveFacts(t)
  BY MovesFacts
<1>1. CASE AddUsed(t) \/ NotifyLru(t) \/ NotifyQueue(t)
  <2>1. /\ pc[t] \in {"used", "lru", "queue"} /\ pc'[t] \in {"lru", "queue", "done"}
        /\ cache' = cache /\ Smudge /\ loc' = loc
    BY <1>0, <1>1 DEF AddUsed, NotifyLru, NotifyQueue, OnUsed, OnLru
  <2>2. lock' # t
    BY <1>0, <2>1 DEF ControlAt, RemoveLabels
  <2>3. Lands(t) /\ SameView(t)
    BY <1>0, <2>1, <2>2
       DEF Lands, Here, OutcomeAt, OpAt, SeenAt, BeforeWrite, SameView, GotAt, TodoAt,
           CasLabels, RemoveLabels
  <2>. QED
    BY <2>1, <2>3, SilentStep
<1>2. CASE ClearCache(t)
  <2>1. /\ pc[t] = "clear" /\ pc'[t] = "queue" /\ Smudge /\ cache' = NoKeys
        /\ loc' = [loc EXCEPT ![t].result = "ok"]
    BY <1>0, <1>2 DEF ClearCache, OnCache
  <2>2. loc'[t].result = "ok" /\ loc'[t].snap = loc[t].snap /\ loc[t].result = "none"
    BY <1>0, <2>1 DEF Local, Here, OutcomeAt
  <2>3. SameView(t)
    BY <1>0, <2>1, <2>2 DEF SameView, GotAt, TodoAt
  <2>4. lock' # t
    BY <1>0, <2>1 DEF ControlAt, RemoveLabels
  <2>5. Lands(t)
    BY <2>1, <2>2, <2>4 DEF Lands, OutcomeAt, OpAt, SeenAt, BeforeWrite, CasLabels, RemoveLabels
  <2>6. req[t].op = "Clear" /\ Contract!Pending(t, {"Clear"})
    BY <1>0, <2>1, <2>2, PendingFacts DEF Here, OpAt
  <2>7. Contract!Answer(t, "ok")
    BY <1>0, <2>2, <2>3, AnswerStep
  <2>8. Values(cache)' = Contract!NoKeys
    BY <2>1 DEF Values, Value, NoKeys, Contract!NoKeys
  <2>9. Contract!Smudge({x \in Keys : Values(cache)[x] # Nil})
    <3>1. \A x \in Keys : cache'[x] # cache[x] <=> Values(cache)[x] # Nil
      BY <1>0, <2>1, ValueFacts DEF Values, NoKeys
    <3>2. {x \in Keys : cache'[x] # cache[x]} = {x \in Keys : Values(cache)[x] # Nil}
      BY <3>1
    <3>. QED
      BY <2>1, <3>2 DEF Smudge, Contract!Smudge
  <2>10. Contract!Write(t)
    BY <2>6, <2>7, <2>8, <2>9 DEF Contract!Write
  <2>. QED
    BY <2>1, <2>5, <2>10, CallsStep DEF Moves, Lands, Simulates, Contract!Next
<1>. QED
  BY <1>1, <1>2

(* Retrieve reads a key. *)
LEMMA ReadOneStep ==
    ASSUME NEW t \in Threads, AtomInv, Smudge, Moves(t), cache' = cache,
           req[t].op = "Retrieve", loc[t].result = "none", loc'[t].result = "none",
           NEW k \in Keys, k \in TodoAt(pc[t], loc[t]),
           TodoAt(pc'[t], loc'[t]) = TodoAt(pc[t], loc[t]) \ {k},
           loc'[t].snap = [loc[t].snap EXCEPT ![k] = cache[k]]
    PROVE  Contract!ReadOne(t)
<1>. USE DEF MoveFacts
<1>0. MoveFacts(t)
  BY MovesFacts
<1>1. Contract!Keep
  BY <1>0, KeepStep
<1>2. Contract!Pending(t, {"Retrieve"})
  BY <1>0, PendingFacts
<1>3. GotAt(req[t], loc'[t]) = [GotAt(req[t], loc[t]) EXCEPT ![k] = Values(cache)[k]]
  <2>1. /\ GotAt(req[t], loc[t]) = Values(loc[t].snap)
        /\ GotAt(req[t], loc'[t]) = Values(loc'[t].snap)
    BY <1>0, NilAssumption DEF GotAt
  <2>2. loc[t].snap \in [Keys -> EntryOrNil]
    BY <1>0 DEF Local
  <2>3. Values(loc'[t].snap) = [Values(loc[t].snap) EXCEPT ![k] = Values(cache)[k]]
    BY <2>2 DEF Values
  <2>. QED
    BY <2>1, <2>3
<1>4. /\ Reply' = Reply
      /\ Got' = [Got EXCEPT ![t][k] = Values(cache)[k]]
      /\ Todo' = [Todo EXCEPT ![t] = Todo[t] \ {k}]
  <2>1. /\ Reply[t] = loc[t].result /\ Got[t] = GotAt(req[t], loc[t])
        /\ Todo[t] = TodoAt(pc[t], loc[t])
    BY DEF Reply, Got, Todo
  <2>2. Reply' = [Reply EXCEPT ![t] = loc'[t].result]
        /\ Got' = [Got EXCEPT ![t] = GotAt(req[t], loc'[t])]
        /\ Todo' = [Todo EXCEPT ![t] = TodoAt(pc'[t], loc'[t])]
    BY <1>0, ImageStep
  <2>3. Reply' = Reply
    BY <2>2 DEF Reply
  <2>4. Got' = [Got EXCEPT ![t] = [Got[t] EXCEPT ![k] = Values(cache)[k]]]
    BY <1>3, <2>1, <2>2
  <2>5. Todo' = [Todo EXCEPT ![t] = Todo[t] \ {k}]
    BY <2>1, <2>2
  <2>. QED
    BY <2>3, <2>4, <2>5
<1>5. k \in Todo[t]
  BY DEF Todo
<1>. QED
  BY <1>0, <1>1, <1>2, <1>4, <1>5
     DEF Contract!ReadOne, Contract!Keep, Reply, Got, Todo, GotAt, TodoAt, Reads


(* The keys a Retrieve has still to visit. *)
LEMMA VisitFacts ==
    ASSUME NEW t, NEW k, NEW l, k \in loc[t].todo, l.todo = Visited(t, k)
    PROVE  /\ AfterVisit(t, k) \in {"gUse", "gContains"}
           /\ TodoAt(AfterVisit(t, k), l) = loc[t].todo \ {k}
           /\ AfterVisit(t, k) = "gContains" => l.todo = loc[t].todo \ {k}
BY DEF Visited, AfterVisit, TodoAt

LEMMA RetrieveSimulates ==
    ASSUME NEW t \in Threads, AtomInv, Moves(t),
           RetrieveContains(t) \/ RetrieveIndex(t) \/ RetrieveUse(t)
    PROVE  Simulates
<1>. USE DEF Move, Goto, Frame, MoveFacts
<1>0. MoveFacts(t)
  BY MovesFacts
<1>1. /\ pc[t] \in {"gContains", "gIndex", "gUse"} /\ cache' = cache /\ Smudge
      /\ req[t].op = "Retrieve" /\ loc[t].result = "none"
      /\ loc[t].snap \in [Keys -> EntryOrNil] /\ loc[t].todo \subseteq Keys
      /\ pc[t] \in {"gContains", "gIndex"} => \A x \in loc[t].todo : loc[t].snap[x] = Nil
      /\ pc[t] = "gIndex" => /\ loc[t].cur \in loc[t].todo
                             /\ cache[loc[t].cur] = Nil => loc[t].cur \in dirty[t]
  <2>1. /\ pc[t] \in {"gContains", "gIndex", "gUse"} /\ cache' = cache /\ Smudge
    BY DEF RetrieveContains, RetrieveIndex, RetrieveUse, LocalStep, OnLru, shared
  <2>. QED
    BY <1>0, <2>1 DEF Here, OpAt, OutcomeAt, SeenAt, Local
(* A key has been visited. *)
<1>2. ASSUME NEW k \in loc[t].todo, pc[t] \in {"gContains", "gIndex"},
             loc'[t].todo = Visited(t, k), pc'[t] = AfterVisit(t, k),
             loc'[t].snap = [loc[t].snap EXCEPT ![k] = cache[k]],
             loc'[t].result = loc[t].result
      PROVE  Simulates
  <2>1. /\ pc'[t] \in {"gUse", "gContains"}
        /\ TodoAt(pc'[t], loc'[t]) = TodoAt(pc[t], loc[t]) \ {k}
        /\ pc'[t] = "gContains" => loc'[t].todo = loc[t].todo \ {k}
    <3>1. PICK l : l = loc'[t]
      OBVIOUS
    <3>2. loc[t].todo = TodoAt(pc[t], loc[t])
      BY <1>2 DEF TodoAt
    <3>. QED
      BY <1>2, <3>1, <3>2, VisitFacts
  <2>2. Contract!ReadOne(t)
    BY <1>1, <1>2, <2>1, ReadOneStep DEF TodoAt
  <2>3. pc'[t] = "gContains" => \A x \in loc'[t].todo : loc'[t].snap[x] = Nil
    BY <1>1, <1>2, <2>1
  <2>4. lock' # t
    BY <1>0, <2>1 DEF ControlAt, RemoveLabels
  <2>5. Lands(t)
    BY <1>1, <1>2, <2>1, <2>3, <2>4
       DEF Lands, OutcomeAt, OpAt, SeenAt, BeforeWrite, CasLabels, RemoveLabels
  <2>. QED
    BY <1>1, <2>2, <2>5, CallsStep DEF Moves, Lands, Simulates, Contract!Next
<1>3. CASE RetrieveContains(t)
  <2>1. PICK k \in loc[t].todo :
          \/ /\ cache[k] # Nil /\ loc' = [loc EXCEPT ![t].cur = k]
             /\ pc' = [pc EXCEPT ![t] = "gIndex"]
          \/ /\ cache[k] = Nil /\ loc' = [loc EXCEPT ![t].todo = Visited(t, k)]
             /\ pc' = [pc EXCEPT ![t] = AfterVisit(t, k)]
    BY <1>3 DEF RetrieveContains
  <2>2. pc[t] = "gContains" /\ lock' = lock
    BY <1>3 DEF RetrieveContains, LocalStep, shared
  <2>3. CASE cache[k] # Nil
    <3>1. /\ pc'[t] = "gIndex" /\ loc'[t].cur = k /\ loc'[t].todo = loc[t].todo
          /\ loc'[t].snap = loc[t].snap /\ loc'[t].result = loc[t].result
      BY <1>0, <2>1, <2>3 DEF Local
    <3>2. Lands(t) /\ SameView(t)
      BY <1>0, <1>1, <2>2, <2>3, <3>1
         DEF Lands, Here, OutcomeAt, OpAt, SeenAt, BeforeWrite, SameView, GotAt, TodoAt, ControlAt,
             CasLabels, RemoveLabels
    <3>. QED
      BY <1>1, <3>1, <3>2, SilentStep
  <2>4. CASE cache[k] = Nil
    <3>1. /\ pc'[t] = AfterVisit(t, k) /\ loc'[t].todo = Visited(t, k)
          /\ loc'[t].snap = loc[t].snap /\ loc'[t].result = loc[t].result
      BY <1>0, <2>1, <2>4 DEF Local
    <3>2. loc'[t].snap = [loc[t].snap EXCEPT ![k] = cache[k]]
      BY <1>1, <2>2, <2>4, <3>1
    <3>. QED
      BY <1>2, <2>2, <3>1, <3>2
  <2>. QED
    BY <2>3, <2>4
<1>4. CASE RetrieveIndex(t)
  <2>. DEFINE k == loc[t].cur
  <2>1. pc[t] = "gIndex" /\ lock' = lock /\ k \in loc[t].todo /\ k \in Keys
    BY <1>1, <1>4 DEF RetrieveIndex, LocalStep, shared
  <2>2. CASE cache[k] # Nil
    <3>1. /\ loc' = [loc EXCEPT ![t].snap[k] = cache[k], ![t].todo = Visited(t, k)]
          /\ pc' = [pc EXCEPT ![t] = AfterVisit(t, k)]
      BY <1>4, <2>2 DEF RetrieveIndex
    <3>2. /\ pc'[t] = AfterVisit(t, k) /\ loc'[t].todo = Visited(t, k)
          /\ loc'[t].result = loc[t].result
          /\ loc'[t].snap = [loc[t].snap EXCEPT ![k] = cache[k]]
      BY <1>0, <3>1 DEF Local
    <3>. QED
      BY <1>2, <2>1, <3>2
  <2>3. CASE cache[k] = Nil
    <3>1. /\ pc'[t] = "done" /\ loc' = [loc EXCEPT ![t].result = "throws"]
      BY <1>0, <1>4, <2>3 DEF RetrieveIndex, Finish
    <3>2. loc'[t].result = "throws" /\ loc'[t].snap = loc[t].snap
      BY <1>0, <3>1 DEF Local
    <3>3. lock' # t
      BY <1>0, <3>1 DEF ControlAt, RemoveLabels
    <3>4. Lands(t)
      BY <3>1, <3>2, <3>3
         DEF Lands, OutcomeAt, OpAt, SeenAt, BeforeWrite, CasLabels, RemoveLabels
    <3>5. Contract!Pending(t, {"Retrieve"}) /\ Contract!Keep
      BY <1>0, <1>1, PendingFacts, KeepStep
    <3>6. k \in Todo[t] \cap dirty[t] /\ Values(cache)[k] = Nil
      BY <1>1, <2>1, <2>3 DEF Todo, TodoAt, Values, Value
    <3>7. /\ Reply' = [Reply EXCEPT ![t] = "throws"] /\ Todo' = [Todo EXCEPT ![t] = {}]
          /\ Got' = Got
      <4>1. GotAt(req[t], loc'[t]) = GotAt(req[t], loc[t]) /\ TodoAt(pc'[t], loc'[t]) = {}
        BY <3>1, <3>2 DEF GotAt, TodoAt
      <4>. QED
        BY <1>0, <3>2, <4>1, ImageStep DEF Reply, Got, Todo
    <3>8. Contract!Vanished(t)
      BY <1>0, <3>5, <3>6, <3>7
         DEF Contract!Vanished, Contract!Keep, Reply, Got, Todo, GotAt, TodoAt, Reads
    <3>. QED
      BY <1>1, <3>4, <3>8, CallsStep DEF Moves, Lands, Simulates, Contract!Next
  <2>. QED
    BY <2>2, <2>3
<1>5. CASE RetrieveUse(t)
  <2>1. PICK k \in loc[t].todo :
          IF loc[t].todo = {k}
          THEN loc' = [loc EXCEPT ![t].result = "ok"] /\ pc' = [pc EXCEPT ![t] = "done"]
          ELSE loc' = [loc EXCEPT ![t].todo = @ \ {k}] /\ pc' = pc
    BY <1>5 DEF RetrieveUse, Finish
  <2>2. pc[t] = "gUse" /\ lock' = lock
    BY <1>5 DEF RetrieveUse, OnLru
  <2>3. CASE loc[t].todo = {k}
    <3>1. /\ loc'[t].result = "ok" /\ loc'[t].snap = loc[t].snap /\ pc'[t] = "done"
      BY <1>0, <2>1, <2>3 DEF Local
    <3>2. SameView(t)
      BY <2>2, <3>1 DEF SameView, GotAt, TodoAt
    <3>3. Contract!Pending(t, {"Retrieve", "CurrentState", "RemoveExpired"}) /\ Todo[t] = {}
      BY <1>0, <1>1, <2>2, PendingFacts DEF Todo, TodoAt
    <3>4. ASSUME Contract!Keep, Contract!Answer(t, "ok") PROVE Contract!Complete(t)
      BY <3>3, <3>4 DEF Contract!Complete, Todo, TodoAt
    <3>. QED
      BY <1>1, <3>1, <3>2, <3>4, AnswerSimulates DEF Contract!Next
  <2>4. CASE loc[t].todo # {k}
    <3>1. /\ pc'[t] = "gUse" /\ loc'[t].snap = loc[t].snap /\ loc'[t].result = loc[t].result
      BY <1>0, <2>1, <2>2, <2>4 DEF Local
    <3>2. Lands(t) /\ SameView(t)
      BY <1>0, <1>1, <2>2, <3>1
         DEF Lands, Here, OutcomeAt, OpAt, SeenAt, BeforeWrite, SameView, GotAt, TodoAt, ControlAt,
             CasLabels, RemoveLabels
    <3>. QED
      BY <1>1, <3>1, <3>2, SilentStep
  <2>. QED
    BY <2>3, <2>4
<1>. QED
  BY <1>3, <1>4, <1>5


LEMMA ReadSimulates ==
    ASSUME NEW t \in Threads, AtomInv, Moves(t),
           \/ GetUse(t) \/ GetIndex(t) \/ ScanExpired(t) \/ SweepNext(t)
           \/ SnapshotContents(t) \/ SnapshotSequence(t)
    PROVE  Simulates
<1>. USE DEF Move, Goto, Frame, MoveFacts
<1>0. MoveFacts(t)
  BY MovesFacts
<1>1. CASE GetUse(t)
  <2>1. /\ pc[t] = "getUse" /\ pc'[t] = "getIndex" /\ cache' = cache /\ Smudge
        /\ lock' = lock /\ loc' = loc
    BY <1>0, <1>1 DEF GetUse, OnLru
  <2>2. Lands(t) /\ SameView(t)
    BY <1>0, <2>1
       DEF Lands, Here, OutcomeAt, OpAt, SeenAt, BeforeWrite, SameView, GotAt, TodoAt, ControlAt,
           CasLabels, RemoveLabels
  <2>. QED
    BY <2>1, <2>2, SilentStep
<1>2. CASE GetIndex(t)
  <2>1. /\ pc[t] = "getIndex" /\ pc'[t] = "done" /\ cache' = cache /\ Smudge
        /\ lock' = lock
    BY <1>0, <1>2 DEF GetIndex, LocalStep, shared
  <2>2. /\ req[t].op = "Get" /\ loc[t].result = "none" /\ Contract!Pending(t, {"Get"})
        /\ loc[t].snap \in [Keys -> EntryOrNil]
    BY <1>0, <2>1, PendingFacts DEF Here, OpAt, OutcomeAt, Local
  <2>3. CASE Current(t) = Nil
    <3>1. loc' = [loc EXCEPT ![t].result = "throws"]
      BY <1>2, <2>3 DEF GetIndex
    <3>2. loc'[t].result = "throws" /\ loc'[t].snap = loc[t].snap
      BY <1>0, <3>1 DEF Local
    <3>3. SameView(t)
      BY <2>1, <3>2 DEF SameView, GotAt, TodoAt
    <3>4. Values(cache)[req[t].key] = Nil
      BY <1>0, <2>3 DEF Values, Value, Current
    <3>5. ASSUME Contract!Keep, Contract!Answer(t, "throws") PROVE Contract!Vanished(t)
      <4>1. Todo' = Todo /\ Todo' = [Todo EXCEPT ![t] = {}]
        BY <1>0, <2>1, <3>3, SameImage DEF Todo, TodoAt
      <4>. QED
        BY <2>2, <3>4, <3>5, <4>1
           DEF Contract!Vanished, Contract!Keep, Contract!Answer, Todo, TodoAt
    <3>. QED
      BY <2>1, <3>2, <3>3, <3>5, AnswerSimulates DEF Contract!Next
  <2>4. CASE Current(t) # Nil
    <3>0. PICK k \in Keys : k = req[t].key
      BY <1>0
    <3>1. loc' = [loc EXCEPT ![t].result = "ok", ![t].snap[k] = cache[k]]
      BY <1>2, <2>4, <3>0 DEF GetIndex, Current
    <3>2. loc'[t].result = "ok" /\ loc'[t].snap = [loc[t].snap EXCEPT ![k] = cache[k]]
      BY <1>0, <3>1 DEF Local
    <3>3. Lands(t)
      <4>1. lock' # t
        BY <1>0, <2>1 DEF ControlAt, RemoveLabels
      <4>. QED
        BY <2>1, <3>2, <4>1 DEF Lands, OutcomeAt, OpAt, SeenAt, BeforeWrite, CasLabels, RemoveLabels
    <3>4. Values(cache)[k] # Nil
      BY <1>0, <2>4, <3>0, ValueFacts DEF Values, Current
    <3>5. Values(loc'[t].snap) = [Values(loc[t].snap) EXCEPT ![k] = Values(cache)[k]]
      BY <2>2, <3>2 DEF Values
    <3>6. /\ GotAt(req[t], loc[t]) = Values(loc[t].snap)
          /\ GotAt(req[t], loc'[t]) = Values(loc'[t].snap)
          /\ TodoAt(pc'[t], loc'[t]) = TodoAt(pc[t], loc[t])
      BY <1>0, <2>1, <2>2, NilAssumption DEF GotAt, TodoAt
    <3>7. /\ Reply' = [Reply EXCEPT ![t] = "ok"] /\ Todo' = Todo
          /\ Got' = [Got EXCEPT ![t] = [Got[t] EXCEPT ![k] = Values(cache)[k]]]
      <4>1. Got[t] = GotAt(req[t], loc[t])
        BY DEF Got
      <4>2. /\ Reply' = [Reply EXCEPT ![t] = loc'[t].result]
            /\ Got' = [Got EXCEPT ![t] = GotAt(req[t], loc'[t])]
            /\ Todo' = [Todo EXCEPT ![t] = TodoAt(pc'[t], loc'[t])]
        BY <1>0, ImageStep
      <4>3. Todo' = Todo
        BY <3>6, <4>2 DEF Todo
      <4>4. GotAt(req[t], loc'[t]) = [Got[t] EXCEPT ![k] = Values(cache)[k]]
        BY <3>5, <3>6, <4>1
      <4>. QED
        BY <3>2, <4>2, <4>3, <4>4
    <3>8. Contract!Keep
      BY <1>0, <2>1, KeepStep
    <3>9. Contract!Get(t)
      BY <1>0, <2>2, <3>0, <3>4, <3>7, <3>8
         DEF Contract!Get, Contract!Keep, Reply, Got, Todo, GotAt, TodoAt, Reads
    <3>. QED
      BY <2>1, <3>3, <3>9, CallsStep DEF Moves, Lands, Simulates, Contract!Next
  <2>. QED
    BY <2>3, <2>4
<1>3. CASE ScanExpired(t)
  <2>1. PICK S : S = {k \in Keys : cache[k] # Nil /\ IsExpired(cache[k])}
    OBVIOUS
  <2>2. /\ pc[t] = "scan" /\ pc'[t] = "sweep" /\ cache' = cache /\ Smudge /\ lock' = lock
        /\ loc' = [loc EXCEPT ![t].todo = S, ![t].snap = cache]
    BY <1>0, <1>3, <2>1 DEF ScanExpired, LocalStep, shared
  <2>3. loc'[t].result = loc[t].result
    BY <1>0, <2>2 DEF Local
  <2>4. Lands(t) /\ SameView(t)
    BY <1>0, <2>2, <2>3
       DEF Lands, Here, OutcomeAt, OpAt, SeenAt, BeforeWrite, SameView, GotAt, TodoAt, ControlAt,
           CasLabels, RemoveLabels
  <2>. QED
    BY <2>2, <2>3, <2>4, SilentStep
<1>4. CASE SweepNext(t)
  <2>1. /\ pc[t] = "sweep" /\ cache' = cache /\ Smudge /\ lock' = lock
        /\ \/ pc'[t] = "done" /\ loc' = [loc EXCEPT ![t].result = "ok"]
           \/ \E k \in loc[t].todo : /\ pc'[t] = "rmInc"
                                     /\ loc' = [loc EXCEPT ![t].cur = k, ![t].todo = @ \ {k}]
    BY <1>0, <1>4 DEF SweepNext, LocalStep, shared, Finish
  <2>2. req[t].op = "RemoveExpired" /\ loc[t].result = "none"
    BY <1>0, <2>1 DEF Here, OpAt, OutcomeAt
  <2>3. CASE pc'[t] = "rmInc"
    <3>1. PICK k \in loc[t].todo : loc' = [loc EXCEPT ![t].cur = k, ![t].todo = @ \ {k}]
      BY <2>1, <2>3
    <3>2. loc'[t].result = loc[t].result /\ loc'[t].snap = loc[t].snap
      BY <1>0, <3>1 DEF Local
    <3>3. Lands(t) /\ SameView(t)
      BY <1>0, <2>1, <2>2, <2>3, <3>2
         DEF Lands, Here, OutcomeAt, OpAt, SeenAt, BeforeWrite, SameView, GotAt, TodoAt, ControlAt,
             CasLabels, RemoveLabels
    <3>. QED
      BY <2>1, <3>2, <3>3, SilentStep
  <2>4. CASE pc'[t] = "done"
    <3>1. loc' = [loc EXCEPT ![t].result = "ok"]
      BY <2>1, <2>4
    <3>2. loc'[t].result = "ok" /\ loc'[t].snap = loc[t].snap
      BY <1>0, <3>1 DEF Local
    <3>3. SameView(t)
      BY <2>1, <2>4, <3>2 DEF SameView, GotAt, TodoAt
    <3>4. Contract!Pending(t, {"Retrieve", "CurrentState", "RemoveExpired"}) /\ Todo[t] = {}
      BY <1>0, <2>1, <2>2, PendingFacts DEF Todo, TodoAt
    <3>5. ASSUME Contract!Keep, Contract!Answer(t, "ok") PROVE Contract!Complete(t)
      BY <3>4, <3>5 DEF Contract!Complete, Todo, TodoAt
    <3>. QED
      BY <2>1, <2>4, <3>2, <3>3, <3>5, AnswerSimulates DEF Contract!Next
  <2>. QED
    BY <2>1, <2>3, <2>4
<1>5. CASE SnapshotContents(t)
  <2>1. /\ pc[t] = "snapshot" /\ pc'[t] = "sequence" /\ cache' = cache /\ Smudge /\ lock' = lock
        /\ loc' = [loc EXCEPT ![t].snap = cache]
    BY <1>0, <1>5 DEF SnapshotContents, LocalStep, shared
  <2>2. loc'[t].result = loc[t].result /\ loc'[t].snap = cache
    BY <1>0, <2>1 DEF Local
  <2>3. req[t].op = "CurrentState" /\ loc[t].result = "none"
        /\ Contract!Pending(t, {"CurrentState"})
    BY <1>0, <2>1, PendingFacts DEF Here, OpAt, OutcomeAt
  <2>4. Lands(t)
    BY <1>0, <2>1, <2>2, <2>3
       DEF Lands, Here, OutcomeAt, OpAt, SeenAt, BeforeWrite, ControlAt, CasLabels, RemoveLabels
  <2>5. /\ GotAt(req[t], loc'[t]) = Values(cache) /\ TodoAt(pc'[t], loc'[t]) = {}
        /\ TodoAt(pc[t], loc[t]) = Keys
    BY <1>0, <2>1, <2>2, <2>3, NilAssumption DEF GotAt, TodoAt
  <2>6. /\ Reply' = Reply /\ Todo' = [Todo EXCEPT ![t] = {}]
        /\ Got' = [Got EXCEPT ![t] = Values(cache)]
    BY <1>0, <2>2, <2>5, ImageStep DEF Reply
  <2>7. Contract!Keep /\ Todo[t] = Keys
    BY <1>0, <2>1, <2>5, KeepStep DEF Todo
  <2>8. Contract!ReadAll(t)
    BY <1>0, <2>3, <2>6, <2>7
       DEF Contract!ReadAll, Contract!Keep, Reply, Got, Todo, GotAt, TodoAt, Reads
  <2>. QED
    BY <2>1, <2>4, <2>8, CallsStep DEF Moves, Lands, Simulates, Contract!Next
<1>6. CASE SnapshotSequence(t)
  <2>1. /\ pc[t] = "sequence" /\ pc'[t] = "done" /\ cache' = cache /\ Smudge
        /\ loc' = [loc EXCEPT ![t].seq = seqId, ![t].result = "ok"]
    BY <1>0, <1>6 DEF SnapshotSequence, LocalStep, shared
  <2>2. loc'[t].result = "ok" /\ loc'[t].snap = loc[t].snap
    BY <1>0, <2>1 DEF Local
  <2>3. SameView(t)
    BY <2>1, <2>2 DEF SameView, GotAt, TodoAt
  <2>4. Contract!Pending(t, {"Retrieve", "CurrentState", "RemoveExpired"}) /\ Todo[t] = {}
    BY <1>0, <2>1, PendingFacts DEF Here, OpAt, OutcomeAt, Todo, TodoAt
  <2>5. ASSUME Contract!Keep, Contract!Answer(t, "ok") PROVE Contract!Complete(t)
    BY <2>4, <2>5 DEF Contract!Complete, Todo, TodoAt
  <2>. QED
    BY <2>1, <2>2, <2>3, <2>5, AnswerSimulates DEF Contract!Next
<1>. QED
  BY <1>1, <1>2, <1>3, <1>4, <1>5, <1>6


(* The lock is free, or the thread that moves has it. *)
LEMMA LockStep ==
    ASSUME NEW t \in Threads, Step(t), ~ Return(t)
    PROVE  lock' = lock \/ (lock = Nil /\ lock' = t) \/ (lock = t /\ lock' = Nil)
<1>1. CASE RemoveTake(t) \/ RemoveNotifyQueue(t)
  BY <1>1 DEF RemoveTake, RemoveNotifyQueue, AfterRemove
<1>2. CASE EvictEntry(t)
  BY <1>2 DEF EvictEntry
<1>3. CASE RemoveNextId(t) \/ NextEventId(t)
  BY <1>3 DEF RemoveNextId, NextEventId, TakeEventId
<1>4. CASE RemoveUsed(t) \/ RemoveNotifyLru(t) \/ ReplaceSubtract(t) \/ AddUsed(t)
           \/ NotifyLru(t) \/ NotifyQueue(t) \/ RetrieveUse(t) \/ GetUse(t)
  BY <1>4 DEF RemoveUsed, RemoveNotifyLru, ReplaceSubtract, AddUsed, NotifyLru, NotifyQueue,
              RetrieveUse, GetUse, OnUsed, OnLru
<1>5. CASE StoreWrite(t) \/ TryAdd(t) \/ LoopSwap(t) \/ TouchSwap(t) \/ CasSwap(t) \/ ClearCache(t)
  BY <1>5 DEF StoreWrite, TryAdd, LoopSwap, TouchSwap, CasSwap, ClearCache, OnCache
<1>6. CASE MakeSpace(t) \/ StoreContains(t) \/ ReplaceContains(t) \/ ReadSize(t) \/ LoopRead(t)
           \/ TouchRead(t) \/ CasRead(t)
  BY <1>6 DEF MakeSpace, StoreContains, ReplaceContains, ReadSize, LoopRead, TouchRead, CasRead,
              LocalStep, shared
<1>7. CASE RetrieveContains(t) \/ RetrieveIndex(t) \/ GetIndex(t) \/ ScanExpired(t) \/ SweepNext(t)
           \/ SnapshotContents(t) \/ SnapshotSequence(t)
  BY <1>7 DEF RetrieveContains, RetrieveIndex, GetIndex, ScanExpired, SweepNext,
              SnapshotContents, SnapshotSequence, LocalStep, shared
<1>. QED
  BY <1>1, <1>2, <1>3, <1>4, <1>5, <1>6, <1>7 DEF Step

-----------------------------------------------------------------------------
(* A call starts or returns. *)
LEMMA StartSimulates ==
    ASSUME NEW t \in Threads, NEW r \in Requests[t], AtomInv, TypeInv', Call(t, r)
    PROVE  Simulates
<1>0. /\ loc \in [Threads -> Local] /\ pc \in [Threads -> Labels] /\ pc[t] = "idle"
      /\ req \in [Threads -> Request \cup {Nil}] /\ dirty \in [Threads -> SUBSET Keys]
      /\ req[t] = Nil /\ loc[t].result = "none" /\ dirty[t] = {} /\ r \in Request /\ r # Nil
      /\ r.op \in Ops
  <2>1. CallOK(t) /\ pc[t] = "idle"
    BY CallFacts DEF Call, Move
  <2>2. req[t] = Nil /\ loc[t].result = "none" /\ dirty[t] = {}
    BY <2>1 DEF CallOK, CallAt, OutcomeAt
  <2>. QED
    BY <2>1, <2>2, CallFacts, RequestsAssumption, NilAssumption DEF Request
<1>1. PICK l : l = FirstLabel(r.op)
  OBVIOUS
<1>2. PICK x : x = [FreshLocal EXCEPT !.cur = r.key, !.todo = r.keys, !.n = r.data.len]
  OBVIOUS
<1>3. /\ pc' = [pc EXCEPT ![t] = l] /\ loc' = [loc EXCEPT ![t] = x]
      /\ req' = [req EXCEPT ![t] = r] /\ cache' = cache /\ lock' = lock /\ dirty' = dirty
  BY <1>1, <1>2 DEF Call, Move, Goto, shared
<1>4. /\ x.result = "none" /\ x.old = Nil /\ x.snap = NoKeys /\ x.todo = r.keys /\ x.eid = 0
      /\ x.cur = r.key
  BY <1>2 DEF FreshLocal
<1>5. /\ l \in {"space", "rContains", "cRead", "loopRead", "tRead", "rmInc", "inc", "gContains",
                "getUse", "scan", "snapshot"}
      /\ l = "loopRead" => r.op = "Mutate"
      /\ l = "rmInc" <=> r.op = "Remove"
      /\ l = "inc" => r.op = "Clear"
      /\ l = "space" => r.op \in {"Store", "Add", "Append"}
      /\ l = "gContains" <=> r.op = "Retrieve"
      /\ l = "getUse" => r.op = "Get"
      /\ l = "scan" => r.op = "RemoveExpired"
      /\ l = "snapshot" <=> r.op = "CurrentState"
  BY <1>0, <1>1 DEF FirstLabel, Ops
<1>6. CallOK(t)'
  <2>1. pc'[t] = l /\ loc'[t] = x /\ req'[t] = r /\ dirty'[t] = {}
    BY <1>0, <1>3
  <2>2. OpAt(l, r, x, lock' = t)
    BY <1>4, <1>5 DEF OpAt, SpaceOps, RemoveLabels
  <2>3. SeenAt(l, r, x, dirty'[t], cache') /\ FreshAt(l, r, x, cache')
    <3>1. r.keys \subseteq Keys /\ NoKeys = [k \in Keys |-> Nil]
      BY <1>0 DEF Request, NoKeys
    <3>2. SeenAt(l, r, x, dirty'[t], cache')
      BY <1>4, <1>5, <3>1 DEF SeenAt, CasLabels, RemoveLabels
    <3>3. FreshAt(l, r, x, cache')
      BY <1>5 DEF FreshAt, BeforeWrite
    <3>. QED
      BY <3>2, <3>3
  <2>4. OutcomeAt(l, r, x) /\ l # "idle"
    BY <1>4, <1>5 DEF OutcomeAt
  <2>5. CallAt(l, r, x, lock' = t, dirty'[t], cache')
    BY <1>0, <2>2, <2>3, <2>4 DEF CallAt
  <2>. QED
    BY <2>1, <2>5 DEF CallOK
<1>7. ASSUME NEW u \in Threads, u # t PROVE CallOK(u)'
  <2>1. /\ pc'[u] = pc[u] /\ loc'[u] = loc[u] /\ req'[u] = req[u] /\ dirty'[u] = dirty[u]
        /\ CallOK(u)
    BY <1>0, <1>3, <1>7, CallFacts
  <2>. QED
    BY <1>3, <2>1 DEF CallOK
<1>8. Contract!Start(t, r)
  <2>1. Reply' = Reply
    BY <1>0, <1>3, <1>4 DEF Reply
  <2>2. Got' = Got
    <3>1. Values(NoKeys) = NoKeys
      BY DEF Values, Value, NoKeys
    <3>2. GotAt(req'[t], loc'[t]) = NoKeys /\ GotAt(req[t], loc[t]) = NoKeys
      BY <1>0, <1>3, <1>4, <3>1 DEF GotAt
    <3>3. \A u \in Threads : GotAt(req'[u], loc'[u]) = GotAt(req[u], loc[u])
      BY <1>0, <1>3, <3>2
    <3>. QED
      BY <3>3 DEF Got
  <2>3. Todo' = [Todo EXCEPT ![t] = CASE r.op = "Retrieve" -> r.keys
                                      [] r.op = "CurrentState" -> Keys
                                      [] OTHER -> {}]
    <3>1. TodoAt(pc'[t], loc'[t]) = CASE r.op = "Retrieve" -> r.keys
                                      [] r.op = "CurrentState" -> Keys
                                      [] OTHER -> {}
      BY <1>0, <1>3, <1>4, <1>5 DEF TodoAt
    <3>2. \A u \in Threads : u # t => TodoAt(pc'[u], loc'[u]) = TodoAt(pc[u], loc[u])
      BY <1>0, <1>3
    <3>. QED
      BY <3>1, <3>2 DEF Todo
  <2>4. Values(cache)' = Values(cache)
    BY <1>3 DEF Values
  <2>. QED
    BY <1>0, <1>3, <2>1, <2>2, <2>3, <2>4
       DEF Contract!Start, Reply, Got, Todo, GotAt, TodoAt, Reads
<1>. QED
  <2>1. dirty' \in [Threads -> SUBSET Keys]
    BY <1>0, <1>3
  <2>. QED
    BY <1>6, <1>7, <1>8, <2>1 DEF CallsOK, Simulates, Contract!Next

LEMMA ReturnSimulates ==
    ASSUME NEW t \in Threads, AtomInv, TypeInv', Return(t)
    PROVE  Simulates
<1>0. /\ loc \in [Threads -> Local] /\ pc \in [Threads -> Labels] /\ pc[t] = "done"
      /\ req \in [Threads -> Request \cup {Nil}] /\ dirty \in [Threads -> SUBSET Keys]
      /\ loc[t].result # "none"
  <2>1. Here(t) /\ pc[t] = "done"
    BY HereFacts DEF Return, Move
  <2>. QED
    BY <2>1, CallFacts DEF Here, OutcomeAt
<1>1. /\ pc' = [pc EXCEPT ![t] = "idle"] /\ loc' = [loc EXCEPT ![t] = FreshLocal]
      /\ req' = [req EXCEPT ![t] = Nil] /\ cache' = cache /\ lock' = lock
      /\ dirty' = [dirty EXCEPT ![t] = {}]
  BY DEF Return, Move, Goto, shared
<1>2. CallOK(t)'
  <2>1. pc'[t] = "idle" /\ loc'[t] = FreshLocal /\ req'[t] = Nil /\ dirty'[t] = {}
    BY <1>0, <1>1
  <2>. QED
    BY <2>1 DEF CallOK, CallAt, OutcomeAt, FreshLocal
<1>3. ASSUME NEW u \in Threads, u # t PROVE CallOK(u)'
  <2>1. /\ pc'[u] = pc[u] /\ loc'[u] = loc[u] /\ req'[u] = req[u] /\ dirty'[u] = dirty[u]
        /\ CallOK(u)
    BY <1>0, <1>1, <1>3, CallFacts
  <2>. QED
    BY <1>1, <2>1 DEF CallOK
<1>4. Contract!Finish(t)
  <2>1. Reply' = [Reply EXCEPT ![t] = "none"] /\ Reply[t] # "none"
    BY <1>0, <1>1 DEF Reply, FreshLocal
  <2>2. Got' = [Got EXCEPT ![t] = Contract!NoKeys]
    <3>1. GotAt(req'[t], loc'[t]) = Contract!NoKeys
      BY <1>0, <1>1 DEF GotAt, NoKeys, Contract!NoKeys
    <3>2. \A u \in Threads : u # t => GotAt(req'[u], loc'[u]) = GotAt(req[u], loc[u])
      BY <1>0, <1>1
    <3>. QED
      BY <3>1, <3>2 DEF Got
  <2>3. Todo' = [Todo EXCEPT ![t] = {}]
    <3>1. TodoAt(pc'[t], loc'[t]) = {}
      BY <1>0, <1>1 DEF TodoAt
    <3>2. \A u \in Threads : u # t => TodoAt(pc'[u], loc'[u]) = TodoAt(pc[u], loc[u])
      BY <1>0, <1>1
    <3>. QED
      BY <3>1, <3>2 DEF Todo
  <2>4. Values(cache)' = Values(cache)
    BY <1>1 DEF Values
  <2>. QED
    BY <1>1, <2>1, <2>2, <2>3, <2>4
       DEF Contract!Finish, Reply, Got, Todo, GotAt, TodoAt, Reads
<1>. QED
  <2>1. dirty' \in [Threads -> SUBSET Keys]
    BY <1>0, <1>1
  <2>. QED
    BY <1>2, <1>3, <1>4, <2>1 DEF CallsOK, Simulates, Contract!Next

-----------------------------------------------------------------------------
(* Every step preserves the invariant and is one the contract allows.       *)
LEMMA StepSimulates ==
    ASSUME NEW t \in Threads, AtomInv, MaxEventId < IntHalf, TypeInv', Step(t)
    PROVE  Simulates
<1>1. CASE Return(t)
  BY <1>1, ReturnSimulates
<1>2. CASE ~ Return(t)
  <2>1. IdEffect(t)
    BY <1>2, RemoveEffect, TakeEffect, QuietSteps, ReadEffect, WriteEffect DEF Step, AtomInv
  <2>2. \A u \in Threads : u # t => (lock' = u <=> lock = u)
    <3>1. lock' = lock \/ (lock = Nil /\ lock' = t) \/ (lock = t /\ lock' = Nil)
      BY <1>2, LockStep
    <3>. QED
      BY <3>1, NilAssumption
  <2>3. Moves(t)
    BY <2>1, <2>2 DEF Moves
  <2>. QED
    BY <1>2, <2>3, SpaceSimulates, RemoveSimulates, StoreSimulates, LoopSimulates, TouchSimulates,
       CasSimulates, EndSimulates, RetrieveSimulates, ReadSimulates DEF Step
<1>. QED
  BY <1>1, <1>2

LEMMA AtomInvNext ==
    ASSUME MaxEventId < IntHalf, AtomInv, [Next]_vars
    PROVE  AtomInv' /\ (Contract!Next \/ UNCHANGED Contract!vars)
<1>1. IdInv' /\ TypeInv'
  BY IdInvNext DEF AtomInv, IdInv
<1>2. ASSUME NEW t \in Threads, Step(t) PROVE Simulates
  BY <1>1, <1>2, StepSimulates
<1>3. ASSUME NEW t \in Threads, NEW r \in Requests[t], Call(t, r) PROVE Simulates
  BY <1>1, <1>3, StartSimulates
<1>4. CASE Tick \/ Stopped \/ UNCHANGED vars
  <2>1. UNCHANGED <<cache, lock, pc, req, loc, dirty>>
    BY <1>4 DEF Tick, Stopped, vars, shared
  <2>2. CallsOK'
    BY <2>1 DEF AtomInv, CallsOK, CallOK
  <2>3. UNCHANGED Contract!vars
    BY <2>1 DEF Contract!vars, Values, Reads
  <2>. QED
    BY <2>2, <2>3, <1>1 DEF AtomInv, CallsOK
<1>5. CASE Simulates
  BY <1>1, <1>5 DEF Simulates, CallsOK, AtomInv
<1>. QED
  BY <1>2, <1>3, <1>4, <1>5 DEF Next

LEMMA AtomInvInit == Init => AtomInv /\ Contract!Init
<1>. SUFFICES ASSUME Init PROVE AtomInv /\ Contract!Init
  OBVIOUS
<1>1. IdInv
  BY IdInvInit
<1>2. ASSUME NEW t \in Threads PROVE CallOK(t)
  BY <1>2 DEF Init, CallOK, CallAt, OutcomeAt, FreshLocal
<1>3. dirty \in [Threads -> SUBSET Keys]
  BY DEF Init
<1>4. Contract!Init
  <2>1. Values(cache) = Contract!NoKeys
    BY DEF Init, Values, Value, NoKeys, Contract!NoKeys
  <2>2. Reply = [t \in Threads |-> "none"] /\ Got = [t \in Threads |-> Contract!NoKeys]
        /\ Todo = [t \in Threads |-> {}]
    BY DEF Init, Reply, Got, Todo, GotAt, TodoAt, FreshLocal, NoKeys, Contract!NoKeys
  <2>. QED
    BY <2>1, <2>2 DEF Init, Contract!Init, Reply, Got, Todo, GotAt, TodoAt, Reads
<1>. QED
  BY <1>1, <1>2, <1>3, <1>4 DEF AtomInv

(* MemCache.cs implements AtomicCache: for any number of threads, whatever  *)
(* they ask for and however the atomic steps of their calls interleave,     *)
(* every call takes effect at one instant, with no other excuse than the    *)
(* contract gives -- as long as fewer than 2^31 event ids are taken.        *)
THEOREM CallsAreAtomic ==
    ASSUME MaxEventId < IntHalf
    PROVE  Spec => Atomicity
<1>1. Init => AtomInv /\ Contract!Init
  BY AtomInvInit
<1>2. AtomInv /\ [Next]_vars => AtomInv' /\ [Contract!Next]_(Contract!vars)
  BY AtomInvNext
<1>. QED
  BY <1>1, <1>2, PTL DEF Spec, Atomicity, Contract!Spec
=============================================================================
