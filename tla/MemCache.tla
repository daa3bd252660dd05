------------------------------ MODULE MemCache ------------------------------
(***************************************************************************)
(* The in-memory cache of Nemcache.Storage (MemCache.cs) with its LRU      *)
(* eviction strategy, called by several threads at once.  The cache has no *)
(* lock of its own: a method is a sequence of operations that are atomic   *)
(* one by one -- a call on the ConcurrentDictionary, an Interlocked call,  *)
(* a critical section on the LRU list -- and each of them is one action    *)
(* here.  The thread's program counter pc[t] names the next one.           *)
(*                                                                         *)
(* A byte array is abstracted to what the code looks at: its length, the   *)
(* number it parses as, and its identity.  CacheEntry is a struct, so the  *)
(* dictionary's TryUpdate compares entries field by field and arrays by    *)
(* reference; every write takes a fresh event id except Mutate, so the     *)
(* number of Mutates since the last write (gen) identifies the array.      *)
(***************************************************************************)
EXTENDS CacheData, SequencesExt

CONSTANTS
    Threads,      \* the threads that call the cache, the expiry timer among them
    Capacity,     \* the capacity in bytes
    IntHalf,      \* 2^31: _used and _currentSequenceId are 32-bit ints
    Requests,     \* Requests[t]: the calls thread t makes
    MaxRequests,  \* bound: calls made altogether
    MaxEventId,   \* bound: event ids taken
    MaxTime       \* bound: how far the clock advances

(* A CacheEntry.  expiry is a clock reading; cas is CasUnique. *)
Entry == [data : Data, expiry : Nat, cas : Nat, eid : Int, gen : Nat]

EntryOrNil == Entry \cup {Nil}

Notification ==
         [kind : {"store"}, eid : Int, key : Keys, data : Data, expiry : Nat]
    \cup [kind : {"touch"}, eid : Int, key : Keys, expiry : Nat]
    \cup [kind : {"remove"}, eid : Int, key : Keys]
    \cup [kind : {"clear"}, eid : Int]

Labels == {"idle", "done", "space", "evict", "rmInc", "rmTake", "rmUsed", "rmLru",
           "rmQueue", "inc", "contains", "size", "write", "rContains", "rSize",
           "rSubtract", "tryAdd", "loopRead", "loopSwap", "tRead", "tSwap", "cRead",
           "cSwap", "used", "lru", "queue", "clear", "gContains", "gIndex", "gUse",
           "getUse", "getIndex", "scan", "sweep", "snapshot", "sequence"}

ASSUME NilAssumption == Nil \notin Threads \cup Keys \cup Entry \cup Request
ASSUME SizesAssumption ==
    /\ {Capacity, MaxRequests, MaxEventId, MaxTime} \subseteq Nat
    /\ IntHalf \in Nat \ {0}
ASSUME RequestsAssumption ==
    /\ Requests \in [Threads -> SUBSET Request]
    \* SetHandler refuses data larger than the cache before it calls the cache.
    /\ \A t \in Threads : \A r \in Requests[t] :
           r.op \in {"Store", "Add", "Replace", "Append"} => r.data.len <= Capacity

VARIABLES
    cache,     \* _cache: [Keys -> EntryOrNil]
    seqId,     \* _currentSequenceId
    used,      \* _used
    lruKeys,   \* _keys of the LRU strategy, least recently used first
    lock,      \* the thread in lock(_keys) of EvictEntry
    queue,     \* notifications handed to the persistence observer, in order
    now,       \* the scheduler's clock
    issued,    \* calls made so far
    pc,        \* pc[t]: the next operation of t
    req,       \* req[t]: the call t is making
    loc,       \* loc[t]: the local variables of the method t is in
    dirty      \* history; dirty[t]: keys whose entry changed since t's call began

shared == <<cache, seqId, used, lruKeys, lock, queue>>
vars == <<shared, now, issued, pc, req, loc, dirty>>

Local == [old : EntryOrNil,               \* the entry a TryGetValue returned
          eid : Int,                      \* eventId
          n : Int,                        \* space required, old size, change of _used
          cur : Keys \cup {Nil},          \* key of the Remove or Retrieve in progress
          vlen : Int,                     \* length of what Remove took out
          todo : SUBSET Keys,             \* keys still to be visited by a loop
          snap : [Keys -> EntryOrNil],    \* result of ToArray, or of Retrieve
          seq : Int,                      \* sequence id that goes with the snapshot
          result : Results]

NoKeys == [k \in Keys |-> Nil]

FreshLocal == [old |-> Nil, eid |-> 0, n |-> 0, cur |-> Nil, vlen |-> 0, todo |-> {},
               snap |-> NoKeys, seq |-> 0, result |-> "none"]

Init ==
    /\ cache = NoKeys /\ seqId = 0 /\ used = 0
    /\ lruKeys = <<>> /\ lock = Nil /\ queue = <<>>
    /\ now = 0 /\ issued = 0
    /\ pc = [t \in Threads |-> "idle"]
    /\ req = [t \in Threads |-> Nil]
    /\ loc = [t \in Threads |-> FreshLocal]
    /\ dirty = [t \in Threads |-> {}]

-----------------------------------------------------------------------------
(* Values *)

Abs(n) == IF n < 0 THEN -n ELSE n

(* Interlocked.Add and Increment wrap around; n is a sum of two ints. *)
Wrap(n) == CASE n >= IntHalf -> n - 2 * IntHalf
             [] n < -IntHalf -> n + 2 * IntHalf
             [] OTHER -> n

(* Mutant: the new entry is not counted. *)
HasAvailableSpace_NoLength(length) == used \in 0..Capacity

(* (ulong)_used + length <= Capacity: a negative sum wraps to a huge number. *)
HasAvailableSpace(length) == used + length \in 0..Capacity

IsExpired(e) == e.expiry < now

(* A CacheEntry built from the arguments of request r. *)
NewEntry(r, id) ==
    [data |-> r.data, expiry |-> r.expiry, cas |-> IF r.op = "Cas" THEN r.cas ELSE 0,
     eid |-> id, gen |-> 0]

(* What the TryUpdate of t puts in place of the entry it read. *)
Updated(t) ==
    LET r == req[t]  e == loc[t].old  id == loc[t].eid IN
    CASE r.op \in {"Replace", "Cas"} -> NewEntry(r, id)
      [] r.op = "Append" -> [e EXCEPT !.data = Grown(r, @), !.eid = id]
      [] r.op = "Mutate" -> [e EXCEPT !.data = Grown(r, @), !.gen = @ + 1]
      [] r.op = "Touch"  -> [e EXCEPT !.expiry = r.expiry, !.eid = id]

(* Mutant: a clear is announced as a remove of no key. *)
NotificationOf_Clear(r, id) ==
    IF r.op = "Clear" THEN [kind |-> "remove", eid |-> id, key |-> Nil]
    ELSE [kind |-> "touch", eid |-> id, key |-> r.key, expiry |-> r.expiry]

NotificationOf(r, id) ==
    CASE r.op = "Touch" -> [kind |-> "touch", eid |-> id, key |-> r.key, expiry |-> r.expiry]
      [] r.op = "Clear" -> [kind |-> "clear", eid |-> id]
      [] OTHER -> [kind |-> "store", eid |-> id, key |-> r.key, data |-> r.data,
                   expiry |-> r.expiry]

(* Use(k) of the LRU strategy. *)
MoveToBack(k) == Append(RemoveFirst(lruKeys, k), k)

-----------------------------------------------------------------------------
(* Control *)

Goto(t, label) == pc' = [pc EXCEPT ![t] = label]

Move(t, from, to) == pc[t] = from /\ Goto(t, to)

Finish(t, result) == Goto(t, "done") /\ loc' = [loc EXCEPT ![t].result = result]

(* The entry t is about, as it is now. *)
Current(t) == cache[req[t].key]

(* History. *)
Smudge ==
    dirty' = [t \in Threads |->
                 IF req[t] = Nil THEN {} ELSE dirty[t] \cup {k \in Keys : cache'[k] # cache[k]}]

Frame == UNCHANGED <<now, issued, req>> /\ Smudge
LocalStep == UNCHANGED shared /\ Frame
OnCache == UNCHANGED <<seqId, used, lruKeys, lock, queue>> /\ Frame
OnUsed == UNCHANGED <<cache, seqId, lruKeys, lock, queue>> /\ Frame
OnLru == UNCHANGED <<cache, seqId, used, lock, queue>> /\ Frame

(* Mutant: the increment is computed and not stored. *)
TakeEventId_Lost(t) ==
    /\ loc' = [loc EXCEPT ![t].eid = Wrap(seqId + 1)]
    /\ UNCHANGED shared /\ Frame

(* Interlocked.Increment of _currentSequenceId, into eventId. *)
TakeEventId(t) ==
    /\ seqId < MaxEventId
    /\ seqId' = Wrap(seqId + 1)
    /\ loc' = [loc EXCEPT ![t].eid = Wrap(seqId + 1)]
    /\ UNCHANGED <<cache, used, lruKeys, lock, queue>> /\ Frame

FirstLabel(op) ==
    CASE op \in {"Store", "Add", "Append"} -> "space"
      [] op = "Replace" -> "rContains"
      [] op = "Cas" -> "cRead"
      [] op = "Mutate" -> "loopRead"
      [] op = "Touch" -> "tRead"
      [] op = "Remove" -> "rmInc"
      [] op = "Clear" -> "inc"
      [] op = "Retrieve" -> "gContains"
      [] op = "Get" -> "getUse"
      [] op = "RemoveExpired" -> "scan"
      [] op = "CurrentState" -> "snapshot"

Call(t, r) ==
    /\ Move(t, "idle", FirstLabel(r.op))
    /\ issued < MaxRequests
    /\ issued' = issued + 1
    /\ req' = [req EXCEPT ![t] = r]
    /\ loc' = [loc EXCEPT ![t] = [FreshLocal EXCEPT !.cur = r.key, !.todo = r.keys,
                                                    !.n = r.data.len]]
    /\ UNCHANGED <<shared, now, dirty>>

Return(t) ==
    /\ Move(t, "done", "idle")
    /\ req' = [req EXCEPT ![t] = Nil]
    /\ loc' = [loc EXCEPT ![t] = FreshLocal]
    /\ dirty' = [dirty EXCEPT ![t] = {}]
    /\ UNCHANGED <<shared, now, issued>>

-----------------------------------------------------------------------------
(* Remove(cur): called by clients, by EvictEntry and by RemoveExpired.      *)

RemoveNextId(t) == Move(t, "rmInc", "rmTake") /\ TakeEventId(t)

(* Mutant: EvictEntry returns with the lock taken. *)
AfterRemove_KeepsLock(t, result) ==
    /\ UNCHANGED lock
    /\ IF lock = t
       THEN Goto(t, "space") /\ loc' = [loc EXCEPT ![t].cur = req[t].key]
       ELSE Finish(t, result)

(* Back to the caller; EvictEntry leaves its lock. *)
AfterRemove(t, result) ==
    /\ lock' = IF lock = t THEN Nil ELSE lock
    /\ IF lock = t \/ req[t].op = "RemoveExpired"
       THEN /\ Goto(t, IF lock = t THEN "space" ELSE "sweep")
            /\ loc' = [loc EXCEPT ![t].cur = req[t].key, ![t].eid = 0, ![t].vlen = 0]
       ELSE Finish(t, result)

RemoveTake(t) ==
    LET k == loc[t].cur IN
    /\ pc[t] = "rmTake"
    /\ \/ /\ cache[k] = Nil
          /\ AfterRemove(t, "no")
          /\ UNCHANGED cache
       \/ /\ cache[k] # Nil
          /\ cache' = [cache EXCEPT ![k] = Nil]
          /\ loc' = [loc EXCEPT ![t].vlen = cache[k].data.len,
                                ![t].result = IF req[t].op = "Remove" THEN "ok" ELSE @]
          /\ Goto(t, "rmUsed")
          /\ UNCHANGED lock
    /\ UNCHANGED <<seqId, used, lruKeys, queue>> /\ Frame

RemoveUsed(t) ==
    /\ Move(t, "rmUsed", "rmLru")
    /\ used' = Wrap(used - loc[t].vlen)
    /\ OnUsed /\ UNCHANGED loc

(* The evicting thread re-enters the lock it holds. *)
RemoveNotifyLru(t) ==
    /\ Move(t, "rmLru", "rmQueue")
    /\ lock \in {Nil, t}
    /\ lruKeys' = RemoveFirst(lruKeys, loc[t].cur)
    /\ OnLru /\ UNCHANGED loc

RemoveNotifyQueue(t) ==
    /\ pc[t] = "rmQueue"
    /\ queue' = Append(queue, [kind |-> "remove", eid |-> loc[t].eid, key |-> loc[t].cur])
    /\ AfterRemove(t, "ok")
    /\ UNCHANGED <<cache, seqId, used, lruKeys>> /\ Frame

-----------------------------------------------------------------------------
(* MakeSpaceForNewEntry(n) and EvictEntry *)

MakeSpace(t) ==
    /\ Move(t, "space", IF HasAvailableSpace(loc[t].n) THEN "inc" ELSE "evict")
    /\ LocalStep /\ UNCHANGED loc

(* With nothing to evict the lock is taken and left at once. *)
EvictEntry(t) ==
    /\ pc[t] = "evict"
    /\ lock = Nil
    /\ IF lruKeys = <<>>
       THEN Goto(t, "space") /\ UNCHANGED <<lock, loc>>
       ELSE /\ Goto(t, "rmInc")
            /\ lock' = t
            /\ loc' = [loc EXCEPT ![t].cur = Head(lruKeys)]
    /\ UNCHANGED <<cache, seqId, used, lruKeys, queue>> /\ Frame

-----------------------------------------------------------------------------
(* The writers.  Each takes its event id before it touches the dictionary.  *)

NextEventId(t) ==
    /\ Move(t, "inc", CASE req[t].op = "Add" -> "tryAdd"
                        [] req[t].op \in {"Replace", "Append"} -> "loopRead"
                        [] req[t].op = "Touch" -> "tSwap"
                        [] req[t].op = "Clear" -> "clear"
                        [] req[t].op = "Cas" /\ loc[t].old # Nil -> "cSwap"
                        [] OTHER -> "contains")
    /\ TakeEventId(t)

(* Store, and CasStore for a cas of a missing key. *)
StoreContains(t) ==
    /\ Move(t, "contains", IF Current(t) = Nil THEN "write" ELSE "size")
    /\ loc' = [loc EXCEPT ![t].n = 0]
    /\ LocalStep

ReplaceContains(t) ==
    /\ Move(t, "rContains", IF Current(t) = Nil THEN "space" ELSE "rSize")
    /\ LocalStep /\ UNCHANGED loc

(* _cache[key].Data.Length after ContainsKey: KeyNotFoundException when the *)
(* key has gone in between.                                                 *)
ReadSize(t) ==
    /\ pc[t] \in {"size", "rSize"}
    /\ \/ /\ Current(t) = Nil
          /\ Finish(t, "throws")
       \/ /\ Current(t) # Nil
          /\ loc' = [loc EXCEPT ![t].n = Current(t).data.len]
          /\ Goto(t, IF pc[t] = "size" THEN "write" ELSE "rSubtract")
    /\ LocalStep

StoreWrite(t) ==
    /\ Move(t, "write", "used")
    /\ cache' = [cache EXCEPT ![req[t].key] = NewEntry(req[t], loc[t].eid)]
    /\ loc' = [loc EXCEPT ![t].n = req[t].data.len - @, ![t].result = "ok"]
    /\ OnCache

(* Replace gives the old length back before it makes space. *)
ReplaceSubtract(t) ==
    /\ Move(t, "rSubtract", "space")
    /\ used' = Wrap(used - loc[t].n)
    /\ loc' = [loc EXCEPT ![t].n = Abs(req[t].data.len - @)]
    /\ OnUsed

(* Mutant: Add assigns through the indexer. *)
TryAdd_Overwrites(t) ==
    /\ Move(t, "tryAdd", "used")
    /\ cache' = [cache EXCEPT ![req[t].key] = NewEntry(req[t], loc[t].eid)]
    /\ loc' = [loc EXCEPT ![t].result = "ok"]
    /\ OnCache

TryAdd(t) ==
    /\ pc[t] = "tryAdd"
    /\ \/ /\ Current(t) # Nil
          /\ Finish(t, "no")
          /\ UNCHANGED cache
       \/ /\ Current(t) = Nil
          /\ cache' = [cache EXCEPT ![req[t].key] = NewEntry(req[t], loc[t].eid)]
          /\ loc' = [loc EXCEPT ![t].result = "ok"]
          /\ Goto(t, "used")
    /\ OnCache

(* The TryUpdate loop of ConcurrentDictionaryExtensions, which Replace,     *)
(* Append and Mutate run: read, compute, swap if unchanged, else start over *)
LoopRead(t) ==
    LET parses == req[t].op = "Mutate" => Current(t).data.num # NotANumber IN
    /\ pc[t] = "loopRead"
    /\ \/ /\ Current(t) = Nil
          /\ Finish(t, "no")
       \/ /\ Current(t) # Nil
          /\ ~parses                       \* FormatException
          /\ Finish(t, "throws")
       \/ /\ Current(t) # Nil
          /\ parses
          /\ loc' = [loc EXCEPT ![t].old = Current(t)]
          /\ Goto(t, "loopSwap")
    /\ LocalStep

(* Mutant: the new entry is assigned without comparing the old one. *)
LoopSwap_Blind(t) ==
    /\ Move(t, "loopSwap", "used")
    /\ cache' = [cache EXCEPT ![req[t].key] = Updated(t)]
    /\ loc' = [loc EXCEPT ![t].n = req[t].data.len, ![t].result = "ok"]
    /\ OnCache

LoopSwap(t) ==
    /\ pc[t] = "loopSwap"
    /\ \/ /\ Current(t) # loc[t].old
          /\ loc' = [loc EXCEPT ![t].old = Nil]
          /\ Goto(t, "loopRead")
          /\ UNCHANGED cache
       \/ /\ Current(t) = loc[t].old
          /\ cache' = [cache EXCEPT ![req[t].key] = Updated(t)]
          /\ loc' = [loc EXCEPT ![t].n = req[t].data.len, ![t].result = "ok"]
          /\ Goto(t, IF req[t].op = "Mutate" THEN "done" ELSE "used")
    /\ OnCache

(* Touch reports success whether or not its TryUpdate wins. *)
TouchRead(t) ==
    /\ pc[t] = "tRead"
    /\ \/ /\ Current(t) = Nil
          /\ Finish(t, "no")
       \/ /\ Current(t) # Nil
          /\ loc' = [loc EXCEPT ![t].old = Current(t)]
          /\ Goto(t, "inc")
    /\ LocalStep

TouchSwap(t) ==
    /\ Move(t, "tSwap", "lru")
    /\ cache' = IF Current(t) = loc[t].old
                THEN [cache EXCEPT ![req[t].key] = Updated(t)] ELSE cache
    /\ loc' = [loc EXCEPT ![t].result = "ok"]
    /\ OnCache

(* Cas: a matching token is stored again, so it stays valid; a missing key  *)
(* is stored unconditionally by CasStore.                                   *)
CasRead(t) ==
    LET e == Current(t)
        length == Abs(req[t].data.len - e.data.len) IN
    /\ pc[t] = "cRead"
    /\ \/ /\ e = Nil
          /\ Goto(t, "space")
          /\ UNCHANGED loc
       \/ /\ e # Nil
          /\ e.cas # req[t].cas
          /\ Finish(t, "no")
       \/ /\ e # Nil
          /\ e.cas = req[t].cas
          /\ loc' = [loc EXCEPT ![t].old = e, ![t].n = length]
          /\ Goto(t, IF length > 0 THEN "space" ELSE "inc")
    /\ LocalStep

(* No change of _used and no notification. *)
CasSwap(t) ==
    /\ pc[t] = "cSwap"
    /\ \/ /\ Current(t) = loc[t].old
          /\ cache' = [cache EXCEPT ![req[t].key] = Updated(t)]
          /\ Finish(t, "ok")
       \/ /\ Current(t) # loc[t].old
          /\ Finish(t, "no")
          /\ UNCHANGED cache
    /\ OnCache

(* Clear leaves _used as it is, and the LRU list does not hear of it. *)
ClearCache(t) ==
    /\ Move(t, "clear", "queue")
    /\ cache' = NoKeys
    /\ loc' = [loc EXCEPT ![t].result = "ok"]
    /\ OnCache

(* Mutant: a write is accounted for and not announced. *)
AddUsed_Silent(t) ==
    /\ Move(t, "used", "done")
    /\ used' = Wrap(used + loc[t].n)
    /\ OnUsed /\ UNCHANGED loc

(* The end of a successful write: account, then notify the observers. *)
AddUsed(t) ==
    /\ Move(t, "used", "lru")
    /\ used' = Wrap(used + loc[t].n)
    /\ OnUsed /\ UNCHANGED loc

NotifyLru(t) ==
    /\ Move(t, "lru", "queue")
    /\ lock = Nil
    /\ lruKeys' = MoveToBack(req[t].key)
    /\ OnLru /\ UNCHANGED loc

NotifyQueue(t) ==
    /\ Move(t, "queue", "done")
    /\ queue' = Append(queue, NotificationOf(req[t], loc[t].eid))
    /\ UNCHANGED <<cache, seqId, used, lruKeys, lock, loc>> /\ Frame

-----------------------------------------------------------------------------
(* The readers.  The order in which a call visits its keys is left open.    *)

(* Retrieve: ContainsKey, then the indexer, key by key; then Use, key by key *)
Visited(t, k) == IF loc[t].todo = {k} THEN req[t].keys ELSE loc[t].todo \ {k}
AfterVisit(t, k) == IF loc[t].todo = {k} THEN "gUse" ELSE "gContains"

RetrieveContains(t) ==
    /\ pc[t] = "gContains"
    /\ \E k \in loc[t].todo :
          \/ /\ cache[k] # Nil
             /\ loc' = [loc EXCEPT ![t].cur = k]
             /\ Goto(t, "gIndex")
          \/ /\ cache[k] = Nil
             /\ loc' = [loc EXCEPT ![t].todo = Visited(t, k)]
             /\ Goto(t, AfterVisit(t, k))
    /\ LocalStep

RetrieveIndex(t) ==
    LET k == loc[t].cur IN
    /\ pc[t] = "gIndex"
    /\ \/ /\ cache[k] = Nil                \* KeyNotFoundException
          /\ Finish(t, "throws")
       \/ /\ cache[k] # Nil
          /\ loc' = [loc EXCEPT ![t].snap[k] = cache[k], ![t].todo = Visited(t, k)]
          /\ Goto(t, AfterVisit(t, k))
    /\ LocalStep

(* The persistence observer ignores the RetrieveNotification. *)
RetrieveUse(t) ==
    /\ pc[t] = "gUse"
    /\ lock = Nil
    /\ \E k \in loc[t].todo :
          /\ lruKeys' = MoveToBack(k)
          /\ IF loc[t].todo = {k}
             THEN Finish(t, "ok")
             ELSE loc' = [loc EXCEPT ![t].todo = @ \ {k}] /\ UNCHANGED pc
    /\ OnLru

GetUse(t) ==
    /\ Move(t, "getUse", "getIndex")
    /\ lock = Nil
    /\ lruKeys' = MoveToBack(req[t].key)
    /\ OnLru /\ UNCHANGED loc

GetIndex(t) ==
    /\ Move(t, "getIndex", "done")
    /\ loc' = IF Current(t) = Nil          \* KeyNotFoundException
              THEN [loc EXCEPT ![t].result = "throws"]
              ELSE [loc EXCEPT ![t].result = "ok", ![t].snap[req[t].key] = Current(t)]
    /\ LocalStep

(* Mutant: an entry goes in the very second it expires. *)
ScanExpired_Early(t) ==
    /\ Move(t, "scan", "sweep")
    /\ loc' = [loc EXCEPT ![t].todo = {k \in Keys : cache[k] # Nil /\ cache[k].expiry <= now},
                          ![t].snap = cache]
    /\ LocalStep

(* RemoveExpired: the timer copies the dictionary, then removes key by key. *)
ScanExpired(t) ==
    /\ Move(t, "scan", "sweep")
    /\ loc' = [loc EXCEPT ![t].todo = {k \in Keys : cache[k] # Nil /\ IsExpired(cache[k])},
                          ![t].snap = cache]
    /\ LocalStep

SweepNext(t) ==
    /\ pc[t] = "sweep"
    /\ \/ /\ loc[t].todo = {}
          /\ Finish(t, "ok")
       \/ \E k \in loc[t].todo :
             /\ loc' = [loc EXCEPT ![t].cur = k, ![t].todo = @ \ {k}]
             /\ Goto(t, "rmInc")
    /\ LocalStep

(* CurrentState: first the contents, then the sequence id. *)
SnapshotContents(t) ==
    /\ Move(t, "snapshot", "sequence")
    /\ loc' = [loc EXCEPT ![t].snap = cache]
    /\ LocalStep

SnapshotSequence(t) ==
    /\ Move(t, "sequence", "done")
    /\ loc' = [loc EXCEPT ![t].seq = seqId, ![t].result = "ok"]
    /\ LocalStep

-----------------------------------------------------------------------------
(* Specification *)

Tick ==
    /\ now < MaxTime
    /\ now' = now + 1
    /\ UNCHANGED <<shared, issued, pc, req, loc, dirty>>

Step(t) ==
    \/ RemoveNextId(t) \/ RemoveTake(t) \/ RemoveUsed(t)
    \/ RemoveNotifyLru(t) \/ RemoveNotifyQueue(t) \/ MakeSpace(t) \/ EvictEntry(t)
    \/ NextEventId(t) \/ StoreContains(t) \/ ReadSize(t) \/ StoreWrite(t)
    \/ ReplaceContains(t) \/ ReplaceSubtract(t) \/ TryAdd(t) \/ LoopRead(t) \/ LoopSwap(t)
    \/ TouchRead(t) \/ TouchSwap(t) \/ CasRead(t) \/ CasSwap(t) \/ ClearCache(t)
    \/ AddUsed(t) \/ NotifyLru(t) \/ NotifyQueue(t)
    \/ RetrieveContains(t) \/ RetrieveIndex(t) \/ RetrieveUse(t) \/ GetUse(t) \/ GetIndex(t)
    \/ ScanExpired(t) \/ SweepNext(t) \/ SnapshotContents(t) \/ SnapshotSequence(t)
    \/ Return(t)

(* The only place to stop: every call has been made and has returned, or a  *)
(* thread evicting in vain has used up the event ids.                       *)
Stopped ==
    /\ \/ issued = MaxRequests /\ \A t \in Threads : pc[t] = "idle"
       \/ seqId = MaxEventId
    /\ UNCHANGED vars

Next ==
    \/ \E t \in Threads : Step(t) \/ \E r \in Requests[t] : Call(t, r)
    \/ Tick
    \/ Stopped

Spec == Init /\ [][Next]_vars

(* Thread-pool threads are pre-emptively scheduled: a thread that can take  *)
(* its next step takes it.                                                  *)
FairSpec == Spec /\ \A t \in Threads : WF_vars(Step(t))

-----------------------------------------------------------------------------
(* Properties *)

SharedOK ==
    /\ cache \in [Keys -> EntryOrNil]
    /\ seqId \in Int /\ used \in Int
    /\ lruKeys \in Seq(Keys) /\ lock \in Threads \cup {Nil}
    /\ queue \in Seq(Notification)
    /\ now \in Nat /\ issued \in Nat

ThreadsOK ==
    /\ pc \in [Threads -> Labels]
    /\ req \in [Threads -> Request \cup {Nil}]
    /\ loc \in [Threads -> Local]

TypeOK == SharedOK /\ ThreadsOK

Idle == \A t \in Threads : pc[t] = "idle"

(* The id of a snapshot covers every entry in it, however many writers run  *)
(* between the two reads of CurrentState: compaction and the subscribers of *)
(* a key use the id to tell old notifications from new ones.                *)
SnapshotCovered ==
    \A t \in Threads : \A k \in Keys :
        (pc[t] = "done" /\ req[t].op = "CurrentState" /\ loc[t].snap[k] # Nil)
            => loc[t].snap[k].eid <= loc[t].seq

(* No two notifications carry the same event id, and neither do the entries *)
(* of two keys: the persistence log orders and drops events by it.          *)
EventIdsUnique ==
    /\ \A i, j \in 1..Len(queue) : i # j => queue[i].eid # queue[j].eid
    /\ \A k, l \in Keys : (k # l /\ cache[k] # Nil /\ cache[l] # Nil)
                             => cache[k].eid # cache[l].eid

Bytes == SumFunction([k \in Keys |-> IF cache[k] = Nil THEN 0 ELSE cache[k].data.len])

Owed(t) == CASE pc[t] = "used" -> loc[t].n
             [] pc[t] = "rmUsed" -> -loc[t].vlen
             [] OTHER -> 0

(* The bytes the threads have counted so far. *)
Counted == Bytes - SumFunction([t \in Threads |-> Owed(t)])

(* _used is the bytes in the dictionary as an int, up to the changes        *)
(* threads have made and not yet added: the very number of them below 2^31  *)
(* and a negative one from there on, from which it comes back.  For Add,    *)
(* Append, Touch, Remove, Retrieve, the eviction and the expiry timer,      *)
(* whose steps may interleave in any way.                                   *)
UsedAccounted == used = Wrap(Counted)

LongestData == LET lengths == UNION {{r.data.len : r \in Requests[t]} : t \in Threads}
               IN  CHOOSE m \in lengths : \A l \in lengths : l <= m

(* What one thread alone may fill: the capacity, or as far as _used is not  *)
(* negative when the thread makes space.  With the service's default        *)
(* capacity, which is above 2^31, it is the second.                         *)
Ceiling == LET brim == IntHalf - 1 + LongestData
           IN  IF Capacity <= brim THEN Capacity ELSE brim

(* Each thread checks for space before it adds, and they do it side by      *)
(* side; still the dictionary never exceeds the capacity, nor 2^31 and one  *)
(* entry, by more than one entry for each other thread.                     *)
OvershootBounded == Bytes <= Ceiling + (Cardinality(Threads) - 1) * LongestData

(* When every call has returned, each entry has been announced under its    *)
(* key and event id: no write is missing from the persistence queue.        *)
EntriesAnnounced ==
    Idle => \A k \in Keys : cache[k] # Nil =>
        \E i \in 1..Len(queue) : /\ queue[i].kind \in {"store", "touch"}
                                 /\ queue[i].key = k
                                 /\ queue[i].eid = cache[k].eid

(* The expiry timer takes out an entry only if it has expired or was        *)
(* rewritten after the timer made its copy.                                 *)
SweepRemovesExpired ==
    [][\A t \in Threads : \A k \in Keys :
          (/\ pc[t] = "rmTake" /\ req[t].op = "RemoveExpired"
           /\ cache[k] # Nil /\ cache'[k] = Nil /\ pc'[t] = "rmUsed")
              => IsExpired(cache[k]) \/ cache[k] # loc[t].snap[k]]_vars

(* A call always returns, unless the LRU list and the dictionary have come  *)
(* apart for good: MakeSpaceForNewEntry then spins on a key EvictEntry does *)
(* not find.                                                                *)
LruAccurate == Range(lruKeys) = {k \in Keys : cache[k] # Nil}

CallsReturn == []<>LruAccurate => \A t \in Threads : pc[t] # "idle" ~> pc[t] = "idle"

(* As MemcacheTest.UsedRemainsAccurateUnderConcurrentStoreAndRemove has it: *)
(* what Used reports when nobody is in the cache.                           *)
UsedAccurate == Idle => used = Bytes

(* As MemcacheTest.AddReplaceAtomicWhenConcurrent has it: an entry that     *)
(* fits the capacity, and that threads do nothing but replace, stays.       *)
ReplacesKeepEntries == [][\A k \in Keys : cache[k] # Nil => cache'[k] # Nil]_vars

(* As LRUEvictionTests.DoesntTryToEvictRemoved has it: keys that are gone   *)
(* from the cache do not keep MakeSpaceForNewEntry from ending.             *)
EvictionEnds == \A t \in Threads : pc[t] = "evict" ~> pc[t] = "inc"
=============================================================================
