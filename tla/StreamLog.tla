------------------------------ MODULE StreamLog ------------------------------
(***************************************************************************)
(* The stream log: StreamArchiver.cs appends the notifications of a cache  *)
(* to a file, CacheRestorer.cs rebuilds the cache of the next process from *)
(* it.  Several threads change the cache; a notification gets its id with  *)
(* the change and reaches the archiver some time later, in any order.      *)
(*                                                                         *)
(* Wired as in the service, each process opens the log for its archiver,    *)
(* restores from it, and then archives.  RestoreCache puts the rebuilt log  *)
(* in the place of the old one, which gets the name of the backup; a file   *)
(* that is open stays the file it is.  All this takes a file system that    *)
(* opens an open file again (Shareable), as the one of PartitionGrainTests  *)
(* does; on FileWrapper's a start throws.  In the tests of the archiver one *)
(* process archives to a new file and restores nothing; the first process   *)
(* here may be such a one.                                                  *)
(***************************************************************************)
EXTENDS Integers, FiniteSets, SequencesExt

CONSTANTS
    Keys, Values, Nil,
    Other,           \* a value no store announces: appended to or calculated
    Shareable,       \* can a file that is open be opened again (and replaced)
    CompactThreshold,    \* in records
    MaxSending,      \* bound: notifications on their way
    MaxTime, MaxId   \* bounds: the clock; event ids

ASSUME StreamLogAssumption ==
    /\ Nil \notin Values \cup {Other} /\ Other \notin Values
    /\ Shareable \in BOOLEAN
    /\ {CompactThreshold, MaxSending, MaxTime, MaxId} \subseteq Nat
    /\ IsFiniteSet(Keys) /\ Cardinality(Keys) <= MaxId

Times == 0..MaxTime
Never == MaxTime + 1        \* DateTime.MaxValue
Expiries == Times \cup {Never}
Ids == 0..MaxId

Entry == [val : Values \cup {Other}, exp : Expiries]

ASSUME NilIsNoEntry == Nil \notin Entry

(* Archive entries; what a type does not have is Nil or Never.              *)
Record == [type : {"store", "touch", "remove", "clear"}, key : Keys \cup {Nil},
           val : Values \cup {Nil}, exp : Expiries, id : Ids]

VARIABLES
    now,
    up,            \* is there a process
    cache,         \* cache[k]: its entry or Nil; while ~up, as it was last
    currentId,     \* _currentSequenceId
    sending,       \* notifications on their way to the archiver
    lastVersion,   \* _lastVersion
    log,           \* records of the file with the log's name
    cut,           \* does a part of a record follow them
    attached,      \* does the archiver write to that file
    position,      \* records it has written, from the beginning of its file
    length,        \* records in its file
    failed,        \* did the last start throw
    \* History: the ids of the change that gave k its value and of the touch
    \* after it; keys whose value or expiry the archiver was not told; keys of
    \* which it wrote them to another file.
    told, lost, unlogged

vars == <<now, up, cache, currentId, sending, lastVersion, log, cut, attached, position, length,
          failed, told, lost, unlogged>>

archive == <<lastVersion, log, cut, attached, position, length>>

Init ==
    /\ now = 0 /\ up \in BOOLEAN /\ attached = up /\ failed = FALSE
    /\ cache = [k \in Keys |-> Nil]
    /\ currentId = 0 /\ sending = {}
    /\ lastVersion = 0 /\ log = <<>> /\ cut = FALSE /\ position = 0 /\ length = 0
    /\ told = [k \in Keys |-> {}] /\ lost = {} /\ unlogged = {}

-----------------------------------------------------------------------------
(* The restorer *)

(* ReadLogFile: newest first, up to the last clear.                         *)
AfterClear(s) == {i \in DOMAIN s : \A j \in i..Len(s) : s[j].type # "clear"}

LargestOf(S) == CHOOSE i \in S : \A j \in S : j <= i

(* GetUpdatedExpiries: the newest touch that has not expired.               *)
Touches(s, k, t) ==
    {i \in AfterClear(s) : s[i].type = "touch" /\ s[i].key = k /\ s[i].exp > t}

Changes(s, k) == {i \in AfterClear(s) : s[i].type \in {"store", "remove"} /\ s[i].key = k}

(* Mutant: the oldest record of a key counts. *)
Rebuilt_Oldest(s, k, t) ==
    LET touches == Touches(s, k, t)
        i == CHOOSE i \in Changes(s, k) : \A j \in Changes(s, k) : i <= j
    IN IF Changes(s, k) = {} THEN Nil
       ELSE IF s[i].type = "store" /\ (touches # {} \/ s[i].exp > t)
       THEN [val |-> s[i].val, exp |-> IF touches # {} THEN s[LargestOf(touches)].exp ELSE s[i].exp]
       ELSE Nil

(* RebuildLog: the newest store or remove of a key; a store that has        *)
(* expired stays if there is such a touch.                                  *)
Rebuilt(s, k, t) ==
    LET touches == Touches(s, k, t)
        i == LargestOf(Changes(s, k))
    IN IF Changes(s, k) = {} THEN Nil
       ELSE IF s[i].type = "store" /\ (touches # {} \/ s[i].exp > t)
       THEN [val |-> s[i].val, exp |-> IF touches # {} THEN s[LargestOf(touches)].exp ELSE s[i].exp]
       ELSE Nil

Store(k, v, e, n) == [type |-> "store", key |-> k, val |-> v, exp |-> e, id |-> n]

(* The new log: a store for each key that is kept.                          *)
NewLog(s, t) ==
    LET kept == SetToSeq({k \in Keys : Rebuilt(s, k, t) # Nil}) IN
    [i \in 1..Len(kept) |->
        LET e == Rebuilt(s, kept[i], t) IN Store(kept[i], e.val, e.exp, 0)]

(* Can the log be opened, while the archiver has it open, and be read?      *)
Readable == Shareable /\ ~cut

(* Mutant: the archiver writes to the new log. *)
Start_SameFile ==
    /\ ~up /\ Readable
    /\ up' = TRUE /\ failed' = FALSE
    /\ cache' = [k \in Keys |-> Rebuilt(log, k, now)]
    /\ log' = NewLog(log, now)
    /\ currentId' = Len(log')
    /\ attached' = TRUE /\ position' = 0 /\ length' = Len(log) /\ lastVersion' = 0
    /\ told' = [k \in Keys |-> {}] /\ lost' = {} /\ unlogged' = {}
    /\ UNCHANGED <<now, sending, cut>>

(* Service.Start: the archiver is constructed, RestoreCache replaces the    *)
(* log and adds its entries to the cache, then the archiver is subscribed.  *)
(* (A grain subscribes it before: then the entries are archived too, to the *)
(* file that was replaced.)                                                 *)
Start ==
    /\ ~up /\ Readable
    /\ up' = TRUE /\ failed' = FALSE
    /\ cache' = [k \in Keys |-> Rebuilt(log, k, now)]
    /\ log' = NewLog(log, now)
    /\ currentId' = Len(log')
    /\ attached' = FALSE /\ position' = 0 /\ length' = Len(log) /\ lastVersion' = 0
    /\ told' = [k \in Keys |-> {}] /\ lost' = {} /\ unlogged' = {}
    /\ UNCHANGED <<now, sending, cut>>

(* RestoreCache throws before it has written anything, out of the service's *)
(* Start.                                                                   *)
StartThrows ==
    /\ ~up /\ ~Readable
    /\ failed' = TRUE
    /\ UNCHANGED <<now, up, cache, currentId, sending, told, lost, unlogged>> /\ UNCHANGED archive

-----------------------------------------------------------------------------
(* The cache *)

Expired(k) == cache[k].exp < now

(* A change takes the next id; r, if any, is the notification it sends.     *)
Change(newCache, r) ==
    /\ up /\ currentId < MaxId /\ Cardinality(sending) < MaxSending
    /\ currentId' = currentId + 1
    /\ cache' = newCache /\ sending' = sending \cup r
    /\ UNCHANGED <<now, up, failed, unlogged>> /\ UNCHANGED archive

NextId == currentId + 1

(* Store, Add or Replace *)
StoreEntry(k, v, e) ==
    /\ Change([cache EXCEPT ![k] = [val |-> v, exp |-> e]], {Store(k, v, e, NextId)})
    /\ told' = [told EXCEPT ![k] = {NextId}]
    /\ lost' = lost \ {k}

(* Append and prepend announce the piece they add.                          *)
AppendEntry(k, v, e) ==
    /\ cache[k] # Nil
    /\ Change([cache EXCEPT ![k].val = Other], {Store(k, v, e, NextId)})
    /\ told' = [told EXCEPT ![k] = {NextId}]
    /\ lost' = lost \cup {k}

(* Incr, decr and cas announce nothing.                                     *)
ReplaceSilently(k) ==
    /\ cache[k] # Nil
    /\ Change([cache EXCEPT ![k].val = Other], {})
    /\ told' = [told EXCEPT ![k] = {}]
    /\ lost' = lost \cup {k}

Touch(k, e) ==
    /\ cache[k] # Nil
    /\ Change([cache EXCEPT ![k].exp = e],
              {[type |-> "touch", key |-> k, val |-> Nil, exp |-> e, id |-> NextId]})
    \* An earlier touch no longer matters.
    /\ told' = [told EXCEPT ![k] = {n \in @ : \A m \in @ : n <= m} \cup {NextId}]
    /\ UNCHANGED lost

RemoveEntry(k) ==
    /\ Change([cache EXCEPT ![k] = Nil],
              {[type |-> "remove", key |-> k, val |-> Nil, exp |-> Never, id |-> NextId]})
    /\ told' = [told EXCEPT ![k] = {NextId}]
    /\ lost' = lost \ {k}

Delete(k) == cache[k] # Nil /\ RemoveEntry(k)
RemoveExpired(k) == cache[k] # Nil /\ Expired(k) /\ RemoveEntry(k)

Clear ==
    /\ Change([k \in Keys |-> Nil],
              {[type |-> "clear", key |-> Nil, val |-> Nil, exp |-> Never, id |-> NextId]})
    /\ told' = [k \in Keys |-> {NextId}]
    /\ lost' = {}

-----------------------------------------------------------------------------
(* The archiver *)

Full == length > CompactThreshold

(* Keys with what these records say.                                        *)
About(records) == {k \in Keys : \E r \in records : r.id \in told[k]}

ToldLess(gone) == lost' = lost \cup About(gone)

(* One more record: at the end of a file that was empty when it was opened, *)
(* over the first ones of another.                                          *)
Write(r) ==
    /\ position' = position + 1
    /\ length' = IF position' > length THEN position' ELSE length
    /\ log' = IF attached THEN Append(log, r) ELSE log
    /\ unlogged' = IF attached THEN unlogged ELSE unlogged \cup About({r})

(* Mutant: no notification is left out. *)
Archive_Late(r) ==
    /\ ~Full
    /\ sending' = sending \ {r}
    /\ lastVersion' = r.id
    /\ Write(r)
    /\ UNCHANGED <<now, up, cache, currentId, cut, attached, failed, told, lost>>

(* OnNotification, for any of the notifications that threads have under     *)
(* way and ObserveOn queues.                                                *)
Archive(r) ==
    /\ lastVersion <= r.id /\ ~Full
    /\ sending' = sending \ {r}
    /\ lastVersion' = r.id
    /\ Write(r)
    /\ UNCHANGED <<now, up, cache, currentId, cut, attached, failed, told, lost>>

(* A notification that comes after a newer one is left out.                 *)
Skip(r) ==
    /\ lastVersion > r.id
    /\ sending' = sending \ {r}
    /\ ToldLess({r})
    /\ UNCHANGED <<now, up, cache, currentId, failed, told, unlogged>> /\ UNCHANGED archive

End ==
    /\ up' = FALSE
    /\ sending' = {} /\ lastVersion' = 0 /\ attached' = FALSE /\ position' = 0 /\ length' = 0
    /\ ToldLess(sending)
    /\ UNCHANGED <<now, cache, currentId, failed, told, unlogged>>

(* CompactCache creates a file that GetTempFileName has created already:    *)
(* the exception ends the process.                                          *)
CompactCache(r) ==
    /\ lastVersion <= r.id /\ Full
    /\ End /\ UNCHANGED <<log, cut>>

(* The process ends, at times in the middle of a record.                    *)
Stop ==
    /\ up /\ End /\ UNCHANGED log
    /\ cut' \in (IF attached /\ sending # {} THEN BOOLEAN ELSE {cut})

Tick == now < MaxTime /\ now' = now + 1
        /\ UNCHANGED <<up, cache, currentId, sending, failed, told, lost, unlogged>>
        /\ UNCHANGED archive

Next ==
    \/ \E k \in Keys :
        \/ \E v \in Values, e \in Expiries : StoreEntry(k, v, e) \/ AppendEntry(k, v, e)
        \/ \E e \in Expiries : Touch(k, e)
        \/ Delete(k) \/ RemoveExpired(k) \/ ReplaceSilently(k)
    \/ Clear
    \/ \E r \in sending : Archive(r) \/ Skip(r) \/ CompactCache(r)
    \/ Start \/ StartThrows \/ Stop \/ Tick

Spec == Init /\ [][Next]_vars

-----------------------------------------------------------------------------
(* Properties *)

TypeOK ==
    /\ now \in Times
    /\ up \in BOOLEAN /\ cut \in BOOLEAN /\ attached \in BOOLEAN /\ failed \in BOOLEAN
    /\ cache \in [Keys -> Entry \cup {Nil}]
    /\ currentId \in Ids /\ lastVersion \in Ids /\ position \in Nat /\ length \in Nat
    /\ sending \subseteq Record /\ log \in Seq(Record)
    /\ told \in [Keys -> SUBSET Ids] /\ lost \subseteq Keys /\ unlogged \subseteq Keys
    /\ up \/ ~attached
    /\ position <= length
    /\ attached => position = Len(log) /\ length = Len(log) /\ unlogged = {}

(* Nothing about k is under way, and the archiver was told everything.      *)
Settled(k) ==
    k \notin lost /\ \A r \in sending : r.id \notin told[k]

TouchedBefore(k) ==
    \E i \in DOMAIN log, j \in DOMAIN log :
        i < j /\ log[i].type = "touch" /\ log[j].type = "store" /\ log[i].key = k /\ log[j].key = k

(* The log is in the order of the changes, whatever the threads do.         *)
LogOrdered == \A i, j \in DOMAIN log : i < j /\ attached => log[i].id < log[j].id

(* What a process that started now would make of k: what the cache has (or  *)
(* had, when there is no process) and has not expired, with its value, and  *)
(* its expiry unless an earlier entry of the key was touched; no other      *)
(* value; and nothing for a key the cache does not have.                    *)
Restored(k) ==
    LET e == Rebuilt(log, k, now) IN
    /\ e # Nil => cache[k] # Nil /\ e.val = cache[k].val
    /\ cache[k] # Nil /\ cache[k].exp > now =>
           e # Nil /\ (e.exp = cache[k].exp \/ TouchedBefore(k))

(* The log is enough, at any moment, for any threads and through any number *)
(* of restarts: every key comes back as it is, unless its last change was   *)
(* archived to another file.  So a restart keeps what the one before it had *)
(* restored, and a log written from its beginning is complete.              *)
RestoresCache ==
    \A k \in Keys : Settled(k) /\ k \notin unlogged /\ ~cut => Restored(k)

(* What was archived is there after a restart, whichever file it went to.   *)
ArchivedIsRestored ==
    \A k \in Keys : Settled(k) /\ ~cut => Restored(k)
=============================================================================
