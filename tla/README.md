# A TLA+ model of Nemcache

Nemcache is a cache server: memcached requests over TCP, a REST interface over HTTP, subscriptions to keys over
WebSockets, two ways to persist the cache, and an experimental replicated service on Orleans grains. This directory
holds the specifications kept beside it: TLA+ modules translated from the source, TLC runs on small instances, and
proofs that TLAPS checks for every value of the constants.

Paths below are relative to the repository; `MemCache.cs:250` is a line of the file of that name.

## 1. The system

| Component | State it keeps | Operations | Talks to |
| --- | --- | --- | --- |
| **MemCache** (`Nemcache.Storage/MemCache.cs`, `ConcurrentDictionaryExtensions.cs`, `Eviction/LRUEvictionStrategy.cs`) | the dictionary, `_used`, `_currentSequenceId`, the LRU list | Store, Add, Replace, Append, Prepend, Cas, Mutate, Touch, Remove, Clear, Retrieve, Get, TryGet, CurrentState, the expiry timer | called by the handlers of every connection at once; emits notifications to the LRU strategy, the persistence, the subscribers |
| **Bitcask store** (`Persistence/BitcaskStore.cs`, `BitcaskPersistence.cs`) | numbered data files, the index, the current file | Put, Delete, TryGet, Entries, LoadIndex; OnNext of a notification; Restore | driven by the notifications; at the start fills the cache |
| **Stream log** (`StreamArchiver.cs`, `CacheRestorer.cs`, `StreamPersistence.cs`) | `cachelog.bin`, position of the archiver's handle, `_lastVersion` | OnNext, CompactCache, RestoreCache | the same, and reads `CurrentState` to compact |
| **Hybrid log** (`HybridLogStore.cs`) | memory log, data files, index | Put, TryGet, Delete, Flush, LoadIndex | nobody yet: the service does not construct it |
| **Partitioned stream** (`PartitioningFileStream.cs`) | files of a fixed length | Read, Write, Seek | its tests |
| **Subscriptions** (`CombineCurrentStateWithUpdatesExtension.cs`, `CacheEntrySubscriptionHandler.cs`) | buffer and snapshot of a subscriber, its subscriptions | Subscribe, Unsubscribe, live notifications | reads the cache, listens to it, writes to a WebSocket's queue |
| **WebSocket server** (`WebSocketServer.cs`) | one receive and one send loop per connection | accept, receive, send, close | subscriptions |
| **TCP server, dispatcher, handlers** (`RequestResponseTcpServer.cs`, `RequestDispatcher.cs`, `MemcacheRequestHandlers/`) | the unread bytes of each connection | accept, read a request line and a data block, call the cache, answer | the cache |
| **HTTP server** (`CacheRestServer.cs`, `CacheRestHttpHandler.cs`) | none | PUT, GET | two cache entries per value |
| **Service** (`Service.cs`, `Program.cs`) | the order of start and stop | restore, then subscribe the persistence, then listen | all of them |
| **Replicated partitions** (`Nemcache.DynamoService`) | one cache per grain, a hash ring of grains | PutAsync, GetAsync with read repair, activation | other grains |

The behaviours that are hard, and where they are:

* **Interleavings.** MemCache has no lock of its own. A method is a sequence of calls on a `ConcurrentDictionary`,
  `Interlocked` calls and critical sections of the LRU list, and any number of threads are in it at once.
* **Ordering.** A writer takes its event id before it changes the dictionary and announces the change after; ids,
  contents and notifications can be seen in three different orders.
* **Locks and progress.** `EvictEntry` calls back into the cache with the LRU list locked; `MakeSpaceForNewEntry` loops
  until there is space.
* **Accounting.** `_used` is a counter beside the dictionary, a 32-bit int compared as an unsigned number.
* **Crashes.** A process may end anywhere, inside the three writes of a record too, and the next one rebuilds the cache
  from the files.
* **Files.** Rollover at a size, the order files are read in, handles that outlive a rename.
* **Time.** The expiry timer works on a copy of the dictionary while others rewrite it.
* **Replication.** Puts to replicas that fail half way, reads that repair what has changed since.

What makes each component correct: for MemCache, that a call behaves as if it took place at one instant, that `Used`
says what the dictionary holds, that the capacity limits it, that every change is announced once under an id of its own,
that calls return; for the persistence, that what was put is there after a restart and what was deleted is not; for the
subscriptions, that a subscriber sees the current value and then every change; for the servers, that one client's
requests are answered in order whatever the others do; for the partitions, that an acknowledged put is read back.

`PROJECT.json` lists the hazards one by one, each at its line, with the properties that are about it.

## 2. The modules

| Module | What it is |
| --- | --- |
| `CacheData` | byte arrays and requests, shared by the cache and its contract |
| `MemCache` | the cache, one action per atomic operation, and its properties |
| `AtomicCache` | the contract: every call takes effect at one instant |
| `MemCacheAtomicity` | the refinement mapping from `MemCache` to `AtomicCache` |
| `DurableMap` | the contract of a persistent store |
| `Bitcask` | the Bitcask store: files, index, processes that end and start, and the refinement of `DurableMap` |
| `StreamLog` | the archiver, the file it writes, the restorer that rebuilds a cache from it |
| `Subscription` | a WebSocket connection that subscribes to a key while other threads change it |
| `Connection` | the memcache port: the listener, the loop of each connection, the handlers |
| `HashRing` | `ConsistentHashRing` as operators on a ring |
| `PartitionGrain` | grains that put to replicas and repair on reads; composes `HashRing` |
| `MC...` | requests, sizes, placements and symmetry for TLC |
| `MemCacheProofs`, `MemCacheAtomicityProofs`, `BitcaskProofs`, `StreamLogProofs`, `SubscriptionProofs`, `HashRingProofs`, `PartitionGrainProofs`, `ConnectionProofs` | proofs |

What composes what: `MemCacheAtomicity` puts `MemCache` beside its contract, `Bitcask` instantiates `DurableMap`,
`PartitionGrain` is built on the operators of `HashRing`. Between `MemCache` and what listens to it stands an interface:
a change takes an id of its own (`IdsUnique`) before it is made, and notifications arrive later and in any order.
`StreamLog` and `Subscription` assume of the cache this and no more, and their threads do what
`MemCache` shows threads can do. A subscriber does not use `CurrentState`, and the archiver only in a compaction,
which throws before it reads it; so `SnapshotsCovered` speaks for other users of the snapshot.

### MemCache

State: `cache` is the dictionary, `seqId` is `_currentSequenceId`, `used` is `_used`, `lruKeys` and `lock` are the list
of `LRUEvictionStrategy` and the thread in its `lock(_keys)`, `queue` is what the persistence observer was handed,
`now` is the scheduler's clock. For each thread, `req` is the call it is in, `pc` the next atomic operation of the
method, `loc` the method's local variables.

Actions: a client's `Call` starts a method; each atomic operation is one action (`StoreContains`, `ReadSize`,
`StoreWrite`, `AddUsed`, `NotifyLru`, `NotifyQueue` are those of `Store`); `Return` ends it. What methods share in the code
they share in the model: `MakeSpace` and `EvictEntry`, `Remove` (called by clients, by `EvictEntry` inside its lock, and by
the expiry timer), and the `TryUpdate` loop of `ConcurrentDictionaryExtensions` (Replace, Append, Mutate).

Abstractions. A byte array is its length and the number it parses as. `ConcurrentDictionary.TryUpdate` compares entries
field by field and arrays by reference: every write but Mutate's carries a fresh event id, so event id plus the number of
Mutates since (`gen`) tells arrays apart exactly as references do. A notification is delivered to its observers one
after the other (`NotifyLru`, then `NotifyQueue`), as Rx does on the caller's thread; the two orders of different threads'
notifications are open. Retrieve visits its keys in an order left open. The timer is a thread whose requests include
`RemoveExpired`. Left out: flags (stored and returned, never looked at), `Dispose`, observers that throw,
a duplicate key in one Retrieve. `Capacity` does not change while the cache runs (the code has a setter, the service does
not use it).

### Bitcask

State: `disk[i]` is the sequence of records of `data.i`; `index`, `currentId`, `open` are the store's fields, lost when the
process ends (`up`); `clearing` holds the keys a ClearNotification in progress has still to delete.

Actions: `OnStore`, `OnRemove` and `OnClear`/`ClearNext` are `BitcaskPersistence.OnNext`, each with the whole of
`EnsureFile`, `WriteEntry` and `Flush`; `Start` is `LoadIndex` and `Restore`; `Stop` ends the process between two steps;
`StopWriting` ends it in the middle of a write, with none of the record or a part of it in the file.

Abstractions. The offset of a record is its place in the file; sizes matter only for the rollover and are kept
(`Size`). `ReadEntry` does not check how many bytes it got, so a record cut short reads as one with zeros: cut in its
header or key it has a key nobody wrote (`Phantom`, one for all), cut in its value it has a value nobody wrote
(`Spoilt`, one for all). A record cut short by exactly the zeros it ends in is not told from these. The file system keeps what
`Flush` was called for: the end of a process is modelled, a power failure is not (`Flush` does not reach the disk).
Flags and expiry times do not occur: the store does not keep them. Files are named by numbers written in base `Radix`;
the code's is 10.

### StreamLog

State: `cache`, `currentId` stand for MemCache; `sending` holds the notifications on their way to the archiver; `log` are the
records of the file that has the log's name, `attached` says whether the archiver writes to that file; `length` counts the
records of the file it writes to, `position` those it has written, from the beginning of that file (it opens the file without
going to its end); `cut` says that a part of a record follows the log; `up` is false between processes, `failed` says that the
last start threw. `told`, `lost` and `unlogged` are history: which ids the last change of a key has, which keys the archiver did
not hear of correctly, and of which keys it wrote the last change to another file.

Actions: `StoreEntry`, `AppendEntry`, `ReplaceSilently`, `Touch`, `Delete`, `RemoveExpired`, `Clear` are changes of the cache, by
what they announce; `Archive`, `Skip`, `CompactCache` are the three ways `StreamArchiver.OnNotification` goes; `Start` is
`Service.Start` up to the subscription of the persistence, with all of `CacheRestorer.RestoreCache`; `StartThrows` is a start in
which `RestoreCache` cannot open or read the log, before it has changed a file; `Stop` ends the process, between two records or
inside one. `Rebuilt` is the replay of `CacheRestorer` as an operator: the newest change since the last clear, and the newest
touch that has not expired.

The wiring is that of the service: a process opens the log for its archiver, restores from it, then archives. The restore puts the
rebuilt log in the place of the old one, so the file the archiver has open is the backup from then on. The first process may
also be one as in the archiver's tests, which writes a new log and restores nothing (`up` in `Init`, `attached`).

* A second open of the log takes a file system that allows it, `Shareable`. The one of the grains' tests does
  (`PartitionGrainTests.cs:42`, `FileShare.ReadWrite`). The one the service and DynamoService register does not
  (`FileWrapper.cs:9` opens with `FileShare.None`): there `CacheRestorer.cs:120` throws out of `Service.Start`, and with
  `Shareable = FALSE` the model has no process after the first. So on the file system it is shipped with, the service does
  not start at all with the stream log; what the runs say of restarts, they say of file systems that share.
* A grain subscribes its persistence before it restores (`PartitionGrain.cs:37-38`). Then what is restored is archived too, to the file
  that was replaced. The model has the order of the service (`Program.cs` and `Service.Start`).
* The container is not modelled: `Program.cs:29` registers an `IMemCache`, `Service.cs:24` asks for a `MemCache`.

`CompactCache` ends the process: `GetTempFileName` has created the file already that `CreateNew` is asked to create.

### Subscription

State: `cache` is the id of the entry of the page's key; `work[t]` is where thread t is in a change and in the loop over
the observers; `subs` are the subscriptions of the connection, with the buffer, the snapshot and what each has sent;
`tracked` is the handler's dictionary, for the one key; `handling` and `read` are where the handler is in a subscribe.
`open`, `stopped`, `receiving`, `sending`, `ended` are the socket, the server and the two loops.

Actions: `Put`, `RemoveKey`, `Touch`, `Clear`, `Retrieve` begin a change in a thread, `Write` makes it, `Notify`, `Call`, `Add`,
`Forward`, `Drop`, `Throw` are the steps of `Subject.OnNext` through the observers that were there when it began (`todo`), in the order in
which they subscribed (`Turn`). In `BufferLiveUntilHistoryCompletes` the
check of the buffer against null and its use are two steps (`Call`, `Add`), as are the replay and the assignment of null
(`Replay`, `GoLive`). `Subscribe` reads the key and subscribes afterwards (`SubscribeLive`, `SubscribeCombined`). `Send`,
`SendEnds`, `ReceiveEnds`, `End` are the loops of `WebSocketServer` and the disposal of the connection; `CommandThrows` is a command
the handler cannot take (no JSON, an unsubscribe without a key), which ends the receive loop while the socket stays open. A message
is the id of the value or removal it tells, and 0 for the empty message that `JsonFromNotifications` makes of a touch or a read
(`CacheEntrySubscriptionHandler.cs:146`). Where `DistinctUntilChanged` meets a touch and the snapshot of the entry the touch made,
which have one id, it keeps either (`Distinct`). `touched` is history: the ids of touches.

Abstractions: one key with its content type beside it, one connection. Fragments of a frame, JSON and the accept
loop, which runs each connection in a task of its own, are left out.

### Connection

State: `stream[c]` are the tokens that have arrived from client c and are not read (a request line, a piece of a data
block, the line end after it), `pending[c]` those it has still to send; `conn[c]` is where the loop of the connection is,
and in which request; `busy` is the client in whose loop the listener is; `backlog` are those that wait to be accepted.
`cache[k]` is the sequence of the blocks the entry was put together from; `said[c]` the requests answered so far.

Actions: `Accept` is `ListenForClients`, which awaits a task in which the loop runs synchronously up to the first block that
has not arrived (`Yield`). `ReadTooLong`, `ReadBlank`, `ReadMalformed`, `ReadStray`, `ReadStorage`, `ReadCommand` are what `Dispatch`
makes of the next line; `ReadPiece`, `HandleBlock`, `BlockEnds` are `GetDataBlock` and the handler after it; `LineEnds` and `ReadFails` are
clients that shut down or reset their side. `Effect` is what the handlers do to the cache, `Replies` whether they answer.

Abstractions: sizes are counted in pieces; a client states the true length of its block; the cache's own concurrency is
`MemCache`'s matter, so a handler is one step here. `cas` compares with a unique that may or may not be the entry's.

### HashRing, PartitionGrain

A ring is a function from positions to nodes; `AddNode` puts the virtual nodes of a node on it, `GetNode` takes the first one at or
after a hash and `GetNodes` that one and its successors. MD5 is any placement of virtual nodes without collisions
(`PointsOf`, `PointsAssumption`).

State of `PartitionGrain`: `cache[p]` is the grain's cache, `turn[p]` the call it is in the middle of while it awaits
another grain, `requests` and `answer` are what is between grains. `latest`, `agreed`, `steady` are history.
Actions: each runs a grain up to its next await (`BeginPut`, `ResumePut`, `BeginGet`, `ResumeAsk`, `Repair`,
`ResumeForward`, `PutReplica`, `GetReplica`); a grain takes no request while it waits, as Orleans grains are not reentrant.
`Throw`, `TimeOut` and `Deactivate` are the failures; a request whose caller no longer waits is done later or not at all.
`Store` may evict other keys.

An activation starts empty. This takes a file system that opens the log a second time, as that of the test cluster does: there the
restore of each activation replaces the log, and what was put went to the file it replaced (`StreamLog`). With the `FileSystemWrapper` that
`Program.cs:37` of DynamoService registers, `OnActivateAsync` throws as `Service.Start` does, and every call of a grain fails;
nothing `PartitionGrain` says holds of anything then.

What the instances show of the ring in use: with 4 partitions of 100 virtual nodes and 3 replicas, 46 % of the keys
name the primary again among their replicas (6.7 % with 32 partitions); a put of such a key waits for the grain it is in, until it
times out. A get at a partition that is no replica leaves a copy there which later puts do not reach.

## 3. The runs

Passing runs:

| Run | Instance | States | What it shows |
| --- | --- | --- | --- |
| `atomicity` | 2 threads, 2 keys, capacity 3, 3 calls out of 13 | 236 991 | every interleaving is one `AtomicCache` allows; types; the id of a snapshot covers its entries; event ids are unique |
| `accounting` | 2 threads, 2 keys, capacity 2, 3 calls out of 7, ints that wrap around at 4 (event ids and `_used`), one tick of the clock | 228 786 | `_used` is exact, as an int, up to what threads still owe; the capacity is exceeded by one entry per other thread at most; every write is announced; the timer removes what has expired; calls return |
| `bitcask` | 2 keys, 2 values, 3 files of 1 or 2 records | 128 225 | index, append-only files, records cut short; the store is a durable map |
| `stream_log` | 2 keys, 2 values, 4 changes, 2 notifications on their way, one tick, compaction after 2 records, any number of starts | 1 893 082 | on a file system that shares: the log is in the order of the changes; a process that started at any moment would rebuild the cache, but for what went to a replaced file |
| `subscriptions` | 2 threads, 3 events, 5 event ids, 6 messages | 450 094 | the snapshot and every update after it arrive, in the order of the changes, none after unsubscribe; the connection ends |
| `connections` | 2 clients, 3 events out of 8 requests, leaving and the stop; blocks of 1 and 2 pieces | 232 967 | replies stay in step with requests; the cache holds whole blocks; the listener is not kept by a client that left; who is served is answered |
| `partitions` | 3 partitions, one key on all of them and one on the same partition twice, 2 puts, 1 get, 2 failures | 145 111 | replicas agree on a put that went through unless something it cannot see came between; no grain waits for ever |

Runs that find the code and its documentation or tests disagree, one property each:

| Run | Statement | What happens |
| --- | --- | --- |
| `used_store_remove` | `MemcacheTest.cs:86` | Store reads the old length and assigns in two steps: with a Store or Remove of the key in between `Used` is wrong for good |
| `eviction_of_removed` | `Eviction/LRUEvictionTests.cs:96` | a key that is removed and then asked for is back at the head of the LRU list, where eviction never gets past it |
| `concurrent_replace` | `MemcacheTest.cs:110` | two replaces side by side give the old length back twice; `_used` below zero reads as a full cache, and the entry is evicted. (The run's constraint keeps adds and replaces apart in time, as the test does.) |
| `bitcask_file_order` | `docs/bitcask-notes.md:21` | the files are read in the order of their names as strings, `data.10` before `data.2` |
| `stream_log_restart` | `README.md:45` | on a file system that shares, the restore puts a new file in the place of the one the archiver has open: what is archived after a start is not restored at the next. (On the service's own the start throws, and no state is kept either.) |

Bounds. Two threads are enough for every pair of methods, and what the properties of MemCache speak of (an entry, its
length, its id) is changed by a method at most twice; three calls put a third one before, between or after two that
overlap. The requests include every operation. Capacities of two or three bytes with entries of one or two make
eviction happen, with one or both keys in the cache. `IntHalf` is small where the wrap-around of the 32-bit
counters is meant to happen, and large where it is not; in `accounting` it is 4, so that an entry of each thread, granted
side by side, takes `_used` past the largest int. `MaxEventId` ends the runs in which a thread evicts in vain.
For Bitcask three files give one that is neither first nor last, files take one value or a tombstone and a value, and the
process may end at every point; the number of restarts is not bounded.

In `stream_log` four changes allow a key to be stored, touched, and stored again with a fourth change, of either key, anywhere
around them; two notifications on their way give every reordering of neighbours, and with it the skipped ones; the threshold
makes the fourth record compact. In `subscriptions` three events are two changes beside a subscribe, or one change beside a
subscribe and a second one, or the end of the socket beside both; a PUT makes two changes with one event. In `connections`
three events make two requests of a client and one of the other, or a client that leaves in the middle of the first or
second. In `partitions` two puts of the same key overlap, the read repair of the
get falls between them, and two failures put a late request behind a second put. The proofs below are what goes beyond
these bounds.

The bounds in guards: `MaxRequests`, `MaxEventId`, `MaxTime` (MemCache), `MaxFiles` (Bitcask), `MaxSending`, `MaxTime`, `MaxId`
(StreamLog), `MaxEvents`, `MaxId`, `MaxMessages` (Subscription), `MaxEvents` (Connection), `MaxPuts`, `MaxGets`, `MaxFailures`
(PartitionGrain). No other counter is capped. Deadlock is not checked where clients may simply have nothing more to ask
for; the liveness properties are what says that nobody is stuck.

Fairness. Safety is checked without any. 

* `CallsReturn` and `EvictionEnds` assume that each thread that can take its next step takes it (`WF_vars(Step(t))`): the cache is
  called by threads of the pool, which are scheduled pre-emptively, and its own locks are monitors that are held for a
  bounded time. Nothing is assumed of clients (`Call`) or of the clock (`Tick`). `CallsReturn` has a premise, that the LRU list and
  the dictionary agree again and again: without it a writer can spin in `MakeSpaceForNewEntry`, which is what
  `eviction_of_removed` shows.
* `ConnectionEnds` assumes it of the threads of the connection (`Handle`, `ReceiveEnds`, `SendEnds`, `End`), which block only in
  awaits the model has guards for. Nothing is assumed of the page, of the server's stop, or of `Send`. The property begins when the
  server stops, or when there is something to send on a closed socket: a socket that just closes leaves `SendLoop` in its queue.
* `ListenerFreed` and `Answered` assume it of the listener and of each connection's loop (`Accept(c)`, `Serve(c)`): both are
  continuations on the thread pool. Nothing is assumed of clients: `Answered` is for requests that were sent to their end.
* `GrainsFree` assumes that a grain goes on when the reply is there and that calls time out (`Resume(p)`, `TimeOut(p)`): the Orleans runtime
  does both, and without the timeout two grains that put to each other never finish.

`UsedAccounted` and `OvershootBounded` are for the operations that account exactly: Add, Append, Touch, Remove, Retrieve,
eviction, expiry. Store and Replace do not under concurrency (the two runs above), Cas, Mutate and Clear do not at all
(they change lengths without changing `_used`).

What properties excuse, because the code does it, is part of what they say:

* `RestoresCache` excuses keys whose notification was left out by the archiver (it came after a newer one), was under way when
  the process ended, or did not say what the entry is (append, cas, incr); those whose last change was written to a file that the
  restore had replaced (`unlogged`, which `ArchivedIsRestored` does not excuse); the expiry of a key that was touched before
  its last store; and everything once the log ends in a part of a record, with which no process starts.
* `UsedAccounted` is an equation of ints: where the bytes reach 2^31, `_used` is negative.
* `UpdatesArrive` excuses the snapshot of a subscription when the entry was made by a touch that is announced after the
  subscription was attached: the page may get the touch's empty message and not the value. (The code does this;
  `SubscribeHasCurrentValue`, `WebSocketSubscriptionHandlerTests.cs:98`, says that a subscriber gets the current value, and has no touch in
  it.) It excuses updates announced while the buffer is given up, those cut off by the exception of a subscriber whose buffer is gone, and
  those between the read of the key and the subscription. A Clear has no key, so a subscriber is not told of it.
* `SilentAfterUnsubscribe` is about values and removals; an empty message may follow.
* `ReplicasAgree` excuses a put that failed, a late request of one, a repair with an old value, and a lost cache.
* `WholeValues` allows one value nobody sent: a client that shuts down in the middle of a block leaves an empty one.
* `ListenerFreed` is for clients that left; one that stays and is silent keeps the listener.

Every property of a passing run has a mutant in `PROJECT.json`: a definition of the model with the kind of mistake the
code could have had, under which TLC finds that property violated. Mutated definitions stand before the ones they change.

## 4. The proofs

| Theorem | Statement |
| --- | --- |
| `MemCacheProofs!TypeCorrect` | `Spec => []TypeOK` |
| `MemCacheProofs!SnapshotsCovered` | `Spec => []SnapshotCovered`, if `MaxEventId < IntHalf` |
| `MemCacheProofs!IdsUnique` | `Spec => []EventIdsUnique`, if `MaxEventId < IntHalf` |
| `MemCacheProofs!EntriesReachQueue` | `Spec => []EntriesAnnounced`, if no call is a Cas |
| `MemCacheProofs!UsedIsAccounted` | `Spec => []UsedAccounted`, if `Accountable` |
| `MemCacheProofs!OvershootIsBounded` | `Spec => []OvershootBounded`, if `Accountable` |
| `MemCacheProofs!SweepTakesExpired` | `Spec => SweepRemovesExpired` |
| `MemCacheAtomicityProofs!CallsAreAtomic` | `Spec => Atomicity`, the refinement of `AtomicCache`, if `MaxEventId < IntHalf` |
| `BitcaskProofs!StoreTypeCorrect` | `Spec => []TypeOK`, if `MaxFiles < Radix` |
| `BitcaskProofs!IndexCorrect` | `Spec => []IndexTracksNewest`, if `MaxFiles < Radix` |
| `BitcaskProofs!NothingBehindCutShort` | `Spec => []CutShortLast`, if `MaxFiles < Radix` |
| `BitcaskProofs!FilesAppendOnly` | `Spec => AppendOnly`, if `MaxFiles < Radix` |
| `BitcaskProofs!StoreDurable` | `Spec => Durable`, the refinement of `DurableMap`, if `MaxFiles < Radix` |
| `StreamLogProofs!LogTyped` | `Spec => []TypeOK` |
| `StreamLogProofs!LogStaysOrdered` | `Spec => []LogOrdered` |
| `StreamLogProofs!LogRestoresCache` | `Spec => []RestoresCache` |
| `SubscriptionProofs!SubscriptionTyped` | `Spec => []TypeOK` |
| `SubscriptionProofs!NoUpdateLost` | `Spec => []UpdatesArrive` |
| `SubscriptionProofs!MessagesInOrder` | `Spec => []InOrder` |
| `SubscriptionProofs!EndedIsSilent` | `Spec => []SilentAfterUnsubscribe` |
| `HashRingProofs!PrimaryIsFirstReplica` | `GetNode` is the first of `GetNodes` |
| `HashRingProofs!ReplicasAreNodes` | `GetNodes` gives as many nodes of the ring as it is asked for |
| `HashRingProofs!AddMovesToTheNewNode` | with one more node a ring stays one, and a key keeps its primary or gets the new node |
| `HashRingProofs!RemoveMovesOnlyItsKeys` | with one node less a key keeps its primary unless it was that node |
| `PartitionGrainProofs!RingIsPlaced` | the `Ring` built from `Placement` is a ring, with all the points of all its partitions, the later one where two collide |
| `PartitionGrainProofs!GrainsTyped` | `Spec => []TypeOK` |
| `PartitionGrainProofs!ReplicasStayAgreed` | `Spec => []ReplicasAgree` |
| `ConnectionProofs!PortTyped` | `Spec => []TypeOK` |
| `ConnectionProofs!ValuesStayWhole` | `Spec => []WholeValues` |
| `ConnectionProofs!RepliesInStep` | `Spec => []InStep` |

They hold for every value of the constants the named assumptions of the modules allow: any threads, keys, requests,
capacity, values, sizes, partitions, placements.

*Types of MemCache.* `TypeOK` is not inductive. An action reads `loc[t].old.data` or `Head(lruKeys)` and what it computes is
typed only because of where the thread is: `TypeInv` adds `ControlOK`, which says for each label what the thread's locals then are
(at `loopSwap` there is an old entry, and for Mutate one that parses; between `rmInc` and `rmQueue` there is a key). One
step per action, and Wrap and the list operations in lemmas of their own.

*Event ids.* That a snapshot's id covers it, and that no two notifications share an id, depends on ids nobody can see
yet: those that threads have taken and not used. `IdInv` says of every id in a local variable that it is at most `seqId`,
that no other thread holds it, and that neither the queue nor an entry of another key has it. The assumption
`MaxEventId < IntHalf` is needed: after 2^31 ids the counter is negative and both statements fail.

*Announcements.* `EntriesAnnounced` speaks of the moment when nobody is in the cache. `TellInv` speaks of every moment: an entry has a
notification in the queue under its key and event id, or the thread that wrote it is at a label between the write and the
notification, with that key in its call and that id in its locals (`Tells`). Each step either leaves dictionary and queue alone
(`Aside`), or writes an entry the thread then has to tell of, or adds the notification (`TellEffect`). Cas is excluded because it
announces nothing: with a Cas among the calls the statement is false.

*Accounting.* The property relates `_used` to two sums: the bytes in the dictionary and what each thread still owes. A step changes one
term of one of them, and by how much depends on where the thread is, so `AccountInv` adds which calls can be at which label, with
which length (`AccountAt`). The overshoot needs a third sum, of what `MakeSpaceForNewEntry` has granted threads that have not yet
added it to `_used` (`Reserved`): each grant was made when `_used` had room for it, so all of them but one add up to what the
cache can be over (`ReservedBounded`).

The capacity may be anything, the service's default of 4 GiB (`Program.cs:20`) included. What `_used` is compared as matters then: up to
2^31 - 1 bytes it is their number, beyond it is negative and `(ulong)_used` reads as full, whatever the capacity. So one thread alone
gets as far as the smaller of the capacity and 2^31 - 1 and one entry (`Ceiling`): half of the default capacity is never used. The
assumption `Accountable` says that there are finitely many threads and keys, that the calls are those that account exactly, that no data is
longer than the capacity (`SetHandler` refuses it), and that the longest entry is short beside 2^31: once for each thread, and
once more where the capacity is above 2^31, it stays within 2^31. Were it longer, enough entries granted side by side would take `_used`
through the negative numbers and back to small ones, and the bound would fail. With 16 threads that allows entries of 126 MB.
Sums are what
`SumFunction` of the community modules folds; `SumExists` and `SumFacts` get the equations of that fold by
induction on the size of the set (a least counterexample, `LeastElement`), and the other lemmas what changing or comparing terms does to a sum.

*The expiry timer.* Between the copy it makes and the removal others may rewrite, remove and evict. `SweepInv` says that what the timer has
still to take out, and what it is taking out, is expired in its copy, which does not change while the clock only goes on.

*Atomicity.* That every step of `MemCache` is a step of `AtomicCache` or changes nothing the contract sees is proved action by
action (`Simulates`). What is needed of the state before is `AtomInv`: whatever a thread has learnt of its key by the label it has reached
(`SeenAt`: that there was no entry, or which entry it read) is still so, or another thread has changed the key since, and then
the key is in the thread's `dirty` set, with which the contract lets the call see an earlier state. Where a
write compares before it swaps, the ids decide: a fresh id makes each write one that comparison notices (`FreshAt`). Hence the
assumption on `MaxEventId` again: after the wrap-around an old id may come back.

*Bitcask.* `StoreInv` adds to the properties that every key with records has a newest one (what the `CHOOSE` of `LoadedIndex` picks)
and that the file open for writing holds no record cut short. `RecordWritten` and `NewestWritten` say what one more record
does to everything that is read; the refinement then compares what the newest records hold (`Held`) before and after
each step. The assumption `MaxFiles < Radix` says that file names sort as their numbers do, in the code: fewer than ten
data files. Without it the statement is false (`bitcask_file_order`).

*Stream log.* `LogOrdered` needs that no id in the log is above `_lastVersion`, and that the ids on their way were taken,
are not in the log and differ from one another (`OrderInv`). `RestoresCache` speaks of keys about which nothing is under way, and a step may
bring a key into that state whose notifications were archived long ago; so `LogInv` speaks of every key the archiver was told of:
what the cache has of it was announced, where "announced" is on its way or in the log, by a change and at most one touch, and
nothing newer in the log is about it (`ToldOf`, while the archiver writes to the log). Of a key whose last change is neither on its
way nor in another file, the log alone says what the cache has (`InLog`); this outlives the process, and a restart makes it again out of the
log it rebuilds. What a replay makes of a log to which one record was appended is a lemma per type of record. The theorem needs no
assumption on the file system: where an open file cannot be opened again there are no restarts. What it does not say is said by
`unlogged`: after a start the archiver writes to a file that is not the log, and from then on only what was restored, and not changed since, is
claimed to come back. Without that excuse the statement is `ArchivedIsRestored`, which `stream_log_restart` refutes.

*Subscriptions.* Of `Inv`, `IdsOK` says that an id belongs to one change and one key for good: a key's ids are those announced and those
threads still hold, and no entry of the page's key has the id of a content type. So when `DistinctUntilChanged` or the
`Distinct` of the replay leaves a notification out, it was the same change, or a touch and the snapshot of the entry it
made, whose announcement began after the subscription was attached (`Fresh`), so that the snapshot is excused (`Began`). `Delivered`
follows each announced change that carries a value to a subscriber:
it is in the messages, in the buffer, excused, or a thread announcing it has that subscriber still in its `todo` (`Reaches`).
`Ordered` rests on two facts: what was through when a change took its id has a smaller id and stays through (`earlier`), and a thread holds only
changes that are not through yet. So what a thread forwards comes after everything in `out`, and the replay is in order because it
sorts by id.

*Ring and partitions.* The ring is a fold over the partitions. `RingSteps` takes that fold apart into its steps (the function `FoldLeft`
folds with exists by induction on the size of the set), and by induction on the number of partitions each step makes a ring
of a ring (`FirstNode`, `AddMovesToTheNewNode`) with the new points on it. So that the ring is one is a theorem,
`RingIsPlaced`, for every non-empty placement of nodes that have virtual nodes, and so are the theorems about its replicas. `GrainInv` adds to `TypeOK` what links a grain that waits to
the request or answer it waits for (`Linked`, `Matched`: a caller has at most one request, about what its call is about), that a
put in progress is at the primary and its `todo` is the end of the replica list (`PutsInPlace`), and `Agreement` for each key,
which is `ReplicasAgree` with one more clause for the moment between the store at a replica and the arrival of its reply.

*The memcache port.* What a read returns depends on what was sent long before, so `ConnInv` speaks of the tokens on their way, those
that have arrived and those the client still has to send: behind the line of a storage command come the pieces of its block, in order,
and its line end (`Framing`); a loop in the middle of a block has the first pieces of it, and the next token is the next piece
(`Reading`). With these, each block that reaches the cache is whole (`BlocksSound`, which is `WholeValues`). `PaceInv`, a second
invariant proved on top of the first, says of a client whose requests are well formed that for some d exactly the first d are handled, that
`said` holds those of them that want a reply, in their order, and that the loop is at the line of request d + 1 or in its block (`Paced`). A
boundary is found again because the last token of a request is followed by the line of the next (`Numbered`). The clients in the
backlog are there once each and have no loop yet (`Queue`): without that `Accept` could start a second loop.

Every safety invariant and action property of the passing runs, and each of the two refinements, is the statement of a theorem
above. Only model-checked are the liveness properties (`CallsReturn`, `ConnectionEnds`, `ListenerFreed`, `Answered`, `GrainsFree`), because
fairness and `ENABLED` are out of the prover's reach, and the five runs that end in a counterexample.

What the assumptions exclude is where the code behaves differently: `MaxEventId < IntHalf` and `MaxFiles < Radix` bound how long it may
run, `Accountable` bounds how long the entries are beside 2^31, and the calls left out of `EntriesReachQueue` and `Accountable` are
those that do not announce or do not account.

## 5. Not modelled

* The hybrid log (`HybridLogStore.cs`): the service does not construct it. Its hazard, a read that moves the position the next
  write goes to, is listed.
* The partitioned file stream, the rate limit and threshold helpers, the random and null eviction strategies: nothing but tests uses
  them.
* The rest of the HTTP server: a GET, routing and static files are I/O around calls of `MemCache`. A PUT is in `Subscription`, with its two
  stores.
* The client library: it formats requests and keeps no state.
* `incr` and `decr` as requests (their effect is `Mutate` in `MemCache`), the text of replies, the reading of the configuration.
* Generated files and build configuration. The JavaScript files of the repository are mostly these: `src/client/.pnp.cjs` and
  `src/client/.pnp.loader.mjs` are Yarn's, `eslint.config.js` and `vite.config.ts` are configuration. The page itself
  (`App.tsx`, `main.tsx`) is the environment of `Subscription`: its click is `Put`, its effect opens and closes the socket.
  The program's own logic is C#.

What could come next: the accounting of Store and Replace by a single thread (side by side they lose count, see
`used_store_remove`), and the hybrid log as soon as something uses it.

## 6. Running it

```
tlc -workers 2 -config MCMemCacheAtomicity.cfg MCMemCacheAtomicity.tla
tlc -workers 2 -config MCMemCacheAccounting.cfg MCMemCache.tla
tlc -workers 2 -config MCBitcask.cfg MCBitcask.tla
tlc -workers 2 -config MCStreamLog.cfg MCStreamLog.tla
tlc -workers 2 -config MCSubscription.cfg MCSubscription.tla
tlc -workers 2 -config MCConnection.cfg MCConnection.tla
tlc -workers 2 -config MCPartitionGrain.cfg MCPartitionGrain.tla
tlapm MemCacheProofs.tla
tlapm MemCacheAtomicityProofs.tla
tlapm BitcaskProofs.tla
tlapm StreamLogProofs.tla
tlapm SubscriptionProofs.tla
tlapm HashRingProofs.tla
tlapm PartitionGrainProofs.tla
tlapm ConnectionProofs.tla
```

The other configurations belong to `MCMemCache` (`...Used`, `...Eviction`, `...Replace`), `MCBitcask` (`...Order`) and `MCStreamLog`
(`...Service`) and end with the counterexample described above. The community modules (`SequencesExt`, `FiniteSetsExt`,
`Functions`, `Folds`) must be on the path.
