----------------------------- MODULE Subscription -----------------------------
(***************************************************************************)
(* A page that shows a key as it changes: App.tsx opens a WebSocket and    *)
(* subscribes to the key, and PUTs a new value at every click.  The        *)
(* module composes what these two reach on the server: the connection's    *)
(* receive and send loops (WebSocketServer.cs), the handler of its         *)
(* commands (CacheEntrySubscriptionHandler.cs), the snapshot combined with *)
(* live updates (CombineCurrentStateWithUpdatesExtension.cs), the PUT      *)
(* handler (CacheRestHttpHandler.cs), and the order in which the cache     *)
(* takes an event id, changes the entry and calls the observers in the     *)
(* writer's thread.                                                        *)
(*                                                                         *)
(* The value of an entry is known by the event id of the change it comes   *)
(* from.                                                                   *)
(***************************************************************************)
EXTENDS Integers, FiniteSets, SequencesExt

CONSTANTS
    Threads,
    Calls,             \* Calls[t]: the types of the calls in thread t
    Click, Content,    \* the page's key and the one of its content type
    Nil,
    MaxEvents,         \* bounds: calls of the cache, subscriptions and the end of the
                       \* connection or of the server, together,
    MaxId,             \* event ids,
    MaxMessages        \* messages of a subscription

Keys == {Click, Content}

ASSUME SubscriptionAssumption ==
    /\ Click # Content /\ Nil \notin Keys
    /\ Calls \in [Threads -> SUBSET {"store", "remove", "touch", "clear", "retrieve"}]
    /\ {MaxEvents, MaxMessages} \subseteq Nat /\ MaxId \in Nat \ {0}

(* A retrieve has the id 0, an entry the id of its last store or touch.     *)
Ids == 0..MaxId
Types == {"store", "remove", "touch", "clear", "retrieve"}
Note == [type : Types, key : Keys \cup {Nil}, id : Ids]

(* A subscription: snapshot is the id of the entry it starts from, 0 for    *)
(* one without; seen is the last id that DistinctUntilChanged let through;  *)
(* out are its messages, the id of the value or the removal each tells, 0   *)
(* for an empty one.  History: the updates that had begun before it, that   *)
(* were under way when it was ready, and that had begun when its end was    *)
(* confirmed.                                                               *)
Sub == [stage : {"buffering", "replayed", "live", "disposed"}, snapshot : Ids,
        buffer : SUBSET Note, seen : Ids \cup {-1}, out : Seq(Ids),
        before : SUBSET Ids, gap : SUBSET Ids, until : SUBSET Ids]

(* A call of the cache: the entry it read, and the observers, by their      *)
(* place in subs, it has still to call.                                     *)
Work == [step : {"idle", "write", "notify", "call", "add", "forward"},
         note : Note, read : Ids, todo : SUBSET Nat]

VARIABLES
    cache,       \* the id of the entry of the key, 0 for none
    lastId,      \* _currentSequenceId
    work,        \* work[t]: the call of the cache in thread t
    subs,        \* the subscriptions of the connection, in the order they were made
    tracked,     \* _subscriptions: the one of the key, or 0
    handling,    \* where the handler is in a subscribe
    read,        \* what it read from the cache
    waits,       \* is there a message that has not been sent
    events,      \* counted for the bound
    open,        \* the state of the socket
    stopped,     \* the server's cancellation token
    receiving, sending,    \* do the loops run
    ended,       \* is the connection disposed of
    \* History: ids that observers were first called with, and that all of
    \* them were called with; earlier[n]: the latter when n was taken; ids of
    \* touches.
    begun, finished, earlier, touched

cacheVars == <<cache, lastId, work>>
handlerVars == <<subs, tracked, handling, read>>
socketVars == <<open, stopped, receiving, sending, ended>>
history == <<begun, finished, earlier, touched>>
vars == <<events, cacheVars, handlerVars, waits, socketVars, history>>

NoNote == [type |-> "retrieve", key |-> Nil, id |-> 0]
Idle == [step |-> "idle", note |-> NoNote, read |-> 0, todo |-> {}]

Init ==
    /\ lastId \in {0, 1} /\ cache = lastId
    /\ events = 0 /\ work = [t \in Threads |-> Idle]
    /\ subs = <<>> /\ tracked = 0 /\ handling = "idle" /\ read = 0
    /\ waits = FALSE
    /\ open = TRUE /\ stopped = FALSE
    /\ receiving = TRUE /\ sending = TRUE /\ ended = FALSE
    /\ begun = {lastId} \ {0} /\ finished = begun /\ earlier = [n \in Ids |-> {}]
    /\ touched = {}

(* The subject's observer puts messages into the collection the send loop   *)
(* takes from, until the connection is disposed of.                         *)
Enqueue == waits' = TRUE

Room(s) == Len(subs[s].out) < MaxMessages

Event == events < MaxEvents /\ events' = events + 1

-----------------------------------------------------------------------------
(* The cache, in its writers' threads *)

(* Take an event id for a change, and make it later.                        *)
TakeId(t, type, k) ==
    /\ lastId < MaxId /\ lastId' = lastId + 1
    /\ work' = [work EXCEPT ![t] = [Idle EXCEPT !.step = "write", !.read = cache,
                    !.note = [type |-> type, key |-> k, id |-> lastId + 1]]]
    /\ earlier' = [earlier EXCEPT ![lastId + 1] = finished]
    /\ touched' = IF type = "touch" THEN touched \cup {lastId + 1} ELSE touched
    /\ UNCHANGED <<cache, handlerVars, waits, socketVars, begun, finished>>

Begins(t, type) ==
    /\ work[t].step = "idle" /\ type \in Calls[t]
    /\ Event

(* The PUT of a click, by itself or beside others. *)
Put(t) == Begins(t, "store") /\ TakeId(t, "store", Click)

(* Other clients' calls. *)
RemoveKey(t) == Begins(t, "remove") /\ TakeId(t, "remove", Click)
Touch(t) == Begins(t, "touch") /\ cache # 0 /\ TakeId(t, "touch", Click)
Clear(t) == Begins(t, "clear") /\ TakeId(t, "clear", Nil)

Retrieve(t) ==
    /\ Begins(t, "retrieve")
    /\ work' = [work EXCEPT ![t] = [Idle EXCEPT !.step = "notify", !.note.key = Click]]
    /\ UNCHANGED <<cache, lastId, handlerVars, waits, socketVars, history>>

(* A touch of an entry that changed since it was read changes nothing, and  *)
(* is announced all the same; a remove of nothing is not.                   *)
Write(t) ==
    LET n == work[t].note IN
    /\ work[t].step = "write"
    /\ cache' = CASE n.type = "store" -> n.id
                  [] n.type = "touch" -> IF cache = work[t].read THEN n.id ELSE cache
                  [] OTHER -> 0
    /\ work' = [work EXCEPT ![t] = IF n.type = "remove" /\ cache = 0 THEN Idle
                                   ELSE [@ EXCEPT !.step = "notify"]]
    /\ UNCHANGED <<events, lastId, handlerVars, waits, socketVars, history>>

Observers == {i \in DOMAIN subs : subs[i].stage # "disposed"}

(* History is kept of the changes of the key. *)
Change(n) == IF n.key = Click THEN {n.id} \ {0} ELSE {}

(* Once the observers of todo are called the call returns; a PUT stores its *)
(* content type then, an entry that nothing here depends on, under the next *)
(* id.                                                                      *)
Proceed(t, todo) ==
    LET n == work[t].note IN
    IF todo # {}
    THEN /\ work' = [work EXCEPT ![t].step = "call", ![t].todo = todo]
         /\ UNCHANGED <<lastId, finished>>
    ELSE /\ finished' = finished \cup Change(n)
         /\ IF n.type = "store" /\ n.key = Click
            THEN /\ lastId < MaxId /\ lastId' = lastId + 1
                 /\ work' = [work EXCEPT ![t] = [Idle EXCEPT !.step = "notify",
                        !.note = [type |-> "store", key |-> Content, id |-> lastId + 1]]]
            ELSE work' = [work EXCEPT ![t] = Idle] /\ UNCHANGED lastId

(* Subject.OnNext: the observers there are now, one after the other, in the *)
(* order in which they subscribed.                                          *)
Notify(t) ==
    /\ work[t].step = "notify"
    /\ Proceed(t, Observers)
    /\ begun' = begun \cup Change(work[t].note)
    /\ UNCHANGED <<events, cache, handlerVars, waits, socketVars, earlier, touched>>

Turn(t) == {s \in work[t].todo : \A i \in work[t].todo : s <= i}

Rest(t, s) == work[t].todo \ {s}

(* The observer of Combine looks whether there is still a buffer, and any   *)
(* observer whether it has been disposed of.                                *)
Call(t, s) ==
    /\ work[t].step = "call"
    /\ LET stage == subs[s].stage IN
       IF stage = "disposed" THEN Proceed(t, Rest(t, s))
       ELSE /\ work' = [work EXCEPT ![t].step = IF stage = "live" THEN "forward" ELSE "add"]
            /\ UNCHANGED <<lastId, finished>>
    /\ UNCHANGED <<events, cache, handlerVars, waits, socketVars, begun, earlier, touched>>

(* Into the buffer; once it has been replayed nobody reads it.              *)
Add(t, s) ==
    /\ work[t].step = "add" /\ subs[s].stage \in {"buffering", "replayed"}
    /\ subs' = IF subs[s].stage = "buffering"
               THEN [subs EXCEPT ![s].buffer = @ \cup {work[t].note}] ELSE subs
    /\ Proceed(t, Rest(t, s))
    /\ UNCHANGED <<events, cache, tracked, handling, read, waits, socketVars, begun, earlier, touched>>

(* The buffer is null by now: the exception ends the writer's call, before  *)
(* the observers that follow and the rest of a PUT.                         *)
Throw(t, s) ==
    /\ work[t].step = "add" /\ subs[s].stage \in {"live", "disposed"}
    /\ work' = [work EXCEPT ![t] = Idle]
    /\ UNCHANGED <<events, cache, lastId, handlerVars, waits, socketVars, history>>

(* JsonFromNotifications: touches and reads become empty messages.          *)
Message(n) == IF n.type \in {"store", "remove"} THEN n.id ELSE 0

(* OfType, Where and Select: the notifications of the key.                  *)
Messages(n) == IF n.key = Click THEN <<Message(n)>> ELSE <<>>

Combined(s) == subs[s].snapshot # 0

(* Mutant: only what is newer than the last one. *)
Forward_Newer(t, s) ==
    LET n == work[t].note
        new == Messages(n)
    IN /\ work[t].step = "forward" /\ Room(s)
       /\ IF ended \/ (Combined(s) /\ subs[s].seen >= n.id) THEN UNCHANGED <<subs, waits>>
          ELSE /\ subs' = [subs EXCEPT ![s].seen = n.id, ![s].out = @ \o new]
               /\ IF new = <<>> THEN UNCHANGED waits ELSE Enqueue
       /\ Proceed(t, Rest(t, s))
       /\ UNCHANGED <<events, cache, tracked, handling, read, socketVars, begun, earlier, touched>>

(* DistinctUntilChanged, of the combined ones, and on to the queue.         *)
Forward(t, s) ==
    LET n == work[t].note
        new == Messages(n)
    IN /\ work[t].step = "forward" /\ Room(s)
       /\ IF ended \/ (Combined(s) /\ subs[s].seen = n.id) THEN UNCHANGED <<subs, waits>>
          ELSE /\ subs' = [subs EXCEPT ![s].seen = n.id, ![s].out = @ \o new]
               /\ IF new = <<>> THEN UNCHANGED waits ELSE Enqueue
       /\ Proceed(t, Rest(t, s))
       /\ UNCHANGED <<events, cache, tracked, handling, read, socketVars, begun, earlier, touched>>

(* The subscription was disposed of on the way. *)
Drop(t, s) ==
    /\ work[t].step = "forward" /\ subs[s].stage = "disposed"
    /\ Proceed(t, Rest(t, s))
    /\ UNCHANGED <<events, cache, handlerVars, waits, socketVars, begun, earlier, touched>>

-----------------------------------------------------------------------------
(* The handler, in the receive loop *)

Receives == receiving /\ open /\ ~stopped /\ handling = "idle"

(* Every command is replied to.                                             *)
Command == Receives /\ Enqueue

(* It is confirmed, then the cache is asked for the value.                  *)
Subscribe ==
    /\ Command /\ Event
    /\ read' = cache
    /\ handling' = "read"
    /\ UNCHANGED <<cacheVars, subs, tracked, socketVars, history>>

(* Without a key: an error. *)
SubscribeToNothing ==
    /\ Command
    /\ UNCHANGED <<events, cacheVars, subs, tracked, handling, read, socketVars, history>>

NewSub(stage, gap) ==
    Append(subs, [stage |-> stage, snapshot |-> read, buffer |-> {}, seen |-> -1, out |-> <<>>,
                  before |-> begun, gap |-> gap, until |-> Ids])

(* The key was not there: an earlier subscription of the key is forgotten.  *)
SubscribeLive ==
    /\ handling = "read" /\ read = 0
    /\ subs' = NewSub("live", begun)
    /\ tracked' = Len(subs')
    /\ handling' = "idle"
    /\ UNCHANGED <<events, cacheVars, read, waits, socketVars, history>>

(* Combine: the live notifications first, into the buffer.                  *)
SubscribeCombined ==
    /\ handling = "read" /\ read # 0
    /\ subs' = NewSub("buffering", {})
    /\ handling' = "replay"
    /\ UNCHANGED <<events, cacheVars, tracked, read, waits, socketVars, history>>

(* Of notifications with one id, consecutive ones once they are ordered,    *)
(* DistinctUntilChanged keeps the one that happens to be first: of a touch  *)
(* and the snapshot of the entry it made, either.                           *)
Distinct(notes) ==
    {p \in SUBSET notes : /\ \A n \in notes : \E m \in p : m.id = n.id
                          /\ \A m, n \in p : m.id = n.id => m = n}

Own(notes) == {n \in notes : n.key = Click}

Orders(S) == {s \in [1..Cardinality(S) -> S] : S \subseteq ToSet(s)}

(* OrderBy of the ids. *)
Ascending(S) == {s \in Orders(S) : \A i, j \in DOMAIN s : i < j => s[i].id < s[j].id}

Latest(notes) == {n \in notes : \A m \in notes : m.id <= n.id}

Replayed(s, notes, last) ==
    [subs EXCEPT ![s].stage = "replayed", ![s].buffer = {}, ![s].seen = last,
                 ![s].out = [i \in DOMAIN notes |-> Message(notes[i])],
                 ![s].gap = finished \ subs[s].before]

(* Mutant: in the order in which the bag gives them. *)
Replay_Unordered ==
    LET s == Len(subs)
        notes == subs[s].buffer \cup {[type |-> "store", key |-> Click, id |-> read]}
    IN /\ handling = "replay"
       /\ \E kept \in Distinct(notes) : \E own \in Orders(Own(kept)), n \in kept :
            subs' = Replayed(s, own, n.id)
       /\ Enqueue
       /\ handling' = "replayed"
       /\ UNCHANGED <<events, cacheVars, tracked, read, socketVars, history>>

(* The snapshot completes: it and the buffer are replayed.  History: what   *)
(* was announced since subscribing must be among it.                        *)
Replay ==
    LET s == Len(subs)
        notes == subs[s].buffer \cup {[type |-> "store", key |-> Click, id |-> read]}
    IN /\ handling = "replay"
       /\ \E kept \in Distinct(notes) : \E own \in Ascending(Own(kept)), n \in Latest(kept) :
            subs' = Replayed(s, own, n.id)
       /\ Enqueue
       /\ handling' = "replayed"
       /\ UNCHANGED <<events, cacheVars, tracked, read, socketVars, history>>

(* notificationBuffer = null; an earlier subscription is forgotten.         *)
GoLive ==
    LET s == Len(subs) IN
    /\ handling = "replayed"
    /\ subs' = [subs EXCEPT ![s].stage = "live", ![s].gap = begun \ @]
    /\ tracked' = s
    /\ handling' = "idle"
    /\ UNCHANGED <<events, cacheVars, read, waits, socketVars, history>>

Out(s) == ToSet(subs[s].out)

Disposed(s) == [subs EXCEPT ![s].stage = "disposed", ![s].until = begun \cup Out(s)]

(* Mutant: the subscription is forgotten and goes on. *)
Unsubscribe_Forgets ==
    /\ Command /\ tracked # 0
    /\ subs' = [subs EXCEPT ![tracked].until = begun \cup Out(tracked)]
    /\ tracked' = 0
    /\ UNCHANGED <<events, cacheVars, handling, read, socketVars, history>>

Unsubscribe ==
    /\ Command /\ tracked # 0
    /\ subs' = Disposed(tracked)
    /\ tracked' = 0
    /\ UNCHANGED <<events, cacheVars, handling, read, socketVars, history>>

UnsubscribeUnknown ==
    /\ Command /\ tracked = 0
    /\ UNCHANGED <<events, cacheVars, subs, tracked, handling, read, socketVars, history>>

(* A command that is no JSON object, or an unsubscribe that names no key:   *)
(* the exception ends the receive loop, and nothing else.                   *)
CommandThrows ==
    /\ Receives
    /\ receiving' = FALSE
    /\ UNCHANGED <<events, cacheVars, handlerVars, waits, open, stopped, sending, ended, history>>

-----------------------------------------------------------------------------
(* The connection *)

(* The page goes, or the network does. *)
CloseSocket ==
    /\ Event /\ open /\ open' = FALSE
    /\ UNCHANGED <<cacheVars, handlerVars, waits, stopped, receiving, sending, ended, history>>

(* WebSocketServer.Stop *)
StopServer ==
    /\ Event /\ ~stopped /\ stopped' = TRUE
    /\ UNCHANGED <<cacheVars, handlerVars, waits, open, receiving, sending, ended, history>>

ReceiveEnds ==
    /\ receiving /\ handling = "idle" /\ (~open \/ stopped)
    /\ receiving' = FALSE
    /\ UNCHANGED <<events, cacheVars, handlerVars, waits, open, stopped, sending, ended, history>>

(* All that waits. *)
Send ==
    /\ sending /\ ~stopped /\ waits /\ open
    /\ waits' = FALSE
    /\ UNCHANGED <<events, cacheVars, handlerVars, open, stopped, receiving, sending, ended, history>>

(* Mutant: the end of the server goes unnoticed. *)
SendEnds_Waits ==
    /\ sending /\ waits /\ ~open
    /\ sending' = FALSE
    /\ UNCHANGED <<events, cacheVars, handlerVars, waits, open, stopped, receiving, ended, history>>

(* The state of the socket is looked at when there is a message to send.    *)
SendEnds ==
    /\ sending /\ (stopped \/ (waits /\ ~open))
    /\ sending' = FALSE
    /\ UNCHANGED <<events, cacheVars, handlerVars, waits, open, stopped, receiving, ended, history>>

(* Mutant: the subscriptions stay. *)
End_Undisposed ==
    /\ ~receiving /\ ~sending /\ ~ended
    /\ ended' = TRUE
    /\ UNCHANGED <<events, cacheVars, handlerVars, waits, open, stopped, receiving, sending, history>>

(* Both loops have ended: the handler is disposed, and the queue's observer.*)
End ==
    /\ ~receiving /\ ~sending /\ ~ended
    /\ ended' = TRUE
    /\ subs' = IF tracked = 0 THEN subs ELSE Disposed(tracked)
    /\ UNCHANGED <<events, cacheVars, tracked, handling, read, waits, open, stopped,
                   receiving, sending, history>>

-----------------------------------------------------------------------------
Request(t) == Put(t) \/ RemoveKey(t) \/ Touch(t) \/ Clear(t) \/ Retrieve(t)

Run(t) ==
    \/ Write(t) \/ Notify(t)
    \/ \E s \in Turn(t) : Call(t, s) \/ Add(t, s) \/ Throw(t, s) \/ Forward(t, s) \/ Drop(t, s)

Handle == SubscribeLive \/ SubscribeCombined \/ Replay \/ GoLive

Next ==
    \/ \E t \in Threads : Request(t) \/ Run(t)
    \/ Subscribe \/ SubscribeToNothing \/ Unsubscribe \/ UnsubscribeUnknown \/ CommandThrows
    \/ Handle
    \/ CloseSocket \/ StopServer \/ ReceiveEnds \/ Send \/ SendEnds \/ End

(* The connection's threads run. *)
Fairness == WF_vars(Handle) /\ WF_vars(ReceiveEnds) /\ WF_vars(SendEnds) /\ WF_vars(End)

Spec == Init /\ [][Next]_vars /\ Fairness

-----------------------------------------------------------------------------
(* Properties *)

(* Besides the types: only the subscription in _subscriptions and those it  *)
(* replaced are live, one before it goes live is the last.                  *)
TypeOK ==
    /\ cache \in Ids /\ lastId \in Ids /\ work \in [Threads -> Work]
    /\ subs \in Seq(Sub) /\ tracked \in 0..Len(subs)
    /\ handling \in {"idle", "read", "replay", "replayed"}
    /\ read \in Ids /\ events \in 0..MaxEvents
    /\ {waits, open, stopped, receiving, sending, ended} \subseteq BOOLEAN
    /\ begun \subseteq Ids /\ finished \subseteq begun /\ earlier \in [Ids -> SUBSET Ids]
    /\ touched \subseteq Ids
    /\ tracked # 0 => subs[tracked].stage = IF ended THEN "disposed" ELSE "live"
    /\ \A i \in DOMAIN subs :
        subs[i].stage \in {"buffering", "replayed"} =>
            i = Len(subs) /\ handling = IF subs[i].stage = "buffering" THEN "replay" ELSE "replayed"

(* A subscription that is ready has queued the value it began with, unless  *)
(* a touch made that entry and was announced after it was attached: then    *)
(* the empty message of the touch may stand in its place.  And it has       *)
(* queued every value and removal of its key since it was attached that     *)
(* reached all observers, but for those of which the announcement began     *)
(* before it was attached or ran while the buffer was given up.             *)
UpdatesArrive ==
    \A s \in DOMAIN subs : subs[s].stage = "live" /\ ~ended =>
        /\ subs[s].snapshot \in {0} \cup Out(s) \cup (touched \ subs[s].before)
        /\ finished \ (subs[s].gap \cup touched) \subseteq Out(s)

(* The updates of a subscription come in the order of the changes: one that *)
(* was through before another began never comes after it.                   *)
InOrder ==
    \A s \in DOMAIN subs : \A i, j \in DOMAIN subs[s].out :
        i < j => subs[s].out[j] \notin earlier[subs[s].out[i]]

(* After it was confirmed that a subscription has ended it queues no value  *)
(* and no removal but those that were being announced at that time.         *)
SilentAfterUnsubscribe ==
    \A s \in DOMAIN subs : Out(s) \subseteq {0} \cup subs[s].until

(* A connection ends when the server stops; when the socket has closed, as  *)
(* soon as there is something to send.                                      *)
ConnectionEnds == stopped \/ (~open /\ waits) ~> ended
=============================================================================
