---------------------------- MODULE AtomicCache ----------------------------
(***************************************************************************)
(* What MemCache promises its callers: every call takes effect at one      *)
(* instant between its start and its return, as if the others did not      *)
(* exist, except that                                                      *)
(*   - the cache may drop any entry at any time (eviction, expiry);        *)
(*   - Retrieve reads its keys one by one;                                 *)
(*   - a call whose key another call changed while it ran (key in dirty)   *)
(*     may give up in the ways Lost, Vanished and Overwrite name.          *)
(* A call nothing interferes with has no such excuse.                      *)
(***************************************************************************)
EXTENDS CacheData

CONSTANTS Threads, Requests

VARIABLES
    map,      \* map[k]: the value of k, or Nil
    call,     \* call[t]: the request t is waiting for, or Nil
    reply,    \* reply[t]: how it ended, "none" before it took effect
    got,      \* got[t][k]: the value it read for k
    todo,     \* todo[t]: keys it has still to read
    dirty     \* dirty[t]: keys changed since the call began

vars == <<map, call, reply, got, todo, dirty>>

NoKeys == [k \in Keys |-> Nil]

Init ==
    /\ map = NoKeys
    /\ call = [t \in Threads |-> Nil]
    /\ reply = [t \in Threads |-> "none"]
    /\ got = [t \in Threads |-> NoKeys]
    /\ todo = [t \in Threads |-> {}]
    /\ dirty = [t \in Threads |-> {}]

NewValue(r) ==
    [data |-> r.data, expiry |-> r.expiry, cas |-> IF r.op = "Cas" THEN r.cas ELSE 0]

(* The keys in W were written or removed. *)
Smudge(W) == dirty' = [t \in Threads |-> IF call[t] = Nil THEN {} ELSE dirty[t] \cup W]

Put(k, v) == map' = [map EXCEPT ![k] = v] /\ Smudge({k})

Keep == UNCHANGED <<map, dirty>>

Answer(t, result) == reply' = [reply EXCEPT ![t] = result] /\ UNCHANGED <<call, got, todo>>

Start(t, r) ==
    /\ call[t] = Nil
    /\ call' = [call EXCEPT ![t] = r]
    /\ todo' = [todo EXCEPT ![t] = CASE r.op = "Retrieve" -> r.keys
                                     [] r.op = "CurrentState" -> Keys
                                     [] OTHER -> {}]
    /\ UNCHANGED <<map, reply, got, dirty>>

Finish(t) ==
    /\ reply[t] # "none"
    /\ call' = [call EXCEPT ![t] = Nil]
    /\ reply' = [reply EXCEPT ![t] = "none"]
    /\ got' = [got EXCEPT ![t] = NoKeys]
    /\ todo' = [todo EXCEPT ![t] = {}]
    /\ dirty' = [dirty EXCEPT ![t] = {}]
    /\ UNCHANGED map

Pending(t, ops) == call[t] # Nil /\ reply[t] = "none" /\ call[t].op \in ops

(* The calls that change the map, one at a time. *)
Write(t) ==
    LET r == call[t]  k == r.key  v == map[k] IN
    \/ /\ Pending(t, {"Store"})
       /\ Put(k, NewValue(r))
       /\ Answer(t, "ok")
    \/ /\ Pending(t, {"Add"})
       /\ IF v = Nil THEN Put(k, NewValue(r)) /\ Answer(t, "ok") ELSE Keep /\ Answer(t, "no")
    \/ /\ Pending(t, {"Replace"})
       /\ IF v # Nil THEN Put(k, NewValue(r)) /\ Answer(t, "ok") ELSE Keep /\ Answer(t, "no")
    \/ /\ Pending(t, {"Append"})
       /\ IF v # Nil THEN Put(k, [v EXCEPT !.data = Grown(r, @)]) /\ Answer(t, "ok")
          ELSE Keep /\ Answer(t, "no")
    \/ /\ Pending(t, {"Mutate"})
       /\ CASE v = Nil -> Keep /\ Answer(t, "no")
            [] v # Nil /\ v.data.num = NotANumber -> Keep /\ Answer(t, "throws")
            [] OTHER -> Put(k, [v EXCEPT !.data = Grown(r, @)]) /\ Answer(t, "ok")
    \/ /\ Pending(t, {"Touch"})
       /\ IF v # Nil THEN Put(k, [v EXCEPT !.expiry = r.expiry]) /\ Answer(t, "ok")
          ELSE Keep /\ Answer(t, "no")
    \/ /\ Pending(t, {"Cas"})
       /\ IF v = Nil \/ v.cas = r.cas THEN Put(k, NewValue(r)) /\ Answer(t, "ok")
          ELSE Keep /\ Answer(t, "no")
    \/ /\ Pending(t, {"Remove"})
       /\ IF v # Nil THEN Put(k, Nil) /\ Answer(t, "ok") ELSE Keep /\ Answer(t, "no")
    \/ /\ Pending(t, {"Clear"})
       /\ map' = NoKeys
       /\ Smudge({x \in Keys : map[x] # Nil})
       /\ Answer(t, "ok")

(* The calls that read it. *)
ReadOne(t) ==
    /\ Pending(t, {"Retrieve"})
    /\ \E k \in todo[t] :
          /\ got' = [got EXCEPT ![t][k] = map[k]]
          /\ todo' = [todo EXCEPT ![t] = @ \ {k}]
    /\ UNCHANGED <<map, call, reply, dirty>>

ReadAll(t) ==
    /\ Pending(t, {"CurrentState"})
    /\ todo[t] = Keys
    /\ got' = [got EXCEPT ![t] = map]
    /\ todo' = [todo EXCEPT ![t] = {}]
    /\ UNCHANGED <<map, call, reply, dirty>>

Get(t) ==
    LET k == call[t].key IN
    /\ Pending(t, {"Get"})
    /\ map[k] # Nil
    /\ got' = [got EXCEPT ![t][k] = map[k]]
    /\ reply' = [reply EXCEPT ![t] = "ok"]
    /\ UNCHANGED <<map, call, todo, dirty>>

Complete(t) ==
    /\ Pending(t, {"Retrieve", "CurrentState", "RemoveExpired"})
    /\ todo[t] = {}
    /\ Keep
    /\ Answer(t, "ok")

(* A touch reported as done, or a cas refused, because the entry changed.   *)
Lost(t) ==
    /\ Pending(t, {"Touch", "Cas"})
    /\ call[t].key \in dirty[t]
    /\ Keep
    /\ Answer(t, IF call[t].op = "Touch" THEN "ok" ELSE "no")

(* A cas that found no entry, and stores over the one that has appeared.    *)
Overwrite(t) ==
    /\ Pending(t, {"Cas"})
    /\ call[t].key \in dirty[t]
    /\ Put(call[t].key, NewValue(call[t]))
    /\ Answer(t, "ok")

(* KeyNotFoundException: the key was seen and is gone.  Get needs no seeing. *)
Vanished(t) ==
    /\ \/ /\ Pending(t, {"Store", "Cas", "Replace"})
          /\ call[t].key \in dirty[t]
          /\ map[call[t].key] = Nil
       \/ /\ Pending(t, {"Retrieve"})
          /\ \E k \in todo[t] \cap dirty[t] : map[k] = Nil
       \/ /\ Pending(t, {"Get"})
          /\ map[call[t].key] = Nil
    /\ reply' = [reply EXCEPT ![t] = "throws"]
    /\ todo' = [todo EXCEPT ![t] = {}]
    /\ UNCHANGED <<map, call, got, dirty>>

Drop(k) ==
    /\ map[k] # Nil
    /\ Put(k, Nil)
    /\ UNCHANGED <<call, reply, got, todo>>

Next ==
    \/ \E t \in Threads :
          \/ \E r \in Requests[t] : Start(t, r)
          \/ Finish(t) \/ Write(t) \/ ReadOne(t) \/ ReadAll(t) \/ Get(t)
          \/ Complete(t) \/ Lost(t) \/ Overwrite(t) \/ Vanished(t)
    \/ \E k \in Keys : Drop(k)

Spec == Init /\ [][Next]_vars
=============================================================================
