---------------------------- MODULE PartitionGrain ----------------------------
(***************************************************************************)
(* Replicated partitions (PartitionGrain.cs): each grain has a cache of    *)
(* its own; a put goes to the first partition the ring names for its key   *)
(* and from there to the others, one after the other; a get that misses    *)
(* asks the replicas and stores what the first of them has, locally and on *)
(* the rest of them.                                                       *)
(*                                                                         *)
(* A grain runs one call at a time and up to its next await without a      *)
(* pause; while it waits for another grain it takes no other call, not     *)
(* even one of its own.  Calls fail: the callee throws, the caller stops   *)
(* waiting (and what it asked for is done later or not at all), the        *)
(* activation of a grain ends and its cache with it.                       *)
(***************************************************************************)
EXTENDS HashRing, SequencesExt

CONSTANTS
    Keys, Nil,
    KeyHash,         \* KeyHash[k]: Hash(k)
    Placement,       \* the sequence of the nodes the ring is built from
    ReplicaCount,
    MaxPuts, MaxGets,    \* bounds: calls of clients
    MaxFailures      \* bound: calls that throw, activations that end

(* Every put has a value of its own. *)
Values == 1..MaxPuts

Partitions == Nodes

ASSUME GrainAssumption ==
    /\ KeyHash \in [Keys -> Nat]
    /\ Placement \in Seq(Nodes) /\ Placement # <<>>
    /\ \A i \in DOMAIN Placement : PointsOf[Placement[i]] # {}
    /\ ReplicaCount \in Nat \ {0} /\ {MaxPuts, MaxGets, MaxFailures} \subseteq Nat

(* The ring is built once, from all partitions, one after the other.        *)
Ring == FoldLeft(AddNode, EmptyRing, Placement)

GetReplicas == [k \in Keys |-> GetNodes(Ring, KeyHash[k], ReplicaCount)]
Primary(k) == GetReplicas[k][1]
Replicas(k) == ToSet(GetReplicas[k])

Operations == {"put", "get", "putReplica", "getReplica"}

Request == [to : Partitions, op : Operations, key : Keys, val : Values \cup {Nil},
            from : Partitions \cup {Nil}]
Answer == [status : {"idle", "waiting", "ok", "error"}, val : Values \cup {Nil}]
Turn == [op : {"put", "ask", "forward"}, key : Keys, val : Values \cup {Nil},
         from : Partitions \cup {Nil}, skip : SUBSET Partitions, todo : Seq(Partitions)]

ASSUME NilAssumption == Nil \notin Values \cup Partitions \cup Turn

VARIABLES
    cache,       \* cache[p][k]: the value in the cache of p, or Nil
    turn,        \* turn[p]: the call p waits for a reply in, or Nil; todo: the replica
                 \* it waits for and those that follow, but for the ones it skips
    requests,    \* requests sent and not begun
    answer,      \* answer[p]: of the call p has made, if any
    puts, gets, failures,    \* counted for the bounds
    \* History: of each key, the value of the last put that went through;
    \* whether nothing else changed a replica since; and since the put in
    \* progress began.
    latest, agreed, steady

vars == <<cache, turn, requests, answer, puts, gets, failures, latest, agreed, steady>>

Idle == [status |-> "idle", val |-> Nil]
Waiting == [status |-> "waiting", val |-> Nil]
Error == [status |-> "error", val |-> Nil]
Ok(v) == [status |-> "ok", val |-> v]

Init ==
    /\ cache = [p \in Partitions |-> [k \in Keys |-> Nil]]
    /\ turn = [p \in Partitions |-> Nil]
    /\ requests = {}
    /\ answer = [x \in Partitions |-> Idle]
    /\ puts = 0 /\ gets = 0 /\ failures = 0
    /\ latest = [k \in Keys |-> Nil]
    /\ agreed = [k \in Keys |-> TRUE] /\ steady = [k \in Keys |-> TRUE]

-----------------------------------------------------------------------------
(* History: keys of which a replica changed.                                *)
Changed == {k \in Keys : \E r \in Replicas(k) : cache'[r][k] # cache[r][k]}

Disturb(ks) ==
    /\ agreed' = [k \in Keys |-> agreed[k] /\ k \notin ks]
    /\ steady' = [k \in Keys |-> steady[k] /\ k \notin ks]
    /\ UNCHANGED latest

Undisturbed == UNCHANGED <<latest, agreed, steady>>

-----------------------------------------------------------------------------
(* Clients *)

(* A client's call; what it is answered matters to nobody else.  As the     *)
(* tests call the service: puts to the first replica, gets anywhere.        *)
CallPut(k) ==
    /\ puts < MaxPuts /\ puts' = puts + 1
    /\ requests' = requests \cup
            {[to |-> Primary(k), op |-> "put", key |-> k, val |-> puts + 1, from |-> Nil]}
    /\ UNCHANGED <<cache, turn, answer, gets, failures>> /\ Undisturbed

CallGet(p, k) ==
    /\ gets < MaxGets /\ gets' = gets + 1
    /\ requests' = requests \cup
            {[to |-> p, op |-> "get", key |-> k, val |-> Nil, from |-> Nil]}
    /\ UNCHANGED <<cache, turn, answer, puts, failures>> /\ Undisturbed

-----------------------------------------------------------------------------
(* A grain *)

Answered(x, reply) ==
    [y \in Partitions |-> IF y = x THEN reply ELSE answer[y]]

(* Store in the cache of p: other entries may be evicted.                   *)
Store(p, k, v) ==
    \E evicted \in SUBSET {j \in Keys \ {k} : cache[p][j] # Nil} :
        /\ cache' = [cache EXCEPT ![p] =
                        [j \in Keys |-> IF j = k THEN v ELSE IF j \in evicted THEN Nil ELSE @[j]]]
        /\ evicted # {} => failures < MaxFailures
        /\ failures' = IF evicted # {} THEN failures + 1 ELSE failures

(* Where: the rest of the replicas, from the first that is not skipped.     *)
From(replicas, skip) ==
    LET next == {i \in DOMAIN replicas : replicas[i] \notin skip} IN
    IF next = {} THEN <<>> ELSE SubSeq(replicas, LeastOf(next), Len(replicas))

(* Run on to the next await: the next call t has to do, or its reply.       *)
Continue(p, t, reply, pending) ==
    IF t.todo = <<>>
    THEN /\ turn' = [turn EXCEPT ![p] = Nil]
         /\ answer' = [Answered(t.from, reply) EXCEPT ![p] = Idle]
         /\ requests' = pending
    ELSE /\ turn' = [turn EXCEPT ![p] = t]
         /\ answer' = [answer EXCEPT ![p] = Waiting]
         /\ requests' = pending \cup
                {[to |-> Head(t.todo), op |-> IF t.op = "ask" THEN "getReplica" ELSE "putReplica",
                  key |-> t.key, val |-> t.val, from |-> p]}

(* A request p begins with.                                                 *)
Begins(p, r, op) == r \in requests /\ r.to = p /\ r.op = op /\ turn[p] = Nil

OthersOf(k) == Tail(GetReplicas[k])

(* Mutant: the call does not wait for the replicas it has not reached. *)
BeginPut_Once(p, r) ==
    /\ Begins(p, r, "put")
    /\ Store(p, r.key, r.val)
    /\ Continue(p, [op |-> "put", key |-> r.key, val |-> r.val, from |-> r.from,
                    skip |-> {}, todo |-> SubSeq(OthersOf(r.key), 1, 1)], Ok(Nil), requests \ {r})
    /\ steady' = [k \in Keys |-> k = r.key \/ (steady[k] /\ k \notin Changed)]
    /\ agreed' = [k \in Keys |-> agreed[k] /\ (k = r.key \/ k \notin Changed)]
    /\ UNCHANGED <<puts, gets, latest>>

(* PutAsync: the local cache, then the first of the others.                 *)
BeginPut(p, r) ==
    /\ Begins(p, r, "put")
    /\ Store(p, r.key, r.val)
    /\ Continue(p, [op |-> "put", key |-> r.key, val |-> r.val, from |-> r.from,
                    skip |-> {}, todo |-> OthersOf(r.key)], Ok(Nil), requests \ {r})
    /\ steady' = [k \in Keys |-> k = r.key \/ (steady[k] /\ k \notin Changed)]
    /\ agreed' = [k \in Keys |-> IF k # r.key THEN agreed[k] /\ k \notin Changed
                                 ELSE agreed[k] \/ OthersOf(k) = <<>>]
    /\ latest' = IF OthersOf(r.key) = <<>> THEN [latest EXCEPT ![r.key] = r.val] ELSE latest
    /\ UNCHANGED <<puts, gets>>

(* PutReplicaAsync *)
PutReplica(p, r) ==
    /\ Begins(p, r, "putReplica")
    /\ Store(p, r.key, r.val)
    /\ requests' = requests \ {r}
    /\ answer' = Answered(r.from, Ok(Nil))
    /\ Disturb(IF r.from # Nil /\ turn[r.from].op = "put" THEN Changed \ {r.key} ELSE Changed)
    /\ UNCHANGED <<turn, puts, gets>>

(* GetAsync: what the local cache has, or the replicas are asked.           *)
BeginGet(p, r) ==
    /\ Begins(p, r, "get")
    /\ LET todo == IF cache[p][r.key] # Nil THEN <<>> ELSE From(GetReplicas[r.key], {p}) IN
       Continue(p, [op |-> "ask", key |-> r.key, val |-> Nil, from |-> r.from,
                    skip |-> {p}, todo |-> todo], Ok(cache[p][r.key]), requests \ {r})
    /\ UNCHANGED <<cache, puts, gets, failures>> /\ Undisturbed

(* GetReplicaAsync *)
GetReplica(p, r) ==
    /\ Begins(p, r, "getReplica")
    /\ requests' = requests \ {r}
    /\ answer' = Answered(r.from, Ok(cache[p][r.key]))
    /\ UNCHANGED <<cache, turn, puts, gets, failures>> /\ Undisturbed

(* The reply p waits for is there.                                          *)
Replied(p, op) == turn[p] # Nil /\ turn[p].op = op /\ answer[p].status = "ok"

Onward(p) == [turn[p] EXCEPT !.todo = From(Tail(@), turn[p].skip)]

(* PutAsync goes on with the next replica; history: or the put is through.  *)
ResumePut(p) ==
    /\ Replied(p, "put")
    /\ Continue(p, Onward(p), Ok(Nil), requests)
    /\ LET k == turn[p].key IN
       IF Tail(turn[p].todo) = <<>>
       THEN /\ latest' = [latest EXCEPT ![k] = turn[p].val]
            /\ agreed' = [agreed EXCEPT ![k] = steady[k]]
            /\ UNCHANGED steady
       ELSE Undisturbed
    /\ UNCHANGED <<cache, puts, gets, failures>>

(* GetAsync: the replica has nothing, on to the next one.                   *)
ResumeAsk(p) ==
    /\ Replied(p, "ask") /\ answer[p].val = Nil
    /\ Continue(p, Onward(p), Ok(Nil), requests)
    /\ UNCHANGED <<cache, puts, gets, failures>> /\ Undisturbed

(* GetAsync: the first value is stored, then put on the other replicas.     *)
Repair(p) ==
    /\ Replied(p, "ask") /\ answer[p].val # Nil
    /\ LET t == turn[p]
           v == answer[p].val
           skip == {p, Head(t.todo)}
           rest == From(GetReplicas[t.key], skip)
       IN /\ Store(p, t.key, v)
          /\ Continue(p, [t EXCEPT !.op = "forward", !.val = v, !.skip = skip, !.todo = rest],
                      Ok(v), requests)
    /\ Disturb(Changed)
    /\ UNCHANGED <<puts, gets>>

ResumeForward(p) ==
    /\ Replied(p, "forward")
    /\ Continue(p, Onward(p), Ok(turn[p].val), requests)
    /\ UNCHANGED <<cache, puts, gets, failures>> /\ Undisturbed

(* History: the key of a put that ends before it is through.                *)
PutOf(p) == IF turn[p] # Nil /\ turn[p].op = "put" THEN {turn[p].key} ELSE {}

(* No call is in a try block: the reply is the exception.                   *)
Fail(p) ==
    /\ turn[p] # Nil /\ answer[p] = Error
    /\ turn' = [turn EXCEPT ![p] = Nil]
    /\ answer' = [Answered(turn[p].from, Error) EXCEPT ![p] = Idle]
    /\ Disturb(PutOf(p))
    /\ UNCHANGED <<cache, requests, puts, gets, failures>>

-----------------------------------------------------------------------------
(* Failures *)

(* Nobody waits any more for what p asked for: it is done later or not.     *)
Abandon(p) ==
    LET asked == {r \in requests : r.from = p} IN
    requests' \in {requests \ asked,
                   (requests \ asked) \cup {[r EXCEPT !.from = Nil] : r \in asked}}

Orphaned(p) ==
    [q \in Partitions |-> IF turn[q] # Nil /\ turn[q].from = p
                          THEN [turn[q] EXCEPT !.from = Nil] ELSE turn[q]]

(* Mutant: the exception ends the call and not the turn. *)
TimeOut_Busy(p) ==
    /\ answer[p] = Waiting
    /\ answer' = [answer EXCEPT ![p] = Idle]
    /\ Abandon(p) /\ turn' = Orphaned(p)
    /\ UNCHANGED <<cache, puts, gets, failures>> /\ Undisturbed

(* The call takes too long: p gets a TimeoutException.                      *)
TimeOut(p) ==
    /\ answer[p] = Waiting
    /\ answer' = [answer EXCEPT ![p] = Error]
    /\ Abandon(p) /\ turn' = Orphaned(p)
    /\ UNCHANGED <<cache, puts, gets, failures>> /\ Undisturbed

(* The call throws before it has done anything.                             *)
Throw(p, r) ==
    /\ r \in requests /\ r.to = p /\ failures < MaxFailures
    /\ requests' = requests \ {r}
    /\ answer' = Answered(r.from, Error)
    /\ failures' = failures + 1
    /\ UNCHANGED <<cache, turn, puts, gets>> /\ Undisturbed

(* Mutant: the reply to a call of the last activation is waited for. *)
Deactivate_Waits(p) ==
    /\ failures < MaxFailures
    /\ failures' = failures + 1
    /\ cache' = [cache EXCEPT ![p] = [k \in Keys |-> Nil]]
    /\ turn' = [Orphaned(p) EXCEPT ![p] = Nil]
    /\ Disturb(Changed \cup PutOf(p))
    /\ UNCHANGED <<answer, requests, puts, gets>>

(* The activation of p ends, idle or with its silo; the next call begins    *)
(* with an empty cache.  (The restore of an activation puts an empty log in *)
(* the place of the one its archiver has open, on a file system that opens  *)
(* an open file again; on another no activation succeeds.)                  *)
Deactivate(p) ==
    /\ failures < MaxFailures
    /\ failures' = failures + 1
    /\ cache' = [cache EXCEPT ![p] = [k \in Keys |-> Nil]]
    /\ turn' = [Orphaned(p) EXCEPT ![p] = Nil]
    /\ answer' = [answer EXCEPT ![p] = Idle]
    /\ Abandon(p)
    /\ Disturb(Changed \cup PutOf(p))
    /\ UNCHANGED <<puts, gets>>

-----------------------------------------------------------------------------
Begin(p) == \E r \in requests :
    BeginPut(p, r) \/ PutReplica(p, r) \/ BeginGet(p, r) \/ GetReplica(p, r)

Resume(p) == ResumePut(p) \/ ResumeAsk(p) \/ Repair(p) \/ ResumeForward(p) \/ Fail(p)

Next ==
    \/ \E k \in Keys : CallPut(k) \/ \E p \in Partitions : CallGet(p, k)
    \/ \E p \in Partitions : Begin(p) \/ Resume(p) \/ TimeOut(p) \/ Deactivate(p)
    \/ \E p \in Partitions, r \in requests : Throw(p, r)

(* A grain goes on once the reply is there, and its calls time out.         *)
Fairness == \A p \in Partitions : WF_vars(Resume(p)) /\ WF_vars(TimeOut(p))

Spec == Init /\ [][Next]_vars /\ Fairness

-----------------------------------------------------------------------------
(* Properties *)

(* Besides the types: a grain has a call under way exactly while it is in   *)
(* the middle of one itself, and no request of an earlier one is left.      *)
TypeOK ==
    /\ cache \in [Partitions -> [Keys -> Values \cup {Nil}]]
    /\ turn \in [Partitions -> Turn \cup {Nil}]
    /\ requests \subseteq Request
    /\ answer \in [Partitions -> Answer]
    /\ puts \in 0..MaxPuts /\ gets \in 0..MaxGets /\ failures \in 0..MaxFailures
    /\ latest \in [Keys -> Values \cup {Nil}]
    /\ agreed \in [Keys -> BOOLEAN] /\ steady \in [Keys -> BOOLEAN]
    /\ \A p \in Partitions :
        /\ turn[p] = Nil <=> answer[p] = Idle
        /\ turn[p] # Nil => turn[p].todo # <<>>
        /\ \A r \in requests : r.from = p => answer[p] = Waiting /\ r.to = Head(turn[p].todo)

(* What the put of k in progress has behind it: the primary and the         *)
(* replicas that replied; and what it has not sent anything to yet.         *)
Putting(k) == turn[Primary(k)] # Nil /\ turn[Primary(k)].op = "put" /\ turn[Primary(k)].key = k
Passed(k, t) ==
    {GetReplicas[k][i] : i \in 1..(ReplicaCount - Len(t.todo))}
Ahead(k, t) == Replicas(k) \ (Passed(k, t) \cup {Head(t.todo)})

(* A put that went through is on every replica the ring names, and stays    *)
(* there until the next put, unless one of these came between: a put that   *)
(* failed, a late request of one, a repair with an old value, a lost cache. *)
(* A put in progress changes the replicas in the order of the ring.         *)
ReplicasAgree ==
    \A k \in Keys :
        IF Putting(k)
        THEN LET t == turn[Primary(k)] IN
             /\ steady[k] => \A r \in Passed(k, t) : cache[r][k] = t.val
             /\ steady[k] /\ agreed[k] => \A r \in Ahead(k, t) : cache[r][k] = latest[k]
        ELSE agreed[k] => \A r \in Replicas(k) : cache[r][k] = latest[k]

(* A grain does not wait for ever, whoever waits for whom: grains that put  *)
(* to each other, or to themselves when the ring names one twice.           *)
GrainsFree == \A p \in Partitions : turn[p] # Nil ~> turn[p] = Nil
=============================================================================
