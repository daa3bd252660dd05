-------------------------- MODULE MemCacheAtomicity --------------------------
(***************************************************************************)
(* MemCache implements AtomicCache.                                        *)
(***************************************************************************)
EXTENDS MemCache

(* The refinement mapping.  A call has taken effect when its result is set. *)
Value(e) == IF e = Nil THEN Nil ELSE [data |-> e.data, expiry |-> e.expiry, cas |-> e.cas]

Values(f) == [k \in Keys |-> Value(f[k])]

(* Nil is not the value of an entry. *)
ASSUME ValueAssumption == Nil \notin [data : Data, expiry : Nat, cas : Nat]

Reads(t) == req[t] # Nil /\ req[t].op \in {"Retrieve", "Get", "CurrentState"}

Contract == INSTANCE AtomicCache WITH
    map   <- Values(cache),
    call  <- req,
    reply <- [t \in Threads |-> loc[t].result],
    got   <- [t \in Threads |-> IF Reads(t) THEN Values(loc[t].snap) ELSE NoKeys],
    todo  <- [t \in Threads |-> CASE pc[t] \in {"gContains", "gIndex"} -> loc[t].todo
                                  [] pc[t] = "snapshot" -> Keys
                                  [] OTHER -> {}]

(* Every interleaving of the methods of MemCache.cs is one the contract     *)
(* allows: no update of an append or an incr is lost, two adds of a key do  *)
(* not both succeed, a replace or an append never revives a removed key, a  *)
(* retrieve returns values that were there, and the exceptions, lost        *)
(* touches and refused cas happen only after interference.                  *)
Atomicity == Contract!Spec
=============================================================================
