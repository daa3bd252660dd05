----------------------------- MODULE CacheData -----------------------------
(***************************************************************************)
(* What clients hand to the cache: byte arrays, reduced to their length    *)
(* and the number they parse as, and the requests the methods of MemCache  *)
(* take.  Shared by the cache and by the specification of its contract.    *)
(***************************************************************************)
EXTENDS Integers, FiniteSets

CONSTANTS
    Keys,
    Nil,          \* "no entry", "no key", "no request", "nobody holds the lock"
    UlongMod,     \* 2^64: incr and decr wrap around
    MaxDigits     \* decimal digits of UlongMod - 1: 20

NotANumber == -1    \* Data that ulong.Parse rejects

Data == [len : Nat, num : Int]

Ops == {"Store", "Add", "Replace", "Append", "Cas", "Mutate", "Touch", "Remove",
        "Clear", "Retrieve", "Get", "RemoveExpired", "CurrentState"}

(* One call.  keys is for Retrieve, delta is what Mutate adds; an operation *)
(* ignores the fields it has no parameter for.                              *)
Request == [op : Ops, key : Keys, keys : SUBSET Keys, data : Data,
            expiry : Nat, cas : Nat, delta : Int]

Results == {"none", "ok", "no", "throws"}

ASSUME UlongAssumption == UlongMod \in Nat \ {0} /\ MaxDigits \in Nat \ {0}

DecimalLength(n) == 1 + Cardinality({d \in 1..(MaxDigits - 1) : n >= 10^d})

Number(n) == [len |-> DecimalLength(n), num |-> n]
Text(l) == [len |-> l, num |-> NotANumber]

(* Append and prepend are used with data that does not parse as a number. *)
Concat(d, e) == Text(d.len + e.len)

(* What Append and Mutate put where d was. *)
Grown(r, d) ==
    IF r.op = "Append" THEN Concat(d, r.data) ELSE Number((d.num + r.delta) % UlongMod)
=============================================================================
