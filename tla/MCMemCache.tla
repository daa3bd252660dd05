----------------------------- MODULE MCMemCache -----------------------------
(* Model-checking definitions for MemCache: small sets of requests.         *)
EXTENDS MemCache, TLC

CONSTANTS k1, k2

R(op, k, d, expiry, cas, delta) ==
    [op |-> op, key |-> k, keys |-> {}, data |-> d, expiry |-> expiry, cas |-> cas,
     delta |-> delta]

Put1(op, k, len) == R(op, k, Text(len), 1, 0, 0)

RetrieveAll == [R("Retrieve", k1, Text(0), 0, 0, 0) EXCEPT !.keys = Keys]

(* Every operation but the timer's; those of k2 work on a number. *)
AllOperations ==
    {Put1(op, k1, 2) : op \in {"Store", "Add", "Replace", "Append"}}
        \cup {R("Store", k2, Number(9), 1, 0, 0), R("Mutate", k2, Text(0), 0, 0, 1),
              R("Cas", k1, Text(1), 1, 1, 0), RetrieveAll}
        \cup {R(op, k1, Text(0), 0, 0, 0) :
                 op \in {"Touch", "Remove", "Clear", "Get", "CurrentState"}}

AtomicityRequests == [t \in Threads |-> AllOperations]

Symmetry == Permutations(Threads)

(* The operations whose accounting is exact, the expiry timer among them.   *)
AccountingRequests ==
    [t \in Threads |->
        {R("Add", k1, Text(2), 0, 0, 0), Put1("Add", k2, 2), Put1("Append", k1, 2), RetrieveAll}
            \cup {R(op, k1, Text(0), 1, 0, 0) : op \in {"Touch", "Remove", "RemoveExpired"}}]

(* Stores and removes of one key, as in the tests of Used. *)
StoreRemoveRequests ==
    [t \in Threads |-> {Put1("Store", k1, 2), R("Remove", k1, Text(0), 0, 0, 0)}]

(* Adds and replaces of one key, by entries of one size, and as in the test *)
(* of their atomicity no add at the same time as a replace.                 *)
AddReplaceRequests == [t \in Threads |-> {Put1("Add", k1, 1), Put1("Replace", k1, 1)}]

AddsBeforeReplaces ==
    \A t, u \in Threads :
        req[t] # Nil /\ req[u] # Nil => ~(req[t].op = "Add" /\ req[u].op = "Replace")

(* One client that removes a key and then asks for it. *)
MissRequests ==
    [t \in Threads |-> {Put1("Add", k1, 2), Put1("Add", k2, 2), RetrieveAll,
                         R("Remove", k1, Text(0), 0, 0, 0)}]
=============================================================================
