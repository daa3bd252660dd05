----------------------------- MODULE DurableMap -----------------------------
(***************************************************************************)
(* What a persistent store promises: a map that the end of the process     *)
(* leaves as it is, and that the next process finds.  With two limits.  An *)
(* empty value is not kept.  And the write that the end of the process     *)
(* cuts short may have spoilt the entry it was for, or have left an entry  *)
(* nobody wrote.                                                           *)
(***************************************************************************)
CONSTANTS Keys, Values, Nil,
    Spoilt,     \* a value whose last bytes were never written
    Phantom     \* a key whose last bytes were never written

AllKeys == Keys \cup {Phantom}

VARIABLES
    map,      \* map[k]: the value kept for k, or Nil
    up        \* is a process running

vars == <<map, up>>

Init == map = [k \in AllKeys |-> Nil] /\ up = FALSE

With(k, v) == [map EXCEPT ![k] = v]

Write ==
    /\ up /\ UNCHANGED up
    /\ \E k \in AllKeys, v \in Values \cup {Nil} : map' = With(k, v)

Start == ~up /\ up' = TRUE /\ UNCHANGED map

Stop ==
    /\ up /\ up' = FALSE
    /\ map' \in {map, With(Phantom, Nil)} \cup {With(k, Spoilt) : k \in AllKeys}

Next == Write \/ Start \/ Stop

Spec == Init /\ [][Next]_vars
=============================================================================
