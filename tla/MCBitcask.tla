------------------------------ MODULE MCBitcask ------------------------------
(* Model-checking definitions for Bitcask: sizes of the values.             *)
EXTENDS Bitcask, TLC

(* A file takes one record of a value, after up to one tombstone. *)
Sizes == [v \in AllValues |-> IF v = Empty THEN 0 ELSE 1]

Symmetry == Permutations(Keys) \cup Permutations(Values)
=============================================================================
