----------------------------- MODULE MCStreamLog -----------------------------
(* Model-checking definitions for StreamLog.                                *)
EXTENDS StreamLog, TLC

Symmetry == Permutations(Keys) \cup Permutations(Values)
=============================================================================
