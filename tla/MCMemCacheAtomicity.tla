------------------------- MODULE MCMemCacheAtomicity -------------------------
(* Model-checking definitions for the refinement of AtomicCache.            *)
EXTENDS MCMemCache, MemCacheAtomicity
=============================================================================
