---------------------------- MODULE MCSubscription ----------------------------
(* Model-checking definitions for Subscription: clicks in both threads, the *)
(* calls of other clients in one of them.                                   *)
EXTENDS Subscription, TLC

CONSTANTS t1, t2

CallsOf == t1 :> {"store"} @@ t2 :> {"store", "remove", "touch", "clear", "retrieve"}
=============================================================================
