---------------------------- MODULE MCSubscription ----------------------------
(* Small instances of Subscription for TLC.                                   *)
EXTENDS Subscription

CONSTANTS d1, c1

MCDeltas == {-2, 1}
===============================================================================
