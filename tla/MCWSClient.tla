----------------------------- MODULE MCWSClient -----------------------------
(* A small instance of WSClient for TLC: the thread that is running, one that *)
(* was joined and one to spare, so that a second runner would have a place.   *)
EXTENDS WSClient

CONSTANTS t1, t2, t3

ThreeThreads == {t1, t2, t3}
=============================================================================
