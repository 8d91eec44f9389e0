--------------------------- MODULE MCRateLimiter ---------------------------
(* RateLimiter with one thread and windows of four milliseconds. *)
EXTENDS RateLimiter

CONSTANTS t1

OneThread == {t1}
=============================================================================
