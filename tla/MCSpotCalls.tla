---------------------------- MODULE MCSpotCalls ----------------------------
(* SpotCalls with one thread, windows of three milliseconds and one stream. *)
EXTENDS SpotCalls

CONSTANTS t1, k1, k2, stream

OneThread == {t1}
TwoKeys == {k1, k2}
OneStream == {stream}
=============================================================================
