---------------------------- MODULE RequestQueue ----------------------------
(***************************************************************************)
(* What WebSocketSession promises about subscription requests, with the    *)
(* connection, the callbacks and the replies left out: the requests it     *)
(* accepts go out to the server each exactly once, in the order in which   *)
(* they were accepted; only one that cannot be serialised may be passed    *)
(* over.  WSSession implements this module.                                *)
(***************************************************************************)
EXTENDS Sequences

CONSTANTS Request,          \* the subscription requests of the application
          Serialisable      \* those that can be sent

VARIABLES waiting,          \* the requests accepted and not yet sent, oldest first
          sent              \* the requests sent, oldest first

vars == <<waiting, sent>>

Init == waiting = <<>> /\ sent = <<>>

Accept(r) == waiting' = Append(waiting, r) /\ UNCHANGED sent

Leave == waiting # <<>> /\ waiting' = Tail(waiting)

Send == Leave /\ sent' = Append(sent, Head(waiting))

Skip == Leave /\ Head(waiting) \notin Serialisable /\ UNCHANGED sent

Next == (\E r \in Request : Accept(r)) \/ Send \/ Skip

Spec == Init /\ [][Next]_vars
=============================================================================
