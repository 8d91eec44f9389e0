----------------------------- MODULE WSSession -----------------------------
(***************************************************************************)
(* WebSocketSession: one WebSocket connection to the MEXC futures feed.    *)
(*                                                                         *)
(* All handlers run on the single thread of the io_context (WSClient shows *)
(* that there is one), so they exclude each other; the application thread  *)
(* calls subscribe() and isSubscribed() at any time, and the mutex         *)
(* `subscriptionLocker' is released several times inside onRead().  Those  *)
(* release points split onRead() into the steps below ("handler").         *)
(*                                                                         *)
(* Asio and Beast are external: an operation that was started is counted   *)
(* in `pending' until its completion handler runs, with an outcome chosen  *)
(* by the environment.                                                     *)
(***************************************************************************)
EXTENDS Naturals, Sequences

CONSTANTS
    Request,             \* subscription requests: records with .method, .symbol
    Serialisable,        \* those whose dump() does not throw: every string in
                         \* them is valid UTF-8
    Null,                \* the null JSON value
    SymbolAtTop,         \* TRUE: "symbol" is a top-level key of a request;
                         \* FALSE: it is under "param", as toJson() puts it
    AppCloses,           \* TRUE: the holder of the session also calls close()
    HandlersThrow,       \* TRUE: the log function may throw (no JSON exception)
    MaxRequests,         \* bound: requests accepted in a behaviour
    MaxPings,            \* bound: pings outstanding at a time
    MaxCloses            \* bound: closes outstanding at a time

ASSUME NullAssumption == Null \notin Request
ASSUME SerialisableAssumption == Serialisable \subseteq Request
ASSUME BoundAssumption ==
    /\ MaxRequests \in Nat \ {0} /\ MaxPings \in Nat /\ MaxCloses \in Nat
    /\ {SymbolAtTop, AppCloses, HandlersThrow} \subseteq BOOLEAN

VARIABLES
    subscriptionRequests,   \* the queue: accepted, not yet written
    subscribing,            \* the request whose reply is awaited (one slot)
    subscriptions,          \* what isSubscribed() looks in: copies of each entry
    pending,                \* asynchronous operations started, not yet handled
    pingTimer,              \* the wait on pingTimer
    conn,                   \* the connection
    handler,                \* what remains to do of the onRead() in progress
    held,                   \* TRUE: the application holds a shared_ptr
    written,                \* history: the frames handed to async_write, in order
    replied,                \* history: how many of them the server has dealt with
    acked,                  \* history: the requests the server has confirmed
    crossed                 \* history: a request was taken before the reply to
                            \* the one before, whose slot it took

vars == <<subscriptionRequests, subscribing, subscriptions, pending, pingTimer,
          conn, handler, held, written, replied, acked, crossed>>

queue  == <<subscriptionRequests, subscribing, crossed>>
server == <<replied, acked>>

\* The operations whose handlers capture `self' and keep the session alive,
\* and those whose handlers capture only `this'.
ChainOps == {"resolve", "connect", "ssl", "handshake", "write", "read"}
Ops == ChainOps \cup {"ping", "close"}

Entry == Request \cup {Null}

\* A frame: the request whose turn it was (Null: none), and what becomes of its
\* text: it arrives whole, is gone when it is sent, or was empty from the start.
Frame == {frame \in [req : Entry, text : {"whole", "gone", "empty"}] :
             frame.text = "empty" <=> frame.req \notin Serialisable}

Kept  == \/ \E op \in ChainOps : pending[op] > 0
         \/ pingTimer # "off"
         \/ handler # "none"
Alive == held \/ Kept

TypeOK ==
    /\ subscriptionRequests \in Seq(Request)
    /\ subscribing \in Entry
    /\ subscriptions \in [Entry -> Nat]
    /\ pending \in [Ops -> Nat]
    /\ pingTimer \in {"off", "armed", "expired", "cancelled"}
    /\ conn \in {"new", "connecting", "open", "closing", "closed"}
    /\ handler \in {"none", "pump", "quit"}
    /\ held \in BOOLEAN
    /\ written \in Seq(Frame)
    /\ replied \in 0 .. Len(written)
    /\ acked \in SUBSET Request
    /\ crossed \in BOOLEAN

Init ==
    /\ subscriptionRequests = <<>>
    /\ subscribing = Null
    /\ subscriptions = [e \in Entry |-> 0]
    /\ pending = [op \in Ops |-> 0]
    /\ pingTimer = "off"
    /\ conn = "new"
    /\ handler = "none"
    /\ held = TRUE
    /\ written = <<>>
    /\ replied = 0
    /\ acked = {}
    /\ crossed = FALSE

\* The effect on `pending' of starting an operation, of its completion handler,
\* and of a handler that starts the next operation.
Started(op)        == [pending EXCEPT ![op] = @ + 1]
Done(op)           == [pending EXCEPT ![op] = @ - 1]
DoneStarted(op, o) == [pending EXCEPT ![op] = @ - 1, ![o] = @ + 1]

-----------------------------------------------------------------------------
(* The application's side: any thread, between any two steps of a handler. *)

\* What may become of writeSubscription(r).  The loop throws at a null entry unless
\* it returns before.  A request in param form has no top-level "symbol": comparing
\* the missing keys is undefined.
Outcomes(r) ==
    LET sameMethod == {s \in Request : subscriptions[s] > 0 /\ s.method = r.method}
        isEqual    == \E s \in sameMethod : s.symbol = r.symbol
        throws     == subscriptions[Null] > 0
    IN  {outcome \in {"queued", "dropped", "thrown"} :
            \/ outcome = "thrown" /\ throws
            \/ outcome = "dropped" /\ (isEqual \/ (~SymbolAtTop /\ sameMethod # {}))
            \/ outcome = "queued" /\ ~throws /\ ~(SymbolAtTop /\ isEqual)}

\* Mutant: the request goes to the front of the list.
Enqueue_Front(r) == <<r>> \o subscriptionRequests

Enqueue(r) == Append(subscriptionRequests, r)

WriteSubscription(r, outcome) ==
    /\ Len(written) + Len(subscriptionRequests) < MaxRequests
    /\ outcome \in Outcomes(r)
    /\ subscriptionRequests' = IF outcome = "queued" THEN Enqueue(r) ELSE subscriptionRequests

\* Mutant: a request counts as subscribed as soon as it is queued.
IsSubscribed_Queued(r) ==
    subscriptions[r] > 0 \/ \E i \in 1 .. Len(subscriptionRequests) : subscriptionRequests[i] = r

IsSubscribed(r) == subscriptions[r] > 0

Run(r) ==
    /\ held /\ conn = "new"
    /\ WriteSubscription(r, "queued")
    /\ conn' = "connecting"
    /\ pending' = Started("resolve")
    /\ UNCHANGED <<subscribing, crossed, subscriptions, pingTimer, handler, held, written,
                   server>>

Subscribe(r, outcome) ==
    /\ held /\ conn # "new"
    /\ WriteSubscription(r, outcome)
    /\ UNCHANGED <<subscribing, crossed, subscriptions, pending, pingTimer, conn, handler,
                   held, written, server>>

\* WSClient keeps only a weak_ptr: it takes a shared_ptr for one call.
Acquire ==
    /\ ~held /\ Kept
    /\ held' = TRUE
    /\ UNCHANGED <<queue, subscriptions, pending, pingTimer, conn, handler, written, server>>

Release ==
    /\ held /\ conn # "new"
    /\ held' = FALSE
    /\ UNCHANGED <<queue, subscriptions, pending, pingTimer, conn, handler, written, server>>

-----------------------------------------------------------------------------
(* Closing, the ping timer.                                                *)

\* async_close(): on a stream that is not open it only fails, later, in
\* onClose().
CloseWs == conn' = IF conn = "open" THEN "closing" ELSE conn

Close ==
    /\ AppCloses /\ held /\ conn # "new"
    /\ pending["close"] < MaxCloses
    /\ CloseWs
    /\ pending' = Started("close")
    /\ UNCHANGED <<queue, subscriptions, pingTimer, handler, held, written, server>>

\* pingTimer.cancel(): a wait that has expired already is not cancelled.
CancelTimer == pingTimer' = IF pingTimer = "armed" THEN "cancelled" ELSE pingTimer

TimerExpires ==
    /\ pingTimer = "armed"
    /\ pending["ping"] < MaxPings
    /\ pingTimer' = "expired"
    /\ UNCHANGED <<queue, subscriptions, pending, conn, handler, held, written, server>>

\* Mutant: the timer is not armed again after a ping.
Ping_Once ==
    /\ pingTimer' = "off"
    /\ pending' = IF conn = "open" THEN Started("ping") ELSE pending

\* ping(), and the timer is armed again, whatever the state of the connection.
Ping ==
    /\ pingTimer' = "armed"
    /\ pending' = IF conn = "open" THEN Started("ping") ELSE pending

\* Mutant: the early return on a cancelled wait is missing.
OnPingTimer_NoReturn ==
    /\ handler = "none" /\ pingTimer \in {"expired", "cancelled"}
    /\ Ping
    /\ UNCHANGED <<queue, subscriptions, conn, handler, held, written, server>>

\* The handler returns at once, for a wait that was cancelled.
TimerEnds ==
    /\ handler = "none"
    /\ pingTimer' = "off"
    /\ UNCHANGED <<queue, subscriptions, pending, conn, handler, held, written, server>>

OnPingTimer ==
    \/ pingTimer = "cancelled" /\ TimerEnds
    \/ /\ handler = "none" /\ pingTimer = "expired"
       /\ Ping
       /\ UNCHANGED <<queue, subscriptions, conn, handler, held, written, server>>

OnPing ==
    /\ handler = "none" /\ pending["ping"] > 0
    /\ pending' = Done("ping")
    /\ conn' \in {conn, "closed"}
    /\ UNCHANGED <<queue, subscriptions, pingTimer, handler, held, written, server>>

OnClose ==
    /\ handler = "none" /\ pending["close"] > 0
    /\ pending' = Done("close")
    /\ CancelTimer
    /\ conn' = IF conn = "closing" THEN "closed" ELSE conn
    /\ UNCHANGED <<queue, subscriptions, handler, held, written, server>>

-----------------------------------------------------------------------------
(* Connecting.                                                             *)

\* A handler is told of an error and starts nothing.
Failed(op) ==
    /\ handler = "none" /\ pending[op] > 0
    /\ pending' = Done(op)
    /\ conn' = "closed"
    /\ UNCHANGED <<queue, subscriptions, pingTimer, handler, held, written, server>>

\* Or it starts the next operation.
Advances(op, next) ==
    /\ handler = "none" /\ pending[op] > 0
    /\ pending' = DoneStarted(op, next)
    /\ UNCHANGED <<queue, subscriptions, pingTimer, conn, handler, held, written, server>>

OnResolve      == Advances("resolve", "connect") \/ Failed("resolve")
OnConnect      == Advances("connect", "ssl") \/ Failed("connect")
OnSSLHandshake == Advances("ssl", "handshake") \/ Failed("ssl")

\* readSubscription() puts the first request in the slot, whatever is in it,
\* before it serialises it; if that throws, the request is removed all the same.
TakeSlot ==
    /\ subscriptionRequests # <<>>
    /\ subscribing' = Head(subscriptionRequests)
    /\ crossed' = (crossed \/ replied < Len(written))

Take == TakeSlot /\ subscriptionRequests' = Tail(subscriptionRequests)

\* async_write() of what readSubscription() returned for r.  The frame's buffer is
\* a temporary: Beast copies it at once unless a ping or a close holds the stream's
\* write lock, and otherwise reads it after it was destroyed.
Write(r) ==
    \E frame \in Frame :
        /\ frame.req = r
        /\ frame.text = "gone" => pending["ping"] + pending["close"] > 0
        /\ written' = Append(written, frame)

SendNext == \/ Take /\ Write(Head(subscriptionRequests))
            \/ subscriptionRequests = <<>> /\ UNCHANGED queue /\ Write(Null)

\* The connection is open, and the wait for the first ping begins.
Opened ==
    /\ handler = "none" /\ pending["handshake"] > 0
    /\ conn' = "open"
    /\ pingTimer' = "armed"
    /\ UNCHANGED <<subscriptions, held, server>>

FirstWrite ==
    /\ Opened
    /\ pending' = DoneStarted("handshake", "write")
    /\ SendNext
    /\ UNCHANGED handler

OnHandshake == FirstWrite \/ Failed("handshake")

-----------------------------------------------------------------------------
(* The half-duplex loop: write a request, read messages, write the next.   *)

Up == conn \in {"open", "closing"}

\* A failed write leaves the ping timer running.
OnWrite == (Up /\ Advances("write", "read")) \/ Failed("write")

\* A message has arrived.
MessageRead ==
    /\ handler = "none" /\ pending["read"] > 0 /\ Up
    /\ pending["close"] < MaxCloses
    /\ UNCHANGED <<subscriptionRequests, crossed, pingTimer, held, written>>

\* onRead() goes on with the next request, or is left by an exception.
GoesOn == pending' = Done("read") /\ handler' = "pump" /\ UNCHANGED conn
Leaves == pending' = Done("read") /\ UNCHANGED <<handler, conn>>

Answered == written[replied + 1]

\* handleApiControlMsg() on "success".
Confirm ==
    subscriptions' = [subscriptions EXCEPT ![subscribing] = @ + 1] /\ subscribing' = Null

Acknowledged ==
    /\ MessageRead
    /\ replied < Len(written) /\ Answered.text = "whole"
    /\ replied' = replied + 1
    /\ acked' = acked \cup {Answered.req}
    /\ Confirm

OnReadAck == Acknowledged /\ GoesOn

\* handleApiControlMsg() on anything else: one equal entry is erased, if any.
Erase == subscriptions' = [subscriptions EXCEPT ![subscribing] = IF @ > 0 THEN @ - 1 ELSE 0]

Refused ==
    /\ MessageRead
    /\ replied < Len(written)
    /\ replied' = replied + 1
    /\ UNCHANGED acked

\* The connection is closed by onRead() itself; nothing is read any more.
Quits == pending' = DoneStarted("read", "close") /\ CloseWs /\ UNCHANGED handler

\* Mutant: an error is taken for a success.
Reject_Confirms == Confirm /\ GoesOn

\* The slot is serialised for the log before it is reset: if that throws, the
\* exception is one that onRead() catches, and closes.
Reject ==
    /\ Erase
    /\ IF subscribing \in Request \ Serialisable THEN Quits /\ UNCHANGED subscribing
                                                ELSE GoesOn /\ subscribing' = Null

OnReadNack == Refused /\ Reject

\* Any other message, at any time: market data, for which the callback runs, or a
\* control message without "data".  The session's state stays.
Unrelated == MessageRead /\ UNCHANGED <<subscribing, subscriptions, server>>

OnReadData == Unrelated /\ GoesOn

\* A message that is no JSON, or whose members have unexpected types.
OnReadMalformed == Unrelated /\ Quits

OnReadError ==
    /\ handler = "none" /\ pending["read"] > 0
    /\ pending' = Done("read")
    /\ conn' = "closed"
    /\ CancelTimer
    /\ UNCHANGED <<queue, subscriptions, handler, held, written, server>>

\* Mutant: reading goes on while the next request is written.
WriteNext_ReadsToo ==
    /\ SendNext
    /\ pending' = [pending EXCEPT !["write"] = @ + 1, !["read"] = @ + 1]
    /\ handler' = "none"

WriteNext == SendNext /\ pending' = Started("write") /\ handler' = "none"

\* Mutant: the result of readSubscription() is written even if it is empty.
OnReadPump_Unchecked ==
    /\ handler = "pump"
    /\ WriteNext
    /\ UNCHANGED <<subscriptions, pingTimer, conn, held, server>>

\* Mutant: onRead() does not ask for the next request.
OnReadPump_Skips ==
    /\ handler = "pump" /\ handler' = "quit"
    /\ UNCHANGED <<queue, subscriptions, pending, pingTimer, conn, held, written, server>>

\* The second critical section of onRead(): readSubscription().  A request that
\* cannot be serialised is taken from the queue as if there were none.
OnReadPump ==
    /\ handler = "pump"
    /\ LET sends == subscriptionRequests # <<>> /\ Head(subscriptionRequests) \in Serialisable
       IN  \/ sends /\ WriteNext
           \/ /\ ~sends
              /\ Take \/ (subscriptionRequests = <<>> /\ UNCHANGED queue)
              /\ handler' = "quit"
              /\ UNCHANGED <<written, pending>>
    /\ UNCHANGED <<subscriptions, pingTimer, conn, held, server>>

Nothing == \A e \in Entry : subscriptions[e] = 0

\* Mutant: a session that has subscriptions does not read on.
ReadOn_IfNothing ==
    IF Nothing THEN [pending EXCEPT !["read"] = @ + 1, !["close"] = @ + 1] ELSE pending

ReadOn == IF Nothing THEN [pending EXCEPT !["read"] = @ + 1, !["close"] = @ + 1]
                     ELSE Started("read")

\* The third one: quit if nothing is subscribed, and read on either way.
OnReadQuit ==
    /\ handler = "quit"
    /\ handler' = "none"
    /\ pending' = ReadOn
    /\ IF Nothing THEN CloseWs ELSE UNCHANGED conn
    /\ UNCHANGED <<queue, subscriptions, pingTimer, held, written, server>>

OnRead == \/ OnReadAck \/ OnReadNack \/ OnReadData \/ OnReadMalformed \/ OnReadError

-----------------------------------------------------------------------------
(* Exceptions.  Whatever handler the log function throws in, the rest of it is *)
(* skipped, and the io thread goes on with the next one.                      *)

\* In a handler that has nothing more to start.
ThrownAtEnd ==
    \/ \E op \in ChainOps \ {"read"} : Failed(op)
    \/ OnReadError \/ OnPing \/ OnClose
    \/ pingTimer = "cancelled" /\ TimerEnds

\* In ping(), "ping expired", before the timer is armed again.
ThrownInPing == pingTimer = "expired" /\ TimerEnds

\* While a message is handled: after a confirmation, after the entry of a refused
\* request is erased but before the slot is reset, for an exception of the data
\* callback, or before the close that a malformed message brings.
ThrownInMessage ==
    /\ \/ Acknowledged
       \/ Refused /\ Erase /\ UNCHANGED subscribing
       \/ Unrelated
    /\ Leaves

\* In readSubscription(), for a request that cannot be serialised: it stays first.
ThrownInTake ==
    /\ TakeSlot /\ Head(subscriptionRequests) \notin Serialisable
    /\ \/ Opened /\ pending' = Done("handshake")
       \/ handler = "pump" /\ UNCHANGED <<subscriptions, pending, pingTimer, conn, held, server>>
    /\ handler' = "none"
    /\ UNCHANGED <<subscriptionRequests, written>>

\* At "No subscriptions", before the close and the next read.
ThrownInQuit ==
    /\ handler = "quit" /\ Nothing
    /\ handler' = "none"
    /\ UNCHANGED <<queue, subscriptions, pending, pingTimer, conn, held, written, server>>

Thrown == ThrownAtEnd \/ ThrownInPing \/ ThrownInMessage \/ ThrownInTake \/ ThrownInQuit

-----------------------------------------------------------------------------
App == \/ \E r \in Request : Run(r) \/ \E outcome \in Outcomes(r) : Subscribe(r, outcome)
       \/ Acquire \/ Release \/ Close

Io == \/ OnResolve \/ OnConnect \/ OnSSLHandshake \/ OnHandshake
      \/ OnWrite \/ OnRead \/ OnReadPump \/ OnReadQuit
      \/ OnPingTimer \/ OnPing \/ OnClose

\* The server has nothing to say to a frame that is no request.
ServerIgnores ==
    /\ replied < Len(written) /\ Answered.text # "whole"
    /\ replied' = replied + 1
    /\ UNCHANGED <<queue, subscriptions, pending, pingTimer, conn, handler, held, written, acked>>

Next == App \/ Io \/ (HandlersThrow /\ Thrown) \/ TimerExpires \/ ServerIgnores

Spec == Init /\ [][Next]_vars

\* Handlers that are ready run: the io_context takes them in the order in which
\* they became ready, so those that the onRead() in progress holds up get their
\* turn (SF).  Operations complete in the end: Beast bounds connecting,
\* handshakes and closing by timeouts, and the server is assumed to go on
\* sending messages or to drop the connection.
Fairness ==
    /\ WF_vars(OnResolve) /\ WF_vars(OnConnect) /\ WF_vars(OnSSLHandshake)
    /\ WF_vars(OnHandshake) /\ WF_vars(OnWrite) /\ WF_vars(OnRead)
    /\ WF_vars(OnReadPump) /\ WF_vars(OnReadQuit)
    /\ WF_vars(TimerExpires)
    /\ SF_vars(OnPingTimer) /\ SF_vars(OnPing) /\ SF_vars(OnClose)

LiveSpec == Spec /\ Fairness

-----------------------------------------------------------------------------
(* Safety.                                                                 *)

\* The connect/write/read handlers form a single chain: at most one of these
\* operations is outstanding, and none while onRead() runs.  Beast forbids two
\* reads or two writes at a time on a stream, and nothing in the code counts them.
OneChain ==
    /\ \A op \in ChainOps : pending[op] <= 1
    /\ \A op, o \in ChainOps : pending[op] > 0 /\ pending[o] > 0 => op = o
    /\ handler # "none" => \A op \in ChainOps : pending[op] = 0

\* onHandshake() writes what readSubscription() returns without looking: an empty
\* frame goes out only then, as the first, and only for a request that cannot be
\* serialised; it never goes out for want of a request.
NoEmptyFrame ==
    \A i \in 1 .. Len(written) :
        written[i].text = "empty" => i = 1 /\ written[i].req \in Request \ Serialisable

\* While the connection is open and nobody called close(), and if the log function
\* does not throw, the wait on pingTimer is outstanding or its handler is about to
\* run: the 20 s heartbeat without which MEXC drops the connection never dies on a
\* live connection.
HeartbeatWhileOpen == conn = "open" => pingTimer \in {"armed", "expired"}

\* Whatever reply is taken for whichever request, isSubscribed() never returns
\* true for a request that was not even sent, if it could be.
SubscribedWasSent ==
    \A r \in Serialisable : IsSubscribed(r) => \E i \in 1 .. Len(written) : written[i].req = r

\* As long as no request was taken from the queue before the reply to the one before
\* had come, whatever else the server sends and however handlers end: the reply that
\* is due is for the request in the slot, and the list holds nothing but what the
\* server has confirmed (no null entry either, which would make every later
\* writeSubscription() throw).  Replies carry no identifier: the slot is all there is.
BookedRight ==
    ~crossed =>
        /\ replied < Len(written) =>
              replied + 1 = Len(written) /\ subscribing = written[Len(written)].req
        /\ \A e \in Entry : subscriptions[e] > 0 => e \in acked

\* writeSubscription() drops a request only if that very request has been
\* confirmed already, whichever request the application may come with now.
DropsOnlyConfirmed == \A r \in Request : "dropped" \in Outcomes(r) => r \in acked

Requests(frames) == [i \in 1 .. Len(frames) |-> frames[i].req]

Queue == INSTANCE RequestQueue WITH waiting <- subscriptionRequests, sent <- Requests(written)

\* The session implements the first-in first-out queue of RequestQueue: what
\* writeSubscription() accepts is written exactly once and in order, and nothing is
\* passed over but what cannot be serialised.
SendsInOrder == Queue!Spec

-----------------------------------------------------------------------------
(* Liveness.                                                               *)

\* An exception has cut the chain of an open connection: nothing is read, and
\* nothing will be.  Where handlers do not throw this is no excuse.
Cut == /\ HandlersThrow
       /\ conn = "open" /\ handler = "none" /\ \A op \in ChainOps : pending[op] = 0

Lost == conn \in {"closing", "closed"} \/ Cut

\* The requests that can be serialised: those written, and those that will be.
IsText(frame)   == frame.text # "empty"
IsText_(r)      == r \in Serialisable
SentTexts       == Len(SelectSeq(written, IsText))
WaitingTexts    == Len(SelectSeq(subscriptionRequests, IsText_))

\* A request that was queued and can be serialised is written, unless the connection
\* ends first or an exception cuts the chain: the loop in onRead() never goes to
\* sleep on a non-empty queue.
QueuedIsWritten ==
    \A n \in 1 .. MaxRequests :
        SentTexts + WaitingTexts >= n ~> SentTexts >= n \/ Lost

\* A session whose connection has ended and whose ping timer is cancelled lets go
\* of itself, so that WSClient's weak_ptr expires and the next subscribe() makes a
\* new one.
CancelledIsReleased == pingTimer = "cancelled" /\ conn = "closed" ~> ~Kept

-----------------------------------------------------------------------------
(* What the documentation says and the code does not do.                   *)

\* isSubscribed() returns true only for streams the server has confirmed.
IsSubscribedIsTruthful == \A r \in Request : IsSubscribed(r) => r \in acked

\* And it returns true for every stream the server has confirmed.
ConfirmedIsSubscribed == \A r \in acked : IsSubscribed(r)

\* The bytes that leave are those of the request.
SentAsRequested == \A i \in 1 .. Len(written) : written[i].text # "gone"

\* close() ends the session: the connection is closed in the end.
CloseEndsSession == pending["close"] > 0 ~> conn = "closed"

\* subscribe() has an effect: the request it queued reaches the server, or the
\* session goes away, so that the application's next subscribe() starts anew.
SubscribeTakesEffect ==
    \A n \in 1 .. MaxRequests :
        SentTexts + WaitingTexts >= n ~> SentTexts >= n \/ ~Kept
=============================================================================
