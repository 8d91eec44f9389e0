-------------------------- MODULE WSSession_proofs --------------------------
(* Theorems about WSSession, for every set of requests and every bound. *)
EXTENDS WSSession, SequenceTheorems, TLAPS

-----------------------------------------------------------------------------
(* Type correctness. *)

LEMMA TypeInit == Init => TypeOK
  <1> SUFFICES ASSUME Init PROVE TypeOK
    OBVIOUS
  <1>1. subscriptionRequests \in Seq(Request) /\ written \in Seq(Frame) /\ Len(written) = 0
    BY DEF Init
  <1>2. replied \in 0 .. Len(written)
    BY <1>1 DEF Init
  <1> QED BY <1>1, <1>2 DEF Init, TypeOK, Entry

\* Starting an operation, finishing one that is outstanding, and doing both.
LEMMA PendingType ==
  ASSUME pending \in [Ops -> Nat], NEW op \in Ops, NEW o \in Ops
  PROVE  /\ Started(op) \in [Ops -> Nat]
         /\ pending[op] > 0 => Done(op) \in [Ops -> Nat]
         /\ pending[op] > 0 => DoneStarted(op, o) \in [Ops -> Nat]
  BY DEF Started, Done, DoneStarted

LEMMA ReadOnType == pending \in [Ops -> Nat] => ReadOn \in [Ops -> Nat]
  <1> SUFFICES ASSUME pending \in [Ops -> Nat] PROVE ReadOn \in [Ops -> Nat]
    OBVIOUS
  <1>1. ASSUME NEW op \in Ops, NEW o \in Ops
        PROVE  [pending EXCEPT ![op] = @ + 1, ![o] = @ + 1] \in [Ops -> Nat]
    OBVIOUS
  <1>2. "read" \in Ops /\ "close" \in Ops
    BY DEF Ops, ChainOps
  <1>3. [pending EXCEPT !["read"] = @ + 1, !["close"] = @ + 1] \in [Ops -> Nat]
    BY <1>1, <1>2
  <1>4. Started("read") \in [Ops -> Nat]
    BY <1>2, PendingType
  <1> QED BY <1>3, <1>4 DEF ReadOn

LEMMA OpNames ==
  /\ ChainOps \subseteq Ops
  /\ {"resolve", "connect", "ssl", "handshake", "write", "read"} \subseteq ChainOps
  /\ {"resolve", "connect", "ssl", "handshake", "write", "read", "ping", "close"} \subseteq Ops
  BY DEF Ops, ChainOps

LEMMA WriteSubscriptionType ==
  ASSUME TypeOK, NEW r \in Request, NEW outcome, WriteSubscription(r, outcome)
  PROVE  /\ subscriptionRequests' \in Seq(Request)
         /\ \/ subscriptionRequests' = subscriptionRequests
            \/ subscriptionRequests' = Append(subscriptionRequests, r)
  BY DEF TypeOK, WriteSubscription, Enqueue

\* A reply changes the list at the slot alone, by adding to it or taking from it.
LEMMA ReplyType ==
  ASSUME TypeOK, Confirm \/ Erase
  PROVE  /\ subscriptions' \in [Entry -> Nat]
         /\ \A e \in Entry : e # subscribing => subscriptions'[e] = subscriptions[e]
         /\ Erase => subscriptions'[subscribing] <= subscriptions[subscribing]
  <1>1. CASE Confirm
    <2>1. subscriptions[subscribing] \in Nat /\ subscriptions[subscribing] + 1 \in Nat
      BY DEF TypeOK
    <2> QED BY <1>1, <2>1 DEF TypeOK, Confirm, Erase
  <1>2. CASE Erase
    <2>1. (IF subscriptions[subscribing] > 0 THEN subscriptions[subscribing] - 1 ELSE 0) \in Nat
      BY DEF TypeOK
    <2> QED BY <1>2, <2>1 DEF TypeOK, Erase
  <1> QED BY <1>1, <1>2

\* What readSubscription() takes, and what may leave through async_write.
LEMMA TakeType ==
  ASSUME TypeOK, TakeSlot
  PROVE  /\ subscribing' = Head(subscriptionRequests) /\ subscribing' \in Request
         /\ Tail(subscriptionRequests) \in Seq(Request)
         /\ crossed' \in BOOLEAN
  BY DEF TakeSlot, TypeOK

LEMMA WriteType ==
  ASSUME TypeOK, NEW r \in Entry, Write(r)
  PROVE  \E frame \in Frame :
            /\ frame.req = r
            /\ written' = Append(written, frame)
            /\ written' \in Seq(Frame) /\ Len(written') = Len(written) + 1
            /\ written'[Len(written) + 1] = frame
            /\ \A i \in 1 .. Len(written) : written'[i] = written[i]
  <1>1. PICK frame \in Frame : frame.req = r /\ written' = Append(written, frame)
    BY DEF Write
  <1>2. written \in Seq(Frame)
    BY DEF TypeOK
  <1> QED BY <1>1, <1>2

LEMMA SendNextType ==
  ASSUME TypeOK, SendNext
  PROVE  /\ subscriptionRequests' \in Seq(Request)
         /\ subscribing' \in Entry /\ crossed' \in BOOLEAN
         /\ written' \in Seq(Frame)
         /\ Len(written') = Len(written) + 1
  <1>1. CASE Take /\ Write(Head(subscriptionRequests))
    <2>1. subscribing' \in Entry /\ Head(subscriptionRequests) \in Entry
      BY <1>1, TakeType DEF Take, Entry
    <2> QED BY <1>1, <2>1, TakeType, WriteType DEF Take
  <1>2. CASE UNCHANGED queue /\ Write(Null)
    <2>1. Null \in Entry
      BY DEF Entry
    <2> QED BY <1>2, <2>1, WriteType DEF queue, TypeOK
  <1> QED BY <1>1, <1>2 DEF SendNext

\* What handling a message does: what becomes of the reply, if it is one, and the way
\* out of the handler.
MessageStep ==
    /\ GoesOn \/ Leaves \/ Quits
    /\ \/ Acknowledged
       \/ Refused /\ Erase /\ subscribing' \in {subscribing, Null}
       \/ Unrelated

\* The handler of the ping timer returns without more.
TimerStops ==
    /\ pingTimer = "cancelled" \/ (HandlersThrow /\ pingTimer = "expired")
    /\ TimerEnds

Chained(op, next) ==
    /\ <<op, next>> \in {<<"resolve", "connect">>, <<"connect", "ssl">>,
                        <<"ssl", "handshake">>, <<"write", "read">>}
    /\ op = "write" => Up
    /\ Advances(op, next)

\* The steps of the session, thrown or not.
LEMMA Steps ==
  ASSUME [Next]_vars
  PROVE  \/ \E r \in Request : Run(r) \/ \E outcome \in Outcomes(r) : Subscribe(r, outcome)
         \/ Acquire \/ Release \/ Close \/ TimerExpires \/ ServerIgnores \/ UNCHANGED vars
         \/ \E op \in ChainOps \ {"read"} : Failed(op)
         \/ \E op, next \in ChainOps : Chained(op, next)
         \/ FirstWrite \/ MessageStep \/ OnReadError \/ OnReadPump \/ OnReadQuit
         \/ OnPingTimer \/ TimerStops \/ OnPing \/ OnClose
         \/ ThrownInTake \/ ThrownInQuit
  <1>1. OnReadAck \/ OnReadNack \/ OnReadData \/ OnReadMalformed \/ ThrownInMessage => MessageStep
    <2>1. Reject => (GoesOn \/ Quits) /\ Erase /\ subscribing' \in {subscribing, Null}
      BY DEF Reject
    <2> QED BY <2>1 DEF OnReadAck, OnReadNack, OnReadData, OnReadMalformed, ThrownInMessage,
                        MessageStep
  <1>2. OnResolve \/ OnConnect \/ OnSSLHandshake \/ OnWrite \/ OnHandshake =>
          \/ \E op \in ChainOps \ {"read"} : Failed(op)
          \/ \E op, next \in ChainOps : Chained(op, next)
          \/ FirstWrite
    <2>1. OnResolve \/ OnConnect \/ OnSSLHandshake \/ OnWrite =>
            \/ \E op \in ChainOps \ {"read"} : Failed(op)
            \/ \E op, next \in ChainOps : Chained(op, next)
      BY DEF OnResolve, OnConnect, OnSSLHandshake, OnWrite, Chained, ChainOps
    <2>2. OnHandshake => FirstWrite \/ \E op \in ChainOps \ {"read"} : Failed(op)
      BY DEF OnHandshake, ChainOps
    <2> QED BY <2>1, <2>2
  <1>3. HandlersThrow /\ Thrown =>
          \/ \E op \in ChainOps \ {"read"} : Failed(op)
          \/ OnReadError \/ OnPing \/ OnClose \/ TimerStops
          \/ MessageStep \/ ThrownInTake \/ ThrownInQuit
    BY <1>1 DEF Thrown, ThrownAtEnd, ThrownInPing, TimerStops
  <1> QED BY <1>1, <1>2, <1>3 DEF Next, App, Io, OnRead, OnPingTimer, TimerStops

LEMMA MessageType ==
  ASSUME TypeOK, MessageStep
  PROVE  TypeOK'
  <1>1. MessageRead
    BY DEF MessageStep, Acknowledged, Refused, Unrelated
  <1>2. /\ pending' \in [Ops -> Nat]
        /\ conn' \in {"new", "connecting", "open", "closing", "closed"}
        /\ handler' \in {"none", "pump", "quit"}
        /\ UNCHANGED <<subscriptionRequests, crossed, pingTimer, held, written>>
    <2>1. "read" \in Ops /\ "close" \in Ops /\ pending \in [Ops -> Nat] /\ pending["read"] > 0
      BY <1>1, OpNames DEF TypeOK, MessageRead
    <2>2. Done("read") \in [Ops -> Nat] /\ DoneStarted("read", "close") \in [Ops -> Nat]
      BY <2>1, PendingType
    <2>3. pending' \in [Ops -> Nat]
      BY <2>2 DEF MessageStep, GoesOn, Leaves, Quits
    <2> QED BY <1>1, <2>3 DEF TypeOK, MessageStep, MessageRead, GoesOn, Leaves, Quits, CloseWs
  <1>3. CASE Unrelated
    BY <1>2, <1>3 DEF TypeOK, Unrelated, server
  <1>4. CASE Acknowledged \/ (Refused /\ Erase /\ subscribing' \in {subscribing, Null})
    <2>1. subscriptions' \in [Entry -> Nat] /\ subscribing' \in Entry
      BY <1>4, ReplyType DEF Acknowledged, Confirm, TypeOK, Entry
    <2>2. replied' \in 0 .. Len(written')
      BY <1>2, <1>4 DEF TypeOK, Acknowledged, Refused
    <2>3. acked' \in SUBSET Request
      <3>1. CASE Acknowledged
        <4>1. replied + 1 \in 1 .. Len(written) /\ Answered.text = "whole"
          BY <3>1 DEF Acknowledged, TypeOK
        <4>2. Answered \in Frame
          BY <4>1 DEF Answered, TypeOK
        <4>3. Answered.req \in Request
          BY <4>1, <4>2, SerialisableAssumption DEF Frame
        <4> QED BY <3>1, <4>3 DEF Acknowledged, TypeOK
      <3>2. CASE Refused
        BY <3>2 DEF Refused, TypeOK
      <3> QED BY <1>4, <3>1, <3>2
    <2> QED BY <1>2, <2>1, <2>2, <2>3 DEF TypeOK
  <1> QED BY <1>3, <1>4 DEF MessageStep

LEMMA TypeNext == TypeOK /\ [Next]_vars => TypeOK'
  <1> SUFFICES ASSUME TypeOK, [Next]_vars PROVE TypeOK'
    OBVIOUS
  <1> USE OpNames DEF queue, server
  <1>0. \A op, o \in Ops :
           /\ Started(op) \in [Ops -> Nat]
           /\ pending[op] > 0 => Done(op) \in [Ops -> Nat]
           /\ pending[op] > 0 => DoneStarted(op, o) \in [Ops -> Nat]
    BY PendingType DEF TypeOK
  <1>1. ASSUME NEW r \in Request, NEW outcome, Run(r) \/ Subscribe(r, outcome) PROVE TypeOK'
    <2>1. subscriptionRequests' \in Seq(Request)
      BY <1>1, WriteSubscriptionType DEF Run, Subscribe
    <2>2. pending' \in [Ops -> Nat]
      BY <1>0, <1>1 DEF TypeOK, Run, Subscribe
    <2> QED BY <1>1, <2>1, <2>2 DEF TypeOK, Run, Subscribe
  <1>2. CASE Acquire \/ Release \/ TimerExpires \/ ServerIgnores \/ UNCHANGED vars
    <2>1. CASE Acquire \/ Release \/ TimerExpires \/ UNCHANGED vars
      BY <2>1 DEF TypeOK, Acquire, Release, TimerExpires, vars
    <2>2. CASE ServerIgnores
      <3>1. replied' \in 0 .. Len(written')
        BY <2>2 DEF TypeOK, ServerIgnores
      <3> QED BY <2>2, <3>1 DEF TypeOK, ServerIgnores
    <2> QED BY <1>2, <2>1, <2>2
  <1>3. CASE Close
    BY <1>0, <1>3 DEF TypeOK, Close, CloseWs
  <1>4. ASSUME NEW op \in ChainOps, Failed(op) PROVE TypeOK'
    <2>1. pending' \in [Ops -> Nat]
      BY <1>0, <1>4 DEF Failed
    <2> QED BY <1>4, <2>1 DEF TypeOK, Failed
  <1>5. ASSUME NEW op \in ChainOps, NEW next \in ChainOps, Chained(op, next) PROVE TypeOK'
    <2>1. pending' \in [Ops -> Nat]
      BY <1>0, <1>5 DEF Chained, Advances
    <2> QED BY <1>5, <2>1 DEF TypeOK, Chained, Advances
  <1>6. CASE FirstWrite
    <2>1. pending' \in [Ops -> Nat]
      BY <1>0, <1>6 DEF FirstWrite, Opened
    <2>2. SendNext /\ replied' = replied
      BY <1>6 DEF FirstWrite, Opened
    <2>3. replied' \in 0 .. Len(written')
      BY <2>2, SendNextType DEF TypeOK
    <2> QED BY <1>6, <2>1, <2>2, <2>3, SendNextType DEF TypeOK, FirstWrite, Opened
  <1>7. CASE MessageStep
    BY <1>7, MessageType
  <1>8. CASE OnReadError
    <2>1. pending' \in [Ops -> Nat]
      BY <1>0, <1>8 DEF OnReadError
    <2> QED BY <1>8, <2>1 DEF TypeOK, OnReadError, CancelTimer
  <1>9. CASE OnReadPump
    <2>1. CASE WriteNext
      <3>1. pending' \in [Ops -> Nat]
        BY <1>0, <2>1 DEF WriteNext
      <3>2. replied' \in 0 .. Len(written')
        BY <1>9, <2>1, SendNextType DEF TypeOK, OnReadPump, WriteNext
      <3> QED BY <1>9, <2>1, <3>1, <3>2, SendNextType DEF TypeOK, OnReadPump, WriteNext
    <2>2. CASE handler' = "quit" /\ UNCHANGED <<written, pending>> /\ (Take \/ UNCHANGED queue)
      <3>1. /\ subscriptionRequests' \in Seq(Request) /\ subscribing' \in Entry
            /\ crossed' \in BOOLEAN
        BY <2>2, TakeType DEF Take, TypeOK, Entry
      <3> QED BY <1>9, <2>2, <3>1 DEF TypeOK, OnReadPump
    <2> QED BY <1>9, <2>1, <2>2 DEF OnReadPump
  <1>10. CASE OnReadQuit
    <2>1. pending' \in [Ops -> Nat]
      BY <1>10, ReadOnType DEF TypeOK, OnReadQuit
    <2> QED BY <1>10, <2>1 DEF TypeOK, OnReadQuit, CloseWs
  <1>11. CASE OnPingTimer \/ TimerStops
    BY <1>0, <1>11 DEF TypeOK, OnPingTimer, TimerStops, TimerEnds, Ping
  <1>12. CASE OnPing \/ OnClose
    <2>1. pending' \in [Ops -> Nat]
      BY <1>0, <1>12 DEF OnPing, OnClose
    <2> QED BY <1>12, <2>1 DEF TypeOK, OnPing, OnClose, CancelTimer
  <1>13. CASE ThrownInTake
    <2>1. subscribing' \in Entry /\ crossed' \in BOOLEAN
      BY <1>13, TakeType DEF ThrownInTake, Entry
    <2>2. pending' \in [Ops -> Nat]
      BY <1>0, <1>13 DEF ThrownInTake, Opened, TypeOK
    <2> QED BY <1>13, <2>1, <2>2 DEF TypeOK, ThrownInTake, Opened
  <1>14. CASE ThrownInQuit
    BY <1>14 DEF TypeOK, ThrownInQuit
  <1> QED
    BY <1>1, <1>2, <1>3, <1>4, <1>5, <1>6, <1>7, <1>8, <1>9, <1>10, <1>11, <1>12, <1>13,
       <1>14, Steps

\* Every variable of the session keeps its type, whatever the network does.
THEOREM TypeCorrect == Spec => []TypeOK
  BY TypeInit, TypeNext, PTL DEF Spec

-----------------------------------------------------------------------------
(* The chain of handlers, and the phases of a connection. *)

ConnectOps == {"resolve", "connect", "ssl", "handshake"}

\* Until the handshake is done nothing but connecting happens, and the request
\* that run() queued stays in the queue.
Phases ==
    /\ conn = "new" => \A op \in Ops : pending[op] = 0
    /\ \A op \in ConnectOps : pending[op] > 0 => conn = "connecting"
    /\ conn \in {"new", "connecting"} =>
          /\ \A op \in {"write", "read", "ping"} : pending[op] = 0
          /\ handler = "none" /\ pingTimer = "off"
          /\ written = <<>> /\ Nothing
    /\ conn = "connecting" => subscriptionRequests # <<>>

ChainInv == OneChain /\ Phases

LEMMA ChainInit == Init => ChainInv
  BY NullAssumption DEF Init, ChainInv, OneChain, Phases, Nothing, Entry, Ops, ChainOps, ConnectOps

LEMMA ChainNext == TypeOK /\ ChainInv /\ [Next]_vars => ChainInv'
  <1> SUFFICES ASSUME TypeOK, ChainInv, [Next]_vars PROVE ChainInv'
    OBVIOUS
  <1> USE DEF queue, server
  <1>1. ASSUME NEW r \in Request, Run(r) PROVE ChainInv'
    <2>1. subscriptionRequests' = Append(subscriptionRequests, r)
      BY <1>1 DEF Run, WriteSubscription, Enqueue
    <2>2. subscriptionRequests' # <<>>
      BY <2>1 DEF TypeOK
    <2> QED BY <1>1, <2>2 DEF TypeOK, ChainInv, OneChain, Phases, Run, Started, Nothing,
               ChainOps, ConnectOps, Ops
  <1>2. ASSUME NEW r \in Request, NEW outcome, Subscribe(r, outcome) PROVE ChainInv'
    <2>1. subscriptionRequests # <<>> => subscriptionRequests' # <<>>
      BY <1>2, WriteSubscriptionType DEF Subscribe, TypeOK
    <2> QED BY <1>2, <2>1 DEF TypeOK, ChainInv, OneChain, Phases, Subscribe, Nothing
  <1>3. CASE Acquire \/ Release \/ TimerExpires \/ ServerIgnores \/ UNCHANGED vars
    BY <1>3 DEF ChainInv, OneChain, Phases, Acquire, Release, TimerExpires, ServerIgnores,
                vars, Nothing
  <1>4. CASE Close
    BY <1>4 DEF TypeOK, ChainInv, OneChain, Phases, Close, CloseWs, Started, Nothing,
                ChainOps, ConnectOps, Ops
  <1>5. ASSUME NEW op \in ChainOps, Failed(op) PROVE ChainInv'
    BY <1>5 DEF TypeOK, ChainInv, OneChain, Phases, Failed, Done, ChainOps, ConnectOps, Ops
  <1>6. ASSUME NEW op \in ChainOps, NEW next \in ChainOps, Chained(op, next) PROVE ChainInv'
    BY <1>6 DEF TypeOK, ChainInv, OneChain, Phases, Chained, Advances, Up, DoneStarted,
                Nothing, ChainOps, ConnectOps, Ops
  <1>7. CASE FirstWrite
    BY <1>7 DEF TypeOK, ChainInv, OneChain, Phases, FirstWrite, Opened, DoneStarted,
                ChainOps, ConnectOps, Ops
  <1>8. CASE MessageStep
    <2>1. MessageRead /\ (GoesOn \/ Leaves \/ Quits)
      BY <1>8 DEF MessageStep, Acknowledged, Refused, Unrelated
    <2> QED BY <2>1 DEF TypeOK, ChainInv, OneChain, Phases, MessageRead, GoesOn, Leaves, Quits,
                        CloseWs, Up, Done, DoneStarted, ChainOps, ConnectOps, Ops
  <1>9. CASE OnReadError
    BY <1>9 DEF TypeOK, ChainInv, OneChain, Phases, OnReadError, Done, ChainOps, ConnectOps, Ops
  <1>10. CASE OnReadPump
    BY <1>10 DEF TypeOK, ChainInv, OneChain, Phases, OnReadPump, WriteNext, Started,
                 Nothing, ChainOps, ConnectOps, Ops
  <1>11. CASE OnReadQuit
    BY <1>11 DEF TypeOK, ChainInv, OneChain, Phases, OnReadQuit, ReadOn, Started, CloseWs,
                 Nothing, ChainOps, ConnectOps, Ops
  <1>12. CASE OnPingTimer \/ TimerStops
    BY <1>12 DEF TypeOK, ChainInv, OneChain, Phases, OnPingTimer, TimerStops, TimerEnds, Ping,
                 Started, Nothing, ChainOps, ConnectOps, Ops
  <1>13. CASE OnPing \/ OnClose
    BY <1>13 DEF TypeOK, ChainInv, OneChain, Phases, OnPing, OnClose, CancelTimer, Done,
                 Nothing, ChainOps, ConnectOps, Ops
  <1>14. CASE ThrownInTake
    BY <1>14 DEF TypeOK, ChainInv, OneChain, Phases, ThrownInTake, Opened, Done,
                 ChainOps, ConnectOps, Ops
  <1>15. CASE ThrownInQuit
    BY <1>15 DEF TypeOK, ChainInv, OneChain, Phases, ThrownInQuit, Nothing
  <1> QED
    BY <1>1, <1>2, <1>3, <1>4, <1>5, <1>6, <1>7, <1>8, <1>9, <1>10, <1>11, <1>12, <1>13,
       <1>14, <1>15, Steps

LEMMA ChainAlways == Spec => [](TypeOK /\ ChainInv)
  <1>1. Init => TypeOK /\ ChainInv
    BY TypeInit, ChainInit
  <1>2. TypeOK /\ ChainInv /\ [Next]_vars => TypeOK' /\ ChainInv'
    BY TypeNext, ChainNext
  <1> QED BY <1>1, <1>2, PTL DEF Spec

\* At most one operation of the connect/write/read chain is outstanding.
THEOREM SingleChain == Spec => []OneChain
  <1>1. ChainInv => OneChain
    BY DEF ChainInv
  <1> QED BY <1>1, ChainAlways, PTL

-----------------------------------------------------------------------------
(* What is written. *)

Queues(r) == UNCHANGED written /\ subscriptionRequests' = Append(subscriptionRequests, r)

Dequeues == subscriptionRequests # <<>> /\ subscriptionRequests' = Tail(subscriptionRequests)

\* Only the first frame may have been empty from the start.
Sends(frame) ==
    /\ Dequeues
    /\ frame.req = Head(subscriptionRequests)
    /\ frame.text = "empty" => written = <<>>
    /\ written' = Append(written, frame)

Skips ==
    /\ Dequeues
    /\ Head(subscriptionRequests) \notin Serialisable
    /\ UNCHANGED written

\* Every step leaves queue and frames alone, queues a request, writes one or loses
\* one that cannot be serialised.
LEMMA QueueSteps ==
  ASSUME TypeOK, ChainInv, [Next]_vars
  PROVE  \/ UNCHANGED <<written, subscriptionRequests>>
         \/ \E r \in Request : Queues(r)
         \/ \E frame \in Frame : Sends(frame)
         \/ Skips
  <1> USE DEF queue
  <1>1. ASSUME NEW r \in Request, NEW outcome, Run(r) \/ Subscribe(r, outcome)
        PROVE  UNCHANGED <<written, subscriptionRequests>> \/ Queues(r)
    BY <1>1, WriteSubscriptionType DEF Run, Subscribe, Queues
  <1>2. ASSUME Take, Write(Head(subscriptionRequests)),
               written = <<>> \/ Head(subscriptionRequests) \in Serialisable
        PROVE  \E frame \in Frame : Sends(frame)
    <2>1. PICK frame \in Frame :
            frame.req = Head(subscriptionRequests) /\ written' = Append(written, frame)
      BY <1>2 DEF Write
    <2>2. frame.text = "empty" => written = <<>>
      BY <1>2, <2>1 DEF Frame
    <2> QED BY <1>2, <2>1, <2>2 DEF Take, TakeSlot, Sends, Dequeues
  <1>3. CASE FirstWrite
    <2>1. subscriptionRequests # <<>> /\ written = <<>>
      BY <1>3 DEF FirstWrite, Opened, ChainInv, Phases, ConnectOps
    <2> QED BY <1>2, <1>3, <2>1 DEF FirstWrite, SendNext
  <1>4. CASE OnReadPump
    <2>1. CASE WriteNext /\ subscriptionRequests # <<>>
               /\ Head(subscriptionRequests) \in Serialisable
      BY <1>2, <2>1 DEF WriteNext, SendNext
    <2>2. CASE /\ UNCHANGED written
               /\ ~(subscriptionRequests # <<>> /\ Head(subscriptionRequests) \in Serialisable)
               /\ Take \/ UNCHANGED queue
      BY <2>2 DEF Take, TakeSlot, Skips, Dequeues
    <2> QED BY <1>4, <2>1, <2>2 DEF OnReadPump
  <1>5. CASE MessageStep
    BY <1>5 DEF MessageStep, Acknowledged, Refused, Unrelated, MessageRead
  <1>6. ASSUME NEW op \in ChainOps, NEW next \in ChainOps, Chained(op, next) \/ Failed(op)
        PROVE  UNCHANGED <<written, subscriptionRequests>>
    BY <1>6 DEF Chained, Advances, Failed
  <1>7. CASE \/ Acquire \/ Release \/ Close \/ TimerExpires \/ ServerIgnores \/ UNCHANGED vars
             \/ OnReadError \/ OnReadQuit \/ OnPingTimer \/ TimerStops \/ OnPing \/ OnClose
             \/ ThrownInTake \/ ThrownInQuit
    BY <1>7 DEF vars, Acquire, Release, Close, TimerExpires, ServerIgnores, OnReadError,
                OnReadQuit, OnPingTimer, TimerStops, TimerEnds, OnPing, OnClose, ThrownInTake,
                ThrownInQuit
  <1> QED BY <1>1, <1>3, <1>4, <1>5, <1>6, <1>7, Steps

LEMMA EmptyNext ==
  ASSUME TypeOK, ChainInv, NoEmptyFrame, [Next]_vars
  PROVE  NoEmptyFrame'
  <1>1. CASE written' = written
    BY <1>1 DEF NoEmptyFrame
  <1>2. ASSUME NEW frame \in Frame, Sends(frame) PROVE NoEmptyFrame'
    <2>1. frame.req \in Request
      BY <1>2 DEF Sends, Dequeues, TypeOK
    <2>2. frame.text = "empty" => frame.req \in Request \ Serialisable /\ Len(written) = 0
      BY <1>2, <2>1 DEF Sends, Frame
    <2>3. /\ Len(written') = Len(written) + 1 /\ Len(written) \in Nat
          /\ written'[Len(written) + 1] = frame
          /\ \A i \in 1 .. Len(written) : written'[i] = written[i]
      BY <1>2 DEF Sends, TypeOK
    <2> QED BY <2>2, <2>3 DEF NoEmptyFrame
  <1> QED BY <1>1, <1>2, QueueSteps DEF Queues, Skips

\* onHandshake() does not look at what it writes.  An empty frame leaves only then,
\* as the first, for a request that cannot be serialised: never for want of one.
THEOREM EmptyFrameOnlyThen == Spec => []NoEmptyFrame
  <1>1. Init => NoEmptyFrame
    BY DEF Init, NoEmptyFrame
  <1> QED BY <1>1, EmptyNext, ChainAlways, PTL DEF Spec

-----------------------------------------------------------------------------
(* The heartbeat. *)

\* Without close() from outside, nothing closes a connection that is not open.
TimerInv ==
    /\ conn \in {"new", "connecting", "open"} => pending["close"] = 0
    /\ HeartbeatWhileOpen

LEMMA TimerNext ==
  ASSUME ~AppCloses, ~HandlersThrow, TypeOK, ChainInv, TimerInv, [Next]_vars
  PROVE  TimerInv'
  <1> USE DEF TimerInv, HeartbeatWhileOpen, TypeOK, queue, server, ChainOps, Ops
  <1>1. ASSUME NEW r \in Request, NEW outcome, Run(r) \/ Subscribe(r, outcome) PROVE TimerInv'
    BY <1>1 DEF Run, Subscribe, Started
  <1>2. CASE Acquire \/ Release \/ Close \/ TimerExpires \/ ServerIgnores \/ UNCHANGED vars
    BY <1>2 DEF Acquire, Release, Close, TimerExpires, ServerIgnores, vars
  <1>3. ASSUME NEW op \in ChainOps, NEW next \in ChainOps, Chained(op, next) \/ Failed(op)
        PROVE  TimerInv'
    BY <1>3 DEF Chained, Advances, Failed, Done, DoneStarted
  <1>4. CASE FirstWrite \/ ThrownInTake
    BY <1>4 DEF FirstWrite, ThrownInTake, Opened, Done, DoneStarted, ChainInv, Phases, ConnectOps
  <1>5. CASE MessageStep
    <2>1. MessageRead /\ (GoesOn \/ Leaves \/ Quits)
      BY <1>5 DEF MessageStep, Acknowledged, Refused, Unrelated
    <2> QED BY <2>1 DEF MessageRead, GoesOn, Leaves, Quits, CloseWs, Up, Done, DoneStarted
  <1>6. CASE OnReadError
    BY <1>6 DEF OnReadError
  <1>7. CASE OnReadPump
    BY <1>7 DEF OnReadPump, WriteNext, Started
  <1>8. CASE OnReadQuit \/ ThrownInQuit
    BY <1>8 DEF OnReadQuit, ThrownInQuit, ReadOn, Started, CloseWs, ChainInv, Phases
  <1>9. CASE OnPingTimer \/ TimerStops
    BY <1>9 DEF OnPingTimer, TimerStops, TimerEnds, Ping, Started
  <1>10. CASE OnPing \/ OnClose
    BY <1>10 DEF OnPing, OnClose, CancelTimer, Done
  <1> QED
    BY <1>1, <1>2, <1>3, <1>4, <1>5, <1>6, <1>7, <1>8, <1>9, <1>10, Steps

\* The ping timer of an open connection that nobody closes never stops, if the log
\* function does not throw.
THEOREM HeartbeatLives ==
  ASSUME ~AppCloses, ~HandlersThrow
  PROVE  Spec => []HeartbeatWhileOpen
  <1>1. Init => TimerInv
    BY DEF Init, TimerInv, HeartbeatWhileOpen, Ops
  <1>2. ASSUME TypeOK, ChainInv, TimerInv, [Next]_vars PROVE TimerInv'
    BY <1>2, TimerNext
  <1>3. TimerInv => HeartbeatWhileOpen
    BY DEF TimerInv
  <1> QED BY <1>1, <1>2, <1>3, ChainAlways, PTL DEF Spec

-----------------------------------------------------------------------------
(* Replies and requests. *)

\* A request that is taken and not written.
LEMMA BookedSame ==
  ASSUME BookedRight, UNCHANGED <<subscriptions, acked, written, replied>>,
         crossed' = (crossed \/ replied < Len(written))
  PROVE  BookedRight'
  <1>1. CASE crossed'
    BY <1>1 DEF BookedRight
  <1>2. CASE ~crossed'
    <2>1. ~crossed
      BY <1>2
    <2>2. ~(replied < Len(written))
      BY <1>2
    <2> QED BY <2>1, <2>2 DEF BookedRight
  <1> QED BY <1>1, <1>2

LEMMA BookedWrite ==
  ASSUME TypeOK, BookedRight, Take, Write(Head(subscriptionRequests)),
         UNCHANGED <<subscriptions, server>>
  PROVE  BookedRight'
  <1>1. /\ subscribing' = Head(subscriptionRequests)
        /\ subscribing' \in Entry
        /\ crossed' = (crossed \/ replied < Len(written))
    BY TakeType DEF Take, TakeSlot, Entry
  <1>2. PICK frame \in Frame :
          /\ frame.req = subscribing'
          /\ Len(written') = Len(written) + 1
          /\ written'[Len(written) + 1] = frame
    BY <1>1, WriteType
  <1>3. CASE crossed'
    BY <1>3 DEF BookedRight
  <1>4. CASE ~crossed'
    <2>0. ~crossed /\ ~(replied < Len(written))
      BY <1>1, <1>4
    <2>1. ~crossed /\ replied = Len(written) /\ Len(written) \in Nat
      BY <2>0 DEF TypeOK
    <2> QED BY <1>1, <1>2, <2>1 DEF BookedRight, server
  <1> QED BY <1>3, <1>4

LEMMA BookedReply ==
  ASSUME TypeOK, BookedRight, MessageStep
  PROVE  BookedRight'
  <1>1. UNCHANGED <<written, crossed>>
    BY DEF MessageStep, Acknowledged, Refused, Unrelated, MessageRead
  <1>2. CASE Unrelated
    BY <1>1, <1>2 DEF Unrelated, server, BookedRight
  <1>3. CASE crossed
    BY <1>1, <1>3 DEF BookedRight
  <1>4. CASE Acknowledged /\ ~crossed
    <2>1. /\ replied + 1 = Len(written) /\ replied' = Len(written)
          /\ subscribing = Answered.req
          /\ acked' = acked \cup {subscribing}
      BY <1>4 DEF Acknowledged, Answered, BookedRight
    <2>2. \A e \in Entry : subscriptions'[e] > 0 => e \in acked'
      BY <1>4, <2>1, ReplyType DEF Acknowledged, BookedRight
    <2> QED BY <1>1, <2>1, <2>2 DEF BookedRight, TypeOK
  <1>5. CASE Refused /\ Erase /\ ~crossed
    <2>1. replied' = Len(written) /\ acked' = acked
      BY <1>5 DEF Refused, BookedRight
    <2>2. ASSUME NEW e \in Entry, subscriptions'[e] > 0 PROVE subscriptions[e] > 0
      BY <1>5, <2>2, ReplyType DEF TypeOK
    <2> QED BY <1>1, <1>5, <2>1, <2>2 DEF BookedRight, TypeOK
  <1> QED BY <1>2, <1>3, <1>4, <1>5 DEF MessageStep

LEMMA ReplyNext ==
  ASSUME TypeOK, ChainInv, BookedRight, [Next]_vars
  PROVE  BookedRight'
  <1> USE DEF queue, server
  <1>1. CASE FirstWrite
    <2>1. subscriptionRequests # <<>>
      BY <1>1 DEF FirstWrite, Opened, ChainInv, Phases, ConnectOps
    <2> QED BY <1>1, <2>1, BookedWrite DEF FirstWrite, Opened, SendNext
  <1>2. CASE OnReadPump
    <2>1. CASE WriteNext /\ subscriptionRequests # <<>>
      BY <1>2, <2>1, BookedWrite DEF OnReadPump, WriteNext, SendNext
    <2>2. CASE Take /\ UNCHANGED written
      BY <1>2, <2>2, BookedSame DEF OnReadPump, Take, TakeSlot
    <2>3. CASE UNCHANGED queue /\ UNCHANGED written
      BY <1>2, <2>3 DEF OnReadPump, BookedRight
    <2> QED BY <1>2, <2>1, <2>2, <2>3 DEF OnReadPump
  <1>3. CASE MessageStep
    BY <1>3, BookedReply
  <1>4. CASE ThrownInTake
    BY <1>4, BookedSame DEF ThrownInTake, TakeSlot, Opened
  <1>5. CASE ServerIgnores
    BY <1>5 DEF ServerIgnores, BookedRight, TypeOK
  <1>6. ASSUME NEW r \in Request, NEW outcome, Run(r) \/ Subscribe(r, outcome)
        PROVE  BookedRight'
    BY <1>6 DEF Run, Subscribe, BookedRight
  <1>7. ASSUME NEW op \in ChainOps, NEW next \in ChainOps, Chained(op, next) \/ Failed(op)
        PROVE  BookedRight'
    BY <1>7 DEF Chained, Advances, Failed, BookedRight
  <1>8. CASE \/ Acquire \/ Release \/ Close \/ TimerExpires \/ UNCHANGED vars \/ OnReadError
             \/ OnReadQuit \/ OnPingTimer \/ TimerStops \/ OnPing \/ OnClose \/ ThrownInQuit
    BY <1>8 DEF vars, Acquire, Release, Close, TimerExpires, OnReadError, OnReadQuit,
                OnPingTimer, TimerStops, TimerEnds, OnPing, OnClose, ThrownInQuit, BookedRight
  <1> QED BY <1>1, <1>2, <1>3, <1>4, <1>5, <1>6, <1>7, <1>8, Steps

\* On any feed, whatever other data crosses the replies, and with handlers that
\* throw: until a request is taken before the last reply has come, every reply is
\* booked for the request it belongs to, and what counts as subscribed is confirmed.
THEOREM RepliesAreBooked == Spec => []BookedRight
  <1>1. Init => BookedRight
    BY DEF Init, BookedRight, Entry
  <1>2. ASSUME TypeOK, ChainInv, BookedRight, [Next]_vars PROVE BookedRight'
    BY <1>2, ReplyNext
  <1> QED BY <1>1, <1>2, ChainAlways, PTL DEF Spec

-----------------------------------------------------------------------------
(* Whatever reply is taken for whichever request. *)

Sent(e) == \E i \in 1 .. Len(written) : written[i].req = e

\* Of the requests that can be serialised `subscribing' holds none but what was
\* written, so none else gets into the list that isSubscribed() searches.
SentInv ==
    /\ subscribing \in Serialisable => Sent(subscribing)
    /\ \A e \in Serialisable : subscriptions[e] > 0 => Sent(e)

LEMMA SentGrows ==
  ASSUME TypeOK, ChainInv, [Next]_vars, NEW e, Sent(e)
  PROVE  Sent(e)'
  <1>1. PICK i \in 1 .. Len(written) : written[i].req = e
    BY DEF Sent
  <1>2. i \in 1 .. Len(written') /\ written'[i] = written[i]
    <2>1. CASE written' = written
      BY <1>1, <2>1
    <2>2. ASSUME NEW frame \in Frame, written' = Append(written, frame)
          PROVE  i \in 1 .. Len(written') /\ written'[i] = written[i]
      BY <1>1, <2>2 DEF TypeOK
    <2> QED BY <2>1, <2>2, QueueSteps DEF Queues, Sends, Skips
  <1> QED BY <1>1, <1>2 DEF Sent

\* Taking a request: it is written, or cannot be serialised.
LEMMA SentTake ==
  ASSUME TypeOK, ChainInv, SentInv, [Next]_vars, TakeSlot, UNCHANGED subscriptions,
         Write(Head(subscriptionRequests)) \/ Head(subscriptionRequests) \notin Serialisable
  PROVE  SentInv'
  <1>1. subscribing' = Head(subscriptionRequests) /\ subscribing' \in Entry
    BY TakeType DEF Entry
  <1>2. subscribing' \in Serialisable => Sent(subscribing)'
    <2> SUFFICES ASSUME Write(subscribing') PROVE Sent(subscribing)'
      BY <1>1
    <2>1. PICK frame \in Frame :
            /\ frame.req = subscribing'
            /\ Len(written') = Len(written) + 1
            /\ written'[Len(written) + 1] = frame
      BY <1>1, WriteType
    <2>2. Len(written) + 1 \in 1 .. Len(written')
      BY <2>1 DEF TypeOK
    <2> QED BY <2>1, <2>2 DEF Sent
  <1>3. \A e \in Serialisable : subscriptions'[e] > 0 => Sent(e)'
    BY SentGrows DEF SentInv
  <1> QED BY <1>2, <1>3 DEF SentInv

LEMMA SentNext ==
  ASSUME TypeOK, ChainInv, SentInv, [Next]_vars
  PROVE  SentInv'
  <1> USE DEF queue, server
  <1>1. CASE UNCHANGED <<subscribing, subscriptions>>
    BY <1>1, SentGrows DEF SentInv
  <1>2. CASE MessageStep
    <2>1. written' = written
      BY <1>2 DEF MessageStep, Acknowledged, Refused, Unrelated, MessageRead
    <2>2. subscribing' \in {subscribing, Null}
      BY <1>2 DEF MessageStep, Acknowledged, Unrelated, Confirm
    <2>3. ASSUME NEW e \in Serialisable, subscriptions'[e] > 0
          PROVE  subscriptions[e] > 0 \/ e = subscribing
      <3>1. e \in Entry
        BY SerialisableAssumption DEF Entry
      <3> QED BY <1>2, <2>3, <3>1, ReplyType DEF MessageStep, Acknowledged, Unrelated
    <2> QED BY <2>1, <2>2, <2>3, NullAssumption, SerialisableAssumption DEF SentInv, Sent
  <1>3. CASE FirstWrite
    <2>1. subscriptionRequests # <<>>
      BY <1>3 DEF FirstWrite, Opened, ChainInv, Phases, ConnectOps
    <2> QED BY <1>3, <2>1, SentTake DEF FirstWrite, Opened, SendNext, Take
  <1>4. CASE OnReadPump
    <2>1. CASE WriteNext /\ subscriptionRequests # <<>>
      BY <1>4, <2>1, SentTake DEF OnReadPump, WriteNext, SendNext, Take
    <2>2. CASE /\ ~(subscriptionRequests # <<>> /\ Head(subscriptionRequests) \in Serialisable)
               /\ Take \/ UNCHANGED queue
      BY <1>1, <1>4, <2>2, SentTake DEF OnReadPump, Take, TakeSlot
    <2> QED BY <1>4, <2>1, <2>2 DEF OnReadPump
  <1>5. CASE ThrownInTake
    BY <1>5, SentTake DEF ThrownInTake, Opened
  <1>6. ASSUME NEW r \in Request, NEW outcome, Run(r) \/ Subscribe(r, outcome) PROVE SentInv'
    BY <1>1, <1>6 DEF Run, Subscribe
  <1>7. ASSUME NEW op \in ChainOps, NEW next \in ChainOps, Chained(op, next) \/ Failed(op)
        PROVE  SentInv'
    BY <1>1, <1>7 DEF Chained, Advances, Failed
  <1>8. CASE \/ Acquire \/ Release \/ Close \/ TimerExpires \/ ServerIgnores \/ UNCHANGED vars
             \/ OnReadError \/ OnReadQuit \/ OnPingTimer \/ TimerStops \/ OnPing \/ OnClose
             \/ ThrownInQuit
    BY <1>1, <1>8 DEF vars, Acquire, Release, Close, TimerExpires, ServerIgnores, OnReadError,
                OnReadQuit, OnPingTimer, TimerStops, TimerEnds, OnPing, OnClose, ThrownInQuit
  <1> QED BY <1>2, <1>3, <1>4, <1>5, <1>6, <1>7, <1>8, Steps

\* isSubscribed() never returns true for a request that could be written and was not.
THEOREM SubscribedWereSent == Spec => []SubscribedWasSent
  <1>1. Init => SentInv
    BY NullAssumption, SerialisableAssumption DEF Init, SentInv, Entry
  <1>2. SentInv => SubscribedWasSent
    BY DEF SentInv, Sent, SubscribedWasSent, IsSubscribed
  <1> QED BY <1>1, <1>2, SentNext, ChainAlways, PTL DEF Spec

-----------------------------------------------------------------------------
(* The session implements RequestQueue. *)

LEMMA RequestsOfMore ==
  ASSUME TypeOK, NEW frame \in Frame, written' = Append(written, frame)
  PROVE  Requests(written') = Append(Requests(written), frame.req)
  <1> DEFINE n == Len(written)
  <1>1. /\ n \in Nat /\ Len(written') = n + 1
        /\ written'[n + 1] = frame
        /\ \A i \in 1 .. n : written'[i] = written[i] /\ written[i] \in Frame
    BY DEF TypeOK
  <1>2. frame.req \in Entry /\ \A i \in 1 .. n : written[i].req \in Entry
    BY <1>1 DEF Frame
  <1> HIDE DEF n
  <1>3. Requests(written) = [i \in 1 .. n |-> written[i].req]
    BY DEF Requests, n
  <1>4. Requests(written) \in Seq(Entry) /\ Len(Requests(written)) = n
    BY <1>1, <1>2, <1>3
  <1>5. Requests(written') = [i \in 1 .. n + 1 |-> written'[i].req]
    BY <1>1 DEF Requests
  <1>6. Requests(written') \in Seq(Entry) /\ Len(Requests(written')) = n + 1
    BY <1>1, <1>2, <1>5
  <1>7. /\ Append(Requests(written), frame.req) \in Seq(Entry)
        /\ Len(Append(Requests(written), frame.req)) = n + 1
        /\ \A i \in 1 .. n : Append(Requests(written), frame.req)[i] = Requests(written)[i]
        /\ Append(Requests(written), frame.req)[n + 1] = frame.req
    BY <1>2, <1>4, AppendProperties
  <1>8. ASSUME NEW i \in 1 .. n + 1
        PROVE  Requests(written')[i] = Append(Requests(written), frame.req)[i]
    <2>1. CASE i \in 1 .. n
      <3>1. Requests(written')[i] = written'[i].req
        BY <1>5
      <3>2. Append(Requests(written), frame.req)[i] = written[i].req
        BY <1>3, <1>7, <2>1
      <3> QED BY <1>1, <2>1, <3>1, <3>2
    <2>2. CASE i = n + 1
      <3>1. Requests(written')[n + 1] = written'[n + 1].req
        BY <1>1, <1>5
      <3>2. written'[n + 1].req = frame.req
        BY <1>1
      <3>3. Append(Requests(written), frame.req)[n + 1] = frame.req
        BY <1>7
      <3> QED BY <2>2, <3>1, <3>2, <3>3
    <2>3. n \in Nat
      BY <1>1
    <2>4. i \in 1 .. n \/ i = n + 1
      BY <2>3
    <2> QED BY <2>1, <2>2, <2>4
  <1> QED BY <1>6, <1>7, <1>8, SeqEqual

\* What was accepted and can be serialised is written once each and in that order:
\* every step of the session is a step of RequestQueue or leaves its variables alone.
THEOREM ImplementsRequestQueue == Spec => SendsInOrder
  <1>1. Init => Queue!Init
    BY DEF Init, Queue!Init, Requests
  <1>2. ASSUME TypeOK, ChainInv, [Next]_vars PROVE [Queue!Next]_(Queue!vars)
    <2>1. CASE UNCHANGED <<written, subscriptionRequests>>
      BY <2>1 DEF Queue!vars, Requests
    <2>2. ASSUME NEW r \in Request, Queues(r) PROVE Queue!Next
      BY <2>2 DEF Queues, Queue!Next, Queue!Accept, Requests
    <2>3. ASSUME NEW frame \in Frame, Sends(frame) PROVE Queue!Next
      BY <1>2, <2>3, RequestsOfMore DEF Sends, Dequeues, Queue!Next, Queue!Send, Queue!Leave
    <2>4. CASE Skips
      BY <2>4 DEF Skips, Dequeues, Queue!Next, Queue!Skip, Queue!Leave, Requests
    <2> QED BY <1>2, <2>1, <2>2, <2>3, <2>4, QueueSteps
  <1> QED BY <1>1, <1>2, ChainAlways, PTL DEF Spec, SendsInOrder, Queue!Spec
=============================================================================
