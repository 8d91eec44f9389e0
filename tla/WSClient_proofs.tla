--------------------------- MODULE WSClient_proofs ---------------------------
(* Theorems about WSClient, for every set of threads, and that Streams, where its *)
(* sessions are those of WSSession, implements it, so that they hold there too.   *)
EXTENDS Streams, TLAPS

\* The handle is free when a thread is assigned to it, and when it is destroyed.
HandleFree == app \in {"spawn", "destroyed"} => ~Joinable

\* One io thread rests on that.
IInv ==
    /\ TypeOK
    /\ OneIoThread
    /\ HandleFree

LEMMA Inductive == IInv /\ [Next]_vars => IInv'
  <1> SUFFICES ASSUME IInv, [Next]_vars PROVE IInv'
    OBVIOUS
  <1> USE ThreadAssumption DEF IInv, TypeOK, OneIoThread, Active, Joinable, HandleFree,
          AppGoes, ThreadGoes, ThreadPc, AppPc
  <1>1. CASE Subscribe \/ CallRun \/ RunCheck \/ RunSet \/ DtorStop
    BY <1>1 DEF Subscribe, CallRun, RunCheck, RunSet, DtorStop
  <1>2. CASE RunJoin
    BY <1>2 DEF RunJoin, Join
  <1>3. CASE RunSpawn
    BY <1>3 DEF RunSpawn
  <1>4. CASE DtorJoin
    BY <1>4 DEF DtorJoin, Join
  <1>5. ASSUME NEW t \in Threads, ThreadNext(t) PROVE IInv'
    <2>1. CASE LoopBegin(t)
      BY <2>1 DEF LoopBegin
    <2>2. CASE LoopRestart(t) \/ SessionEnds(t) \/ RunReturns(t) \/ RunThrows(t)
      BY <2>2 DEF LoopRestart, SessionEnds, RunReturns, RunThrows
    <2>3. CASE LoopBreak(t) \/ ThreadEnds(t)
      BY <2>3 DEF LoopBreak, ThreadEnds
    <2> QED BY <1>5, <2>1, <2>2, <2>3 DEF ThreadNext
  <1>6. CASE UNCHANGED vars
    BY <1>6 DEF vars
  <1> QED BY <1>1, <1>2, <1>3, <1>4, <1>5, <1>6 DEF Next, AppNext


LEMMA InitInv == Init => IInv
  BY DEF Init, IInv, TypeOK, OneIoThread, Active, Joinable, HandleFree, ThreadPc, AppPc

LEMMA Always == Spec => []IInv
  BY InitInv, Inductive, PTL DEF Spec

\* At most one thread runs handlers, it is the one the destructor joins, and
\* m_isRunning is true meanwhile.
THEOREM SingleIoThread == Spec => []OneIoThread
  <1>1. IInv => OneIoThread
    BY DEF IInv
  <1> QED BY <1>1, Always, PTL

\* The io_context is not used after it was destroyed.
THEOREM QuietAfterDtor == Spec => []NothingAfterDtor
  <1>1. IInv => NothingAfterDtor
    BY ThreadAssumption DEF IInv, OneIoThread, NothingAfterDtor, Joinable, HandleFree
  <1> QED BY <1>1, Always, PTL

\* The state keeps its types.
THEOREM TypeCorrect == Spec => []TypeOK
  <1>1. IInv => TypeOK
    BY DEF IInv
  <1> QED BY <1>1, Always, PTL

-----------------------------------------------------------------------------
(* Streams implements WSClient. *)

\* Operations are counted, and the handler in progress is one of two.
StreamsInv ==
    /\ IInv
    /\ pending \in [S!Ops -> Nat]
    /\ handler \in {"none", "pump", "quit"}

\* What a handler does to the operations and to the handler in progress, whether it
\* ends or throws.
LEMMA HandlerCounts ==
  ASSUME StreamsInv, S!Io \/ S!Thrown
  PROVE  pending' \in [S!Ops -> Nat] /\ handler' \in {"none", "pump", "quit"}
  <1> USE DEF StreamsInv
  <1>0. \A op, o \in S!Ops :
           /\ S!Started(op) \in [S!Ops -> Nat]
           /\ pending[op] > 0 => S!Done(op) \in [S!Ops -> Nat]
           /\ pending[op] > 0 => S!DoneStarted(op, o) \in [S!Ops -> Nat]
    BY DEF S!Started, S!Done, S!DoneStarted
  <1>1. {"resolve", "connect", "ssl", "handshake", "write", "read", "ping", "close"} \subseteq S!Ops
    BY DEF S!Ops, S!ChainOps
  <1>2. ASSUME NEW op \in S!Ops, NEW o \in S!Ops, S!Advances(op, o) \/ S!Failed(op)
        PROVE  pending' \in [S!Ops -> Nat] /\ handler' = handler
    BY <1>0, <1>2 DEF S!Advances, S!Failed
  <1>3. CASE S!OnResolve \/ S!OnConnect \/ S!OnSSLHandshake \/ S!OnWrite
    BY <1>1, <1>2, <1>3 DEF S!OnResolve, S!OnConnect, S!OnSSLHandshake, S!OnWrite
  <1>4. CASE S!OnHandshake \/ S!ThrownAtEnd \/ S!ThrownInTake \/ S!ThrownInQuit
    <2>1. CASE S!FirstWrite \/ S!ThrownInTake \/ S!ThrownInQuit
      BY <1>0, <1>1, <2>1 DEF S!FirstWrite, S!ThrownInTake, S!ThrownInQuit, S!Opened
    <2>2. CASE S!OnReadError \/ S!OnPing \/ S!OnClose \/ S!TimerEnds
      BY <1>0, <1>1, <2>2 DEF S!OnReadError, S!OnPing, S!OnClose, S!TimerEnds
    <2>3. ASSUME NEW op \in S!ChainOps, S!Failed(op)
          PROVE  pending' \in [S!Ops -> Nat] /\ handler' = handler
      BY <1>2, <2>3 DEF S!Ops
    <2>4. "handshake" \in S!ChainOps
      BY DEF S!ChainOps
    <2> QED BY <1>4, <2>1, <2>2, <2>3, <2>4 DEF S!OnHandshake, S!ThrownAtEnd
  <1>5. CASE S!OnRead \/ S!ThrownInMessage
    <2>1. CASE S!OnReadError
      BY <1>0, <1>1, <2>1 DEF S!OnReadError
    <2>2. CASE S!MessageRead /\ (S!GoesOn \/ S!Leaves \/ S!Quits)
      BY <1>0, <1>1, <2>2 DEF S!MessageRead, S!GoesOn, S!Leaves, S!Quits
    <2>3. S!OnReadError \/ (S!MessageRead /\ (S!GoesOn \/ S!Leaves \/ S!Quits))
      BY <1>5 DEF S!OnRead, S!OnReadAck, S!OnReadNack, S!OnReadData, S!OnReadMalformed,
         S!ThrownInMessage, S!Acknowledged, S!Refused, S!Unrelated, S!Reject
    <2> QED BY <2>1, <2>2, <2>3
  <1>6. CASE S!OnReadPump \/ S!OnReadQuit
    <2>1. [pending EXCEPT !["read"] = @ + 1, !["close"] = @ + 1] \in [S!Ops -> Nat]
      BY <1>1
    <2>2. S!ReadOn \in [S!Ops -> Nat]
      BY <1>0, <1>1, <2>1 DEF S!ReadOn
    <2>3. CASE S!OnReadPump
      BY <1>0, <1>1, <2>3 DEF S!OnReadPump, S!WriteNext
    <2>4. CASE S!OnReadQuit
      BY <2>2, <2>4 DEF S!OnReadQuit
    <2> QED BY <1>6, <2>3, <2>4
  <1>7. CASE S!OnPingTimer \/ S!OnPing \/ S!OnClose \/ S!ThrownInPing
    BY <1>0, <1>1, <1>7 DEF S!OnPingTimer, S!Ping, S!OnPing, S!OnClose, S!ThrownInPing, S!TimerEnds
  <1> QED BY <1>3, <1>4, <1>5, <1>6, <1>7 DEF S!Io, S!Thrown

\* A step of Streams is a step of WSClient, or none of its variables changes.
LEMMA StreamsStep == StreamsInv /\ [StreamsNext]_streams => [Next]_vars
  <1> SUFFICES ASSUME StreamsInv, StreamsNext, ~ UNCHANGED vars PROVE Next
    BY DEF streams
  <1>1. ASSUME NEW r \in Request, Ask(r) PROVE FALSE
    BY <1>1 DEF Ask
  <1>2. CASE SubscribeMore \/ SubscribeAnew \/ CallThrows \/ ManagerRuns
    BY <1>2 DEF SubscribeMore, SubscribeAnew, CallThrows, ManagerRuns, Next, AppNext
  <1>3. CASE ClientRuns \/ Destroy
    BY <1>3 DEF ClientRuns, Destroy, Next, AppNext
  <1>4. ASSUME NEW t \in Threads, LoopGoes(t) \/ LoopReturns(t) PROVE Next
    BY <1>4 DEF LoopGoes, LoopReturns, Next, ThreadNext
  <1>5. ASSUME NEW t \in Threads, Handler(t, S!Io) PROVE Next
    <2>1. SessionEnds(t)
      BY <1>5 DEF Handler, Serving, SessionFollows, client, vars, SessionEnds
    <2> QED BY <2>1 DEF Next, ThreadNext
  <1>6. ASSUME NEW t \in Threads, HandlerThrows(t) PROVE Next
    <2>1. RunThrows(t)
      BY <1>6 DEF HandlerThrows, SessionFollows, RunThrows
    <2> QED BY <2>1 DEF Next, ThreadNext
  <1>7. CASE Environment
    BY <1>7 DEF Environment
  <1> QED BY <1>1, <1>2, <1>3, <1>4, <1>5, <1>6, <1>7 DEF StreamsNext

LEMMA StreamsInductive == StreamsInv /\ [StreamsNext]_streams => StreamsInv'
  <1> SUFFICES ASSUME StreamsInv, [StreamsNext]_streams
               PROVE  pending' \in [S!Ops -> Nat] /\ handler' \in {"none", "pump", "quit"}
    BY StreamsStep, Inductive DEF StreamsInv
  <1>1. CASE UNCHANGED <<pending, handler>>
    BY <1>1 DEF StreamsInv
  <1>2. ASSUME NEW r \in Request, Ask(r) PROVE UNCHANGED <<pending, handler>>
    BY <1>2 DEF Ask, inside
  <1>3. CASE SubscribeMore \/ CallThrows \/ ManagerRuns \/ ClientRuns
    BY <1>1, <1>3 DEF SubscribeMore, S!Subscribe, CallThrows, ManagerRuns, ClientRuns, inside
  <1>4. CASE SubscribeAnew
    BY <1>4 DEF SubscribeAnew, SessionMade
  <1>5. CASE Destroy
    BY <1>5 DEF Destroy, inside, StreamsInv
  <1>6. ASSUME NEW t \in Threads, LoopGoes(t) \/ LoopReturns(t) PROVE UNCHANGED <<pending, handler>>
    BY <1>6 DEF LoopGoes, LoopReturns, inside
  <1>7. ASSUME NEW t \in Threads, Handler(t, S!Io) \/ HandlerThrows(t) PROVE S!Io \/ S!Thrown
    BY <1>7 DEF Handler, HandlerThrows
  <1>8. CASE Environment
    BY <1>1, <1>8 DEF Environment, S!TimerExpires, S!ServerIgnores
  <1>9. CASE UNCHANGED streams
    BY <1>1, <1>9 DEF streams, inside
  <1> QED BY <1>1, <1>2, <1>3, <1>4, <1>5, <1>6, <1>7, <1>8, <1>9, HandlerCounts DEF StreamsNext

LEMMA StreamsAlways == StreamsSpec => []StreamsInv
  <1>1. StreamsInit => StreamsInv
    BY InitInv DEF StreamsInit, StreamsInv, S!Init
  <1> QED BY <1>1, StreamsInductive, PTL DEF StreamsSpec

\* Manager, client and session together do to the client's state only what WSClient
\* says: a session ends in the thread that serves it.
THEOREM StreamsImplementsClient == StreamsSpec => ImplementsClient
  <1>1. StreamsInit => Init
    BY DEF StreamsInit
  <1> QED BY <1>1, StreamsStep, StreamsAlways, PTL DEF StreamsSpec, ImplementsClient, Spec

\* So one thread runs handlers in the composition.
THEOREM StreamsSingleIoThread == StreamsSpec => []OneIoThread
  BY SingleIoThread, StreamsImplementsClient DEF ImplementsClient

-----------------------------------------------------------------------------
(* The theorems of the session hold of the sessions that come and go here:   *)
(* between the making of one and its end, every step is one of WSSession's.  *)

P == INSTANCE WSSession_proofs

LEMMA SessionConstants == P!NullAssumption /\ P!SerialisableAssumption /\ P!BoundAssumption
  BY NullAssumption, SerialisableAssumption, SessionAssumption, ThrowAssumption
     DEF P!NullAssumption, P!SerialisableAssumption, P!BoundAssumption

\* The instances S and P of WSSession have the same steps.
LEMMA SameAdd ==
  ASSUME NEW r \in Request, NEW outcome \in S!Outcomes(r), S!Subscribe(r, outcome)
  PROVE  outcome \in P!Outcomes(r) /\ P!Subscribe(r, outcome)
  <1>1. S!Outcomes(r) = P!Outcomes(r)
    BY DEF S!Outcomes, P!Outcomes
  <1> QED BY <1>1 DEF S!Subscribe, P!Subscribe, S!WriteSubscription, P!WriteSubscription,
             S!Enqueue, P!Enqueue, S!server, P!server

LEMMA SameEnvironment == S!TimerExpires \/ S!ServerIgnores => P!TimerExpires \/ P!ServerIgnores
  BY DEF S!TimerExpires, P!TimerExpires, S!ServerIgnores, P!ServerIgnores, S!Answered, P!Answered,
         S!queue, P!queue, S!server, P!server

LEMMA SameParts ==
  /\ S!ChainOps = P!ChainOps /\ S!Nothing = P!Nothing /\ S!Frame = P!Frame
  /\ S!Answered = P!Answered
  /\ S!SendNext => P!SendNext
  /\ S!TakeSlot => P!TakeSlot
  /\ S!Opened => P!Opened
  /\ \A op, o : (S!Advances(op, o) => P!Advances(op, o)) /\ (S!Failed(op) => P!Failed(op))
  <1> USE DEF S!queue, P!queue, S!server, P!server, S!Done, P!Done, S!DoneStarted, P!DoneStarted
  <1>1. S!Entry = P!Entry /\ S!ChainOps = P!ChainOps
    BY DEF S!Entry, P!Entry, S!ChainOps, P!ChainOps
  <1>2. S!Nothing = P!Nothing /\ S!Frame = P!Frame /\ S!Answered = P!Answered
    BY <1>1 DEF S!Nothing, P!Nothing, S!Frame, P!Frame, S!Answered, P!Answered
  <1>3. S!TakeSlot => P!TakeSlot
    BY DEF S!TakeSlot, P!TakeSlot
  <1>4. \A r : S!Write(r) => P!Write(r)
    BY <1>2 DEF S!Write, P!Write
  <1>5. S!SendNext => P!SendNext
    BY <1>3, <1>4 DEF S!SendNext, P!SendNext, S!Take, P!Take
  <1>6. S!Opened => P!Opened
    BY DEF S!Opened, P!Opened
  <1>7. \A op, o : (S!Advances(op, o) => P!Advances(op, o)) /\ (S!Failed(op) => P!Failed(op))
    BY DEF S!Advances, P!Advances, S!Failed, P!Failed
  <1> QED BY <1>1, <1>2, <1>3, <1>5, <1>6, <1>7

\* The steps that handle a message or its failure.
LEMMA SameReads ==
  /\ S!OnRead => P!OnRead
  /\ S!OnReadError => P!OnReadError
  /\ S!ThrownInMessage => P!ThrownInMessage
  <1> USE DEF S!queue, P!queue, S!server, P!server, S!Done, P!Done, S!DoneStarted, P!DoneStarted
  <1>1. S!MessageRead => P!MessageRead
    BY DEF S!MessageRead, P!MessageRead, S!Up, P!Up
  <1>2. /\ S!GoesOn => P!GoesOn
        /\ S!Leaves => P!Leaves
        /\ S!Quits => P!Quits
    BY DEF S!GoesOn, P!GoesOn, S!Leaves, P!Leaves, S!Quits, P!Quits, S!CloseWs, P!CloseWs
  <1>3. S!Acknowledged => P!Acknowledged
    BY <1>1, SameParts DEF S!Acknowledged, P!Acknowledged, S!Confirm, P!Confirm
  <1>4. (S!Refused => P!Refused) /\ (S!Erase => P!Erase) /\ (S!Unrelated => P!Unrelated)
    BY <1>1 DEF S!Refused, P!Refused, S!Erase, P!Erase, S!Unrelated, P!Unrelated
  <1>5. S!Reject => P!Reject
    BY <1>2, <1>4 DEF S!Reject, P!Reject
  <1>6. S!OnReadError => P!OnReadError
    BY DEF S!OnReadError, P!OnReadError, S!CancelTimer, P!CancelTimer
  <1>7. S!OnRead => P!OnRead
    BY <1>2, <1>3, <1>4, <1>5, <1>6
       DEF S!OnRead, P!OnRead, S!OnReadAck, P!OnReadAck, S!OnReadNack, P!OnReadNack,
           S!OnReadData, P!OnReadData, S!OnReadMalformed, P!OnReadMalformed
  <1>8. S!ThrownInMessage => P!ThrownInMessage
    BY <1>2, <1>3, <1>4 DEF S!ThrownInMessage, P!ThrownInMessage
  <1> QED BY <1>6, <1>7, <1>8

LEMMA SameHandlers == (S!Io => P!Io) /\ (S!Thrown => P!Thrown)
  <1> USE DEF S!queue, P!queue, S!server, P!server, S!Started, P!Started, S!Done, P!Done,
              S!DoneStarted, P!DoneStarted
  <1>1. S!OnResolve \/ S!OnConnect \/ S!OnSSLHandshake \/ S!OnWrite
        => P!OnResolve \/ P!OnConnect \/ P!OnSSLHandshake \/ P!OnWrite
    BY SameParts DEF S!OnResolve, P!OnResolve, S!OnConnect, P!OnConnect, S!OnSSLHandshake,
           P!OnSSLHandshake, S!OnWrite, P!OnWrite, S!Up, P!Up
  <1>2. S!OnHandshake => P!OnHandshake
    BY SameParts DEF S!OnHandshake, P!OnHandshake, S!FirstWrite, P!FirstWrite
  <1>3. S!OnReadPump => P!OnReadPump
    BY SameParts DEF S!OnReadPump, P!OnReadPump, S!WriteNext, P!WriteNext, S!Take, P!Take
  <1>4. S!OnReadQuit => P!OnReadQuit
    <2>1. S!ReadOn = P!ReadOn
      BY SameParts DEF S!ReadOn, P!ReadOn
    <2> QED BY <2>1, SameParts DEF S!OnReadQuit, P!OnReadQuit, S!CloseWs, P!CloseWs
  <1>5. S!TimerEnds => P!TimerEnds
    BY DEF S!TimerEnds, P!TimerEnds
  <1>6. S!OnPingTimer => P!OnPingTimer
    BY <1>5 DEF S!OnPingTimer, P!OnPingTimer, S!Ping, P!Ping
  <1>7. (S!OnPing => P!OnPing) /\ (S!OnClose => P!OnClose)
    BY DEF S!OnPing, P!OnPing, S!OnClose, P!OnClose, S!CancelTimer, P!CancelTimer
  <1>8. S!Io => P!Io
    BY <1>1, <1>2, <1>3, <1>4, <1>6, <1>7, SameReads DEF S!Io, P!Io
  <1>9. S!ThrownAtEnd \/ S!ThrownInPing => P!ThrownAtEnd \/ P!ThrownInPing
    BY <1>5, <1>7, SameParts, SameReads
       DEF S!ThrownAtEnd, P!ThrownAtEnd, S!ThrownInPing, P!ThrownInPing
  <1>10. S!ThrownInTake => P!ThrownInTake
    BY SameParts DEF S!ThrownInTake, P!ThrownInTake
  <1>11. S!ThrownInQuit => P!ThrownInQuit
    BY SameParts DEF S!ThrownInQuit, P!ThrownInQuit
  <1>12. S!Thrown => P!Thrown
    BY <1>9, <1>10, <1>11, SameReads DEF S!Thrown, P!Thrown
  <1> QED BY <1>8, <1>12

CallType == call \in Call \cup {NoCall}

LEMMA CallNext == CallType /\ [StreamsNext]_streams => CallType'
  <1> SUFFICES ASSUME CallType, [StreamsNext]_streams PROVE CallType'
    OBVIOUS
  <1> USE DEF CallType, Call
  <1>1. ASSUME NEW r \in Request, Ask(r) PROVE CallType'
    BY <1>1 DEF Ask
  <1>2. CASE SubscribeMore
    BY <1>2 DEF SubscribeMore, Subscribing
  <1>3. CASE SubscribeAnew
    BY <1>3 DEF SubscribeAnew
  <1>4. CASE ManagerRuns \/ CallThrows
    BY <1>4 DEF ManagerRuns, CallThrows
  <1>5. CASE ClientRuns \/ Destroy \/ Environment \/ UNCHANGED streams
    BY <1>5 DEF ClientRuns, Destroy, Environment, streams
  <1>6. ASSUME NEW t \in Threads,
               LoopGoes(t) \/ LoopReturns(t) \/ Handler(t, S!Io) \/ HandlerThrows(t)
        PROVE  CallType'
    BY <1>6 DEF LoopGoes, LoopReturns, Handler, HandlerThrows
  <1> QED BY <1>1, <1>2, <1>3, <1>4, <1>5, <1>6 DEF StreamsNext

\* The client is destroyed, and the operations with it.
Gone ==
    /\ app' = "destroyed"
    /\ pending' = [op \in P!Ops |-> 0] /\ pingTimer' = "off" /\ handler' = "none"
    /\ UNCHANGED <<subscriptionRequests, subscribing, subscriptions, conn, held, written,
                   replied, acked, crossed>>

\* What a step is to the session.
LEMMA SessionSteps ==
  ASSUME CallType, [StreamsNext]_streams
  PROVE  [P!Next]_P!vars \/ (\E r \in Request : SessionMade(r)) \/ Gone
  <1>1. ASSUME UNCHANGED inside PROVE UNCHANGED P!vars
    BY <1>1 DEF inside, P!vars
  <1>2. CASE SubscribeMore
    <2>1. call.req \in Request
      BY <1>2, NullAssumption DEF SubscribeMore, Subscribing, CallType, Call
    <2>2. \/ UNCHANGED inside
          \/ \E outcome \in S!Outcomes(call.req) : S!Subscribe(call.req, outcome)
      BY <1>2 DEF SubscribeMore
    <2> QED BY <1>1, <2>1, <2>2, SameAdd DEF P!Next, P!App
  <1>3. CASE SubscribeAnew
    <2>1. call.req \in Request
      BY <1>3 DEF SubscribeAnew, CallType, Call
    <2> QED BY <1>3, <2>1 DEF SubscribeAnew
  <1>4. CASE Destroy
    <2>1. CASE DtorJoin
      BY <1>1, <1>4, <2>1 DEF Destroy, DtorJoin, Join, AppGoes, DtorStop, Gone, S!Ops, P!Ops,
                          S!ChainOps, P!ChainOps
    <2>2. CASE ~DtorJoin
      BY <1>1, <1>4, <2>2 DEF Destroy
    <2> QED BY <2>1, <2>2
  <1>5. CASE ManagerRuns \/ CallThrows \/ ClientRuns \/ UNCHANGED streams
    BY <1>1, <1>5 DEF ManagerRuns, CallThrows, ClientRuns, streams
  <1>6. ASSUME NEW r \in Request, Ask(r) PROVE UNCHANGED P!vars
    BY <1>1, <1>6 DEF Ask
  <1>7. ASSUME NEW t \in Threads, LoopGoes(t) \/ LoopReturns(t) PROVE UNCHANGED P!vars
    BY <1>1, <1>7 DEF LoopGoes, LoopReturns
  <1>8. ASSUME NEW t \in Threads, Handler(t, S!Io) \/ HandlerThrows(t) PROVE P!Next
    BY <1>8, SameHandlers DEF Handler, HandlerThrows, P!Next
  <1>9. CASE Environment
    BY <1>9, SameEnvironment DEF Environment, P!Next
  <1> QED BY <1>2, <1>3, <1>4, <1>5, <1>6, <1>7, <1>8, <1>9 DEF StreamsNext

\* What WSSession_proofs shows of one session.
SessionInv == P!TypeOK /\ P!ChainInv /\ P!NoEmptyFrame /\ P!SentInv /\ P!BookedRight

LEMMA MadeInv ==
  ASSUME NEW r \in Request, SessionMade(r)
  PROVE  SessionInv' /\ P!TimerInv'
  <1> USE NullAssumption, SerialisableAssumption
      DEF SessionMade, S!Entry, P!Entry, S!Ops, P!Ops, S!ChainOps, P!ChainOps, P!ConnectOps
  <1>1. P!TypeOK'
    <2>1. subscriptionRequests' \in Seq(Request) /\ written' \in Seq(P!Frame) /\ Len(written') = 0
      OBVIOUS
    <2>2. replied' \in 0 .. Len(written')
      BY <2>1
    <2> QED BY <2>1, <2>2 DEF P!TypeOK
  <1>2. P!ChainInv'
    BY DEF P!ChainInv, P!OneChain, P!Phases, P!Nothing
  <1>3. P!NoEmptyFrame' /\ P!SentInv'
    BY DEF P!NoEmptyFrame, P!SentInv
  <1>4. P!BookedRight' /\ P!TimerInv'
    BY DEF P!BookedRight, P!TimerInv, P!HeartbeatWhileOpen
  <1> QED BY <1>1, <1>2, <1>3, <1>4 DEF SessionInv

LEMMA GoneInv ==
  ASSUME Gone
  PROVE  SessionInv => SessionInv'
  <1> USE DEF Gone, P!Ops, P!ChainOps, P!ConnectOps
  <1>1. P!TypeOK => P!TypeOK'
    BY DEF P!TypeOK, P!Entry
  <1>2. P!ChainInv => P!ChainInv'
    BY DEF P!ChainInv, P!OneChain, P!Phases, P!Nothing, P!Entry
  <1>3. (P!NoEmptyFrame => P!NoEmptyFrame') /\ (P!SentInv => P!SentInv')
    BY DEF P!NoEmptyFrame, P!SentInv, P!Sent
  <1>4. P!BookedRight => P!BookedRight'
    BY DEF P!BookedRight, P!Entry
  <1> QED BY <1>1, <1>2, <1>3, <1>4 DEF SessionInv

LEMMA SessionNext == SessionInv /\ CallType /\ [StreamsNext]_streams => SessionInv'
  <1> SUFFICES ASSUME SessionInv, CallType, [StreamsNext]_streams PROVE SessionInv'
    OBVIOUS
  <1>1. CASE [P!Next]_P!vars
    <2>1. P!TypeOK'
      BY <1>1, P!TypeNext, SessionConstants DEF SessionInv, P!TypeNext
    <2>2. P!ChainInv'
      BY <1>1, P!ChainNext, SessionConstants DEF SessionInv, P!ChainNext
    <2>3. P!NoEmptyFrame'
      BY <1>1, P!EmptyNext, SessionConstants DEF SessionInv, P!EmptyNext
    <2>4. P!SentInv'
      BY <1>1, P!SentNext, SessionConstants DEF SessionInv, P!SentNext
    <2>5. P!BookedRight'
      BY <1>1, P!ReplyNext, SessionConstants DEF SessionInv, P!ReplyNext
    <2> QED BY <2>1, <2>2, <2>3, <2>4, <2>5 DEF SessionInv
  <1> QED BY <1>1, SessionSteps, MadeInv, GoneInv

LEMMA SessionAlways == StreamsSpec => [](SessionInv /\ CallType)
  <1>1. StreamsInit => SessionInv /\ CallType
    <2> SUFFICES ASSUME StreamsInit PROVE SessionInv /\ CallType
      OBVIOUS
    <2> USE NullAssumption, SerialisableAssumption
        DEF StreamsInit, S!Init, S!Entry, P!Entry, S!Ops, P!Ops, S!ChainOps, P!ChainOps
    <2>1. P!TypeOK /\ CallType
      <3>1. subscriptionRequests \in Seq(Request) /\ written \in Seq(P!Frame) /\ Len(written) = 0
        OBVIOUS
      <3>2. replied \in 0 .. Len(written)
        BY <3>1
      <3> QED BY <3>1, <3>2 DEF P!TypeOK, CallType
    <2>2. P!ChainInv
      BY DEF P!ChainInv, P!OneChain, P!Phases, P!Nothing, P!ConnectOps
    <2>3. P!NoEmptyFrame /\ P!SentInv /\ P!BookedRight
      BY DEF P!NoEmptyFrame, P!SentInv, P!BookedRight
    <2> QED BY <2>1, <2>2, <2>3 DEF SessionInv
  <1> QED BY <1>1, SessionNext, CallNext, PTL DEF StreamsSpec

\* Manager, client and session keep their types together.
THEOREM StreamsTypeCorrect == StreamsSpec => []StreamsTypeOK
  <1>1. P!TypeOK => S!TypeOK
    <2>1. P!Entry = S!Entry /\ P!Ops = S!Ops
      BY DEF P!Entry, S!Entry, P!Ops, S!Ops, P!ChainOps, S!ChainOps
    <2> QED BY <2>1, SameParts DEF P!TypeOK, S!TypeOK
  <1>2. StreamsSpec => []TypeOK
    BY StreamsImplementsClient, TypeCorrect, PTL DEF ImplementsClient
  <1>3. TypeOK /\ SessionInv /\ CallType => StreamsTypeOK
    BY <1>1 DEF SessionInv, CallType, StreamsTypeOK
  <1> QED BY <1>2, <1>3, SessionAlways, PTL

\* However many sessions there are, each has one chain of operations, and an empty frame
\* is none but the first, for a request that cannot be serialised.
THEOREM StreamsSingleChain == StreamsSpec => [](S!OneChain /\ S!NoEmptyFrame)
  <1>1. SessionInv => S!OneChain /\ S!NoEmptyFrame
    BY DEF SessionInv, P!ChainInv, P!OneChain, S!OneChain, P!ChainOps, S!ChainOps,
           P!NoEmptyFrame, S!NoEmptyFrame
  <1> QED BY <1>1, SessionAlways, PTL

\* isSubscribed() speaks of the session there is, however many there were before.
THEOREM SubscribedInThisOne == StreamsSpec => []SubscribedInThisSession
  <1>1. SessionInv => SubscribedInThisSession
    BY DEF SessionInv, P!SentInv, P!Sent, SubscribedInThisSession, S!SubscribedWasSent,
           S!IsSubscribed
  <1> QED BY <1>1, SessionAlways, PTL

\* In each of them what isSubscribed() tells the manager is true, and the reply that is
\* due is for the request in the slot, on any feed and with handlers that throw, until a
\* request is taken before the last reply has come.
THEOREM ManagerIsToldTheTruth == StreamsSpec => []S!BookedRight
  <1>1. SessionInv => S!BookedRight
    BY DEF SessionInv, P!BookedRight, S!BookedRight, P!Entry, S!Entry
  <1> QED BY <1>1, SessionAlways, PTL

LEMMA DestroyedForGood ==
  ASSUME StreamsInv, [StreamsNext]_streams, app = "destroyed"
  PROVE  app' = "destroyed"
  <1>1. [Next]_vars
    BY StreamsStep
  <1> QED
    BY <1>1 DEF vars, Next, AppNext, AppGoes, Subscribe, CallRun, RunCheck, RunSet, RunJoin, Join,
           RunSpawn, DtorStop, DtorJoin, ThreadNext, ThreadGoes, LoopBegin, LoopRestart,
           SessionEnds, RunReturns, RunThrows, LoopBreak, ThreadEnds

\* The ping timer of an open connection never stops before the client is destroyed, if
\* the log function does not throw.
THEOREM StreamsHeartbeat ==
  ASSUME ~AppCloses, ~HandlersThrow
  PROVE  StreamsSpec => [](app # "destroyed" => S!HeartbeatWhileOpen)
  <1> DEFINE Inv == app # "destroyed" => P!TimerInv
  <1>1. StreamsInit => Inv
    BY DEF StreamsInit, S!Init, P!TimerInv, P!HeartbeatWhileOpen, S!Ops
  <1>2. ASSUME StreamsInv, SessionInv, CallType, Inv, [StreamsNext]_streams PROVE Inv'
    <2>1. CASE [P!Next]_P!vars
      BY <1>2, <2>1, DestroyedForGood, P!TimerNext, SessionConstants DEF SessionInv, P!TimerNext
    <2> QED BY <1>2, <2>1, SessionSteps, MadeInv DEF Gone
  <1>3. Inv => (app # "destroyed" => S!HeartbeatWhileOpen)
    BY DEF P!TimerInv, P!HeartbeatWhileOpen, S!HeartbeatWhileOpen
  <1> QED BY <1>1, <1>2, <1>3, StreamsAlways, SessionAlways, PTL DEF StreamsSpec

-----------------------------------------------------------------------------
(* The thread, the client's weak_ptr and the session. *)

\* onRead() is in progress only where a thread is in io_context::run(), and the
\* weak_ptr can be locked as long as something in the io_context keeps the session.
ServedInv ==
    /\ handler # "none" => \E t \in Threads : thread[t] = "run"
    /\ session = "live" <=> S!Kept

\* An exception leaves nothing to do of the handler it was thrown in.
LEMMA ThrownEnds == S!Thrown => handler' = "none"
  <1>1. S!ThrownAtEnd \/ S!ThrownInPing => handler' = "none"
    BY DEF S!ThrownAtEnd, S!ThrownInPing, S!Failed, S!OnReadError, S!OnPing, S!OnClose, S!TimerEnds
  <1>2. S!ThrownInMessage => handler' = "none"
    BY DEF S!ThrownInMessage, S!Acknowledged, S!Refused, S!Unrelated, S!MessageRead, S!Leaves
  <1> QED BY <1>1, <1>2 DEF S!Thrown, S!ThrownInTake, S!ThrownInQuit

LEMMA ServedNext ==
  ASSUME StreamsInv, ServedInv, [StreamsNext]_streams
  PROVE  ServedInv'
  <1>1. CASE UNCHANGED <<thread, session, inside>>
    BY <1>1 DEF ServedInv, inside, S!Kept
  <1>2. CASE SubscribeMore
    <2>1. UNCHANGED <<thread, session, pending, pingTimer, handler>>
      BY <1>2 DEF SubscribeMore, S!Subscribe, vars, inside
    <2> QED BY <2>1 DEF ServedInv, S!Kept
  <1>3. CASE SubscribeAnew
    BY <1>3 DEF SubscribeAnew, Subscribe, SessionMade, ServedInv, S!Kept, S!Ops, S!ChainOps
  <1>4. CASE Destroy
    <2>1. CASE DtorJoin /\ pending' = [op \in S!Ops |-> 0] /\ pingTimer' = "off" /\ handler' = "none"
      BY <2>1 DEF DtorJoin, ServedInv, S!Kept, S!Ops, S!ChainOps
    <2>2. CASE DtorStop /\ UNCHANGED <<inside, call>>
      BY <1>1, <2>2 DEF DtorStop
    <2> QED BY <1>4, <2>1, <2>2 DEF Destroy
  <1>5. CASE ManagerRuns \/ CallThrows \/ UNCHANGED streams \/ \E r \in Request : Ask(r)
    BY <1>1, <1>5 DEF ManagerRuns, CallThrows, CallRun, streams, vars, Ask
  <1>6. CASE ClientRuns
    <2>1. UNCHANGED <<session, inside>>
      BY <1>6 DEF ClientRuns, RunCheck, RunSet, RunJoin, RunSpawn
    <2>2. \A t \in Threads : thread[t] = "run" => thread'[t] = "run"
      <3>1. CASE RunCheck \/ RunSet
        BY <3>1 DEF RunCheck, RunSet
      <3>2. CASE RunJoin
        BY <3>2 DEF RunJoin, Join, StreamsInv, IInv, TypeOK
      <3>3. CASE RunSpawn
        BY <3>3 DEF RunSpawn, StreamsInv, IInv, TypeOK
      <3> QED BY <1>6, <3>1, <3>2, <3>3 DEF ClientRuns
    <2> QED BY <2>1, <2>2 DEF ServedInv, inside, S!Kept
  <1>7. ASSUME NEW t \in Threads, LoopGoes(t) PROVE ServedInv'
    <2>1. UNCHANGED <<session, inside>>
      BY <1>7 DEF LoopGoes, LoopBegin, LoopRestart, LoopBreak, ThreadEnds
    <2>2. \A u \in Threads : thread[u] = "run" => thread'[u] = "run"
      BY <1>7 DEF LoopGoes, LoopBegin, LoopRestart, LoopBreak, ThreadEnds, ThreadGoes,
                  StreamsInv, IInv, TypeOK
    <2> QED BY <2>1, <2>2 DEF ServedInv, inside, S!Kept
  <1>8. ASSUME NEW t \in Threads, LoopReturns(t) PROVE ServedInv'
    BY <1>8 DEF LoopReturns, RunReturns, inside, ServedInv, S!Kept
  <1>9. ASSUME NEW t \in Threads, Handler(t, S!Io) PROVE ServedInv'
    BY <1>9 DEF Handler, Serving, SessionFollows, client, ServedInv
  <1>10. ASSUME NEW t \in Threads, HandlerThrows(t) PROVE ServedInv'
    <2>1. handler' = "none"
      BY <1>10, ThrownEnds DEF HandlerThrows
    <2> QED BY <1>10, <2>1 DEF HandlerThrows, SessionFollows, ServedInv
  <1>11. CASE Environment
    <2>1. UNCHANGED <<thread, session, pending, handler>> /\ (pingTimer' # "off" <=> pingTimer # "off")
      BY <1>11 DEF Environment, S!TimerExpires, S!ServerIgnores, vars
    <2> QED BY <2>1 DEF ServedInv, S!Kept
  <1> QED BY <1>2, <1>3, <1>4, <1>5, <1>6, <1>7, <1>8, <1>9, <1>10, <1>11 DEF StreamsNext

\* A handler in progress has a thread, and by OneIoThread no other one: handlers
\* exclude each other without a lock.  The client finds a session by its weak_ptr as
\* long as an operation, the timer or a handler is to come, and no longer.
THEOREM HandlersAreServed == StreamsSpec => []ServedInv
  <1>1. StreamsInit => ServedInv
    BY DEF StreamsInit, Init, S!Init, ServedInv, S!Kept, S!Ops, S!ChainOps
  <1> QED BY <1>1, ServedNext, StreamsAlways, PTL DEF StreamsSpec
=============================================================================
