------------------------------ MODULE Streams ------------------------------
(***************************************************************************)
(* The path of a subscription: WSStreamManager checks and subscribes,      *)
(* WSClient makes a session or finds the one there is, WebSocketSession    *)
(* queues the request, and the client's io thread runs its handlers.       *)
(*                                                                         *)
(* WSClient is extended, WSSession instantiated.  A session of the client  *)
(* is the one of WSSession, live as long as an operation keeps it; its     *)
(* handlers run only in a thread that is in io_context::run().  The        *)
(* manager adds the call in progress; its caches are in StreamManager.     *)
(***************************************************************************)
EXTENDS WSClient, Integers, Sequences, FiniteSets

CONSTANTS
    Request, Serialisable, Null, SymbolAtTop, AppCloses,
    MaxRequests, MaxPings, MaxCloses,   \* as in WSSession
    NoCall,                             \* the manager is not in a call
    MaxAsks                             \* bound: per request, equal ones in one session

ASSUME NullAssumption == Null \notin Request
ASSUME SerialisableAssumption == Serialisable \subseteq Request
ASSUME SessionAssumption ==
    /\ MaxRequests \in Nat \ {0} /\ MaxPings \in Nat /\ MaxCloses \in Nat
    /\ {SymbolAtTop, AppCloses} \subseteq BOOLEAN

\* There is room in a session for every request, as often as it may be made.
ASSUME BoundAssumption ==
    /\ MaxAsks \in [Request -> Nat \ {0}]
    /\ Cardinality(UNION {{r} \X (1 .. MaxAsks[r]) : r \in Request}) <= MaxRequests

VARIABLES
    subscriptionRequests, subscribing, subscriptions, pending, pingTimer,
    conn, handler, held, written, replied, acked, crossed,   \* as in WSSession
    call                                \* the manager's call, or NoCall

S == INSTANCE WSSession

client  == <<m_isRunning, m_ioThread, stopped, thread, app>>
inside  == <<subscriptionRequests, subscribing, subscriptions, pending, pingTimer,
             conn, handler, held, written, replied, acked, crossed>>
streams == <<vars, inside, call>>

Call == [req : Request, step : {"subscribe", "run"}]

StreamsTypeOK ==
    TypeOK /\ S!TypeOK /\ call \in Call \cup {NoCall}

StreamsInit == Init /\ S!Init /\ call = NoCall

\* What the client's weak_ptr sees of the session's next state.
SessionFollows == session' = IF S!Kept' THEN "live" ELSE "expired"

-----------------------------------------------------------------------------
(* The application's thread, in the manager.                               *)

\* A call begins: isSubscribed() of the session, if there is one.
Ask(r) ==
    /\ app = "idle" /\ call = NoCall
    /\ call' = [req |-> r,
                step |-> IF session = "live" /\ S!IsSubscribed(r) THEN "run" ELSE "subscribe"]
    /\ UNCHANGED <<vars, inside>>

\* Bound: a session gets no more requests than MaxAsks[r] that are equal to r.
MayAdd(r) ==
    LET asked == S!Requests(written) \o subscriptionRequests
    IN  Cardinality({i \in DOMAIN asked : asked[i] = r}) < MaxAsks[r]

Subscribing == app = "idle" /\ call # NoCall /\ call.step = "subscribe"

\* subscribe() finds the session.  If its writeSubscription() throws, the exception
\* leaves the manager's call, before run().
SubscribeMore ==
    /\ Subscribing /\ session = "live"
    /\ \E outcome \in S!Outcomes(call.req) :
          /\ IF MayAdd(call.req) THEN S!Subscribe(call.req, outcome) ELSE UNCHANGED inside
          /\ call' = IF outcome = "thrown" THEN NoCall ELSE [call EXCEPT !.step = "run"]
    /\ UNCHANGED vars

\* What is logged before that throws: the text of the request, the log function, for
\* the manager or in the constructor of a new session.
CallThrows ==
    /\ Subscribing /\ (HandlersThrow \/ call.req \notin Serialisable)
    /\ call' = NoCall
    /\ UNCHANGED <<vars, inside>>

\* Mutant: the list of subscriptions outlives the session.
SessionMade_Keeps(r) ==
    /\ subscriptionRequests' = <<r>>
    /\ subscribing' = Null
    /\ pending' = [op \in S!Ops |-> IF op = "resolve" THEN 1 ELSE 0]
    /\ pingTimer' = "off" /\ conn' = "connecting" /\ handler' = "none" /\ held' = TRUE
    /\ written' = <<>> /\ replied' = 0 /\ acked' = {} /\ crossed' = FALSE
    /\ UNCHANGED subscriptions

\* A new WebSocketSession whose run() starts to resolve the host.
SessionMade(r) ==
    /\ subscriptionRequests' = <<r>>
    /\ subscribing' = Null
    /\ subscriptions' = [e \in S!Entry |-> 0]
    /\ pending' = [op \in S!Ops |-> IF op = "resolve" THEN 1 ELSE 0]
    /\ pingTimer' = "off" /\ conn' = "connecting" /\ handler' = "none" /\ held' = TRUE
    /\ written' = <<>> /\ replied' = 0 /\ acked' = {} /\ crossed' = FALSE

\* subscribe() finds none: it makes one, and then calls run().
SubscribeAnew ==
    /\ call # NoCall /\ call.step = "subscribe"
    /\ Subscribe
    /\ SessionMade(call.req)
    /\ call' = [call EXCEPT !.step = "run"]

\* Mutant: run() is left to the client, which calls it for a new session only.
ManagerRuns_Not ==
    /\ app = "idle" /\ call # NoCall /\ call.step = "run"
    /\ call' = NoCall
    /\ UNCHANGED <<vars, inside>>

\* Whatever isSubscribed() said, the call ends with run().
ManagerRuns ==
    /\ call # NoCall /\ call.step = "run"
    /\ CallRun
    /\ call' = NoCall
    /\ UNCHANGED inside

\* The manager's destructor destroys the client, and that its io_context with
\* the operations in it.
Destroy ==
    \/ /\ call = NoCall /\ DtorStop
       /\ UNCHANGED <<inside, call>>
    \/ /\ DtorJoin
       /\ pending' = [op \in S!Ops |-> 0] /\ pingTimer' = "off" /\ handler' = "none"
       /\ UNCHANGED <<subscriptionRequests, subscribing, subscriptions, conn, held, written,
                      replied, acked, crossed, call>>

ClientRuns ==
    /\ RunCheck \/ RunSet \/ RunJoin \/ RunSpawn
    /\ UNCHANGED <<inside, call>>

-----------------------------------------------------------------------------
(* The io thread.                                                          *)

LoopGoes(t) ==
    /\ LoopBegin(t) \/ LoopRestart(t) \/ LoopBreak(t) \/ ThreadEnds(t)
    /\ UNCHANGED <<inside, call>>

\* Mutant: poll() for run(): the thread does not wait for the work there is.
LoopReturns_Early(t) ==
    /\ ThreadGoes(t, "run", "returned")
    /\ stopped' = TRUE
    /\ UNCHANGED <<m_isRunning, m_ioThread, session, app, inside, call>>

\* io_context::run() returns between two handlers, not inside one.
LoopReturns(t) ==
    /\ handler = "none" /\ RunReturns(t)
    /\ UNCHANGED <<inside, call>>

\* Only a thread in run() serves handlers; one that is stopped ends the one it is in.
\* The ping and the close of a session that is gone go with it.
Serving(t) ==
    /\ thread[t] = "run" /\ session = "live"
    /\ ~stopped \/ handler # "none"

Handler(t, A) ==
    /\ Serving(t) /\ A
    /\ SessionFollows
    /\ UNCHANGED <<client, call>>

\* The handlers that are one chain in WSSession.
Chain == \/ S!OnResolve \/ S!OnConnect \/ S!OnSSLHandshake \/ S!OnHandshake
         \/ S!OnWrite \/ S!OnRead \/ S!OnReadPump \/ S!OnReadQuit

\* An exception leaves a handler: also one that was in progress when the destructor
\* stopped the io_context.
HandlerThrows(t) ==
    /\ HandlersThrow /\ session = "live" /\ S!Thrown
    /\ ThreadGoes(t, "run", "begin")
    /\ SessionFollows
    /\ UNCHANGED <<m_isRunning, m_ioThread, stopped, app, call>>

\* Time passes, and the server reads what it can make nothing of.
Environment == (S!TimerExpires \/ S!ServerIgnores) /\ UNCHANGED <<vars, call>>

StreamsNext ==
    \/ \E r \in Request : Ask(r)
    \/ SubscribeMore \/ SubscribeAnew \/ CallThrows \/ ManagerRuns \/ ClientRuns \/ Destroy
    \/ \E t \in Threads : LoopGoes(t) \/ LoopReturns(t) \/ Handler(t, S!Io) \/ HandlerThrows(t)
    \/ Environment

StreamsSpec == StreamsInit /\ [][StreamsNext]_streams

\* The threads are scheduled, the application asks for its streams again and again,
\* its log function does not throw in every call, and the chain goes on whenever a
\* thread serves, as in WSSession's Fairness.
StreamsFairness ==
    /\ SF_streams(SubscribeMore \/ SubscribeAnew) /\ WF_streams(ManagerRuns)
    /\ WF_streams(ClientRuns) /\ WF_streams(DtorJoin /\ Destroy)
    /\ SF_streams(\E r \in Request : Ask(r))
    /\ \A t \in Threads :
          /\ WF_streams(LoopGoes(t)) /\ WF_streams(LoopReturns(t))
          /\ SF_streams(Handler(t, Chain))

StreamsLive == StreamsSpec /\ StreamsFairness

-----------------------------------------------------------------------------
(* Properties.                                                             *)

\* What WSClient says of the sessions (they end only in the thread that serves
\* them, and only as one that is not stopped) is so for the real ones, so that
\* its theorems hold here.
ImplementsClient == Spec

\* isSubscribed() speaks of the session there is: no stream of an earlier one
\* counts as subscribed, although the manager asks at any time between two.
SubscribedInThisSession == S!SubscribedWasSent

\* A stream that can be serialised, and for which the application's calls get past
\* subscribe() again and again, is, again and again, requested from the server, unless
\* the connection is lost, an exception has cut its chain of handlers, or line 50 may
\* drop the request for another one that is confirmed: neither the queue nor the
\* client's thread leaves a request behind for good.
AskedIsWritten ==
    \A r \in Serialisable :
        []<>(call # NoCall /\ call.req = r /\ call.step = "run") =>
            []<>(\/ \E i \in DOMAIN written : written[i].req = r
                 \/ S!Lost \/ "dropped" \in S!Outcomes(r))
=============================================================================
