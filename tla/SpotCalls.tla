----------------------------- MODULE SpotCalls -----------------------------
(***************************************************************************)
(* The calls of the spot RESTClient through its HTTPSession, but for the   *)
(* candle download (SpotHistory): wait for the rate limiter, create and    *)
(* sign the request, connect, write it, read the answer, check it.         *)
(*                                                                         *)
(* RateLimiter is extended by what a call does after wait().  A request's  *)
(* parameters are the listen key and the time stamp; a signature is the    *)
(* secret and the parameters it was computed over.  An API key stands for  *)
(* its secret too.                                                         *)
(***************************************************************************)
EXTENDS RateLimiter

CONSTANTS
    ApiKeys,          \* the application's credentials
    ListenKeys,       \* what the exchange names user data streams by
    Null              \* no value

VARIABLES
    httpSession,      \* the API key of the session
    call,             \* per thread: the call in progress, or Null
    request,          \* per thread: the request it created, or Null
    answer,           \* per thread: what the exchange answered, or Null
    returned,         \* per thread: what its last call returned, or Null
    streams,          \* the user data streams the exchange has open
    arrived           \* history: when requests were written, by the steady clock

limiter == vars
private == <<httpSession, call, request, answer, returned, streams, arrived>>
calls   == <<limiter, private>>

\* getServerTime() and getTickerPrice(); getListenKey(), getListenKeys(),
\* renewListenKey() and closeListenKey().
Operation == [op : {"public", "post", "get"}, key : {Null}]
             \cup [op : {"put", "delete"}, key : ListenKeys]

Parameters == [key : ListenKeys \cup {Null}, timestamp : Nat \cup {Null}]

Opened == [op : {"post"}, key : ListenKeys]
Done   == Operation \cup Opened \cup {Null}
Call   == [do : Operation, stage : {"wait", "create", "connect", "read", "answered"}]
Answer == [status : {"ok", "code", "bad"}, did : Done]

ASSUME NullAssumption == Null \notin Operation \cup Opened \cup Call

CallsTypeOK ==
    /\ TypeOK
    /\ httpSession \in ApiKeys
    /\ call \in [Threads -> Call \cup {Null}]
    /\ request \in [Threads -> {Null} \cup
           [apiKey : ApiKeys \cup {Null}, parameters : Parameters,
            signature : [secret : ApiKeys, over : Parameters] \cup {Null}]]
    /\ answer \in [Threads -> Answer \cup {Null}]
    /\ returned \in [Threads -> [do : Operation, did : Done] \cup {Null}]
    /\ streams \in SUBSET ListenKeys
    /\ arrived \in Seq(Nat)

CallsInit ==
    /\ Init
    /\ httpSession \in ApiKeys
    /\ call = [t \in Threads |-> Null]
    /\ request = [t \in Threads |-> Null]
    /\ answer = [t \in Threads |-> Null]
    /\ returned = [t \in Threads |-> Null]
    /\ streams \in SUBSET ListenKeys
    /\ arrived = <<>>

-----------------------------------------------------------------------------
(* The client.                                                             *)

\* setCredentials() makes a new session; while a call uses the old one this is a data race.
SetCredentials(k) ==
    /\ \A t \in Threads : call[t] = Null
    /\ httpSession' = k
    /\ UNCHANGED <<limiter, call, request, answer, returned, streams, arrived>>

At(t, stage) == call[t] # Null /\ call[t].stage = stage

Begin(t, do) ==
    /\ call[t] = Null
    /\ call' = [call EXCEPT ![t] = [do |-> do, stage |-> "wait"]]
    /\ returned' = [returned EXCEPT ![t] = Null]
    /\ UNCHANGED <<limiter, httpSession, request, answer, streams, arrived>>

Wait(t) ==
    /\ At(t, "wait")
    /\ \/ WaitSleeps(t) /\ UNCHANGED call
       \/ /\ WaitReturns(t) \/ WaitWakes(t)
          /\ call' = [call EXCEPT ![t].stage = "create"]
    /\ UNCHANGED <<httpSession, request, answer, returned, streams, arrived>>

\* Mutant: the stamp the limiter took on entry is used again.
Sign_EntryStamp(parameters) ==
    LET stamped == [parameters EXCEPT !.timestamp = requestTimes[Len(requestTimes)]]
    IN  [apiKey     |-> httpSession,
         parameters |-> stamped,
         signature  |-> [secret |-> httpSession, over |-> stamped]]

\* sign() stamps the parameters and signs all of them.
Sign(parameters) ==
    LET stamped == [parameters EXCEPT !.timestamp = system_clock]
    IN  [apiKey     |-> httpSession,
         parameters |-> stamped,
         signature  |-> [secret |-> httpSession, over |-> stamped]]

CreateRequest(t) ==
    /\ At(t, "create")
    /\ LET parameters == [key |-> call[t].do.key, timestamp |-> Null]
       IN  request' = [request EXCEPT ![t] =
               IF call[t].do.op = "public"
               THEN [apiKey |-> Null, parameters |-> parameters, signature |-> Null]
               ELSE Sign(parameters)]
    /\ call' = [call EXCEPT ![t].stage = "connect"]
    /\ UNCHANGED <<limiter, httpSession, answer, returned, streams, arrived>>

\* Resolved, connected and shaken hands, which takes any time; then written.
Write(t) ==
    /\ At(t, "connect")
    /\ call' = [call EXCEPT ![t].stage = "read"]
    /\ arrived' = Append(arrived, steady)
    /\ UNCHANGED <<limiter, httpSession, request, answer, returned, streams>>

\* Mutant: the status is looked at, the code in the body is not.
Passes_StatusOnly(t) == answer[t].status # "bad"

\* checkResponse() throws for a status other than 200, handleMEXCResponse() for a
\* code other than 0.  The public calls do not look at the code.
Passes(t) ==
    /\ answer[t].status # "bad"
    /\ answer[t].status = "code" => call[t].do.op = "public"

Ends(t) ==
    /\ call' = [call EXCEPT ![t] = Null]
    /\ request' = [request EXCEPT ![t] = Null]
    /\ answer' = [answer EXCEPT ![t] = Null]
    /\ UNCHANGED <<limiter, httpSession, streams, arrived>>

Returns(t) ==
    /\ At(t, "answered") /\ Passes(t)
    /\ returned' = [returned EXCEPT ![t] = [do |-> call[t].do, did |-> answer[t].did]]
    /\ Ends(t)

\* A step of request() fails, a check of the answer does, or the answer is lost.
Throws(t) ==
    /\ At(t, "connect") \/ At(t, "read") \/ At(t, "answered")
    /\ Ends(t)
    /\ UNCHANGED returned

-----------------------------------------------------------------------------
(* The exchange.                                                           *)

\* What is answered, and the streams that are open then.
Answers(t, status, did, open) ==
    /\ At(t, "read")
    /\ answer' = [answer EXCEPT ![t] = [status |-> status, did |-> did]]
    /\ streams' = open
    /\ call' = [call EXCEPT ![t].stage = "answered"]
    /\ UNCHANGED <<limiter, httpSession, request, returned, arrived>>

Performs(t) ==
    /\ At(t, "read")
    /\ LET do == call[t].do
       IN  \/ do.op \in {"public", "get"} /\ Answers(t, "ok", do, streams)
           \/ /\ do.op = "post"
              /\ \E k \in ListenKeys \ streams :
                    Answers(t, "ok", [op |-> "post", key |-> k], streams \cup {k})
           \/ do.op = "put" /\ do.key \in streams /\ Answers(t, "ok", do, streams)
           \/ do.op = "delete" /\ do.key \in streams /\ Answers(t, "ok", do, streams \ {do.key})

Refuses(t) ==
    /\ At(t, "read")
    /\ \E status \in {"code", "bad"} : Answers(t, status, Null, streams)

\* A stream closes 60 minutes after it was renewed.
StreamExpires ==
    /\ \E k \in streams : streams' = streams \ {k}
    /\ UNCHANGED <<limiter, httpSession, call, request, answer, returned, arrived>>

CallsNext ==
    \/ \E k \in ApiKeys : SetCredentials(k)
    \/ \E t \in Threads :
          \/ \E do \in Operation : Begin(t, do)
          \/ Wait(t) \/ CreateRequest(t) \/ Write(t) \/ Returns(t) \/ Throws(t)
          \/ Performs(t) \/ Refuses(t)
    \/ StreamExpires
    \/ (Tick \/ ClockSet) /\ UNCHANGED private

CallsSpec == CallsInit /\ [][CallsNext]_calls

-----------------------------------------------------------------------------
(* Properties, of a single thread where they count requests.               *)

\* The exchange, too, sees no more than one request over the limit in a window,
\* although a request arrives any time after the limiter let it go, when others
\* that came long before have left its deque.
OneOverAtExchange ==
    LET recent == {i \in DOMAIN arrived : steady - arrived[i] < windowSizeMs}
    IN  ~adjusted => Cardinality(recent) <= localLimit + 1

\* However long the limiter made the call wait, the time stamp of the request is
\* not from before the limiter let it go.
FreshWhenSent ==
    \A t \in Threads :
        At(t, "connect") /\ request[t].apiKey # Null /\ ~adjusted =>
            request[t].parameters.timestamp >= released[Len(released)]

\* A call for a user data stream returns only if the exchange did what it asked.
ReturnsWhatWasDone ==
    \A t \in Threads :
        returned[t] # Null /\ returned[t].do.op # "public" => returned[t].did # Null

-----------------------------------------------------------------------------
(* What the documentation says and the code does not do.                   *)

\* A public call returns what the exchange sent for it.
PublicIsAnswered == \A t \in Threads : returned[t] # Null => returned[t].did # Null
=============================================================================
