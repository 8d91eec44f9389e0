------------------------------ MODULE Orders ------------------------------
(***************************************************************************)
(* Orders through the futures connector: login(), getPositionInfo() and    *)
(* placeOrder(), down to the HTTP session that authenticates the request   *)
(* and exchanges it with the server.                                       *)
(*                                                                         *)
(* One thread uses the connector, which has no lock.  The exchange is      *)
(* external: a request that was written may reach it late, after the call  *)
(* gave up on the answer, or never.                                        *)
(***************************************************************************)
EXTENDS Integers, FiniteSets

CONSTANTS
    Keys,             \* what login() may be given as apiKey: API keys and web tokens
    AppOrders,        \* what the application orders on its own account
    NoLogin, NoOrder, \* there is none
    MaxCalls          \* bound: calls of placeOrder()

Sides == {"Buy", "Sell"}
OrderTypes == {"Limit", "IOC", "FOK", "Market"}
PositionTypes == {1, 2}       \* the exchange's numbers: long, short

\* The common interface's Order. `closes' is a history field: the exchange's type of
\* the position the application means to close, 0 if it means none in particular.
AnyOrder == [side : Sides, close : BOOLEAN, type : {"Market", "Limit", "Stop"},
             timeInForce : {"GTC", "IOC", "FOK"}, closes : {0} \cup PositionTypes]

Logins == [apiKey : Keys, apiSecret : {"none", "some"}]

ASSUME ConstantAssumption ==
    /\ AppOrders \subseteq {o \in AnyOrder : o.closes = 0}
    /\ NoLogin \notin Logins \cup Keys /\ NoOrder \notin AnyOrder
    /\ MaxCalls \in Nat

VARIABLES
    login,            \* history: the last login(), as the application gave it
    authSource,       \* of the REST client's HTTP session
    credential,       \* its web token or API key
    order,            \* argument of placeOrder()
    pc,               \* "idle", "post", "read"
    calls,            \* calls of placeOrder() so far: the number of the last
    reported,         \* what the last getPositionInfo() returned
    outcome,          \* of the last placeOrder()
    transit,          \* requests written and not handled by the exchange
    accepted,         \* requests the exchange accepted; its order id is the call's number
    answer            \* what the exchange sent to the call in progress

client == <<login, authSource, credential>>
exchange == <<transit, accepted>>
vars == <<client, order, pc, calls, reported, outcome, exchange, answer>>

NoAnswer == "none"

OrderRequest == [side : {"OpenLong", "CloseShort", "OpenShort", "CloseLong"}, type : OrderTypes,
                 priced : BOOLEAN, credential : Keys, call : 1 .. MaxCalls]

\* A request with what the application knew when it was made.
Sent == [request : OrderRequest, order : AnyOrder, login : Logins]

TypeOK ==
    /\ login \in Logins \cup {NoLogin}
    /\ authSource \in {"OpenAPI", "Web"}
    /\ credential \in Keys \cup {NoLogin}
    /\ order \in AnyOrder \cup {NoOrder}
    /\ pc \in {"idle", "post", "read"}
    /\ calls \in 0 .. MaxCalls
    /\ reported \subseteq [side : Sides, positionType : PositionTypes]
    /\ outcome \in {"none", "New", "Rejected", "thrown"}
    /\ transit \subseteq Sent /\ accepted \subseteq Sent
    /\ answer \in {NoAnswer, "success", "error", "badStatus"}

\* The connector starts with a client without credentials.
Init ==
    /\ login = NoLogin /\ authSource = "OpenAPI" /\ credential = NoLogin
    /\ order = NoOrder /\ pc = "idle" /\ calls = 0
    /\ reported = {} /\ outcome = "none"
    /\ transit = {} /\ accepted = {} /\ answer = NoAnswer

-----------------------------------------------------------------------------
(* login() and getPositionInfo().                                          *)

\* Mutant: a client that has a web token keeps its session.
Login_KeepsWeb ==
    /\ pc = "idle"
    /\ login' \in Logins
    /\ authSource' = IF login'.apiSecret = "none" THEN "Web" ELSE authSource
    /\ credential' = IF authSource = "Web" THEN credential ELSE login'.apiKey
    /\ UNCHANGED <<order, pc, calls, reported, outcome, exchange, answer>>

\* A new REST client; an empty secret says that the key is a web token.
Login ==
    /\ pc = "idle"
    /\ login' \in Logins
    /\ authSource' = IF login'.apiSecret = "none" THEN "Web" ELSE "OpenAPI"
    /\ credential' = login'.apiKey
    /\ UNCHANGED <<order, pc, calls, reported, outcome, exchange, answer>>

PositionSide(positionType) == IF positionType = 1 THEN "Buy" ELSE "Sell"

\* A private GET is authenticated by the web token or signed with the API key.
Authenticated == credential # NoLogin

\* The common interface's positions.
Positions(open) == {[side |-> PositionSide(p), positionType |-> p] : p \in open}

\* The account may hold any positions; a query that fails changes nothing.
GetPositionInfo ==
    /\ pc = "idle" /\ Authenticated
    /\ \E open \in SUBSET PositionTypes : reported' = Positions(open)
    /\ UNCHANGED <<client, order, pc, calls, outcome, exchange, answer>>

-----------------------------------------------------------------------------
(* placeOrder().                                                           *)

PlaceOrder(o) ==
    /\ pc = "idle" /\ calls < MaxCalls
    /\ order' = o /\ calls' = calls + 1 /\ outcome' = "none"
    /\ pc' = "post"
    /\ UNCHANGED <<client, reported, exchange, answer>>

Opposite(side) == IF side = "Buy" THEN "Sell" ELSE "Buy"

\* The application closes a position that was reported to it.
ClosePosition ==
    \E p \in reported :
        PlaceOrder([side |-> Opposite(p.side), close |-> TRUE, type |-> "Market",
                    timeInForce |-> "GTC", closes |-> p.positionType])

\* Mutant: the flag is looked at before the side, and the side then decides.
SideOf_FlagFirst(o) ==
    IF o.side = "Buy" THEN "OpenLong" ELSE IF o.close THEN "CloseLong" ELSE "OpenShort"

SideOf(o) ==
    IF o.close THEN (IF o.side = "Buy" THEN "CloseShort" ELSE "CloseLong")
               ELSE (IF o.side = "Buy" THEN "OpenLong" ELSE "OpenShort")

\* The time in force overrides the type; what is not a limit order is a market order.
TypeOf(o) ==
    IF o.timeInForce \in {"IOC", "FOK"} THEN o.timeInForce
    ELSE IF o.type = "Limit" THEN "Limit" ELSE "Market"

\* The token signs the time and the body.
Signer == credential

Request == [side |-> SideOf(order), type |-> TypeOf(order), priced |-> order.type = "Limit",
            credential |-> Signer, call |-> calls]

\* The call ends with this outcome; an answer that comes after that is lost.
Ends(result) ==
    /\ outcome' = result /\ pc' = "idle"
    /\ order' = NoOrder /\ answer' = NoAnswer
    /\ UNCHANGED <<client, calls, reported>>

\* The rate limiter lets the call through, methodPost() signs the order with the web
\* token, and all of it is written.
Post ==
    /\ pc = "post" /\ authSource = "Web"
    /\ transit' = transit \cup {[request |-> Request, order |-> order, login |-> login]}
    /\ pc' = "read"
    /\ UNCHANGED <<client, order, calls, reported, outcome, accepted, answer>>

\* A bad field in customData, no POST with API keys, or the connection is not made
\* or breaks before the request is written.
PostThrows ==
    /\ pc = "post"
    /\ Ends("thrown") /\ UNCHANGED exchange

\* checkResponse() and handleMEXCResponse() pass.
CallReturns ==
    /\ pc = "read" /\ answer = "success"
    /\ Ends("New") /\ UNCHANGED exchange

\* Mutant: an order is sent again when its answer did not come.
CallThrows_Retries ==
    /\ pc = "read"
    /\ \/ answer \in {"error", "badStatus"} /\ Ends("thrown")
       \/ answer = NoAnswer /\ pc' = "post"
          /\ UNCHANGED <<client, order, calls, reported, outcome, answer>>
    /\ UNCHANGED exchange

\* They do not, or the connection breaks before the answer is read.
CallThrows ==
    /\ pc = "read" /\ answer # "success"
    /\ Ends("thrown") /\ UNCHANGED exchange

-----------------------------------------------------------------------------
(* The exchange.                                                           *)

\* An answer reaches the call if it still waits for it.
Answers(s, reply) ==
    answer' = IF pc = "read" /\ s.request.call = calls THEN reply ELSE answer

Accepts(s) ==
    /\ accepted' = accepted \cup {s} /\ transit' = transit \ {s}
    /\ Answers(s, "success") \/ Answers(s, "badStatus") \/ answer' = answer
    /\ UNCHANGED <<client, order, pc, calls, reported, outcome>>

\* It is refused, or lost on the way.
Refuses(s) ==
    /\ transit' = transit \ {s}
    /\ Answers(s, "error") \/ Answers(s, "badStatus") \/ answer' = answer
    /\ UNCHANGED <<client, order, pc, calls, reported, outcome, accepted>>

Next ==
    \/ Login \/ GetPositionInfo
    \/ (\E o \in AppOrders : PlaceOrder(o)) \/ ClosePosition
    \/ Post \/ PostThrows \/ CallReturns \/ CallThrows
    \/ \E s \in transit : Accepts(s) \/ Refuses(s)

Spec == Init /\ [][Next]_vars

-----------------------------------------------------------------------------
(* Properties.                                                             *)

Everything == transit \cup accepted

\* placeOrder() is not repeated by anything below it: a call places its order at
\* most once, however late the exchange sees it, and if it returns New, the order
\* was placed.
PlacedOnce ==
    /\ \A s, u \in Everything : s.request.call = u.request.call => s = u
    /\ \A s \in transit : s \notin accepted
    /\ outcome = "New" => \E s \in accepted : s.request.call = calls

Closes(side) == side \in {"CloseShort", "CloseLong"}
Buys(side) == side \in {"OpenLong", "CloseShort"}
Touches(side) == IF side \in {"OpenLong", "CloseLong"} THEN 1 ELSE 2

\* The type an order would have at the exchange if it has one for it: its time in
\* force, if that ends it at once, or else the type it names.
TypeMeant(o) == IF o.timeInForce = "GTC" THEN o.type ELSE o.timeInForce

\* What the exchange is asked to do is what the application meant: to buy or to sell,
\* to open or to close; an order on the other side than getPositionInfo() reported,
\* with the flag "close", closes that very position; and an order that is no stop order
\* is of the type meant, with its price if it is a limit order.
DoesWhatWasMeant ==
    \A s \in Everything :
        /\ Closes(s.request.side) = s.order.close
        /\ Buys(s.request.side) = (s.order.side = "Buy")
        /\ s.order.closes # 0 => Touches(s.request.side) = s.order.closes
        /\ s.order.type # "Stop" =>
              s.request.type = TypeMeant(s.order) /\ s.request.priced = (s.order.type = "Limit")

\* An order goes out only under a web token, the one of the login() before the call,
\* whichever logins came before and after.
SentAsLoggedIn ==
    \A s \in Everything :
        s.login.apiSecret = "none" /\ s.request.credential = s.login.apiKey

-----------------------------------------------------------------------------
(* What a caller might expect and the code does not do.                    *)

\* An exception means that the order was not placed.
ThrownIsNotPlaced ==
    outcome = "thrown" => \A s \in Everything : s.request.call # calls

\* A stop order, too, is of the type meant.  (It goes out as a market order.)
TypeKept == \A s \in Everything : s.request.type = TypeMeant(s.order)

\* An order the exchange executes at a price or not at all has a price.
PricedTypeHasPrice ==
    \A s \in Everything : s.request.type # "Market" => s.request.priced
=============================================================================
