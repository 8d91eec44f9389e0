-------------------------- MODULE Connector_proofs --------------------------
(* Theorems about the connector: about Orders, for any keys, any orders and any number *)
(* of calls, and about FundingHistory, for any settlements, ranges and page size.      *)
EXTENDS Orders, FundingHistory, SortedSets_proofs

-----------------------------------------------------------------------------
(* Orders.                                                                 *)

\* The call in progress was counted, and a call that has not been written yet has
\* nothing at the exchange; an answer is there only while it is waited for.
Progress ==
    /\ pc # "idle" => order \in AnyOrder /\ calls \in 1 .. MaxCalls
    /\ pc = "idle" => order = NoOrder
    /\ \A s \in Everything : s.request.call <= calls
    /\ pc = "post" => \A s \in Everything : s.request.call # calls
    /\ pc # "read" => answer = NoAnswer

\* The session has the credentials of the last login.
LoggedIn ==
    IF login = NoLogin
    THEN authSource = "OpenAPI" /\ credential = NoLogin
    ELSE /\ login \in Logins /\ credential = login.apiKey
         /\ authSource = "Web" <=> login.apiSecret = "none"

\* What is reported is what the exchange called long and short.
ReportedSides == \A p \in reported : p.side = PositionSide(p.positionType)

\* An order that names a position is its closing order.
ClosesReported ==
    order # NoOrder /\ order.closes # 0 =>
        order.close /\ order.side = Opposite(PositionSide(order.closes))

\* A success was accepted.
Answered == answer = "success" => \E s \in accepted : s.request.call = calls

IInv ==
    /\ TypeOK /\ Progress /\ LoggedIn /\ ReportedSides /\ ClosesReported /\ Answered
    /\ PlacedOnce /\ DoesWhatWasMeant /\ SentAsLoggedIn

\* The request is of the type the exchange is sent.
LEMMA RequestType ==
  ASSUME order \in AnyOrder, credential \in Keys, calls \in 1 .. MaxCalls
  PROVE  Request \in OrderRequest
  BY DEF Request, Signer, OrderRequest, SideOf, TypeOf, AnyOrder, Sides, OrderTypes

\* It buys or sells, opens or closes, and touches the position, as the order says.
LEMMA RequestMeaning ==
  ASSUME order \in AnyOrder, ClosesReported, order # NoOrder
  PROVE  /\ Closes(Request.side) = order.close
         /\ Buys(Request.side) = (order.side = "Buy")
         /\ order.closes # 0 => Touches(Request.side) = order.closes
         /\ order.type # "Stop" =>
               Request.type = TypeMeant(order) /\ Request.priced = (order.type = "Limit")
  <1>1. /\ Closes(Request.side) = order.close
        /\ Buys(Request.side) = (order.side = "Buy")
        /\ order.closes # 0 => Touches(Request.side) = order.closes
    BY DEF Request, SideOf, Closes, Buys, Touches, AnyOrder, Sides, PositionTypes,
           ClosesReported, Opposite, PositionSide
  <1>2. order.type \in {"Market", "Limit", "Stop"} /\ order.timeInForce \in {"GTC", "IOC", "FOK"}
    BY DEF AnyOrder
  <1>3. order.type # "Stop" => Request.type = TypeMeant(order)
    BY <1>2 DEF Request, TypeOf, TypeMeant
  <1>4. Request.priced = (order.type = "Limit")
    BY DEF Request
  <1> QED BY <1>1, <1>3, <1>4

\* An order that was checked is sent as its login and its meaning demand.
LEMMA PostKeeps == ASSUME IInv, Post PROVE IInv'
  <1> DEFINE new == [request |-> Request, order |-> order, login |-> login]
  <1>1. /\ order \in AnyOrder /\ order # NoOrder /\ calls \in 1 .. MaxCalls
        /\ login \in Logins /\ login.apiSecret = "none" /\ credential = login.apiKey
        /\ credential \in Keys
    BY ConstantAssumption DEF IInv, TypeOK, Progress, LoggedIn, Post, Logins
  <1>2. new \in Sent
    BY <1>1, RequestType DEF Sent
  <1>3. TypeOK'
    BY <1>2 DEF IInv, TypeOK, Post, client
  <1>4. new.request.call = calls
    BY DEF Request
  <1>5. new.request.credential = login.apiKey
    BY <1>1 DEF Request, Signer
  <1>6. Progress'
    BY <1>1, <1>4 DEF IInv, TypeOK, Progress, Everything, Post, client
  <1>7. LoggedIn' /\ ReportedSides' /\ ClosesReported' /\ Answered'
    BY DEF IInv, Progress, LoggedIn, ReportedSides, ClosesReported, Answered, Post, client
  <1>8. PlacedOnce'
    BY <1>4 DEF IInv, Progress, PlacedOnce, Everything, Post, client
  <1>9. DoesWhatWasMeant'
    BY <1>1, RequestMeaning DEF IInv, DoesWhatWasMeant, Everything, Post
  <1>10. SentAsLoggedIn'
    BY <1>1, <1>5 DEF IInv, SentAsLoggedIn, Everything, Post
  <1> QED BY <1>3, <1>6, <1>7, <1>8, <1>9, <1>10 DEF IInv

\* Whatever the exchange does with a request, there is only the one.
LEMMA ExchangeKeeps ==
  ASSUME IInv, NEW s \in transit, Accepts(s) \/ Refuses(s)
  PROVE  IInv'
  <1> USE DEF IInv, Accepts, Refuses, Answers, client
  <1>1. TypeOK'
    BY DEF TypeOK
  <1>2. Everything' \subseteq Everything
    BY DEF Everything
  <1>3. Progress' /\ LoggedIn' /\ ReportedSides' /\ ClosesReported'
    BY <1>2 DEF Progress, LoggedIn, ReportedSides, ClosesReported
  <1>4. Answered'
    BY DEF Answered
  <1>5. PlacedOnce'
    BY <1>2 DEF PlacedOnce
  <1>6. DoesWhatWasMeant' /\ SentAsLoggedIn'
    BY <1>2 DEF DoesWhatWasMeant, SentAsLoggedIn
  <1> QED BY <1>1, <1>3, <1>4, <1>5, <1>6

\* A call that begins has placed nothing.
LEMMA PlaceOrderKeeps ==
  ASSUME IInv, NEW o \in AnyOrder, PlaceOrder(o), o # NoOrder,
         o.closes # 0 => o.close /\ o.side = Opposite(PositionSide(o.closes))
  PROVE  IInv'
  <1> USE DEF IInv, PlaceOrder, client, exchange
  <1>1. TypeOK'
    BY ConstantAssumption DEF TypeOK
  <1>2. Progress'
    <2>1. \A s \in Everything : s.request.call \in Int
      BY ConstantAssumption DEF TypeOK, Everything, Sent, OrderRequest
    <2> QED BY <2>1, ConstantAssumption DEF TypeOK, Progress, Everything
  <1>3. LoggedIn' /\ ReportedSides' /\ ClosesReported' /\ DoesWhatWasMeant' /\ SentAsLoggedIn'
    BY DEF LoggedIn, ReportedSides, ClosesReported, DoesWhatWasMeant, SentAsLoggedIn, Everything
  <1>4. Answered' /\ PlacedOnce'
    BY DEF Answered, PlacedOnce, Progress, Everything, NoAnswer
  <1> QED BY <1>1, <1>2, <1>3, <1>4

\* What a call that ends leaves behind.
LEMMA CallEnds ==
  ASSUME IInv, PostThrows \/ CallReturns \/ CallThrows
  PROVE  IInv'
  <1> USE DEF IInv, PostThrows, CallReturns, CallThrows, Ends, client, exchange
  <1>1. TypeOK' /\ Progress'
    BY DEF TypeOK, Progress, Everything
  <1>2. LoggedIn' /\ ReportedSides' /\ ClosesReported' /\ Answered'
    BY DEF LoggedIn, ReportedSides, ClosesReported, Answered, NoAnswer
  <1>3. PlacedOnce'
    BY DEF PlacedOnce, Answered, Everything
  <1>4. DoesWhatWasMeant' /\ SentAsLoggedIn'
    BY DEF DoesWhatWasMeant, SentAsLoggedIn, Everything
  <1> QED BY <1>1, <1>2, <1>3, <1>4

LEMMA Inductive == IInv /\ [Next]_vars => IInv'
  <1> SUFFICES ASSUME IInv, [Next]_vars PROVE IInv'
    OBVIOUS
  <1>1. CASE Login
    BY <1>1, ConstantAssumption
       DEF IInv, Login, TypeOK, Progress, LoggedIn, ReportedSides, ClosesReported, Answered, PlacedOnce,
           DoesWhatWasMeant, SentAsLoggedIn, Everything, Logins, exchange
  <1>2. CASE GetPositionInfo
    <2>1. TypeOK' /\ ReportedSides'
      BY <1>2 DEF IInv, GetPositionInfo, Positions, TypeOK, ReportedSides, PositionSide, Sides, client, exchange
    <2>2. Progress' /\ LoggedIn' /\ ClosesReported' /\ Answered'
      BY <1>2 DEF IInv, GetPositionInfo, Progress, LoggedIn, ClosesReported, Answered, Everything,
                  client, exchange
    <2>3. PlacedOnce' /\ DoesWhatWasMeant' /\ SentAsLoggedIn'
      BY <1>2 DEF IInv, GetPositionInfo, PlacedOnce, DoesWhatWasMeant, SentAsLoggedIn, Everything,
                  client, exchange
    <2> QED BY <2>1, <2>2, <2>3 DEF IInv
  <1>3. ASSUME NEW o \in AppOrders, PlaceOrder(o) PROVE IInv'
    BY <1>3, ConstantAssumption, PlaceOrderKeeps
  <1>4. CASE ClosePosition
    <2> DEFINE closing(p) == [side |-> Opposite(p.side), close |-> TRUE, type |-> "Market",
                              timeInForce |-> "GTC", closes |-> p.positionType]
    <2>1. PICK p \in reported : PlaceOrder(closing(p))
      BY <1>4 DEF ClosePosition
    <2>2. p.positionType \in PositionTypes /\ p.side = PositionSide(p.positionType)
      BY DEF IInv, TypeOK, ReportedSides
    <2>3. closing(p) \in AnyOrder
      BY <2>2 DEF AnyOrder, Sides, Opposite, PositionTypes
    <2>4. closing(p) # NoOrder
      BY <2>3, ConstantAssumption
    <2>5. closing(p).close /\ closing(p).side = Opposite(PositionSide(closing(p).closes))
      BY <2>2
    <2> HIDE DEF closing
    <2> QED BY <2>1, <2>3, <2>4, <2>5, PlaceOrderKeeps
  <1>5. CASE UNCHANGED vars
    BY <1>5 DEF vars, client, exchange, IInv, TypeOK, Progress, LoggedIn, ReportedSides, ClosesReported,
                Answered, PlacedOnce, DoesWhatWasMeant, SentAsLoggedIn, Everything
  <1> QED BY <1>1, <1>2, <1>3, <1>4, <1>5, PostKeeps, ExchangeKeeps, CallEnds DEF Next

LEMMA Always == Spec => []IInv
  <1>1. Init => IInv
    BY ConstantAssumption
       DEF Init, IInv, TypeOK, Progress, LoggedIn, ReportedSides, ClosesReported, Answered, PlacedOnce,
           DoesWhatWasMeant, SentAsLoggedIn, Everything, NoAnswer
  <1> QED BY <1>1, Inductive, PTL DEF Spec

\* The state keeps its types; so every request has a side and a type the exchange knows.
THEOREM TypeCorrect == Spec => []TypeOK
  <1>1. IInv => TypeOK
    BY DEF IInv
  <1> QED BY <1>1, Always, PTL

\* A call of placeOrder() places its order at most once, and exactly once if it returns New.
THEOREM OrderPlacedOnce == Spec => []PlacedOnce
  <1>1. IInv => PlacedOnce
    BY DEF IInv
  <1> QED BY <1>1, Always, PTL

\* The exchange is asked for what the application meant: the side, opening or closing, the
\* position, and the type of every order but a stop order.
THEOREM MeaningKept == Spec => []DoesWhatWasMeant
  <1>1. IInv => DoesWhatWasMeant
    BY DEF IInv
  <1> QED BY <1>1, Always, PTL

\* Orders go out under the web token of the last login and no other credentials.
THEOREM OrdersAsLoggedIn == Spec => []SentAsLoggedIn
  <1>1. IInv => SentAsLoggedIn
    BY DEF IInv
  <1> QED BY <1>1, Always, PTL

-----------------------------------------------------------------------------
(* The exchange's rates and pages.                                         *)

\* The settlements in their order; no two at a time.
LEMMA RatesFacts ==
  /\ Rates \in Seq(SettleTimes) /\ Len(Rates) = Cardinality(SettleTimes)
  /\ MaxSettled \in Nat /\ MaxSettled <= Len(Rates) /\ Len(Rates) \in Nat
  /\ \A i \in 1 .. Len(Rates) : Rates[i] \in SettleTimes /\ Rates[i] \in Nat
  /\ \A i, j \in 1 .. Len(Rates) : i < j => Rates[i] < Rates[j]
  /\ \A i, j \in 1 .. Len(Rates) : Rates[i] = Rates[j] => i = j
  <1>1. SettleTimes \in SUBSET Int /\ SettleTimes \in SUBSET Nat /\ IsFiniteSet(SettleTimes)
    BY RatesAssumption
  <1>2. /\ Rates \in Seq(SettleTimes) /\ Len(Rates) = Cardinality(SettleTimes)
        /\ Ascending(Rates)
    BY <1>1, SortedFacts DEF Rates
  <1>3. \A i \in 1 .. Len(Rates) : Rates[i] \in SettleTimes /\ Rates[i] \in Nat
    <2>1. \A i \in 1 .. Len(Rates) : Rates[i] \in SettleTimes
      BY <1>2
    <2> QED BY <1>1, <2>1
  <1>4. \A i, j \in 1 .. Len(Rates) : i < j => Rates[i] < Rates[j]
    BY <1>2 DEF Ascending
  <1>5. Len(Rates) \in Nat
    BY <1>2
  <1>6. ASSUME NEW i \in 1 .. Len(Rates), NEW j \in 1 .. Len(Rates), Rates[i] = Rates[j]
        PROVE  i = j
    <2>1. Rates[i] \in Nat /\ Rates[j] \in Nat /\ i \in Nat /\ j \in Nat
      BY <1>3
    <2>2. ~ (i < j) /\ ~ (j < i)
      BY <1>4, <1>6, <2>1
    <2> QED BY <2>1, <2>2
  <1>7. MaxSettled \in Nat /\ MaxSettled <= Len(Rates)
    BY <1>2, RatesAssumption
  <1> QED BY <1>2, <1>3, <1>4, <1>5, <1>6, <1>7

\* How many rates there are beyond the pages before page n.
Left(known, n) == known - (n - 1) * pageSize

LEMMA LeftType ==
  ASSUME NEW known \in Int, NEW n \in Int
  PROVE  Left(known, n) \in Int /\ (n >= 1 => Left(known, n) <= known)
  <1>1. pageSize \in Int /\ pageSize > 0
    BY RatesAssumption
  <1>2. (n - 1) * pageSize \in Int /\ (n >= 1 => (n - 1) * pageSize >= 0)
    BY <1>1
  <1> QED BY <1>1, <1>2 DEF Left

LEMMA LeftSteps ==
  ASSUME NEW known \in Int, NEW n \in Int
  PROVE  /\ Left(known, n + 1) = Left(known, n) - pageSize
         /\ Left(known + 1, n) = Left(known, n) + 1
         /\ Left(known, 1) = known
  <1>1. pageSize \in Int
    BY RatesAssumption
  <1>2. /\ (n - 1) * pageSize \in Int /\ (1 - 1) * pageSize = 0
        /\ (n + 1 - 1) * pageSize = (n - 1) * pageSize + pageSize
    BY <1>1
  <1> QED BY <1>1, <1>2 DEF Left

\* A page has the next rates behind those of the pages before it.
LEMMA PageFacts ==
  ASSUME NEW known \in 0 .. MaxSettled, NEW n \in Nat \ {0}
  PROVE  LET page == Page(known, n) left == Left(known, n)
         IN  /\ page \in Seq(SettleTimes) /\ Len(page) <= pageSize /\ Len(page) \in Nat
             /\ \A i \in 1 .. Len(page) : left + 1 - i \in 1 .. known /\ page[i] = Rates[left + 1 - i]
             /\ \A j \in 1 .. left : \/ j <= left - pageSize
                                     \/ left + 1 - j \in 1 .. Len(page)
             /\ \A i \in 1 .. Len(page) : left + 1 - i > left - pageSize
             /\ page = <<>> => left <= 0
             /\ page # <<>> => Len(page) = left \/ Len(page) = pageSize
  <1> DEFINE left == Left(known, n)
             page == Page(known, n)
             length == IF left <= 0 THEN 0 ELSE IF left < pageSize THEN left ELSE pageSize
  <1>1. left \in Int /\ left <= known /\ known \in Int /\ pageSize \in Nat /\ pageSize > 0
    <2>1. known \in Int /\ n \in Int /\ n >= 1
      BY RatesFacts
    <2>2. Left(known, n) \in Int /\ Left(known, n) <= known
      BY <2>1, LeftType
    <2>3. pageSize \in Nat /\ pageSize > 0
      BY RatesAssumption
    <2> QED BY <2>1, <2>2, <2>3
  <1>2. page = [i \in 1 .. length |-> Rates[left + 1 - i]]
    BY DEF Page, Left
  <1> HIDE DEF left, page
  <1>3. length \in Nat /\ length <= pageSize /\ (left > 0 => length <= left)
    BY <1>1
  <1>4. \A i \in 1 .. length : left + 1 - i \in 1 .. known /\ left + 1 - i \in 1 .. Len(Rates)
    BY <1>1, <1>3, RatesFacts
  <1>5. \A i \in 1 .. length : Rates[left + 1 - i] \in SettleTimes
    BY <1>4, RatesFacts
  <1>6. page \in Seq(SettleTimes) /\ Len(page) = length
    BY <1>2, <1>3, <1>5
  <1>7. \A i \in 1 .. length : page[i] = Rates[left + 1 - i]
    BY <1>2
  <1>8. \A j \in 1 .. left : j <= left - pageSize \/ left + 1 - j \in 1 .. length
    BY <1>1
  <1>9. \A i \in 1 .. length : left + 1 - i > left - pageSize
    BY <1>1, <1>3
  <1>10. page = <<>> => left <= 0
    BY <1>1, <1>6
  <1>11. page # <<>> => length = left \/ length = pageSize
    BY <1>1, <1>6
  <1> QED BY <1>1, <1>3, <1>4, <1>6, <1>7, <1>8, <1>9, <1>10, <1>11 DEF left, page

\* The page with the number totalPage ends the list, and there are no more than fit.
LEMMA PagesFacts ==
  ASSUME NEW known \in 0 .. MaxSettled, NEW n \in Nat \ {0}
  PROVE  /\ Pages(known) \in Nat
         /\ n >= Pages(known) => Left(known, n + 1) <= 0
         /\ n < Pages(known) => n + 1 \in 1 .. (MaxSettled \div pageSize) + 1
  <1> DEFINE q == (known + pageSize - 1) \div pageSize
             r == (known + pageSize - 1) % pageSize
             Q == MaxSettled \div pageSize
             s == MaxSettled % pageSize
  <1>1. pageSize \in Nat /\ pageSize > 0 /\ known \in Nat /\ MaxSettled \in Nat /\ known <= MaxSettled
    BY RatesAssumption, RatesFacts
  <1>2. /\ q \in Int /\ r \in 0 .. pageSize - 1 /\ known + pageSize - 1 = pageSize * q + r
    BY <1>1
  <1>3. /\ Q \in Int /\ s \in 0 .. pageSize - 1 /\ MaxSettled = pageSize * Q + s
    BY <1>1
  <1> HIDE DEF q, r, Q, s
  <1>4. q >= 0
    <2> SUFFICES ASSUME q <= -1 PROVE FALSE
      BY <1>2
    <2>1. pageSize * q <= pageSize * (-1)
      BY <1>1, <1>2
    <2> QED BY <1>1, <1>2, <2>1
  <1>5. ASSUME n >= q PROVE Left(known, n + 1) <= 0
    <2>1. pageSize * q <= pageSize * n
      BY <1>1, <1>2, <1>5
    <2>2. pageSize * n >= known
      BY <1>1, <1>2, <2>1
    <2>3. Left(known, n + 1) = known - pageSize * n
      BY <1>1 DEF Left
    <2> QED BY <1>1, <2>2, <2>3
  <1>6. q <= Q + 1
    <2> SUFFICES ASSUME Q + 2 <= q PROVE FALSE
      BY <1>2, <1>3
    <2>1. pageSize * (Q + 2) <= pageSize * q
      BY <1>1, <1>2, <1>3
    <2>2. pageSize * (Q + 2) = pageSize * Q + pageSize + pageSize
      BY <1>1, <1>3
    <2> QED BY <1>1, <1>2, <1>3, <2>1, <2>2
  <1> QED BY <1>2, <1>3, <1>4, <1>5, <1>6 DEF Pages, q, Q

-----------------------------------------------------------------------------
(* The two library calls on sequences.                                     *)

\* The filter keeps what is in the range, each place of the page once.
LEMMA SelectedFacts ==
  ASSUME resultList \in Seq(SettleTimes),
         \A i, j \in 1 .. Len(resultList) : resultList[i] = resultList[j] => i = j
  PROVE  /\ Selected \in Seq(SettleTimes)
         /\ Elements(Selected) = {t \in Elements(resultList) : InRange(t)}
         /\ Len(Selected) = Cardinality(Elements(Selected))
  <1> DEFINE P == {i \in DOMAIN resultList : InRange(resultList[i])}
             kept == Sorted(P)
  <1>1. P \in SUBSET (1 .. Len(resultList)) /\ Len(resultList) \in Nat
    OBVIOUS
  <1>2. IsFiniteSet(P) /\ P \in SUBSET Int
    BY <1>1, CountTo, FS_Subset
  <1>3. kept \in Seq(P) /\ Ascending(kept) /\ Elements(kept) = P
    BY <1>2, SortedFacts
  <1>4. Selected = [k \in 1 .. Len(kept) |-> resultList[kept[k]]]
    BY <1>3 DEF Selected
  <1> HIDE DEF P, kept
  <1>5. /\ Len(kept) \in Nat
        /\ \A k \in 1 .. Len(kept) : kept[k] \in P /\ kept[k] \in 1 .. Len(resultList)
    <2>1. Len(kept) \in Nat /\ \A k \in 1 .. Len(kept) : kept[k] \in P
      BY <1>3
    <2> QED BY <1>1, <2>1
  <1>6. \A k \in 1 .. Len(kept) : resultList[kept[k]] \in SettleTimes
    BY <1>5
  <1>7. Selected \in Seq(SettleTimes) /\ Len(Selected) = Len(kept)
    BY <1>4, <1>5, <1>6
  <1>8. \A k \in 1 .. Len(kept) : Selected[k] = resultList[kept[k]]
    BY <1>4
  <1>9. ASSUME NEW k \in 1 .. Len(kept), NEW l \in 1 .. Len(kept), Selected[k] = Selected[l]
        PROVE  k = l
    <2>1. kept[k] = kept[l] /\ kept[k] \in Int /\ kept[l] \in Int
      BY <1>5, <1>8, <1>9
    <2> QED BY <1>3, <1>5, <2>1 DEF Ascending
  <1>10. ASSUME NEW t \in Elements(Selected) PROVE t \in Elements(resultList) /\ InRange(t)
    <2>1. PICK k \in 1 .. Len(kept) : t = resultList[kept[k]]
      BY <1>7, <1>8 DEF Elements
    <2> QED BY <1>5, <2>1 DEF P, Elements
  <1>11. ASSUME NEW t \in Elements(resultList), InRange(t) PROVE t \in Elements(Selected)
    <2>1. PICK i \in 1 .. Len(resultList) : t = resultList[i]
      BY DEF Elements
    <2>2. i \in Elements(kept)
      BY <1>3, <1>11, <2>1 DEF P
    <2>3. PICK k \in 1 .. Len(kept) : i = kept[k]
      BY <2>2 DEF Elements
    <2> QED BY <1>7, <1>8, <2>1, <2>3 DEF Elements
  <1>12. Len(Selected) = Cardinality(Elements(Selected))
    BY <1>7, <1>9, DistinctCount
  <1> QED BY <1>7, <1>10, <1>11, <1>12

LEMMA UpToFacts ==
  ASSUME NEW rates \in Seq(Nat), NEW t \in Nat
  PROVE  /\ UpTo(rates, t) \in 0 .. Len(rates)
         /\ \A u \in Nat : u <= t => UpTo(rates, u) <= UpTo(rates, t)
         /\ \A i \in 1 .. Len(rates), u \in Nat :
                rates[i] <= t /\ u < rates[i] => UpTo(rates, u) < UpTo(rates, t)
         /\ (\A i \in 1 .. Len(rates) : rates[i] <= t) => UpTo(rates, t) = Len(rates)
  <1> DEFINE D == DOMAIN rates
             A(u) == {i \in D : rates[i] <= u}
  <1>1. D = 1 .. Len(rates) /\ Len(rates) \in Nat /\ \A i \in D : rates[i] \in Nat
    OBVIOUS
  <1>2. \A u : UpTo(rates, u) = Cardinality(A(u))
    BY DEF UpTo
  <1>3. IsFiniteSet(D) /\ Cardinality(D) = Len(rates)
    <2> HIDE DEF D
    <2> QED BY <1>1, CountTo
  <1>4. \A u \in Nat : A(u) \in SUBSET D
    OBVIOUS
  <1>5. \A u \in Nat : u <= t => A(u) \in SUBSET A(t)
    BY <1>1
  <1>6. \A i \in D, u \in Nat : rates[i] <= t /\ u < rates[i] => A(u) # A(t) /\ u <= t
    BY <1>1
  <1>7. (\A i \in D : rates[i] <= t) => A(t) = D
    OBVIOUS
  <1> HIDE DEF A, D
  <1>8. \A u \in Nat : IsFiniteSet(A(u)) /\ Cardinality(A(u)) \in Nat /\ Cardinality(A(u)) <= Len(rates)
    BY <1>3, <1>4, FS_Subset, FS_CardinalityType
  <1>9. \A u \in Nat : u <= t => /\ Cardinality(A(u)) <= Cardinality(A(t))
                                 /\ Cardinality(A(u)) = Cardinality(A(t)) => A(u) = A(t)
    BY <1>5, <1>8, FS_Subset
  <1>10. ASSUME NEW i \in D, NEW u \in Nat, rates[i] <= t, u < rates[i]
         PROVE  Cardinality(A(u)) < Cardinality(A(t))
    <2>1. A(u) # A(t) /\ u <= t
      BY <1>6, <1>10
    <2>2. Cardinality(A(u)) <= Cardinality(A(t)) /\ Cardinality(A(u)) # Cardinality(A(t))
      BY <1>9, <2>1
    <2> QED BY <1>8, <2>2
  <1>11. UpTo(rates, t) \in 0 .. Len(rates)
    BY <1>1, <1>2, <1>8
  <1> QED BY <1>1, <1>2, <1>3, <1>7, <1>9, <1>10, <1>11

\* What is in the k-th place: enough rates are no later, and not of an earlier one.
LEMMA InOrderAt ==
  ASSUME NEW rates \in Seq(Nat), NEW k \in 1 .. Len(rates)
  PROVE  LET t == InOrder(rates)[k]
         IN  /\ t \in Elements(rates) /\ t \in Nat /\ UpTo(rates, t) >= k
             /\ \A u \in Elements(rates) : UpTo(rates, u) >= k => t <= u
  <1> DEFINE E == Elements(rates)
             G == {u \in E : UpTo(rates, u) >= k}
  <1>1. E \in SUBSET Nat /\ E \in SUBSET Int /\ IsFiniteSet(E) /\ \A i \in 1 .. Len(rates) : rates[i] \in E
    <2>1. E \in SUBSET Nat /\ IsFiniteSet(E)
      BY ElementsFinite
    <2> QED BY <2>1 DEF Elements
  <1>2. rates[k] \in E
    BY <1>1
  <1> HIDE DEF E
  <1>3. PICK top \in E : \A u \in E : u <= top
    <2>1. E # {}
      BY <1>2
    <2> QED BY <1>1, <2>1, Extremes
  <1>4. top \in G
    <2>1. top \in Nat /\ \A i \in 1 .. Len(rates) : rates[i] <= top
      BY <1>1, <1>3
    <2>2. UpTo(rates, top) = Len(rates)
      BY <2>1, UpToFacts
    <2> QED BY <2>2
  <1>5. IsFiniteSet(G) /\ G \in SUBSET Int /\ G # {}
    BY <1>1, <1>4, FS_Subset
  <1> HIDE DEF G
  <1>6. PICK t \in G : \A u \in G : t <= u
    BY <1>5, Extremes
  <1>7. \E x \in E : UpTo(rates, x) >= k /\ \A u \in E : UpTo(rates, u) >= k => x <= u
    BY <1>6 DEF G
  <1>8. InOrder(rates)[k] = CHOOSE x \in E : UpTo(rates, x) >= k /\ \A u \in E : UpTo(rates, u) >= k => x <= u
    BY DEF InOrder, E
  <1>9. /\ InOrder(rates)[k] \in E /\ UpTo(rates, InOrder(rates)[k]) >= k
        /\ \A u \in E : UpTo(rates, u) >= k => InOrder(rates)[k] <= u
    BY <1>7, <1>8
  <1> QED BY <1>1, <1>9 DEF E

\* Sorting returns as many rates, the same ones, in ascending order.
LEMMA InOrderFacts ==
  ASSUME NEW rates \in Seq(Nat)
  PROVE  /\ Len(InOrder(rates)) = Len(rates)
         /\ InOrder(rates) \in Seq(Elements(rates))
         /\ \A i, j \in 1 .. Len(rates) : i < j => InOrder(rates)[i] <= InOrder(rates)[j]
         /\ Elements(InOrder(rates)) = Elements(rates)
  <1> DEFINE s == InOrder(rates)
             n == Len(rates)
  <1>1. n \in Nat /\ \A i \in 1 .. n : rates[i] \in Nat
    OBVIOUS
  <1>2. \A k \in 1 .. n : /\ s[k] \in Elements(rates) /\ s[k] \in Nat /\ UpTo(rates, s[k]) >= k
                          /\ \A u \in Elements(rates) : UpTo(rates, u) >= k => s[k] <= u
    BY InOrderAt
  <1>3. s = [k \in 1 .. n |-> s[k]]
    <2> DEFINE At(k) == CHOOSE t \in Elements(rates) :
                           UpTo(rates, t) >= k /\ \A u \in Elements(rates) : UpTo(rates, u) >= k => t <= u
    <2>1. s = [k \in 1 .. n |-> At(k)]
      BY DEF InOrder
    <2> HIDE DEF At, s
    <2> QED BY <2>1
  <1> HIDE DEF s
  <1>4. s \in Seq(Elements(rates)) /\ Len(s) = n
    BY <1>1, <1>2, <1>3
  <1>5. ASSUME NEW i \in 1 .. n, NEW j \in 1 .. n, i < j PROVE s[i] <= s[j]
    <2>1. s[j] \in Nat /\ s[j] \in Elements(rates) /\ UpTo(rates, s[j]) >= j
      BY <1>2
    <2>2. UpTo(rates, s[j]) \in 0 .. n
      BY <2>1, UpToFacts
    <2>3. UpTo(rates, s[j]) >= i
      BY <1>1, <1>5, <2>1, <2>2
    <2> QED BY <1>2, <2>1, <2>3
  <1>6. ASSUME NEW t \in Elements(rates) PROVE t \in Elements(s)
    <2>1. PICK i \in 1 .. n : t = rates[i]
      BY DEF Elements
    <2> DEFINE k == UpTo(rates, t)
    <2>0. t \in Nat /\ rates[i] <= t /\ \A u \in Nat : u < t => u < rates[i]
      BY <1>1, <2>1
    <2>2. t \in Nat /\ k \in 0 .. n /\ \A u \in Nat : u < t => UpTo(rates, u) < k
      <3>1. k \in 0 .. n
        BY <2>0, UpToFacts
      <3>2. \A u \in Nat : u < t => UpTo(rates, u) < k
        BY <2>0, UpToFacts
      <3> QED BY <2>0, <3>1, <3>2
    <2>3. k \in 1 .. n
      <3>1. CASE t = 0
        <4>1. UpTo(rates, t) # 0
          <5> DEFINE A == {j \in DOMAIN rates : rates[j] <= t}
          <5>1. i \in A /\ A \subseteq 1 .. n
            BY <1>1, <2>1
          <5>2. IsFiniteSet(A)
            BY <1>1, <5>1, CountTo, FS_Subset
          <5>3. Cardinality(A) # 0
            BY <5>1, <5>2, FS_EmptySet
          <5> QED BY <5>3 DEF UpTo
        <4> QED BY <2>2, <4>1
      <3>2. CASE t > 0
        <4>1. UpTo(rates, 0) < k /\ UpTo(rates, 0) \in 0 .. n
          BY <2>2, <3>2, UpToFacts
        <4> QED BY <2>2, <4>1
      <3> QED BY <2>2, <3>1, <3>2
    <2> HIDE DEF k
    <2>4. s[k] \in Nat /\ UpTo(rates, s[k]) >= k /\ s[k] <= t
      BY <1>2, <2>2, <2>3 DEF k
    <2>5. UpTo(rates, s[k]) \in 0 .. n
      BY <2>4, UpToFacts
    <2>6. ~ (s[k] < t)
      BY <2>2, <2>4, <2>5
    <2>7. s[k] = t
      BY <2>2, <2>4, <2>6
    <2> QED BY <1>4, <2>3, <2>7 DEF Elements
  <1>7. \A t \in Elements(s) : t \in Elements(rates)
    BY <1>2, <1>4 DEF Elements
  <1> QED BY <1>4, <1>5, <1>6, <1>7 DEF s

-----------------------------------------------------------------------------
(* Counting what a settlement makes a later page repeat.                   *)

\* What rates the list has twice or more, counted.
Repeated(list) == Len(list) - Cardinality(Elements(list))

\* Of the oldest rates, those that were returned already.
Ahead(rest, got) == {i \in 1 .. rest : Rates[i] \in got}

LEMMA AheadFinite ==
  ASSUME NEW rest \in Int, NEW got
  PROVE  IsFiniteSet(Ahead(rest, got)) /\ Cardinality(Ahead(rest, got)) \in Nat
  <1>1. IsFiniteSet(1 .. rest)
    <2>1. 1 \in Int
      OBVIOUS
    <2> QED BY <2>1, FS_Interval, Zenon
  <1>2. Ahead(rest, got) \in SUBSET (1 .. rest)
    BY DEF Ahead
  <1> QED BY <1>1, <1>2, FS_Subset, FS_CardinalityType

\* With every settlement one more rate may come again.
LEMMA AheadMoves ==
  ASSUME NEW rest \in Int, NEW more \in Nat, NEW got
  PROVE  Cardinality(Ahead(rest + more, got)) <= Cardinality(Ahead(rest, got)) + more
  <1> DEFINE A == Ahead(rest, got)
             B == Ahead(rest + more, got)
             I == rest + 1 .. rest + more
  <1>1. B \in SUBSET (A \cup I)
    BY DEF Ahead
  <1>2. IsFiniteSet(A) /\ Cardinality(A) \in Nat
    BY AheadFinite
  <1>3. IsFiniteSet(I) /\ Cardinality(I) = more
    <2> DEFINE from == rest + 1
               to == rest + more
    <2>1. from \in Int /\ to \in Int /\ to - from + 1 = more /\ (from > to => more = 0)
      OBVIOUS
    <2> HIDE DEF from, to
    <2>2. IsFiniteSet(from .. to) /\ Cardinality(from .. to) = IF from > to THEN 0 ELSE to - from + 1
      BY <2>1, FS_Interval, Zenon
    <2>3. Cardinality(from .. to) = more
      BY <2>1, <2>2
    <2> QED BY <2>2, <2>3 DEF from, to
  <1> HIDE DEF A, B, I
  <1>4. /\ IsFiniteSet(A \cup I)
        /\ Cardinality(A \cup I) = Cardinality(A) + Cardinality(I) - Cardinality(A \cap I)
        /\ Cardinality(A \cap I) \in Nat
    BY <1>2, <1>3, FS_Union, FS_Intersection, FS_CardinalityType
  <1>5. Cardinality(B) <= Cardinality(A \cup I) /\ Cardinality(B) \in Nat
    BY <1>1, <1>4, FS_Subset, FS_CardinalityType
  <1>6. Cardinality(B) <= Cardinality(A) + more
    BY <1>2, <1>3, <1>4, <1>5
  <1> QED BY <1>6 DEF A, B

\* What a page repeats does not come again behind it.
LEMMA AheadTaken ==
  ASSUME NEW known \in 0 .. MaxSettled, NEW n \in Nat \ {0}, NEW got,
         NEW new \in SUBSET Elements(Page(known, n))
  PROVE  Cardinality(Ahead(Left(known, n + 1), got \cup new)) + Cardinality(new \cap got)
             <= Cardinality(Ahead(Left(known, n), got))
  <1> DEFINE left == Left(known, n)
             A == Ahead(Left(known, n + 1), got \cup new)
             B == {i \in 1 .. left : Rates[i] \in new \cap got}
             page == Page(known, n)
  <1>0. known \in Int /\ n \in Int /\ n >= 1 /\ known <= Len(Rates) /\ Len(Rates) \in Nat
    BY RatesFacts
  <1>1. left \in Int /\ left <= known /\ Left(known, n + 1) = left - pageSize /\ left - pageSize \in Int
    <2>1. pageSize \in Int
      BY RatesAssumption
    <2>2. left \in Int /\ left <= known
      BY <1>0, LeftType
    <2>3. Left(known, n + 1) = left - pageSize
      BY <1>0, LeftSteps
    <2> QED BY <2>1, <2>2, <2>3
  <1>2. pageSize > 0 /\ pageSize \in Int
    BY RatesAssumption
  <1>3. \A t \in new : \E j \in 1 .. left : j > left - pageSize /\ t = Rates[j]
    <2> SUFFICES ASSUME NEW t \in new PROVE \E j \in 1 .. left : j > left - pageSize /\ t = Rates[j]
      OBVIOUS
    <2>1. PICK i \in 1 .. Len(page) : t = page[i]
      BY DEF Elements
    <2>2. left + 1 - i \in 1 .. known /\ page[i] = Rates[left + 1 - i] /\ left + 1 - i > left - pageSize
      BY PageFacts
    <2>3. left + 1 - i \in 1 .. left
      BY <1>1, <2>2
    <2> QED BY <2>1, <2>2, <2>3
  <1> HIDE DEF left, page
  <1>4. \A i \in 1 .. left : i \in 1 .. Len(Rates)
    BY <1>0, <1>1
  <1>5. \A i \in 1 .. left - pageSize : i \in 1 .. left
    BY <1>1, <1>2
  <1>6. ASSUME NEW i \in 1 .. left - pageSize PROVE Rates[i] \notin new
    <2> SUFFICES ASSUME Rates[i] \in new PROVE FALSE
      OBVIOUS
    <2>1. PICK j \in 1 .. left : j > left - pageSize /\ Rates[i] = Rates[j]
      BY <1>3
    <2>2. i = j
      BY <1>4, <1>5, <2>1, RatesFacts
    <2> QED BY <1>1, <2>1, <2>2
  <1>7. A = {i \in 1 .. left - pageSize : Rates[i] \in got}
    BY <1>1, <1>6 DEF Ahead
  <1>8. A \cap B = {}
    BY <1>6, <1>7
  <1>9. A \cup B \in SUBSET Ahead(left, got)
    BY <1>5, <1>7 DEF Ahead
  <1>10. IsFiniteSet(Ahead(left, got)) /\ IsFiniteSet(A) /\ IsFiniteSet(B)
    <2>1. IsFiniteSet(Ahead(left, got))
      BY <1>1, AheadFinite
    <2>2. A \in SUBSET Ahead(left, got) /\ B \in SUBSET Ahead(left, got)
      BY <1>9
    <2> HIDE DEF A, B
    <2> QED BY <2>1, <2>2, FS_Subset
  <1>11. Cardinality(B) = Cardinality(new \cap got)
    <2> DEFINE f == [i \in B |-> Rates[i]]
    <2>1. \A i, j \in B : f[i] = f[j] => i = j
      BY <1>4, RatesFacts
    <2>2. \A t \in new \cap got : \E i \in B : f[i] = t
      BY <1>3
    <2>3. f \in Bijection(B, new \cap got)
      BY <2>1, <2>2 DEF Bijection, Injection, Surjection, IsInjective
    <2>4. ExistsBijection(B, new \cap got)
      BY <2>3 DEF ExistsBijection
    <2> HIDE DEF B
    <2> QED BY <1>10, <2>4, FS_Bijection
  <1> HIDE DEF A, B
  <1>12. Cardinality(A \cup B) = Cardinality(A) + Cardinality(B)
    <2>1. Cardinality(A \cup B) = Cardinality(A) + Cardinality(B) - Cardinality(A \cap B)
      BY <1>10, FS_Union
    <2>2. Cardinality(A \cap B) = 0
      BY <1>8, FS_EmptySet
    <2> QED BY <1>10, <2>1, <2>2, FS_CardinalityType
  <1>13. Cardinality(A \cup B) <= Cardinality(Ahead(left, got))
    BY <1>9, <1>10, FS_Subset
  <1>14. Cardinality(A) + Cardinality(new \cap got) <= Cardinality(Ahead(left, got))
    BY <1>11, <1>12, <1>13
  <1> QED BY <1>14 DEF A, left

\* A list without repetitions adds those it has in common with what is there.
LEMMA RepeatedGrows ==
  ASSUME NEW S, NEW s \in Seq(S), NEW t \in Seq(S), Len(t) = Cardinality(Elements(t))
  PROVE  /\ Repeated(s) \in Nat
         /\ Repeated(s \o t) = Repeated(s) + Cardinality(Elements(t) \cap Elements(s))
  <1>1. /\ IsFiniteSet(Elements(s)) /\ Cardinality(Elements(s)) \in Nat
        /\ IsFiniteSet(Elements(t)) /\ Cardinality(Elements(t)) \in Nat
        /\ Cardinality(Elements(s)) <= Len(s)
    BY ElementsFinite
  <1>2. Elements(s \o t) = Elements(t) \cup Elements(s)
    BY ElementsOfConcat
  <1>3. Cardinality(Elements(t) \cup Elements(s))
            = Cardinality(Elements(t)) + Cardinality(Elements(s)) - Cardinality(Elements(t) \cap Elements(s))
    BY <1>1, FS_Union
  <1>4. Cardinality(Elements(t) \cap Elements(s)) \in Nat
    BY <1>1, FS_Intersection, FS_CardinalityType
  <1>5. Len(s \o t) = Len(s) + Len(t) /\ Len(s) \in Nat /\ Len(t) \in Nat
    OBVIOUS
  <1> QED BY <1>1, <1>2, <1>3, <1>4, <1>5 DEF Repeated

-----------------------------------------------------------------------------
(* The inductive invariant.                                                *)

\* What is known of the list when the exchange had `known' rates and page n is next:
\* a rate of the range is in the list or behind the pages so far, and the repetitions, with
\* those still to come, are no more than the settlements since the first request.
Seen(list, known, n) ==
    /\ \A i \in 1 .. knownThen :
           InRange(Rates[i]) => Rates[i] \in Elements(list) \/ i <= Left(known, n)
    /\ Repeated(list) + Cardinality(Ahead(Left(known, n), Elements(list))) <= known - knownThen

\* The page in hand was the exchange's when it had `known' rates.
FetchedAt(known) ==
    /\ known \in knownThen .. settled
    /\ totalPage = Pages(known) /\ resultList = Page(known, pageNum)

RatesInv ==
    /\ RatesTypeOK
    /\ stage = "request" => Seen(retVal, settled, pageNum)
    /\ stage = "request" /\ pageNum = 1 => retVal = <<>>
    /\ stage = "page" => \E known \in 0 .. MaxSettled : FetchedAt(known) /\ Seen(retVal, known, pageNum)
    /\ \A t \in Elements(retVal) : t \in RatesOf(settled) /\ InRange(t)
    /\ NothingLost /\ SortedInRange /\ FewRepeated

\* An empty list before the first page.
LEMMA NothingSeen ==
  ASSUME NEW known \in Nat
  PROVE  /\ Left(known, 1) = known /\ Repeated(<<>>) = 0
         /\ Cardinality(Ahead(Left(known, 1), Elements(<<>>))) = 0
  <1>1. Left(known, 1) = known /\ known \in Int
    BY LeftSteps
  <1>2. Elements(<<>>) = {}
    BY DEF Elements
  <1>3. Repeated(<<>>) = 0
    BY <1>2, FS_EmptySet DEF Repeated
  <1>4. Ahead(known, {}) = {}
    BY DEF Ahead
  <1> QED BY <1>1, <1>2, <1>3, <1>4, FS_EmptySet

\* Settlements move the pages.
LEMMA SeenMoves ==
  ASSUME NEW known \in Nat, NEW later \in Nat, known <= later, NEW n \in Nat,
         NEW list \in Seq(SettleTimes), knownThen \in Nat, Seen(list, known, n)
  PROVE  Seen(list, later, n)
  <1> DEFINE left == Left(known, n)
             more == later - known
             got == Elements(list)
  <1>1. left \in Int /\ more \in Nat /\ Left(later, n) = left + more
    <2>1. left \in Int /\ more \in Nat
      BY LeftType
    <2>2. (n - 1) * pageSize \in Int
      BY RatesAssumption
    <2>3. Left(later, n) = left + more
      BY <2>2 DEF Left
    <2> QED BY <2>1, <2>3
  <1>2. /\ Repeated(list) + Cardinality(Ahead(left, got)) <= known - knownThen
        /\ \A i \in 1 .. knownThen : InRange(Rates[i]) => Rates[i] \in got \/ i <= left
    BY DEF Seen
  <1>3. Repeated(list) \in Int
    BY ElementsFinite DEF Repeated
  <1>4. later - knownThen = known - knownThen + more
    OBVIOUS
  <1> HIDE DEF left, more, got
  <1>5. /\ Cardinality(Ahead(left + more, got)) <= Cardinality(Ahead(left, got)) + more
        /\ Cardinality(Ahead(left + more, got)) \in Nat /\ Cardinality(Ahead(left, got)) \in Nat
    BY <1>1, AheadMoves, AheadFinite
  <1>6. Repeated(list) + Cardinality(Ahead(left + more, got)) <= later - knownThen
    BY <1>1, <1>2, <1>3, <1>4, <1>5
  <1>7. \A i \in 1 .. knownThen : InRange(Rates[i]) => Rates[i] \in got \/ i <= left + more
    BY <1>1, <1>2
  <1> QED BY <1>1, <1>6, <1>7 DEF Seen, got

\* The page in hand, filtered, behind what is there.
LEMMA PageTaken ==
  ASSUME RatesInv, NEW known \in 0 .. MaxSettled, FetchedAt(known), Seen(retVal, known, pageNum)
  PROVE  /\ retVal \o Selected \in Seq(SettleTimes)
         /\ Seen(retVal \o Selected, known, pageNum + 1)
         /\ \A t \in Elements(retVal \o Selected) : t \in RatesOf(settled) /\ InRange(t)
  <1> DEFINE new == Elements(Selected)
             got == Elements(retVal)
             left == Left(known, pageNum)
             rest == Left(known, pageNum + 1)
  <1>1. /\ known \in 0 .. MaxSettled /\ known <= settled /\ settled <= MaxSettled /\ settled \in Nat
        /\ pageNum \in Nat \ {0} /\ knownThen \in Nat /\ knownThen <= known
        /\ resultList = Page(known, pageNum) /\ resultList \in Seq(SettleTimes) /\ retVal \in Seq(SettleTimes)
    BY RatesFacts DEF RatesInv, RatesTypeOK, FetchedAt
  <1>2. left \in Int /\ rest = left - pageSize /\ pageSize \in Nat /\ rest \in Int
    <2>1. left \in Int /\ rest = left - pageSize
      BY <1>1, LeftType, LeftSteps
    <2>2. pageSize \in Nat
      BY RatesAssumption
    <2> QED BY <2>1, <2>2
  <1>3. \A i \in 1 .. Len(resultList) : left + 1 - i \in 1 .. known /\ resultList[i] = Rates[left + 1 - i]
    BY <1>1, PageFacts
  <1>4. \A j \in 1 .. left : j <= rest \/ left + 1 - j \in 1 .. Len(resultList)
    BY <1>1, <1>2, PageFacts
  <1> HIDE DEF left, rest
  <1>5. known <= Len(Rates) /\ Len(Rates) \in Nat
    BY <1>1, RatesFacts
  <1>6. ASSUME NEW i \in 1 .. Len(resultList), NEW j \in 1 .. Len(resultList), resultList[i] = resultList[j]
        PROVE  i = j
    <2>1. left + 1 - i \in 1 .. Len(Rates) /\ left + 1 - j \in 1 .. Len(Rates)
      BY <1>1, <1>3, <1>5
    <2>2. left + 1 - i = left + 1 - j
      BY <1>3, <1>6, <2>1, RatesFacts
    <2> QED BY <1>2, <2>2
  <1>7. /\ Selected \in Seq(SettleTimes) /\ Len(Selected) = Cardinality(new)
        /\ new = {t \in Elements(resultList) : InRange(t)}
    BY <1>1, <1>6, SelectedFacts
  <1>8. retVal \o Selected \in Seq(SettleTimes) /\ Elements(retVal \o Selected) = got \cup new
    BY <1>1, <1>7, ElementsOfConcat
  <1>9. ASSUME NEW i \in 1 .. knownThen, InRange(Rates[i]) PROVE Rates[i] \in got \cup new \/ i <= rest
    <2>1. Rates[i] \in got \/ i <= left
      BY <1>9 DEF Seen, left, got
    <2>2. CASE i <= left
      <3>1. i <= rest \/ left + 1 - i \in 1 .. Len(resultList)
        BY <1>2, <1>4, <2>2
      <3>2. CASE left + 1 - i \in 1 .. Len(resultList)
        <4>1. left + 1 - (left + 1 - i) = i
          BY <1>2
        <4>2. resultList[left + 1 - i] = Rates[i]
          BY <1>3, <3>2, <4>1
        <4> QED BY <1>7, <1>9, <3>2, <4>2 DEF Elements
      <3> QED BY <3>1, <3>2
    <2> QED BY <2>1, <2>2
  <1>10. Repeated(retVal \o Selected) + Cardinality(Ahead(rest, got \cup new)) <= known - knownThen
    <2>1. Repeated(retVal) \in Nat /\ Repeated(retVal \o Selected) = Repeated(retVal) + Cardinality(new \cap got)
      BY <1>1, <1>7, RepeatedGrows
    <2>2. new \in SUBSET Elements(Page(known, pageNum))
      BY <1>1, <1>7
    <2>3. Cardinality(Ahead(rest, got \cup new)) + Cardinality(new \cap got) <= Cardinality(Ahead(left, got))
      BY <1>1, <2>2, AheadTaken DEF left, rest
    <2>4. Repeated(retVal) + Cardinality(Ahead(left, got)) <= known - knownThen
      BY DEF Seen, left
    <2>5. /\ Cardinality(Ahead(rest, got \cup new)) \in Nat /\ Cardinality(Ahead(left, got)) \in Nat
          /\ Cardinality(new \cap got) \in Nat
      <3>1. IsFiniteSet(got)
        BY <1>1, ElementsFinite
      <3>2. Cardinality(new \cap got) \in Nat
        BY <3>1, FS_Intersection, FS_CardinalityType
      <3> QED BY <1>2, <3>2, AheadFinite
    <2>6. known \in Int /\ knownThen \in Int
      BY <1>1
    <2> HIDE DEF new, got
    <2> QED BY <2>1, <2>3, <2>4, <2>5, <2>6
  <1>11. Seen(retVal \o Selected, known, pageNum + 1)
    BY <1>8, <1>9, <1>10 DEF Seen, rest
  <1>12. ASSUME NEW t \in new PROVE t \in RatesOf(settled) /\ InRange(t)
    <2>1. PICK i \in 1 .. Len(resultList) : t = resultList[i]
      BY <1>7 DEF Elements
    <2>2. left + 1 - i \in 1 .. settled
      BY <1>1, <1>3
    <2>3. t = Rates[left + 1 - i]
      BY <1>3, <2>1
    <2> QED BY <1>7, <2>2, <2>3 DEF RatesOf
  <1> QED BY <1>8, <1>11, <1>12 DEF RatesInv

\* Later rates are known as well.
LEMMA RatesOfGrows ==
  ASSUME NEW known \in Nat, NEW later \in Nat, known <= later
  PROVE  RatesOf(known) \subseteq RatesOf(later)
  <1>1. 1 .. known \subseteq 1 .. later
    OBVIOUS
  <1> QED BY <1>1 DEF RatesOf

LEMMA RatesInitInv == RatesInit => RatesInv
  <1> SUFFICES ASSUME RatesInit PROVE RatesInv
    OBVIOUS
  <1>1. settled \in 0 .. MaxSettled /\ knownThen = 0 /\ startTime \in Nat /\ endTime \in Nat
    BY RatesAssumption DEF RatesInit
  <1>2. pageNum \in 1 .. (MaxSettled \div pageSize) + 1
    <2>1. 0 \in 0 .. MaxSettled /\ pageSize \in Nat /\ pageSize > 0 /\ MaxSettled \in Nat
      BY RatesAssumption, RatesFacts
    <2>2. MaxSettled \div pageSize >= 0 /\ MaxSettled \div pageSize \in Int
      BY <2>1
    <2> QED BY <2>2 DEF RatesInit
  <1>3. RatesTypeOK
    BY <1>1, <1>2, RatesAssumption DEF RatesInit, RatesTypeOK
  <1>4. Seen(retVal, settled, pageNum)
    <2>1. settled \in Nat /\ retVal = <<>> /\ pageNum = 1 /\ knownThen = 0
      BY <1>1, RatesFacts DEF RatesInit
    <2> QED BY <2>1, NothingSeen DEF Seen
  <1>5. Elements(retVal) = {}
    BY DEF RatesInit, Elements
  <1> QED BY <1>3, <1>4, <1>5
          DEF RatesInit, RatesInv, NothingLost, SortedInRange, FewRepeated

\* The answer has the exchange's page at that moment.
LEMMA FetchInv == ASSUME RatesInv, Fetch PROVE RatesInv'
  <1>1. /\ settled \in 0 .. MaxSettled /\ settled \in Nat /\ pageNum \in Nat \ {0}
        /\ knownThen \in Nat /\ knownThen <= settled /\ retVal \in Seq(SettleTimes)
    BY RatesFacts DEF RatesInv, RatesTypeOK
  <1>2. knownThen' \in 0 .. settled /\ knownThen' \in Nat
    BY <1>1 DEF Fetch
  <1>3. RatesTypeOK'
    <2>1. Page(settled, pageNum) \in Seq(SettleTimes) /\ Len(Page(settled, pageNum)) <= pageSize
      BY <1>1, PageFacts
    <2>2. Pages(settled) \in Nat
      BY <1>1, PagesFacts
    <2> QED BY <1>2, <2>1, <2>2 DEF RatesInv, RatesTypeOK, Fetch
  <1>4. Seen(retVal, settled, pageNum)'
    <2>1. CASE pageNum = 1
      <3>1. retVal' = <<>> /\ settled' = settled /\ pageNum' = 1 /\ knownThen' <= settled'
        BY <1>2, <2>1 DEF RatesInv, Fetch
      <3>2. settled' \in Nat /\ knownThen' \in Nat
        BY <1>1, <1>2, <3>1
      <3>3. Left(settled', 1) = settled' /\ Repeated(<<>>) = 0
            /\ Cardinality(Ahead(Left(settled', 1), Elements(<<>>))) = 0
        BY <3>2, NothingSeen
      <3> QED BY <3>1, <3>2, <3>3 DEF Seen
    <2>2. CASE pageNum # 1
      <3>1. UNCHANGED <<retVal, settled, pageNum, knownThen, startTime, endTime>>
        BY <2>2 DEF Fetch
      <3>2. Seen(retVal, settled, pageNum)
        BY DEF RatesInv, Fetch
      <3> QED BY <3>1, <3>2 DEF Seen, InRange
    <2> QED BY <2>1, <2>2
  <1>5. FetchedAt(settled)'
    BY <1>1, <1>2 DEF FetchedAt, Fetch, Page, Pages
  <1>6. \A t \in Elements(retVal') : t \in RatesOf(settled') /\ InRange(t)'
    BY DEF RatesInv, Fetch, InRange
  <1> QED BY <1>1, <1>3, <1>4, <1>5, <1>6
          DEF RatesInv, Fetch, NothingLost, SortedInRange, FewRepeated

LEMMA PageNextInv == ASSUME RatesInv, PageNext PROVE RatesInv'
  <1>1. PICK known \in 0 .. MaxSettled : FetchedAt(known) /\ Seen(retVal, known, pageNum)
    BY DEF RatesInv, PageNext
  <1>2. /\ known \in 0 .. MaxSettled /\ known \in Nat /\ settled \in Nat /\ known <= settled
        /\ pageNum \in Nat \ {0} /\ pageNum \in Nat /\ knownThen \in Nat
    BY <1>1, RatesFacts DEF RatesInv, RatesTypeOK, FetchedAt
  <1>3. /\ retVal \o Selected \in Seq(SettleTimes)
        /\ Seen(retVal \o Selected, known, pageNum + 1)
        /\ \A t \in Elements(retVal \o Selected) : t \in RatesOf(settled) /\ InRange(t)
    BY <1>1, PageTaken
  <1>4. pageNum + 1 \in 1 .. (MaxSettled \div pageSize) + 1
    <2>1. pageNum < Pages(known) /\ Pages(known) \in Nat
      BY <1>1, <1>2, PagesFacts DEF PageNext, IsLast, FetchedAt
    <2> QED BY <1>2, <2>1, PagesFacts
  <1>5. RatesTypeOK'
    BY <1>3, <1>4 DEF RatesInv, RatesTypeOK, PageNext
  <1>6. Seen(retVal \o Selected, settled, pageNum + 1)
    <2>1. pageNum + 1 \in Nat
      BY <1>2
    <2>2. knownThen \in Nat /\ settled \in Nat /\ known \in Nat /\ known <= settled
      BY <1>2
    <2> QED BY <1>3, <2>1, <2>2, SeenMoves
  <1>7. Seen(retVal, settled, pageNum)'
    BY <1>6 DEF PageNext, Seen, InRange
  <1>8. \A t \in Elements(retVal') : t \in RatesOf(settled') /\ InRange(t)'
    BY <1>3 DEF PageNext, InRange
  <1>9. pageNum' # 1
    BY <1>2 DEF PageNext
  <1> QED BY <1>5, <1>7, <1>8, <1>9
          DEF RatesInv, PageNext, NothingLost, SortedInRange, FewRepeated

\* After the last page nothing of the range is behind.
LEMMA NothingBehind ==
  ASSUME RatesInv, NEW known \in 0 .. MaxSettled, FetchedAt(known), IsLast \/ BeforeStart,
         NEW i \in 1 .. knownThen, InRange(Rates[i])
  PROVE  ~ (i <= Left(known, pageNum + 1))
  <1> DEFINE left == Left(known, pageNum)
             rest == Left(known, pageNum + 1)
  <1>1. /\ known \in 0 .. MaxSettled /\ known \in Int /\ i <= known /\ i \in Nat /\ i >= 1
        /\ pageNum \in Nat \ {0} /\ resultList = Page(known, pageNum) /\ totalPage = Pages(known)
        /\ startTime \in Nat /\ known <= Len(Rates)
    BY RatesFacts DEF RatesInv, RatesTypeOK, FetchedAt
  <1>2. left \in Int /\ rest = left - pageSize /\ rest \in Int /\ pageSize \in Nat /\ pageSize > 0
    <2>1. left \in Int /\ rest = left - pageSize
      BY <1>1, LeftType, LeftSteps
    <2>2. pageSize \in Nat /\ pageSize > 0
      BY RatesAssumption
    <2> QED BY <2>1, <2>2
  <1>3. CASE pageNum >= totalPage
    <2>1. rest <= 0
      BY <1>1, <1>3, PagesFacts
    <2> QED BY <1>1, <1>2, <2>1
  <1>4. CASE resultList = <<>>
    <2>1. left <= 0
      BY <1>1, <1>4, PageFacts
    <2> QED BY <1>1, <1>2, <2>1
  <1>5. CASE BeforeStart
    <2> SUFFICES ASSUME i <= rest PROVE FALSE
      OBVIOUS
    <2> DEFINE n == Len(resultList)
    <2>1. n \in Nat /\ n >= 1 /\ resultList[n] < startTime
      <3>1. resultList \in Seq(SettleTimes) /\ resultList # <<>>
        BY <1>5 DEF RatesInv, RatesTypeOK, BeforeStart
      <3> QED BY <1>5, <3>1 DEF BeforeStart
    <2>2. left + 1 - n \in 1 .. known /\ resultList[n] = Rates[left + 1 - n] /\ n <= pageSize
      <3>1. n \in 1 .. Len(Page(known, pageNum)) /\ n = Len(Page(known, pageNum))
        BY <1>1, <2>1
      <3> HIDE DEF n
      <3>2. /\ left + 1 - n \in 1 .. known /\ Page(known, pageNum)[n] = Rates[left + 1 - n]
            /\ Len(Page(known, pageNum)) <= pageSize
        BY <1>1, <3>1, PageFacts
      <3> QED BY <1>1, <3>1, <3>2
    <2>3. i < left + 1 - n
      BY <1>1, <1>2, <2>1, <2>2
    <2>4. i \in 1 .. Len(Rates) /\ left + 1 - n \in 1 .. Len(Rates)
      BY <1>1, <2>2, RatesFacts
    <2>5. Rates[i] < Rates[left + 1 - n] /\ Rates[i] \in Nat /\ Rates[left + 1 - n] \in Nat
      BY <2>3, <2>4, RatesFacts
    <2>6. startTime <= Rates[i]
      BY DEF InRange
    <2> QED BY <1>1, <2>1, <2>2, <2>5, <2>6
  <1> QED BY <1>3, <1>4, <1>5 DEF IsLast

LEMMA PageLastInv == ASSUME RatesInv, PageLast PROVE RatesInv'
  <1> DEFINE got == retVal \o Selected
  <1>1. PICK known \in 0 .. MaxSettled : FetchedAt(known) /\ Seen(retVal, known, pageNum)
    BY DEF RatesInv, PageLast
  <1>2. /\ settled \in Nat /\ known <= settled /\ known \in Int
        /\ pageNum \in Nat /\ knownThen \in Nat /\ knownThen <= known
    BY <1>1, RatesFacts DEF RatesInv, RatesTypeOK, FetchedAt
  <1>3. /\ got \in Seq(SettleTimes) /\ Seen(got, known, pageNum + 1)
        /\ \A t \in Elements(got) : t \in RatesOf(settled) /\ InRange(t)
    BY <1>1, PageTaken
  <1> HIDE DEF got
  <1>4. /\ retVal' = InOrder(got) /\ stage' = "done"
        /\ UNCHANGED <<settled, startTime, endTime, pageNum, resultList, totalPage, knownThen>>
    BY DEF PageLast, got
  <1>5. got \in Seq(Nat)
    BY <1>3, RatesAssumption, WiderSeq
  <1>6. /\ Len(InOrder(got)) = Len(got) /\ Elements(InOrder(got)) = Elements(got)
        /\ InOrder(got) \in Seq(Elements(got))
        /\ \A i, j \in 1 .. Len(got) : i < j => InOrder(got)[i] <= InOrder(got)[j]
    BY <1>5, InOrderFacts
  <1>7. InOrder(got) \in Seq(SettleTimes)
    <2>1. Elements(got) \in SUBSET SettleTimes
      BY <1>3, ElementsFinite
    <2> QED BY <1>6, <2>1, WiderSeq
  <1>8. RatesTypeOK'
    BY <1>4, <1>7 DEF RatesInv, RatesTypeOK
  <1>9. \A t \in Elements(retVal') : t \in RatesOf(settled') /\ InRange(t)'
    BY <1>3, <1>4, <1>6 DEF InRange
  <1>10. NothingLost'
    <2>1. \A i \in 1 .. knownThen : InRange(Rates[i]) => Rates[i] \in Elements(got)
      BY <1>1, <1>3, NothingBehind DEF PageLast, Seen
    <2>2. \A t \in RatesOf(knownThen) : InRange(t) => t \in Elements(got)
      BY <2>1 DEF RatesOf
    <2> QED BY <1>4, <1>6, <2>2 DEF NothingLost, InRange
  <1>11. SortedInRange'
    <2>1. DOMAIN InOrder(got) = 1 .. Len(got)
      BY <1>6
    <2>2. \A i, j \in DOMAIN retVal' : i < j => retVal'[i] <= retVal'[j]
      BY <1>4, <1>6, <2>1
    <2> QED BY <1>9, <2>2 DEF SortedInRange
  <1>12. FewRepeated'
    <2> DEFINE more == Cardinality(Ahead(Left(known, pageNum + 1), Elements(got)))
    <2>1. Repeated(got) + more <= known - knownThen
      BY <1>3 DEF Seen
    <2>2. more \in Nat
      <3>1. Left(known, pageNum + 1) \in Int
        BY <1>2, LeftType
      <3> QED BY <3>1, AheadFinite
    <2>3. Repeated(got) \in Int
      BY <1>3, ElementsFinite DEF Repeated
    <2>4. Repeated(got) <= settled - knownThen
      BY <1>2, <2>1, <2>2, <2>3
    <2> QED BY <1>4, <1>6, <2>4 DEF FewRepeated, Repeated
  <1> QED BY <1>4, <1>8, <1>9, <1>10, <1>11, <1>12 DEF RatesInv

LEMMA ThrowsInv == ASSUME RatesInv, Throws PROVE RatesInv'
  <1>1. Elements(<<>>) = {} /\ <<>> \in Seq(SettleTimes)
    BY DEF Elements
  <1> QED BY <1>1 DEF RatesInv, RatesTypeOK, Throws, NothingLost, SortedInRange, FewRepeated, InRange

\* A settlement moves the pages to come, not the one in hand.
LEMMA SettleInv == ASSUME RatesInv, Settle PROVE RatesInv'
  <1>1. /\ settled \in Nat /\ settled + 1 \in 0 .. MaxSettled /\ pageNum \in Nat /\ knownThen \in Nat
        /\ knownThen <= settled /\ retVal \in Seq(SettleTimes)
    BY RatesFacts DEF RatesInv, RatesTypeOK, Settle
  <1>2. RatesTypeOK'
    BY <1>1 DEF RatesInv, RatesTypeOK, Settle
  <1>3. stage = "request" => Seen(retVal, settled + 1, pageNum)
    <2> SUFFICES ASSUME Seen(retVal, settled, pageNum) PROVE Seen(retVal, settled + 1, pageNum)
      BY DEF RatesInv
    <2>1. settled + 1 \in Nat /\ settled <= settled + 1
      BY <1>1
    <2> QED BY <1>1, <2>1, SeenMoves
  <1>4. (stage = "request" => Seen(retVal, settled, pageNum))'
    BY <1>3 DEF Settle, Seen, InRange
  <1>5. (stage = "page" => \E known \in 0 .. MaxSettled : FetchedAt(known) /\ Seen(retVal, known, pageNum))'
    <2> SUFFICES ASSUME stage = "page"
                 PROVE  \E known \in 0 .. MaxSettled : FetchedAt(known)' /\ Seen(retVal, known, pageNum)'
      BY DEF Settle, FetchedAt, Seen
    <2>1. PICK known \in 0 .. MaxSettled : FetchedAt(known) /\ Seen(retVal, known, pageNum)
      BY DEF RatesInv
    <2>2. FetchedAt(known)'
      BY <1>1, <2>1 DEF FetchedAt, Settle, Page, Pages
    <2>3. Seen(retVal, known, pageNum)'
      BY <2>1 DEF Seen, Settle, InRange
    <2> QED BY <2>2, <2>3
  <1>6. \A t \in Elements(retVal') : t \in RatesOf(settled') /\ InRange(t)'
    <2>1. RatesOf(settled) \subseteq RatesOf(settled + 1)
      BY <1>1, RatesOfGrows
    <2> QED BY <2>1 DEF RatesInv, Settle, InRange
  <1>7. NothingLost'
    BY DEF RatesInv, Settle, NothingLost, InRange
  <1>8. SortedInRange'
    BY <1>6 DEF RatesInv, Settle, SortedInRange
  <1>9. FewRepeated'
    <2>1. Len(retVal) - Cardinality(Elements(retVal)) \in Int
      BY <1>1, ElementsFinite
    <2> QED BY <1>1, <2>1 DEF RatesInv, Settle, FewRepeated
  <1>10. (stage = "request" /\ pageNum = 1 => retVal = <<>>)'
    BY DEF RatesInv, Settle
  <1> QED BY <1>2, <1>4, <1>5, <1>6, <1>7, <1>8, <1>9, <1>10 DEF RatesInv

\* At any time the list and the page in hand have all wanted rates but those behind the
\* pages so far, and repeat no more than there were settlements since the first request.
THEOREM RatesInvariant == RatesSpec => []RatesInv
  <1>1. RatesInit => RatesInv
    BY RatesInitInv
  <1>2. RatesInv /\ [RatesNext]_ratesVars => RatesInv'
    <2> SUFFICES ASSUME RatesInv, [RatesNext]_ratesVars PROVE RatesInv'
      OBVIOUS
    <2>1. CASE Fetch
      BY <2>1, FetchInv
    <2>2. CASE PageNext
      BY <2>2, PageNextInv
    <2>3. CASE PageLast
      BY <2>3, PageLastInv
    <2>4. CASE Throws
      BY <2>4, ThrowsInv
    <2>5. CASE Settle
      BY <2>5, SettleInv
    <2>6. CASE UNCHANGED ratesVars
      BY <2>6 DEF ratesVars, RatesInv, RatesTypeOK, Seen, FetchedAt, NothingLost, SortedInRange,
                  FewRepeated, InRange
    <2> QED BY <2>1, <2>2, <2>3, <2>4, <2>5, <2>6 DEF RatesNext
  <1> QED BY <1>1, <1>2, PTL DEF RatesSpec

\* Each variable stays in its set; in particular no page is asked for beyond the one that a
\* settlement at every moment could fill.
THEOREM RatesTypeCorrect == RatesSpec => []RatesTypeOK
  <1>1. RatesInv => RatesTypeOK
    BY DEF RatesInv
  <1> QED BY <1>1, RatesInvariant, PTL

\* getHistoricalFundingRates() returns every rate of the range that there was at its first
\* request, for any page size and however many settlements move the pages.
THEOREM NoRateLost == RatesSpec => []NothingLost
  <1>1. RatesInv => NothingLost
    BY DEF RatesInv
  <1> QED BY <1>1, RatesInvariant, PTL

\* It returns them in ascending order, and nothing but rates of the range.
THEOREM ReturnsSorted == RatesSpec => []SortedInRange
  <1>1. RatesInv => SortedInRange
    BY DEF RatesInv
  <1> QED BY <1>1, RatesInvariant, PTL

\* It returns a rate twice at most as often as there were settlements meanwhile; so
\* without any, once.
THEOREM RepeatsBounded == RatesSpec => []FewRepeated
  <1>1. RatesInv => FewRepeated
    BY DEF RatesInv
  <1> QED BY <1>1, RatesInvariant, PTL
=============================================================================
