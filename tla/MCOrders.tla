------------------------------ MODULE MCOrders ------------------------------
(* Two accounts, four orders of the application's own, two calls. *)
EXTENDS Orders

CONSTANTS key1, key2

MCKeys == {key1, key2}

MCOrder(side, close, type, timeInForce) ==
    [side |-> side, close |-> close, type |-> type, timeInForce |-> timeInForce, closes |-> 0]

MCAppOrders ==
    {MCOrder("Buy", FALSE, "Limit", "GTC"), MCOrder("Sell", FALSE, "Market", "IOC"),
     MCOrder("Buy", TRUE, "Stop", "GTC"), MCOrder("Sell", TRUE, "Limit", "FOK")}
=============================================================================
