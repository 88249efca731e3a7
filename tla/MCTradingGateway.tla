--------------------------- MODULE MCTradingGateway ---------------------------
(* Small instances of TradingGateway: two accounts, one pair. *)
EXTENDS TradingGateway, TLC

R(account, key, side, type, tif, price, quantity, conditional) ==
  [account |-> account, key |-> key, side |-> side, type |-> type, tif |-> tif,
   price |-> price, quantity |-> quantity, conditional |-> conditional]

\* One decimal in prices, so that notionals, holds and fees are rounded.
Tenths == [PriceScale |-> 1, QuantityScale |-> 0, QuoteScale |-> 0]

Pay(q, b) == [x \in Assets |-> IF x = "quote" THEN q ELSE b]
TwoAccounts == [a \in {"alice", "bob"} |-> IF a = "alice" THEN Pay(9, 0) ELSE Pay(0, 3)]

\* A resting sell and two stop orders: a fill-or-kill buy at a better price, and
\* a market buy that holds all there is and asks for more than is on offer.
MixedRequests ==
  "o1" :> R("bob",   "k1", "SELL", "LIMIT",  "GTC", 25, 2, FALSE) @@
  "o2" :> R("alice", "k1", "BUY",  "LIMIT",  "FOK", 35, 1, TRUE) @@
  "o3" :> R("alice", "k2", "BUY",  "MARKET", "IOC", 0, 3, TRUE)

\* An order and one that fills it in part.
IocRequests ==
  "o1" :> R("alice", "k1", "BUY",  "LIMIT", "GTC", 25, 1, FALSE) @@
  "o2" :> R("bob",   "k1", "SELL", "LIMIT", "IOC", 25, 2, FALSE)

\* Callers are interchangeable.
CallerSymmetry == Permutations(Callers)

Bound(place, cancel, trigger, timeout) ==
  "place" :> place @@ "cancel" :> cancel @@ "trigger" :> trigger @@ "timeout" :> timeout

MixedBounds == Bound(3, 2, 1, 1)
IocBounds   == Bound(2, 0, 0, 0)
=============================================================================
