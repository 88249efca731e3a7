---------------------------- MODULE MCOrderBook ----------------------------
(* Model-checking instance of OrderBook: two orders that rest, one that may *)
(* be of every kind, and one that finds the pool of three slots full or     *)
(* takes a recycled slot.                                                   *)
EXTENDS OrderBook, TLC

CONSTANTS o1, o2, o3, o4

Resting == {o1, o2}

Limit(ids, sides, tif, post, qs) ==
  {[id |-> i, side |-> s, type |-> "limit", tif |-> tif, price |-> p, qty |-> q, post_only |-> post] :
     i \in ids, s \in sides, p \in Prices, q \in qs}

Market(tif, post, s) ==
  {[id |-> o3, side |-> s, type |-> "market", tif |-> tif, price |-> 0, qty |-> MaxQty, post_only |-> post]}

Invalid ==
  Market("gtc", FALSE, "buy") \cup Market("ioc", TRUE, "sell")
  \cup {[id |-> o3, side |-> "buy", type |-> "limit", tif |-> "gtc", price |-> p, qty |-> 1 - p, post_only |-> FALSE] : p \in {0, 1}}

\* Every valid kind, and one representative of each invalid one; the third order
\* is large enough to take both others.
MCCommands ==
  Limit(Resting, Sides, "gtc", FALSE, 1..MaxQty) \cup Limit({o3}, Sides, "gtc", FALSE, {MaxQty}) \cup Limit({o3}, {"buy"}, "gtc", TRUE, {1})
  \cup Limit({o3}, {"sell"}, "ioc", FALSE, {MaxQty}) \cup Limit({o3}, Sides, "fok", FALSE, {MaxQty})
  \cup Market("ioc", FALSE, "sell") \cup Market("fok", FALSE, "buy") \cup Invalid
  \cup {[id |-> o4, side |-> "buy", type |-> "limit", tif |-> "gtc", price |-> 1, qty |-> 1, post_only |-> FALSE]}

IdSymmetry == Permutations(Resting)
=============================================================================
