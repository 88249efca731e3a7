--------------------------- MODULE MCMarketMaker ---------------------------
(* Small instances of MarketMaker: one pair, one or two processes, two
   accounts, and a small inventory or one that is above the limit. *)
EXTENDS MarketMaker, TLC

Processes == Permutations(Servers)

OneBase  == 1 :> "btc"
OneQuote == 1 :> "usd"
Holdings == "btc" :> 5 @@ "usd" :> 2
Small    == "btc" :> 1 @@ "usd" :> 2
Configure == [action |-> "configure_dry_run", account |-> "m1", pairs |-> {1}, inventory |-> Small]
Release   == [action |-> "release_live", account |-> "m1", pairs |-> {}, inventory |-> <<>>]
Another   == [action |-> "configure_reference_only", account |-> "m2", pairs |-> {1}, inventory |-> <<>>]
Payloads  == {Configure, Release}
Changes   == {Configure, Release, Another}
=============================================================================
