----------------------------- MODULE MCTradeFeed -----------------------------
(* The feed with four trades, two faults and a replay for another consumer. *)
EXTENDS TradeFeed
=============================================================================
