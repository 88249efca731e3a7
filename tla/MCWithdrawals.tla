--------------------------- MODULE MCWithdrawals ---------------------------
(* Small instances of Withdrawals. *)
EXTENDS Withdrawals, TLC

\* The fee of w1 is paid in another asset, the one of w2 in the asset itself.
TwoAmounts == "w1" :> 2 @@ "w2" :> 1
TwoCosts   == "w1" :> [asset |-> 2, gas |-> 1] @@ "w2" :> [asset |-> 2, gas |-> 0]
Funds      == [asset |-> 3, gas |-> 1]
=============================================================================
