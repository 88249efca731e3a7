---------------------------- MODULE MCP2PEscrow ----------------------------
(* Small instance of P2PEscrow: two customers trade with each other. *)
EXTENDS P2PEscrow, TLC

TwoOwners == "a1" :> "ann" @@ "b1" :> "bob"
TwoFunds  == "a1" :> 2 @@ "b1" :> 1
=============================================================================
