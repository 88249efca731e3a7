----------------------------- MODULE MCDeposits -----------------------------
(* Small instance of Deposits: five reports about one transfer. *)
EXTENDS Deposits

H(status, conf, exact, hash) == [status |-> status, conf |-> conf, exact |-> exact, hash |-> hash, index |-> "0"]

FiveReports == {H("CONFIRMING", 1, TRUE, FALSE), H("COMPLETED", 2, TRUE, TRUE), H("FAILED", 0, TRUE, TRUE),
                H("CONFIRMING", 2, FALSE, TRUE), H("BROADCASTING", 0, TRUE, FALSE)}
=============================================================================
