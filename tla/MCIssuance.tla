----------------------------- MODULE MCIssuance -----------------------------
(* Small instance of Issuance and Wallet: two customers, one with a          *)
(* subaccount, two members of staff, two assets.                            *)
EXTENDS Issuance, TLC

Owners  == "alice" :> "alice" @@ "sub" :> "alice" @@ "bob" :> "bob"
Money(d, b) == "usdt" :> d @@ "btc" :> b
Start   == [a \in {"alice", "sub", "bob"} \cup System |->
              IF a \in System THEN IF a = "conversion-treasury" THEN Money(2000, 1000) ELSE Money(0, 0)
              ELSE IF a = "alice" THEN Money(2000, 0) ELSE IF a = "bob" THEN Money(0, 1000) ELSE Money(0, 0)]
Ids     == "alice" :> 1 @@ "bob" :> 2 @@ "sub" :> 3 @@ "conversion-treasury" :> 0 @@ "conversion-fees" :> 4
           @@ "test-money-issuance" :> 5 @@ "staging-market-maker-treasury" :> 6 @@ "staging-market-maker-issuance" :> 7
Ranks   == [b \in (DOMAIN Ids) \X {"usdt", "btc"} |-> 2 * Ids[b[1]] + (IF b[2] = "btc" THEN 0 ELSE 1)]

T(from, to, asset, amount, key) ==
  [kind |-> "transfer", from |-> from, to |-> to, asset |-> asset, amount |-> amount, key |-> key]
SomeTransfers   == {T("alice", "bob", "usdt", 1500, "k1"), T("alice", "sub", "usdt", 1500, "k2"), T("bob", "alice", "usdt", 1000, "k3")}
SomeConversions == {[account |-> "alice", from |-> "usdt", to |-> "btc", amount |-> 1500],
                    [account |-> "bob", from |-> "btc", to |-> "usdt", amount |-> 900]}

R(by, user, r, grant) == [kind |-> "role", by |-> by, user |-> user, role |-> r, grant |-> grant]
SomeRoles == {R("ann", "ben", Admin, FALSE), R("ben", "ann", Admin, FALSE),
              R("ann", "ben", "treasury_approver", FALSE), R("ann", "ann", "treasury_approver", TRUE)}
Staffed   == {[user |-> "ann", role |-> Admin], [user |-> "ann", role |-> "treasury_operator"],
              [user |-> "ben", role |-> Admin], [user |-> "ben", role |-> "treasury_approver"]}

G(a, amount)  == [kind |-> "grant", by |-> "ann", account |-> a, asset |-> "btc", amount |-> amount]
I(asset, n)   == [kind |-> "inventory", by |-> "ann", asset |-> asset, amount |-> n]
Made          == {G("alice", 2), I("btc", 2)}
SomeProposals == Made \cup {G("alice", 3), I("usdt", 3), [kind |-> "limit", by |-> "ann", limit |-> 4]}
SomePilots    == {[users |-> <<"bob", "alice">>, assets |-> <<"btc">>]}
Quote(b, a)   == [bid |-> b, ask |-> a]
Venues        == {<<Quote(1, 2), Quote(2, 2)>>, <<Quote(1, 1), Quote(4, 4)>>}

CallSymmetry  == Permutations(Calls)
=============================================================================
