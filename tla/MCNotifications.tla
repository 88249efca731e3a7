-------------------------- MODULE MCNotifications --------------------------
(* Small instances of Notifications: an event of each kind, two customers'   *)
(* events together, and a message that is refused beside another customer's. *)
EXTENDS Notifications, TLC

E(type, ref) == [type |-> type, ref |-> ref]

Mixed == {
  <<E("deposit", "d1"), E("deposit", "d2")>>,
  <<E("security", "s1")>>, <<E("enabled", "x1")>>, <<E("cleared", "s2")>>,
  <<E("transfer", "t1")>>, <<E("email", "a1")>>, <<E("email", "x1")>>,
  <<E("webhook", "w1")>>, <<E("other", "o1")>>}

Beside == {<<E("cleared", "s2"), E("email", "a1")>>}

Parties == [r \in {"d1", "d2", "a1", "s1", "s2", "w1", "t1", "o1", "x1"} |->
  CASE r = "t1" -> <<"ann", "bob">> [] r \in {"d2", "s2"} -> <<"bob">> [] OTHER -> <<"ann">>]
=============================================================================
