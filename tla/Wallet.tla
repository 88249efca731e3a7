------------------------------- MODULE Wallet -------------------------------
(***************************************************************************)
(* Customers' transfers and conversions, and the administration that       *)
(* governs them (internal/transfers, internal/conversions, internal/admin, *)
(* the subaccounts of internal/accounts), as transactions of PostgreSQL    *)
(* that run at the same time.                                              *)
(*                                                                         *)
(* A running call is a transaction: what it was asked (op), the locks it   *)
(* holds and the locks it has still to take, in the order of the code.     *)
(* What the code verifies between two locks is verified when the lock      *)
(* before it is taken; the writes are seen when the transaction commits    *)
(* and gives its locks back.  A lock is [res, share]: a row that is read   *)
(* FOR SHARE may be shared.  Posted journals are reduced to the balances   *)
(* they sum up to and the set of their keys.                               *)
(***************************************************************************)
EXTENDS Integers, Sequences, FiniteSets

CONSTANTS
  Calls,        \* requests that are served at the same time
  Owner,        \* user of each customer account
  Subaccounts,  \* accounts that are subaccounts, not created at first
  Limit,        \* max_standard_subaccounts
  Opening,      \* balances at the start: account -> asset -> units
  Rank,         \* order of the lock keys: <<account, asset>> -> number
  Dollar,       \* the asset in which the others are priced
  Price,        \* what the market asks and bids for a unit of the others
  Transfers,    \* transfers that may be asked: [kind, from, to, asset, amount, key]
  Conversions,  \* conversions that may be quoted: [account, from, to, amount]
  ConfirmKeys,  \* idempotency keys of confirmations
  RoleChanges,  \* changes of roles that may be asked: [kind, by, user, role, grant]
  Staff,        \* [user, role] at the start
  MaxCalls      \* bound on the requests

Accounts == DOMAIN Owner
System   == {"conversion-treasury", "conversion-fees", "test-money-issuance",
             "staging-market-maker-treasury", "staging-market-maker-issuance"}
Assets   == DOMAIN Opening["conversion-treasury"]
Pairs    == {<<q.from, q.to>> : q \in Conversions}
Admin    == "platform_administrator"

ASSUME WalletAssumption ==
  /\ Opening \in [Accounts \cup System -> [Assets -> Int]] /\ Accounts \cap System = {}
  /\ \A a \in Accounts \cup {"conversion-treasury", "conversion-fees"}, x \in Assets : Opening[a][x] >= 0
  /\ Rank \in [(Accounts \cup System) \X Assets -> Int]
  /\ \A b, c \in (Accounts \cup System) \X Assets : Rank[b] = Rank[c] => b = c
  /\ Subaccounts \subseteq Accounts /\ {MaxCalls, Limit} \subseteq Nat /\ Price \in Nat \ {0}
  /\ IsFiniteSet(Staff) /\ \E e \in Staff : e.role = Admin

\* What may be asked: amounts are parsed as whole units, a quote exchanges two assets.
ASSUME RequestAssumption ==
  /\ \A op \in Transfers :
       op.kind = "transfer" /\ {op.from, op.to} \subseteq Accounts /\ op.asset \in Assets /\ op.amount \in Nat
  /\ \A q \in Conversions :
       q.account \in Accounts /\ {q.from, q.to} \subseteq Assets /\ q.from # q.to /\ q.amount \in Nat
  /\ \A op \in RoleChanges : op.kind = "role" /\ op.grant \in BOOLEAN

VARIABLES
  call,       \* running transactions: [op, held, todo]
  calls,      \* requests so far
  available,  \* available balance by account and asset
  journals,   \* keys of the posted journals: <<reference type, key>>
  status,     \* accounts.status
  quotes,     \* conversion_quotes: [state, out, fee]
  pairs,      \* conversion_pairs: "none", "enabled" or "disabled"
  enabled,    \* operational_controls conversions_enabled
  roles       \* user_roles

ledgerVars == <<available, journals>>
adminVars  == <<status, quotes, pairs, enabled, roles>>

-----------------------------------------------------------------------------
(* Transactions *)

NoCall == [op |-> [kind |-> "none"], held |-> {}, todo |-> <<>>]

Request == calls < MaxCalls /\ calls' = calls + 1

\* The locks are taken one after the other; an idle call starts a transaction.
Begin(c, op, locks) ==
  /\ call[c] = NoCall /\ Request
  /\ call' = [call EXCEPT ![c] = [op |-> op, held |-> {}, todo |-> locks]]

Conflict(l, h) == l.res = h.res /\ ~(l.share /\ h.share)

\* c waits for a lock of d.
Waits(c, d) ==
  /\ c # d /\ call[c].todo # <<>>
  /\ \E h \in call[d].held : Conflict(Head(call[c].todo), h)

\* The next lock is taken; a call that is refused then rolls back.
Acquire(c, valid) ==
  /\ call[c].todo # <<>> /\ \A d \in Calls : ~Waits(c, d)
  /\ call' = [call EXCEPT ![c] = IF valid THEN [call[c] EXCEPT !.held = @ \cup {Head(call[c].todo)}, !.todo = Tail(@)]
                                 ELSE NoCall]
  /\ UNCHANGED calls

End(c) == call' = [call EXCEPT ![c] = NoCall] /\ UNCHANGED calls

\* Calls that wait for each other in one circle: whoever is followed from one to the next
\* comes to all of them.
InCircle(S) ==
  S # {} /\ \E next \in [S -> S] :
    /\ \A c \in S : Waits(c, next[c])
    /\ \A T \in SUBSET S : T # {} /\ (\A c \in T : next[c] \in T) => T = S

\* The database ends a call that finds itself in a circle.
Deadlock(c) == (\E S \in SUBSET Calls : c \in S /\ InCircle(S)) /\ End(c)

ForUpdate(row) == [res |-> row, share |-> FALSE]

\* Mistake: the row is read without a lock.
ForShare_Read(row) == [res |-> <<"snapshot", row>>, share |-> TRUE]

ForShare(row) == [res |-> row, share |-> TRUE]

\* Mistake: the lock does not exclude the others.
LockAccountAsset_Shared(a, x) == [res |-> <<"balance", a, x>>, share |-> TRUE]

\* The advisory lock of a balance.
LockAccountAsset(a, x) == [res |-> <<"balance", a, x>>, share |-> FALSE]

\* How many of the balances <<account, asset>> have a smaller key than b.
Smaller(b, balances) == Cardinality({q \in balances : Rank[q] < Rank[b]})

\* Locks of several balances in the order of their keys.
Sorted(balances) ==
  [i \in 1..Cardinality(balances) |->
     LET b == CHOOSE b \in balances : Smaller(b, balances) = i - 1 IN LockAccountAsset(b[1], b[2])]

\* Units move from one account to another.
Post(bal, from, to, x, n) == [bal EXCEPT ![from][x] = @ - n, ![to][x] = @ + n]

-----------------------------------------------------------------------------
(* Transfers *)

\* The service refuses a transfer to the account it comes from; ResolveRecipient gave the
\* sender the account of a customer he knows by number, mail or phone.
Create(op) == op.from # op.to

\* A key that was used answers with the transfer it made; accounts are read before the lock.
Transferable(op) ==
  /\ <<"transfer", op.key>> \notin journals
  /\ status[op.from] = "active" /\ status[op.to] = "active"
  /\ op.to \in Subaccounts => Owner[op.to] = Owner[op.from]

\* Mistake: the destination is locked too, in the order of the request.
TransferLocks_Both(op) == <<LockAccountAsset(op.from, op.asset), LockAccountAsset(op.to, op.asset)>>

TransferLocks(op) == <<LockAccountAsset(op.from, op.asset)>>

Transfer(c, op) ==
  /\ Create(op) /\ Transferable(op) /\ Begin(c, op, TransferLocks(op))
  /\ UNCHANGED <<ledgerVars, adminVars>>

\* transfers and journals refuse a key that is used; conversions share the journals.
FreshKey(k) == \A t \in {"transfer", "conversion"} : <<t, k>> \notin journals

CreateInternalTransfer(c) ==
  LET op == call[c].op IN
  /\ op.kind = "transfer" /\ call[c].todo = <<>> /\ End(c)
  /\ IF FreshKey(op.key)
     THEN /\ available' = Post(available, op.from, op.to, op.asset, op.amount)
          /\ journals' = journals \cup {<<"transfer", op.key>>}
     ELSE UNCHANGED ledgerVars
  /\ UNCHANGED adminVars

-----------------------------------------------------------------------------
(* Conversions *)

\* A pair that has no enabled policy is quoted at 75 and 20 basis points.
ConversionPair(q) ==
  IF pairs[<<q.from, q.to>>] = "enabled" THEN [spread |-> 50, fee |-> 10] ELSE [spread |-> 75, fee |-> 20]

\* Price of the base: the bid when it is sold, the ask when it is bought; a pair without
\* the dollar takes the quotient of the two and sells.
conversionPrice(q) ==
  [sell |-> q.from # Dollar, price |-> IF Dollar \in {q.from, q.to} THEN Price ELSE 1]

\* Exact rationals, rounded down once; the fee is rounded down too.
quotedAmounts(q) ==
  LET p == ConversionPair(q)
      m == conversionPrice(q)
      gross == IF m.sell THEN (q.amount * m.price * (10000 - p.spread)) \div 10000
               ELSE (q.amount * 10000) \div (m.price * (10000 + p.spread))
      fee == (gross * p.fee) \div 10000 IN
  [state |-> "open", out |-> gross - fee, fee |-> fee]

CreateConversionQuote(q) ==
  /\ enabled /\ quotes[q].state = "none" /\ quotedAmounts(q).out > 0 /\ status[q.account] = "active"
  /\ Request /\ quotes' = [quotes EXCEPT ![q] = quotedAmounts(q)]
  /\ UNCHANGED <<call, ledgerVars, status, pairs, enabled, roles>>

\* Thirty seconds pass.
QuoteExpires(q) ==
  /\ quotes[q].state = "open" /\ Request /\ quotes' = [quotes EXCEPT ![q].state = "expired"]
  /\ UNCHANGED <<call, ledgerVars, status, pairs, enabled, roles>>

\* The accounts of the treasury and the fees are found with an upsert, which locks the row.
SystemAccount(name, x) == ForUpdate(<<"account", name, x>>)

ConfirmLocks(q) ==
  <<ForShare(<<"control">>), ForUpdate(<<"quote", q>>),
    SystemAccount("conversion-treasury", q.from), SystemAccount("conversion-treasury", q.to),
    SystemAccount("conversion-fees", q.to)>>
  \o Sorted({<<q.account, q.from>>, <<"conversion-treasury", q.from>>, <<"conversion-treasury", q.to>>})

\* The quote is open and its pair is enabled, or else its assets are (all of them here).
Confirmable(q) == quotes[q].state = "open" /\ status[q.account] = "active"

Gross(q) == quotes[q].out + quotes[q].fee

Affordable(q) ==
  available[q.account][q.from] >= q.amount /\ available["conversion-treasury"][q.to] >= Gross(q)

Confirm(c, q, k) ==
  /\ quotes[q].state # "none"
  /\ Begin(c, [kind |-> "confirm", quote |-> q, key |-> k], ConfirmLocks(q))
  /\ UNCHANGED <<ledgerVars, adminVars>>

\* One journal of five postings.
Settle(q) ==
  Post(Post(Post(available, q.account, "conversion-treasury", q.from, q.amount),
            "conversion-treasury", q.account, q.to, quotes[q].out),
       "conversion-treasury", "conversion-fees", q.to, quotes[q].fee)

ConfirmConversion(c) ==
  LET op == call[c].op IN
  /\ op.kind = "confirm" /\ call[c].todo = <<>> /\ End(c)
  /\ IF FreshKey(op.key)
     THEN /\ available' = Settle(op.quote) /\ journals' = journals \cup {<<"conversion", op.key>>}
          /\ quotes' = [quotes EXCEPT ![op.quote].state = "confirmed"]
     ELSE UNCHANGED <<ledgerVars, quotes>>
  /\ UNCHANGED <<status, pairs, enabled, roles>>

-----------------------------------------------------------------------------
(* Administration *)

Has(u, r) == [user |-> u, role |-> r] \in roles

\* A policy for a pair.
SetConversionPairPolicy(u, p) ==
  /\ Has(u, Admin) /\ Request
  /\ \E s \in {"enabled", "disabled"} \ {pairs[p]} : pairs' = [pairs EXCEPT ![p] = s]
  /\ UNCHANGED <<call, ledgerVars, status, quotes, enabled, roles>>

\* The switch of all conversions: the update waits for those that have read it.
Switch(c, u) ==
  /\ Has(u, Admin)
  /\ Begin(c, [kind |-> "switch"], <<ForUpdate(<<"control">>)>>)
  /\ UNCHANGED <<ledgerVars, adminVars>>

SetConversionsEnabled(c) ==
  /\ call[c].op.kind = "switch" /\ call[c].todo = <<>> /\ End(c) /\ enabled' = ~enabled
  /\ UNCHANGED <<ledgerVars, status, quotes, pairs, roles>>

Administrators == {e \in roles : e.role = Admin}

\* Mistake: administrators are counted without the advisory lock.
RoleLocks_NoAdvisory(op) == <<ForShare(<<"count">>), ForUpdate(<<"role", op.user, op.role>>)>>

\* Before an administrator is removed the others are counted, under an advisory lock.
RoleLocks(op) ==
  (IF ~op.grant /\ op.role = Admin THEN <<ForUpdate(<<"administrators">>)>> ELSE <<>>)
  \o <<ForUpdate(<<"role", op.user, op.role>>)>>

Role(c, op) ==
  /\ Has(op.by, Admin) /\ Begin(c, op, RoleLocks(op))
  /\ UNCHANGED <<ledgerVars, adminVars>>

SetUserRole(c) ==
  LET op == call[c].op IN
  /\ op.kind = "role" /\ call[c].todo = <<>> /\ End(c)
  /\ LET e == [user |-> op.user, role |-> op.role] IN
     roles' = IF op.grant THEN roles \cup {e} ELSE roles \ {e}
  /\ UNCHANGED <<ledgerVars, status, quotes, pairs, enabled>>

\* A verified customer opens a subaccount while he has fewer than his limit.
CreateSubaccount(a) ==
  /\ a \in Subaccounts /\ status[a] = "none"
  /\ Cardinality({s \in Subaccounts : Owner[s] = Owner[a] /\ status[s] # "none"}) < Limit
  /\ Request /\ status' = [status EXCEPT ![a] = "active"]
  /\ UNCHANGED <<call, ledgerVars, quotes, pairs, enabled, roles>>

\* Freezes, thaws or deletes; what is deleted stays so.
SetSubaccountStatus(a) ==
  /\ a \in Subaccounts /\ status[a] \in {"active", "frozen"} /\ Request
  /\ \E s \in {"active", "frozen", "disabled"} \ {status[a]} : status' = [status EXCEPT ![a] = s]
  /\ UNCHANGED <<call, ledgerVars, quotes, pairs, enabled, roles>>

-----------------------------------------------------------------------------
\* What is verified when n locks are still to be taken.
Valid(op, n) ==
  CASE op.kind = "transfer" -> n = 0 => available[op.from][op.asset] >= op.amount
    [] op.kind = "confirm"  -> /\ n = 7 => enabled /\ <<"conversion", op.key>> \notin journals
                               /\ n = 6 => Confirmable(op.quote)
                               /\ n = 0 => Affordable(op.quote)
    [] op.kind = "role"     -> n = 1 => Cardinality(Administrators) > 1
    [] OTHER                -> TRUE

WalletInit ==
  /\ call = [c \in Calls |-> NoCall] /\ calls = 0
  /\ available = Opening /\ journals = {}
  /\ status = [a \in Accounts |-> IF a \in Subaccounts THEN "none" ELSE "active"]
  /\ quotes = [q \in Conversions |-> [state |-> "none", out |-> 0, fee |-> 0]]
  /\ pairs = [p \in Pairs |-> "none"] /\ enabled = TRUE /\ roles = Staff

WalletNext ==
  \/ \E c \in Calls :
       \/ \E op \in Transfers : Transfer(c, op)
       \/ \E q \in Conversions, k \in ConfirmKeys : Confirm(c, q, k)
       \/ \E op \in RoleChanges : Role(c, op)
       \/ \E e \in Staff : Switch(c, e.user)
       \/ CreateInternalTransfer(c) \/ ConfirmConversion(c) \/ SetConversionsEnabled(c) \/ SetUserRole(c)
       \/ Deadlock(c) /\ UNCHANGED <<ledgerVars, adminVars>>
  \/ \E q \in Conversions : CreateConversionQuote(q) \/ QuoteExpires(q)
  \/ \E e \in Staff, p \in Pairs : SetConversionPairPolicy(e.user, p)
  \/ \E a \in Subaccounts : CreateSubaccount(a) \/ SetSubaccountStatus(a)

-----------------------------------------------------------------------------
(* Properties *)

\* No account from which customers or conversions take money is overdrawn, although
\* transfers and conversions from one balance are served at the same time.
NotOverdrawn ==
  \A a \in Accounts \cup {"conversion-treasury", "conversion-fees"}, x \in Assets : available[a][x] >= 0

\* Once an administrator has switched conversions off none is settled, not even one
\* that had found them enabled.
StopHolds == [][~enabled => \A k \in ConfirmKeys : <<"conversion", k>> \in journals' => <<"conversion", k>> \in journals]_journals

\* There is always an administrator, although two may remove each other.
AdministratorRemains == Administrators # {}
=============================================================================
