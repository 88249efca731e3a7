------------------------------ MODULE Issuance ------------------------------
(***************************************************************************)
(* Money that staging creates: grants of test money to customers           *)
(* (internal/testmoney, cmd/staging-test-money) and inventory of the       *)
(* market maker's treasury with its ceiling (internal/marketmaker          *)
(* treasury.go, cmd/staging-market-maker-inventory).  One person proposes, *)
(* another approves.  Approvals are transactions beside those of Wallet,   *)
(* on the same roles, balances and locks.                                  *)
(***************************************************************************)
EXTENDS Wallet, Functions, FiniteSetsExt

CONSTANTS
  Proposals,     \* what may be proposed: [kind, by, ...], see below
  Before,        \* proposals made at the start, under the first policy
  Recipients,    \* customers the first policy admits
  Pilots,        \* what an operator may configure: [users, assets], in the order of the locks
  TesterLimit,   \* what one customer may be granted, in dollars
  FirstLimit,    \* ceiling of the inventory at the start
  Tickers,       \* what the venues answer: <<[bid, ask], [bid, ask]>>
  MaxDivergence  \* max_divergence_bps of the policy

\* A grant names an account, an asset and an amount; inventory an asset and an amount; a limit its value.
Kinds == {"grant", "inventory", "limit"}

ASSUME IssuanceAssumption ==
  /\ Before \subseteq Proposals /\ \A p \in Proposals : p.kind \in Kinds
  /\ IsFiniteSet(Proposals)
  /\ \A p \in Proposals :
       /\ p.kind \in {"grant", "inventory"} => p.asset \in Assets /\ p.amount \in Nat
       /\ p.kind = "grant" => p.account \in Accounts
       /\ p.kind = "limit" => p.limit \in Nat
  /\ \A t \in Tickers : DOMAIN t = {1, 2} /\ \A v \in {1, 2} : t[v].bid \in Int /\ t[v].ask \in Int
  /\ {TesterLimit, FirstLimit} \subseteq Nat 
  /\ \A pilot \in Pilots : pilot.users \in Seq({Owner[a] : a \in Accounts}) /\ pilot.assets \in Seq(Assets)

VARIABLES
  proposed,   \* version of the policy under which each proposal was made, 0 without one
  granted,    \* value of each grant, -1 without one
  policy,     \* test_money_control and its policy: [version, limit, assets]
  admitted,   \* test_money_recipients
  ceiling     \* limit of the current policy for inventory

issuanceVars == <<proposed, granted, policy, admitted, ceiling>>
vars == <<call, calls, ledgerVars, adminVars, issuanceVars>>

-----------------------------------------------------------------------------
(* Values and limits *)

ceilDiv(n, d) == (n + d - 1) \div d

\* A venue's answer counts when its bid is a price and its ask is not below it; the
\* middle of the two is observed, rounded up.
Observations(t) ==
  [v \in {w \in DOMAIN t : t[w].bid > 0 /\ t[w].ask >= t[w].bid} |-> ceilDiv(t[v].bid + t[v].ask, 2)]

\* The middle of two observations, rounded up.
Value(amount, o) == amount * ceilDiv(o[1] + o[2], 2)

\* Observations of both venues that agree.
Agree(o) ==
  /\ DOMAIN o = {1, 2}
  /\ LET lo == Min({o[1], o[2]})
         hi == Max({o[1], o[2]}) IN
     (hi - lo) * 10000 <= lo * MaxDivergence

Granted(P) == SumFunctionOnSet(granted, {p \in P : granted[p] >= 0})

Grants(u) == {p \in Proposals : p.kind = "grant" /\ Owner[p.account] = u}

Inventory == {p \in Proposals : p.kind = "inventory"}

CheckQuota(u, v) ==
  /\ Granted(Grants(u)) + v <= TesterLimit
  /\ Granted({p \in Proposals : p.kind = "grant"}) + v <= policy.limit

-----------------------------------------------------------------------------
(* Proposals *)

\* Subaccounts are given no test money.
eligible(p) ==
  /\ p.account \notin Subaccounts /\ status[p.account] = "active"
  /\ Owner[p.account] \in admitted /\ p.asset \in policy.assets

\* An operator proposes; a proposal that is repeated finds itself.
Proposable(p) == proposed[p] = 0 /\ Has(p.by, "treasury_operator")

NewProposal(p) ==
  /\ Proposable(p) /\ Request
  /\ proposed' = [proposed EXCEPT ![p] = 1]
  /\ UNCHANGED <<call, ledgerVars, adminVars, granted, policy, admitted, ceiling>>

ProposeInventory(p) == p.kind = "inventory" /\ NewProposal(p)

ProposeLimit(p) == p.kind = "limit" /\ NewProposal(p)

\* Mistake: the control row is read without a lock.
loadPolicy_Read == ForShare(<<"test-money">>)

\* The control row serializes issuance.
loadPolicy == ForUpdate(<<"test-money">>)

role(u, r) == ForShare(<<"role", u, r>>)

\* Rows that eligible reads and that a configuration updates; those of the customer
\* and of his account are read too, and nothing here updates them.
EligibleRows(p) == <<ForShare(<<"recipient", Owner[p.account]>>), ForShare(<<"asset", p.asset>>)>>

ProposeLocks(p) == <<loadPolicy, role(p.by, "treasury_operator")>> \o EligibleRows(p)

AskGrant(c, p) ==
  /\ p.kind = "grant" /\ Begin(c, [kind |-> "propose", p |-> p], ProposeLocks(p))
  /\ UNCHANGED <<ledgerVars, adminVars, issuanceVars>>

\* A grant is bound to the policy under which it is proposed.
Propose(c) ==
  LET op == call[c].op IN
  /\ op.kind = "propose" /\ call[c].todo = <<>> /\ End(c)
  /\ proposed' = [proposed EXCEPT ![op.p] = policy.version]
  /\ UNCHANGED <<ledgerVars, adminVars, granted, policy, admitted, ceiling>>

\* Rows of a table, updated one after the other.
Rows(table, s) == [i \in 1..Len(s) |-> ForUpdate(<<table, s[i]>>)]

\* Assets are sorted, recipients are not; the control row comes last.
PilotLocks(op) ==
  <<ForUpdate(<<"pilot">>), role(op.operator, "treasury_operator"), role(op.approver, "treasury_approver")>>
  \o Rows("asset", op.assets) \o Rows("recipient", op.users) \o <<loadPolicy>>

\* A new policy for some customers and assets; those admitted before stay admitted.
Pilot(c, pilot) ==
  \E a, b \in {e.user : e \in Staff} :
    /\ a # b
    /\ LET op == [kind |-> "pilot", users |-> pilot.users, assets |-> pilot.assets, operator |-> a, approver |-> b] IN
       Begin(c, op, PilotLocks(op))
    /\ UNCHANGED <<ledgerVars, adminVars, issuanceVars>>

ConfigurePilot(c) ==
  /\ call[c].op.kind = "pilot" /\ call[c].todo = <<>> /\ End(c)
  /\ policy' = [version |-> policy.version + 1, limit |-> TesterLimit * Cardinality(Range(call[c].op.users)),
                assets |-> Range(call[c].op.assets)]
  /\ admitted' = admitted \cup Range(call[c].op.users)
  /\ UNCHANGED <<ledgerVars, adminVars, proposed, granted, ceiling>>

-----------------------------------------------------------------------------
(* Approvals *)

MayApprove(u, p) == Has(u, "treasury_approver") /\ u # p.by

\* The control row, the two roles, what eligible reads, and the balances of the grant.
GrantLocks(u, p) ==
  <<loadPolicy, role(u, "treasury_approver"), role(p.by, "treasury_operator")>> \o EligibleRows(p)
  \o Sorted({<<"test-money-issuance", p.asset>>, <<p.account, p.asset>>})

\* The treasury's advisory lock and the row of the ceiling.
LimitLocks == <<ForUpdate(<<"treasury">>), ForUpdate(<<"ceiling">>)>>

\* The row of the asset is read before the ceiling.
InventoryLocks(p) ==
  <<ForUpdate(<<"treasury">>), ForShare(<<"asset", p.asset>>), ForUpdate(<<"ceiling">>)>>
  \o Sorted({<<"staging-market-maker-treasury", p.asset>>, <<"staging-market-maker-issuance", p.asset>>})

ApproveLocks(u, p) ==
  IF p.kind = "grant" THEN GrantLocks(u, p) ELSE IF p.kind = "inventory" THEN InventoryLocks(p) ELSE LimitLocks

\* Dollars count as they are.
InventoryValue(p, o) == IF p.asset = Dollar THEN p.amount ELSE Value(p.amount, o)

\* Prices come from the venues, not from the request.
Approve(c, u, p) ==
  /\ proposed[p] # 0
  /\ \E t \in Tickers :
       Begin(c, [kind |-> "approve", by |-> u, p |-> p, prices |-> Observations(t)], ApproveLocks(u, p))
  /\ UNCHANGED <<ledgerVars, adminVars, issuanceVars>>

\* The proposal is new and its author still an operator.
Approvable(p) == granted[p] < 0 /\ Has(p.by, "treasury_operator")

\* A reference price is needed for everything but the dollar; test money is never the dollar.
GrantValid(p, op) ==
  /\ Approvable(p) /\ proposed[p] = policy.version /\ eligible(p)
  /\ p.asset # Dollar /\ Agree(op.prices) /\ CheckQuota(Owner[p.account], Value(p.amount, op.prices))

InventoryValid(p, op) ==
  (p.asset # Dollar => Agree(op.prices)) /\ Granted(Inventory) + InventoryValue(p, op.prices) <= ceiling

\* A ceiling below what has been issued is refused.
LimitValid(p) == p.limit >= Granted(Inventory)

postGrant(c) ==
  LET op == call[c].op IN
  /\ op.kind = "approve" /\ op.p.kind = "grant" /\ call[c].todo = <<>> /\ End(c)
  /\ available' = Post(available, "test-money-issuance", op.p.account, op.p.asset, op.p.amount)
  /\ granted' = [granted EXCEPT ![op.p] = Value(op.p.amount, op.prices)] /\ journals' = journals \cup {<<"grant", op.p>>}
  /\ UNCHANGED <<adminVars, proposed, policy, admitted, ceiling>>

ApproveInventory(c) ==
  LET op == call[c].op IN
  /\ op.kind = "approve" /\ op.p.kind = "inventory" /\ call[c].todo = <<>> /\ End(c)
  /\ available' = Post(available, "staging-market-maker-issuance", "staging-market-maker-treasury", op.p.asset, op.p.amount)
  /\ granted' = [granted EXCEPT ![op.p] = InventoryValue(op.p, op.prices)] /\ journals' = journals \cup {<<"grant", op.p>>}
  /\ UNCHANGED <<adminVars, proposed, policy, admitted, ceiling>>

ApproveLimit(c) ==
  LET op == call[c].op IN
  /\ op.kind = "approve" /\ op.p.kind = "limit" /\ call[c].todo = <<>> /\ End(c)
  /\ ceiling' = op.p.limit /\ granted' = [granted EXCEPT ![op.p] = 0]
  /\ UNCHANGED <<ledgerVars, adminVars, proposed, policy, admitted>>

-----------------------------------------------------------------------------
\* The control row is locked first, or the treasury; roles that are locked are read then.
\* eligible finds its rows before it locks them, and verifies them again.
ApprovalValid(p, op, n) ==
  CASE p.kind = "grant"     -> /\ n = 5 => MayApprove(op.by, p)
                               /\ n = 4 => Approvable(p) /\ proposed[p] = policy.version /\ eligible(p)
                               /\ n = 2 => GrantValid(p, op)
    [] p.kind = "inventory" -> /\ n = 4 => MayApprove(op.by, p)
                               /\ n = 3 => Approvable(p)
                               /\ n = 2 => InventoryValid(p, op)
    [] p.kind = "limit"     -> (n = 1 => MayApprove(op.by, p) /\ Approvable(p)) /\ (n = 0 => LimitValid(p))

ProposalValid(p, n) == (n = 2 => Proposable(p) /\ eligible(p)) /\ (n = 0 => eligible(p))

PilotValid(op, n) ==
  LET rows == Len(op.assets) + Len(op.users) IN
  (n = rows + 2 => Has(op.operator, "treasury_operator")) /\ (n = rows + 1 => Has(op.approver, "treasury_approver"))

IssuanceValid(op, n) ==
  IF op.kind = "approve" THEN ApprovalValid(op.p, op, n)
  ELSE IF op.kind = "propose" THEN ProposalValid(op.p, n)
  ELSE IF op.kind = "pilot" THEN PilotValid(op, n) ELSE Valid(op, n)

Lock(c) ==
  /\ Acquire(c, IssuanceValid(call[c].op, Len(call[c].todo) - 1))
  /\ UNCHANGED <<ledgerVars, adminVars, issuanceVars>>

Init ==
  /\ WalletInit
  /\ proposed = [p \in Proposals |-> IF p \in Before THEN 1 ELSE 0] /\ granted = [p \in Proposals |-> -1]
  /\ policy = [version |-> 1, limit |-> TesterLimit * Cardinality(Recipients), assets |-> Assets]
  /\ admitted = Recipients
  /\ ceiling = FirstLimit

Next ==
  \/ WalletNext /\ UNCHANGED issuanceVars
  \/ \E p \in Proposals : ProposeInventory(p) \/ ProposeLimit(p)
  \/ \E c \in Calls :
       \/ Lock(c) \/ Propose(c) \/ ConfigurePilot(c) \/ postGrant(c) \/ ApproveInventory(c) \/ ApproveLimit(c)
       \/ \E p \in Proposals : AskGrant(c, p)
       \/ \E pilot \in Pilots : Pilot(c, pilot)
       \/ \E e \in Staff, p \in Proposals : Approve(c, e.user, p)

Spec == Init /\ [][Next]_vars

-----------------------------------------------------------------------------
(* Properties *)

IssuesGrant(op) == op.kind = "propose" \/ (op.kind = "approve" /\ op.p.kind = "grant")

\* Calls wait for each other in two ways only.  Conversions in opposite directions take
\* the rows of the treasury's accounts in opposite order; and one configuration of the
\* pilot, which comes to the control row after the rows of assets and recipients, meets
\* one grant or proposal, which comes to them after the control row.  The locks of
\* balances, which are sorted, the switch, the quotes, the roles, the treasury and the
\* ceiling never close a circle.
KnownCircles ==
  \A S \in SUBSET Calls : InCircle(S) =>
    \/ \A c \in S : call[c].op.kind = "confirm" /\ Head(call[c].todo).res[1] = "account"
    \/ /\ \E c, d \in S : S = {c, d} /\ call[c].op.kind = "pilot" /\ IssuesGrant(call[d].op)
       /\ \A c \in S : Head(call[c].todo).res[1] \in {"test-money", "asset", "recipient"}

\* Nobody is granted more test money than a tester may have, and the inventory never
\* exceeds its ceiling, although approvals are served at the same time, policies and
\* the ceiling change between proposal and approval, and one person may hold both roles.
WithinLimits ==
  /\ \A a \in Accounts : Granted(Grants(Owner[a])) <= TesterLimit
  /\ Granted(Inventory) <= ceiling
=============================================================================
