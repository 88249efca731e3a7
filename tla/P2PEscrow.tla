----------------------------- MODULE P2PEscrow -----------------------------
(***************************************************************************)
(* The peer-to-peer market (internal/p2p): a seller puts an amount into    *)
(* escrow, a buyer accepts and pays outside the exchange, the seller       *)
(* releases; the offer or the payment may expire, either party may open a  *)
(* dispute, and two officers of the treasury resolve it.                   *)
(*                                                                         *)
(* Every operation of PostgresStore is one transaction that locks the      *)
(* trade's row and the balances, hence one step.  The time it works with   *)
(* was read by the service before the transaction, and the wait for locks  *)
(* lies in between.  An operation is executed once per actor and           *)
(* idempotency key; a repetition changes nothing and is not a step.        *)
(*                                                                         *)
(* Left out: fiat terms, texts, audit and outbox rows, assets other than   *)
(* one, and accounts that are suspended in the course of a trade.          *)
(***************************************************************************)
EXTENDS Integers, FiniteSets, Functions

CONSTANTS
  Trades,      \* ids the service may draw for trades
  Accounts,    \* accounts with their customers as owners
  Owner,       \* customer of each account
  Funding,     \* active accounts of kind funding
  Amounts,     \* amounts offered
  Funds,       \* available balances at the start
  Operators,   \* users with the role treasury_operator
  Approvers,   \* users with the role treasury_approver
  MaxKeys,     \* bound on the requests of one actor
  OfferTimes,  \* expires_in_seconds of an offer
  PayTime,     \* 30 minutes
  Lag,         \* longest time between reading the clock and the commit
  BatchLimit,  \* trades that one expiry sweep takes
  MaxTime      \* bound on the clock

Users == {Owner[a] : a \in Accounts}

ASSUME P2PAssumption ==
  /\ IsFiniteSet(Trades)
  /\ Owner \in [Accounts -> Users] /\ Funding \subseteq Accounts
  /\ Amounts \subseteq Nat \ {0} /\ Funds \in [Accounts -> Nat] /\ OfferTimes \subseteq Nat \ {0}
  /\ {PayTime, BatchLimit} \subseteq Nat \ {0} /\ {Lag, MaxTime, MaxKeys} \subseteq Nat
ASSUME NamesAssumption == "nobody" \notin Accounts \cup Operators \cup Approvers

VARIABLES
  clock,       \* the time
  trade,       \* table p2p_trades
  resolution,  \* table p2p_resolution_requests, at most one row per trade
  events,      \* table p2p_events
  evidence,    \* trades with a row in p2p_evidence
  journals,    \* idempotency keys of the journals of each trade
  available,   \* the buckets of each account
  held

tables == <<trade, resolution, events, evidence, journals, available, held>>
vars   == <<clock, tables>>

Live     == {"open", "accepted", "paid", "disputed"}
Statuses == {"none"} \cup Live \cup {"released", "refunded", "cancelled", "expired"}
Refunds  == {"p2p-cancel", "p2p-expiry", "p2p-resolution-refund"}
Releases == {"p2p-release", "p2p-resolution-release"}

-----------------------------------------------------------------------------
(* Requests *)

\* Clock values a request that commits now may have read.
Now == {n \in 0..clock : clock - n <= Lag}

\* existingAction finds no event under the actor's key: the request is new.
NewAction(actor, key) == ~\E e \in events : e.actor = actor /\ e.key = key

\* Clients number their keys; a key that was used is only repeated.
Keys(actor) == {k \in 1..MaxKeys : \A j \in 1..(k - 1) : ~NewAction(actor, j)}

recordEvent(t, type, actor, key) ==
  events' = events \cup {[trade |-> t, type |-> type, actor |-> actor, key |-> key]}

isParticipant(t, a) == a \in {trade[t].seller, trade[t].buyer}

-----------------------------------------------------------------------------
(* Escrow postings *)

postEscrow(t, a, n) ==
  /\ journals' = [journals EXCEPT ![t] = @ \cup {"p2p-escrow"}]
  /\ available' = [available EXCEPT ![a] = @ - n]
  /\ held' = [held EXCEPT ![a] = @ + n]

releaseEscrow(t, prefix) ==
  LET row == trade[t] IN
  /\ row.buyer # "nobody" /\ held[row.seller] >= row.amount /\ prefix \notin journals[t]
  /\ journals' = [journals EXCEPT ![t] = @ \cup {prefix}]
  /\ held' = [held EXCEPT ![row.seller] = @ - row.amount]
  /\ available' = [available EXCEPT ![row.buyer] = @ + row.amount]

\* What a has put into escrow for the trades ts.
Offered(ts, a) == SumFunctionOnSet([t \in Trades |-> trade[t].amount], {t \in ts : trade[t].seller = a})

\* Mistake: the amount is returned to the account that asked last.
refundEscrow_Buyer(ts, prefix) ==
  /\ journals' = [t \in Trades |-> journals[t] \cup (IF t \in ts THEN {prefix} ELSE {})]
  /\ held' = [a \in Accounts |-> held[a] - Offered(ts, a)]
  /\ available' = [a \in Accounts |-> available[a] +
       SumFunctionOnSet([t \in Trades |-> trade[t].amount], {t \in ts : a = IF trade[t].buyer = "nobody" THEN trade[t].seller ELSE trade[t].buyer})]

\* One refund, or those of a sweep, in one transaction.
refundEscrow(ts, prefix) ==
  /\ \A a \in Accounts : held[a] >= Offered(ts, a)
  /\ \A t \in ts : prefix \notin journals[t]
  /\ journals' = [t \in Trades |-> journals[t] \cup (IF t \in ts THEN {prefix} ELSE {})]
  /\ held' = [a \in Accounts |-> held[a] - Offered(ts, a)]
  /\ available' = [a \in Accounts |-> available[a] + Offered(ts, a)]

-----------------------------------------------------------------------------
(* Operations of seller and buyer *)

Create(a, t, n, ttl, key) ==
  \E now \in Now :
    /\ NewAction(Owner[a], key) /\ a \in Funding
    /\ trade[t].status = "none" /\ available[a] >= n
    /\ trade' = [trade EXCEPT ![t] = [status |-> "open", seller |-> a, buyer |-> "nobody", amount |-> n,
                                      offer_expires_at |-> now + ttl, payment_deadline |-> 0]]
    /\ postEscrow(t, a, n)
    /\ recordEvent(t, "created", Owner[a], key)
    /\ UNCHANGED <<clock, resolution, evidence>>

\* The service's deadline for the payment.
PaymentDeadline(now) == now + PayTime

\* Mistake: the status of the offer is not looked at again under the lock.
Acceptable_Any(t, a, now) ==
  trade[t].seller # "nobody" /\ now < trade[t].offer_expires_at /\ Owner[a] # Owner[trade[t].seller]

Acceptable(t, a, now) ==
  /\ trade[t].status = "open" /\ now < trade[t].offer_expires_at
  /\ Owner[a] # Owner[trade[t].seller] /\ a \in Funding

Accept(a, t, key) ==
  \E now \in Now :
    /\ NewAction(Owner[a], key) /\ Acceptable(t, a, now)
    /\ trade' = [trade EXCEPT ![t].buyer = a, ![t].status = "accepted", ![t].payment_deadline = PaymentDeadline(now)]
    /\ recordEvent(t, "accepted", Owner[a], key)
    /\ UNCHANGED <<clock, resolution, evidence, journals, available, held>>

\* The status changes and nothing else (PostgresStore.transition).
transition(t, a, type, key) ==
  /\ NewAction(Owner[a], key)
  /\ trade' = [trade EXCEPT ![t].status = type]
  /\ recordEvent(t, type, Owner[a], key)
  /\ UNCHANGED <<clock, resolution, evidence, journals, available, held>>

MarkPaid(a, t, key) ==
  \E now \in Now :
    /\ trade[t].status = "accepted" /\ trade[t].buyer = a /\ now <= trade[t].payment_deadline
    /\ transition(t, a, "paid", key)

\* Mistake: the seller may release what the buyer has not marked as paid.
Releasable_Unpaid(t, a) == trade[t].status \in {"accepted", "paid", "disputed"} /\ trade[t].seller = a

Releasable(t, a) == trade[t].status = "paid" /\ trade[t].seller = a

Release(a, t, key) ==
  /\ NewAction(Owner[a], key) /\ Releasable(t, a)
  /\ releaseEscrow(t, "p2p-release")
  /\ trade' = [trade EXCEPT ![t].status = "released"]
  /\ recordEvent(t, "released", Owner[a], key)
  /\ UNCHANGED <<clock, resolution, evidence>>

Cancel(a, t, key) ==
  /\ NewAction(Owner[a], key) /\ trade[t].status = "open" /\ trade[t].seller = a
  /\ refundEscrow({t}, "p2p-cancel")
  /\ trade' = [trade EXCEPT ![t].status = "cancelled"]
  /\ recordEvent(t, "cancelled", Owner[a], key)
  /\ UNCHANGED <<clock, resolution, evidence>>

Dispute(a, t, key) ==
  /\ trade[t].status \in {"accepted", "paid"} /\ isParticipant(t, a)
  /\ transition(t, a, "disputed", key)

\* One piece for a trade stands for any number: what is stored is only read by officers.
AddEvidence(a, t, key) ==
  /\ NewAction(Owner[a], key) /\ trade[t].status = "disputed" /\ isParticipant(t, a)
  /\ t \notin evidence
  /\ evidence' = evidence \cup {t}
  /\ recordEvent(t, "evidence_added", Owner[a], key)
  /\ UNCHANGED <<clock, trade, resolution, journals, available, held>>

-----------------------------------------------------------------------------
(* The expiry sweep *)

\* Mistake: only offers expire; an accepted trade whose payment is late stays.
Due_Offers(now) == {t \in Trades : trade[t].status = "open" /\ trade[t].offer_expires_at <= now}

Due(now) ==
  {t \in Trades : \/ trade[t].status = "open" /\ trade[t].offer_expires_at <= now
                  \/ trade[t].status = "accepted" /\ trade[t].payment_deadline <= now}

\* One sweep of the server's ticker: rows that others have locked are skipped.
Expire(ts) ==
  \E now \in Now :
    /\ ts # {} /\ ts \subseteq Due(now) /\ Cardinality(ts) <= BatchLimit
    /\ refundEscrow(ts, "p2p-expiry")
    /\ trade' = [t \in Trades |-> IF t \in ts THEN [trade[t] EXCEPT !.status = "expired"] ELSE trade[t]]
    /\ events' = events \cup {[trade |-> t, type |-> "expired", actor |-> "system:expiry", key |-> t] : t \in ts}
    /\ UNCHANGED <<clock, resolution, evidence>>

-----------------------------------------------------------------------------
(* Resolution of disputes *)

hasRole(u, role) == u \in role

ProposeResolution(u, t, action, key) ==
  /\ hasRole(u, Operators) /\ NewAction(u, key)
  /\ trade[t].status = "disputed" /\ resolution[t].status # "pending"
  /\ resolution' = [resolution EXCEPT ![t] = [status |-> "pending", action |-> action,
                                              proposed_by |-> u, approved_by |-> "nobody"]]
  /\ recordEvent(t, "resolution_proposed", u, key)
  /\ UNCHANGED <<clock, trade, evidence, journals, available, held>>

Approvable(t, u) ==
  resolution[t].status = "pending" /\ resolution[t].proposed_by # u /\ trade[t].status = "disputed"

Outcome(t) == IF resolution[t].action = "force_release" THEN "released" ELSE "refunded"

ApproveResolution(u, t, key) ==
  /\ hasRole(u, Approvers) /\ NewAction(u, key) /\ Approvable(t, u)
  /\ IF Outcome(t) = "released"
     THEN releaseEscrow(t, "p2p-resolution-release")
     ELSE refundEscrow({t}, "p2p-resolution-refund")
  /\ trade' = [trade EXCEPT ![t].status = Outcome(t)]
  /\ resolution' = [resolution EXCEPT ![t].status = "approved", ![t].approved_by = u]
  /\ recordEvent(t, "resolution_approved", u, key)
  /\ UNCHANGED <<clock, evidence>>

-----------------------------------------------------------------------------
Tick == clock < MaxTime /\ clock' = clock + 1 /\ UNCHANGED tables

NoTrade      == [status |-> "none", seller |-> "nobody", buyer |-> "nobody", amount |-> 0,
                 offer_expires_at |-> 0, payment_deadline |-> 0]
NoResolution == [status |-> "none", action |-> "none", proposed_by |-> "nobody", approved_by |-> "nobody"]

Init ==
  /\ clock = 0
  /\ trade = [t \in Trades |-> NoTrade]
  /\ resolution = [t \in Trades |-> NoResolution]
  /\ events = {} /\ evidence = {}
  /\ journals = [t \in Trades |-> {}]
  /\ available = Funds /\ held = [a \in Accounts |-> 0]

Customer(a, t, key) ==
  \/ \E n \in Amounts, ttl \in OfferTimes : Create(a, t, n, ttl, key)
  \/ Accept(a, t, key)
  \/ MarkPaid(a, t, key)
  \/ Release(a, t, key)
  \/ Cancel(a, t, key)
  \/ Dispute(a, t, key)
  \/ AddEvidence(a, t, key)

Officer(u, t, key) ==
  \/ \E action \in {"force_release", "refund"} : ProposeResolution(u, t, action, key)
  \/ ApproveResolution(u, t, key)

Next ==
  \/ Tick
  \/ \E a \in Accounts, t \in Trades : \E key \in Keys(Owner[a]) : Customer(a, t, key)
  \/ \E u \in Operators \cup Approvers, t \in Trades : \E key \in Keys(u) : Officer(u, t, key)
  \/ \E ts \in SUBSET Trades : Expire(ts)

Spec == Init /\ [][Next]_vars

\* Time passes, and the ticker sweeps again and again: no row stays locked for ever.
Fairness == WF_vars(Tick) /\ \A t \in Trades : WF_vars(\E ts \in SUBSET Trades : t \in ts /\ Expire(ts))
FairSpec == Spec /\ Fairness

-----------------------------------------------------------------------------
(* Properties *)

\* The type invariant of the tables.
TypeOK ==
  /\ clock \in 0..MaxTime
  /\ trade \in [Trades -> [status: Statuses, seller: Accounts \cup {"nobody"}, buyer: Accounts \cup {"nobody"},
                           amount: Amounts \cup {0}, offer_expires_at: Nat, payment_deadline: Nat]]
  /\ resolution \in [Trades -> [status: {"none", "pending", "approved"}, action: {"none", "force_release", "refund"},
                                proposed_by: Operators \cup {"nobody"}, approved_by: Approvers \cup {"nobody"}]]
  /\ evidence \subseteq Trades
  /\ journals \in [Trades -> SUBSET ({"p2p-escrow"} \cup Refunds \cup Releases)]
  /\ available \in [Accounts -> Nat] /\ held \in [Accounts -> Nat]

\* What an account has in escrow is what its unfinished trades are about: seller,
\* buyer, sweep and officers together end each escrow once.
EscrowCovered == \A a \in Accounts : held[a] = Offered({t \in Trades : trade[t].status \in Live}, a)

Did(t, type, u) == \E e \in events : e.trade = t /\ e.type = type /\ e.actor = u

\* The buyer gets the amount only if buyer and seller both said so, or two
\* different officers after a dispute.
ReleaseJustified ==
  \A t \in Trades : trade[t].status = "released" =>
    \/ Did(t, "paid", Owner[trade[t].buyer]) /\ Did(t, "released", Owner[trade[t].seller])
    \/ \E u \in Operators, v \in Approvers :
         u # v /\ Did(t, "resolution_proposed", u) /\ Did(t, "resolution_approved", v)

\* An offer or a payment that is overdue does not keep the amount in escrow: the
\* trade expires unless it is paid, disputed or cancelled.
OverdueEnds ==
  \A t \in Trades :
    /\ (trade[t].status = "open" /\ trade[t].offer_expires_at <= clock) ~> trade[t].status # "open"
    /\ (trade[t].status = "accepted" /\ trade[t].payment_deadline <= clock) ~> trade[t].status # "accepted"

\* The escrow as its promise sees it, from the journals of each trade.
DealState(js) ==
  CASE js = {} -> "none"
    [] js = {"p2p-escrow"} -> "held"
    [] \E r \in Releases : js = {"p2p-escrow", r} -> "delivered"
    [] \E r \in Refunds : js = {"p2p-escrow", r} -> "returned"
    [] OTHER -> "broken"

Promise == INSTANCE Escrow WITH
  purse <- available,
  deal  <- [t \in Trades |-> [state |-> DealState(journals[t]), seller |-> trade[t].seller, amount |-> trade[t].amount]]

\* The market implements the escrow: every amount moves once and in full.
EscrowSpec == Promise!Spec
=============================================================================
