--------------------------- MODULE TradingGateway ---------------------------
(***************************************************************************)
(* Orders of one trading pair between the API, the ledger, the matching    *)
(* engine and the settlement consumer:                                     *)
(*   - trading.Service (internal/trading/service.go): PlaceOrder,          *)
(*     CancelOrder, TriggerConditionalOrders, run by several callers at a  *)
(*     time, each call a chain of transactions and engine requests;        *)
(*   - trading/postgres Store: every method but SettleTrade is one READ    *)
(*     COMMITTED transaction, hence one step; rows are locked FOR UPDATE   *)
(*     and balances by advisory locks;                                     *)
(*   - the settlement consumer (internal/trading/settlement.go and         *)
(*     cmd/trade-settlement), which applies the engine's trades in         *)
(*     SERIALIZABLE transactions: what one reads is its snapshot, taken    *)
(*     before it has its locks, and what it writes comes later;            *)
(*   - the engine, as it looks from outside: orders match by price and     *)
(*     time, every order id is answered once and for all, a cancel is      *)
(*     accepted while the order rests, replay publishes trades again.      *)
(*                                                                         *)
(* The engine requests travel over ZeroMQ: a caller may time out while its *)
(* message is still to be delivered, and published trades may be lost.     *)
(* Left out: validation of the request (requests are valid ones), users    *)
(* and accounts that are not active, the averages shown to users, and      *)
(* outbox events.                                                          *)
(***************************************************************************)
EXTENDS TradeMath, TradeFeed, FiniteSets, Functions, SequencesExt

CONSTANTS
  Orders,      \* the order requests; a request that is accepted becomes one row
  Request,     \* what each of them asks for
  Accounts,    \* the customers' accounts
  Funding,     \* Funding[a][x]: what account a has of asset x at the start
  Callers,     \* API calls that can be in progress at the same time
  CancelKeys,  \* idempotency keys used for cancellations
  Rules,       \* price, quantity and quote scales of the pair
  TierFeeBPS,  \* taker fee of the customers' tier in vip_tiers: holds are made with it
  MakerFeeBPS, \* fees of the engine, which it puts on its trades
  TakerFeeBPS,
  Bounds       \* how often each kind of call happens: see BoundsAssumption

Assets == {"base", "quote"}
Terminal == {"FILLED", "CANCELED", "REJECTED"}
Status == {"NONE", "CONDITIONAL", "PENDING", "PENDING_CANCEL", "OPEN", "PARTIALLY_FILLED"} \cup Terminal

\* What normalizeOrder lets through; a market order that is GTC as well, which
\* the engine rejects, is left out.
RequestType == [account: Accounts, key: STRING, side: {"BUY", "SELL"}, type: {"LIMIT", "MARKET"},
                tif: {"GTC", "IOC", "FOK"}, price: Nat, quantity: Nat \ {0}, conditional: BOOLEAN]

ASSUME RequestAssumption ==
  /\ Orders \subseteq DOMAIN Request /\ \A o \in Orders : Request[o] \in RequestType
  /\ \A o \in Orders : /\ (Request[o].type = "LIMIT") = (Request[o].price > 0)
                       /\ Request[o].type = "MARKET" => Request[o].tif # "GTC"
ASSUME FiniteAssumption == IsFiniteSet(Orders)

\* Fee tiers are checked when they are configured, and again by the table
\* vip_tiers; the engine has a table of its own.
ASSUME FeeAssumption ==
  TierFeeBPS \in 0..BasisPoints /\ MakerFeeBPS \in Int /\ absInt64(MakerFeeBPS) <= BasisPoints /\ TakerFeeBPS \in 0..BasisPoints

\* Scales are numbers of decimals.
ASSUME ScaleAssumption ==
  /\ Rules \in [PriceScale: Nat, QuantityScale: Nat, QuoteScale: Nat]
  /\ 10^Rules.QuoteScale > 0 /\ 10^(Rules.PriceScale + Rules.QuantityScale) > 0

ASSUME FundingAssumption == Funding \in [Accounts -> [Assets -> Nat]]
ASSUME BoundsAssumption ==
  Bounds \in [{"place", "cancel", "trigger", "timeout"} -> Nat]

VARIABLES
  orders,      \* table orders
  controls,    \* table engine_control_commands
  balance,     \* postings summed: account -> asset -> bucket
  fee_account, \* balance of the account of table trading_fee_accounts
  call,        \* what each caller is doing
  wire,        \* requests sent to the engine and not yet handled
  resting,     \* engine: remaining quantity of the resting orders
  arrival,     \* engine: ids in the order they came to rest
  order_replies,   \* engine: the answer to each order id
  control_replies, \* engine: the answer to each cancel command, in order of their ids
  snapshot,    \* what the settlement transaction in progress reads
  budget       \* what is left of Bounds

tables  == <<orders, controls, balance, fee_account>>
engine  == <<resting, arrival, order_replies, control_replies>>
vars    == <<tables, engine, call, wire, budget, snapshot, feedVars>>

Spend(k) == budget[k] > 0 /\ budget' = [budget EXCEPT ![k] = @ - 1]

-----------------------------------------------------------------------------
(* The ledger *)

HoldAsset(o) == IF Request[o].side = "BUY" THEN "quote" ELSE "base"

\* Trade t moves money for its buyer and its seller.
Notional(t) == QuoteAmountForScales(t.price, t.quantity, Rules)
FeeOf(t, o) == FeeAmount(Notional(t), IF o = t.maker THEN MakerFeeBPS ELSE TakerFeeBPS)
Consumes(t, o) == holdConsumed(Request[o].side, Notional(t), t.quantity, FeeOf(t, o))

Parties(t)  == {t.maker, t.taker}
Party(o, n) == o \in Parties(trades[n])

\* SUM(hold_consumed_atomic) of trade_participants, SUM(quantity_atomic) of trades.
Consumed(o, ns) ==
  SumFunctionOnSet([i \in DOMAIN ns |-> IF Party(o, ns[i]) THEN Consumes(trades[ns[i]], o) ELSE 0], DOMAIN ns)
SettledQty(o, ns) ==
  SumFunctionOnSet([i \in DOMAIN ns |-> IF Party(o, ns[i]) THEN trades[ns[i]].quantity ELSE 0], DOMAIN ns)

\* An amount goes from available to held; a negative one goes back.
Reserve(b, a, x, amount) ==
  [b EXCEPT ![a][x] = [available |-> @.available - amount, held |-> @.held + amount]]

\* releaseOrderHold: what is left of the hold goes back to available.  ns are
\* the settled trades, held is the held balance that the transaction sees.
HoldLeft(o, ns) == orders[o].hold - Consumed(o, ns)
Releasable(o, held, ns) == orders[o].released \/ (HoldLeft(o, ns) >= 0 /\ HoldLeft(o, ns) <= held)
HeldFor(o) == balance[Request[o].account][HoldAsset(o)].held
Release(o, b, ns) ==
  IF orders[o].released THEN b
  ELSE Reserve(b, Request[o].account, HoldAsset(o), -HoldLeft(o, ns))

-----------------------------------------------------------------------------
(* PlaceOrder *)

Idle == [op |-> "idle"]
\* Orders to dispatch one after the other; the first is with the engine.
Dispatching(os) == [op |-> "order", queue |-> os]
WaitsFor(c, o)  == call[c].op = "order" /\ Head(call[c].queue) = o

OrderMessage(o) == [kind |-> "order", order |-> o]

\* reservation() and the all-available hold of a market buy.
HoldAmount(o) ==
  LET r == Request[o]
  IN CASE r.side = "SELL"                      -> r.quantity
       [] r.side = "BUY" /\ r.type = "MARKET" -> balance[r.account]["quote"].available
       [] OTHER -> LimitBuyHold(r.price, r.quantity, TierFeeBPS, Rules)

\* The row of a request is the one stored under its idempotency key.
SameKey(o) == {p \in Orders : /\ orders[p].status # "NONE"
                              /\ Request[p].key = Request[o].key
                              /\ Request[p].account = Request[o].account}

\* Mistake: the balance is not checked against the hold.
Affordable_Unchecked(o) == HoldAmount(o) > 0

Affordable(o) ==
  HoldAmount(o) \in 1..balance[Request[o].account][HoldAsset(o)].available

\* CreateOrder inserts the row and the hold; a PENDING order is dispatched.
PlaceNew(c, o) ==
  /\ call[c] = Idle
  /\ SameKey(o) = {}
  /\ pair_status = "active"
  /\ Affordable(o)
  /\ Spend("place")
  /\ orders' = [orders EXCEPT ![o] =
       [status |-> IF Request[o].conditional THEN "CONDITIONAL" ELSE "PENDING",
        filled |-> 0, hold |-> HoldAmount(o), released |-> FALSE]]
  /\ balance' = Reserve(balance, Request[o].account, HoldAsset(o), HoldAmount(o))
  /\ IF Request[o].conditional
     THEN UNCHANGED <<call, wire>>
     ELSE /\ call' = [call EXCEPT ![c] = Dispatching(<<o>>)]
          /\ wire' = wire \cup {OrderMessage(o)}
  /\ UNCHANGED <<controls, fee_account, engine, feedVars, snapshot>>

\* The retry of a request finds its row, and dispatches it again if it is PENDING.
PlaceAgain(c, o) ==
  /\ call[c] = Idle
  /\ orders[o].status = "PENDING"
  /\ Spend("place")
  /\ call' = [call EXCEPT ![c] = Dispatching(<<o>>)]
  /\ wire' = wire \cup {OrderMessage(o)}
  /\ UNCHANGED <<tables, engine, feedVars, snapshot>>

(* ApplyEngineStatus *)

Transitions ==
  {"PENDING"} \X {"OPEN", "PARTIALLY_FILLED", "FILLED", "CANCELED", "REJECTED"}
  \cup {"OPEN"} \X {"PARTIALLY_FILLED", "FILLED", "CANCELED", "REJECTED"}
  \cup {"PARTIALLY_FILLED", "PENDING_CANCEL"} \X {"FILLED", "CANCELED"}

validTransition(current, next) == current = next \/ <<current, next>> \in Transitions

Answered(c, o) == WaitsFor(c, o) /\ order_replies[o].status # "NONE"

ReleasedBy(status) == status \in {"REJECTED", "CANCELED"}

StatusApplies(o, reply) ==
  /\ validTransition(orders[o].status, reply.status)
  /\ ReleasedBy(reply.status) => Releasable(o, HeldFor(o), settled)

\* The answer of the engine becomes the state of the row.
ApplyEngineStatus(c, o) ==
  LET reply == order_replies[o]
  IN /\ Answered(c, o)
     /\ StatusApplies(o, reply)
     /\ LET rest == Tail(call[c].queue)
        IN IF rest = <<>> THEN call' = [call EXCEPT ![c] = Idle] /\ UNCHANGED wire
           ELSE /\ call' = [call EXCEPT ![c] = Dispatching(rest)]
                /\ wire' = wire \cup {OrderMessage(Head(rest))}
     /\ IF orders[o].status = reply.status /\ reply.status \in Terminal
        THEN UNCHANGED <<orders, balance>>
        ELSE /\ orders' = [orders EXCEPT ![o].status = reply.status, ![o].filled = reply.filled,
                                         ![o].released = @ \/ ReleasedBy(reply.status)]
             /\ balance' = IF ReleasedBy(reply.status) THEN Release(o, balance, settled) ELSE balance
     /\ UNCHANGED <<controls, fee_account, engine, feedVars, snapshot, budget>>

\* An answer the row does not admit is an error to the caller and changes nothing.
EngineResponseError(c, o) ==
  /\ Answered(c, o)
  /\ ~StatusApplies(o, order_replies[o])
  /\ call' = [call EXCEPT ![c] = Idle]
  /\ UNCHANGED <<tables, engine, wire, feedVars, snapshot, budget>>

\* No answer in time, or the late answer to another request: the caller gives
\* up, and its message may still reach the engine.
Timeout(c) ==
  /\ call[c] # Idle
  /\ Spend("timeout")
  /\ call' = [call EXCEPT ![c] = Idle]
  /\ UNCHANGED <<tables, engine, wire, feedVars, snapshot>>

\* TriggerConditionalOrders: the mark price reaches the triggers of the orders
\* os, which are activated in one transaction and dispatched one by one.
TriggerConditionalOrders(c, os) ==
  /\ call[c] = Idle
  /\ os # <<>>
  /\ \A o \in Range(os) : orders[o].status = "CONDITIONAL"
  /\ Spend("trigger")
  /\ orders' = [o \in Orders |-> IF o \in Range(os) THEN [orders[o] EXCEPT !.status = "PENDING"] ELSE orders[o]]
  /\ call' = [call EXCEPT ![c] = Dispatching(os)]
  /\ wire' = wire \cup {OrderMessage(Head(os))}
  /\ UNCHANGED <<controls, balance, fee_account, engine, feedVars, snapshot>>

-----------------------------------------------------------------------------
(* CancelOrder *)

\* Every call makes a command id of its own.
CommandIds   == 1..Bounds["cancel"]
NewCommandId == Bounds["cancel"] - budget["cancel"] + 1

CancelMessage(o, id) == [kind |-> "cancel", order |-> o, id |-> id]
Canceling(o, k, id)  == [op |-> "cancel", order |-> o, key |-> k, id |-> id]

ControlOf(o, k) == {r \in controls : r.key = k /\ Request[r.order].account = Request[o].account}

RequestCancel(c, o, k) ==
  /\ call' = [call EXCEPT ![c] = Canceling(o, k, NewCommandId)]
  /\ wire' = wire \cup {CancelMessage(o, NewCommandId)}

\* PrepareCancel of an order that is in the engine, or on its way to it.
PrepareCancel(c, o, k) ==
  /\ call[c] = Idle
  /\ ControlOf(o, k) = {}
  /\ orders[o].status \in {"PENDING", "OPEN", "PARTIALLY_FILLED"}
  /\ Spend("cancel")
  /\ controls' = controls \cup {[id |-> NewCommandId, order |-> o, key |-> k, status |-> "pending"]}
  /\ orders' = [orders EXCEPT ![o].status = "PENDING_CANCEL"]
  /\ RequestCancel(c, o, k)
  /\ UNCHANGED <<balance, fee_account, engine, feedVars, snapshot>>

\* A conditional order is not in the engine: it is canceled at once.
CancelConditional(c, o, k) ==
  /\ call[c] = Idle
  /\ ControlOf(o, k) = {}
  /\ orders[o].status = "CONDITIONAL"
  /\ Releasable(o, HeldFor(o), settled)
  /\ Spend("cancel")
  /\ controls' = controls \cup {[id |-> NewCommandId, order |-> o, key |-> k, status |-> "dispatched"]}
  /\ balance' = Release(o, balance, settled)
  /\ orders' = [orders EXCEPT ![o].status = "CANCELED", ![o].released = TRUE]
  /\ UNCHANGED <<fee_account, call, wire, engine, feedVars, snapshot>>

\* Without a new row, under a key already used for the order or while a cancel
\* is pending, the engine is asked again under the new command id.
CancelAgain(c, o, k) ==
  /\ call[c] = Idle
  /\ \/ \E r \in ControlOf(o, k) : r.order = o /\ orders[o].status # "CANCELED"
     \/ ControlOf(o, k) = {} /\ orders[o].status = "PENDING_CANCEL"
  /\ Spend("cancel")
  /\ RequestCancel(c, o, k)
  /\ UNCHANGED <<tables, engine, feedVars, snapshot>>

AckReceived(c) == call[c].op = "cancel" /\ control_replies[call[c].id] # "none"

AckApplies(c) ==
  /\ control_replies[call[c].id] = "accepted"
  /\ \E r \in controls : r.id = call[c].id
  /\ orders[call[c].order].status = "PENDING_CANCEL"
  /\ Releasable(call[c].order, HeldFor(call[c].order), settled)

ApplyCancelAck(c) ==
  /\ AckReceived(c)
  /\ AckApplies(c)
  /\ LET o == call[c].order
     IN /\ balance' = Release(o, balance, settled)
        /\ orders' = [orders EXCEPT ![o].status = "CANCELED", ![o].released = TRUE]
        /\ controls' = {IF r.id = call[c].id THEN [r EXCEPT !.status = "dispatched"] ELSE r : r \in controls}
  /\ call' = [call EXCEPT ![c] = Idle]
  /\ UNCHANGED <<fee_account, engine, wire, feedVars, snapshot, budget>>

\* A refused cancel, an unknown command id, an order that is not PENDING_CANCEL: nothing changes.
CancelError(c) ==
  /\ AckReceived(c)
  /\ ~AckApplies(c)
  /\ call' = [call EXCEPT ![c] = Idle]
  /\ UNCHANGED <<tables, engine, wire, feedVars, snapshot, budget>>

-----------------------------------------------------------------------------
(* The engine *)

Compatible(o, m) ==
  /\ resting[m] > 0
  /\ Request[m].side # Request[o].side
  /\ \/ Request[o].type = "MARKET"
     \/ IF Request[o].side = "BUY" THEN Request[m].price <= Request[o].price
                                   ELSE Request[m].price >= Request[o].price

Better(o, m, n) ==
  IF Request[o].side = "BUY" THEN Request[m].price < Request[n].price
                             ELSE Request[m].price > Request[n].price

\* Order o meets m before n: best price first, then first come first served.
Before(o, m, n) ==
  \/ Better(o, m, n)
  \/ /\ Request[m].price = Request[n].price
     /\ \E j \in DOMAIN arrival : \E i \in 1..(j - 1) : arrival[i] = m /\ arrival[j] = n

\* What the orders ms have on offer.
Offer(ms) == SumFunctionOnSet(resting, ms)

Opposite(o)  == {m \in Orders : Compatible(o, m)}
Ahead(o, m)  == Offer({n \in Opposite(o) : Before(o, n, m)})

\* A fill-or-kill order that cannot be filled meets nobody.
Killed(o) == Request[o].tif = "FOK" /\ Offer(Opposite(o)) < Request[o].quantity

\* The makers that the order meets before it is filled, and what it takes of each.
Met(o)     == {m \in Opposite(o) : ~Killed(o) /\ Ahead(o, m) < Request[o].quantity}
Taken(o, m) == IF resting[m] < Request[o].quantity - Ahead(o, m) THEN resting[m] ELSE Request[o].quantity - Ahead(o, m)

FillOf(o, m) == [maker |-> m, taker |-> o, price |-> Request[m].price, quantity |-> Taken(o, m)]

\* What is left of the order.
Left(o) ==
  IF Killed(o) THEN Request[o].quantity
  ELSE IF Offer(Opposite(o)) < Request[o].quantity THEN Request[o].quantity - Offer(Opposite(o)) ELSE 0

\* The status an order has after matching.  What an order that may not rest has
\* left is discarded; it is rejected if nothing was filled.
ReplyStatus(o, left) ==
  LET untouched == left = Request[o].quantity
  IN CASE left = 0                              -> "FILLED"
       [] left # 0 /\ Request[o].tif = "GTC" -> IF untouched THEN "OPEN" ELSE "PARTIALLY_FILLED"
       [] OTHER                                 -> IF untouched THEN "REJECTED" ELSE "CANCELED"

\* ms are the makers in the order in which they are met.
EngineMatches(o, ms) ==
  LET status == ReplyStatus(o, Left(o))
  IN /\ OrderMessage(o) \in wire
     /\ order_replies[o].status = "NONE"
     /\ \A j \in DOMAIN ms : \A i \in 1..(j - 1) : Before(o, ms[i], ms[j])
     /\ wire' = wire \ {OrderMessage(o)}
     /\ Emit([i \in DOMAIN ms |-> FillOf(o, ms[i])])
     /\ resting' = [m \in Orders |-> IF m \in Met(o) THEN resting[m] - Taken(o, m)
                                     ELSE IF m = o /\ status \notin Terminal THEN Left(o)
                                     ELSE resting[m]]
     /\ arrival' = IF status \in Terminal THEN arrival ELSE Append(arrival, o)
     /\ order_replies' = [order_replies EXCEPT ![o] =
          [status |-> status, filled |-> Request[o].quantity - Left(o)]]
     /\ UNCHANGED <<tables, control_replies, call, budget, snapshot>>

\* The pool of the book is full, or a post-only order would have taken.
EngineRejects(o) ==
  /\ OrderMessage(o) \in wire
  /\ order_replies[o].status = "NONE"
  /\ wire' = wire \ {OrderMessage(o)}
  /\ order_replies' = [order_replies EXCEPT ![o] = [status |-> "REJECTED", filled |-> 0]]
  /\ UNCHANGED <<tables, resting, arrival, control_replies, call, feedVars, snapshot, budget>>

\* An id that was answered gets the same answer again.
EngineAnswersAgain(o) ==
  /\ OrderMessage(o) \in wire
  /\ order_replies[o].status # "NONE"
  /\ wire' = wire \ {OrderMessage(o)}
  /\ UNCHANGED <<tables, engine, call, feedVars, snapshot, budget>>

EngineCancels(o, id) ==
  /\ CancelMessage(o, id) \in wire
  /\ wire' = wire \ {CancelMessage(o, id)}
  /\ control_replies' = [control_replies EXCEPT ![id] = IF resting[o] > 0 THEN "accepted" ELSE "refused"]
  /\ resting' = [resting EXCEPT ![o] = 0]
  /\ UNCHANGED <<tables, arrival, order_replies, call, feedVars, snapshot, budget>>

-----------------------------------------------------------------------------
(* SettleTrade, on the event of trade n *)

settleableStatus(status) == status \in {"PENDING", "PENDING_CANCEL", "OPEN", "PARTIALLY_FILLED", "FILLED"}

Buyer(t)  == IF Request[t.maker].side = "BUY" THEN t.maker ELSE t.taker
Seller(t) == IF Request[t.maker].side = "BUY" THEN t.taker ELSE t.maker

\* Mistake: the fee of the buyer is taken from available instead of the hold.
TradePostings_FeeAvailable(t) ==
  LET b == Request[Buyer(t)].account   buyerFee  == FeeOf(t, Buyer(t))
      s == Request[Seller(t)].account  sellerFee == FeeOf(t, Seller(t))
  IN <<[account |-> s, asset |-> "base",  bucket |-> "held",      amount |-> -t.quantity],
       [account |-> b, asset |-> "base",  bucket |-> "available", amount |-> t.quantity],
       [account |-> b, asset |-> "quote", bucket |-> "held",      amount |-> -Notional(t)],
       [account |-> b, asset |-> "quote", bucket |-> "available", amount |-> -buyerFee],
       [account |-> s, asset |-> "quote", bucket |-> "available", amount |-> Notional(t) - sellerFee]>>

\* What a trade changes in the balances.  A fee is debited from the hold of the
\* buyer and from what the seller gets; a rebate is credited to available.
TradePostings(t) ==
  LET b == Request[Buyer(t)].account   buyerFee  == FeeOf(t, Buyer(t))
      s == Request[Seller(t)].account  sellerFee == FeeOf(t, Seller(t))
  IN <<[account |-> s, asset |-> "base",  bucket |-> "held",      amount |-> -t.quantity],
       [account |-> b, asset |-> "base",  bucket |-> "available", amount |-> t.quantity],
       [account |-> b, asset |-> "quote", bucket |-> "held",      amount |-> -Consumes(t, Buyer(t))],
       [account |-> b, asset |-> "quote", bucket |-> "available", amount |-> IF buyerFee < 0 THEN -buyerFee ELSE 0],
       [account |-> s, asset |-> "quote", bucket |-> "available", amount |-> Notional(t) - sellerFee]>>

\* The sum of the postings ps to one balance.
Total(ps, a, x, bucket) ==
  SumFunctionOnSet([i \in DOMAIN ps |-> IF ps[i].account = a /\ ps[i].asset = x /\ ps[i].bucket = bucket
                                        THEN ps[i].amount ELSE 0], DOMAIN ps)

Post(b, ps) ==
  [a \in Accounts |-> [x \in Assets |->
     [available |-> b[a][x].available + Total(ps, a, x, "available"),
      held      |-> b[a][x].held + Total(ps, a, x, "held")]]]

\* updateOrderFromSettledTrades, and the release of an order that is filled.
Settled(o, ns) ==
  LET filled == SettledQty(o, ns)
      done   == filled = Request[o].quantity
  IN [orders[o] EXCEPT !.filled = filled, !.released = @ \/ done,
                       !.status = IF done THEN "FILLED" ELSE "PARTIALLY_FILLED"]

ReleaseFilled(o, b, ns) == IF SettledQty(o, ns) = Request[o].quantity THEN Release(o, b, ns) ELSE b

\* ensureOrderSettlementCapacity
WithinCapacity(t, o) == SettledQty(o, settled) + t.quantity <= Request[o].quantity

\* What the transaction of trade n reads of the orders and of the balances that
\* pay for it.  Nobody else writes the trades.
NoSnapshot == [attempt |-> 0]
Snapshot(n, attempt) ==
  [attempt |-> attempt, rows |-> [o \in Parties(trades[n]) |-> orders[o]],
                        held |-> [o \in Parties(trades[n]) |-> HeldFor(o)]]

MaxAttempts == 3

\* settleTradeOnce: the first statement fixes the snapshot.
BeginSettlement(n) ==
  /\ snapshot = NoSnapshot
  /\ consumer = "running" /\ feed # <<>> /\ Head(feed) = n
  /\ IsNext(n)
  /\ snapshot' = Snapshot(n, 1)
  /\ UNCHANGED <<tables, call, wire, engine, budget, feedVars>>

\* An order that was written after the snapshot cannot be locked.
Lockable(n) == \A o \in Parties(trades[n]) : orders[o] = snapshot.rows[o]

\* A serialization failure: the orders cannot be locked, or the database finds
\* another reason.  The transaction begins again.
RetrySettlement(n) ==
  /\ snapshot.attempt \in 1..(MaxAttempts - 1)
  /\ IsNext(n)
  /\ snapshot' = Snapshot(n, snapshot.attempt + 1)
  /\ UNCHANGED <<tables, call, wire, engine, budget, feedVars>>

\* The conditions under which the transaction of trade n commits, if s is its
\* snapshot: the advisory locks it has by then do not renew what it reads.
Settles(n, s) ==
  LET t  == trades[n]
      ns == Append(settled, n)
  IN /\ Notional(t) > 0
     /\ \A o \in Parties(t) :
          /\ settleableStatus(s.rows[o].status)
          /\ s.held[o] >= Consumes(t, o)
          /\ WithinCapacity(t, o)
          /\ SettledQty(o, ns) = Request[o].quantity => Releasable(o, s.held[o] - Consumes(t, o), ns)

\* The postings change the balances as they are, not as they were read.
SettleTrade(n) ==
  LET t  == trades[n]
      ns == Append(settled, n)
  IN /\ snapshot # NoSnapshot
     /\ Settle(n)
     /\ Lockable(n)
     /\ Settles(n, snapshot)
     /\ snapshot' = NoSnapshot
     /\ balance' = ReleaseFilled(t.taker, ReleaseFilled(t.maker, Post(balance, TradePostings(t)), ns), ns)
     /\ fee_account' = fee_account + FeeOf(t, t.maker) + FeeOf(t, t.taker)
     /\ orders' = [orders EXCEPT ![t.maker] = Settled(t.maker, ns), ![t.taker] = Settled(t.taker, ns)]
     /\ UNCHANGED <<controls, call, wire, engine, budget>>

\* The consumer ends with the error, or when the attempts are used up, and will
\* meet the trade again.
SettleRefused(n) ==
  /\ snapshot # NoSnapshot
  /\ Refuse(n)
  /\ \/ Lockable(n) /\ ~Settles(n, snapshot)
     \/ snapshot.attempt = MaxAttempts
  /\ snapshot' = NoSnapshot
  /\ UNCHANGED <<tables, call, wire, engine, budget, faults>>

\* The steps of the feed that move no money.  An event that is being settled is
\* not lost any more; a transaction ends with its process.
FeedOnly ==
  /\ \/ \E n \in DOMAIN trades : Duplicate(n) \/ GapReplayed(n) \/ GapReplayFails(n) \/ OtherReplay(n)
     \/ snapshot = NoSnapshot /\ LoseEvent
     \/ ConsumerCrash \/ ConsumerRestart
  /\ snapshot' = IF consumer' = "down" THEN NoSnapshot ELSE snapshot
  /\ UNCHANGED <<tables, call, wire, engine, budget>>

-----------------------------------------------------------------------------
Init ==
  /\ orders = [o \in Orders |-> [status |-> "NONE", filled |-> 0, hold |-> 0, released |-> FALSE]]
  /\ controls = {}
  /\ balance = [a \in Accounts |-> [x \in Assets |-> [available |-> Funding[a][x], held |-> 0]]]
  /\ fee_account = 0
  /\ call = [c \in Callers |-> Idle]
  /\ wire = {}
  /\ resting = [o \in Orders |-> 0]
  /\ arrival = <<>>
  /\ order_replies = [o \in Orders |-> [status |-> "NONE", filled |-> 0]]
  /\ control_replies = [i \in CommandIds |-> "none"]
  /\ budget = Bounds
  /\ snapshot = NoSnapshot
  /\ FeedInit

Gateway ==
  \E c \in Callers :
    \/ Timeout(c)
    \/ ApplyCancelAck(c)
    \/ CancelError(c)
    \/ \E S \in SUBSET {o \in Orders : Request[o].conditional} :
         \E os \in SetToSeqs(S) : TriggerConditionalOrders(c, os)
    \/ \E o \in Orders :
         \/ PlaceNew(c, o)
         \/ PlaceAgain(c, o)
         \/ ApplyEngineStatus(c, o)
         \/ EngineResponseError(c, o)
         \/ \E k \in CancelKeys :
              PrepareCancel(c, o, k) \/ CancelConditional(c, o, k) \/ CancelAgain(c, o, k)

Engine ==
  \E o \in Orders :
    \/ \E ms \in SetToSeqs(Met(o)) : EngineMatches(o, ms)
    \/ EngineRejects(o)
    \/ EngineAnswersAgain(o)
    \/ \E id \in CommandIds : EngineCancels(o, id)

Settlement ==
  \/ \E n \in DOMAIN trades : BeginSettlement(n) \/ RetrySettlement(n) \/ SettleTrade(n) \/ SettleRefused(n)
  \/ FeedOnly

\* Nothing is in progress: the processes wait for requests and events.
Wait ==
  /\ \A c \in Callers : call[c] = Idle
  /\ wire = {} /\ feed = <<>> /\ consumer = "running"
  /\ UNCHANGED vars

Next == Gateway \/ Engine \/ Settlement \/ Wait

Spec == Init /\ [][Next]_vars

-----------------------------------------------------------------------------
(* Correctness *)

\* The type invariant of the tables, the calls and the channels.
TypeOK ==
  /\ orders \in [Orders -> [status: Status, filled: Nat, hold: Nat, released: BOOLEAN]]
  /\ controls \subseteq [id: CommandIds, order: Orders, key: CancelKeys, status: {"pending", "dispatched"}]
  /\ balance \in [Accounts -> [Assets -> [available: Int, held: Int]]]
  /\ fee_account \in Int
  /\ \A c \in Callers : call[c].op \in {"idle", "order", "cancel"}
  /\ resting \in [Orders -> Nat]
  /\ feed \in Seq(DOMAIN trades)

\* What account a should have held of asset x: what is left of the holds of
\* its orders that were not released.
OpenHolds(a, x) ==
  SumFunctionOnSet([o \in Orders |-> IF Request[o].account = a /\ HoldAsset(o) = x /\ ~orders[o].released
                                     THEN HoldLeft(o, settled) ELSE 0], Orders)

\* The held balance of an account is exactly what its open orders have reserved
\* and not yet spent: CreateOrder, settlement and releaseOrderHold, each with
\* its own idea of the hold, never let the two drift apart.
HeldIsReserved ==
  \A a \in Accounts, x \in Assets : balance[a][x].held = OpenHolds(a, x)

\* No customer can spend what he does not have: whatever the order in which
\* answers, cancellations and trades of several orders of one account are
\* applied, and although trades are settled on balances read before the locks,
\* what is available is never negative, and no seller delivers more than he holds.
NeverOverdrawn ==
  \A a \in Accounts :
    /\ \A x \in Assets : balance[a][x].available >= 0
    /\ balance[a]["base"].held >= 0

\* Nothing held is spent twice: the locks of LockAccountAsset make a settlement
\* see what others have released before it.
HeldNeverNegative ==
  \A a \in Accounts, x \in Assets : balance[a][x].held >= 0

\* The trade the consumer needs next can be settled by a transaction that begins
\* now: replay always gets past it.
NextTradeSettles == last < Len(trades) => Settles(last + 1, Snapshot(last + 1, 1))
=============================================================================
