# Limiance exchange backend: TLA+ specifications and proofs

This directory holds a formal model of the parts of the exchange in which a mistake loses, invents
or misdirects money, or lets in somebody who should stay out: the C++ matching engine and its journal, the Go
services around it, the ledger operations of customers and staff, the event pipeline, and authentication. The modules are
translated from the source (`PROJECT.json`, `"map"`, names the lines of every definition), checked
with TLC on small instances, and, where a proof is possible, proved with TLAPS for every value of
the constants.

    tlc -workers 2 -config MCOrderBook.cfg MCOrderBook     # a run
    tlapm OrderBookProofs.tla                              # a proof

## 1. Inventory

### 1.1 The parts, their state and operations

| Part | State | Operations that change it |
|---|---|---|
| Order book (`engine/src/order_book.cpp`) | pool of order slots with a free stack, id index, ids seen, two price maps of FIFO queues, live counter, book sequence | `submit` (reject / accept, match, rest or discard), `cancel` |
| Engine worker and journal (`engine/src/symbol_engine.cpp`, `journal.cpp`, `main.cpp`) | journal file, replies by command id, the book | serve an order, cancel, snapshot or replay; append a record; publish; restore after a crash |
| Trading service (`internal/trading/service.go`, `postgres/store.go`) | `orders`, `engine_commands`, `engine_control_commands`, journals and postings | `PlaceOrder`, `CancelOrder`, `TriggerConditionalOrders`, application of engine answers |
| Trade settlement (`internal/trading/settlement.go`, `postgres/settlement.go`) | `trades`, `engine_trade_inbox`, `engine_symbol_sequences`, `trading_pairs.status` | settle the next trade, ignore a known one, halt on a gap, ask for a replay, resume |
| Market maker (`internal/marketmaker`) | control row, pair configurations, activation requests, command log, its quotes | propose and approve an activation, emergency stop, the cycle that replaces quotes |
| Deposits and custody addresses (`internal/deposits`, `internal/custody`) | `custody_wallets`, `deposit_addresses`, webhook receipts, `deposits`, journals | tell an address, store a report, apply it, credit, approve, reconcile |
| Withdrawals (`internal/withdrawals`, `internal/datamanager/withdrawal_*.go`) | `withdrawals`, `withdrawal_approvals`, `withdrawal_dispatches`, capacity reservations, journals, operational controls | request, approve, cancel, dispatch, acknowledge, custody update, reconcile, kill switch |
| Peer-to-peer market (`internal/p2p`) | trades with status and deadlines, events by idempotency key, resolutions, journals | offer, accept, pay, release, cancel, dispute, evidence, resolve, expire |
| Transfers, conversions, roles (`internal/transfers`, `internal/conversions`, `internal/datamanager`) | balances as sums of postings, quotes, pair policies, switches, roles, subaccounts | transfer, quote, confirm, switch, grant or revoke a role |
| Test money and inventory (`internal/testmoney`, `internal/marketmaker/treasury.go`) | policies, requests, approvals, ceiling, postings | configure, propose, approve |
| Event pipeline (`internal/outbox`, `internal/eventrouter`, `internal/platform/queue`) | `outbox_events` with leases, queues | enqueue, lease, publish, mark, route, delete |
| Notifications (`internal/notifications`) | rows, read marks, devices, deliveries | create, deliver, mark, read, register a device |
| Authentication (`internal/auth`, `internal/platform/httpserver`) | user row, codes, challenges, sessions, step-up tokens, API keys, nonces | register, verify, sign in, step up, reset, freeze, signed request |
| Market data, KYC, fees, HTTP, configuration, tools | their tables | see `PROJECT.json`, `"components"` |

### 1.2 How they interact

The API process runs any number of `trading.Service` calls at once. A call is a chain of database
transactions and one ZeroMQ request to the engine in between; the request may time out while its
message is still to be handled. The engine answers commands on one socket and publishes trades on
another, which may lose them. The settlement process receives trades, and its transaction moves
money that the service reserved. So one order is changed by three parties (a caller, a retry, the
settlement) that never wait for each other. The market maker is one more caller, in every API process.

A withdrawal is changed by the customer, two approvers, one or more processes of `cmd/withdrawals` and the worker that
handles the custody provider's webhooks; the provider is called between two transactions. A deposit is changed by the same worker, by an officer and
by a reconciliation tool. Webhooks, mails and notifications travel through the outbox table, a shared queue, the router and a queue per worker, each step of
which may be repeated.

Everything shared is in PostgreSQL. Where a transaction takes the lock of its row first, it is one step of the model; where
several locks are taken one by one and their order matters (Wallet, Issuance), taking each lock is a step; where the code uses single
statements without a transaction (SignIn), each statement is a step.

### 1.3 What is hard, and what makes each part correct

* **Order book.** Long sequences of legal commands, at full capacity, with slots reused. Correct: never
  crossed, price-time priority, fill-or-kill is all or nothing, pool, index and queues
  agree, reported quantities add up.
* **Engine worker.** A crash or a failed write between any two journal records. Correct: a restart rebuilds what was
  answered and published; no sequence is used for two trades.
* **Settlement.** Lost, repeated and replayed events. Correct: every trade once and in order, the pair halted
  while a gap is open, and resumed afterwards.
* **Trading service.** Answer, trades, cancels and retries in any order; a settlement checks balances that are older than its locks. Correct: what is held is
  what open orders reserve, nothing is overdrawn.
* **Market maker.** A cycle works with a control and a balance it read before; a cancellation that is not answered is not tried again. Correct: live quoting is funded and was
  released by two people, after a stop every quote of the account is cancelled, one process quotes, the inventory limit is exceeded by a bounded amount only.
* **Deposits.** Reports out of order, repeated, applied by several parties. Correct: one address, one credit for a row, no confirmed transfer forgotten.
* **Withdrawals.** Crashes around an external call, webhooks early, late, twice or never, several processes. Correct: paid at
  most once and only out of deposits, and the ledger says what the provider did.
* **Peer-to-peer market.** Buyer, seller, sweep and officers act on one escrow. Correct: the amount moves once and in full, to the buyer only
  with a reason.
* **Transfers, conversions, roles, issued money.** Concurrent transactions, each of which checks a sum it does not see change. Correct: nothing overdrawn, limits kept, a
  stop holds, an administrator remains.
* **Event pipeline.** Stops between any two calls, leases that end too early, batches that end at a message that cannot be processed. Correct: at least once, and whoever is concerned is told.
* **Authentication.** Statements of two clients interleave. Correct: a freeze, a new password and a used nonce take effect.

`PROJECT.json`, `"hazards"`, lists each such place at its line, with the properties that would catch it going wrong.

## 2. Modules and their correspondence to the code

**OrderBook.** One book. Variables are the members of class `OrderBook` (`storage`, `free_slots`, `by_id`, `seen_ids`,
`levels`, `live_orders`, `book_sequence`) and the output so far (`trades`, `statuses`). One worker thread owns a
book, but `submit()` is split into one action per iteration of the matching loop (`SubmitReject`, `SubmitAccept`,
`MatchOne`, and the endings), so that invariants hold between two fills too. `U64Max` stands for
2^64 - 1. User ids, fee tiers and time stamps are left out: no decision depends on them.

**SymbolEngine.** One partition: the journal file, the tables of replies, and the worker. Each record appended is a step; the
process may crash before, inside or after it (a fragment at the end of the file), or the write may fail. `Restart`,
`RestartRefused` and `RestoreDone` are `recover()` and `restore()`. The book is abstracted to unit orders at one
price: what matters is that its output is a function of the commands, which is what `restore()` compares.

**TradeFeed.** The way of a trade from the engine to the ledger, a trade being its number: `Settle`, `Duplicate`,
`GapReplayed`, `GapReplayFails`, `Refuse` are the outcomes of `SettleTrade` for one event and what `SettlementConsumer.Run` does with them;
`LoseEvent`, `ConsumerCrash` and `OtherReplay` (a replay asked for by the market data
consumer, which all subscribers see) are the environment.

**TradeMath.** The integer arithmetic of holds, notional amounts and fees, with the rounding of the code.

**TradingGateway** extends TradeFeed and TradeMath: it composes callers, store, engine and settlement consumer. `call[c]` is what a
caller waits for; each store method is an action; `EngineMatches` is the engine seen from outside: an order meets the compatible makers of which less than its quantity
is on offer ahead in price-time order (`Met`, `Ahead`), takes of each what is left to take (`Taken`), and is answered once. A settlement is a SERIALIZABLE transaction of several steps: its first statement takes the snapshot from which it later reads
trade, orders and balances; the advisory locks come after it, so other callers, which are READ COMMITTED, may commit in between; then it posts on the balances as they are, or is aborted and tried again. The fee a
hold was computed with (the customer's tier) and the fees the engine charges are separate constants.

**MarketMaker.** Requests of officers (`Propose`, `Approve`, `EmergencyStop`) are transactions; a cycle of a process is the sequence of reads,
claims of commands, cancellations and placements in `service.go`, and may fail at each; the pairs a cycle has left are a set taken in order (`NextIn`). The control row names the account that quotes, and an approved
configuration may replace it. A cancellation is two steps: the request to cancel is stored (`AskToCancel`), then the engine answers or not. `quotes` are the orders a cycle still lists (PENDING, OPEN, PARTIALLY_FILLED), `canceling` those in
the book that are PENDING_CANCEL and never listed again, `unanswered` those of them that were given up. `Fill` is the market and takes either.

**Deposits.** One transfer of one customer. `request[r]` is where a request for the address stands, `receipts` the stored webhooks; a row is keyed by what
identifies it (`Rows`: the provider's id, or the chain's hash that the tool uses, and the `blockchain_index`, which the tool leaves empty). A report that the worker cannot read stays in the queue and may keep it from the others (`Blocked`).

**Withdrawals.** The withdrawals of one customer with the processes of `cmd/withdrawals`, the webhook worker and the custody
provider. `process[p].op` is the point between two transactions at which a process stands, `item` the withdrawal it works on and `others` the
rest of the list it read, which it takes in the order of the rows. The ledger
is the set of journals of each withdrawal. `Cost` separates a fee in the asset itself from one in another asset, as `BeginWithdrawalDispatch` does.
The provider is external and modelled from how the code uses it: one transaction per external id, lookups, webhooks.

**Escrow** is what the peer-to-peer market promises: a deal takes an amount from the seller's purse and delivers or returns it once. **P2PEscrow**
is the market: every method of the store is an action with its guard, its status and its journals. `EscrowSpec` maps the journals of a trade to the state of
its deal and checks that the market implements the promise. Evidence of a dispute is stored once for a trade: no step depends on how much of it there is.

**Wallet** models transfers, conversions, roles and switches as PostgreSQL transactions: a call holds locks, has locks to take in the order of
the code, verifies when it has them, and commits. A circle, calls of which each waits for the next (`InCircle`), is resolved as PostgreSQL does, by ending one of them (`Deadlock`); a call that only waits for
somebody in a circle is not ended. **Issuance** extends it with
the proposals and approvals of test money and of inventory, which use the same locks, roles and balances. A proposal of a grant is a transaction with locks too: it holds the control row and then shares the rows of account, customer,
recipient and asset. A configuration of the pilot locks the assets and the recipients, and then the control row.

**AtLeastOnce** is what the event pipeline promises: an event is kept until it is received. A holder may let go of several at once, as a publisher does that stops. **Outbox** is the table, the publishers with their leases, the queues and the
router; the rows leased by a publisher are a set that it handles oldest first (`First`). **Notifications** extends it with the worker at the end: it receives a batch of messages that are hidden for a
while, and ends it at the first that it refuses (`Refuse`: no template, nobody active); what is left reappears. A message whose ciphertext cannot be opened (`Unreadable`) is deleted without telling anyone. `KeptUntilReceived` is the refinement: an event is kept as long as it is in the table, with a publisher or in a queue.

**SignIn.** One customer and two clients. Each statement of a handler is a step of `client[c]`; the clock counts half minutes. The transaction of `FreezeUser` fails (finding 6), so that a customer is frozen only by `Suspend`: the support
process outside the repository that the comment at `internal/auth/service.go:284` names. MarketMaker and Notifications have the same action. The sign-in of a subaccount (`SubaccountLogin`, `CreateSubaccountSession`), which has a
password and sessions of its own, is left out.

**MC modules** only give values to constants. The theorems are in **OrderBookProofs**, **SymbolEngineProofs**, **TradingProofs** (TradeFeed, TradingGateway and MarketMaker),
**CustodyProofs** (Withdrawals and Deposits), **RefinementProofs** (P2PEscrow and the event pipeline), **IssuanceProofs** (Wallet and Issuance) and **SignInProofs**; **SumLemmas** holds what they need about sums and least numbers.

Definitions whose names end in an underscore and a capitalised word (`Claimable_Again`, `TransferLocks_Both`, ...) are mistakes somebody could make in
the code. They are not used by the specifications; they document which property catches which mistake.

## 3. The runs

| Run | Instance | What it shows |
|---|---|---|
| `order_book` | 2 resting orders of either side and any price and size, 1 of every type, time in force and flag, 1 more; 3 slots, 2 prices, quantities up to 2, `U64Max` 3 | matching, priority and reports, in every order of arrival and with every cancel, while slots are recycled and the pool runs out |
| `engine` | 3 orders (one refused), a cancel, a replay; 2 faults, each a crash at any record, with or without a torn write, or (once) a failed append | an idle engine can be rebuilt from the file; answers are in it; one history, whatever fails; the engine comes back |
| `trade_feed` | 4 trades, 2 faults, a foreign replay | once, in order, halted while a gap is open, and healed |
| `gateway_calls` | resting sell, conditional fill-or-kill and market buys, 2 callers, timeout, feed fault, settlements of up to 3 attempts | the ledger agrees with the orders throughout, and nobody spends what he does not have |
| `gateway_ioc` | immediate-or-cancel against a resting order | violation, finding 1 |
| `market_maker` | 1 pair, 2 processes, 2 slots, 2 officers of whom one has both roles, 3 requests | funded, released by two, one quoter, bounded inventory |
| `deposits` | 2 requests for the address, 5 possible reports of which 2 arrive, 2 workers, a stop, officer and tool | one address, credit follows status, a confirmed transfer is credited |
| `withdrawals` | 2 withdrawals, 2 processes, 2 approvers, 1 fault, test money arriving | paid once, from deposits; the ledger is true and learns the outcome |
| `p2p` | 2 trades between 2 customers, 2 officers of whom one has both roles | the escrow is covered, released with a reason, ended when overdue; implements Escrow |
| `treasury` | 2 calls at a time out of 4; 3 accounts, 2 assets, 2 administrators, proposals of all kinds | nothing overdrawn, limits and stop hold, an administrator remains; circles only of two known kinds |
| `notifications` | events of every kind, 2 publishers, 1 consumer with batches of 2, 1 fault, a request of a customer | implements AtLeastOnce; those concerned are told unless a refused message stays in the queue |
| `signin` | 2 clients, 4 requests, 4 half minutes | a frozen status, a new password and a nonce take effect |

### Further configurations

Each asks one more question of a module above, and is run in the same way (`tlc -config MCFreeze.cfg MCSignIn`).

| Configuration | Module | Instance | What it shows |
|---|---|---|---|
| `MCMakerStop.cfg` | MCMarketMaker | `market_maker` with 2 accounts, 1 slot and fairness | `StopClears`: a stop cancels every quote of the account, although calls fail |
| `MCGatewaySnapshot.cfg` | MCTradingGateway | a partly filled market buy that costs more than its hold, beside another order of the customer | `HeldNeverNegative` is violated, finding 2 |
| `MCDepositReview.cfg` | MCDeposits | that of `deposits` | `CreditsAreReviewed` is violated, finding 3 |
| `MCMakerIdentity.cfg` | MCMarketMaker | 2 accounts, 1 process, 4 requests | `StopClearsAll` is violated, finding 4 |
| `MCMailsBlocked.cfg` | MCNotifications | a type without a template beside a code that is to be mailed | `MailsGetThrough` is violated, finding 5 |
| `MCFreeze.cfg` | MCSignIn | that of `signin` | `FreezeRevokes` is violated, finding 6 |

### Bounds

`MaxQty` 2 and two prices are the least with partial fills, two levels and a fill across levels; `U64Max` 3
makes a sum wrap with two orders. Three slots are enough for maker, second maker of the same level, and taker; the fourth order reuses
a slot or finds none. The journal bound lets every command finish and a crash meet each of its
records. Two faults are enough for a loss whose replay is lost again. Withdrawals need two requests (they compete for entitlement and
capacity), two processes (they compete for a dispatch) and one fault; the amounts and the vault are such that both withdrawals are admissible
only before limits are on, and not both can be paid. Two market maker processes overlap in a slot and, in `market_maker`, in consecutive slots; the third request lets a configuration come between the first and its release. In `deposits` any two of
the reports arrive, in either order and more than once. In `treasury` two calls at a time are the least that race or form a circle, and
amounts are such that each is affordable alone and not both; four calls are enough to quote, race and look at the result. Circles of three and more calls do not occur there; `CirclesThere` (section 4) covers them.
In `signin` the lives of codes, challenges, sessions and nonces are scaled to half minutes and shortened where only their order matters; a nonce outlives the window of a
time stamp as in the code. Counters of faults, calls and retries are guards named in the modules; they cut behaviours short and remove none of the
orders in which the remaining steps can happen. Symmetry is used only for ids, calls and clients in runs without liveness.

### Fairness

* SymbolEngine: weak fairness of restarting, restoring, appending and replying. The worker is a thread that loops, and the container
  has `restart: unless-stopped`. Nothing is assumed of clients, crashes or errors. `ComesBack` is stated
  for a journal without a fragment: `recover()` refuses a file that ends in one, and an operator must act.
* TradeFeed: weak fairness of restarting the consumer and of taking the next event. `GapHeals` allows for one fault: after a second, a lost replay is
  asked for again only when another trade arrives.
* Withdrawals: weak fairness of each process's next step, as `cmd/withdrawals` loops for ever. Nothing is assumed of customers, approvers, provider or webhooks.
* MarketMaker: one process goes on with its cycles (a ticker of five seconds; the other may hang), and strong fairness of storing the request to cancel: an order is listed until its row is PENDING_CANCEL, and the row can be
  updated at some time. The cancellation itself may fail every time.
* P2PEscrow: time passes and the ticker of the API sweeps; no row stays locked for ever.
* Outbox, Notifications, Deposits: weak fairness of each process's loop; a lease ends and so does a visibility timeout. Nothing is assumed of the order in which a queue returns messages: one that can never be processed may come
  first every time, and `Told` and `DepositSettled` promise nothing while such a message is in the queue. Faults are bounded, so a call that fails always is outside these runs.
* SignIn is checked for safety only, and assumes that a handler takes at most `Lag`: nothing in the code refuses to finish a slower one.

Safety runs use the specification without fairness. `MCMakerIdentity.cfg` and `MCMailsBlocked.cfg` state their fairness, so that their counterexamples are not of a system that stops. Deadlock is checked for the order book, the engine, the feed, the gateway and withdrawals, where explicit `Wait` steps stand for a system that has nothing
left to do; the other systems may stop when the bounded requests are used up.

## 4. The proofs

**OrderBookProofs** (any capacity, prices, quantities, commands) proves every property of the run `order_book`: `TypeCorrect`, `BookNeverCrossed`,
`PoolAlwaysConsistent`, `PostOnlyRespected`, `ReportsAlwaysAddUp`, `PriorityKept`, `FillOrKillKept`. None is inductive alone. The invariant `Inv` joins the first four with
what ties the pool together: free stack, queues and the incoming order share out the slots (`FreeStackExact`, `QueuesExact`), the id
index is exactly the queued slots (`IndexExact`), slots in use hold orders that arrived, each under an id of its own (`OrdersExact`), the live counter counts them, and what the checks of `submit()`
established still holds during matching (`Matching`, `PostOnlyCannotCross`). There is one lemma per action, over lemmas on what appending to, popping from and removing from a
queue without repetitions does to its range.

`ReportInv` is what the properties about reports need over `Inv`: an order in use has traded exactly what it has no longer left, was never reported to have ended and never with more than that; the order being matched was
not reported at all; an id not seen has no trade; and each queue is in the order of the first reports (`InOrder`). The last makes `PriorityKept` a statement about the front of a queue, and survives a cancellation in the middle.
`KillInv` is the loop invariant of a fill-or-kill order: what it still wants is at most the sum of what is still on offer at acceptable prices. A fill takes the same from both; at the end of the loop nothing is on
offer, so nothing is wanted. The quantity of a level is a sum over its slots and not over its positions, so that leaving the front of a queue takes one term out of it.

**SymbolEngineProofs** (any commands, any number of crashes, torn writes and failed appends): `Rebuilt` and `Answered` from `Journaled`, and `OneHistoryTold`. The invariant `JournalInv` says that the records before
the first fragment, read by `restore()`, give the book and the replies of the running worker as they were before the command in work, and that the records of that command written so far are
the ones the book will produce. It is needed because a crash can come between any two records. What a journal restores to is a recursive function on positions; that appending a record extends it by one
step (`RestoreAppend`) is proved from the least position at which it would not.
`OneHistoryTold` holds through failed appends as well, where `JournalInv` says nothing, and rests on a second invariant, `HistoryInv` (theorem `HistoryKept`). The file is `Sound`: if `restore()` takes it, each trade in it has a number the
restored book has counted, and each command one reply. Every trade that was published or is in memory is in the file, and no two trades of the file share a number. If `restore()` takes the file while the worker
runs, the worker is either in step with it or ahead of it, and the file holds every reply the worker has given; ahead means that the sequence or the outputs still missing will make `restore()` refuse the file
once another record is written (`WriteRestores`). That is why a worker that goes on after a failed append cannot lead to a second history: what it does then can never be restored.

**TradingProofs**, the feed (any number of trades, faults, replays): `FeedTypeCorrect`, `AlwaysInOrder`, `HaltedWhileGapOpen`. `FeedInv` adds `ReplayBounds` to them:
while the pair is halted, `replay_through` is above the last settled number and bounds every number received, and
`halted_by_gap` is set; while it is active nothing beyond the next number was received. Without the bound the pair could
resume at `replay_through` with a later gap still open. `GatewayFeed` shows that every step of the composed system is a step of the feed or leaves it alone, so that both properties hold there too
(`GatewayInOrder`, `GatewayHalts`).

The gateway (any orders, accounts, callers, scales, any fee of the taker and any fee or rebate of the maker up to the notional): `Reserved` and `NoDebt` from `BooksKept`. What an account should have held is a sum over its orders, each term
of which subtracts a sum over the settled trades. `BooksInv` adds to `HeldIsReserved`: a trade is between orders of opposite sides (so a settlement changes one term of the buyer's quote sum and one of the
seller's base sum, even if they are one customer), what is available is not negative (`Spendable`), a request without a row holds nothing (`NewRows`), and an order whose hold was released is canceled, rejected or settled completely (`ReleasedRows`). The last is
what makes settlement safe: its status check and `ensureOrderSettlementCapacity` together exclude orders without a hold, and the order rows are locked by a SERIALIZABLE transaction, which aborts if they have changed since its snapshot. The balances
are not, so nothing is concluded from the comparison with the held balance. A seller is safe without it: his trades are at most the quantity he holds (`SellHolds`), so that the sum of his holds is never negative. A buyer's trade may
cost more than his hold, and his held balance can become negative (finding 2); `NeverOverdrawn` claims only that what is available cannot. That a trade *can* be settled is a different matter, see finding 1.

The market maker (any number of processes, pairs, officers, requests): `LiveQuotesFunded`, `OneProcessQuotes`, `BuyingIsBounded`. `OfficeInv` keeps the shape of requests and decisions, and that a configuration
approved was proposed by somebody else. `OneQuoter` is about two processes and not inductive: `CycleInv` adds that the command log has the claim of every process that stands behind one, so that the second to
insert it finds it taken. `InventoryBounded` is about what was bought, which depends on quotes placed in cycles long past. `InventoryInv` bounds the sum of what is held, what is in the book to buy and what is on its way there: a process that goes
on to quote has read a balance below the limit when everything else was already counted. That the book holds at most one quote to buy per process cannot be read off the book, which does not say who placed what; the
invariant has a witness for it, the last quote of each process. A quote whose cancellation was not confirmed leaves that count and enters `unanswered`, which the bound grows with; `Chased` says that every quote that is PENDING_CANCEL is
either counted there or still being cancelled by the one process that asked for it. The bound holds for each account, and is stated until one is funded a second time, because a transfer of inventory does not look at quotes.

**CustodyProofs** (any number of withdrawals, processes, approvers and faults, any amounts): `WithdrawalTypes`, `AtMostOneCall`, `JournalsFollowStatus`,
`LedgerIsTrue`, `DualControlKept`, `DepositsCover`. That the provider is called once is not inductive: a process that stands before the call must still own
the dispatch. `IInv` says so: a process at `call` has a dispatch row whose transaction does not exist yet, and no two processes are at
`call` with the same withdrawal (`WorksOn`, `OneCaller`); a provider id, a call or a reservation come only after the dispatch row, and that only with an approved
withdrawal (`Rows`, `Calls`); outcomes in webhooks and in the hands of a reconciler are those the provider still stands by (`Webhooks`, `WorksOn`); and a withdrawal past approval
has its approvals (`Approved`). The proof has one lemma per action; three of them (`MarkTables`, `UpdateTables`, `CreatedInv`) serve every caller of the same transaction.

`DepositsCover` needs `CoveredInv`: the amounts of all withdrawals that are not ended never exceed the deposits, since a request
checks the sum and nothing but a release leaves it.

Deposits (any number of requests, workers, reports): `OneAddressTold` and `CreditsFollowStatus`. Two requests may each create a vault at the provider; `AddressInv` says that the vault linked to the customer is never replaced and that a
request that goes on to the address does so with the linked one, whichever it created itself. `CreditInv` is `CreditFollowsStatus` with the shape of the rows: no order of reports takes a row out of the status that it was credited in
(`MergedKeepsCredit`), so each of worker, officer and tool finds either the status or the journal that stops it. A worker applies only reports that came from the provider (`HasReport`), so the row it writes is one of `Rows`.

**RefinementProofs**, the market (any number of trades, customers, officers): `Covered`, `Justified` and the refinement `Implements`. `MarketInv` ties the journals of a trade to its status: held once it is accepted, released
or returned exactly in the status that says so, never both. From it, each action of the market maps to a step of **Escrow** or to none, and what an account has in escrow is the sum of its open trades. `ReleaseJustified` needs the history:
the events under which a trade came to each status, and that a resolution keeps the officer who proposed it apart from the one who approves.

The event pipeline (any number of events, publishers, consumers, faults): `EventsKept`, that Notifications over Outbox implements **AtLeastOnce**. An event is held by several parties at once (its row, a publisher, a queue, the router, a worker), and each
lets go of it for itself. `PipelineInv` says of each that it lets go only of what is `Secured`, finished with or in a queue: a row marked as published, the event a publisher has sent, the router's copy, and the worker's batch and message (`SecuredInbox`). A
lease that ended too early, or a publisher that stops, is covered because nothing is said of who holds the lease. From it every step is one of Send, Receive, Forget (of events that were received) or changes nothing of the abstract state.

**IssuanceProofs** (any number of calls, accounts, assets, officers): `Solvent`, `Governed`, `Limited`, `Stopped` from `Isolated`. `TreasuryInv` is about the locks: a call that holds the lock of a balance, a policy, a quota or the
roles has verified what it read under it, and as no other call can hold the same lock, what it verified is still so when it commits. Without that part none of the four is inductive: between the check and the commit the
balance could have been spent.

`CirclesThere` shows `KnownCircles`: however many calls wait for each other in a circle, either every one is a conversion that waits for an account row of the treasury, or there are two, a configuration of the pilot and a grant or its
proposal, at the control row, an asset or a recipient. Each kind of call takes its locks by `Level`, and those of balances by key, except for account rows and for the rows of the pilot (`Places`, `RowInHand`). So whoever holds a lock waits for one
that stands higher (`Precedes`), or both are such rows, and from a call that waits anywhere else the circle would lead only to calls that stand higher, never back. Configurations exclude each other and the control row has one holder, which is why no third call fits into a circle
of the second kind. Locks of roles are read before other locks and need an argument of their own: two readers do not wait for each other, and a call that changes a role takes nothing afterwards.

**SignInProofs** (any number of clients, any lifetimes): `Frozen`, `Fades`, `Once` from `InTime`. The properties speak of what happened at some time before; `SignInInv` bounds the age of every step in progress, code, challenge and session by the lifetimes of
the code, and says that a nonce is remembered as long as its time stamp is accepted.

**SumLemmas.** Sums over finite sets of integers: one term more, one term changed, all terms zero, a bound by another sum; and the least of a set of numbers. The library's induction cannot be used, but the strict subset
order of a finite set is well founded, and a smallest subset on which a claim fails can be refuted (`SmallestSubset`).

The assumptions are the named ASSUMEs of the modules, which every run evaluates: bounds and amounts are natural numbers, sets of orders, trades and requests are finite, time stamps are integers (`SignInAssumption`), command ids of
an engine are drawn at random and so differ from order ids (`ControlsAssumption`), fees lie within the notional (`FeeAssumption`: `migrations/000059_fee_policy_audit.up.sql:4`, `internal/fees/service.go:121`,
`internal/datamanager/fees.go:85`), scales are numbers of decimals (`ScaleAssumption`; that a power of ten is positive follows from that, and is stated because the provers have no induction for it).

**Only model-checked.** Every safety property of every passing run is stated by a theorem. What is left:

* Liveness, which is out of the provers' reach: `ComesBack`, `GapHeals`, `OutcomeReachesLedger`, `OverdueEnds`, `StopClears`, `Told`, `DepositSettled`.
* `NextTradeSettles`, `HeldNeverNegative`, `CreditsAreReviewed`, `StopClearsAll`, `MailsGetThrough` and `FreezeRevokes` do not hold (findings 1 to 6).

## 5. Findings

1. *An answer before its trades* (run `gateway_ioc`). A partly filled immediate-or-cancel order is answered CANCELED; if that is applied first, its
   hold is released, its trade can never be settled, and the pair stops for good (`internal/trading/postgres/settlement.go:128`).
2. *A snapshot older than the locks* (`MCGatewaySnapshot.cfg`). A settlement compares the cost of a trade with the held balance of its snapshot. When another order of the buyer is cancelled before the settlement has its locks, nothing
   aborts, and a trade that costs more than its own hold is paid out of a hold that was released: the held balance becomes negative (`internal/trading/postgres/settlement.go:45`, 51, 165-178).
3. *Deposits are credited automatically* (`MCDepositReview.cfg`). `ApplyDepositObservation` credits a confirmed deposit in the same transaction. The comments at `internal/datamanager/manager.go:1981` and 2304 say that only an approval and a distinct
   command lead to a credit; the comment at 2035 agrees with the code. `DepositSettled` states what the code does.
4. *A new identity of the market maker* (`MCMakerIdentity.cfg`). A configuration may name another account (`internal/marketmaker/activation.go:298`, 310); quotes of the former one stay in the book, and neither the cycle nor a stop lists them
   (`internal/marketmaker/service.go:134`), although `docs/internal-market-maker.md:45` says that the next cycle cancels the quotes.
5. *A message that blocks mails* (`MCMailsBlocked.cfg`). `security.anti_phishing_code_cleared` is routed (`internal/notifications/events.go:26`) and has no template, so the worker refuses it every time and ends the batch there
   (`internal/notifications/consumer.go:77`): what the comment at `consumer.go:106` says of expired codes, that a poison message would block newer mails for ever, is so for this one.
6. *The freeze fails* (`MCFreeze.cfg`). `FreezeUser` stores an alert of the priority 'security' (`internal/datamanager/manager.go:577`), which `migrations/000036_notification_idempotency.up.sql:12` does not admit any more: the transaction is rolled
   back and the customer stays active with all sessions.

The following are behaviours the models have because the code has them; properties are stated so that they allow for them.

7. *A failed journal append.* `append()` advances the sequence before the write; the worker goes on
   serving, and a restart refuses the whole journal (`engine/src/symbol_engine.cpp:29`). `AnswersInJournal` is stated while no append has failed.
8. *A cancel retried.* The retry is sent under a new command id and fails, while `docs/exchange-api-v2.md:24` promises
   the original result (`internal/trading/service.go:132`). The order stays PENDING_CANCEL and keeps its hold.
9. *Webhooks of withdrawals.* A COMPLETED, FAILED or REJECTED webhook is taken for a deposit to an unknown address and dropped;
   only the reconciler settles the withdrawal (`internal/deposits/worker.go:57`).
10. *One withdrawal blocks the others.* The first dispatch error ends every pass of the worker at the same withdrawal (`internal/withdrawals/worker.go:121`). In the same way a report whose amount cannot be read may block the
    others (`internal/deposits/worker.go:68`).
11. *A transfer in two rows.* The provider's reports and the reconciliation tool identify a transfer differently: the tool may not know the provider's id, and never gives a `blockchain_index`, which is part of the key. So a transfer can be
    credited under each; `CreditFollowsStatus` is about a row (`cmd/deposit-reconcile-sepolia/main.go:57`, 120).
12. *A pair that was disabled still settles.* When the pair is not enabled `ConfirmConversion` falls back to the two assets being enabled, although the comment at
    `internal/datamanager/conversions.go:257` says that a quote must not survive the pair's removal.
13. *Deadlocks.* Conversions in opposite directions upsert the treasury's account rows in opposite order (`internal/datamanager/conversions.go:281`); a configuration of the pilot locks assets and recipients before the control row
    (`internal/testmoney/configure.go:124-140`), a grant after it (`internal/testmoney/postgres.go:20`, 54). PostgreSQL ends one of the two.
14. *The inventory limit* of the market maker can be exceeded by quotes in the book and on their way, one of each per process (`internal/marketmaker/service.go:88`); by one for every cancellation that was not answered, whose order stays in the book as
    PENDING_CANCEL while new quotes are placed (`internal/trading/postgres/store.go:374`, `internal/marketmaker/service.go:134`); and by more once the maker is funded a second time while quotes are in the book.

## 6. Not modelled

* Market data (candles, tickers, subscriptions): derived from the feed that TradeFeed models, and no other state depends on it. The sequence that its consumer keeps for itself is not modelled: `GapHeals` is about the settlement consumer only.
* Identity verification: a status that follows an outside service. Phone numbers, the address book, the travel rule record and the approval of custody capacity routes:
  rows that are written and read, of which the modelled operations see only whether they exist.
* Fee tiers and their cache, profit and loss, ledger audits: reads and reports.
* HTTP parsing, routing, rate limits and formatting; configuration, logging, metrics; generated wire code; operator tools other than those named in the map.
* Within the modelled parts: record layout and checksums of the journal, cryptography, validation of malformed requests, texts, audit rows, and account states other than those a property speaks of.

## 7. Plan

1. That the hold of a limit buy covers every fill of it with its fee, which needs the monotonicity of the roundings in **TradeMath**.
2. Models: the capacity routes as an extension of **Withdrawals**, and the market data consumer as a second follower of **TradeFeed**.

