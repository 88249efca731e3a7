---------------------------- MODULE MarketMaker ----------------------------
(***************************************************************************)
(* The internal market maker (internal/marketmaker): officers of the       *)
(* treasury configure it, release it to live trading and stop it; every    *)
(* API process runs a cycle of it every five seconds, which replaces the   *)
(* quotes of each pair through the ordinary order gateway.                 *)
(*                                                                         *)
(* An officer's operation is one transaction.  A cycle is a sequence of    *)
(* reads, claims and gateway calls; those of several processes, and the    *)
(* officers' operations, come between any two of them.                     *)
(*                                                                         *)
(* Prices are left out: every quantity is one unit of the base asset for   *)
(* one unit of the quote asset, so that no quote is filled in part, and a  *)
(* reference price either exists or does not.  Whether a pair is active is *)
(* decided elsewhere (TradeFeed); a pair that is not is not quoted live,   *)
(* and Halt is always possible.  realized_pnl_quote_atomic is written by   *)
(* no code, so that the comparison with the daily loss is always passed.   *)
(***************************************************************************)
EXTENDS Integers, Sequences, FiniteSets, FiniteSetsExt, SequencesExt

CONSTANTS
  Pairs,         \* trading pairs, numbered in the order of their symbols
  Base, Quote,   \* the assets of each pair
  MakerAccounts, \* accounts of the users that may be named as the market maker
  Inputs,        \* payloads an officer may propose: [action, account, pairs, inventory]
  Operators,     \* users with the role treasury_operator
  Approvers,     \* users with the role treasury_approver
  Treasury,      \* balance of the treasury in each asset
  Servers,       \* API processes
  MaxInventory,  \* max_base_inventory_atomic of every pair
  MaxSlot,       \* bound on the five-second slots
  MaxRequests    \* bound on the proposals

MakerAssets == DOMAIN Treasury
Sides  == {"BUY", "SELL"}
Keys   == Pairs \X (0..MaxSlot) \X Sides
Quotes == Pairs \X (0..MaxSlot) \X Sides \X MakerAccounts

\* The command a quote was placed for.
CommandOf(k) == <<k[1], k[2], k[3]>>

ASSUME MakerAssumption ==
  /\ Pairs \subseteq Nat /\ Base \in [Pairs -> MakerAssets] /\ Quote \in [Pairs -> MakerAssets]
  /\ Treasury \in [MakerAssets -> Nat] /\ {MaxInventory, MaxSlot, MaxRequests} \subseteq Nat
  /\ \A in \in Inputs : /\ in.account \in MakerAccounts /\ in.pairs \subseteq Pairs /\ DOMAIN in.inventory \subseteq MakerAssets
                       /\ \A a \in DOMAIN in.inventory : in.inventory[a] \in Nat
  /\ IsFiniteSet(Servers) /\ MakerAccounts # {}

VARIABLES
  control,   \* table market_maker_control
  configs,   \* pairs enabled in market_maker_configs
  requests,  \* table market_maker_activation_requests, in the order of creation
  decided,   \* the approved requests in the order of decided_at
  open,      \* those still pending that were proposed before the last decision
  treasury,  \* balances of the treasury's account
  active,    \* the accounts that are active, their user too
  maker,     \* balances of those accounts, all buckets
  commands,  \* table market_maker_command_log: key -> dry, live or none
  quotes,    \* the quotes whose row is PENDING, OPEN or PARTIALLY_FILLED
  canceling, \* those whose row is PENDING_CANCEL: the engine may still have them
  unanswered,\* those of which a cancellation was asked for and never confirmed, so far
  server,    \* where each process is in its cycle
  slot       \* the clock, in slots

officeVars == <<control, configs, requests, decided, open, treasury>>
bookVars == <<quotes, canceling, unanswered>>
makerVars == <<officeVars, active, maker, commands, bookVars, server, slot>>

-----------------------------------------------------------------------------
(* Proposals and approvals *)

validateActivation(in) ==
  CASE in.action = "release_live" -> in.pairs = {} /\ DOMAIN in.inventory = {}
    [] in.action = "configure_reference_only" -> in.pairs # {} /\ DOMAIN in.inventory = {}
    [] in.action = "configure_dry_run" -> in.pairs # {} /\ DOMAIN in.inventory # {}

\* A repetition under the same key returns the row; one pending row per action.
Propose(u, in) ==
  /\ validateActivation(in) /\ u \in Operators /\ Len(requests) < MaxRequests
  /\ ~\E i \in DOMAIN requests : requests[i].status = "pending" /\ requests[i].input.action = in.action
  /\ requests' = Append(requests, [input |-> in, status |-> "pending", proposed_by |-> u, approved_by |-> "nobody"])
  /\ UNCHANGED <<control, configs, decided, open, treasury, active, maker, commands, bookVars, server, slot>>

\* Mistake: the evidence of the funded dry run is not asked for.
ReadyForLive_Unfunded == control.enabled /\ control.dry_run /\ ~control.kill_switch /\ configs # {}

latestReferenceOnly ==
  requests[decided[Max({i \in DOMAIN decided : requests[decided[i]].input.action = "configure_reference_only"})]].input

\* The operator's command line: the policies that were approved last, with
\* everything the treasury has of their assets.
fundedDryRun ==
  LET assets == {Base[p] : p \in latestReferenceOnly.pairs} \cup {Quote[p] : p \in latestReferenceOnly.pairs} IN
  [action |-> "configure_dry_run", account |-> latestReferenceOnly.account, pairs |-> latestReferenceOnly.pairs,
   inventory |-> [a \in assets |-> treasury[a]]]

ProposeResume(u) == Propose(u, latestReferenceOnly)

ProposeFundedDryRun(u) == (\A a \in DOMAIN fundedDryRun.inventory : treasury[a] > 0) /\ Propose(u, fundedDryRun)

\* Assets a request has moved to the market maker.
Inventory(r) == IF r = 0 \/ requests[r].status # "approved" THEN {} ELSE DOMAIN requests[r].input.inventory

Covered(ps, assets) == \A p \in ps : {Base[p], Quote[p]} \subseteq assets

resolveMarketMakerIdentity(in) == in.account \in active

applyReferenceOnly(in) ==
  /\ resolveMarketMakerIdentity(in)
  /\ configs' = in.pairs
  /\ control' = [enabled |-> TRUE, dry_run |-> TRUE, kill_switch |-> FALSE, account |-> in.account]
  /\ UNCHANGED <<treasury, maker>>

Given(in, a) == IF a \in DOMAIN in.inventory THEN in.inventory[a] ELSE 0

applyDryRun(in) ==
  /\ resolveMarketMakerIdentity(in)
  /\ \A a \in DOMAIN in.inventory : treasury[a] >= in.inventory[a]
  /\ Covered(in.pairs, DOMAIN in.inventory)
  /\ configs' = in.pairs
  /\ control' = [enabled |-> TRUE, dry_run |-> TRUE, kill_switch |-> FALSE, account |-> in.account]
  /\ treasury' = [a \in MakerAssets |-> treasury[a] - Given(in, a)]
  /\ maker' = [maker EXCEPT ![in.account] = [a \in MakerAssets |-> maker[in.account][a] + Given(in, a)]]

LatestDecision == IF decided = <<>> THEN 0 ELSE Last(decided)

ReadyForLive ==
  /\ control.enabled /\ control.dry_run /\ ~control.kill_switch /\ configs # {}
  /\ LatestDecision # 0 /\ requests[LatestDecision].input.action = "configure_dry_run"
  /\ Covered(configs, Inventory(LatestDecision))

applyLive ==
  /\ ReadyForLive
  /\ control' = [control EXCEPT !.dry_run = FALSE]
  /\ UNCHANGED <<configs, treasury, maker>>

\* decided_at is the time at which the approving transaction began, and it began
\* before it got the lock: of two that overlap the second may get the earlier time.
\* They do not overlap if the second was proposed after the first was decided.
DecidedAt(r) ==
  \/ /\ decided' = Append(decided, r)
     /\ open' = {i \in DOMAIN requests : i # r /\ requests[i].status = "pending"}
  \/ /\ r \in open
     /\ decided' = Append(Front(decided), r) \o <<Last(decided)>> /\ open' = open \ {r}

Approve(u, r) ==
  LET in == requests[r].input IN
  /\ u \in Approvers /\ requests[r].status = "pending" /\ requests[r].proposed_by # u
  /\ \/ in.action = "configure_reference_only" /\ applyReferenceOnly(in)
     \/ in.action = "configure_dry_run" /\ applyDryRun(in)
     \/ in.action = "release_live" /\ applyLive
  /\ requests' = [requests EXCEPT ![r].status = "approved", ![r].approved_by = u]
  /\ DecidedAt(r)
  /\ UNCHANGED <<active, commands, bookVars, server, slot>>

EmergencyStop(u) ==
  /\ u \in Operators \cup Approvers /\ ~control.kill_switch
  /\ control' = [control EXCEPT !.kill_switch = TRUE]
  /\ UNCHANGED <<configs, requests, decided, open, treasury, active, maker, commands, bookVars, server, slot>>

-----------------------------------------------------------------------------
(* The cycle of one process *)

FirstAccount == CHOOSE a \in MakerAccounts : TRUE

IdleCycle == [pc |-> "idle", control |-> [enabled |-> FALSE, dry_run |-> TRUE, kill_switch |-> TRUE, account |-> FirstAccount],
              todo |-> {}, pair |-> 0, slot |-> 0, sides |-> {}, found |-> {}, asked |-> {}]

cycleOnly == <<officeVars, active, maker, slot>>

\* The loop goes on with the next pair, whatever happened to this one.
NextPair(s) == server' = [server EXCEPT ![s] = IF @.todo = {} THEN IdleCycle ELSE [@ EXCEPT !.pc = "pair", !.sides = {}, !.found = {}, !.asked = {}]]

\* The control, or none when the account it names is no longer active.
LoadControl == IF control.account \in active THEN {control} ELSE {}

Cycle(s) ==
  /\ server[s].pc = "idle"
  /\ \E c \in LoadControl : c.enabled /\ server' = [server EXCEPT ![s] = [IdleCycle EXCEPT !.pc = "list", !.control = c]]
  /\ UNCHANGED <<cycleOnly, commands, bookVars>>

ListConfigs(s) ==
  /\ server[s].pc = "list"
  /\ server' = [server EXCEPT ![s] = IF configs = {} THEN IdleCycle
                  ELSE [@ EXCEPT !.pc = "pair", !.todo = configs]]
  /\ UNCHANGED <<cycleOnly, commands, bookVars>>

\* Mistake: the limits are not compared.
checkRisk_None(a, p) == TRUE

Risk(a, p) == maker[a][Base[p]]

checkRisk(a, p) == Risk(a, p) + 1 <= MaxInventory /\ Risk(a, p) >= 1

\* The configurations are listed in the order of their pairs.
NextIn(s)    == Min(server[s].todo)
PairsLeft(s) == server[s].todo \ {NextIn(s)}

TakePair(s, pc) == server' = [server EXCEPT ![s] = [@ EXCEPT !.pair = NextIn(s), !.slot = slot, !.todo = PairsLeft(s), !.pc = pc]]

\* The outside prices are fresh, agree and leave a spread, and live quotes are within the limits.
quotePair(s) ==
  /\ server[s].pc = "pair" /\ ~server[s].control.kill_switch
  /\ server[s].control.dry_run \/ checkRisk(server[s].control.account, NextIn(s))
  /\ TakePair(s, "claim")
  /\ UNCHANGED <<cycleOnly, commands, bookVars>>

\* No reference, a pair that is not active, or a limit reached: halted.
Halt(s) ==
  /\ server[s].pc = "pair" /\ ~server[s].control.kill_switch
  /\ server' = [server EXCEPT ![s] = IF PairsLeft(s) = {} THEN IdleCycle ELSE [@ EXCEPT !.todo = PairsLeft(s)]]
  /\ UNCHANGED <<cycleOnly, commands, bookVars>>

\* Mistake: the cycle only reports that the switch is on.
stopExisting_Reports(s) ==
  /\ server[s].pc = "pair" /\ server[s].control.kill_switch
  /\ server' = [server EXCEPT ![s] = IdleCycle]
  /\ UNCHANGED <<cycleOnly, commands, bookVars>>

\* The switch was on when the cycle began: the pair is cleared.
stopExisting(s) ==
  /\ server[s].pc = "pair" /\ server[s].control.kill_switch
  /\ TakePair(s, "list_orders")
  /\ UNCHANGED <<cycleOnly, commands, bookVars>>

KeyOf(s, side) == <<server[s].pair, server[s].slot, side>>

SideToClaim(s) == IF "BUY" \in server[s].sides THEN "SELL" ELSE "BUY"

Claimable(s) == control.enabled /\ ~control.kill_switch /\ control.dry_run = server[s].control.dry_run

\* Mistake: the row of another process is taken for one's own.
Claimed_Exists(s, side) == TRUE

Claimed(s, side) == commands[KeyOf(s, side)] = "none"

\* One ClaimCommand; sides collects those that are done, found those that were claimed.
ClaimCommand(s) ==
  LET side == SideToClaim(s)
      mine == server[s].found \cup (IF Claimed(s, side) THEN {side} ELSE {}) IN
  /\ server[s].pc = "claim" /\ Claimable(s)
  /\ commands' = [commands EXCEPT ![KeyOf(s, side)] = IF @ # "none" THEN @ ELSE IF server[s].control.dry_run THEN "dry" ELSE "live"]
  /\ IF side = "BUY"
     THEN server' = [server EXCEPT ![s].sides = {"BUY"}, ![s].found = mine]
     ELSE IF mine = Sides /\ ~server[s].control.dry_run
          THEN server' = [server EXCEPT ![s].pc = "list_orders", ![s].sides = {}, ![s].found = {}]
          ELSE NextPair(s)
  /\ UNCHANGED <<cycleOnly, bookVars>>

ClaimRefused(s) ==
  /\ server[s].pc = "claim" /\ ~Claimable(s) /\ NextPair(s)
  /\ UNCHANGED <<cycleOnly, commands, bookVars>>

\* Of the account in the copy of the control, and not those that are PENDING_CANCEL.
OpenOrders(p, a) == {k \in quotes : k[1] = p /\ k[4] = a}

\* What is left to cancel; when nothing is, the pair is done or its new quotes are placed.
CancelRest(s, rest) ==
  IF rest # {} THEN server' = [server EXCEPT ![s].pc = "cancel", ![s].found = rest, ![s].asked = {}]
  ELSE IF server[s].control.kill_switch THEN NextPair(s)
  ELSE server' = [server EXCEPT ![s].pc = "place", ![s].found = {}, ![s].asked = {}]

ListOrders(s) ==
  /\ server[s].pc = "list_orders" /\ CancelRest(s, OpenOrders(server[s].pair, server[s].control.account))
  /\ UNCHANGED <<cycleOnly, commands, bookVars>>

\* The row becomes PENDING_CANCEL, and then the engine is asked.
AskToCancel(s, k) ==
  /\ server[s].pc = "cancel" /\ k \in server[s].found \cap quotes
  /\ quotes' = quotes \ {k} /\ canceling' = canceling \cup {k}
  /\ server' = [server EXCEPT ![s].pc = "canceling", ![s].asked = {k}]
  /\ UNCHANGED <<cycleOnly, commands, unanswered>>

\* An order that has ended in the meantime is passed over.
CancelPassed(s, k) ==
  /\ server[s].pc = "cancel" /\ k \in server[s].found \ (quotes \cup canceling)
  /\ CancelRest(s, server[s].found \ {k})
  /\ UNCHANGED <<cycleOnly, commands, bookVars>>

\* One that another process has asked to cancel is asked for again, under a command that
\* is not in the table: whatever the engine answers is an error, and the pair is left.
CancelTwice(s, k) ==
  /\ server[s].pc = "cancel" /\ k \in server[s].found \cap canceling
  /\ NextPair(s)
  /\ UNCHANGED <<cycleOnly, commands, bookVars>>

\* The engine's confirmation, of an order that it has not matched: CANCELED.
CancelConfirmed(s) ==
  /\ server[s].pc = "canceling" /\ server[s].asked \subseteq canceling
  /\ canceling' = canceling \ server[s].asked
  /\ CancelRest(s, server[s].found \ server[s].asked)
  /\ UNCHANGED <<cycleOnly, commands, quotes, unanswered>>

\* The engine has not the order, does not answer in time, or its answer is not stored; or the
\* process stops.  The row stays PENDING_CANCEL and nobody lists it again.
CancelFails(s) ==
  /\ server[s].pc = "canceling"
  /\ NextPair(s) \/ server' = [server EXCEPT ![s] = IdleCycle]
  /\ unanswered' = unanswered \cup (server[s].asked \cap canceling)
  /\ UNCHANGED <<cycleOnly, commands, quotes, canceling>>

\* What the orders of the account hold of an asset; one that is PENDING_CANCEL keeps its hold.
ReservedQuotes(a, asset) ==
  Cardinality({k \in quotes \cup canceling : k[4] = a /\ asset = IF k[3] = "BUY" THEN Quote[k[1]] ELSE Base[k[1]]})

SideToPlace(s) == IF "BUY" \in server[s].sides THEN "SELL" ELSE "BUY"

Payable(s) ==
  LET a     == server[s].control.account
      asset == IF SideToPlace(s) = "BUY" THEN Quote[server[s].pair] ELSE Base[server[s].pair] IN
  a \in active /\ maker[a][asset] > ReservedQuotes(a, asset)

NextSide(s) == IF SideToPlace(s) = "BUY" THEN server' = [server EXCEPT ![s].sides = {"BUY"}] ELSE NextPair(s)

QuoteOf(s) == <<server[s].pair, server[s].slot, SideToPlace(s), server[s].control.account>>

\* The gateway reserves the amount and takes the order (see TradingGateway).
PlaceOrder(s) ==
  /\ server[s].pc = "place" /\ Payable(s)
  /\ quotes' = quotes \cup {QuoteOf(s)}
  /\ NextSide(s)
  /\ UNCHANGED <<cycleOnly, commands, canceling, unanswered>>

\* It would have taken: the engine rejects a post-only order, which is no error.
PlaceRejected(s) ==
  /\ server[s].pc = "place" /\ Payable(s) /\ NextSide(s)
  /\ UNCHANGED <<cycleOnly, commands, bookVars>>

\* The order is stored but the engine does not answer, or the answer is lost.
PlaceFails(s) ==
  /\ server[s].pc = "place" /\ Payable(s)
  /\ quotes' = quotes \cup {QuoteOf(s)}
  /\ NextPair(s) \/ server' = [server EXCEPT ![s] = IdleCycle]
  /\ UNCHANGED <<cycleOnly, commands, canceling, unanswered>>

\* Too little to reserve, or the account is no longer active.
PlaceRefused(s) ==
  /\ server[s].pc = "place" /\ ~Payable(s) /\ NextPair(s)
  /\ UNCHANGED <<cycleOnly, commands, bookVars>>

\* A call fails before it has changed anything and the pair is left, or the process stops;
\* when the orders cannot be listed that is as if the first call that follows had failed.
Fail(s) ==
  /\ server[s].pc \in {"claim", "cancel", "place"}
  /\ NextPair(s) \/ server' = [server EXCEPT ![s] = IdleCycle]
  /\ UNCHANGED <<cycleOnly, commands, bookVars>>

-----------------------------------------------------------------------------
(* The market and the accounts *)

\* The quote is matched and the trade settled; the row is FILLED, also one that was PENDING_CANCEL.
Fill(k) ==
  LET b == Base[k[1]]
      q == Quote[k[1]]
      d == IF k[3] = "BUY" THEN 1 ELSE -1 IN
  /\ k \in quotes \cup canceling
  /\ quotes' = quotes \ {k} /\ canceling' = canceling \ {k}
  /\ maker' = [maker EXCEPT ![k[4]][b] = @ + d, ![k[4]][q] = @ - d]
  /\ UNCHANGED <<officeVars, active, commands, unanswered, server, slot>>

\* The user of the account is not active any more, and nothing in the repository undoes it.
\* FreezeUser would do so, but its transaction fails (see SignIn): it is done outside the repository.
Suspend(a) ==
  /\ a \in active /\ active' = active \ {a}
  /\ UNCHANGED <<officeVars, maker, commands, bookVars, server, slot>>

Tick ==
  /\ slot < MaxSlot /\ slot' = slot + 1
  /\ UNCHANGED <<officeVars, active, maker, commands, bookVars, server>>

-----------------------------------------------------------------------------
FirstRequest ==
  [input |-> [action |-> "configure_reference_only", account |-> FirstAccount, pairs |-> Pairs, inventory |-> <<>>], status |-> "approved",
   proposed_by |-> CHOOSE u \in Operators : TRUE, approved_by |-> CHOOSE u \in Approvers \ {CHOOSE v \in Operators : TRUE} : TRUE]

\* All pairs were configured for reference prices, as the repository describes its deployment.
MakerInit ==
  /\ control = [enabled |-> TRUE, dry_run |-> TRUE, kill_switch |-> FALSE, account |-> FirstAccount]
  /\ configs = Pairs
  /\ requests = <<FirstRequest>> /\ decided = <<1>> /\ open = {}
  /\ treasury = Treasury /\ active = MakerAccounts /\ maker = [a \in MakerAccounts |-> [x \in MakerAssets |-> 0]]
  /\ commands = [k \in Keys |-> "none"] /\ quotes = {} /\ canceling = {} /\ unanswered = {}
  /\ server = [s \in Servers |-> IdleCycle]
  /\ slot = 0

Serve(s) ==
  \/ Cycle(s) \/ ListConfigs(s)
  \/ quotePair(s) \/ Halt(s) \/ stopExisting(s)
  \/ ClaimCommand(s) \/ ClaimRefused(s)
  \/ ListOrders(s) \/ (\E k \in Quotes : AskToCancel(s, k) \/ CancelPassed(s, k) \/ CancelTwice(s, k))
  \/ CancelConfirmed(s) \/ CancelFails(s)
  \/ PlaceOrder(s) \/ PlaceRejected(s) \/ PlaceFails(s) \/ PlaceRefused(s)

Officer(u) ==
  \/ \E in \in Inputs : Propose(u, in)
  \/ ProposeResume(u)
  \/ ProposeFundedDryRun(u)
  \/ \E r \in DOMAIN requests : Approve(u, r)
  \/ EmergencyStop(u)

MakerNext ==
  \/ \E u \in Operators \cup Approvers : Officer(u)
  \/ \E s \in Servers : Serve(s) \/ Fail(s)
  \/ \E k \in Quotes : Fill(k)
  \/ \E a \in MakerAccounts : Suspend(a)
  \/ Tick

MakerSpec == MakerInit /\ [][MakerNext]_makerVars

\* Every process has a ticker for its cycles and a cycle goes on until it ends, but a
\* process may hang: one of them goes on.  Every call may fail, also every cancellation,
\* but the request to cancel a listed order is stored when it is tried again and again.
FairMakerSpec ==
  MakerSpec /\ WF_makerVars(\E s \in Servers : Serve(s)) /\ SF_makerVars(\E s \in Servers, k \in Quotes : AskToCancel(s, k))

-----------------------------------------------------------------------------
(* Properties *)

Quoting(s) == server[s].pc \in {"list_orders", "cancel", "canceling", "place"} /\ ~server[s].control.kill_switch

\* Live quoting was funded under two pairs of eyes: every pair that is quoted has
\* both its assets from one approved dry run, in whatever order the approvals of
\* configurations and of the release overlapped.
LiveFunded ==
  control.enabled /\ ~control.dry_run =>
    \E r \in DOMAIN requests :
      /\ requests[r].input.action = "configure_dry_run" /\ requests[r].status = "approved"
      /\ requests[r].proposed_by # requests[r].approved_by
      /\ Covered(configs, DOMAIN requests[r].input.inventory)

\* Two processes in the same slot do not both replace the quotes of a pair, and
\* what is in the book was claimed as a live command.
OneQuoter ==
  /\ \A s, t \in Servers : s # t /\ Quoting(s) /\ Quoting(t) =>
       <<server[s].pair, server[s].slot>> # <<server[t].pair, server[t].slot>>
  /\ \A k \in quotes \cup canceling : commands[CommandOf(k)] = "live"

\* The requests that moved inventory to the market maker.
Funded == {r \in DOMAIN requests : requests[r].input.action = "configure_dry_run" /\ requests[r].status = "approved"}

\* The pair's base asset is traded in no other pair.
OwnBase(p) == \A q \in Pairs : Quote[q] # Base[p] /\ (Base[q] = Base[p] => q = p)

\* Quotes of the pair and the account to buy.
BuysOf(q, p, a) == {k \in q : k[1] = p /\ k[3] = "BUY" /\ k[4] = a}

\* The limit of the inventory is read before the old quotes are cancelled, and by
\* every process for itself: buying can exceed it, by the quotes that are in the
\* book and those on their way, of which every process has one each, and by those
\* whose cancellation was not confirmed, which stay in the book while new ones are
\* placed.  That is so for every account until one is funded a second time, which
\* does not wait for quotes.
InventoryBounded ==
  [][\A p \in Pairs, a \in MakerAccounts :
       /\ OwnBase(p) /\ Cardinality(Funded) <= 1
       /\ maker'[a][Base[p]] > maker[a][Base[p]] /\ treasury' = treasury
       => maker'[a][Base[p]] <= MaxInventory + 2 * Cardinality(Servers) - 1 + Cardinality(BuysOf(unanswered, p, a))]_makerVars

\* After an emergency stop no quote of an enabled pair is left alone, also not one that
\* a cycle in progress placed after the stop: unless the market maker's account is
\* frozen, the cancellation of every quote of this account is at least asked for.
StopClears ==
  \A p \in Pairs : (control.kill_switch /\ p \in configs) ~>
    (~control.kill_switch \/ p \notin configs \/ control.account \notin active \/ OpenOrders(p, control.account) = {})

\* "On its next cycle the worker cancels existing pending, open, and partially filled
\* quotes" (docs/internal-market-maker.md): all of them, whatever account they are of.
StopClearsAll ==
  \A p \in Pairs : (control.kill_switch /\ p \in configs) ~>
    (~control.kill_switch \/ p \notin configs \/ control.account \notin active \/ \A k \in quotes : k[1] # p)
=============================================================================
