------------------------------ MODULE TradeFeed ------------------------------
(***************************************************************************)
(* How the trades of one pair travel from the engine to the ledger: the    *)
(* engine numbers and publishes them over a PUB socket, which may lose     *)
(* them; SettlementConsumer.Run (internal/trading/settlement.go) receives  *)
(* them and SettleTrade (internal/trading/postgres/settlement.go) applies  *)
(* the next one, ignores a settled one, and on a gap halts the pair and    *)
(* asks the engine to replay.  What settling a trade does to orders and    *)
(* balances is in TradingGateway, which extends this module; here a trade  *)
(* is only its number.                                                     *)
(***************************************************************************)
EXTENDS Integers, Sequences

CONSTANTS
  MaxTrades,  \* how many trades the engine emits
  MaxFaults,  \* how often an event is lost or the consumer is stopped
  MaxReplays  \* how often the market data consumer asks for a replay

ASSUME FeedAssumption == MaxTrades \in Nat /\ MaxFaults \in Nat /\ MaxReplays \in Nat

VARIABLES
  trades,      \* engine: the trades, numbered from 1
  feed,        \* published trades the consumer has not received yet
  settled,     \* tables trades and engine_trade_inbox: numbers in order of insertion
  symbol,      \* the row of engine_symbol_sequences
  pair_status, \* trading_pairs.status
  consumer,    \* the consumer process: "running" or "down"
  received,    \* history: highest number the consumer ever received
  faults,      \* faults so far
  replays      \* replays for the market data consumer so far

book_keeping == <<settled, symbol, pair_status>>
feedVars == <<trades, feed, book_keeping, consumer, received, faults, replays>>

last == symbol.last_sequence_id

Symbol == [last_sequence_id: Nat, mode: {"active", "replay_required"},
           replay_through: Nat, halted_by_gap: BOOLEAN]

FeedInit ==
  /\ trades = <<>>
  /\ feed = <<>>
  /\ settled = <<>>
  /\ symbol = [last_sequence_id |-> 0, mode |-> "active", replay_through |-> 0, halted_by_gap |-> FALSE]
  /\ pair_status = "active"
  /\ consumer = "running"
  /\ received = 0
  /\ faults = 0
  /\ replays = 0

-----------------------------------------------------------------------------
\* The trades from..to, in order: what is published, and what replay publishes again.
Numbers(from, to) == [i \in 1..(to - from + 1) |-> from + i - 1]

\* Published trades reach a running consumer only.
Publish(from, to) == feed' = IF consumer = "running" THEN feed \o Numbers(from, to) ELSE feed

Fault == faults < MaxFaults /\ faults' = faults + 1

\* The engine emits the trades ts of one order.
Emit(ts) ==
  /\ trades' = trades \o ts
  /\ Publish(Len(trades) + 1, Len(trades) + Len(ts))
  /\ UNCHANGED <<book_keeping, consumer, received, faults, replays>>

Receive(n) ==
  /\ consumer = "running"
  /\ feed # <<>>
  /\ Head(feed) = n
  /\ received' = IF n > received THEN n ELSE received

\* Mistake: the pair resumes with the first trade settled after the gap.
CaughtUp_Early(n) == symbol.mode = "replay_required"

\* Mistake: off by one.
CaughtUp_Past(n) == symbol.mode = "replay_required" /\ n > symbol.replay_through

\* Replay has delivered everything up to the event that revealed the gap.
CaughtUp(n) == symbol.mode = "replay_required" /\ n >= symbol.replay_through

\* Mistake: a trade that was settled is settled again.
IsNext_NotOld(n) == n <= last + 1

IsNext(n) == n = last + 1

\* The next trade is settled, and a pair that was halted by a gap may resume.
Settle(n) ==
  /\ Receive(n)
  /\ IsNext(n)
  /\ feed' = Tail(feed)
  /\ settled' = Append(settled, n)
  /\ IF CaughtUp(n)
     THEN /\ symbol' = [last_sequence_id |-> n, mode |-> "active", replay_through |-> 0, halted_by_gap |-> FALSE]
          /\ pair_status' = IF symbol.halted_by_gap THEN "active" ELSE pair_status
     ELSE symbol' = [symbol EXCEPT !.last_sequence_id = n] /\ UNCHANGED pair_status
  /\ UNCHANGED <<trades, consumer, faults, replays>>

\* The trade was settled before: the inbox has it.
Duplicate(n) ==
  /\ Receive(n)
  /\ ~IsNext(n) /\ n <= last
  /\ feed' = Tail(feed)
  /\ UNCHANGED <<trades, book_keeping, consumer, faults, replays>>

\* Any error but a gap ends the process; its subscription is lost with it.
Stop == consumer' = "down" /\ feed' = <<>>

\* The transaction of the next trade fails.
Refuse(n) ==
  /\ Receive(n)
  /\ IsNext(n)
  /\ Stop
  /\ UNCHANGED <<trades, book_keeping, replays>>

\* A gap is committed: the pair is halted until the trades received are settled.
Gap(n) ==
  /\ Receive(n)
  /\ n > last + 1
  /\ pair_status' = "halted"
  /\ symbol' = [symbol EXCEPT !.mode = "replay_required",
                              !.replay_through = IF n > @ THEN n ELSE @,
                              !.halted_by_gap = @ \/ pair_status = "active"]
  /\ UNCHANGED <<trades, settled, replays>>

\* Then the engine is asked to replay from the trade that was expected.
GapReplayed(n) ==
  /\ Gap(n)
  /\ feed' = Tail(feed) \o Numbers(last + 1, Len(trades))
  /\ UNCHANGED <<consumer, faults>>

\* Without an acknowledgement of the replay the consumer stops.
GapReplayFails(n) ==
  /\ Gap(n)
  /\ Fault
  /\ Stop

\* A published event is lost on the way.
LoseEvent ==
  /\ feed # <<>>
  /\ Fault
  /\ feed' = Tail(feed)
  /\ UNCHANGED <<trades, book_keeping, consumer, received, replays>>

\* The market data consumer asks for a replay: its trades come here as well.
OtherReplay(n) ==
  /\ replays < MaxReplays
  /\ replays' = replays + 1
  /\ Publish(n, Len(trades))
  /\ UNCHANGED <<trades, book_keeping, consumer, received, faults>>

ConsumerCrash ==
  /\ consumer = "running"
  /\ Fault
  /\ Stop
  /\ UNCHANGED <<trades, book_keeping, received, replays>>

\* The process is started again; it subscribes and waits for events.
ConsumerRestart ==
  /\ consumer = "down"
  /\ consumer' = "running"
  /\ UNCHANGED <<trades, feed, book_keeping, received, faults, replays>>

-----------------------------------------------------------------------------
\* Here a trade is its number, and a refused trade is a fault.
EmitTrades ==
  \E k \in 1..(MaxTrades - Len(trades)) : Emit(Numbers(Len(trades) + 1, Len(trades) + k))

Take(n) == Settle(n) \/ Duplicate(n) \/ GapReplayed(n)

FeedWait ==
  /\ feed = <<>> /\ consumer = "running"
  /\ UNCHANGED feedVars

FeedNext ==
  \/ EmitTrades
  \/ \E n \in DOMAIN trades : Take(n) \/ GapReplayFails(n) \/ OtherReplay(n) \/ (Refuse(n) /\ Fault)
  \/ LoseEvent \/ ConsumerCrash \/ ConsumerRestart
  \/ FeedWait

FeedSpec == FeedInit /\ [][FeedNext]_feedVars

\* The process is restarted by its orchestrator, and reads what it receives.
FeedFairness ==
  /\ WF_feedVars(ConsumerRestart)
  /\ WF_feedVars(\E n \in DOMAIN trades : Take(n))

FairFeed == FeedSpec /\ FeedFairness

-----------------------------------------------------------------------------
(* Correctness *)

\* The type invariant of the feed and of the rows behind it.
FeedTypeOK ==
  /\ trades \in Seq(Nat)
  /\ feed \in Seq(DOMAIN trades)
  /\ settled \in Seq(DOMAIN trades)
  /\ symbol \in Symbol
  /\ pair_status \in {"active", "halted"}
  /\ consumer \in {"running", "down"}
  /\ received \in {0} \cup DOMAIN trades
  /\ faults \in 0..MaxFaults
  /\ replays \in 0..MaxReplays

\* Each trade is settled once and in the order of the engine, although events
\* are lost, replayed on behalf of two consumers and received twice.
SettledInOrder == settled = [i \in 1..last |-> i]

\* Once the consumer has seen a trade beyond the next one, the pair accepts no
\* order until all it has seen is settled; and it is halted for no other reason.
GapHaltsPair ==
  /\ received > last + 1 => symbol.mode = "replay_required"
  /\ symbol.mode = "replay_required" <=> pair_status = "halted"

\* A pair that was halted because one event was lost resumes, unless a second
\* fault strikes before it has caught up: the replay brings what is missing,
\* whatever other consumers have replayed at the same time.
GapHeals == symbol.mode = "replay_required" ~> (symbol.mode = "active" \/ faults > 1)
=============================================================================
