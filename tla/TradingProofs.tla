------------------------ MODULE TradingProofs -----------------------------
(***************************************************************************)
(* Proofs about TradeFeed, TradingGateway and MarketMaker, for any number  *)
(* of trades, faults and replays, any orders, accounts, callers and fees,  *)
(* and any number of API processes that quote.                             *)
(*                                                                         *)
(* The feed: the type invariant, SettledInOrder and GapHaltsPair.          *)
(* GapHaltsPair is not inductive: that the pair may resume when            *)
(* replay_through is reached depends on replay_through bounding every      *)
(* number the consumer received, and that it does resume on halted_by_gap  *)
(* being set while it is halted.                                           *)
(*                                                                         *)
(* The gateway: HeldIsReserved and Spendable, and again what is       *)
(* proved of the feed.  HeldIsReserved is a sum over orders of a           *)
(* difference with a sum over trades; every action changes one term of it, *)
(* settlement two that belong to different assets.  It needs that no trade *)
(* is settled with an order whose hold was released (ReleasedRows), and    *)
(* that trades are between orders of opposite sides.                       *)
(*                                                                         *)
(* The market maker: LiveFunded, OneQuoter and InventoryBounded.           *)
(* OneQuoter rests on the command log having the claim of every process    *)
(* that has one (CycleInv).  InventoryBounded counts what is held, what is *)
(* open, what is being cancelled and what is on its way (InventoryInv):    *)
(* that no process has two open quotes to buy needs a witness, the last    *)
(* quote of each process, since the book does not say who placed what;     *)
(* what is being cancelled has a process that waits for the answer, or is  *)
(* among the cancellations that were not confirmed (Chased).               *)
(***************************************************************************)
EXTENDS TradingGateway, MarketMaker, SumLemmas, SequenceTheorems, TLAPS

USE FeedAssumption

-----------------------------------------------------------------------------
(* The feed *)

\* What replay_through and halted_by_gap are worth while the pair is halted.
ReplayBounds ==
  /\ last <= received
  /\ symbol.mode = "active" => received <= last + 1
  /\ symbol.mode = "replay_required" =>
       /\ last < symbol.replay_through
       /\ received <= symbol.replay_through
       /\ symbol.halted_by_gap

\* The types, whatever a trade is: it is known by its number.
FeedTyped ==
  /\ Len(trades) \in Nat /\ DOMAIN trades = 1..Len(trades)
  /\ feed \in Seq(DOMAIN trades)
  /\ settled \in Seq(DOMAIN trades)
  /\ symbol \in Symbol
  /\ pair_status \in {"active", "halted"}
  /\ consumer \in {"running", "down"}
  /\ received \in {0} \cup DOMAIN trades
  /\ faults \in 0..MaxFaults
  /\ replays \in 0..MaxReplays

\* The inductive invariant.
FeedInv == FeedTyped /\ SettledInOrder /\ GapHaltsPair /\ ReplayBounds

\* The sequence from..to consists of numbers of that range.
LEMMA NumbersType ==
  ASSUME NEW a \in Nat, NEW b \in Nat, a > 0, a <= b + 1
  PROVE  Numbers(a, b) \in Seq(1..b)
<1>1. b - a + 1 \in Nat
  OBVIOUS
<1>2. Numbers(a, b) \in [1..(b - a + 1) -> 1..b]
  BY <1>1 DEF Numbers
<1> QED
  BY <1>1, <1>2

\* A sequence over some numbers is one over more numbers.
LEMMA SeqWidens ==
  ASSUME NEW m \in Nat, NEW n \in Nat, m <= n, NEW s \in Seq(1..m)
  PROVE  s \in Seq(1..n)
<1>1. 1..m \subseteq 1..n
  OBVIOUS
<1>2. s \in [1..Len(s) -> 1..n] /\ Len(s) \in Nat
  BY <1>1
<1> QED
  BY <1>2

\* The first event of the feed can be taken off.
LEMMA TailType ==
  ASSUME NEW n \in Nat, NEW s \in Seq(1..n), s # <<>>
  PROVE  Tail(s) \in Seq(1..n)
  BY HeadTailProperties

\* Every step that takes an event of the feed, and no step else, is received.
LEMMA ReceiveStep ==
  ASSUME FeedInv, NEW n \in DOMAIN trades, Receive(n)
  PROVE  /\ n \in 1..Len(trades) /\ last \in Nat /\ received \in Nat /\ Len(trades) \in Nat
         /\ received' \in {0} \cup (1..Len(trades))
         /\ received' >= received /\ received' >= n
         /\ received' = received \/ received' = n
         /\ feed # <<>> /\ feed \in Seq(1..Len(trades))
         /\ Tail(feed) \in Seq(1..Len(trades))
<1>1. feed \in Seq(DOMAIN trades) /\ received \in {0} \cup DOMAIN trades /\ symbol \in Symbol
  BY DEF FeedInv, FeedTyped
<1>2. DOMAIN trades = 1..Len(trades) /\ Len(trades) \in Nat
  BY DEF FeedInv, FeedTyped
<1>3. last \in Nat
  BY <1>1 DEF Symbol, last
<1>4. feed # <<>> /\ Tail(feed) \in Seq(1..Len(trades))
  BY <1>1, <1>2, TailType DEF Receive
<1> QED
  BY <1>1, <1>2, <1>3, <1>4 DEF Receive

\* The rows a new pair starts with satisfy the invariant.
LEMMA InitInv == FeedInit => FeedInv
<1> SUFFICES ASSUME FeedInit PROVE FeedInv
  OBVIOUS
<1>1. FeedTyped
  BY DEF FeedInit, FeedTyped, Symbol
<1>2. SettledInOrder
  BY DEF FeedInit, SettledInOrder, last
<1> QED
  BY <1>1, <1>2 DEF FeedInit, FeedInv, GapHaltsPair, ReplayBounds, last

\* What the steps below start from.
LEMMA TypeFacts ==
  ASSUME FeedInv
  PROVE  /\ Len(trades) \in Nat /\ DOMAIN trades = 1..Len(trades)
         /\ feed \in Seq(1..Len(trades)) /\ settled \in Seq(1..Len(trades))
         /\ symbol \in Symbol /\ last \in Nat /\ symbol.replay_through \in Nat
         /\ received \in {0} \cup (1..Len(trades)) /\ last <= Len(trades)
<1>1. feed \in Seq(DOMAIN trades) /\ settled \in Seq(DOMAIN trades)
      /\ received \in {0} \cup DOMAIN trades /\ symbol \in Symbol /\ last <= received
  BY DEF FeedInv, FeedTyped, ReplayBounds
<1>2. DOMAIN trades = 1..Len(trades) /\ Len(trades) \in Nat
  BY DEF FeedInv, FeedTyped
<1>3. last \in Nat /\ symbol.replay_through \in Nat
  BY <1>1 DEF Symbol, last
<1> QED
  BY <1>1, <1>2, <1>3

\* A step that keeps the rows, and receives at most the trade that is next.
LEMMA RowsKept ==
  ASSUME FeedInv, UNCHANGED <<trades, book_keeping>>,
         feed' \in Seq(1..Len(trades)), consumer' \in {"running", "down"},
         faults' \in 0..MaxFaults, replays' \in 0..MaxReplays,
         received' = received \/ (received' \in 1..Len(trades) /\ received' >= received /\ received' <= last + 1)
  PROVE  FeedInv'
<1>1. FeedTyped'
  BY TypeFacts DEF FeedInv, FeedTyped, book_keeping
<1>2. SettledInOrder'
  BY DEF FeedInv, SettledInOrder, book_keeping, last
<1>3. GapHaltsPair'
  BY TypeFacts DEF FeedInv, GapHaltsPair, book_keeping, last
<1>4. ReplayBounds'
  BY TypeFacts DEF FeedInv, ReplayBounds, book_keeping, last, Symbol
<1> QED
  BY <1>1, <1>2, <1>3, <1>4 DEF FeedInv

\* A fault stays within the bound.
LEMMA FaultType == ASSUME FeedInv, Fault PROVE faults' \in 0..MaxFaults
  BY DEF FeedInv, FeedTyped, Fault

\* The other variables have their types.
LEMMA CounterFacts ==
  ASSUME FeedInv
  PROVE  consumer \in {"running", "down"} /\ faults \in 0..MaxFaults /\ replays \in 0..MaxReplays
         /\ pair_status \in {"active", "halted"}
  BY DEF FeedInv, FeedTyped

\* A step of others.
LEMMA FeedKept == ASSUME FeedInv, UNCHANGED feedVars PROVE FeedInv'
  BY TypeFacts, CounterFacts, RowsKept DEF feedVars

\* Publishing existing trades keeps the feed well typed.
LEMMA PublishType ==
  ASSUME NEW k \in Nat, NEW a \in Nat, NEW b \in Nat, a > 0, a <= b + 1, b <= k,
         feed \in Seq(1..k), Publish(a, b)
  PROVE  feed' \in Seq(1..k)
<1>1. Numbers(a, b) \in Seq(1..k)
  BY NumbersType, SeqWidens
<1>2. feed \o Numbers(a, b) \in Seq(1..k)
  BY <1>1, ConcatProperties
<1> QED
  BY <1>2 DEF Publish

\* A trade found in the inbox changes no row.
LEMMA DuplicateInv == ASSUME FeedInv, NEW n \in DOMAIN trades, Duplicate(n) PROVE FeedInv'
<1>1. Receive(n) /\ n <= last /\ feed' = Tail(feed)
  BY DEF Duplicate
<1>2. received' = received \/ (received' \in 1..Len(trades) /\ received' >= received /\ received' <= last + 1)
  BY <1>1, ReceiveStep, TypeFacts
<1> QED
  BY <1>1, <1>2, ReceiveStep, RowsKept, CounterFacts DEF Duplicate

\* A trade that cannot be settled ends the consumer and changes no row.
LEMMA RefuseInv ==
  ASSUME FeedInv, NEW n \in DOMAIN trades, Refuse(n), faults' \in 0..MaxFaults PROVE FeedInv'
<1>1. Receive(n) /\ n = last + 1 /\ feed' = <<>> /\ consumer' = "down"
  BY DEF Refuse, IsNext, Stop
<1>2. received' = received \/ (received' \in 1..Len(trades) /\ received' >= received /\ received' <= last + 1)
  BY <1>1, ReceiveStep, TypeFacts
<1> QED
  BY <1>1, <1>2, RowsKept, CounterFacts DEF Refuse

\* A lost event changes no row.
LEMMA LoseEventInv == ASSUME FeedInv, LoseEvent PROVE FeedInv'
<1>1. Tail(feed) \in Seq(1..Len(trades))
  BY TypeFacts, TailType DEF LoseEvent
<1> QED
  BY <1>1, FaultType, RowsKept, CounterFacts DEF LoseEvent

\* A replay for another consumer only adds events.
LEMMA OtherReplayInv == ASSUME FeedInv, NEW n \in DOMAIN trades, OtherReplay(n) PROVE FeedInv'
<1>1. n \in 1..Len(trades) /\ Len(trades) \in Nat
  BY TypeFacts
<1>2. PICK k \in Nat : k = Len(trades)
  BY <1>1
<1>3. feed' \in Seq(1..k)
  BY <1>1, <1>2, TypeFacts, PublishType DEF OtherReplay
<1>4. replays' \in 0..MaxReplays
  BY CounterFacts DEF OtherReplay
<1> QED
  BY <1>2, <1>3, <1>4, RowsKept, CounterFacts DEF OtherReplay

\* A crash of the consumer loses its events and no row.
LEMMA ConsumerCrashInv == ASSUME FeedInv, ConsumerCrash PROVE FeedInv'
  BY FaultType, RowsKept, CounterFacts DEF ConsumerCrash, Stop

\* Nor does its restart.
LEMMA ConsumerRestartInv == ASSUME FeedInv, ConsumerRestart PROVE FeedInv'
  BY TypeFacts, RowsKept, CounterFacts DEF ConsumerRestart

\* New trades lengthen what is replayable and disturb nothing that was settled.
LEMMA EmitInv ==
  ASSUME FeedInv, NEW ts, Emit(ts), NEW k \in Nat, Len(ts) = k,
         Len(trades') = Len(trades) + k, DOMAIN trades' = 1..Len(trades')
  PROVE  FeedInv'
<1>1. Len(trades) \in Nat
  BY TypeFacts
<1>2. PICK a \in Nat, b \in Nat : a = Len(trades) + 1 /\ b = Len(trades) + k
  BY <1>1
<1>3. Publish(a, b)
  BY <1>2 DEF Emit
<1>4. feed \in Seq(1..b)
  BY <1>1, <1>2, TypeFacts, SeqWidens
<1>5. feed' \in Seq(1..b)
  BY <1>1, <1>2, <1>3, <1>4, PublishType
<1>6. settled \in Seq(1..b) /\ received \in {0} \cup (1..b)
  BY <1>1, <1>2, TypeFacts, SeqWidens
<1>7. Len(trades') = b /\ DOMAIN trades' = 1..b
  BY <1>2
<1>8. UNCHANGED <<book_keeping, consumer, received, faults, replays>>
  BY DEF Emit
<1>9. FeedTyped'
  BY <1>5, <1>6, <1>7, <1>8, TypeFacts, CounterFacts DEF FeedTyped, book_keeping
<1>10. SettledInOrder' /\ GapHaltsPair' /\ ReplayBounds'
  BY <1>8 DEF FeedInv, SettledInOrder, GapHaltsPair, ReplayBounds, book_keeping, last
<1> QED
  BY <1>9, <1>10 DEF FeedInv

\* The sequence 1, 2, ... is continued by its next number.
LEMMA AppendNext ==
  ASSUME NEW l \in Nat, NEW s, s = [i \in 1..l |-> i]
  PROVE  Append(s, l + 1) = [i \in 1..(l + 1) |-> i]
<1>1. s \in Seq(Nat) /\ Len(s) = l
  OBVIOUS
<1> QED
  BY <1>1

\* The next trade is settled.
LEMMA SettleInv == ASSUME FeedInv, NEW n \in DOMAIN trades, Settle(n) PROVE FeedInv'
<1>1. Receive(n) /\ n = last + 1 /\ feed' = Tail(feed) /\ settled' = Append(settled, n)
      /\ UNCHANGED <<trades, consumer, faults, replays>>
  BY DEF Settle, IsNext
<1>0. n \in Nat /\ symbol \in Symbol
  BY TypeFacts
<1> DEFINE resumed == [last_sequence_id |-> n, mode |-> "active", replay_through |-> 0, halted_by_gap |-> FALSE]
           settling == [symbol EXCEPT !.last_sequence_id = n]
<1>a. symbol' = resumed \/ symbol' = settling
  BY DEF Settle
<1>b. pair_status' = "active" \/ pair_status' = pair_status
  BY DEF Settle
<1>c. resumed \in Symbol /\ resumed.last_sequence_id = n
  BY <1>0 DEF Symbol
<1>d. settling \in Symbol /\ settling.last_sequence_id = n
  BY <1>0 DEF Symbol
<1> HIDE DEF resumed, settling
<1>2. last' = n
  BY <1>a, <1>c, <1>d DEF last
<1>3. symbol' \in Symbol /\ pair_status' \in {"active", "halted"}
  BY <1>a, <1>b, <1>c, <1>d, CounterFacts
<1>4. settled' \in Seq(1..Len(trades))
  BY <1>1, TypeFacts, AppendProperties
<1>5. FeedTyped'
  BY <1>1, <1>3, <1>4, ReceiveStep, TypeFacts, CounterFacts DEF FeedTyped
<1>6. SettledInOrder'
  <2>1. settled = [i \in 1..last |-> i]
    BY DEF FeedInv, SettledInOrder
  <2>2. PICK l \in Nat : l = last
    BY TypeFacts
  <2> QED
    BY <1>1, <1>2, <2>1, <2>2, AppendNext DEF SettledInOrder
<1>e. received \in Nat
  BY TypeFacts
<1>7. /\ n \in Nat /\ received \in Nat /\ received' \in Nat
      /\ received' = n \/ (received' = received /\ received > n)
      /\ received <= n => received' = n
  BY <1>0, <1>1, <1>e DEF Receive
<1>8. CASE CaughtUp(n)
  <2>1. symbol.mode = "replay_required" /\ n >= symbol.replay_through
    BY <1>8 DEF CaughtUp
  <2>2. symbol' = resumed
    BY <1>8 DEF Settle, resumed
  <2>3. symbol.halted_by_gap /\ received <= symbol.replay_through /\ symbol.replay_through \in Nat
    BY <2>1, TypeFacts DEF FeedInv, ReplayBounds
  <2>4. pair_status' = "active"
    BY <1>8, <2>3 DEF Settle
  <2>5. received' = n
    BY <1>7, <2>1, <2>3
  <2>6. symbol'.mode = "active"
    BY <2>2 DEF resumed
  <2>7. GapHaltsPair'
    BY <1>2, <1>7, <2>4, <2>5, <2>6 DEF GapHaltsPair
  <2>8. ReplayBounds'
    BY <1>2, <1>7, <2>5, <2>6 DEF ReplayBounds
  <2> QED
    BY <1>5, <1>6, <2>7, <2>8 DEF FeedInv
<1>9. CASE ~CaughtUp(n)
  <2>1. symbol' = settling /\ pair_status' = pair_status
    BY <1>9 DEF Settle, settling
  <2>2. symbol'.mode = symbol.mode /\ symbol'.replay_through = symbol.replay_through
        /\ symbol'.halted_by_gap = symbol.halted_by_gap
    BY <1>0, <2>1 DEF Symbol, settling
  <2>3. symbol.mode = "replay_required" => n < symbol.replay_through
    BY <1>7, <1>9, TypeFacts DEF CaughtUp
  <2>4. ReplayBounds'
    BY <1>1, <1>2, <1>7, <2>2, <2>3, TypeFacts DEF FeedInv, ReplayBounds
  <2>5. GapHaltsPair'
    BY <1>1, <1>2, <1>7, <2>1, <2>2, TypeFacts DEF FeedInv, GapHaltsPair
  <2> QED
    BY <1>5, <1>6, <2>4, <2>5 DEF FeedInv
<1> QED
  BY <1>8, <1>9

\* A gap halts the pair and raises replay_through to the trade that revealed it.
LEMMA GapInv ==
  ASSUME FeedInv, NEW n \in DOMAIN trades, Gap(n),
         feed' \in Seq(1..Len(trades)), consumer' \in {"running", "down"}, faults' \in 0..MaxFaults
  PROVE  FeedInv'
<1>1. Receive(n) /\ n > last + 1 /\ pair_status' = "halted" /\ UNCHANGED <<trades, settled, replays>>
  BY DEF Gap
<1>2. n \in Nat /\ symbol \in Symbol /\ last \in Nat /\ received \in Nat /\ symbol.replay_through \in Nat
  BY TypeFacts
<1> DEFINE through == IF n > symbol.replay_through THEN n ELSE symbol.replay_through
           byGap   == symbol.halted_by_gap \/ pair_status = "active"
           halted  == [symbol EXCEPT !.mode = "replay_required", !.replay_through = through, !.halted_by_gap = byGap]
<1>3. symbol' = halted
  BY DEF Gap
<1>4. through \in Nat /\ through >= n /\ through >= symbol.replay_through
  BY <1>2
<1>5. byGap \in BOOLEAN /\ byGap
  <2>1. symbol.halted_by_gap \in BOOLEAN /\ symbol.mode \in {"active", "replay_required"}
    BY <1>2 DEF Symbol
  <2>2. symbol.mode = "replay_required" => symbol.halted_by_gap
    BY DEF FeedInv, ReplayBounds
  <2>3. symbol.mode # "replay_required" => pair_status = "active"
    BY CounterFacts DEF FeedInv, GapHaltsPair
  <2> QED
    BY <2>1, <2>2, <2>3
<1>6. received <= through
  <2>1. symbol.mode \in {"active", "replay_required"}
    BY <1>2 DEF Symbol
  <2>2. symbol.mode = "active" => received <= last + 1
    BY DEF FeedInv, ReplayBounds
  <2>3. symbol.mode = "replay_required" => received <= symbol.replay_through
    BY DEF FeedInv, ReplayBounds
  <2> HIDE DEF through
  <2> QED
    BY <1>1, <1>2, <1>4, <2>1, <2>2, <2>3
<1> HIDE DEF through, byGap
<1>7. /\ halted \in Symbol /\ halted.mode = "replay_required" /\ halted.replay_through = through
      /\ halted.halted_by_gap = byGap /\ halted.last_sequence_id = last
  BY <1>2, <1>4, <1>5 DEF Symbol, last
<1> HIDE DEF halted
<1>8. last' = last /\ symbol' \in Symbol /\ symbol'.mode = "replay_required" /\ symbol'.replay_through = through
      /\ symbol'.halted_by_gap
  BY <1>3, <1>5, <1>7 DEF last
<1>9. FeedTyped'
  BY <1>1, <1>8, ReceiveStep, TypeFacts, CounterFacts DEF FeedTyped
<1>10. SettledInOrder'
  BY <1>1, <1>8 DEF FeedInv, SettledInOrder
<1>11. GapHaltsPair'
  BY <1>1, <1>8 DEF GapHaltsPair
<1>12. received' = received \/ received' = n
  BY <1>1 DEF Receive
<1>13. last <= received
  BY DEF FeedInv, ReplayBounds
<1>14. ReplayBounds'
  BY <1>1, <1>2, <1>4, <1>6, <1>8, <1>12, <1>13 DEF ReplayBounds
<1> QED
  BY <1>9, <1>10, <1>11, <1>14 DEF FeedInv

\* The gap is recorded and the missing trades are published again.
LEMMA GapReplayedInv == ASSUME FeedInv, NEW n \in DOMAIN trades, GapReplayed(n) PROVE FeedInv'
<1>1. Gap(n) /\ Receive(n) /\ consumer' = consumer /\ faults' = faults
  BY DEF GapReplayed, Gap
<1>a. last + 1 \in Nat /\ Len(trades) \in Nat
  BY TypeFacts
<1>2. PICK a \in Nat, b \in Nat : a = last + 1 /\ b = Len(trades)
  BY <1>a
<1>3. Numbers(a, b) \in Seq(1..b)
  BY <1>2, TypeFacts, NumbersType
<1>4. Tail(feed) \in Seq(1..b)
  BY <1>1, <1>2, ReceiveStep
<1>5. feed' \in Seq(1..b)
  BY <1>2, <1>3, <1>4, ConcatProperties DEF GapReplayed
<1> QED
  BY <1>1, <1>2, <1>5, GapInv, CounterFacts

\* The gap is recorded even when the replay cannot be requested.
LEMMA GapReplayFailsInv == ASSUME FeedInv, NEW n \in DOMAIN trades, GapReplayFails(n) PROVE FeedInv'
<1>1. Gap(n) /\ Fault /\ consumer' = "down" /\ feed' = <<>>
  BY DEF GapReplayFails, Stop
<1> QED
  BY <1>1, GapInv, FaultType

\* In TradeFeed a trade is its number.
NumberInv == FeedInv /\ trades \in Seq(Nat)

\* Every step preserves the invariant.
LEMMA NextInv == ASSUME NumberInv, [FeedNext]_feedVars PROVE NumberInv'
<1>0. FeedInv /\ trades \in Seq(Nat)
  BY DEF NumberInv
<1> SUFFICES FeedInv' /\ trades' \in Seq(Nat)
  BY DEF NumberInv
<1>1. CASE EmitTrades
  <2>1. PICK k \in 1..(MaxTrades - Len(trades)) : Emit(Numbers(Len(trades) + 1, Len(trades) + k))
    BY <1>1 DEF EmitTrades
  <2>2. k \in Nat /\ Len(trades) \in Nat
    BY <1>0, TypeFacts
  <2>3. PICK ts : ts = Numbers(Len(trades) + 1, Len(trades) + k)
    OBVIOUS
  <2>4. ts \in [1..k -> Nat]
    BY <2>2, <2>3 DEF Numbers
  <2>5. ts \in Seq(Nat) /\ Len(ts) = k
    BY <2>2, <2>4
  <2>6. trades' = trades \o ts
    BY <2>1, <2>3 DEF Emit
  <2>7. trades' \in Seq(Nat) /\ Len(trades') = Len(trades) + k
    BY <1>0, <2>5, <2>6, ConcatProperties
  <2>8. DOMAIN trades' = 1..Len(trades')
    BY <2>7
  <2> QED
    BY <2>1, <2>2, <2>3, <2>5, <2>7, <2>8, <1>0, EmitInv
<1>2. ASSUME NEW n \in DOMAIN trades, Take(n) \/ GapReplayFails(n) \/ OtherReplay(n) \/ (Refuse(n) /\ Fault)
      PROVE  FeedInv'
  BY <1>0, <1>2, SettleInv, DuplicateInv, GapReplayedInv, GapReplayFailsInv, OtherReplayInv, RefuseInv, FaultType DEF Take
<1>3. ASSUME NEW n \in DOMAIN trades, Take(n) \/ GapReplayFails(n) \/ OtherReplay(n) \/ (Refuse(n) /\ Fault)
      PROVE  trades' = trades
  BY <1>3 DEF Take, Settle, Duplicate, GapReplayed, GapReplayFails, Gap, OtherReplay, Refuse
<1>4. CASE LoseEvent \/ ConsumerCrash \/ ConsumerRestart
  <2>1. trades' = trades
    BY <1>4 DEF LoseEvent, ConsumerCrash, ConsumerRestart
  <2> QED
    BY <1>0, <1>4, <2>1, LoseEventInv, ConsumerCrashInv, ConsumerRestartInv
<1>5. CASE FeedWait \/ UNCHANGED feedVars
  <2>1. UNCHANGED feedVars
    BY <1>5 DEF FeedWait
  <2> QED
    BY <1>0, <2>1, FeedKept DEF feedVars
<1> QED
  BY <1>0, <1>1, <1>2, <1>3, <1>4, <1>5 DEF FeedNext

\* The invariant holds throughout every behaviour of the feed.
THEOREM FeedInvariance == FeedSpec => []NumberInv
<1>1. FeedInit => NumberInv
  BY InitInv DEF FeedInit, NumberInv
<1>2. NumberInv /\ [FeedNext]_feedVars => NumberInv'
  BY NextInv
<1> QED
  BY <1>1, <1>2, PTL DEF FeedSpec

\* However many events are lost, duplicated or replayed, settleTradeOnce inserts
\* the trades 1, 2, 3, ... once each and in that order.
THEOREM AlwaysInOrder == FeedSpec => []SettledInOrder
<1>1. NumberInv => SettledInOrder
  BY DEF NumberInv, FeedInv
<1> QED
  BY <1>1, FeedInvariance, PTL

\* A pair whose consumer has seen beyond a missing trade is halted, and only
\* then: replay_through never lets it resume with a trade still missing.
THEOREM HaltedWhileGapOpen == FeedSpec => []GapHaltsPair
<1>1. NumberInv => GapHaltsPair
  BY DEF NumberInv, FeedInv
<1> QED
  BY <1>1, FeedInvariance, PTL

\* Every variable keeps its type: in particular only numbers of trades that
\* exist are published, received and settled.
THEOREM FeedTypeCorrect == FeedSpec => []FeedTypeOK
<1>1. NumberInv => FeedTypeOK
  BY DEF NumberInv, FeedInv, FeedTyped, FeedTypeOK
<1> QED
  BY <1>1, FeedInvariance, PTL

-----------------------------------------------------------------------------
(* The gateway *)

HIDE FeedAssumption

\* A trade is between two orders of opposite sides.
Trade == {t \in [maker: Orders, taker: Orders, price: Nat, quantity: Nat \ {0}] :
            Request[t.maker].side # Request[t.taker].side}

Row == [status: Status, filled: Int, hold: Int, released: BOOLEAN]

Balances == [Accounts -> [Assets -> [available: Int, held: Int]]]

-----------------------------------------------------------------------------
(* Amounts *)

\* What is asked for.
LEMMA RequestFacts ==
  ASSUME NEW o \in Orders
  PROVE  /\ Request[o].account \in Accounts /\ Request[o].side \in {"BUY", "SELL"}
         /\ Request[o].quantity \in Nat \ {0} /\ Request[o].price \in Nat
         /\ HoldAsset(o) \in Assets
  BY RequestAssumption DEF RequestType, HoldAsset, Assets

\* Dividing a natural number by a positive one.
LEMMA QuotientNat ==
  ASSUME NEW n \in Nat, NEW d \in Nat, d > 0
  PROVE  n \div d \in Nat
  OBVIOUS

\* Division by a constant is monotone.
LEMMA QuotientBounded ==
  ASSUME NEW n \in Nat, NEW x \in Nat, x <= 10000 * n
  PROVE  x \div 10000 \in Nat /\ x \div 10000 <= n
  OBVIOUS

\* A share of at most the whole is at most the whole.
LEMMA ShareBounded ==
  ASSUME NEW n \in Nat, NEW b \in Nat, b <= 10000
  PROVE  (n * b) \div 10000 \in Nat /\ (n * b) \div 10000 <= n
<1>1. n * b \in Nat /\ n * b <= 10000 * n
  OBVIOUS
<1> QED
  BY <1>1, QuotientBounded

\* The notional of a trade is a natural number.
LEMMA NotionalNat ==
  ASSUME NEW t \in Trade
  PROVE  Notional(t) \in Nat
<1>1. PICK p \in Nat : p = 10^Rules.QuoteScale
  BY ScaleAssumption
<1>2. PICK d \in Nat : d = 10^(Rules.PriceScale + Rules.QuantityScale) /\ d > 0
  BY ScaleAssumption
<1>3. t.price \in Nat /\ t.quantity \in Nat
  BY DEF Trade
<1>4. PICK m \in Nat : m = t.price * t.quantity * p
  BY <1>3
<1>5. Notional(t) = m \div d
  BY <1>1, <1>2, <1>4 DEF Notional, QuoteAmountForScales, quoteAmount
<1> QED
  BY <1>2, <1>5, QuotientNat

\* A fee is at most the notional it is taken from, and a hold is consumed by what is taken.
LEMMA FeeBounded ==
  ASSUME NEW t \in Trade, NEW o
  PROVE  /\ FeeOf(t, o) \in Int /\ FeeOf(t, o) <= Notional(t)
         /\ Consumes(t, o) \in Nat
<1>1. PICK n \in Nat : n = Notional(t)
  BY NotionalNat
<1>2. PICK b \in Int : b = IF o = t.maker THEN MakerFeeBPS ELSE TakerFeeBPS
  BY FeeAssumption DEF BasisPoints
<1>3. PICK m \in Nat : m = absInt64(b) /\ m <= 10000
  BY <1>2, FeeAssumption DEF absInt64, BasisPoints
<1>4. PICK f \in Nat : f = (n * m) \div 10000 /\ f <= n
  BY <1>3, ShareBounded
<1>5. FeeOf(t, o) = IF b < 0 THEN -f ELSE f
  BY <1>1, <1>2, <1>3, <1>4 DEF FeeOf, FeeAmount, BasisPoints
<1>6. t.quantity \in Nat
  BY DEF Trade
<1> QED
  BY <1>1, <1>4, <1>5, <1>6 DEF Consumes, holdConsumed

-----------------------------------------------------------------------------
(* What trades consume of the holds *)

\* What the trades ns among ts consume of the hold of an order, and how much of it they fill.
Use(t, o) == IF o \in Parties(t) THEN Consumes(t, o) ELSE 0
Volume(t, o) == IF o \in Parties(t) THEN t.quantity ELSE 0
UseOf(ts, o, ns) == SumFunctionOnSet([i \in DOMAIN ns |-> Use(ts[ns[i]], o)], DOMAIN ns)
VolumeOf(ts, o, ns) == SumFunctionOnSet([i \in DOMAIN ns |-> Volume(ts[ns[i]], o)], DOMAIN ns)

\* These are the sums of the model.
LEMMA ModelSums ==
  ASSUME NEW o, NEW ns
  PROVE  /\ Consumed(o, ns) = UseOf(trades, o, ns)
         /\ SettledQty(o, ns) = VolumeOf(trades, o, ns)
  BY DEF Consumed, SettledQty, UseOf, VolumeOf, Use, Volume, Parties, Party

\* The terms are integers.
LEMMA TermTypes ==
  ASSUME NEW t \in Trade, NEW o
  PROVE  Use(t, o) \in Int /\ Volume(t, o) \in Int
<1>1. Consumes(t, o) \in Int
  BY FeeBounded
<1>2. t.quantity \in Int
  BY DEF Trade
<1> QED
  BY <1>1, <1>2 DEF Use, Volume

\* The sums over settled trades are integers.
LEMMA SumTypes ==
  ASSUME NEW ts \in Seq(Trade), NEW ns \in Seq(DOMAIN ts), NEW o
  PROVE  UseOf(ts, o, ns) \in Int /\ VolumeOf(ts, o, ns) \in Int
<1>1. PICK k \in Nat : DOMAIN ns = 1..k /\ k = Len(ns)
  OBVIOUS
<1>2. IsFiniteSet(1..k)
  BY FS_Interval
<1>3. \A i \in 1..k : ts[ns[i]] \in Trade
  BY <1>1
<1>4. [i \in 1..k |-> Use(ts[ns[i]], o)] \in [1..k -> Int]
  BY <1>3, TermTypes
<1>5. [i \in 1..k |-> Volume(ts[ns[i]], o)] \in [1..k -> Int]
  BY <1>3, TermTypes
<1>6. UseOf(ts, o, ns) \in Int
  BY <1>1, <1>2, <1>4, SumType DEF UseOf
<1>7. VolumeOf(ts, o, ns) \in Int
  BY <1>1, <1>2, <1>5, SumType DEF VolumeOf
<1> QED
  BY <1>6, <1>7

\* One more trade is settled.
LEMMA SumsAppend ==
  ASSUME NEW ts \in Seq(Trade), NEW ns \in Seq(DOMAIN ts), NEW n \in DOMAIN ts, NEW o
  PROVE  /\ UseOf(ts, o, Append(ns, n)) = UseOf(ts, o, ns) + Use(ts[n], o)
         /\ VolumeOf(ts, o, Append(ns, n)) = VolumeOf(ts, o, ns) + Volume(ts[n], o)
<1>1. PICK k \in Nat : DOMAIN ns = 1..k /\ k = Len(ns)
  OBVIOUS
<1>2. PICK ms \in Seq(DOMAIN ts) : ms = Append(ns, n)
  BY AppendProperties
<1>3. DOMAIN ms = 1..(k + 1) /\ ms[k + 1] = n /\ \A i \in 1..k : ms[i] = ns[i]
  BY <1>1, <1>2
<1>4. (\A i \in 1..k : ts[ns[i]] \in Trade) /\ (\A i \in 1..(k + 1) : ts[ms[i]] \in Trade)
  BY <1>1, <1>3
<1>5. UseOf(ts, o, ms) = UseOf(ts, o, ns) + Use(ts[n], o)
  <2> DEFINE f == [i \in 1..k |-> Use(ts[ns[i]], o)]
             g == [i \in 1..(k + 1) |-> Use(ts[ms[i]], o)]
  <2>1. f \in [1..k -> Int] /\ g \in [1..(k + 1) -> Int]
    BY <1>4, TermTypes
  <2>2. (\A i \in 1..k : g[i] = f[i]) /\ g[k + 1] = Use(ts[n], o)
    BY <1>3
  <2>3. UseOf(ts, o, ms) = SumFunctionOnSet(g, 1..(k + 1)) /\ UseOf(ts, o, ns) = SumFunctionOnSet(f, 1..k)
    BY <1>1, <1>3 DEF UseOf
  <2> HIDE DEF f, g
  <2> QED
    BY <2>1, <2>2, <2>3, SumOneMore
<1>6. VolumeOf(ts, o, ms) = VolumeOf(ts, o, ns) + Volume(ts[n], o)
  <2> DEFINE f == [i \in 1..k |-> Volume(ts[ns[i]], o)]
             g == [i \in 1..(k + 1) |-> Volume(ts[ms[i]], o)]
  <2>1. f \in [1..k -> Int] /\ g \in [1..(k + 1) -> Int]
    BY <1>4, TermTypes
  <2>2. (\A i \in 1..k : g[i] = f[i]) /\ g[k + 1] = Volume(ts[n], o)
    BY <1>3
  <2>3. VolumeOf(ts, o, ms) = SumFunctionOnSet(g, 1..(k + 1)) /\ VolumeOf(ts, o, ns) = SumFunctionOnSet(f, 1..k)
    BY <1>1, <1>3 DEF VolumeOf
  <2> HIDE DEF f, g
  <2> QED
    BY <2>1, <2>2, <2>3, SumOneMore
<1> QED
  BY <1>2, <1>5, <1>6

\* New trades change nothing in the sums over the settled ones.
LEMMA SumsOfOld ==
  ASSUME NEW ts \in Seq(Trade), NEW us \in Seq(Trade), NEW ns \in Seq(DOMAIN ts), NEW o
  PROVE  /\ UseOf(ts \o us, o, ns) = UseOf(ts, o, ns)
         /\ VolumeOf(ts \o us, o, ns) = VolumeOf(ts, o, ns)
<1>1. \A i \in DOMAIN ns : (ts \o us)[ns[i]] = ts[ns[i]]
  OBVIOUS
<1> QED
  BY <1>1 DEF UseOf, VolumeOf

-----------------------------------------------------------------------------
(* Balances *)

\* A reservation moves the amount and touches one balance only.
LEMMA ReserveEffect ==
  ASSUME NEW b \in Balances, NEW a \in Accounts, NEW x \in Assets, NEW n \in Int
  PROVE  /\ Reserve(b, a, x, n) \in Balances
         /\ \A c \in Accounts, y \in Assets :
              /\ Reserve(b, a, x, n)[c][y].held = b[c][y].held + (IF c = a /\ y = x THEN n ELSE 0)
              /\ Reserve(b, a, x, n)[c][y].available = b[c][y].available - (IF c = a /\ y = x THEN n ELSE 0)
<1>1. \A c \in Accounts : b[c] \in [Assets -> [available: Int, held: Int]]
  BY DEF Balances
<1>2. PICK r \in [available: Int, held: Int] : r = [available |-> b[a][x].available - n, held |-> b[a][x].held + n]
  <2>1. b[a][x] \in [available: Int, held: Int]
    BY <1>1
  <2>2. b[a][x].available - n \in Int /\ b[a][x].held + n \in Int
    BY <2>1
  <2> QED
    BY <2>2
<1>3. Reserve(b, a, x, n) = [b EXCEPT ![a][x] = r]
  BY <1>2 DEF Reserve
<1>4. [b EXCEPT ![a][x] = r] \in Balances
  BY <1>1 DEF Balances
<1>5. \A c \in Accounts, y \in Assets : [b EXCEPT ![a][x] = r][c][y] = IF c = a /\ y = x THEN r ELSE b[c][y]
  BY <1>1 DEF Balances
<1>6. r.available = b[a][x].available - n /\ r.held = b[a][x].held + n
  BY <1>2
<1>7. \A c \in Accounts, y \in Assets : b[c][y].available \in Int /\ b[c][y].held \in Int
  BY <1>1
<1> QED
  BY <1>3, <1>4, <1>5, <1>6, <1>7

\* Buyer and seller are the two parties of a trade.
LEMMA TwoParties ==
  ASSUME NEW t \in Trade
  PROVE  /\ Buyer(t) \in Orders /\ Seller(t) \in Orders
         /\ t.maker \in Orders /\ t.taker \in Orders
         /\ Request[Buyer(t)].side = "BUY" /\ Request[Seller(t)].side = "SELL"
         /\ {t.maker, t.taker} = {Buyer(t), Seller(t)} /\ t.maker # t.taker
         /\ HoldAsset(Buyer(t)) = "quote" /\ HoldAsset(Seller(t)) = "base"
         /\ Consumes(t, Seller(t)) = t.quantity
<1>1. t.maker \in Orders /\ t.taker \in Orders /\ Request[t.maker].side # Request[t.taker].side
  BY DEF Trade
<1>2. Request[t.maker].side \in {"BUY", "SELL"} /\ Request[t.taker].side \in {"BUY", "SELL"}
  BY <1>1, RequestFacts
<1> QED
  BY <1>1, <1>2 DEF Buyer, Seller, HoldAsset, Consumes, holdConsumed

\* One line of the journal, and what it adds to a balance.
Line(a, x, bucket, amount) == [account |-> a, asset |-> x, bucket |-> bucket, amount |-> amount]
Adds(p, a, x, bucket) == IF p.account = a /\ p.asset = x /\ p.bucket = bucket THEN p.amount ELSE 0

\* The sum of five lines.
LEMMA TotalOfFive ==
  ASSUME NEW ps, DOMAIN ps = 1..5, \A i \in 1..5 : ps[i].amount \in Int, NEW a, NEW x, NEW k
  PROVE  Total(ps, a, x, k) = Adds(ps[1], a, x, k) + Adds(ps[2], a, x, k) + Adds(ps[3], a, x, k)
                              + Adds(ps[4], a, x, k) + Adds(ps[5], a, x, k)
<1> DEFINE f == [i \in 1..5 |-> Adds(ps[i], a, x, k)]
<1>1. f \in [1..5 -> Int]
  BY DEF Adds
<1>2. Total(ps, a, x, k) = SumFunctionOnSet(f, 1..5)
  BY DEF Total, Adds
<1>3. f[1] = Adds(ps[1], a, x, k) /\ f[2] = Adds(ps[2], a, x, k) /\ f[3] = Adds(ps[3], a, x, k)
      /\ f[4] = Adds(ps[4], a, x, k) /\ f[5] = Adds(ps[5], a, x, k)
  OBVIOUS
<1> HIDE DEF f
<1> QED
  BY <1>1, <1>2, <1>3, SumOfFive

\* The postings of a trade take what is consumed out of the two holds, and nothing out of
\* what is available.
LEMMA TradeTotals ==
  ASSUME NEW t \in Trade, NEW a \in Accounts
  PROVE  /\ Total(TradePostings(t), a, "quote", "held") =
              -(IF a = Request[Buyer(t)].account THEN Consumes(t, Buyer(t)) ELSE 0)
         /\ Total(TradePostings(t), a, "base", "held") =
              -(IF a = Request[Seller(t)].account THEN Consumes(t, Seller(t)) ELSE 0)
         /\ \A x \in Assets : Total(TradePostings(t), a, x, "available") \in Nat
<1>1. PICK b, s : b = Request[Buyer(t)].account /\ s = Request[Seller(t)].account
  OBVIOUS
<1>2. PICK q \in Nat : q = t.quantity /\ q = Consumes(t, Seller(t))
  BY TwoParties DEF Trade
<1>3. PICK c \in Nat : c = Consumes(t, Buyer(t))
  BY FeeBounded
<1>4. PICK r \in Nat : r = IF FeeOf(t, Buyer(t)) < 0 THEN -FeeOf(t, Buyer(t)) ELSE 0
  BY FeeBounded
<1>5. PICK g \in Nat : g = Notional(t) - FeeOf(t, Seller(t))
  BY FeeBounded, NotionalNat
<1>6. PICK ps : ps = TradePostings(t)
  OBVIOUS
<1>7. ps = <<Line(s, "base", "held", -q), Line(b, "base", "available", q), Line(b, "quote", "held", -c),
             Line(b, "quote", "available", r), Line(s, "quote", "available", g)>>
  BY <1>1, <1>2, <1>3, <1>4, <1>5, <1>6 DEF TradePostings, Line
<1>8. /\ DOMAIN ps = 1..5
      /\ ps[1] = Line(s, "base", "held", -q) /\ ps[2] = Line(b, "base", "available", q)
      /\ ps[3] = Line(b, "quote", "held", -c) /\ ps[4] = Line(b, "quote", "available", r)
      /\ ps[5] = Line(s, "quote", "available", g)
  BY <1>7
<1>9. \A i \in 1..5 : ps[i].amount \in Int
  BY <1>8 DEF Line
<1>10. Total(ps, a, "quote", "held") = -(IF a = b THEN c ELSE 0)
  <2>1. Total(ps, a, "quote", "held") =
          Adds(ps[1], a, "quote", "held") + Adds(ps[2], a, "quote", "held") + Adds(ps[3], a, "quote", "held")
          + Adds(ps[4], a, "quote", "held") + Adds(ps[5], a, "quote", "held")
    BY <1>8, <1>9, TotalOfFive
  <2> QED
    BY <1>8, <2>1 DEF Adds, Line
<1>11. Total(ps, a, "base", "held") = -(IF a = s THEN q ELSE 0)
  <2>1. Total(ps, a, "base", "held") =
          Adds(ps[1], a, "base", "held") + Adds(ps[2], a, "base", "held") + Adds(ps[3], a, "base", "held")
          + Adds(ps[4], a, "base", "held") + Adds(ps[5], a, "base", "held")
    BY <1>8, <1>9, TotalOfFive
  <2> QED
    BY <1>8, <2>1 DEF Adds, Line
<1>12. ASSUME NEW x \in Assets PROVE Total(ps, a, x, "available") \in Nat
  <2>1. Total(ps, a, x, "available") =
          Adds(ps[1], a, x, "available") + Adds(ps[2], a, x, "available") + Adds(ps[3], a, x, "available")
          + Adds(ps[4], a, x, "available") + Adds(ps[5], a, x, "available")
    BY <1>8, <1>9, TotalOfFive
  <2>2. Adds(ps[1], a, x, "available") = 0 /\ Adds(ps[3], a, x, "available") = 0
    BY <1>8 DEF Adds, Line
  <2>3. Adds(ps[2], a, x, "available") \in Nat /\ Adds(ps[4], a, x, "available") \in Nat
        /\ Adds(ps[5], a, x, "available") \in Nat
    BY <1>8 DEF Adds, Line
  <2> QED
    BY <2>1, <2>2, <2>3
<1> QED
  BY <1>1, <1>2, <1>3, <1>6, <1>10, <1>11, <1>12

\* Posting a trade.
LEMMA PostEffect ==
  ASSUME NEW t \in Trade, NEW b \in Balances
  PROVE  /\ Post(b, TradePostings(t)) \in Balances
         /\ \A a \in Accounts :
              /\ Post(b, TradePostings(t))[a]["quote"].held =
                   b[a]["quote"].held - (IF a = Request[Buyer(t)].account THEN Consumes(t, Buyer(t)) ELSE 0)
              /\ Post(b, TradePostings(t))[a]["base"].held =
                   b[a]["base"].held - (IF a = Request[Seller(t)].account THEN Consumes(t, Seller(t)) ELSE 0)
              /\ \A x \in Assets : Post(b, TradePostings(t))[a][x].available >= b[a][x].available
<1>1. PICK ps : ps = TradePostings(t)
  OBVIOUS
<1>2. /\ Consumes(t, Buyer(t)) \in Nat /\ Consumes(t, Seller(t)) \in Nat
      /\ \A a \in Accounts, x \in Assets : Total(ps, a, x, "held") \in Int /\ Total(ps, a, x, "available") \in Nat
  BY <1>1, FeeBounded, TradeTotals DEF Assets
<1>3. \A a \in Accounts, x \in Assets : b[a][x].available \in Int /\ b[a][x].held \in Int
  BY DEF Balances
<1>4. \A a \in Accounts, x \in Assets :
        Post(b, ps)[a][x] = [available |-> b[a][x].available + Total(ps, a, x, "available"),
                             held      |-> b[a][x].held + Total(ps, a, x, "held")]
  BY DEF Post
<1>5. Post(b, ps) \in Balances
  BY <1>2, <1>3 DEF Post, Balances
<1>6. \A a \in Accounts, x \in Assets : /\ Post(b, ps)[a][x].available = b[a][x].available + Total(ps, a, x, "available")
                                        /\ Post(b, ps)[a][x].held = b[a][x].held + Total(ps, a, x, "held")
  <2> SUFFICES ASSUME NEW a \in Accounts, NEW x \in Assets
               PROVE  /\ Post(b, ps)[a][x].available = b[a][x].available + Total(ps, a, x, "available")
                      /\ Post(b, ps)[a][x].held = b[a][x].held + Total(ps, a, x, "held")
    OBVIOUS
  <2>1. PICK v, h : v = b[a][x].available + Total(ps, a, x, "available") /\ h = b[a][x].held + Total(ps, a, x, "held")
    OBVIOUS
  <2>2. Post(b, ps)[a][x] = [available |-> v, held |-> h]
    BY <1>4, <2>1
  <2> QED
    BY <2>1, <2>2
<1>7. "quote" \in Assets /\ "base" \in Assets
  BY DEF Assets
<1>8. ASSUME NEW a \in Accounts
      PROVE  /\ Post(b, ps)[a]["quote"].held =
                  b[a]["quote"].held - (IF a = Request[Buyer(t)].account THEN Consumes(t, Buyer(t)) ELSE 0)
             /\ Post(b, ps)[a]["base"].held =
                  b[a]["base"].held - (IF a = Request[Seller(t)].account THEN Consumes(t, Seller(t)) ELSE 0)
  <2>1. /\ Total(ps, a, "quote", "held") = -(IF a = Request[Buyer(t)].account THEN Consumes(t, Buyer(t)) ELSE 0)
        /\ Total(ps, a, "base", "held") = -(IF a = Request[Seller(t)].account THEN Consumes(t, Seller(t)) ELSE 0)
    BY <1>1, TradeTotals
  <2> QED
    BY <1>2, <1>3, <1>6, <1>7, <2>1
<1>9. \A a \in Accounts, x \in Assets : Post(b, ps)[a][x].available >= b[a][x].available
  BY <1>2, <1>3, <1>6
<1> QED
  BY <1>1, <1>5, <1>8, <1>9

-----------------------------------------------------------------------------
(* Holds *)

\* What order o, with row r and the amount used of its hold, has reserved of a balance.
HoldTerm(r, used, o, a, x) == IF Request[o].account = a /\ HoldAsset(o) = x /\ ~r.released THEN r.hold - used ELSE 0

HoldsOf(os, ts, ns, a, x) ==
  SumFunctionOnSet([o \in Orders |-> HoldTerm(os[o], UseOf(ts, o, ns), o, a, x)], Orders)

HeldExactly(b, os, ts, ns) == \A a \in Accounts, x \in Assets : b[a][x].held = HoldsOf(os, ts, ns, a, x)

\* HeldIsReserved in terms of the rows.
LEMMA HeldModel ==
  /\ HeldIsReserved <=> HeldExactly(balance, orders, trades, settled)
  /\ HeldIsReserved' <=> HeldExactly(balance', orders', trades', settled')
<1>1. \A a, x : OpenHolds(a, x) = HoldsOf(orders, trades, settled, a, x)
  BY DEF OpenHolds, HoldsOf, HoldTerm, HoldLeft, UseOf, Consumed, Use, Parties, Party
<1>2. \A a, x : OpenHolds(a, x)' = HoldsOf(orders', trades', settled', a, x)
  BY DEF OpenHolds, HoldsOf, HoldTerm, HoldLeft, UseOf, Consumed, Use, Parties, Party
<1> QED
  BY <1>1, <1>2 DEF HeldIsReserved, HeldExactly

\* What an order has reserved is an integer.
LEMMA HoldTypes ==
  ASSUME NEW os \in [Orders -> Row], NEW ts \in Seq(Trade), NEW ns \in Seq(DOMAIN ts), NEW a, NEW x, NEW o \in Orders
  PROVE  HoldTerm(os[o], UseOf(ts, o, ns), o, a, x) \in Int
<1>1. os[o].hold \in Int
  BY DEF Row
<1>2. UseOf(ts, o, ns) \in Int
  BY SumTypes
<1> QED
  BY <1>1, <1>2 DEF HoldTerm

\* Holds depend on the amounts, on what is released and on what is used.
LEMMA HoldsSame ==
  ASSUME NEW os, NEW ts, NEW ns, NEW os2, NEW ts2, NEW ns2, NEW a, NEW x,
         \A o \in Orders : /\ os2[o].hold = os[o].hold /\ os2[o].released = os[o].released
                           /\ UseOf(ts2, o, ns2) = UseOf(ts, o, ns)
  PROVE  HoldsOf(os2, ts2, ns2, a, x) = HoldsOf(os, ts, ns, a, x)
  BY DEF HoldsOf, HoldTerm

\* Rows, trades and settled trades of their types.
TablesTyped(os, ts, ns) == os \in [Orders -> Row] /\ ts \in Seq(Trade) /\ ns \in Seq(DOMAIN ts)

\* Everything is as it was for the orders other than p.
SameBut(p, a, x, os, ts, ns, os2, ts2, ns2) ==
  \A o \in Orders \ {p} :
    HoldTerm(os2[o], UseOf(ts2, o, ns2), o, a, x) = HoldTerm(os[o], UseOf(ts, o, ns), o, a, x)

\* The holds of one order change.
LEMMA HoldsChange ==
  ASSUME NEW os, NEW ts, NEW ns, NEW os2, NEW ts2, NEW ns2, NEW a, NEW x, NEW p \in Orders,
         TablesTyped(os, ts, ns), TablesTyped(os2, ts2, ns2), SameBut(p, a, x, os, ts, ns, os2, ts2, ns2)
  PROVE  HoldsOf(os2, ts2, ns2, a, x) =
           HoldsOf(os, ts, ns, a, x) - HoldTerm(os[p], UseOf(ts, p, ns), p, a, x)
                                     + HoldTerm(os2[p], UseOf(ts2, p, ns2), p, a, x)
<1> DEFINE f == [o \in Orders |-> HoldTerm(os[o], UseOf(ts, o, ns), o, a, x)]
           g == [o \in Orders |-> HoldTerm(os2[o], UseOf(ts2, o, ns2), o, a, x)]
<1>1. f \in [Orders -> Int]
  BY HoldTypes DEF TablesTyped
<1>2. g \in [Orders -> Int]
  BY HoldTypes DEF TablesTyped
<1>3. \A o \in Orders \ {p} : g[o] = f[o]
  BY DEF SameBut
<1>4. /\ f[p] = HoldTerm(os[p], UseOf(ts, p, ns), p, a, x)
      /\ g[p] = HoldTerm(os2[p], UseOf(ts2, p, ns2), p, a, x)
  OBVIOUS
<1>5. HoldsOf(os, ts, ns, a, x) = SumFunctionOnSet(f, Orders) /\ HoldsOf(os2, ts2, ns2, a, x) = SumFunctionOnSet(g, Orders)
  BY DEF HoldsOf
<1> HIDE DEF f, g
<1>6. PICK F \in [Orders -> Int], G \in [Orders -> Int] : F = f /\ G = g
  BY <1>1, <1>2
<1>7. \A o \in Orders \ {p} : G[o] = F[o]
  BY <1>3, <1>6
<1>8. SumFunctionOnSet(G, Orders) = SumFunctionOnSet(F, Orders) - F[p] + G[p]
  BY <1>7, FiniteAssumption, SumOneChanges
<1> QED
  BY <1>4, <1>5, <1>6, <1>8

-----------------------------------------------------------------------------
(* The invariant *)

\* A cancellation in progress is of an order.
CallsTyped ==
  /\ DOMAIN call = Callers
  /\ \A c \in Callers : call[c].op = "cancel" => call[c].order \in Orders

\* The types.  That the amount of a hold or of a fill is not negative is not needed.
Typed ==
  /\ trades \in Seq(Trade)
  /\ settled \in Seq(DOMAIN trades)
  /\ orders \in [Orders -> Row]
  /\ balance \in Balances
  /\ resting \in [Orders -> Nat]
  /\ order_replies \in [Orders -> [status: Status, filled: Int]]
  /\ CallsTyped

\* A row that does not exist has no hold.
NewRows == \A o \in Orders : orders[o].status = "NONE" => orders[o].hold = 0 /\ ~orders[o].released

\* A hold is released when the order is refused or canceled, or when all of it is settled:
\* no trade is settled with it any more.
ReleasedRows ==
  \A o \in Orders : orders[o].released =>
    \/ orders[o].status \in {"CANCELED", "REJECTED"}
    \/ orders[o].status = "FILLED" /\ SettledQty(o, settled) = Request[o].quantity

\* The hold of a sell order is what it sells, and trades were settled within it.
SellHolds ==
  \A o \in Orders : Request[o].side = "SELL" =>
    /\ SettledQty(o, settled) <= orders[o].hold
    /\ orders[o].status # "NONE" => orders[o].hold = Request[o].quantity

\* Nobody has spent more than he had.
Spendable == \A a \in Accounts, x \in Assets : balance[a][x].available >= 0

\* The inductive invariant of the books.
BooksInv == Typed /\ NewRows /\ ReleasedRows /\ SellHolds /\ HeldIsReserved /\ Spendable

\* Steps that leave holds, balances and settled trades alone.
LEMMA HoldsKept ==
  ASSUME BooksInv, balance' = balance, settled' = settled,
         NEW ts \in Seq(Trade), trades' = trades \o ts,
         \A o \in Orders : orders'[o].hold = orders[o].hold /\ orders'[o].released = orders[o].released
  PROVE  HeldIsReserved' /\ Spendable'
<1>1. trades \in Seq(Trade) /\ settled \in Seq(DOMAIN trades)
  BY DEF BooksInv, Typed
<1>2. \A o \in Orders : UseOf(trades', o, settled') = UseOf(trades, o, settled)
  BY <1>1, SumsOfOld
<1>3. \A a \in Accounts, x \in Assets :
        HoldsOf(orders', trades', settled', a, x) = HoldsOf(orders, trades, settled, a, x)
  BY <1>2, HoldsSame
<1>4. HeldExactly(balance, orders, trades, settled)
  BY HeldModel DEF BooksInv
<1>5. HeldExactly(balance', orders', trades', settled')
  BY <1>3, <1>4 DEF HeldExactly
<1>6. Spendable'
  BY DEF BooksInv, Spendable
<1> QED
  BY <1>5, <1>6, HeldModel

\* The rest of a hold goes back when its row is marked as released.
LEMMA HoldReleased ==
  ASSUME BooksInv, NEW o \in Orders, Releasable(o, HeldFor(o), settled),
         balance' = Release(o, balance, settled), settled' = settled, trades' = trades,
         orders' \in [Orders -> Row], orders'[o].released, orders'[o].hold = orders[o].hold,
         \A p \in Orders \ {o} : orders'[p] = orders[p]
  PROVE  balance' \in Balances /\ HeldIsReserved' /\ Spendable'
<1>1. /\ trades \in Seq(Trade) /\ settled \in Seq(DOMAIN trades) /\ orders \in [Orders -> Row] /\ balance \in Balances
  BY DEF BooksInv, Typed
<1>2. HeldExactly(balance, orders, trades, settled)
  BY HeldModel DEF BooksInv
<1>3. PICK a \in Accounts, x \in Assets : a = Request[o].account /\ x = HoldAsset(o)
  BY RequestFacts
<1>4. PICK n \in Int : n = IF orders[o].released THEN 0 ELSE HoldLeft(o, settled)
  <2>1. orders[o].hold \in Int
    BY <1>1 DEF Row
  <2>2. UseOf(trades, o, settled) \in Int
    BY <1>1, SumTypes
  <2> QED
    BY <2>1, <2>2, ModelSums DEF HoldLeft
<1>5. /\ balance' \in Balances
      /\ \A c \in Accounts, y \in Assets :
           /\ balance'[c][y].held = balance[c][y].held - (IF c = a /\ y = x THEN n ELSE 0)
           /\ balance'[c][y].available = balance[c][y].available + (IF c = a /\ y = x THEN n ELSE 0)
  <2>1. \A c \in Accounts, y \in Assets : balance[c][y].held \in Int /\ balance[c][y].available \in Int
    BY <1>1 DEF Balances
  <2>2. CASE orders[o].released
    BY <1>1, <1>4, <2>1, <2>2 DEF Release
  <2>3. CASE ~orders[o].released
    <3>1. balance' = Reserve(balance, a, x, -n)
      BY <1>3, <1>4, <2>3 DEF Release
    <3>2. PICK m \in Int : m = -n
      OBVIOUS
    <3>3. /\ Reserve(balance, a, x, m) \in Balances
          /\ \A c \in Accounts, y \in Assets :
              /\ Reserve(balance, a, x, m)[c][y].held = balance[c][y].held + (IF c = a /\ y = x THEN m ELSE 0)
              /\ Reserve(balance, a, x, m)[c][y].available = balance[c][y].available - (IF c = a /\ y = x THEN m ELSE 0)
      BY <1>1, ReserveEffect
    <3> QED
      BY <2>1, <3>1, <3>2, <3>3
  <2> QED
    BY <2>2, <2>3
<1>6. n >= 0
  BY <1>4 DEF Releasable
<1>7. Spendable'
  <2>1. \A c \in Accounts, y \in Assets : balance[c][y].available \in Int /\ balance[c][y].available >= 0
    BY <1>1 DEF Balances, BooksInv, Spendable
  <2> QED
    BY <1>5, <1>6, <2>1 DEF Spendable
<1>8. ASSUME NEW c \in Accounts, NEW y \in Assets
      PROVE  balance'[c][y].held = HoldsOf(orders', trades', settled', c, y)
  <2>1. SameBut(o, c, y, orders, trades, settled, orders', trades', settled')
    BY DEF SameBut
  <2>2. HoldsOf(orders', trades', settled', c, y) =
          HoldsOf(orders, trades, settled, c, y) - HoldTerm(orders[o], UseOf(trades, o, settled), o, c, y)
            + HoldTerm(orders'[o], UseOf(trades', o, settled'), o, c, y)
    <3>1. TablesTyped(orders, trades, settled) /\ TablesTyped(orders', trades', settled')
      BY <1>1 DEF TablesTyped
    <3> QED
      BY <2>1, <3>1, HoldsChange
  <2>3. HoldTerm(orders'[o], UseOf(trades', o, settled'), o, c, y) = 0
    BY DEF HoldTerm
  <2>4. HoldTerm(orders[o], UseOf(trades, o, settled), o, c, y) = IF c = a /\ y = x THEN n ELSE 0
    BY <1>3, <1>4, ModelSums DEF HoldTerm, HoldLeft
  <2>5. balance[c][y].held = HoldsOf(orders, trades, settled, c, y) /\ balance[c][y].held \in Int
    BY <1>1, <1>2 DEF HeldExactly, Balances
  <2> QED
    BY <1>5, <2>2, <2>3, <2>4, <2>5
<1> QED
  BY <1>5, <1>7, <1>8, HeldModel DEF HeldExactly

-----------------------------------------------------------------------------
(* Steps that move no money *)

Replies == [Orders -> [status: Status, filled: Int]]

\* A caller goes on to something else.
LEMMA CallChanged ==
  ASSUME CallsTyped, NEW c \in Callers, NEW v, v.op = "cancel" => v.order \in Orders,
         call' = [call EXCEPT ![c] = v]
  PROVE  CallsTyped'
  BY DEF CallsTyped

\* What the calls look like that are not cancellations.
LEMMA CallForms ==
  /\ Idle.op # "cancel"
  /\ \A os : Dispatching(os).op # "cancel"
  /\ \A o, k, id : Canceling(o, k, id).order = o
  BY DEF Idle, Dispatching, Canceling

\* A caller asks the engine to cancel an order.
LEMMA CancelCall ==
  ASSUME CallsTyped, NEW c \in Callers, NEW o \in Orders, NEW k, RequestCancel(c, o, k)
  PROVE  CallsTyped'
<1>1. PICK v : v = Canceling(o, k, NewCommandId)
  OBVIOUS
<1>2. v.order \in Orders
  BY <1>1, CallForms
<1>3. call' = [call EXCEPT ![c] = v]
  BY <1>1 DEF RequestCancel
<1> QED
  BY <1>2, <1>3, CallChanged

\* Tables and settled trades stay as they are; the engine may have new trades.
LEMMA QuietStep ==
  ASSUME BooksInv, orders' = orders, balance' = balance, settled' = settled,
         NEW ts \in Seq(Trade), trades' = trades \o ts,
         resting' \in [Orders -> Nat], order_replies' \in Replies, CallsTyped'
  PROVE  BooksInv'
<1>1. trades \in Seq(Trade) /\ settled \in Seq(DOMAIN trades)
  BY DEF BooksInv, Typed
<1>2. trades' \in Seq(Trade) /\ DOMAIN trades \subseteq DOMAIN trades'
  BY <1>1, ConcatProperties
<1>3. settled' \in Seq(DOMAIN trades')
  BY <1>1, <1>2, SeqMonotonic
<1>4. Typed'
  BY <1>2, <1>3 DEF BooksInv, Typed, Replies
<1>5. NewRows'
  BY DEF BooksInv, NewRows
<1>6. ReleasedRows' /\ SellHolds'
  <2>1. \A o \in Orders : SettledQty(o, settled)' = VolumeOf(trades', o, settled')
    BY DEF SettledQty, VolumeOf, Volume, Parties, Party
  <2>2. \A o \in Orders : SettledQty(o, settled)' = SettledQty(o, settled)
    BY <1>1, <2>1, ModelSums, SumsOfOld
  <2> QED
    BY <2>2 DEF BooksInv, ReleasedRows, SellHolds
<1>7. HeldIsReserved' /\ Spendable'
  BY HoldsKept
<1> QED
  BY <1>4, <1>5, <1>6, <1>7 DEF BooksInv

\* The special case without new trades.
LEMMA StillStep ==
  ASSUME BooksInv, UNCHANGED <<orders, balance, settled, trades>>,
         resting' \in [Orders -> Nat], order_replies' \in Replies, CallsTyped'
  PROVE  BooksInv'
<1>1. trades' = trades \o <<>> /\ <<>> \in Seq(Trade)
  BY DEF BooksInv, Typed
<1> QED
  BY <1>1, QuietStep

\* Rows change their status; a released one does not.
LEMMA StatusStep ==
  ASSUME BooksInv, UNCHANGED <<balance, settled, trades, resting, order_replies>>, CallsTyped',
         orders' \in [Orders -> Row],
         \A o \in Orders : /\ orders'[o].hold = orders[o].hold /\ orders'[o].released = orders[o].released
                           /\ \/ orders'[o].status = orders[o].status
                              \/ ~orders[o].released /\ orders[o].status # "NONE" /\ orders'[o].status # "NONE"
  PROVE  BooksInv'
<1>1. trades' = trades \o <<>> /\ <<>> \in Seq(Trade)
  BY DEF BooksInv, Typed
<1>2. Typed'
  BY DEF BooksInv, Typed
<1>3. NewRows'
  BY DEF BooksInv, NewRows
<1>4. \A o \in Orders : SettledQty(o, settled)' = SettledQty(o, settled)
  BY DEF SettledQty, Party
<1>5. ReleasedRows' /\ SellHolds'
  BY <1>4 DEF BooksInv, ReleasedRows, SellHolds
<1>6. HeldIsReserved' /\ Spendable'
  BY <1>1, HoldsKept
<1> QED
  BY <1>2, <1>3, <1>5, <1>6 DEF BooksInv

\* A row becomes CANCELED or REJECTED, and what is left of its hold is released.
LEMMA EndStep ==
  ASSUME BooksInv, UNCHANGED <<settled, trades, resting, order_replies>>, CallsTyped',
         NEW o \in Orders, Releasable(o, HeldFor(o), settled), balance' = Release(o, balance, settled),
         orders' \in [Orders -> Row], \A p \in Orders \ {o} : orders'[p] = orders[p],
         orders'[o].released, orders'[o].hold = orders[o].hold,
         orders[o].status # "NONE", orders'[o].status \in {"CANCELED", "REJECTED"}
  PROVE  BooksInv'
<1>1. balance' \in Balances /\ HeldIsReserved' /\ Spendable'
  BY HoldReleased
<1>2. Typed'
  BY <1>1 DEF BooksInv, Typed
<1>3. NewRows'
  BY DEF BooksInv, NewRows
<1>4. \A p \in Orders : SettledQty(p, settled)' = SettledQty(p, settled)
  BY DEF SettledQty, Party
<1>5. ReleasedRows' /\ SellHolds'
  BY <1>4 DEF BooksInv, ReleasedRows, SellHolds
<1> QED
  BY <1>1, <1>2, <1>3, <1>5 DEF BooksInv

\* Changing the status of one row.
LEMMA RowStatus ==
  ASSUME NEW os \in [Orders -> Row], NEW o \in Orders, NEW st \in Status
  PROVE  /\ [os EXCEPT ![o].status = st] \in [Orders -> Row]
         /\ [os EXCEPT ![o].status = st][o].hold = os[o].hold
         /\ [os EXCEPT ![o].status = st][o].released = os[o].released
         /\ [os EXCEPT ![o].status = st][o].status = st
         /\ \A p \in Orders \ {o} : [os EXCEPT ![o].status = st][p] = os[p]
  BY DEF Row

\* An order is placed: its row and its hold are new.
LEMMA PlaceNewInv ==
  ASSUME BooksInv, NEW c \in Callers, NEW o \in Orders, PlaceNew(c, o)
  PROVE  BooksInv'
<1>1. /\ trades \in Seq(Trade) /\ settled \in Seq(DOMAIN trades) /\ orders \in [Orders -> Row] /\ balance \in Balances
  BY DEF BooksInv, Typed
<1>2. trades' = trades /\ settled' = settled /\ resting' = resting /\ order_replies' = order_replies
  BY DEF PlaceNew, feedVars, engine, book_keeping
<1>3. PICK a \in Accounts, x \in Assets : a = Request[o].account /\ x = HoldAsset(o)
  BY RequestFacts
<1>4. balance[a][x].available \in Int /\ balance[a][x].held \in Int
  BY <1>1 DEF Balances
<1>5. PICK n \in Int : n = HoldAmount(o) /\ n > 0 /\ n <= balance[a][x].available
  BY <1>3, <1>4 DEF PlaceNew, Affordable
<1>6. orders[o].status = "NONE" /\ orders[o].hold = 0 /\ ~orders[o].released
  <2>1. orders[o].status = "NONE"
    BY DEF PlaceNew, SameKey
  <2> QED
    BY <2>1 DEF BooksInv, NewRows
<1>7. PICK st \in {"CONDITIONAL", "PENDING"} : st = IF Request[o].conditional THEN "CONDITIONAL" ELSE "PENDING"
  OBVIOUS
<1>8. PICK r \in Row : r = [status |-> st, filled |-> 0, hold |-> n, released |-> FALSE]
  <2>1. st \in Status /\ 0 \in Int /\ n \in Int /\ FALSE \in BOOLEAN
    BY DEF Status
  <2>2. [status |-> st, filled |-> 0, hold |-> n, released |-> FALSE] \in Row
    BY <2>1 DEF Row
  <2> QED
    BY <2>2
<1>9. orders' = [orders EXCEPT ![o] = r]
  BY <1>5, <1>7, <1>8 DEF PlaceNew
<1>10. /\ orders' \in [Orders -> Row] /\ orders'[o] = r /\ \A p \in Orders \ {o} : orders'[p] = orders[p]
       /\ r.hold = n /\ r.released = FALSE /\ r.status # "NONE"
  BY <1>1, <1>8, <1>9
<1>11. /\ balance' \in Balances
       /\ \A d \in Accounts, y \in Assets :
            /\ balance'[d][y].held = balance[d][y].held + (IF d = a /\ y = x THEN n ELSE 0)
            /\ balance'[d][y].available = balance[d][y].available - (IF d = a /\ y = x THEN n ELSE 0)
  <2>1. balance' = Reserve(balance, a, x, n)
    BY <1>3, <1>5 DEF PlaceNew
  <2> QED
    BY <1>1, <2>1, ReserveEffect
<1>12. CallsTyped'
  <2>1. CallsTyped
    BY DEF BooksInv, Typed
  <2>2. CASE Request[o].conditional
    BY <2>1, <2>2 DEF PlaceNew, CallsTyped
  <2>3. CASE ~Request[o].conditional
    BY <2>1, <2>3, CallForms, CallChanged DEF PlaceNew
  <2> QED
    BY <2>2, <2>3
<1>13. Typed'
  BY <1>2, <1>10, <1>11, <1>12 DEF BooksInv, Typed
<1>14. NewRows'
  BY <1>10 DEF BooksInv, NewRows
<1>15. \A p \in Orders : SettledQty(p, settled)' = SettledQty(p, settled)
  BY <1>2 DEF SettledQty, Party
<1>16. ReleasedRows'
  BY <1>10, <1>15 DEF BooksInv, ReleasedRows
<1>17. Spendable'
  <2>1. \A d \in Accounts, y \in Assets : balance[d][y].available \in Int /\ balance[d][y].available >= 0
    BY <1>1 DEF Balances, BooksInv, Spendable
  <2> QED
    BY <1>5, <1>11, <2>1 DEF Spendable
<1>19. SellHolds'
  <2>1. Request[o].side = "SELL" => n = Request[o].quantity
    BY <1>5 DEF HoldAmount
  <2>2. Request[o].side = "SELL" => SettledQty(o, settled) <= 0
    BY <1>6 DEF BooksInv, SellHolds
  <2>3. PICK v \in Int : v = SettledQty(o, settled)
    BY <1>1, ModelSums, SumTypes
  <2>4. Request[o].side = "SELL" => SettledQty(o, settled)' <= orders'[o].hold /\ orders'[o].hold = Request[o].quantity
    BY <1>5, <1>10, <1>15, <2>1, <2>2, <2>3
  <2>5. ASSUME NEW p \in Orders \ {o}, Request[p].side = "SELL"
        PROVE  /\ SettledQty(p, settled)' <= orders'[p].hold
               /\ orders'[p].status # "NONE" => orders'[p].hold = Request[p].quantity
    BY <1>10, <1>15, <2>5 DEF BooksInv, SellHolds
  <2> QED
    BY <2>4, <2>5 DEF SellHolds
<1>18. ASSUME NEW d \in Accounts, NEW y \in Assets
       PROVE  balance'[d][y].held = HoldsOf(orders', trades', settled', d, y)
  <2>1. SameBut(o, d, y, orders, trades, settled, orders', trades', settled')
    BY <1>2, <1>10 DEF SameBut
  <2>2. HoldsOf(orders', trades', settled', d, y) =
          HoldsOf(orders, trades, settled, d, y) - HoldTerm(orders[o], UseOf(trades, o, settled), o, d, y)
            + HoldTerm(orders'[o], UseOf(trades', o, settled'), o, d, y)
    <3>1. TablesTyped(orders, trades, settled) /\ TablesTyped(orders', trades', settled')
      BY <1>1, <1>2, <1>10 DEF TablesTyped
    <3> QED
      BY <2>1, <3>1, HoldsChange
  <2>3. PICK u \in Int : u = UseOf(trades, o, settled)
    BY <1>1, SumTypes
  <2>4. HoldTerm(orders[o], u, o, d, y) = IF d = a /\ y = x THEN -u ELSE 0
    BY <1>3, <1>6 DEF HoldTerm
  <2>5. HoldTerm(orders'[o], u, o, d, y) = IF d = a /\ y = x THEN n - u ELSE 0
    BY <1>3, <1>10 DEF HoldTerm
  <2>6. balance[d][y].held = HoldsOf(orders, trades, settled, d, y) /\ balance[d][y].held \in Int
    BY <1>1, HeldModel DEF HeldExactly, Balances, BooksInv
  <2> QED
    BY <1>2, <1>11, <2>2, <2>3, <2>4, <2>5, <2>6
<1> QED
  BY <1>13, <1>14, <1>16, <1>17, <1>18, <1>19, HeldModel DEF HeldExactly, BooksInv

\* The answer of the engine is applied to its row.
LEMMA ApplyEngineStatusInv ==
  ASSUME BooksInv, NEW c \in Callers, NEW o \in Orders, ApplyEngineStatus(c, o)
  PROVE  BooksInv'
<1>1. orders \in [Orders -> Row] /\ order_replies \in Replies /\ CallsTyped
  BY DEF BooksInv, Typed, Replies
<1>2. UNCHANGED <<trades, settled, resting, order_replies>>
  BY DEF ApplyEngineStatus, feedVars, engine, book_keeping
<1>3. CallsTyped'
  <2>1. PICK v : call' = [call EXCEPT ![c] = v] /\ v.op # "cancel"
    BY CallForms DEF ApplyEngineStatus
  <2> QED
    BY <1>1, <2>1, CallChanged
<1>4. PICK st \in Status, q \in Int : st = order_replies[o].status /\ q = order_replies[o].filled /\ st # "NONE"
  BY <1>1 DEF Replies, ApplyEngineStatus, Answered
<1>5. validTransition(orders[o].status, st) /\ (ReleasedBy(st) => Releasable(o, HeldFor(o), settled))
  BY <1>4 DEF ApplyEngineStatus, StatusApplies
<1>6. CASE orders[o].status = st /\ st \in Terminal
  <2>1. UNCHANGED <<orders, balance>>
    BY <1>4, <1>6 DEF ApplyEngineStatus
  <2>2. resting' \in [Orders -> Nat] /\ order_replies' \in Replies
    BY <1>1, <1>2 DEF BooksInv, Typed
  <2> QED
    BY <1>2, <1>3, <2>1, <2>2, StillStep
<1>7. CASE ~(orders[o].status = st /\ st \in Terminal)
  <2>1. PICK free \in BOOLEAN : free = (orders[o].released \/ ReleasedBy(st))
    BY <1>1 DEF Row, ReleasedBy
  <2>2. PICK r : r = [orders[o] EXCEPT !.status = st, !.filled = q, !.released = free]
    OBVIOUS
  <2>3. r \in Row /\ r.status = st /\ r.hold = orders[o].hold /\ r.released = free
    <3>1. orders[o] \in Row
      BY <1>1
    <3> QED
      BY <2>2, <3>1 DEF Row
  <2>4. orders' = [orders EXCEPT ![o] = r]
    BY <1>1, <1>4, <1>7, <2>1, <2>2 DEF ApplyEngineStatus
  <2>5. orders' \in [Orders -> Row] /\ orders'[o] = r /\ \A p \in Orders \ {o} : orders'[p] = orders[p]
    BY <1>1, <2>3, <2>4
  <2>6. balance' = IF ReleasedBy(st) THEN Release(o, balance, settled) ELSE balance
    BY <1>4, <1>7 DEF ApplyEngineStatus
  <2>9. orders[o].status # "NONE"
    BY <1>4, <1>5 DEF validTransition, Transitions
  <2>7. CASE ReleasedBy(st)
    BY <1>2, <1>3, <1>5, <2>1, <2>3, <2>5, <2>6, <2>7, <2>9, EndStep DEF ReleasedBy
  <2>8. CASE ~ReleasedBy(st)
    <3>1. orders[o].status \notin Terminal
      BY <1>5, <1>7 DEF validTransition, Transitions, Terminal
    <3>2. ~orders[o].released
      BY <3>1 DEF BooksInv, ReleasedRows, Terminal
    <3>3. balance' = balance
      BY <2>6, <2>8
    <3>4. free = orders[o].released
      <4>1. orders[o].released \in BOOLEAN
        BY <1>1 DEF Row
      <4>2. orders[o].released = FALSE /\ free = FALSE
        BY <2>1, <2>8, <3>2, <4>1
      <4> QED
        BY <4>2
    <3>5. \A p \in Orders : /\ orders'[p].hold = orders[p].hold /\ orders'[p].released = orders[p].released
                            /\ \/ orders'[p].status = orders[p].status
                               \/ ~orders[p].released /\ orders[p].status # "NONE" /\ orders'[p].status # "NONE"
      BY <1>4, <2>3, <2>5, <2>9, <3>2, <3>4
    <3> QED
      BY <1>2, <1>3, <2>5, <3>3, <3>5, StatusStep
  <2> QED
    BY <2>7, <2>8
<1> QED
  BY <1>6, <1>7

\* Conditional orders are activated: none of them was released.
LEMMA TriggerInv ==
  ASSUME BooksInv, NEW c \in Callers, NEW os, TriggerConditionalOrders(c, os)
  PROVE  BooksInv'
<1>1. orders \in [Orders -> Row] /\ CallsTyped
  BY DEF BooksInv, Typed
<1>2. UNCHANGED <<balance, settled, trades, resting, order_replies>>
  BY DEF TriggerConditionalOrders, feedVars, engine, book_keeping
<1>3. CallsTyped'
  BY <1>1, CallForms, CallChanged DEF TriggerConditionalOrders
<1>4. ASSUME NEW o \in Orders
      PROVE  /\ orders'[o] \in Row
             /\ orders'[o].hold = orders[o].hold /\ orders'[o].released = orders[o].released
             /\ \/ orders'[o].status = orders[o].status
                \/ ~orders[o].released /\ orders[o].status # "NONE" /\ orders'[o].status # "NONE"
  <2>1. orders'[o] = IF o \in Range(os) THEN [orders[o] EXCEPT !.status = "PENDING"] ELSE orders[o]
    BY DEF TriggerConditionalOrders
  <2>2. orders[o] \in Row
    BY <1>1
  <2>3. CASE o \in Range(os)
    <3>1. orders[o].status = "CONDITIONAL"
      BY <2>3 DEF TriggerConditionalOrders
    <3>2. ~orders[o].released
      BY <3>1 DEF BooksInv, ReleasedRows
    <3> QED
      BY <2>1, <2>2, <2>3, <3>1, <3>2 DEF Row, Status
  <2>4. CASE o \notin Range(os)
    BY <2>1, <2>2, <2>4
  <2> QED
    BY <2>3, <2>4
<1>5. orders' \in [Orders -> Row]
  BY <1>4 DEF TriggerConditionalOrders
<1> QED
  BY <1>2, <1>3, <1>4, <1>5, StatusStep

\* A cancellation is prepared: the order was not released.
LEMMA PrepareCancelInv ==
  ASSUME BooksInv, NEW c \in Callers, NEW o \in Orders, NEW k, PrepareCancel(c, o, k)
  PROVE  BooksInv'
<1>1. orders \in [Orders -> Row] /\ CallsTyped
  BY DEF BooksInv, Typed
<1>2. UNCHANGED <<balance, settled, trades, resting, order_replies>>
  BY DEF PrepareCancel, feedVars, engine, book_keeping
<1>3. CallsTyped'
  BY <1>1, CancelCall DEF PrepareCancel
<1>4. ~orders[o].released /\ orders[o].status # "NONE"
  BY DEF PrepareCancel, BooksInv, ReleasedRows
<1>5. PICK st \in Status : st = "PENDING_CANCEL"
  BY DEF Status
<1>6. orders' = [orders EXCEPT ![o].status = st]
  BY <1>5 DEF PrepareCancel
<1>7. /\ orders' \in [Orders -> Row] /\ orders'[o].hold = orders[o].hold /\ orders'[o].released = orders[o].released
      /\ orders'[o].status = st /\ \A p \in Orders \ {o} : orders'[p] = orders[p]
  BY <1>1, <1>6, RowStatus
<1>8. \A p \in Orders : /\ orders'[p].hold = orders[p].hold /\ orders'[p].released = orders[p].released
                        /\ \/ orders'[p].status = orders[p].status
                           \/ ~orders[p].released /\ orders[p].status # "NONE" /\ orders'[p].status # "NONE"
  BY <1>4, <1>5, <1>7
<1> QED
  BY <1>2, <1>3, <1>7, <1>8, StatusStep

\* The rows after order o is canceled and its hold released.
Canceled(os, o) == [os EXCEPT ![o].status = "CANCELED", ![o].released = TRUE]

\* Nothing else of the rows changes.
LEMMA RowCanceled ==
  ASSUME NEW os, os \in [Orders -> Row], NEW o \in Orders, NEW qs, qs = Canceled(os, o)
  PROVE  /\ qs \in [Orders -> Row] /\ qs[o].hold = os[o].hold /\ qs[o].released /\ qs[o].status = "CANCELED"
         /\ \A p \in Orders \ {o} : qs[p] = os[p]
<1>1. os[o] \in Row
  OBVIOUS
<1>2. PICK r : r = [os[o] EXCEPT !.status = "CANCELED", !.released = TRUE]
  OBVIOUS
<1>3. r \in Row /\ r.hold = os[o].hold /\ r.released /\ r.status = "CANCELED"
  BY <1>1, <1>2 DEF Row, Status, Terminal
<1>4. qs = [os EXCEPT ![o] = r]
  BY <1>1, <1>2 DEF Canceled
<1> QED
  BY <1>3, <1>4

\* A conditional order is canceled at once.
LEMMA CancelConditionalInv ==
  ASSUME BooksInv, NEW c \in Callers, NEW o \in Orders, NEW k, CancelConditional(c, o, k)
  PROVE  BooksInv'
<1>1. orders \in [Orders -> Row] /\ CallsTyped
  BY DEF BooksInv, Typed
<1>2. UNCHANGED <<settled, trades, resting, order_replies>> /\ CallsTyped'
  BY <1>1 DEF CancelConditional, feedVars, engine, book_keeping, CallsTyped
<1>3. orders' = Canceled(orders, o)
  BY DEF CancelConditional, Canceled
<1>4. /\ orders' \in [Orders -> Row] /\ orders'[o].hold = orders[o].hold /\ orders'[o].released
      /\ orders'[o].status = "CANCELED" /\ \A p \in Orders \ {o} : orders'[p] = orders[p]
  BY <1>1, <1>3, RowCanceled
<1>5. Releasable(o, HeldFor(o), settled) /\ balance' = Release(o, balance, settled) /\ orders[o].status # "NONE"
  BY DEF CancelConditional
<1> QED
  BY <1>2, <1>4, <1>5, EndStep

\* The engine has accepted a cancellation.
LEMMA ApplyCancelAckInv ==
  ASSUME BooksInv, NEW c \in Callers, ApplyCancelAck(c)
  PROVE  BooksInv'
<1>1. orders \in [Orders -> Row] /\ CallsTyped
  BY DEF BooksInv, Typed
<1>2. PICK o \in Orders : o = call[c].order
  BY <1>1 DEF ApplyCancelAck, AckReceived, CallsTyped
<1>3. UNCHANGED <<settled, trades, resting, order_replies>>
  BY DEF ApplyCancelAck, feedVars, engine, book_keeping
<1>4. CallsTyped'
  BY <1>1, CallForms, CallChanged DEF ApplyCancelAck
<1>5. orders' = Canceled(orders, o)
  BY <1>2 DEF ApplyCancelAck, Canceled
<1>6. /\ orders' \in [Orders -> Row] /\ orders'[o].hold = orders[o].hold /\ orders'[o].released
      /\ orders'[o].status = "CANCELED" /\ \A p \in Orders \ {o} : orders'[p] = orders[p]
  BY <1>1, <1>5, RowCanceled
<1>7. Releasable(o, HeldFor(o), settled) /\ balance' = Release(o, balance, settled) /\ orders[o].status # "NONE"
  BY <1>2 DEF ApplyCancelAck, AckApplies
<1> QED
  BY <1>3, <1>4, <1>6, <1>7, EndStep

-----------------------------------------------------------------------------
(* The engine *)

\* What orders have on offer.
LEMMA OfferNat ==
  ASSUME BooksInv, NEW ms \in SUBSET Orders
  PROVE  Offer(ms) \in Nat
<1>1. resting \in [Orders -> Int] /\ \A m \in ms : 0 <= resting[m]
  BY DEF BooksInv, Typed
<1>2. IsFiniteSet(ms)
  BY FiniteAssumption, FS_Subset
<1> QED
  BY <1>1, <1>2, SumNat DEF Offer

\* An order takes something of every maker it meets, and no more than there is.
LEMMA MetFacts ==
  ASSUME BooksInv, NEW o \in Orders, NEW m \in Met(o)
  PROVE  /\ m \in Orders /\ Taken(o, m) \in Nat \ {0} /\ Taken(o, m) <= resting[m]
         /\ FillOf(o, m) \in Trade
<1>1. m \in Orders /\ resting[m] > 0 /\ Request[m].side # Request[o].side
  BY DEF Met, Opposite, Compatible
<1>2. resting[m] \in Nat
  BY <1>1 DEF BooksInv, Typed
<1>3. PICK n \in Nat : n = Ahead(o, m)
  <2>1. {p \in Opposite(o) : Before(o, p, m)} \in SUBSET Orders
    BY DEF Opposite
  <2> QED
    BY <2>1, OfferNat DEF Ahead
<1>4. Request[o].quantity \in Nat /\ n < Request[o].quantity
  BY <1>3, RequestFacts DEF Met
<1>5. Taken(o, m) \in Nat \ {0} /\ Taken(o, m) <= resting[m]
  BY <1>1, <1>2, <1>3, <1>4 DEF Taken
<1>6. Request[m].price \in Nat
  BY <1>1, RequestFacts
<1>7. FillOf(o, m) \in Trade
  BY <1>1, <1>5, <1>6 DEF FillOf, Trade
<1> QED
  BY <1>1, <1>5, <1>7

\* What the engine emits for an order are trades between orders of opposite sides.
LEMMA FillsEmitted ==
  ASSUME BooksInv, NEW o \in Orders, NEW ms \in SetToSeqs(Met(o)), EngineMatches(o, ms)
  PROVE  \E ts \in Seq(Trade) : Emit(ts)
<1>1. PICK k \in Nat : k = Cardinality(Met(o))
  <2>1. Met(o) \in SUBSET Orders
    BY DEF Met, Opposite
  <2> QED
    BY <2>1, FiniteAssumption, FS_Subset, FS_CardinalityType
<1>2. ms \in [1..k -> Met(o)]
  BY <1>1 DEF SetToSeqs
<1>3. PICK ts : ts = [i \in DOMAIN ms |-> FillOf(o, ms[i])]
  OBVIOUS
<1>4. ts \in Seq(Trade)
  <2>1. \A i \in 1..k : FillOf(o, ms[i]) \in Trade
    BY <1>2, MetFacts
  <2>2. ts \in [1..k -> Trade]
    BY <1>2, <1>3, <2>1
  <2> QED
    BY <2>2, SeqDef
<1> QED
  BY <1>3, <1>4 DEF EngineMatches

\* The engine matches an order: no balance and no row changes.
LEMMA EngineMatchesInv ==
  ASSUME BooksInv, NEW o \in Orders, NEW ms \in SetToSeqs(Met(o)), EngineMatches(o, ms)
  PROVE  BooksInv'
<1>4. PICK ts \in Seq(Trade) : Emit(ts)
  BY FillsEmitted
<1>5. trades' = trades \o ts /\ settled' = settled
  BY <1>4 DEF Emit, book_keeping
<1>6. UNCHANGED <<orders, balance, call>>
  BY DEF EngineMatches, tables
<1>7. CallsTyped'
  BY <1>6 DEF BooksInv, Typed, CallsTyped
<1>8. PICK left \in Nat : left = Left(o)
  <2>1. PICK n \in Nat : n = Offer(Opposite(o))
    BY OfferNat DEF Opposite
  <2>2. Request[o].quantity \in Nat
    BY RequestFacts
  <2> QED
    BY <2>1, <2>2 DEF Left
<1>9. resting' \in [Orders -> Nat]
  <2>1. \A m \in Met(o) : resting[m] - Taken(o, m) \in Nat
    <3> SUFFICES ASSUME NEW m \in Met(o) PROVE resting[m] - Taken(o, m) \in Nat
      OBVIOUS
    <3>1. m \in Orders /\ Taken(o, m) \in Nat \ {0} /\ Taken(o, m) <= resting[m]
      BY MetFacts
    <3>2. resting[m] \in Nat
      BY <3>1 DEF BooksInv, Typed
    <3> QED
      BY <3>1, <3>2
  <2>2. \A m \in Orders : resting[m] \in Nat
    BY DEF BooksInv, Typed
  <2>3. PICK st : st = ReplyStatus(o, Left(o))
    OBVIOUS
  <2>4. resting' = [m \in Orders |-> IF m \in Met(o) THEN resting[m] - Taken(o, m)
                                     ELSE IF m = o /\ st \notin Terminal THEN left
                                     ELSE resting[m]]
    BY <1>8, <2>3 DEF EngineMatches
  <2> QED
    BY <2>1, <2>2, <2>4
<1>10. order_replies' \in Replies
  <2>1. PICK st \in Status : st = ReplyStatus(o, Left(o))
    BY DEF ReplyStatus, Status, Terminal
  <2>2. PICK q \in Int : q = Request[o].quantity - Left(o)
    BY <1>8, RequestFacts
  <2>3. order_replies' = [order_replies EXCEPT ![o] = [status |-> st, filled |-> q]]
    BY <2>1, <2>2 DEF EngineMatches
  <2> QED
    BY <2>3 DEF BooksInv, Typed, Replies
<1> QED
  BY <1>4, <1>5, <1>6, <1>7, <1>9, <1>10, QuietStep

-----------------------------------------------------------------------------
(* Settlement *)

\* The conditions of settleTradeOnce exclude orders whose hold was released.
LEMMA PartiesOpen ==
  ASSUME BooksInv, NEW n \in DOMAIN trades, Lockable(n), Settles(n, snapshot), NEW o \in Parties(trades[n])
  PROVE  o \in Orders /\ ~orders[o].released /\ orders[o].status # "NONE" /\ WithinCapacity(trades[n], o)
<1>1. trades[n] \in Trade
  BY DEF BooksInv, Typed
<1>2. o \in Orders /\ trades[n].quantity \in Nat \ {0}
  BY <1>1 DEF Trade, Parties
<1>3. settleableStatus(orders[o].status) /\ WithinCapacity(trades[n], o)
  BY DEF Settles, Lockable
<1>4. SettledQty(o, settled) # Request[o].quantity
  <2>1. Request[o].quantity \in Nat
    BY <1>2, RequestFacts
  <2> QED
    BY <1>2, <1>3, <2>1 DEF WithinCapacity
<1> QED
  BY <1>2, <1>3, <1>4 DEF BooksInv, ReleasedRows, settleableStatus

\* What is given back of the hold of a party when the trade fills its order.
Rest(o, ns) == IF SettledQty(o, ns) = Request[o].quantity THEN HoldLeft(o, ns) ELSE 0

\* The release after a fill, on balances b.
LEMMA FilledEffect ==
  ASSUME NEW b \in Balances, NEW o \in Orders, NEW ns, ~orders[o].released, HoldLeft(o, ns) \in Int
  PROVE  /\ ReleaseFilled(o, b, ns) \in Balances
         /\ \A c \in Accounts, y \in Assets :
              /\ ReleaseFilled(o, b, ns)[c][y].held =
                   b[c][y].held - (IF c = Request[o].account /\ y = HoldAsset(o) THEN Rest(o, ns) ELSE 0)
              /\ ReleaseFilled(o, b, ns)[c][y].available =
                   b[c][y].available + (IF c = Request[o].account /\ y = HoldAsset(o) THEN Rest(o, ns) ELSE 0)
<1>1. \A c \in Accounts, y \in Assets : b[c][y].held \in Int /\ b[c][y].available \in Int
  BY DEF Balances
<1>2. CASE SettledQty(o, ns) # Request[o].quantity
  <2>1. ReleaseFilled(o, b, ns) = b /\ Rest(o, ns) = 0
    BY <1>2 DEF ReleaseFilled, Rest
  <2> QED
    BY <1>1, <2>1
<1>3. CASE SettledQty(o, ns) = Request[o].quantity
  <2>1. PICK a \in Accounts, x \in Assets : a = Request[o].account /\ x = HoldAsset(o)
    BY RequestFacts
  <2>2. PICK r \in Int : r = HoldLeft(o, ns) /\ r = Rest(o, ns)
    BY <1>3 DEF Rest
  <2>3. PICK m \in Int : m = -r
    OBVIOUS
  <2>4. ReleaseFilled(o, b, ns) = Reserve(b, a, x, m)
    BY <1>3, <2>1, <2>2, <2>3 DEF ReleaseFilled, Release
  <2>5. /\ Reserve(b, a, x, m) \in Balances
        /\ \A c \in Accounts, y \in Assets :
             /\ Reserve(b, a, x, m)[c][y].held = b[c][y].held + (IF c = a /\ y = x THEN m ELSE 0)
             /\ Reserve(b, a, x, m)[c][y].available = b[c][y].available - (IF c = a /\ y = x THEN m ELSE 0)
    BY ReserveEffect
  <2> QED
    BY <1>1, <2>1, <2>2, <2>3, <2>4, <2>5
<1> QED
  BY <1>2, <1>3

\* The balances after a trade is settled: each party loses of its hold what the trade
\* consumes and what is given back.
LEMMA SettledBalances ==
  ASSUME BooksInv, NEW n \in DOMAIN trades, SettleTrade(n)
  PROVE  /\ balance' \in Balances /\ Spendable'
         /\ \A o \in {trades[n].maker, trades[n].taker}, c \in Accounts :
              balance'[c][HoldAsset(o)].held = balance[c][HoldAsset(o)].held
                - (IF c = Request[o].account THEN Consumes(trades[n], o) + Rest(o, Append(settled, n)) ELSE 0)
<1>1. /\ trades \in Seq(Trade) /\ settled \in Seq(DOMAIN trades) /\ orders \in [Orders -> Row] /\ balance \in Balances
  BY DEF BooksInv, Typed
<1>2. PICK t \in Trade : t = trades[n]
  BY <1>1
<1>3. PICK ns \in Seq(DOMAIN trades) : ns = Append(settled, n)
  BY <1>1, AppendProperties
<1>4. PICK b \in Balances : b = Post(balance, TradePostings(t))
  BY <1>1, PostEffect
<1>5. PICK M \in Orders, T \in Orders : M = t.maker /\ T = t.taker
  BY TwoParties
<1>6. Settles(n, snapshot) /\ Lockable(n)
  BY DEF SettleTrade
<1>7. ~orders[M].released /\ ~orders[T].released
  BY <1>2, <1>5, <1>6, PartiesOpen DEF Parties
<1>8. \A o \in Orders : HoldLeft(o, ns) \in Int
  <2>1. \A o \in Orders : orders[o].hold \in Int
    BY <1>1 DEF Row
  <2>2. \A o \in Orders : UseOf(trades, o, ns) \in Int
    BY <1>1, SumTypes
  <2> QED
    BY <2>1, <2>2, ModelSums DEF HoldLeft
<1>9. PICK b1 \in Balances : b1 = ReleaseFilled(M, b, ns)
  BY <1>7, <1>8, FilledEffect
<1>10. balance' = ReleaseFilled(T, b1, ns)
  BY <1>2, <1>3, <1>4, <1>5, <1>9 DEF SettleTrade
<1>11. balance' \in Balances
  BY <1>7, <1>8, <1>10, FilledEffect
<1>12. PICK rM \in Nat, rT \in Nat : rM = Rest(M, ns) /\ rT = Rest(T, ns)
  <2>1. \A o \in {M, T} : SettledQty(o, ns) = Request[o].quantity => HoldLeft(o, ns) >= 0
    BY <1>2, <1>3, <1>5, <1>6, <1>7 DEF Settles, Releasable, Parties
  <2> QED
    BY <1>8, <2>1 DEF Rest
<1>13. HoldAsset(M) # HoldAsset(T)
  <2>1. {M, T} = {Buyer(t), Seller(t)} /\ HoldAsset(Buyer(t)) = "quote" /\ HoldAsset(Seller(t)) = "base"
    BY <1>5, TwoParties
  <2> QED
    BY <2>1
<1>14. \A c \in Accounts, y \in Assets :
         /\ b1[c][y].held = b[c][y].held - (IF c = Request[M].account /\ y = HoldAsset(M) THEN rM ELSE 0)
         /\ b1[c][y].available = b[c][y].available + (IF c = Request[M].account /\ y = HoldAsset(M) THEN rM ELSE 0)
  BY <1>7, <1>8, <1>9, <1>12, FilledEffect
<1>15. \A c \in Accounts, y \in Assets :
         /\ balance'[c][y].held = b1[c][y].held - (IF c = Request[T].account /\ y = HoldAsset(T) THEN rT ELSE 0)
         /\ balance'[c][y].available = b1[c][y].available + (IF c = Request[T].account /\ y = HoldAsset(T) THEN rT ELSE 0)
  BY <1>7, <1>8, <1>10, <1>12, FilledEffect
<1>16. \A o \in {M, T}, c \in Accounts :
         b[c][HoldAsset(o)].held = balance[c][HoldAsset(o)].held
                                   - (IF c = Request[o].account THEN Consumes(t, o) ELSE 0)
  <2>1. {M, T} = {Buyer(t), Seller(t)} /\ HoldAsset(Buyer(t)) = "quote" /\ HoldAsset(Seller(t)) = "base"
    BY <1>5, TwoParties
  <2>2. \A c \in Accounts :
          /\ b[c]["quote"].held = balance[c]["quote"].held - (IF c = Request[Buyer(t)].account THEN Consumes(t, Buyer(t)) ELSE 0)
          /\ b[c]["base"].held = balance[c]["base"].held - (IF c = Request[Seller(t)].account THEN Consumes(t, Seller(t)) ELSE 0)
    BY <1>1, <1>4, PostEffect
  <2> SUFFICES ASSUME NEW o \in {M, T}, NEW c \in Accounts
               PROVE  b[c][HoldAsset(o)].held = balance[c][HoldAsset(o)].held
                                                - (IF c = Request[o].account THEN Consumes(t, o) ELSE 0)
    OBVIOUS
  <2>3. CASE o = Buyer(t)
    BY <2>1, <2>2, <2>3
  <2>4. CASE o = Seller(t)
    BY <2>1, <2>2, <2>4
  <2> QED
    BY <2>1, <2>3, <2>4
<1>17. \A c \in Accounts, y \in Assets :
         /\ b[c][y].held \in Int /\ b[c][y].available \in Int
         /\ balance[c][y].held \in Int /\ balance[c][y].available \in Int
         /\ b1[c][y].held \in Int /\ b1[c][y].available \in Int
  BY <1>1 DEF Balances
<1>18. HoldAsset(M) \in Assets /\ HoldAsset(T) \in Assets /\ Consumes(t, M) \in Nat /\ Consumes(t, T) \in Nat
  BY RequestFacts, FeeBounded
<1>19. \A o \in {M, T}, c \in Accounts :
         balance'[c][HoldAsset(o)].held = balance[c][HoldAsset(o)].held
           - (IF c = Request[o].account THEN Consumes(t, o) + Rest(o, ns) ELSE 0)
  <2>1. ASSUME NEW c \in Accounts
        PROVE  balance'[c][HoldAsset(M)].held = balance[c][HoldAsset(M)].held
                 - (IF c = Request[M].account THEN Consumes(t, M) + rM ELSE 0)
    BY <1>13, <1>14, <1>15, <1>16, <1>17, <1>18
  <2>2. ASSUME NEW c \in Accounts
        PROVE  balance'[c][HoldAsset(T)].held = balance[c][HoldAsset(T)].held
                 - (IF c = Request[T].account THEN Consumes(t, T) + rT ELSE 0)
    BY <1>13, <1>14, <1>15, <1>16, <1>17, <1>18
  <2> QED
    BY <1>12, <2>1, <2>2
<1>20. Spendable'
  <2>1. ASSUME NEW c \in Accounts, NEW y \in Assets PROVE balance'[c][y].available >= 0
    <3>1. balance[c][y].available >= 0
      BY DEF BooksInv, Spendable
    <3>2. b[c][y].available >= balance[c][y].available
      BY <1>1, <1>4, PostEffect
    <3> QED
      BY <1>14, <1>15, <1>17, <3>1, <3>2
  <2> QED
    BY <2>1 DEF Spendable
<1> QED
  BY <1>2, <1>3, <1>5, <1>11, <1>19, <1>20

\* The rows of the parties after a trade is settled.
LEMMA SettledRow ==
  ASSUME NEW o \in Orders, orders[o] \in Row, ~orders[o].released, NEW ns, SettledQty(o, ns) \in Int
  PROVE  /\ Settled(o, ns) \in Row /\ Settled(o, ns).hold = orders[o].hold
         /\ Settled(o, ns).released = (SettledQty(o, ns) = Request[o].quantity)
         /\ Settled(o, ns).status = IF SettledQty(o, ns) = Request[o].quantity THEN "FILLED" ELSE "PARTIALLY_FILLED"
<1>1. PICK q \in Int : q = SettledQty(o, ns)
  OBVIOUS
<1>2. PICK done \in BOOLEAN : done = (q = Request[o].quantity)
  OBVIOUS
<1>3. PICK st \in Status : st = IF done THEN "FILLED" ELSE "PARTIALLY_FILLED"
  BY DEF Status, Terminal
<1>4. PICK r : r = [orders[o] EXCEPT !.filled = q, !.released = done, !.status = st]
  OBVIOUS
<1>5. r \in Row /\ r.hold = orders[o].hold /\ r.released = done /\ r.status = st
  BY <1>4 DEF Row
<1>6. orders[o].released = FALSE
  BY DEF Row
<1>7. Settled(o, ns) = r
  BY <1>1, <1>2, <1>3, <1>4, <1>6 DEF Settled
<1> QED
  BY <1>1, <1>2, <1>3, <1>5, <1>7

\* A trade is settled.
LEMMA SettleTradeInv ==
  ASSUME BooksInv, NEW n \in DOMAIN trades, SettleTrade(n)
  PROVE  BooksInv'
<1>1. /\ trades \in Seq(Trade) /\ settled \in Seq(DOMAIN trades) /\ orders \in [Orders -> Row] /\ balance \in Balances
  BY DEF BooksInv, Typed
<1>2. PICK t \in Trade : t = trades[n]
  BY <1>1
<1>3. PICK ns \in Seq(DOMAIN trades) : ns = Append(settled, n)
  BY <1>1, AppendProperties
<1>4. PICK M \in Orders, T \in Orders : M = t.maker /\ T = t.taker /\ M # T
  BY TwoParties
<1>5. \A o \in {M, T} : ~orders[o].released /\ orders[o].status # "NONE" /\ WithinCapacity(t, o)
  BY <1>2, <1>4, PartiesOpen DEF SettleTrade, Parties
<1>6. settled' = ns /\ trades' = trades
  BY <1>3 DEF SettleTrade, Settle
<1>7. UNCHANGED <<resting, order_replies, call>>
  BY DEF SettleTrade, engine
<1>8. /\ \A o \in Orders : SettledQty(o, ns) = VolumeOf(trades, o, ns) /\ SettledQty(o, ns) \in Int
      /\ \A o \in Orders : SettledQty(o, settled)' = SettledQty(o, ns)
  <2>1. \A o \in Orders : SettledQty(o, ns) = VolumeOf(trades, o, ns)
    BY ModelSums
  <2>2. \A o \in Orders : SettledQty(o, settled)' = VolumeOf(trades', o, settled')
    BY DEF SettledQty, VolumeOf, Volume, Parties, Party
  <2>3. \A o \in Orders : VolumeOf(trades, o, ns) \in Int
    BY <1>1, SumTypes
  <2> QED
    BY <1>6, <2>1, <2>2, <2>3
<1>9. PICK rM \in Row, rT \in Row :
        /\ rM = Settled(M, ns) /\ rT = Settled(T, ns)
        /\ rM.hold = orders[M].hold /\ rM.released = (SettledQty(M, ns) = Request[M].quantity)
        /\ rM.status = IF SettledQty(M, ns) = Request[M].quantity THEN "FILLED" ELSE "PARTIALLY_FILLED"
        /\ rT.hold = orders[T].hold /\ rT.released = (SettledQty(T, ns) = Request[T].quantity)
        /\ rT.status = IF SettledQty(T, ns) = Request[T].quantity THEN "FILLED" ELSE "PARTIALLY_FILLED"
  BY <1>1, <1>5, <1>8, SettledRow
<1>10. orders' = [orders EXCEPT ![M] = rM, ![T] = rT]
  BY <1>2, <1>3, <1>4, <1>9 DEF SettleTrade
<1>11. /\ orders' \in [Orders -> Row] /\ orders'[M] = rM /\ orders'[T] = rT
       /\ \A p \in Orders \ {M, T} : orders'[p] = orders[p]
  BY <1>1, <1>4, <1>10
<1>12. Typed'
  <2>1. balance' \in Balances
    BY SettledBalances
  <2>2. settled' \in Seq(DOMAIN trades')
    BY <1>6
  <2> QED
    BY <1>6, <1>7, <1>11, <2>1, <2>2 DEF BooksInv, Typed, CallsTyped
<1>13. NewRows'
  BY <1>9, <1>11 DEF BooksInv, NewRows
<1>18. \A p \in Orders : SettledQty(p, settled)' = SettledQty(p, settled) + Volume(t, p)
  <2> SUFFICES ASSUME NEW p \in Orders PROVE SettledQty(p, settled)' = SettledQty(p, settled) + Volume(t, p)
    OBVIOUS
  <2>1. VolumeOf(trades, p, ns) = VolumeOf(trades, p, settled) + Volume(t, p)
    BY <1>1, <1>2, <1>3, SumsAppend
  <2> QED
    BY <1>8, <2>1, ModelSums
<1>19. SellHolds'
  <2>1. ASSUME NEW p \in {M, T}, Request[p].side = "SELL"
        PROVE  SettledQty(p, settled)' <= orders'[p].hold /\ orders'[p].hold = Request[p].quantity
    <3>1. p \in Orders /\ orders'[p].hold = orders[p].hold
      BY <1>9, <1>11
    <3>2. orders[p].hold = Request[p].quantity
      BY <1>5, <2>1, <3>1 DEF BooksInv, SellHolds
    <3>3. SettledQty(p, settled)' <= Request[p].quantity
      BY <1>4, <1>5, <1>18, <3>1 DEF WithinCapacity, Volume, Parties
    <3> QED
      BY <3>1, <3>2, <3>3
  <2>2. ASSUME NEW p \in Orders \ {M, T}, Request[p].side = "SELL"
        PROVE  /\ SettledQty(p, settled)' <= orders'[p].hold
               /\ orders'[p].status # "NONE" => orders'[p].hold = Request[p].quantity
    <3>1. SettledQty(p, settled) \in Int
      BY <1>1, ModelSums, SumTypes
    <3>2. SettledQty(p, settled)' = SettledQty(p, settled)
      BY <1>4, <1>18, <3>1 DEF Volume, Parties
    <3> QED
      BY <1>11, <2>2, <3>2 DEF BooksInv, SellHolds
  <2> QED
    BY <2>1, <2>2 DEF SellHolds
<1>14. ReleasedRows'
  <2>1. ASSUME NEW p \in Orders \ {M, T} PROVE SettledQty(p, settled)' = SettledQty(p, settled)
    <3>1. VolumeOf(trades, p, ns) = VolumeOf(trades, p, settled) + Volume(t, p)
      BY <1>1, <1>2, <1>3, SumsAppend
    <3>2. Volume(t, p) = 0
      BY <1>4 DEF Volume, Parties
    <3>3. VolumeOf(trades, p, settled) \in Int
      BY <1>1, SumTypes
    <3> QED
      BY <1>8, <3>1, <3>2, <3>3, ModelSums
  <2>2. ASSUME NEW p \in Orders \ {M, T}, orders'[p].released
        PROVE  \/ orders'[p].status \in {"CANCELED", "REJECTED"}
               \/ orders'[p].status = "FILLED" /\ SettledQty(p, settled)' = Request[p].quantity
    BY <1>11, <2>1, <2>2 DEF BooksInv, ReleasedRows
  <2>3. ASSUME NEW p \in {M, T}, orders'[p].released
        PROVE  orders'[p].status = "FILLED" /\ SettledQty(p, settled)' = Request[p].quantity
    BY <1>8, <1>9, <1>11, <2>3
  <2> QED
    BY <2>2, <2>3 DEF ReleasedRows
<1>15. ASSUME NEW o \in {M, T}, NEW c \in Accounts
       PROVE  balance'[c][HoldAsset(o)].held = HoldsOf(orders', trades', settled', c, HoldAsset(o))
  <2>1. PICK p \in Orders : {o, p} = {M, T} /\ o \in Orders /\ HoldAsset(p) # HoldAsset(o)
    <3>1. {M, T} = {Buyer(t), Seller(t)} /\ HoldAsset(Buyer(t)) = "quote" /\ HoldAsset(Seller(t)) = "base"
      BY <1>4, TwoParties
    <3> QED
      BY <3>1
  <2>2. PICK x \in Assets : x = HoldAsset(o)
    BY <2>1, RequestFacts
  <2>3. SameBut(o, c, x, orders, trades, settled, orders', trades', settled')
    <3> SUFFICES ASSUME NEW q \in Orders \ {o}
                 PROVE  HoldTerm(orders'[q], UseOf(trades', q, settled'), q, c, x) = HoldTerm(orders[q], UseOf(trades, q, settled), q, c, x)
      BY DEF SameBut
    <3>1. CASE q = p
      BY <2>1, <2>2, <3>1 DEF HoldTerm
    <3>2. CASE q # p
      <4>1. q \in Orders \ {M, T}
        BY <2>1, <3>2
      <4>2. UseOf(trades, q, ns) = UseOf(trades, q, settled) + Use(t, q)
        BY <1>1, <1>2, <1>3, SumsAppend
      <4>3. Use(t, q) = 0
        BY <1>4, <4>1 DEF Use, Parties
      <4>4. UseOf(trades, q, settled) \in Int
        BY <1>1, SumTypes
      <4> QED
        BY <1>6, <1>11, <4>1, <4>2, <4>3, <4>4
    <3> QED
      BY <3>1, <3>2
  <2>4. HoldsOf(orders', trades', settled', c, x) =
          HoldsOf(orders, trades, settled, c, x) - HoldTerm(orders[o], UseOf(trades, o, settled), o, c, x)
            + HoldTerm(orders'[o], UseOf(trades', o, settled'), o, c, x)
    <3>1. TablesTyped(orders, trades, settled) /\ TablesTyped(orders', trades', settled')
      BY <1>1, <1>6, <1>11 DEF TablesTyped
    <3>2. o \in Orders
      BY <2>1
    <3> QED
      BY <2>3, <3>1, <3>2, HoldsChange
  <2>5. PICK u \in Int, e \in Int, h \in Int :
          u = UseOf(trades, o, settled) /\ e = Consumes(t, o) /\ h = orders[o].hold
    <3>1. UseOf(trades, o, settled) \in Int
      BY <1>1, SumTypes
    <3>2. Consumes(t, o) \in Int
      BY FeeBounded
    <3>3. orders[o].hold \in Int
      BY <1>1, <2>1 DEF Row
    <3> QED
      BY <3>1, <3>2, <3>3
  <2>6. UseOf(trades, o, ns) = u + e
    <3>1. UseOf(trades, o, ns) = UseOf(trades, o, settled) + Use(t, o)
      BY <1>1, <1>2, <1>3, SumsAppend
    <3>2. Use(t, o) = e
      BY <1>4, <2>5 DEF Use, Parties
    <3> QED
      BY <2>5, <3>1, <3>2
  <2>7. HoldTerm(orders[o], u, o, c, x) = IF c = Request[o].account THEN h - u ELSE 0
    BY <1>5, <2>2, <2>5 DEF HoldTerm
  <2>8. orders'[o].hold = h /\ orders'[o].released = (SettledQty(o, ns) = Request[o].quantity)
    BY <1>9, <1>11, <2>5
  <2>9. HoldTerm(orders'[o], u + e, o, c, x) =
          IF c = Request[o].account /\ SettledQty(o, ns) # Request[o].quantity THEN h - (u + e) ELSE 0
    BY <2>2, <2>8 DEF HoldTerm
  <2>10. Rest(o, ns) = IF SettledQty(o, ns) = Request[o].quantity THEN h - (u + e) ELSE 0
    BY <2>5, <2>6, ModelSums DEF Rest, HoldLeft
  <2>11. balance'[c][x].held = balance[c][x].held - (IF c = Request[o].account THEN e + Rest(o, ns) ELSE 0)
    BY <1>2, <1>3, <1>4, <2>2, <2>5, SettledBalances
  <2>12. balance[c][x].held = HoldsOf(orders, trades, settled, c, x) /\ balance[c][x].held \in Int
    BY <1>1, HeldModel DEF HeldExactly, Balances, BooksInv
  <2>13. balance'[c][x].held = HoldsOf(orders', trades', settled', c, x)
    <3>1. PICK w \in Int : w = HoldsOf(orders, trades, settled, c, x) /\ w = balance[c][x].held
      BY <2>12
    <3>2. PICK done \in BOOLEAN, mine \in BOOLEAN :
            done = (SettledQty(o, ns) = Request[o].quantity) /\ mine = (c = Request[o].account)
      OBVIOUS
    <3>3. HoldsOf(orders', trades', settled', c, x) =
            w - (IF mine THEN h - u ELSE 0) + (IF mine /\ ~done THEN h - (u + e) ELSE 0)
      BY <1>6, <2>4, <2>5, <2>6, <2>7, <2>9, <3>1, <3>2
    <3>4. balance'[c][x].held = w - (IF mine THEN e + (IF done THEN h - (u + e) ELSE 0) ELSE 0)
      BY <2>10, <2>11, <3>1, <3>2
    <3> QED
      BY <3>3, <3>4
  <2> QED
    BY <2>2, <2>13
<1>16. HeldIsReserved'
  <2>1. {M, T} = {Buyer(t), Seller(t)} /\ HoldAsset(Buyer(t)) = "quote" /\ HoldAsset(Seller(t)) = "base"
    BY <1>4, TwoParties
  <2>2. \A c \in Accounts : /\ balance'[c]["quote"].held = HoldsOf(orders', trades', settled', c, "quote")
                            /\ balance'[c]["base"].held = HoldsOf(orders', trades', settled', c, "base")
    BY <1>15, <2>1
  <2> QED
    BY <2>2, HeldModel DEF HeldExactly, Assets
<1>17. Spendable'
  BY SettledBalances
<1> QED
  BY <1>12, <1>13, <1>14, <1>16, <1>17, <1>19 DEF BooksInv

-----------------------------------------------------------------------------
\* The first state: no order, no trade, nothing held.
LEMMA BooksInit == Init => BooksInv
<1> SUFFICES ASSUME Init PROVE BooksInv
  OBVIOUS
<1>1. trades = <<>> /\ settled = <<>>
  BY DEF Init, FeedInit
<1>2. trades \in Seq(Trade) /\ settled \in Seq(DOMAIN trades)
  BY <1>1, EmptySeq
<1>3. PICK r \in Row : r = [status |-> "NONE", filled |-> 0, hold |-> 0, released |-> FALSE]
  <2>1. "NONE" \in Status /\ 0 \in Int /\ FALSE \in BOOLEAN
    BY DEF Status
  <2>2. [status |-> "NONE", filled |-> 0, hold |-> 0, released |-> FALSE] \in Row
    BY <2>1 DEF Row
  <2> QED
    BY <2>2
<1>4. orders \in [Orders -> Row] /\ \A o \in Orders : orders[o] = r
  BY <1>3 DEF Init
<1>5. \A a \in Accounts, x \in Assets : Funding[a][x] \in Nat
  BY FundingAssumption
<1>6. \A a \in Accounts, x \in Assets : balance[a][x] = [available |-> Funding[a][x], held |-> 0]
  BY DEF Init
<1>7. balance \in Balances
  BY <1>5 DEF Init, Balances
<1>8. \A a \in Accounts, x \in Assets : balance[a][x].available \in Nat /\ balance[a][x].held = 0
  <2> SUFFICES ASSUME NEW a \in Accounts, NEW x \in Assets
               PROVE  balance[a][x].available \in Nat /\ balance[a][x].held = 0
    OBVIOUS
  <2>1. PICK n \in Nat : n = Funding[a][x]
    BY <1>5
  <2>2. balance[a][x] = [available |-> n, held |-> 0]
    BY <1>6, <2>1
  <2> QED
    BY <2>2
<1>9. Typed
  <2>1. resting \in [Orders -> Nat]
    BY DEF Init
  <2>2. order_replies \in [Orders -> [status: Status, filled: Int]]
    BY DEF Init, Status
  <2>3. CallsTyped
    BY CallForms DEF Init, CallsTyped
  <2> QED
    BY <1>2, <1>4, <1>7, <2>1, <2>2, <2>3 DEF Typed
<1>10. r.hold = 0 /\ r.released = FALSE
  BY <1>3
<1>11. NewRows /\ ReleasedRows /\ SellHolds
  <2>1. \A o \in Orders : SettledQty(o, settled) = 0
    BY <1>1, SumEmpty DEF SettledQty
  <2>2. r.status = "NONE"
    BY <1>3
  <2> QED
    BY <1>4, <1>10, <2>1, <2>2 DEF NewRows, ReleasedRows, SellHolds
<1>12. Spendable
  BY <1>8 DEF Spendable
<1>13. HeldIsReserved
  <2>1. ASSUME NEW a \in Accounts, NEW x \in Assets PROVE HoldsOf(orders, trades, settled, a, x) = 0
    <3> DEFINE f == [o \in Orders |-> HoldTerm(orders[o], UseOf(trades, o, settled), o, a, x)]
    <3>1. \A o \in Orders : UseOf(trades, o, settled) = 0
      BY <1>1, SumEmpty DEF UseOf
    <3>2. \A o \in Orders : HoldTerm(orders[o], 0, o, a, x) = 0
      BY <1>4, <1>10 DEF HoldTerm
    <3>3. f \in [Orders -> Int] /\ \A o \in Orders : f[o] = 0
      BY <3>1, <3>2
    <3> HIDE DEF f
    <3>4. SumFunctionOnSet(f, Orders) = 0
      BY <3>3, FiniteAssumption, SumZero
    <3> QED
      BY <3>4 DEF HoldsOf, f
  <2> QED
    BY <1>8, <2>1, HeldModel DEF HeldExactly
<1> QED
  BY <1>9, <1>11, <1>12, <1>13 DEF BooksInv

\* Every step keeps the books.
LEMMA BooksNext == BooksInv /\ [Next]_vars => BooksInv'
<1> SUFFICES ASSUME BooksInv, [Next]_vars PROVE BooksInv'
  OBVIOUS
<1>1. resting \in [Orders -> Nat] /\ order_replies \in Replies /\ CallsTyped
  BY DEF BooksInv, Typed, Replies
<1>2. ASSUME UNCHANGED <<orders, balance, settled, trades, resting, order_replies>>, CallsTyped' PROVE BooksInv'
  <2>1. resting' \in [Orders -> Nat] /\ order_replies' \in Replies
    BY <1>1, <1>2
  <2> QED
    BY <1>2, <2>1, StillStep
<1>3. CASE Gateway
  <2>1. PICK c \in Callers :
          \/ Timeout(c) \/ ApplyCancelAck(c) \/ CancelError(c)
          \/ \E os : TriggerConditionalOrders(c, os)
          \/ \E o \in Orders :
               \/ PlaceNew(c, o) \/ PlaceAgain(c, o) \/ ApplyEngineStatus(c, o) \/ EngineResponseError(c, o)
               \/ \E k \in CancelKeys : PrepareCancel(c, o, k) \/ CancelConditional(c, o, k) \/ CancelAgain(c, o, k)
    BY <1>3 DEF Gateway
  <2>2. CASE Timeout(c)
    BY <1>1, <1>2, <2>2, CallForms, CallChanged DEF Timeout, tables, engine, feedVars, book_keeping
  <2>3. CASE CancelError(c)
    BY <1>1, <1>2, <2>3, CallForms, CallChanged DEF CancelError, tables, engine, feedVars, book_keeping
  <2>4. CASE ApplyCancelAck(c)
    BY <2>4, ApplyCancelAckInv
  <2>5. ASSUME NEW os, TriggerConditionalOrders(c, os) PROVE BooksInv'
    BY <2>5, TriggerInv
  <2>6. ASSUME NEW o \in Orders, PlaceNew(c, o) PROVE BooksInv'
    BY <2>6, PlaceNewInv
  <2>7. ASSUME NEW o \in Orders, PlaceAgain(c, o) PROVE BooksInv'
    BY <1>1, <1>2, <2>7, CallForms, CallChanged DEF PlaceAgain, tables, engine, feedVars, book_keeping
  <2>8. ASSUME NEW o \in Orders, ApplyEngineStatus(c, o) PROVE BooksInv'
    BY <2>8, ApplyEngineStatusInv
  <2>9. ASSUME NEW o \in Orders, EngineResponseError(c, o) PROVE BooksInv'
    BY <1>1, <1>2, <2>9, CallForms, CallChanged DEF EngineResponseError, tables, engine, feedVars, book_keeping
  <2>10. ASSUME NEW o \in Orders, NEW k \in CancelKeys, PrepareCancel(c, o, k) PROVE BooksInv'
    BY <2>10, PrepareCancelInv
  <2>11. ASSUME NEW o \in Orders, NEW k \in CancelKeys, CancelConditional(c, o, k) PROVE BooksInv'
    BY <2>11, CancelConditionalInv
  <2>12. ASSUME NEW o \in Orders, NEW k \in CancelKeys, CancelAgain(c, o, k) PROVE BooksInv'
    BY <1>1, <1>2, <2>12, CancelCall DEF CancelAgain, tables, engine, feedVars, book_keeping
  <2> QED
    BY <2>1, <2>2, <2>3, <2>4, <2>5, <2>6, <2>7, <2>8, <2>9, <2>10, <2>11, <2>12
<1>4. CASE Engine
  <2>1. PICK o \in Orders :
          \/ \E ms \in SetToSeqs(Met(o)) : EngineMatches(o, ms)
          \/ EngineRejects(o) \/ EngineAnswersAgain(o) \/ \E id \in CommandIds : EngineCancels(o, id)
    BY <1>4 DEF Engine
  <2>2. ASSUME NEW ms \in SetToSeqs(Met(o)), EngineMatches(o, ms) PROVE BooksInv'
    BY <2>2, EngineMatchesInv
  <2>3. CASE EngineRejects(o)
    <3>1. UNCHANGED <<orders, balance, settled, trades, resting, call>>
      BY <2>3 DEF EngineRejects, tables, feedVars, book_keeping
    <3>2. order_replies' \in Replies
      BY <1>1, <2>3 DEF EngineRejects, Replies, Status, Terminal
    <3> QED
      BY <1>1, <3>1, <3>2, StillStep DEF CallsTyped
  <2>4. CASE EngineAnswersAgain(o)
    BY <1>1, <1>2, <2>4 DEF EngineAnswersAgain, tables, engine, feedVars, book_keeping, CallsTyped
  <2>5. ASSUME NEW id \in CommandIds, EngineCancels(o, id) PROVE BooksInv'
    <3>1. UNCHANGED <<orders, balance, settled, trades, order_replies, call>>
      BY <2>5 DEF EngineCancels, tables, feedVars, book_keeping
    <3>2. resting' \in [Orders -> Nat]
      BY <1>1, <2>5 DEF EngineCancels
    <3> QED
      BY <1>1, <3>1, <3>2, StillStep DEF CallsTyped
  <2> QED
    BY <2>1, <2>2, <2>3, <2>4, <2>5
<1>5. CASE Settlement
  <2>1. ASSUME NEW n \in DOMAIN trades, SettleTrade(n) PROVE BooksInv'
    BY <2>1, SettleTradeInv
  <2>2. ASSUME NEW n \in DOMAIN trades, SettleRefused(n) PROVE BooksInv'
    BY <1>1, <1>2, <2>2 DEF SettleRefused, Refuse, tables, engine, book_keeping, CallsTyped
  <2>4. ASSUME NEW n \in DOMAIN trades, BeginSettlement(n) \/ RetrySettlement(n) PROVE BooksInv'
    BY <1>1, <1>2, <2>4 DEF BeginSettlement, RetrySettlement, tables, engine, feedVars, book_keeping, CallsTyped
  <2>3. CASE FeedOnly
    <3>1. UNCHANGED <<trades, settled>>
      BY <2>3 DEF FeedOnly, Duplicate, GapReplayed, GapReplayFails, Gap, OtherReplay, LoseEvent, ConsumerCrash,
                  ConsumerRestart, book_keeping
    <3>2. UNCHANGED <<orders, balance, resting, order_replies, call>>
      BY <2>3 DEF FeedOnly, tables, engine
    <3> QED
      BY <1>1, <1>2, <3>1, <3>2 DEF CallsTyped
  <2> QED
    BY <1>5, <2>1, <2>2, <2>3, <2>4 DEF Settlement
<1>6. CASE Wait \/ UNCHANGED vars
  BY <1>1, <1>2, <1>6 DEF Wait, vars, tables, engine, feedVars, book_keeping, CallsTyped
<1> QED
  BY <1>3, <1>4, <1>5, <1>6 DEF Next

-----------------------------------------------------------------------------
(* What is proved of the feed holds of the feed that the engine writes *)

\* Every step of the gateway is a step of the feed, or leaves it alone.
LEMMA GatewayFeed == BooksInv /\ FeedInv /\ [Next]_vars => FeedInv'
<1> SUFFICES ASSUME BooksInv, FeedInv, [Next]_vars PROVE FeedInv'
  OBVIOUS
<1>1. CASE Gateway
  <2>1. ASSUME NEW c, NEW o, NEW k, PrepareCancel(c, o, k) \/ CancelConditional(c, o, k) \/ CancelAgain(c, o, k)
        PROVE  UNCHANGED feedVars
    BY <2>1 DEF PrepareCancel, CancelConditional, CancelAgain
  <2>2. ASSUME NEW c, NEW o, PlaceNew(c, o) \/ PlaceAgain(c, o) \/ ApplyEngineStatus(c, o) \/ EngineResponseError(c, o)
        PROVE  UNCHANGED feedVars
    BY <2>2 DEF PlaceNew, PlaceAgain, ApplyEngineStatus, EngineResponseError
  <2>3. ASSUME NEW c, NEW os, TriggerConditionalOrders(c, os)
        PROVE  UNCHANGED feedVars
    BY <2>3 DEF TriggerConditionalOrders
  <2>4. ASSUME NEW c, Timeout(c) \/ ApplyCancelAck(c) \/ CancelError(c)
        PROVE  UNCHANGED feedVars
    BY <2>4 DEF Timeout, ApplyCancelAck, CancelError
  <2> QED
    BY <1>1, <2>1, <2>2, <2>3, <2>4, FeedKept DEF Gateway
<1>2. CASE Engine
  <2>1. PICK o \in Orders :
          \/ \E ms \in SetToSeqs(Met(o)) : EngineMatches(o, ms)
          \/ EngineRejects(o) \/ EngineAnswersAgain(o) \/ \E id \in CommandIds : EngineCancels(o, id)
    BY <1>2 DEF Engine
  <2>2. ASSUME NEW ms \in SetToSeqs(Met(o)), EngineMatches(o, ms) PROVE FeedInv'
    <3>1. PICK ts \in Seq(Trade) : Emit(ts)
      BY <2>2, FillsEmitted
    <3>2. PICK k \in Nat : k = Len(ts)
      OBVIOUS
    <3>3. trades \in Seq(Trade) /\ trades' = trades \o ts
      BY <3>1 DEF Emit, BooksInv, Typed
    <3>4. trades' \in Seq(Trade) /\ Len(trades') = Len(trades) + k
      BY <3>2, <3>3, ConcatProperties
    <3>5. DOMAIN trades' = 1..Len(trades')
      BY <3>4
    <3> QED
      BY <3>1, <3>2, <3>4, <3>5, EmitInv
  <2>3. CASE EngineRejects(o) \/ EngineAnswersAgain(o) \/ \E id \in CommandIds : EngineCancels(o, id)
    BY <2>3, FeedKept DEF EngineRejects, EngineAnswersAgain, EngineCancels
  <2> QED
    BY <2>1, <2>2, <2>3
<1>3. CASE Settlement
  <2>1. ASSUME NEW n \in DOMAIN trades, SettleTrade(n) PROVE FeedInv'
    BY <2>1, SettleInv DEF SettleTrade
  <2>2. ASSUME NEW n \in DOMAIN trades, SettleRefused(n) PROVE FeedInv'
    BY <2>2, RefuseInv, CounterFacts DEF SettleRefused
  <2>4. ASSUME NEW n \in DOMAIN trades, BeginSettlement(n) \/ RetrySettlement(n) PROVE FeedInv'
    BY <2>4, FeedKept DEF BeginSettlement, RetrySettlement
  <2>3. CASE FeedOnly
    BY <2>3, DuplicateInv, GapReplayedInv, GapReplayFailsInv, OtherReplayInv, LoseEventInv, ConsumerCrashInv,
       ConsumerRestartInv DEF FeedOnly
  <2> QED
    BY <1>3, <2>1, <2>2, <2>3, <2>4 DEF Settlement
<1>4. CASE Wait \/ UNCHANGED vars
  BY <1>4, FeedKept DEF Wait, vars
<1> QED
  BY <1>1, <1>2, <1>3, <1>4 DEF Next

-----------------------------------------------------------------------------
\* What a trade consumes of a sell order is what it fills of it.
LEMMA SellUse ==
  ASSUME NEW o \in Orders, Request[o].side = "SELL", NEW ns
  PROVE  Consumed(o, ns) = SettledQty(o, ns)
<1>1. \A i \in DOMAIN ns : Consumes(trades[ns[i]], o) = trades[ns[i]].quantity
  BY DEF Consumes, holdConsumed
<1> QED
  BY <1>1 DEF Consumed, SettledQty

\* The holds of base are those of sell orders, and none of them is used up by more than it was.
LEMMA BaseHeld == ASSUME BooksInv PROVE \A a \in Accounts : balance[a]["base"].held >= 0
<1> SUFFICES ASSUME NEW a \in Accounts PROVE balance[a]["base"].held >= 0
  OBVIOUS
<1> DEFINE f == [o \in Orders |-> IF Request[o].account = a /\ HoldAsset(o) = "base" /\ ~orders[o].released
                                 THEN HoldLeft(o, settled) ELSE 0]
<1>1. ASSUME NEW o \in Orders, HoldAsset(o) = "base" PROVE HoldLeft(o, settled) \in Nat
  <2>1. Request[o].side = "SELL"
    BY <1>1, RequestFacts DEF HoldAsset
  <2>2. SettledQty(o, settled) <= orders[o].hold
    BY <2>1 DEF BooksInv, SellHolds
  <2>3. SettledQty(o, settled) \in Int
    BY ModelSums, SumTypes DEF BooksInv, Typed
  <2>4. orders[o].hold \in Int
    BY DEF BooksInv, Typed, Row
  <2> QED
    BY <2>1, <2>2, <2>3, <2>4, SellUse DEF HoldLeft
<1>2. f \in [Orders -> Nat]
  BY <1>1
<1>3. balance[a]["base"].held = SumFunctionOnSet(f, Orders)
  BY DEF BooksInv, HeldIsReserved, OpenHolds, Assets
<1> HIDE DEF f
<1>4. SumFunctionOnSet(f, Orders) \in Nat
  BY <1>2, FiniteAssumption, SumNat
<1> QED
  BY <1>3, <1>4

-----------------------------------------------------------------------------
(* The theorems *)

\* In every behaviour of callers, engine and settlement consumer the books are
\* kept and the feed is in order.
THEOREM BooksKept == Spec => [](BooksInv /\ FeedInv)
<1>1. Init => BooksInv /\ FeedInv
  BY BooksInit, InitInv DEF Init
<1>2. BooksInv /\ FeedInv /\ [Next]_vars => BooksInv' /\ FeedInv'
  BY BooksNext, GatewayFeed
<1> QED
  BY <1>1, <1>2, PTL DEF Spec

\* The held balance of every account is exactly what its open orders have left
\* of their holds: CreateOrder, ApplyEngineStatus, ApplyCancelAck and
\* settleTradeOnce, in whatever order they commit, neither leave money behind
\* in a hold nor release it twice.
THEOREM Reserved == Spec => []HeldIsReserved
<1>1. BooksInv => HeldIsReserved
  BY DEF BooksInv
<1> QED
  BY <1>1, BooksKept, PTL

\* Although a trade is settled on balances as they were before its locks, no
\* available balance of a customer becomes negative and no seller delivers more
\* than he holds, with any fees and rebates: CreateOrder, the releases and the
\* credits of a trade take nothing from what is available that is not there, and
\* the trades of a sell order stay within its quantity, which is its hold.
THEOREM NoDebt == Spec => []NeverOverdrawn
<1>1. BooksInv => NeverOverdrawn
  BY BaseHeld DEF BooksInv, Spendable, NeverOverdrawn
<1> QED
  BY <1>1, BooksKept, PTL

\* With the checks of settleTradeOnce that TradeFeed leaves out, trades are
\* still settled once each and in the order of the engine.
THEOREM GatewayInOrder == Spec => []SettledInOrder
<1>1. FeedInv => SettledInOrder
  BY DEF FeedInv
<1> QED
  BY <1>1, BooksKept, PTL

\* And the pair is halted exactly while a trade is known to be missing: PlaceNew
\* takes no order then.
THEOREM GatewayHalts == Spec => []GapHaltsPair
<1>1. FeedInv => GapHaltsPair
  BY DEF FeedInv
<1> QED
  BY <1>1, BooksKept, PTL
-----------------------------------------------------------------------------
(* The market maker: numbers and sequences *)

\* The minimum of a set of natural numbers belongs to it.
LEMMA MinMember == ASSUME NEW B \in SUBSET Nat, B # {} PROVE Min(B) \in B
  BY LeastNat DEF Min

\* So does the maximum, if there is a bound: it is the least bound.
LEMMA MaxMember == ASSUME NEW n \in Nat, NEW B \in SUBSET (1..n), B # {} PROVE Max(B) \in B
<1> DEFINE U == {m \in Nat : \A x \in B : x <= m}
<1>1. n \in U
  OBVIOUS
<1>2. PICK m \in U : \A k \in U : m <= k
  BY <1>1, LeastNat
<1>3. m \in B
  <2>1. SUFFICES ASSUME m \notin B PROVE FALSE
    OBVIOUS
  <2>2. PICK x \in B : TRUE
    OBVIOUS
  <2>3. m - 1 \in U
    BY <2>1, <2>2
  <2> QED
    BY <1>2, <2>3
<1>4. \E x \in B : \A y \in B : x >= y
  BY <1>3
<1> QED
  BY <1>4 DEF Max

\* A sequence, of whatever.
AnySeq(s) == s \in Seq({s[i] : i \in DOMAIN s})

\* A sequence that gets another element.
LEMMA AppendAny ==
  ASSUME NEW s, AnySeq(s), NEW e
  PROVE  /\ AnySeq(Append(s, e)) /\ Len(s) \in Nat /\ DOMAIN s = 1..Len(s)
         /\ DOMAIN Append(s, e) = 1..(Len(s) + 1)
         /\ \A i \in 1..Len(s) : Append(s, e)[i] = s[i]
         /\ Append(s, e)[Len(s) + 1] = e
<1> DEFINE S == {s[i] : i \in DOMAIN s} \cup {e}
<1>1. s \in Seq(S)
  BY DEF AnySeq
<1>2. Append(s, e) \in Seq(S) /\ DOMAIN Append(s, e) = 1..(Len(s) + 1) /\ Len(Append(s, e)) = Len(s) + 1
      /\ (\A i \in 1..Len(s) : Append(s, e)[i] = s[i]) /\ Append(s, e)[Len(s) + 1] = e
  BY <1>1, AppendProperties, LenProperties
<1>3. Len(s) \in Nat /\ DOMAIN s = 1..Len(s)
  BY <1>1, LenProperties
<1> HIDE DEF S
<1>4. AnySeq(Append(s, e))
  BY <1>2, <1>3, SeqDef DEF AnySeq
<1> QED
  BY <1>2, <1>3, <1>4

\* A sequence in which a position is replaced.
LEMMA ReplaceAny ==
  ASSUME NEW s, AnySeq(s), NEW t, DOMAIN t = DOMAIN s, t = [i \in DOMAIN s |-> t[i]]
  PROVE  AnySeq(t) /\ Len(s) \in Nat /\ DOMAIN s = 1..Len(s) /\ Len(t) = Len(s)
<1>1. Len(s) \in Nat /\ DOMAIN s = 1..Len(s)
  BY LenProperties DEF AnySeq
<1>2. t \in [1..Len(s) -> {t[i] : i \in DOMAIN t}]
  BY <1>1
<1>3. t \in Seq({t[i] : i \in DOMAIN t})
  BY <1>1, <1>2, SeqDef
<1> QED
  BY <1>1, <1>3, LenProperties DEF AnySeq

-----------------------------------------------------------------------------
(* The officers *)

Controls == [enabled : BOOLEAN, dry_run : BOOLEAN, kill_switch : BOOLEAN, account : MakerAccounts]

\* A payload about known pairs and assets.
IsInput(in) ==
  /\ in.account \in MakerAccounts /\ in.pairs \subseteq Pairs /\ DOMAIN in.inventory \subseteq MakerAssets
  /\ \A a \in DOMAIN in.inventory : in.inventory[a] \in Nat

\* A request has a payload, and an approved dry run has two officers.
IsRequest(q) ==
  /\ {"input", "status", "proposed_by", "approved_by"} \subseteq DOMAIN q
  /\ IsInput(q.input)
  /\ q.input.action = "configure_dry_run" /\ q.status = "approved" => q.proposed_by # q.approved_by

Requested ==
  /\ AnySeq(requests)
  /\ \A i \in DOMAIN requests : IsRequest(requests[i])

\* The decisions are about requests, and one of them configured reference prices.
Decisions ==
  /\ decided \in Seq(DOMAIN requests) /\ decided # <<>>
  /\ \E i \in DOMAIN decided : requests[decided[i]].input.action = "configure_reference_only"

Held == treasury \in [MakerAssets -> Nat] /\ maker \in [MakerAccounts -> [MakerAssets -> Int]]

OfficeInv ==
  /\ control \in Controls /\ configs \subseteq Pairs
  /\ Requested /\ Decisions /\ Held /\ LiveFunded

\* The account the market maker has first.
LEMMA FirstIsAccount == FirstAccount \in MakerAccounts
  BY MakerAssumption DEF FirstAccount

\* It holds at first.
LEMMA OfficeInit == MakerInit => OfficeInv
<1> SUFFICES ASSUME MakerInit PROVE OfficeInv
  OBVIOUS
<1>1. control \in Controls /\ configs \subseteq Pairs /\ Held /\ LiveFunded
  BY MakerAssumption, FirstIsAccount DEF MakerInit, Controls, Held, LiveFunded
<1>2. requests = <<FirstRequest>> /\ DOMAIN requests = {1} /\ requests[1] = FirstRequest /\ Len(requests) = 1
  BY DEF MakerInit
<1>3. IsRequest(FirstRequest) /\ FirstRequest.input.action = "configure_reference_only"
  BY FirstIsAccount DEF IsRequest, IsInput, FirstRequest
<1>4. Requested
  <2>1. requests \in Seq({requests[i] : i \in DOMAIN requests})
    BY <1>2
  <2> QED
    BY <1>2, <1>3, <2>1 DEF Requested, AnySeq
<1>5. Decisions
  BY <1>2, <1>3 DEF Decisions, MakerInit
<1> QED
  BY <1>1, <1>4, <1>5 DEF OfficeInv

\* Nothing but the officers touches their tables.
LEMMA OfficeKept ==
  ASSUME OfficeInv, UNCHANGED officeVars, maker' \in [MakerAccounts -> [MakerAssets -> Int]]
  PROVE  OfficeInv'
<1>1. control' = control /\ configs' = configs /\ requests' = requests /\ decided' = decided /\ treasury' = treasury
  BY DEF officeVars
<1>2. Requested' /\ Decisions'
  BY <1>1 DEF OfficeInv, Requested, Decisions
<1>3. Held' /\ LiveFunded'
  BY <1>1 DEF OfficeInv, Held, LiveFunded, Covered
<1> QED
  BY <1>1, <1>2, <1>3 DEF OfficeInv

\* The policies that were approved last are about known pairs.
LEMMA LatestIsInput == ASSUME OfficeInv PROVE IsInput(latestReferenceOnly)
<1> DEFINE B == {i \in DOMAIN decided : requests[decided[i]].input.action = "configure_reference_only"}
<1>1. Len(decided) \in Nat /\ DOMAIN decided = 1..Len(decided) /\ \A i \in DOMAIN decided : decided[i] \in DOMAIN requests
  BY LenProperties, ElementOfSeq DEF OfficeInv, Decisions
<1>2. B \in SUBSET (1..Len(decided)) /\ B # {}
  BY <1>1 DEF OfficeInv, Decisions
<1>3. Max(B) \in B
  BY <1>1, <1>2, MaxMember
<1>4. latestReferenceOnly = requests[decided[Max(B)]].input
  BY DEF latestReferenceOnly
<1> HIDE DEF B
<1>5. decided[Max(B)] \in DOMAIN requests
  BY <1>1, <1>2, <1>3
<1> QED
  BY <1>4, <1>5 DEF OfficeInv, Requested, IsRequest

\* What the operator's command line proposes is about the assets of those pairs.
LEMMA FundedIsInput == ASSUME OfficeInv PROVE IsInput(fundedDryRun)
<1>1. latestReferenceOnly.pairs \subseteq Pairs /\ latestReferenceOnly.account \in MakerAccounts
  BY LatestIsInput DEF IsInput
<1>0. PICK x \in MakerAccounts : x = latestReferenceOnly.account
  BY <1>1
<1>2. PICK ps \in SUBSET Pairs : ps = latestReferenceOnly.pairs
  BY <1>1
<1> DEFINE assets == {Base[p] : p \in ps} \cup {Quote[p] : p \in ps}
<1>3. assets \subseteq MakerAssets
  BY MakerAssumption
<1>4. fundedDryRun = [action |-> "configure_dry_run", account |-> x, pairs |-> ps, inventory |-> [a \in assets |-> treasury[a]]]
  BY <1>0, <1>2 DEF fundedDryRun
<1> HIDE DEF assets
<1>5. fundedDryRun.account = x /\ fundedDryRun.pairs = ps /\ fundedDryRun.inventory = [a \in assets |-> treasury[a]]
  BY <1>4
<1> QED
  BY <1>3, <1>5 DEF IsInput, OfficeInv, Held

\* A proposal adds a pending request and touches nothing else.
LEMMA ProposeStep == ASSUME OfficeInv, NEW u, NEW in, IsInput(in), Propose(u, in) PROVE OfficeInv'
<1> DEFINE q == [input |-> in, status |-> "pending", proposed_by |-> u, approved_by |-> "nobody"]
<1>1. requests' = Append(requests, q) /\ UNCHANGED <<control, configs, decided, treasury, maker>>
  BY DEF Propose
<1>2. q.input = in /\ q.status = "pending" /\ IsRequest(q)
  BY DEF IsRequest
<1> HIDE DEF q
<1>3. AnySeq(requests)
  BY DEF OfficeInv, Requested
<1>4. /\ AnySeq(requests') /\ Len(requests) \in Nat /\ DOMAIN requests = 1..Len(requests)
      /\ DOMAIN requests' = 1..(Len(requests) + 1)
      /\ \A i \in 1..Len(requests) : requests'[i] = requests[i]
      /\ requests'[Len(requests) + 1] = q
  BY <1>1, <1>3, AppendAny
<1>5. \A i \in DOMAIN requests : i \in DOMAIN requests' /\ requests'[i] = requests[i]
  BY <1>4
<1>6. \A i \in DOMAIN requests' : i \in DOMAIN requests \/ requests'[i] = q
  BY <1>4
<1>7. Requested'
  BY <1>2, <1>4, <1>5, <1>6 DEF OfficeInv, Requested
<1>8. Decisions'
  <2>1. \A i \in DOMAIN decided : decided[i] \in DOMAIN requests
    BY ElementOfSeq, LenProperties DEF OfficeInv, Decisions
  <2>2. decided \in Seq(DOMAIN requests')
    BY <1>5, <2>1, SeqDef, LenProperties DEF OfficeInv, Decisions
  <2> QED
    BY <1>1, <1>5, <2>1, <2>2 DEF OfficeInv, Decisions
<1>9. LiveFunded'
  BY <1>1, <1>5 DEF OfficeInv, LiveFunded, Covered
<1> QED
  BY <1>1, <1>7, <1>8, <1>9 DEF OfficeInv, Held

\* The elements of s, with r before the last one.
Inserted(s, r) == Append(Front(s), r) \o <<Last(s)>>

\* t has one element more than s, of length n, and those of s among them.
Extends(S, s, n, t) ==
  t \in Seq(S) /\ Len(t) = n + 1 /\ \A k \in 1..n : \E i \in 1..(n + 1) : t[i] = s[k]

\* An element that goes before the last one: what was there stays.
LEMMA InsertBeforeLast ==
  ASSUME NEW S, NEW s \in Seq(S), NEW n \in Nat, n # 0, Len(s) = n, NEW r \in S
  PROVE  Extends(S, s, n, Inserted(s, r))
<1>0. PICK t : t = Inserted(s, r)
  OBVIOUS
<1>1. PICK f : f = Front(s)
  OBVIOUS
<1>2. f \in Seq(S) /\ Len(f) = n - 1 /\ \A i \in 1..(n - 1) : f[i] = s[i]
  BY <1>1 DEF Front
<1>3. PICK g : g = Append(f, r)
  OBVIOUS
<1>4. g \in Seq(S) /\ Len(g) = Len(f) + 1 /\ \A i \in 1..Len(f) : g[i] = f[i]
  BY <1>2, <1>3, AppendProperties
<1>5. Len(g) = n /\ \A i \in 1..(n - 1) : g[i] = s[i]
  BY <1>2, <1>4
<1>6. Last(s) = s[n] /\ s[n] \in S
  BY ElementOfSeq DEF Last
<1>7. PICK h : h = <<s[n]>>
  OBVIOUS
<1>8. h \in Seq(S) /\ Len(h) = 1 /\ h[1] = s[n]
  BY <1>6, <1>7
<1>9. t = g \o h
  BY <1>0, <1>1, <1>3, <1>6, <1>7 DEF Inserted
<1>10. g \o h \in Seq(S) /\ Len(g \o h) = Len(g) + Len(h)
       /\ \A i \in 1..(Len(g) + Len(h)) : (g \o h)[i] = IF i <= Len(g) THEN g[i] ELSE h[i - Len(g)]
  BY <1>4, <1>8, ConcatProperties
<1>11. t \in Seq(S) /\ Len(t) = n + 1 /\ \A i \in 1..(n + 1) : t[i] = IF i <= n THEN g[i] ELSE h[i - n]
  BY <1>5, <1>8, <1>9, <1>10
<1>12. ASSUME NEW k \in 1..n PROVE \E i \in 1..(n + 1) : t[i] = s[k]
  <2>1. CASE k = n
    <3>1. n + 1 \in 1..(n + 1) /\ ~(n + 1 <= n) /\ (n + 1) - n = 1
      OBVIOUS
    <3>2. t[n + 1] = h[1]
      BY <1>11, <3>1
    <3> QED
      BY <1>8, <2>1, <3>1, <3>2
  <2>2. CASE k # n
    <3>1. k \in 1..(n - 1) /\ k \in 1..(n + 1) /\ k <= n
      BY <2>2
    <3> QED
      BY <1>5, <1>11, <3>1
  <2> QED
    BY <2>1, <2>2
<1> QED
  BY <1>0, <1>11, <1>12 DEF Extends

\* The place of a decision among the others does not matter here.
LEMMA DecidedStep ==
  ASSUME Decisions, NEW r \in DOMAIN requests, DecidedAt(r), DOMAIN requests' = DOMAIN requests,
         \A i \in DOMAIN requests : requests'[i].input = requests[i].input
  PROVE  Decisions'
<1> DEFINE D == DOMAIN requests
           n == Len(decided)
<1>1. decided \in Seq(D) /\ decided # <<>> /\ n \in Nat /\ DOMAIN decided = 1..n /\ n # 0
  BY LenProperties, EmptySeq DEF Decisions
<1>2. \A i \in 1..n : decided[i] \in D
  BY <1>1, ElementOfSeq
<1>3. PICK k \in 1..n : requests[decided[k]].input.action = "configure_reference_only"
  BY <1>1 DEF Decisions
<1>4. /\ decided' \in Seq(D) /\ Len(decided') = n + 1
      /\ \E i \in 1..(n + 1) : decided'[i] = decided[k]
  <2>1. CASE decided' = Append(decided, r)
    BY <1>1, <2>1, AppendProperties
  <2>2. CASE decided' = Append(Front(decided), r) \o <<Last(decided)>>
    <3>1. decided \in Seq(D) /\ n \in Nat /\ n # 0 /\ Len(decided) = n /\ r \in D
      BY <1>1
    <3> HIDE DEF D, n
    <3>2. Extends(D, decided, n, Inserted(decided, r))
      BY <3>1, InsertBeforeLast
    <3>3. Extends(D, decided, n, decided')
      BY <2>2, <3>2 DEF Inserted
    <3> QED
      BY <1>3, <3>3 DEF Extends
  <2> QED
    BY <2>1, <2>2 DEF DecidedAt
<1>5. DOMAIN decided' = 1..(n + 1) /\ decided' # <<>>
  BY <1>1, <1>4, LenProperties
<1>6. PICK i \in 1..(n + 1) : decided'[i] = decided[k]
  BY <1>4
<1>7. requests'[decided'[i]].input.action = "configure_reference_only"
  BY <1>2, <1>3, <1>6
<1> QED
  BY <1>4, <1>5, <1>7 DEF Decisions

\* What an approval does to the request.
LEMMA ApprovedRequest ==
  ASSUME OfficeInv, NEW u, NEW r \in DOMAIN requests, Approve(u, r)
  PROVE  /\ Requested' /\ DOMAIN requests' = DOMAIN requests
         /\ \A i \in DOMAIN requests : requests'[i].input = requests[i].input
         /\ \A i \in DOMAIN requests : i # r => requests'[i] = requests[i]
         /\ requests'[r].status = "approved" /\ requests[r].status = "pending"
<1>1. requests' = [requests EXCEPT ![r].status = "approved", ![r].approved_by = u]
      /\ requests[r].status = "pending" /\ requests[r].proposed_by # u
  BY DEF Approve
<1>2. AnySeq(requests) /\ \A i \in DOMAIN requests : IsRequest(requests[i])
  BY DEF OfficeInv, Requested
<1>3. {"input", "status", "proposed_by", "approved_by"} \subseteq DOMAIN requests[r]
  BY <1>2 DEF IsRequest
<1>4. DOMAIN requests' = DOMAIN requests /\ (\A i \in DOMAIN requests : i # r => requests'[i] = requests[i])
      /\ requests' = [i \in DOMAIN requests |-> requests'[i]]
  BY <1>1
<1>5. /\ requests'[r].input = requests[r].input /\ requests'[r].status = "approved"
      /\ requests'[r].proposed_by = requests[r].proposed_by /\ requests'[r].approved_by = u
      /\ DOMAIN requests'[r] = DOMAIN requests[r]
  BY <1>1, <1>3
<1>6. IsRequest(requests'[r])
  BY <1>1, <1>2, <1>5 DEF IsRequest
<1>7. AnySeq(requests')
  BY <1>2, <1>4, ReplaceAny
<1>8. Requested'
  BY <1>2, <1>4, <1>6, <1>7 DEF Requested
<1> QED
  BY <1>1, <1>4, <1>5, <1>8

\* An approval: a configuration goes back to the dry run, and the release finds the
\* dry run that was decided last.
LEMMA ApproveStep == ASSUME OfficeInv, NEW u, NEW r \in DOMAIN requests, Approve(u, r) PROVE OfficeInv'
<1>1. /\ Requested' /\ DOMAIN requests' = DOMAIN requests
      /\ \A i \in DOMAIN requests : requests'[i].input = requests[i].input
      /\ \A i \in DOMAIN requests : i # r => requests'[i] = requests[i]
      /\ requests'[r].status = "approved" /\ requests[r].status = "pending"
  BY ApprovedRequest
<1>2. Decisions'
  BY <1>1, DecidedStep DEF OfficeInv, Approve
<1>3. PICK in : in = requests[r].input
  OBVIOUS
<1>4. IsInput(in)
  BY <1>3 DEF OfficeInv, Requested, IsRequest
<1>5. CASE applyReferenceOnly(in)
  <2>1. control' \in Controls /\ control'.dry_run /\ configs' \subseteq Pairs /\ UNCHANGED <<treasury, maker>>
    BY <1>4, <1>5 DEF applyReferenceOnly, OfficeInv, Controls, IsInput
  <2> QED
    BY <1>1, <1>2, <2>1 DEF OfficeInv, Held, LiveFunded
<1>6. CASE applyDryRun(in)
  <2>1. control' \in Controls /\ control'.dry_run /\ configs' \subseteq Pairs
    BY <1>4, <1>6 DEF applyDryRun, OfficeInv, Controls, IsInput
  <2>2. Held'
    <3>1. \A a \in MakerAssets : Given(in, a) \in Nat /\ treasury[a] - Given(in, a) \in Nat
      BY <1>4, <1>6 DEF applyDryRun, OfficeInv, Held, IsInput, Given
    <3>2. treasury' = [a \in MakerAssets |-> treasury[a] - Given(in, a)]
          /\ maker' = [maker EXCEPT ![in.account] = [a \in MakerAssets |-> maker[in.account][a] + Given(in, a)]]
      BY <1>6 DEF applyDryRun
    <3>3. [a \in MakerAssets |-> maker[in.account][a] + Given(in, a)] \in [MakerAssets -> Int]
      BY <1>4, <3>1 DEF IsInput, OfficeInv, Held
    <3> QED
      BY <1>4, <3>1, <3>2, <3>3 DEF OfficeInv, Held, IsInput
  <2> QED
    BY <1>1, <1>2, <2>1, <2>2 DEF OfficeInv, LiveFunded
<1>7. CASE applyLive
  <2>1. control' \in Controls /\ UNCHANGED <<configs, treasury, maker>> /\ ReadyForLive
    BY <1>7 DEF applyLive, OfficeInv, Controls
  <2>2. PICK d : d = LatestDecision
    OBVIOUS
  <2>3. d \in DOMAIN requests
    <3>1. decided \in Seq(DOMAIN requests) /\ decided # <<>>
      BY DEF OfficeInv, Decisions
    <3>2. Len(decided) \in 1..Len(decided)
      BY <3>1, LenProperties, EmptySeq
    <3>3. decided[Len(decided)] \in DOMAIN requests
      BY <3>1, <3>2, ElementOfSeq
    <3> QED
      BY <2>2, <3>1, <3>3 DEF LatestDecision, Last
  <2>4. requests[d].input.action = "configure_dry_run" /\ configs # {} /\ Covered(configs, Inventory(d))
    BY <2>1, <2>2 DEF ReadyForLive
  <2>5. Inventory(d) # {}
    BY <2>4 DEF Covered
  <2>6. requests[d].status = "approved" /\ Inventory(d) = DOMAIN requests[d].input.inventory
    BY <2>5 DEF Inventory
  <2>7. requests'[d] = requests[d]
    BY <1>1, <2>3, <2>6
  <2>8. IsRequest(requests[d])
    BY <2>3 DEF OfficeInv, Requested
  <2>9. LiveFunded'
    BY <1>1, <2>1, <2>3, <2>4, <2>6, <2>7, <2>8 DEF LiveFunded, IsRequest, Covered
  <2> QED
    BY <1>1, <1>2, <2>1, <2>9 DEF OfficeInv, Held
<1> QED
  BY <1>3, <1>5, <1>6, <1>7 DEF Approve

\* The steps of the officers.
LEMMA OfficerStep == ASSUME OfficeInv, NEW u, Officer(u) PROVE OfficeInv'
<1>1. ASSUME NEW in \in Inputs, Propose(u, in) PROVE OfficeInv'
  BY <1>1, ProposeStep, MakerAssumption DEF IsInput
<1>2. CASE ProposeResume(u)
  BY <1>2, LatestIsInput, ProposeStep DEF ProposeResume
<1>3. CASE ProposeFundedDryRun(u)
  BY <1>3, FundedIsInput, ProposeStep DEF ProposeFundedDryRun
<1>4. ASSUME NEW r \in DOMAIN requests, Approve(u, r) PROVE OfficeInv'
  BY <1>4, ApproveStep
<1>5. CASE EmergencyStop(u)
  <2>1. control' \in Controls /\ control'.dry_run = control.dry_run /\ control'.enabled = control.enabled
        /\ UNCHANGED <<configs, requests, decided, treasury, maker>>
    BY <1>5 DEF EmergencyStop, OfficeInv, Controls
  <2>2. Requested' /\ Decisions'
    BY <2>1 DEF OfficeInv, Requested, Decisions
  <2> QED
    BY <2>1, <2>2 DEF OfficeInv, Held, LiveFunded, Covered
<1> QED
  BY <1>1, <1>2, <1>3, <1>4, <1>5 DEF Officer

\* A fill moves a unit of each asset.
LEMMA FillStep == ASSUME OfficeInv, NEW k \in Quotes, Fill(k) PROVE OfficeInv'
<1>1. k[1] \in Pairs /\ k[4] \in MakerAccounts
  BY DEF Quotes
<1>2. Base[k[1]] \in MakerAssets /\ Quote[k[1]] \in MakerAssets
  BY <1>1, MakerAssumption
<1>3. maker' \in [MakerAccounts -> [MakerAssets -> Int]]
  BY <1>1, <1>2 DEF Fill, OfficeInv, Held
<1> QED
  BY <1>3, OfficeKept DEF Fill

\* A step of a process leaves the officers' tables and the balances alone.
LEMMA ServeTouches ==
  ASSUME NEW s, Serve(s) \/ Fail(s)
  PROVE  UNCHANGED <<officeVars, maker, slot>>
  BY DEF Serve, Fail, Cycle, ListConfigs, quotePair, Halt, stopExisting, ClaimCommand, ClaimRefused, ListOrders, AskToCancel,
         CancelPassed, CancelTwice, CancelConfirmed, CancelFails, PlaceOrder, PlaceRejected, PlaceFails, PlaceRefused, cycleOnly

\* Every step keeps what the officers rely on.
LEMMA OfficeStep == ASSUME OfficeInv, [MakerNext]_makerVars PROVE OfficeInv'
<1>1. ASSUME NEW u, Officer(u) PROVE OfficeInv'
  BY <1>1, OfficerStep
<1>2. ASSUME NEW s, Serve(s) \/ Fail(s) PROVE OfficeInv'
  <2>1. UNCHANGED officeVars /\ maker' = maker
    BY <1>2, ServeTouches
  <2> QED
    BY <2>1, OfficeKept DEF OfficeInv, Held
<1>3. ASSUME NEW k \in Quotes, Fill(k) PROVE OfficeInv'
  BY <1>3, FillStep
<1>4. CASE Tick \/ (\E a \in MakerAccounts : Suspend(a)) \/ UNCHANGED makerVars
  <2>1. UNCHANGED officeVars /\ maker' = maker
    BY <1>4 DEF Tick, Suspend, makerVars
  <2> QED
    BY <2>1, OfficeKept DEF OfficeInv, Held
<1> QED
  BY <1>1, <1>2, <1>3, <1>4 DEF MakerNext

\* What the officers rely on holds in every state.
LEMMA MakerInvariance == MakerSpec => []OfficeInv
<1>1. OfficeInv /\ [MakerNext]_makerVars => OfficeInv'
  BY OfficeStep
<1> QED
  BY <1>1, OfficeInit, PTL DEF MakerSpec

\* Live quoting was funded by a dry run that two officers wanted, however approvals
\* overlap: applyLive reads the decision that is latest, and every configuration
\* ends live quoting.
THEOREM LiveQuotesFunded == MakerSpec => []LiveFunded
<1>1. OfficeInv => LiveFunded
  BY DEF OfficeInv
<1> QED
  BY <1>1, MakerInvariance, PTL

-----------------------------------------------------------------------------
(* The cycles *)

Cycles == [pc : {"idle", "list", "pair", "claim", "list_orders", "cancel", "canceling", "place"}, control : Controls, todo : SUBSET Pairs,
           pair : Nat, slot : 0..MaxSlot, sides : SUBSET Sides, found : SUBSET (Sides \cup Quotes), asked : SUBSET Quotes]

\* Where a process has a pair, and where it replaces the pair's quotes.
Works(c)    == c.pc \in {"claim", "list_orders", "cancel", "canceling", "place"}
Replaces(c) == c.pc \in {"list_orders", "cancel", "canceling", "place"} /\ ~c.control.kill_switch

\* It has claimed the command to buy.
Owns(c) == (c.pc = "claim" /\ "BUY" \in c.found) \/ Replaces(c)

Key(c, side) == <<c.pair, c.slot, side>>

\* A quote of the pair and the account the process is at.
AtQuote(c, k) == k \in Quotes /\ k[1] = c.pair /\ k[4] = c.control.account

\* What a process may rely on in its cycle.
InOrder(c) ==
  /\ Works(c) => c.pair \in Pairs
  /\ c.pc = "pair" => c.todo # {}
  /\ c.pc \in {"idle", "list", "pair"} => c.sides = {} /\ c.found = {}
  /\ c.pc = "claim" => c.sides \in {{}, {"BUY"}} /\ c.found \subseteq c.sides
  /\ c.pc \in {"cancel", "canceling"} => \A k \in c.found : AtQuote(c, k)
  /\ c.pc = "canceling" => \E k \in c.found : c.asked = {k}
  /\ c.pc = "place" => ~c.control.kill_switch

Book == quotes \cup canceling

CycleTypes ==
  /\ server \in [Servers -> Cycles] /\ slot \in 0..MaxSlot /\ Book \cup unanswered \subseteq Quotes
  /\ commands \in [Keys -> {"none", "dry", "live"}]
  /\ \A s \in Servers : InOrder(server[s])

\* The log has what a process has claimed, and no two have claimed the same.
ClaimsOf(log, c) ==
  /\ Owns(c) => log[Key(c, "BUY")] = IF c.control.dry_run THEN "dry" ELSE "live"
  /\ Replaces(c) => log[Key(c, "BUY")] = "live" /\ log[Key(c, "SELL")] = "live"

Claims ==
  /\ \A s \in Servers : ClaimsOf(commands, server[s])
  /\ \A s, t \in Servers : s # t /\ Owns(server[s]) /\ Owns(server[t]) => Key(server[s], "BUY") # Key(server[t], "BUY")
  /\ \A k \in Book : commands[CommandOf(k)] = "live"

CycleInv == CycleTypes /\ Claims

\* A process that is not in a cycle.
LEMMA IdleIsCycle == IdleCycle \in Cycles /\ InOrder(IdleCycle) /\ ~Owns(IdleCycle) /\ ~Replaces(IdleCycle)
<1>1. 0 \in 0..MaxSlot
  BY MakerAssumption
<1>2. IdleCycle \in Cycles
  <2>1. [enabled |-> FALSE, dry_run |-> TRUE, kill_switch |-> TRUE, account |-> FirstAccount] \in Controls
    BY FirstIsAccount DEF Controls
  <2> QED
    BY <1>1, <2>1 DEF IdleCycle, Cycles
<1>3. IdleCycle.pc = "idle" /\ IdleCycle.sides = {} /\ IdleCycle.found = {}
  BY DEF IdleCycle
<1> QED
  BY <1>2, <1>3 DEF InOrder, Owns, Replaces, Works

\* It holds at first.
LEMMA CycleInit == MakerInit => CycleInv
<1> SUFFICES ASSUME MakerInit PROVE CycleInv
  OBVIOUS
<1>1. \A s \in Servers : server[s] = IdleCycle
  BY DEF MakerInit
<1>2. CycleTypes
  BY <1>1, IdleIsCycle, MakerAssumption DEF MakerInit, CycleTypes, Book
<1> QED
  BY <1>1, <1>2, IdleIsCycle DEF MakerInit, CycleInv, Claims, ClaimsOf, Book

\* The key of a process that works is one of the log.
LEMMA KeyInLog == ASSUME NEW c \in Cycles, c.pair \in Pairs, NEW side \in Sides PROVE Key(c, side) \in Keys
  BY DEF Key, Keys, Cycles

\* So is the command of a quote.
LEMMA CommandInLog == ASSUME NEW k \in Quotes PROVE CommandOf(k) \in Keys
  BY DEF CommandOf, Keys, Quotes

\* Nothing comes into the book, and what is not confirmed was in it.
BookKept == Book' \subseteq Book /\ unanswered' \subseteq unanswered \cup Book

\* So if it does not change.
LEMMA SameBook == ASSUME UNCHANGED bookVars PROVE BookKept
  BY DEF bookVars, BookKept, Book

\* A step of a process to c: the log only grows, c has its claims there, and no other
\* process has them.
LEMMA MovesTo ==
  ASSUME CycleInv, NEW s \in Servers, NEW c \in Cycles, InOrder(c), server' = [server EXCEPT ![s] = c], slot' = slot,
         commands' \in [Keys -> {"none", "dry", "live"}],
         \A k \in Keys : commands[k] # "none" => commands'[k] = commands[k],
         Book' \cup unanswered' \subseteq Quotes, \A k \in Book' : commands'[CommandOf(k)] = "live",
         ClaimsOf(commands', c),
         \A t \in Servers : t # s /\ Owns(c) /\ Owns(server[t]) => Key(c, "BUY") # Key(server[t], "BUY")
  PROVE  CycleInv'
<1>1. server \in [Servers -> Cycles] /\ server' \in [Servers -> Cycles]
      /\ server'[s] = c /\ \A t \in Servers : t # s => server'[t] = server[t]
  BY DEF CycleInv, CycleTypes
<1>2. CycleTypes'
  BY <1>1 DEF CycleInv, CycleTypes
<1>3. ASSUME NEW t \in Servers PROVE ClaimsOf(commands', server'[t])
  <2>1. CASE t = s
    BY <1>1, <2>1
  <2>2. CASE t # s
    <3>1. server'[t] = server[t] /\ server[t] \in Cycles /\ ClaimsOf(commands, server[t]) /\ InOrder(server[t])
      BY <1>1, <2>2 DEF CycleInv, CycleTypes, Claims
    <3>2. ASSUME Owns(server[t]) PROVE Key(server[t], "BUY") \in Keys /\ Key(server[t], "SELL") \in Keys
      BY <3>1, <3>2, KeyInLog DEF Owns, Replaces, InOrder, Works, Sides
    <3>3. Replaces(server[t]) => Owns(server[t])
      BY DEF Owns
    <3> QED
      BY <3>1, <3>2, <3>3 DEF ClaimsOf
  <2> QED
    BY <2>1, <2>2
<1>4. ASSUME NEW t \in Servers, NEW v \in Servers, t # v, Owns(server'[t]), Owns(server'[v])
      PROVE  Key(server'[t], "BUY") # Key(server'[v], "BUY")
  <2>1. CASE t # s /\ v # s
    BY <1>1, <1>4, <2>1 DEF CycleInv, Claims
  <2>2. CASE t = s \/ v = s
    BY <1>1, <1>4, <2>2
  <2> QED
    BY <2>1, <2>2
<1>5. Claims'
  BY <1>3, <1>4 DEF Claims
<1> QED
  BY <1>2, <1>5 DEF CycleInv

\* c goes on from b without claiming anything.
GoesOn(b, c) ==
  /\ Owns(c) => Owns(b) /\ c.pair = b.pair /\ c.slot = b.slot /\ c.control = b.control
  /\ Replaces(c) => Replaces(b)

\* Who goes on keeps his claims.
LEMMA ClaimsKept ==
  ASSUME CycleInv, NEW s \in Servers, NEW c, GoesOn(server[s], c)
  PROVE  /\ ClaimsOf(commands, c)
         /\ \A t \in Servers : t # s /\ Owns(c) /\ Owns(server[t]) => Key(c, "BUY") # Key(server[t], "BUY")
<1>1. ClaimsOf(commands, server[s])
  BY DEF CycleInv, Claims
<1>2. ASSUME Owns(c) PROVE Owns(server[s]) /\ \A side : Key(c, side) = Key(server[s], side)
  BY <1>2 DEF GoesOn, Key
<1>3. ClaimsOf(commands, c)
  BY <1>1, <1>2 DEF ClaimsOf, GoesOn, Owns
<1> QED
  BY <1>2, <1>3 DEF CycleInv, Claims

\* A step of a process that neither claims nor places.
LEMMA Moves ==
  ASSUME CycleInv, NEW s \in Servers, NEW c \in Cycles, InOrder(c), GoesOn(server[s], c),
         server' = [server EXCEPT ![s] = c], commands' = commands, slot' = slot, BookKept
  PROVE  CycleInv'
<1>1. /\ ClaimsOf(commands', c)
      /\ \A t \in Servers : t # s /\ Owns(c) /\ Owns(server[t]) => Key(c, "BUY") # Key(server[t], "BUY")
  BY ClaimsKept
<1>2. /\ commands' \in [Keys -> {"none", "dry", "live"}] /\ Book' \cup unanswered' \subseteq Quotes
      /\ \A k \in Keys : commands[k] # "none" => commands'[k] = commands[k]
      /\ \A k \in Book' : commands'[CommandOf(k)] = "live"
  BY DEF CycleInv, CycleTypes, Claims, BookKept
<1> QED
  BY <1>1, <1>2, MovesTo

\* The loop with the next pair.
Passed(c) == IF c.todo = {} THEN IdleCycle ELSE [c EXCEPT !.pc = "pair", !.sides = {}, !.found = {}, !.asked = {}]

\* It is in order, and has no claims.
LEMMA PassedIsCycle ==
  ASSUME NEW c \in Cycles
  PROVE  Passed(c) \in Cycles /\ InOrder(Passed(c)) /\ ~Owns(Passed(c)) /\ ~Replaces(Passed(c))
<1>1. CASE c.todo = {}
  BY <1>1, IdleIsCycle DEF Passed
<1>2. CASE c.todo # {}
  <2>1. PICK d : d = [c EXCEPT !.pc = "pair", !.sides = {}, !.found = {}, !.asked = {}]
    OBVIOUS
  <2>2. d \in Cycles /\ d.pc = "pair" /\ d.sides = {} /\ d.found = {} /\ d.todo = c.todo
    BY <2>1 DEF Cycles
  <2> QED
    <3>1. Passed(c) = d
      BY <1>2, <2>1 DEF Passed
    <3> QED
      BY <1>2, <2>2, <3>1 DEF InOrder, Owns, Replaces, Works
<1> QED
  BY <1>1, <1>2

\* The process goes on with the next pair.
LEMMA NextPairStep ==
  ASSUME CycleInv, NEW s \in Servers, NextPair(s), commands' = commands, slot' = slot, BookKept
  PROVE  CycleInv'
<1>1. server[s] \in Cycles
  BY DEF CycleInv, CycleTypes
<1>2. server' = [server EXCEPT ![s] = Passed(server[s])]
  BY DEF NextPair, Passed
<1>3. PICK c : c = Passed(server[s])
  OBVIOUS
<1>4. c \in Cycles /\ InOrder(c) /\ GoesOn(server[s], c)
  BY <1>1, <1>3, PassedIsCycle DEF GoesOn
<1> QED
  BY <1>2, <1>3, <1>4, Moves

\* The process ends its cycle.
LEMMA IdleStep ==
  ASSUME CycleInv, NEW s \in Servers, server' = [server EXCEPT ![s] = IdleCycle],
         commands' = commands, slot' = slot, BookKept
  PROVE  CycleInv'
<1>1. PICK c : c = IdleCycle
  OBVIOUS
<1>2. c \in Cycles /\ InOrder(c) /\ GoesOn(server[s], c)
  BY <1>1, IdleIsCycle DEF GoesOn
<1> QED
  BY <1>1, <1>2, Moves

\* A cycle begins.
LEMMA CycleStep == ASSUME CycleInv, control \in Controls, NEW s \in Servers, Cycle(s) PROVE CycleInv'
<1>1. PICK c : c = [IdleCycle EXCEPT !.pc = "list", !.control = control]
  OBVIOUS
<1>2. c \in Cycles /\ c.pc = "list" /\ c.sides = {} /\ c.found = {}
  BY <1>1, IdleIsCycle DEF Cycles, IdleCycle
<1>3. InOrder(c) /\ GoesOn(server[s], c)
  BY <1>2 DEF InOrder, GoesOn, Owns, Replaces, Works
<1>4. server' = [server EXCEPT ![s] = c] /\ commands' = commands /\ slot' = slot /\ BookKept
  BY <1>1, SameBook DEF Cycle, LoadControl, cycleOnly
<1> QED
  BY <1>2, <1>3, <1>4, Moves

\* The configurations are listed.
LEMMA ListStep == ASSUME CycleInv, configs \subseteq Pairs, NEW s \in Servers, ListConfigs(s) PROVE CycleInv'
<1>1. server[s] \in Cycles /\ InOrder(server[s]) /\ server[s].pc = "list"
      /\ commands' = commands /\ slot' = slot /\ BookKept
  BY SameBook DEF CycleInv, CycleTypes, ListConfigs, cycleOnly
<1>2. CASE configs = {}
  BY <1>1, <1>2, IdleStep DEF ListConfigs
<1>3. CASE configs # {}
  <2>1. PICK c : c = [server[s] EXCEPT !.pc = "pair", !.todo = configs]
    OBVIOUS
  <2>2. c \in Cycles /\ c.pc = "pair" /\ c.todo = configs /\ c.sides = server[s].sides /\ c.found = server[s].found
    BY <1>1, <2>1 DEF Cycles
  <2>3. InOrder(c) /\ GoesOn(server[s], c)
    BY <1>1, <1>3, <2>2 DEF InOrder, GoesOn, Owns, Replaces, Works
  <2>4. server' = [server EXCEPT ![s] = c]
    BY <1>3, <2>1 DEF ListConfigs
  <2> QED
    BY <1>1, <2>2, <2>3, <2>4, Moves
<1> QED
  BY <1>2, <1>3

\* The next pair is one of those that are left.
LEMMA NextIsLeft == ASSUME CycleInv, NEW s \in Servers, server[s].pc = "pair" PROVE NextIn(s) \in server[s].todo /\ NextIn(s) \in Pairs
<1>1. server[s] \in Cycles /\ InOrder(server[s])
  BY DEF CycleInv, CycleTypes
<1>2. server[s].todo \in SUBSET Nat /\ server[s].todo # {} /\ server[s].todo \subseteq Pairs
  BY <1>1, MakerAssumption DEF Cycles, InOrder
<1> QED
  BY <1>2, MinMember DEF NextIn

\* A pair is taken, to be quoted or to be cleared.
LEMMA TakeStep ==
  ASSUME CycleInv, NEW s \in Servers, server[s].pc = "pair", NEW pc \in {"claim", "list_orders"}, TakePair(s, pc),
         pc = "list_orders" => server[s].control.kill_switch,
         commands' = commands, slot' = slot, BookKept
  PROVE  CycleInv'
<1>1. server[s] \in Cycles /\ InOrder(server[s]) /\ slot \in 0..MaxSlot
  BY DEF CycleInv, CycleTypes
<1>2. PICK p \in Pairs : p = NextIn(s)
  BY NextIsLeft
<1>3. PICK c : c = [server[s] EXCEPT !.pair = p, !.slot = slot, !.todo = PairsLeft(s), !.pc = pc]
  OBVIOUS
<1>4. p \in Nat /\ PairsLeft(s) \in SUBSET Pairs
  BY <1>1, MakerAssumption DEF PairsLeft, Cycles
<1>5. /\ c.pc = pc /\ c.pair = p /\ c.control = server[s].control
      /\ c.sides = server[s].sides /\ c.found = server[s].found
  BY <1>1, <1>3 DEF Cycles
<1>6. c \in Cycles
  BY <1>1, <1>3, <1>4 DEF Cycles
<1>7. InOrder(c) /\ GoesOn(server[s], c)
  BY <1>1, <1>5 DEF InOrder, GoesOn, Owns, Replaces, Works
<1>8. server' = [server EXCEPT ![s] = c]
  BY <1>2, <1>3 DEF TakePair
<1> QED
  BY <1>6, <1>7, <1>8, Moves

\* A pair is passed over.
LEMMA HaltStep == ASSUME CycleInv, NEW s \in Servers, Halt(s) PROVE CycleInv'
<1>1. server[s] \in Cycles /\ InOrder(server[s]) /\ server[s].pc = "pair"
      /\ commands' = commands /\ slot' = slot /\ BookKept
  BY SameBook DEF CycleInv, CycleTypes, Halt, cycleOnly
<1>2. PairsLeft(s) \in SUBSET Pairs
  BY <1>1 DEF PairsLeft, Cycles
<1>3. CASE PairsLeft(s) = {}
  BY <1>1, <1>3, IdleStep DEF Halt
<1>4. CASE PairsLeft(s) # {}
  <2>1. PICK c : c = [server[s] EXCEPT !.todo = PairsLeft(s)]
    OBVIOUS
  <2>2. /\ c.pc = "pair" /\ c.todo = PairsLeft(s) /\ c.sides = server[s].sides /\ c.found = server[s].found
    BY <1>1, <2>1 DEF Cycles
  <2>3. c \in Cycles
    BY <1>1, <1>2, <2>1 DEF Cycles
  <2>4. InOrder(c) /\ GoesOn(server[s], c)
    BY <1>1, <1>4, <2>2 DEF InOrder, GoesOn, Owns, Replaces, Works
  <2>5. server' = [server EXCEPT ![s] = c]
    BY <1>4, <2>1 DEF Halt
  <2> QED
    BY <1>1, <2>3, <2>4, <2>5, Moves
<1> QED
  BY <1>3, <1>4

\* Old quotes are cancelled one by one; then the pair is done, or the new ones are placed.
LEMMA CancelStep ==
  ASSUME CycleInv, NEW s \in Servers, server[s].pc \in {"list_orders", "cancel", "canceling"}, NEW rest, CancelRest(s, rest),
         \A k \in rest : AtQuote(server[s], k),
         commands' = commands, slot' = slot, BookKept
  PROVE  CycleInv'
<1>1. server[s] \in Cycles /\ InOrder(server[s])
  BY DEF CycleInv, CycleTypes
<1>2. CASE rest # {}
  <2>1. PICK c : c = [server[s] EXCEPT !.pc = "cancel", !.found = rest, !.asked = {}]
    OBVIOUS
  <2>2. c \in Cycles /\ c.pc = "cancel" /\ c.found = rest /\ c.pair = server[s].pair /\ c.slot = server[s].slot /\ c.control = server[s].control
    <3>1. rest \in SUBSET (Sides \cup Quotes)
      BY DEF AtQuote
    <3> QED
      BY <1>1, <2>1, <3>1 DEF Cycles
  <2>3. InOrder(c) /\ GoesOn(server[s], c)
    BY <1>1, <2>2 DEF InOrder, GoesOn, Owns, Replaces, Works, AtQuote
  <2>4. server' = [server EXCEPT ![s] = c]
    BY <1>1, <1>2, <2>1 DEF CancelRest, CycleInv, CycleTypes
  <2> QED
    BY <2>2, <2>3, <2>4, Moves
<1>3. CASE rest = {} /\ server[s].control.kill_switch
  BY <1>3, NextPairStep DEF CancelRest
<1>4. CASE rest = {} /\ ~server[s].control.kill_switch
  <2>1. PICK c : c = [server[s] EXCEPT !.pc = "place", !.found = {}, !.asked = {}]
    OBVIOUS
  <2>2. c \in Cycles /\ c.pc = "place" /\ c.pair = server[s].pair /\ c.slot = server[s].slot /\ c.control = server[s].control
    BY <1>1, <2>1 DEF Cycles
  <2>3. InOrder(c) /\ GoesOn(server[s], c)
    BY <1>1, <1>4, <2>2 DEF InOrder, GoesOn, Owns, Replaces, Works
  <2>4. server' = [server EXCEPT ![s] = c]
    BY <1>1, <1>4, <2>1 DEF CancelRest, CycleInv, CycleTypes
  <2> QED
    BY <2>2, <2>3, <2>4, Moves
<1> QED
  BY <1>2, <1>3, <1>4

\* A command that nobody has claimed is claimed; one that is claimed stays as it is.
LEMMA LogGrows ==
  ASSUME CycleInv, NEW key \in Keys, NEW m \in {"dry", "live"},
         commands' = [commands EXCEPT ![key] = IF @ # "none" THEN @ ELSE m]
  PROVE  /\ commands' \in [Keys -> {"none", "dry", "live"}]
         /\ \A k \in Keys : commands[k] # "none" => commands'[k] = commands[k]
         /\ commands[key] = "none" => commands'[key] = m
         /\ \A k \in Book : commands'[CommandOf(k)] = "live"
<1>1. /\ commands \in [Keys -> {"none", "dry", "live"}]
      /\ \A k \in Book : CommandOf(k) \in Keys /\ commands[CommandOf(k)] = "live"
  BY CommandInLog DEF CycleInv, CycleTypes, Claims
<1>2. /\ commands' \in [Keys -> {"none", "dry", "live"}]
      /\ \A k \in Keys : commands[k] # "none" => commands'[k] = commands[k]
      /\ commands[key] = "none" => commands'[key] = m
  BY <1>1
<1> QED
  BY <1>1, <1>2

\* Nobody owns what nobody has claimed.
LEMMA NotOwned ==
  ASSUME CycleInv, NEW key \in Keys, commands[key] = "none", NEW t \in Servers, Owns(server[t])
  PROVE  Key(server[t], "BUY") # key
<1>1. ClaimsOf(commands, server[t])
  BY DEF CycleInv, Claims
<1>2. commands[Key(server[t], "BUY")] # "none"
  BY <1>1 DEF ClaimsOf
<1> QED
  BY <1>2

\* A claim: of the command to buy, or of the command to sell that lets the quotes be replaced.
LEMMA ClaimStep == ASSUME CycleInv, NEW s \in Servers, ClaimCommand(s) PROVE CycleInv'
<1> DEFINE b == server[s]
           side == SideToClaim(s)
           mine == b.found \cup (IF Claimed(s, side) THEN {side} ELSE {})
<1>1. /\ b \in Cycles /\ InOrder(b) /\ b.pc = "claim" /\ b.pair \in Pairs /\ b.control \in Controls
      /\ b.sides \in {{}, {"BUY"}} /\ b.found \subseteq b.sides
      /\ slot' = slot /\ Book' = Book /\ Book' \cup unanswered' \subseteq Quotes
  BY DEF CycleInv, CycleTypes, InOrder, Works, ClaimCommand, cycleOnly, Cycles, Book, bookVars
<1>2. PICK m \in {"dry", "live"} : m = IF b.control.dry_run THEN "dry" ELSE "live"
  OBVIOUS
<1>3. side \in Sides /\ (side = "BUY" <=> b.sides = {})
  BY <1>1 DEF SideToClaim, Sides
<1>4. PICK key \in Keys : key = Key(b, side) /\ key = KeyOf(s, side)
  BY <1>1, <1>3, KeyInLog DEF Key, KeyOf
<1>5. commands' = [commands EXCEPT ![key] = IF @ # "none" THEN @ ELSE m]
  BY <1>2, <1>4 DEF ClaimCommand
<1>6. /\ commands' \in [Keys -> {"none", "dry", "live"}]
      /\ \A k \in Keys : commands[k] # "none" => commands'[k] = commands[k]
      /\ commands[key] = "none" => commands'[key] = m
      /\ \A k \in Book' : commands'[CommandOf(k)] = "live"
  BY <1>1, <1>5, LogGrows
<1>7. Claimed(s, side) <=> commands[key] = "none"
  BY <1>4 DEF Claimed
<1>8. CASE side = "BUY"
  <2>1. PICK c : c = [b EXCEPT !.sides = {"BUY"}, !.found = mine]
    OBVIOUS
  <2>2. mine = (IF commands[key] = "none" THEN {"BUY"} ELSE {})
    BY <1>1, <1>3, <1>7, <1>8
  <2>3. c \in Cycles
    <3>1. mine \in SUBSET (Sides \cup Quotes) /\ {"BUY"} \in SUBSET Sides
      BY <2>2 DEF Sides
    <3> HIDE DEF mine
    <3> QED
      BY <1>1, <2>1, <3>1 DEF Cycles
  <2>4. c.pc = "claim" /\ c.sides = {"BUY"} /\ c.found = mine /\ c.pair = b.pair /\ c.slot = b.slot /\ c.control = b.control
    <3> HIDE DEF mine
    <3> QED
      BY <1>1, <2>1 DEF Cycles
  <2>5. InOrder(c) /\ ~Replaces(c) /\ (Owns(c) <=> commands[key] = "none") /\ Key(c, "BUY") = key
    BY <1>1, <1>4, <1>8, <2>2, <2>4 DEF InOrder, Owns, Replaces, Works, Key
  <2>6. ClaimsOf(commands', c)
    BY <1>2, <1>6, <2>4, <2>5 DEF ClaimsOf
  <2>7. \A t \in Servers : t # s /\ Owns(c) /\ Owns(server[t]) => Key(c, "BUY") # Key(server[t], "BUY")
    BY <2>5, NotOwned
  <2>8. server' = [server EXCEPT ![s] = c]
    <3>1. server' = [server EXCEPT ![s].sides = {"BUY"}, ![s].found = mine]
      BY <1>8 DEF ClaimCommand
    <3> HIDE DEF mine
    <3>2. server \in [Servers -> Cycles]
      BY DEF CycleInv, CycleTypes
    <3> QED
      BY <2>1, <3>1, <3>2 DEF Cycles
  <2> HIDE DEF b, side, mine
  <2> QED
    BY <1>1, <1>6, <2>3, <2>5, <2>6, <2>7, <2>8, MovesTo
<1>9. CASE side # "BUY" /\ mine = Sides /\ ~b.control.dry_run
  <2>1. PICK c : c = [b EXCEPT !.pc = "list_orders", !.sides = {}, !.found = {}]
    OBVIOUS
  <2>2. c \in Cycles /\ c.pc = "list_orders" /\ c.pair = b.pair /\ c.slot = b.slot /\ c.control = b.control
    BY <1>1, <2>1 DEF Cycles
  <2>3. side = "SELL" /\ b.sides = {"BUY"}
    BY <1>1, <1>3, <1>9 DEF Sides
  <2>4. "BUY" \in b.found /\ commands[key] = "none"
    <3>1. "SELL" \notin b.found /\ "BUY" \in mine /\ "SELL" \in mine
      BY <1>1, <1>9, <2>3 DEF Sides
    <3> QED
      BY <1>7, <2>3, <3>1
  <2>5. Owns(b) /\ InOrder(c) /\ \A x : Key(c, x) = Key(b, x)
    BY <1>1, <2>2, <2>4 DEF Owns, InOrder, Works, Key
  <2>6. commands[Key(b, "BUY")] = "live"
    BY <1>9, <2>5 DEF CycleInv, Claims, ClaimsOf
  <2>7. Key(b, "BUY") \in Keys
    BY <1>1, KeyInLog DEF Sides
  <2>8. commands'[Key(c, "BUY")] = "live" /\ commands'[Key(c, "SELL")] = "live"
    BY <1>2, <1>4, <1>6, <1>9, <2>3, <2>4, <2>5, <2>6, <2>7
  <2>9. ClaimsOf(commands', c)
    BY <1>9, <2>2, <2>8 DEF ClaimsOf
  <2>10. \A t \in Servers : t # s /\ Owns(c) /\ Owns(server[t]) => Key(c, "BUY") # Key(server[t], "BUY")
    BY <2>5 DEF CycleInv, Claims
  <2>11. server' = [server EXCEPT ![s] = c]
    <3>1. server' = [server EXCEPT ![s].pc = "list_orders", ![s].sides = {}, ![s].found = {}]
      BY <1>9 DEF ClaimCommand
    <3>2. server \in [Servers -> Cycles]
      BY DEF CycleInv, CycleTypes
    <3> QED
      BY <2>1, <3>1, <3>2 DEF Cycles
  <2> HIDE DEF b, side, mine
  <2> QED
    BY <1>1, <1>6, <2>2, <2>5, <2>9, <2>10, <2>11, MovesTo
<1>10. CASE side # "BUY" /\ ~(mine = Sides /\ ~b.control.dry_run)
  <2>1. NextPair(s)
    BY <1>10 DEF ClaimCommand
  <2>2. server' = [server EXCEPT ![s] = Passed(server[s])]
    BY <2>1 DEF NextPair, Passed
  <2>3. PICK c : c = Passed(server[s])
    OBVIOUS
  <2>4. c \in Cycles /\ InOrder(c) /\ ~Owns(c) /\ ~Replaces(c)
    BY <1>1, <2>3, PassedIsCycle
  <2>5. ClaimsOf(commands', c)
    BY <2>4 DEF ClaimsOf
  <2> HIDE DEF b, side, mine
  <2> QED
    BY <1>1, <1>6, <2>2, <2>3, <2>4, <2>5, MovesTo
<1> QED
  BY <1>8, <1>9, <1>10

\* What a process places it has claimed as a live command.
LEMMA PlacesLive ==
  ASSUME CycleInv, NEW s \in Servers, server[s].pc = "place"
  PROVE  QuoteOf(s) \in Quotes /\ commands[CommandOf(QuoteOf(s))] = "live" /\ Replaces(server[s])
<1> DEFINE b == server[s]
           side == SideToPlace(s)
<1>1. b \in Cycles /\ InOrder(b) /\ b.pair \in Pairs /\ ~b.control.kill_switch
  BY DEF CycleInv, CycleTypes, InOrder, Works
<1>2. side \in Sides
  BY DEF SideToPlace, Sides
<1>3. Replaces(b) /\ commands[Key(b, "BUY")] = "live" /\ commands[Key(b, "SELL")] = "live"
  BY <1>1 DEF Replaces, CycleInv, Claims, ClaimsOf
<1>4. commands[Key(b, side)] = "live"
  BY <1>2, <1>3 DEF Sides
<1>5. QuoteOf(s) = <<b.pair, b.slot, side, b.control.account>>
  BY DEF QuoteOf
<1>6. b.slot \in 0..MaxSlot /\ b.control.account \in MakerAccounts
  BY <1>1 DEF Cycles, Controls
<1> HIDE DEF b, side
<1>7. QuoteOf(s) \in Quotes /\ CommandOf(QuoteOf(s)) = Key(b, side)
  BY <1>1, <1>2, <1>5, <1>6 DEF Quotes, CommandOf, Key
<1> QED
  BY <1>3, <1>4, <1>7 DEF b

\* The process goes on after it placed a quote, or tried to.
LEMMA PlaceStep ==
  ASSUME CycleInv, NEW s \in Servers, server[s].pc = "place", NextSide(s) \/ NextPair(s) \/ server' = [server EXCEPT ![s] = IdleCycle],
         commands' = commands, slot' = slot, Book' \subseteq Book \cup {QuoteOf(s)}, unanswered' = unanswered
  PROVE  CycleInv'
<1>1. PICK b \in Cycles : b = server[s]
  BY DEF CycleInv, CycleTypes
<1>2. InOrder(b) /\ Replaces(b)
  BY <1>1, PlacesLive DEF CycleInv, CycleTypes
<1>3. /\ commands' \in [Keys -> {"none", "dry", "live"}] /\ Book' \cup unanswered' \subseteq Quotes
      /\ \A k \in Keys : commands[k] # "none" => commands'[k] = commands[k]
      /\ \A k \in Book' : commands'[CommandOf(k)] = "live"
  BY PlacesLive DEF CycleInv, CycleTypes, Claims
<1>4. PICK c : /\ c \in {[b EXCEPT !.sides = {"BUY"}], Passed(b), IdleCycle}
               /\ server' = [server EXCEPT ![s] = c]
  <2>1. CASE NextPair(s)
    BY <1>1, <2>1 DEF NextPair, Passed
  <2>2. CASE ~NextPair(s) /\ NextSide(s)
    <3>1. server' = [server EXCEPT ![s].sides = {"BUY"}] /\ server \in [Servers -> Cycles]
      BY <2>2 DEF NextSide, CycleInv, CycleTypes
    <3>2. server' = [server EXCEPT ![s] = [b EXCEPT !.sides = {"BUY"}]]
      BY <1>1, <3>1 DEF Cycles
    <3> QED
      BY <3>2
  <2> QED
    BY <2>1, <2>2
<1>5. c \in Cycles /\ InOrder(c) /\ GoesOn(server[s], c)
  <2>1. CASE c = [b EXCEPT !.sides = {"BUY"}]
    <3>1. {"BUY"} \in SUBSET Sides
      BY DEF Sides
    <3>2. /\ c \in Cycles /\ c.pc = "place" /\ c.pair = b.pair /\ c.slot = b.slot /\ c.control = b.control
          /\ c.found = b.found /\ c.asked = b.asked
      BY <1>1, <2>1, <3>1 DEF Cycles
    <3> QED
      BY <1>1, <1>2, <3>2 DEF InOrder, GoesOn, Owns, Replaces, Works
  <2>2. CASE c \in {Passed(b), IdleCycle}
    BY <1>1, <2>2, PassedIsCycle, IdleIsCycle DEF GoesOn
  <2> QED
    BY <1>4, <2>1, <2>2
<1>6. /\ ClaimsOf(commands', c)
      /\ \A t \in Servers : t # s /\ Owns(c) /\ Owns(server[t]) => Key(c, "BUY") # Key(server[t], "BUY")
  BY <1>5, ClaimsKept
<1> QED
  BY <1>3, <1>4, <1>5, <1>6, MovesTo

\* A request to cancel is stored, and the process waits for the engine.
LEMMA AskStep == ASSUME CycleInv, NEW s \in Servers, NEW k \in Quotes, AskToCancel(s, k) PROVE CycleInv'
<1>1. PICK b \in Cycles : b = server[s]
  BY DEF CycleInv, CycleTypes
<1>2. InOrder(b) /\ b.pc = "cancel" /\ k \in b.found
  BY <1>1 DEF CycleInv, CycleTypes, AskToCancel
<1>3. PICK c : c = [b EXCEPT !.pc = "canceling", !.asked = {k}]
  OBVIOUS
<1>4. /\ c \in Cycles /\ c.pc = "canceling" /\ c.pair = b.pair /\ c.slot = b.slot /\ c.control = b.control
      /\ c.found = b.found /\ c.asked = {k} /\ c.sides = b.sides
  BY <1>3 DEF Cycles
<1>5. InOrder(c) /\ GoesOn(server[s], c)
  BY <1>1, <1>2, <1>4 DEF InOrder, GoesOn, Owns, Replaces, Works, AtQuote
<1>6. server' = [server EXCEPT ![s] = c]
  <2>1. server' = [server EXCEPT ![s].pc = "canceling", ![s].asked = {k}] /\ server \in [Servers -> Cycles]
    BY DEF AskToCancel, CycleInv, CycleTypes
  <2> QED
    BY <1>1, <1>3, <2>1 DEF Cycles
<1>7. commands' = commands /\ slot' = slot /\ BookKept
  BY DEF AskToCancel, cycleOnly, BookKept, Book
<1> QED
  BY <1>4, <1>5, <1>6, <1>7, Moves

\* The steps of a process.
LEMMA ServeStep == ASSUME CycleInv, OfficeInv, NEW s \in Servers, Serve(s) \/ Fail(s) PROVE CycleInv'
<1>1. CASE Cycle(s)
  BY <1>1, CycleStep DEF OfficeInv
<1>2. CASE ListConfigs(s)
  BY <1>2, ListStep DEF OfficeInv
<1>3. CASE quotePair(s)
  BY <1>3, TakeStep, SameBook DEF quotePair, cycleOnly
<1>4. CASE stopExisting(s)
  BY <1>4, TakeStep, SameBook DEF stopExisting, cycleOnly
<1>5. CASE Halt(s)
  BY <1>5, HaltStep
<1>6. CASE ClaimCommand(s)
  BY <1>6, ClaimStep
<1>7. CASE ClaimRefused(s) \/ PlaceRefused(s) \/ \E k \in Quotes : CancelTwice(s, k)
  BY <1>7, NextPairStep, SameBook DEF ClaimRefused, PlaceRefused, CancelTwice, cycleOnly
<1>8. CASE ListOrders(s)
  <2>1. \A k \in OpenOrders(server[s].pair, server[s].control.account) : AtQuote(server[s], k)
    BY DEF OpenOrders, CycleInv, CycleTypes, AtQuote, Book
  <2> QED
    BY <1>8, <2>1, CancelStep, SameBook DEF ListOrders, cycleOnly
<1>9. ASSUME NEW k \in Quotes, CancelPassed(s, k) PROVE CycleInv'
  <2>1. PICK rest : rest = server[s].found \ {k}
    OBVIOUS
  <2>2. \A x \in rest : AtQuote(server[s], x)
    BY <2>1, <1>9 DEF CycleInv, CycleTypes, InOrder, CancelPassed
  <2> QED
    BY <1>9, <2>1, <2>2, CancelStep, SameBook DEF CancelPassed, cycleOnly
<1>10. CASE CancelConfirmed(s)
  <2>1. PICK rest : rest = server[s].found \ server[s].asked
    OBVIOUS
  <2>2. \A x \in rest : AtQuote(server[s], x)
    BY <2>1, <1>10 DEF CycleInv, CycleTypes, InOrder, CancelConfirmed
  <2>3. commands' = commands /\ slot' = slot /\ BookKept
    BY <1>10 DEF CancelConfirmed, cycleOnly, BookKept, Book
  <2> QED
    BY <1>10, <2>1, <2>2, <2>3, CancelStep DEF CancelConfirmed
<1>11. CASE CancelFails(s)
  <2>1. commands' = commands /\ slot' = slot /\ BookKept
    BY <1>11 DEF CancelFails, cycleOnly, BookKept, Book
  <2> QED
    BY <1>11, <2>1, NextPairStep, IdleStep DEF CancelFails
<1>12. ASSUME NEW k \in Quotes, AskToCancel(s, k) PROVE CycleInv'
  BY <1>12, AskStep
<1>13. CASE PlaceOrder(s) \/ PlaceRejected(s) \/ PlaceFails(s)
  <2>1. server[s].pc = "place" /\ (NextSide(s) \/ NextPair(s) \/ server' = [server EXCEPT ![s] = IdleCycle])
    BY <1>13 DEF PlaceOrder, PlaceRejected, PlaceFails
  <2>2. commands' = commands /\ slot' = slot /\ Book' \subseteq Book \cup {QuoteOf(s)} /\ unanswered' = unanswered
    BY <1>13 DEF PlaceOrder, PlaceRejected, PlaceFails, cycleOnly, Book, bookVars
  <2> QED
    BY <2>1, <2>2, PlaceStep
<1>14. CASE Fail(s)
  BY <1>14, NextPairStep, IdleStep, SameBook DEF Fail, cycleOnly
<1> QED
  BY <1>1, <1>2, <1>3, <1>4, <1>5, <1>6, <1>7, <1>8, <1>9, <1>10, <1>11, <1>12, <1>13, <1>14 DEF Serve

\* The steps of the officers, of the market and of the clock.
LEMMA OthersStep ==
  ASSUME CycleInv, server' = server, commands' = commands, BookKept, slot' \in 0..MaxSlot
  PROVE  CycleInv'
  BY DEF CycleInv, CycleTypes, Claims, BookKept

\* Every step keeps it.
LEMMA CycleInvStep == CycleInv /\ OfficeInv /\ [MakerNext]_makerVars => CycleInv'
<1> SUFFICES ASSUME CycleInv, OfficeInv, [MakerNext]_makerVars PROVE CycleInv'
  OBVIOUS
<1>1. slot \in 0..MaxSlot
  BY DEF CycleInv, CycleTypes
<1>2. ASSUME NEW u \in Operators \cup Approvers, Officer(u) PROVE CycleInv'
  <2>1. server' = server /\ commands' = commands /\ BookKept /\ slot' = slot
    BY <1>2, SameBook DEF Officer, Propose, ProposeResume, ProposeFundedDryRun, Approve, EmergencyStop
  <2> QED
    BY <1>1, <2>1, OthersStep
<1>3. ASSUME NEW s \in Servers, Serve(s) \/ Fail(s) PROVE CycleInv'
  BY <1>3, ServeStep
<1>4. ASSUME NEW k \in Quotes, Fill(k) PROVE CycleInv'
  <2>1. server' = server /\ commands' = commands /\ BookKept /\ slot' = slot
    BY <1>4 DEF Fill, BookKept, Book
  <2> QED
    BY <1>1, <2>1, OthersStep
<1>5. CASE Tick
  <2>1. server' = server /\ commands' = commands /\ BookKept
    BY <1>5, SameBook DEF Tick
  <2>2. slot' \in 0..MaxSlot
    BY <1>1, <1>5, MakerAssumption DEF Tick
  <2> QED
    BY <2>1, <2>2, OthersStep
<1>6. CASE (\E a \in MakerAccounts : Suspend(a)) \/ UNCHANGED makerVars
  BY <1>1, <1>6, OthersStep, SameBook DEF makerVars, Suspend
<1> QED
  BY <1>2, <1>3, <1>4, <1>5, <1>6 DEF MakerNext

\* The cycles of every behaviour are in order, and their claims are in the log.
LEMMA CycleInvariance == MakerSpec => []CycleInv
<1>1. MakerInit => CycleInv
  BY CycleInit
<1>2. CycleInv /\ OfficeInv /\ [MakerNext]_makerVars => CycleInv'
  BY CycleInvStep
<1> QED
  BY <1>1, <1>2, MakerInvariance, PTL DEF MakerSpec

\* Two processes never replace the quotes of a pair in the same slot, and no quote is
\* in the book whose command was not claimed for live quoting (ClaimCommand inserts
\* with ON CONFLICT DO NOTHING): for any number of processes, pairs and slots, whatever
\* the officers decide in the middle of a cycle and wherever a process stops.
THEOREM OneProcessQuotes == MakerSpec => []OneQuoter
<1>1. CycleInv => OneQuoter
  <2> SUFFICES ASSUME CycleInv PROVE OneQuoter
    OBVIOUS
  <2>1. ASSUME NEW s \in Servers, NEW t \in Servers, s # t, Quoting(s), Quoting(t)
        PROVE  <<server[s].pair, server[s].slot>> # <<server[t].pair, server[t].slot>>
    <3>1. Owns(server[s]) /\ Owns(server[t])
      BY <2>1 DEF Quoting, Owns, Replaces
    <3>2. Key(server[s], "BUY") # Key(server[t], "BUY")
      BY <2>1, <3>1 DEF CycleInv, Claims
    <3> QED
      BY <3>2 DEF Key
  <2> QED
    BY <2>1 DEF OneQuoter, CycleInv, Claims, Book
<1> QED
  BY <1>1, CycleInvariance, PTL


-----------------------------------------------------------------------------
(* The inventory *)

AtPair(c, p, a) == c.pair = p /\ c.control.account = a

\* A process that waits for the answer to the cancellation of a quote to buy.
AsksBuy(c) == c.pc = "canceling" /\ \E k \in c.asked : k[3] = "BUY"

\* A process that is past the comparison with the limit of a pair, and has not bought
\* yet; one that waits for the end of a quote to buy is not counted beside that quote.
OnWay(c, p, a) ==
  /\ AtPair(c, p, a) /\ ~c.control.dry_run
  /\ c.pc = "claim" \/ (Replaces(c) /\ ~AsksBuy(c) /\ (c.pc = "place" => "BUY" \notin c.sides))

Way(sv, p, a)   == {s \in Servers : OnWay(sv[s], p, a)}
Askers(sv, p, a) == {s \in Servers : AsksBuy(sv[s]) /\ AtPair(sv[s], p, a)}

\* x is the quote of the pair that a process placed last, if any: it is no longer open
\* before the next is placed, and among those that are cancelled before that.
Fits(x, c, B, p, a) ==
  AtPair(c, p, a) => /\ (c.pc = "place" /\ "BUY" \notin c.sides => x \notin B)
                     /\ (c.pc = "cancel" /\ x \in B => x \in c.found)
                     /\ (c.pc = "canceling" /\ x \in B => x \in c.found \ c.asked)

\* Every process has at most one quote to buy that is open.
Holders(g, sv, B, p, a) == B \subseteq {g[s] : s \in Servers} /\ \A s \in Servers : Fits(g[s], sv[s], B, p, a)
OneEach(sv, B, p, a)    == \E g \in [Servers -> Quotes] : Holders(g, sv, B, p, a)

\* What is held, what is open, what is being cancelled and what is on its way is within
\* the bound, which grows with every cancellation that was not confirmed.
Within(h, B, C, W, U) ==
  \/ B = {} /\ C = {} /\ W = {}
  \/ h + Cardinality(B) + Cardinality(C) + Cardinality(W) <= MaxInventory - 1 + 2 * Cardinality(Servers) + Cardinality(U)

Once(F) == \A r, t \in F : r = t

DryUntilFunded == Funded = {} => control.dry_run /\ Book = {} /\ \A s \in Servers : server[s].control.dry_run

\* What is being cancelled waits for the answer to some process, or none came.
Chased == \A k \in canceling \ unanswered : \E s \in Servers : server[s].pc = "canceling" /\ server[s].asked = {k}

BoundKept(p, a) ==
  OwnBase(p) /\ Once(Funded) =>
    Within(maker[a][Base[p]], BuysOf(quotes, p, a), BuysOf(canceling, p, a), Way(server, p, a), BuysOf(unanswered, p, a))

InventoryInv ==
  /\ DryUntilFunded /\ Chased
  /\ \A p \in Pairs, a \in MakerAccounts : OneEach(server, BuysOf(quotes, p, a), p, a) /\ BoundKept(p, a)

\* There are no more open quotes than processes.
LEMMA FewBuys ==
  ASSUME NEW sv, NEW B, NEW p, NEW a, OneEach(sv, B, p, a)
  PROVE  IsFiniteSet(B) /\ Cardinality(B) \in Nat /\ Cardinality(Servers) \in Nat /\ Cardinality(B) <= Cardinality(Servers)
<1>1. PICK g \in [Servers -> Quotes] : B \subseteq {g[s] : s \in Servers}
  BY DEF OneEach, Holders
<1> DEFINE T == {g[s] : s \in Servers}
<1>2. g \in Surjection(Servers, T)
  BY DEF Surjection
<1>3. IsFiniteSet(Servers)
  BY MakerAssumption
<1> HIDE DEF T
<1>4. IsFiniteSet(T) /\ Cardinality(T) <= Cardinality(Servers)
  BY <1>2, <1>3, FS_Surjection
<1>5. B \in SUBSET T
  BY <1>1 DEF T
<1>6. IsFiniteSet(B) /\ Cardinality(B) <= Cardinality(T)
  BY <1>4, <1>5, FS_Subset
<1>7. Cardinality(B) \in Nat /\ Cardinality(T) \in Nat /\ Cardinality(Servers) \in Nat
  BY <1>3, <1>4, <1>6, FS_CardinalityType
<1> QED
  BY <1>4, <1>6, <1>7

\* The slots are finitely many, and with them the quotes of a pair and an account.
LEMMA FiniteBuys == ASSUME NEW q \in SUBSET Quotes, NEW p, NEW a PROVE IsFiniteSet(BuysOf(q, p, a)) /\ Cardinality(BuysOf(q, p, a)) \in Nat
<1> DEFINE I == 0..MaxSlot
           f == [i \in I |-> <<p, i, "BUY", a>>]
           T == {f[i] : i \in I}
<1>1. IsFiniteSet(I)
  BY MakerAssumption, FS_Interval
<1>2. f \in Surjection(I, T)
  BY DEF Surjection
<1>3. BuysOf(q, p, a) \in SUBSET T
  <2>1. ASSUME NEW k \in BuysOf(q, p, a) PROVE k \in T
    <3>1. k \in Quotes /\ k[1] = p /\ k[3] = "BUY" /\ k[4] = a
      BY <2>1 DEF BuysOf
    <3>2. k = <<p, k[2], "BUY", a>> /\ k[2] \in I
      BY <3>1 DEF Quotes
    <3> QED
      BY <3>2
  <2> QED
    BY <2>1
<1> HIDE DEF I, f, T
<1>4. IsFiniteSet(T)
  BY <1>1, <1>2, FS_Surjection
<1>5. IsFiniteSet(BuysOf(q, p, a))
  BY <1>3, <1>4, FS_Subset
<1> QED
  BY <1>5, FS_CardinalityType

\* No more processes than there are are on their way or wait, together.
LEMMA FewOnWay ==
  ASSUME NEW sv, NEW p, NEW a
  PROVE  /\ IsFiniteSet(Way(sv, p, a)) /\ Cardinality(Way(sv, p, a)) \in Nat
         /\ IsFiniteSet(Askers(sv, p, a)) /\ Cardinality(Askers(sv, p, a)) \in Nat
         /\ Cardinality(Way(sv, p, a)) + Cardinality(Askers(sv, p, a)) <= Cardinality(Servers)
<1>1. PICK W : W = Way(sv, p, a)
  OBVIOUS
<1>2. PICK A : A = Askers(sv, p, a)
  OBVIOUS
<1>3. IsFiniteSet(Servers) /\ W \in SUBSET Servers /\ A \in SUBSET Servers /\ W \cup A \in SUBSET Servers /\ W \cap A = {}
  BY <1>1, <1>2, MakerAssumption DEF Way, Askers, OnWay, AsksBuy
<1>4. IsFiniteSet(W) /\ IsFiniteSet(A) /\ Cardinality(W \cup A) <= Cardinality(Servers)
  BY <1>3, FS_Subset
<1>5. Cardinality(W) \in Nat /\ Cardinality(A) \in Nat /\ Cardinality(W \cap A) = 0
  BY <1>3, <1>4, FS_CardinalityType, FS_EmptySet
<1>6. Cardinality(W \cup A) = Cardinality(W) + Cardinality(A) - Cardinality(W \cap A)
  BY <1>4, FS_Union
<1>7. Cardinality(W) + Cardinality(A) <= Cardinality(Servers)
  BY <1>4, <1>5, <1>6
<1> QED
  BY <1>1, <1>2, <1>4, <1>5, <1>7

\* What is being cancelled, some process waits for, or its answer did not come.
LEMMA FewCanceled ==
  ASSUME CycleInv, InventoryInv, NEW p \in Pairs, NEW a \in MakerAccounts
  PROVE  Cardinality(BuysOf(canceling, p, a)) <= Cardinality(Askers(server, p, a)) + Cardinality(BuysOf(unanswered, p, a))
<1>1. PICK C : C = BuysOf(canceling, p, a)
  OBVIOUS
<1>2. PICK U : U = BuysOf(unanswered, p, a)
  OBVIOUS
<1>3. PICK A : A = Askers(server, p, a)
  OBVIOUS
<1>4. IsFiniteSet(C) /\ IsFiniteSet(U) /\ Cardinality(C) \in Nat /\ Cardinality(U) \in Nat
  BY <1>1, <1>2, FiniteBuys DEF CycleInv, CycleTypes, Book
<1>5. IsFiniteSet(A) /\ Cardinality(A) \in Nat
  BY <1>3, FewOnWay
<1> DEFINE f == [s \in A |-> CHOOSE k : server[s].asked = {k}]
           T == {f[s] : s \in A}
<1>6. f \in Surjection(A, T)
  BY DEF Surjection
<1>7. C \ U \in SUBSET T
  <2>1. ASSUME NEW k \in C \ U PROVE k \in T
    <3>1. k \in canceling \ unanswered /\ k[1] = p /\ k[3] = "BUY" /\ k[4] = a
      BY <1>1, <1>2, <2>1 DEF BuysOf
    <3>2. PICK s \in Servers : server[s].pc = "canceling" /\ server[s].asked = {k}
      BY <3>1 DEF InventoryInv, Chased
    <3>3. \E j \in server[s].found : server[s].asked = {j} /\ AtQuote(server[s], j)
      BY <3>2 DEF CycleInv, CycleTypes, InOrder
    <3>4. AtPair(server[s], p, a)
      BY <3>1, <3>2, <3>3 DEF AtQuote, AtPair
    <3>5. s \in A
      BY <1>3, <3>1, <3>2, <3>4 DEF Askers, AsksBuy
    <3>6. f[s] = k
      <4>1. \A j : server[s].asked = {j} => j = k
        BY <3>2
      <4> QED
        BY <3>2, <3>5, <4>1
    <3> QED
      BY <3>5, <3>6
  <2> QED
    BY <2>1
<1> HIDE DEF f, T
<1>8. IsFiniteSet(T) /\ Cardinality(T) <= Cardinality(A)
  BY <1>5, <1>6, FS_Surjection
<1>9. Cardinality(C \ U) <= Cardinality(T) /\ IsFiniteSet(C \ U)
  BY <1>7, <1>8, FS_Subset
<1>10. Cardinality(C \ U) = Cardinality(C) - Cardinality(C \cap U)
  BY <1>4, FS_Difference
<1>11. C \cap U \in SUBSET U /\ IsFiniteSet(C \cap U) /\ Cardinality(C \cap U) <= Cardinality(U)
  BY <1>4, FS_Subset
<1>12. Cardinality(T) \in Nat /\ Cardinality(C \cap U) \in Nat /\ Cardinality(C \ U) \in Nat
  BY <1>8, <1>9, <1>11, FS_CardinalityType
<1>13. Cardinality(C) <= Cardinality(A) + Cardinality(U)
  BY <1>4, <1>5, <1>8, <1>9, <1>10, <1>11, <1>12
<1> QED
  BY <1>1, <1>2, <1>3, <1>13

\* Less is within the bound, too.
LEMMA WithinLess ==
  ASSUME NEW B, NEW C, NEW W, NEW U, NEW U1, IsFiniteSet(B), IsFiniteSet(C), IsFiniteSet(W), IsFiniteSet(U1),
         NEW B1 \in SUBSET B, NEW C1 \in SUBSET C, NEW W1 \in SUBSET W, U \in SUBSET U1,
         NEW h \in Int, NEW h1 \in Int, h1 <= h, Within(h, B, C, W, U)
  PROVE  Within(h1, B1, C1, W1, U1)
<1>1. CASE B = {} /\ C = {} /\ W = {}
  BY <1>1 DEF Within
<1>2. CASE ~(B = {} /\ C = {} /\ W = {})
  <2>1. Cardinality(B1) <= Cardinality(B) /\ Cardinality(C1) <= Cardinality(C) /\ Cardinality(W1) <= Cardinality(W)
        /\ IsFiniteSet(B1) /\ IsFiniteSet(C1) /\ IsFiniteSet(W1)
    BY FS_Subset
  <2>2. IsFiniteSet(U) /\ Cardinality(U) <= Cardinality(U1)
    BY FS_Subset
  <2>3. {Cardinality(B), Cardinality(C), Cardinality(W), Cardinality(B1), Cardinality(C1), Cardinality(W1),
         Cardinality(U), Cardinality(U1), Cardinality(Servers)} \subseteq Nat
    BY <2>1, <2>2, FS_CardinalityType, MakerAssumption
  <2>4. h + Cardinality(B) + Cardinality(C) + Cardinality(W) <= MaxInventory - 1 + 2 * Cardinality(Servers) + Cardinality(U)
    BY <1>2 DEF Within
  <2>5. h1 + Cardinality(B1) + Cardinality(C1) + Cardinality(W1) <= MaxInventory - 1 + 2 * Cardinality(Servers) + Cardinality(U1)
    BY <2>1, <2>2, <2>3, <2>4, MakerAssumption
  <2> QED
    BY <2>5 DEF Within
<1> QED
  BY <1>1, <1>2

\* It holds at first.
LEMMA InventoryInit == MakerInit => InventoryInv
<1> SUFFICES ASSUME MakerInit PROVE InventoryInv
  OBVIOUS
<1>1. control.dry_run /\ quotes = {} /\ canceling = {} /\ \A s \in Servers : server[s] = IdleCycle
  BY DEF MakerInit
<1>2. IdleCycle.control.dry_run /\ IdleCycle.pc = "idle"
  BY DEF IdleCycle
<1>3. DryUntilFunded /\ Chased
  BY <1>1, <1>2 DEF DryUntilFunded, Chased, Book
<1>4. ASSUME NEW p \in Pairs, NEW a \in MakerAccounts PROVE OneEach(server, BuysOf(quotes, p, a), p, a) /\ BoundKept(p, a)
  <2>1. BuysOf(quotes, p, a) = {} /\ BuysOf(canceling, p, a) = {} /\ Way(server, p, a) = {}
    BY <1>1, <1>2 DEF BuysOf, Way, OnWay
  <2>2. <<p, 0, "BUY", a>> \in Quotes
    BY MakerAssumption DEF Quotes, Sides
  <2>3. PICK g \in [Servers -> Quotes] : g = [s \in Servers |-> <<p, 0, "BUY", a>>]
    BY <2>2
  <2>4. Holders(g, server, {}, p, a)
    BY <1>1, <1>2 DEF Holders, Fits
  <2> QED
    BY <2>1, <2>4 DEF OneEach, BoundKept, Within
<1> QED
  BY <1>3, <1>4 DEF InventoryInv

\* A step of a process from b to c after which nothing new is on its way, and nothing
\* new to buy is in the book.
Stays(b, c, p, a) ==
  /\ OnWay(c, p, a) => OnWay(b, p, a)
  /\ BuysOf(quotes', p, a) \subseteq BuysOf(quotes, p, a) /\ BuysOf(canceling', p, a) \subseteq BuysOf(canceling, p, a)
  /\ \A x \in Quotes : Fits(x, b, BuysOf(quotes, p, a), p, a) => Fits(x, c, BuysOf(quotes', p, a), p, a)

\* Fewer quotes fit as well.
LEMMA FewerFit ==
  ASSUME NEW x, NEW c, NEW p, NEW a, NEW B, NEW B1 \in SUBSET B, Fits(x, c, B, p, a)
  PROVE  Fits(x, c, B1, p, a)
  BY DEF Fits

\* A step keeps a holder for every quote if what fits the process before fits it afterwards.
LEMMA StaysOneEach ==
  ASSUME NEW p \in Pairs, NEW a \in MakerAccounts, NEW s \in Servers, NEW c, server \in [Servers -> Cycles], server' = [server EXCEPT ![s] = c],
         BuysOf(quotes', p, a) \subseteq BuysOf(quotes, p, a), OneEach(server, BuysOf(quotes, p, a), p, a),
         \A x \in Quotes : Fits(x, server[s], BuysOf(quotes, p, a), p, a) => Fits(x, c, BuysOf(quotes', p, a), p, a)
  PROVE  OneEach(server', BuysOf(quotes', p, a), p, a)
<1>1. PICK g \in [Servers -> Quotes] : Holders(g, server, BuysOf(quotes, p, a), p, a)
  BY DEF OneEach
<1>2. server'[s] = c /\ \A t \in Servers : t # s => server'[t] = server[t]
  OBVIOUS
<1>3. BuysOf(quotes', p, a) \subseteq {g[t] : t \in Servers}
  BY <1>1 DEF Holders
<1>4. ASSUME NEW t \in Servers PROVE Fits(g[t], server'[t], BuysOf(quotes', p, a), p, a)
  <2>1. Fits(g[t], server[t], BuysOf(quotes, p, a), p, a) /\ g[t] \in Quotes
    BY <1>1 DEF Holders
  <2>2. BuysOf(quotes', p, a) \in SUBSET BuysOf(quotes, p, a)
    OBVIOUS
  <2>3. CASE t = s
    BY <1>2, <2>1, <2>3
  <2>4. CASE t # s
    BY <1>2, <2>1, <2>2, <2>4, FewerFit
  <2> QED
    BY <2>3, <2>4
<1>5. Holders(g, server', BuysOf(quotes', p, a), p, a)
  BY <1>3, <1>4 DEF Holders
<1> QED
  BY <1>5 DEF OneEach

\* A step of a process, of which the parts of the invariant are shown one by one.
LEMMA ServerStep ==
  ASSUME InventoryInv, CycleInv, NEW s \in Servers, NEW c,
         server' = [server EXCEPT ![s] = c], UNCHANGED <<officeVars, maker>>,
         c.control.dry_run \/ c.control = server[s].control \/ c.control = control,
         Funded = {} => Book' = {}, Chased',
         \A p \in Pairs, a \in MakerAccounts :
           /\ OneEach(server', BuysOf(quotes', p, a), p, a)
           /\ OwnBase(p) /\ Once(Funded) =>
                Within(maker[a][Base[p]], BuysOf(quotes', p, a), BuysOf(canceling', p, a), Way(server', p, a), BuysOf(unanswered', p, a))
  PROVE  InventoryInv'
<1>1. server \in [Servers -> Cycles]
  BY DEF CycleInv, CycleTypes
<1>2. server'[s] = c /\ \A t \in Servers : t # s => server'[t] = server[t]
  BY <1>1
<1>3. Funded' = Funded /\ control' = control /\ maker' = maker
  BY DEF Funded, officeVars
<1>4. DryUntilFunded'
  BY <1>2, <1>3 DEF InventoryInv, DryUntilFunded
<1>5. ASSUME NEW p \in Pairs, NEW a \in MakerAccounts PROVE BoundKept(p, a)'
  BY <1>3 DEF BoundKept, OwnBase
<1> QED
  BY <1>4, <1>5 DEF InventoryInv

\* What is held is a number, and what is in the book is finite.
LEMMA Counts ==
  ASSUME InventoryInv, CycleInv, OfficeInv, NEW p \in Pairs, NEW a \in MakerAccounts
  PROVE  /\ maker[a][Base[p]] \in Int
         /\ IsFiniteSet(BuysOf(quotes, p, a)) /\ IsFiniteSet(BuysOf(canceling, p, a)) /\ IsFiniteSet(BuysOf(unanswered, p, a))
         /\ IsFiniteSet(Way(server, p, a))
<1>1. maker[a][Base[p]] \in Int
  BY MakerAssumption DEF OfficeInv, Held
<1> QED
  BY <1>1, FiniteBuys, FewOnWay DEF CycleInv, CycleTypes, Book

\* A step of a process after which nothing new is on its way.
LEMMA StaysStep ==
  ASSUME InventoryInv, CycleInv, OfficeInv, NEW s \in Servers, NEW c,
         server' = [server EXCEPT ![s] = c], UNCHANGED <<officeVars, maker>>,
         c.control.dry_run \/ c.control = server[s].control \/ c.control = control,
         Funded = {} => Book' = {}, Chased', unanswered \subseteq unanswered', unanswered' \subseteq Quotes,
         \A p \in Pairs, a \in MakerAccounts : Stays(server[s], c, p, a)
  PROVE  InventoryInv'
<1>1. server \in [Servers -> Cycles]
  BY DEF CycleInv, CycleTypes
<1>2. server'[s] = c /\ \A t \in Servers : t # s => server'[t] = server[t]
  BY <1>1
<1>3. ASSUME NEW p \in Pairs, NEW a \in MakerAccounts PROVE OneEach(server', BuysOf(quotes', p, a), p, a)
  BY <1>1, StaysOneEach DEF InventoryInv, Stays
<1>4. ASSUME NEW p \in Pairs, NEW a \in MakerAccounts, OwnBase(p), Once(Funded)
      PROVE  Within(maker[a][Base[p]], BuysOf(quotes', p, a), BuysOf(canceling', p, a), Way(server', p, a), BuysOf(unanswered', p, a))
  <2> DEFINE h  == maker[a][Base[p]]
             B  == BuysOf(quotes, p, a)
             B1 == BuysOf(quotes', p, a)
             C  == BuysOf(canceling, p, a)
             C1 == BuysOf(canceling', p, a)
             W  == Way(server, p, a)
             W1 == Way(server', p, a)
             U  == BuysOf(unanswered, p, a)
             U1 == BuysOf(unanswered', p, a)
  <2>1. Within(h, B, C, W, U)
    BY <1>4 DEF InventoryInv, BoundKept
  <2>2. B1 \in SUBSET B /\ C1 \in SUBSET C
    BY DEF Stays
  <2>3. W1 \in SUBSET W
    BY <1>2 DEF Way, Stays
  <2>4. U \in SUBSET U1
    BY DEF BuysOf
  <2>5. IsFiniteSet(U1)
    BY FiniteBuys
  <2>6. h \in Int /\ h <= h /\ IsFiniteSet(B) /\ IsFiniteSet(C) /\ IsFiniteSet(W)
    BY Counts
  <2> HIDE DEF h, B, B1, C, C1, W, W1, U, U1
  <2>7. Within(h, B1, C1, W1, U1)
    BY <2>1, <2>2, <2>3, <2>4, <2>5, <2>6, WithinLess
  <2> QED
    BY <2>7 DEF h, B, B1, C, C1, W, W1, U, U1
<1> QED
  BY <1>3, <1>4, ServerStep

\* Who did not wait for an answer leaves nobody without one.
LEMMA StillChased ==
  ASSUME InventoryInv, CycleInv, NEW s \in Servers, NEW c, server' = [server EXCEPT ![s] = c],
         canceling' \subseteq canceling, unanswered \subseteq unanswered',
         server[s].pc = "canceling" => server[s].asked \cap canceling' \subseteq unanswered'
  PROVE  Chased'
<1>1. server \in [Servers -> Cycles]
  BY DEF CycleInv, CycleTypes
<1>2. ASSUME NEW k \in canceling' \ unanswered' PROVE \E t \in Servers : server'[t].pc = "canceling" /\ server'[t].asked = {k}
  <2>1. PICK t \in Servers : server[t].pc = "canceling" /\ server[t].asked = {k}
    BY DEF InventoryInv, Chased
  <2>2. t # s
    BY <2>1
  <2> QED
    BY <1>1, <2>1, <2>2
<1> QED
  BY <1>2 DEF Chased

\* What is not at an order of a pair is neither on its way nor bound to any quote.
LEMMA AtNoOrder ==
  ASSUME NEW b, NEW c, c.pc \in {"idle", "list", "pair"},
         \A p \in Pairs, a \in MakerAccounts : BuysOf(quotes', p, a) \subseteq BuysOf(quotes, p, a) /\ BuysOf(canceling', p, a) \subseteq BuysOf(canceling, p, a)
  PROVE  \A p \in Pairs, a \in MakerAccounts : Stays(b, c, p, a)
  BY DEF Stays, OnWay, Fits, Replaces

\* The book only loses quotes, and gains none to buy.
Thins ==
  /\ Funded = {} => Book' = {}
  /\ canceling' \subseteq canceling /\ unanswered \subseteq unanswered' /\ unanswered' \subseteq Quotes
  /\ \A p \in Pairs, a \in MakerAccounts : BuysOf(quotes', p, a) \subseteq BuysOf(quotes, p, a)

\* As long as nothing was funded nothing is in the book.
LEMMA StillEmpty ==
  ASSUME InventoryInv, CycleInv, quotes' \subseteq quotes, canceling' \subseteq canceling,
         unanswered \subseteq unanswered', unanswered' \subseteq unanswered \cup Book
  PROVE  Thins
  BY DEF InventoryInv, DryUntilFunded, BuysOf, Book, Thins, CycleInv, CycleTypes

\* So if it does not change.
LEMMA StillSame == ASSUME InventoryInv, CycleInv, UNCHANGED bookVars PROVE Thins
  BY StillEmpty DEF bookVars

\* The process goes on with the next pair, or ends its cycle.
LEMMA LeavesPair ==
  ASSUME InventoryInv, CycleInv, OfficeInv, NEW s \in Servers, NextPair(s) \/ server' = [server EXCEPT ![s] = IdleCycle],
         UNCHANGED <<officeVars, maker>>, Thins,
         server[s].pc = "canceling" => server[s].asked \cap canceling' \subseteq unanswered'
  PROVE  InventoryInv'
<1>1. PICK b \in Cycles : b = server[s]
  BY DEF CycleInv, CycleTypes
<1>2. PICK c : c \in {IdleCycle, [b EXCEPT !.pc = "pair", !.sides = {}, !.found = {}, !.asked = {}]} /\ server' = [server EXCEPT ![s] = c]
  BY <1>1 DEF NextPair
<1>3. c.pc \in {"idle", "list", "pair"} /\ (c.control.dry_run \/ c.control = b.control)
  <2>1. CASE c = IdleCycle
    BY <2>1 DEF IdleCycle
  <2>2. CASE c = [b EXCEPT !.pc = "pair", !.sides = {}, !.found = {}, !.asked = {}]
    BY <2>2 DEF Cycles
  <2> QED
    BY <1>2, <2>1, <2>2
<1>4. \A p \in Pairs, a \in MakerAccounts : BuysOf(quotes', p, a) \subseteq BuysOf(quotes, p, a) /\ BuysOf(canceling', p, a) \subseteq BuysOf(canceling, p, a)
  BY DEF Thins, BuysOf
<1>5. \A p \in Pairs, a \in MakerAccounts : Stays(server[s], c, p, a)
  BY <1>3, <1>4, AtNoOrder
<1>6. Chased'
  BY <1>2, StillChased DEF Thins
<1> QED
  BY <1>1, <1>2, <1>3, <1>5, <1>6, StaysStep DEF Thins

\* c is at no order, and its copy of the controls is that of b or a fresh one.
Between(b, c) == b.pc # "canceling" /\ c.pc \in {"idle", "list", "pair"} /\ (c.control = b.control \/ c.control = control)

\* A step to where a process is at no order.
LEMMA ToNoOrder ==
  ASSUME InventoryInv, CycleInv, OfficeInv, NEW s \in Servers, NEW c, Between(server[s], c), server' = [server EXCEPT ![s] = c],
         UNCHANGED <<officeVars, maker>>, UNCHANGED bookVars
  PROVE  InventoryInv'
<1>1. Thins
  BY StillSame
<1>2. \A p \in Pairs, a \in MakerAccounts : BuysOf(quotes', p, a) \subseteq BuysOf(quotes, p, a) /\ BuysOf(canceling', p, a) \subseteq BuysOf(canceling, p, a)
  BY DEF bookVars
<1>3. \A p \in Pairs, a \in MakerAccounts : Stays(server[s], c, p, a)
  BY <1>2, AtNoOrder DEF Between
<1>4. Chased'
  BY <1>1, StillChased DEF Thins, Between
<1> QED
  BY <1>1, <1>3, <1>4, StaysStep DEF Between, Thins

\* The beginning of a cycle, up to its first pair, and the pairs that are passed over.
LEMMA BeginsCycle ==
  ASSUME InventoryInv, CycleInv, OfficeInv, NEW s \in Servers, Cycle(s) \/ ListConfigs(s) \/ Halt(s)
  PROVE  InventoryInv'
<1>1. PICK b \in Cycles : b = server[s]
  BY DEF CycleInv, CycleTypes
<1>2. UNCHANGED <<officeVars, maker>> /\ UNCHANGED bookVars /\ server[s].pc # "canceling"
  BY DEF Cycle, ListConfigs, Halt, cycleOnly
<1>4. CASE Cycle(s)
  <2>1. PICK c : c = [IdleCycle EXCEPT !.pc = "list", !.control = control]
    OBVIOUS
  <2>2. Between(server[s], c)
    BY <1>2, <2>1 DEF IdleCycle, Between
  <2>3. server' = [server EXCEPT ![s] = c]
    BY <1>4, <2>1 DEF Cycle, LoadControl
  <2> QED
    BY <1>2, <2>2, <2>3, ToNoOrder
<1>5. CASE ListConfigs(s) \/ Halt(s)
  <2>1. CASE server' = [server EXCEPT ![s] = IdleCycle]
    BY <1>2, <2>1, StillSame, LeavesPair
  <2>2. CASE ListConfigs(s) /\ server' # [server EXCEPT ![s] = IdleCycle]
    <3>1. PICK c : c = [b EXCEPT !.pc = "pair", !.todo = configs]
      OBVIOUS
    <3>2. Between(server[s], c)
      BY <1>1, <1>2, <3>1 DEF Cycles, Between
    <3>3. server' = [server EXCEPT ![s] = c]
      BY <1>1, <2>2, <3>1 DEF ListConfigs
    <3> QED
      BY <1>1, <1>2, <3>2, <3>3, ToNoOrder
  <2>3. CASE Halt(s) /\ server' # [server EXCEPT ![s] = IdleCycle]
    <3>1. PICK c : c = [b EXCEPT !.todo = PairsLeft(s)]
      OBVIOUS
    <3>2. Between(server[s], c)
      BY <1>1, <1>2, <2>3, <3>1 DEF Cycles, Halt, Between
    <3>3. server' = [server EXCEPT ![s] = c]
      BY <1>1, <2>3, <3>1 DEF Halt
    <3> QED
      BY <1>1, <1>2, <3>2, <3>3, ToNoOrder
  <2> QED
    BY <1>5, <2>1, <2>2, <2>3
<1> QED
  BY <1>4, <1>5

\* A pair is taken to be cleared, or to be quoted in the dry run.
LEMMA TakesQuietly ==
  ASSUME InventoryInv, CycleInv, OfficeInv, NEW s \in Servers, server[s].pc = "pair", NEW pc \in {"claim", "list_orders"}, TakePair(s, pc),
         pc = "list_orders" => server[s].control.kill_switch, pc = "claim" => server[s].control.dry_run,
         UNCHANGED <<officeVars, maker>>, UNCHANGED bookVars
  PROVE  InventoryInv'
<1>1. PICK b \in Cycles : b = server[s]
  BY DEF CycleInv, CycleTypes
<1>2. PICK c : c = [b EXCEPT !.pair = NextIn(s), !.slot = slot, !.todo = PairsLeft(s), !.pc = pc]
  OBVIOUS
<1>3. c.pc = pc /\ c.control = b.control
  BY <1>2 DEF Cycles
<1>4. \A p \in Pairs, a \in MakerAccounts : Stays(server[s], c, p, a)
  BY <1>1, <1>3 DEF Stays, OnWay, Fits, Replaces, bookVars
<1>5. server' = [server EXCEPT ![s] = c]
  BY <1>1, <1>2 DEF TakePair
<1>6. Thins
  BY StillSame
<1>7. Chased'
  BY <1>5, <1>6, StillChased DEF Thins
<1> QED
  BY <1>1, <1>3, <1>4, <1>5, <1>6, <1>7, StaysStep DEF Thins

\* A pair is taken to be quoted: the inventory is below the limit, every process may have a
\* quote that is open, and every process is on its way or waits for the end of another.
LEMMA TakesWithin ==
  ASSUME InventoryInv, CycleInv, OfficeInv, NEW s \in Servers, quotePair(s), ~server[s].control.dry_run
  PROVE  InventoryInv'
<1>1. PICK b \in Cycles : b = server[s]
  BY DEF CycleInv, CycleTypes
<1>2. PICK c : c = [b EXCEPT !.pair = NextIn(s), !.slot = slot, !.todo = PairsLeft(s), !.pc = "claim"]
  OBVIOUS
<1>3. c.pc = "claim" /\ c.control = b.control /\ c.pair = NextIn(s)
  BY <1>2 DEF Cycles
<1>4. server' = [server EXCEPT ![s] = c] /\ UNCHANGED <<officeVars, maker>> /\ UNCHANGED bookVars /\ server[s].pc = "pair"
  BY <1>1, <1>2 DEF quotePair, TakePair, cycleOnly
<1>5. server \in [Servers -> Cycles]
  BY DEF CycleInv, CycleTypes
<1>6. server'[s] = c /\ \A t \in Servers : t # s => server'[t] = server[t]
  BY <1>4, <1>5
<1>7. quotes' = quotes /\ canceling' = canceling /\ unanswered' = unanswered
  BY <1>4 DEF bookVars
<1>8. Thins /\ Chased'
  BY <1>4, StillSame, StillChased DEF Thins
<1>9. ASSUME NEW p \in Pairs, NEW a \in MakerAccounts PROVE OneEach(server', BuysOf(quotes', p, a), p, a)
  <2>1. \A x \in Quotes : Fits(x, server[s], BuysOf(quotes, p, a), p, a) => Fits(x, c, BuysOf(quotes', p, a), p, a)
    BY <1>3 DEF Fits
  <2>2. BuysOf(quotes', p, a) \subseteq BuysOf(quotes, p, a)
    BY <1>7
  <2> QED
    BY <1>4, <1>5, <2>1, <2>2, StaysOneEach DEF InventoryInv
<1>10. ASSUME NEW p \in Pairs, NEW a \in MakerAccounts, OwnBase(p), Once(Funded)
       PROVE  Within(maker[a][Base[p]], BuysOf(quotes', p, a), BuysOf(canceling', p, a), Way(server', p, a), BuysOf(unanswered', p, a))
  <2>4. CASE ~AtPair(c, p, a)
    <3>1. ~OnWay(c, p, a) /\ ~OnWay(server[s], p, a)
      BY <1>3, <1>4, <2>4 DEF OnWay, Replaces
    <3>2. Way(server', p, a) = Way(server, p, a)
      BY <1>6, <3>1 DEF Way
    <3> QED
      BY <1>7, <1>10, <3>2 DEF InventoryInv, BoundKept
  <2>5. CASE AtPair(c, p, a)
    <3>1. checkRisk(a, p)
      BY <1>1, <1>3, <2>5 DEF quotePair, AtPair
    <3>2. maker[a][Base[p]] \in Int
      BY Counts
    <3>3. maker[a][Base[p]] + 1 <= MaxInventory
      BY <3>1 DEF checkRisk, Risk
    <3>4. OneEach(server, BuysOf(quotes, p, a), p, a)
      BY DEF InventoryInv
    <3>5. Cardinality(BuysOf(quotes, p, a)) \in Nat /\ Cardinality(Servers) \in Nat /\ Cardinality(BuysOf(quotes, p, a)) <= Cardinality(Servers)
      BY <3>4, FewBuys
    <3>6. Cardinality(BuysOf(canceling, p, a)) <= Cardinality(Askers(server, p, a)) + Cardinality(BuysOf(unanswered, p, a))
      BY FewCanceled
    <3>7. Askers(server', p, a) = Askers(server, p, a)
      <4>1. ~AsksBuy(c) /\ ~AsksBuy(server[s])
        BY <1>3, <1>4 DEF AsksBuy
      <4> QED
        BY <1>6, <4>1 DEF Askers
    <3>8. /\ Cardinality(Way(server', p, a)) \in Nat /\ Cardinality(Askers(server, p, a)) \in Nat
          /\ Cardinality(Way(server', p, a)) + Cardinality(Askers(server, p, a)) <= Cardinality(Servers)
      BY <3>7, FewOnWay
    <3>9. Cardinality(BuysOf(canceling, p, a)) \in Nat /\ Cardinality(BuysOf(unanswered, p, a)) \in Nat
      BY FiniteBuys DEF CycleInv, CycleTypes, Book
    <3>10. maker[a][Base[p]] + Cardinality(BuysOf(quotes, p, a)) + Cardinality(BuysOf(canceling, p, a)) + Cardinality(Way(server', p, a))
           <= MaxInventory - 1 + 2 * Cardinality(Servers) + Cardinality(BuysOf(unanswered, p, a))
      BY <3>2, <3>3, <3>5, <3>6, <3>8, <3>9, MakerAssumption
    <3> QED
      BY <1>7, <3>10 DEF Within
  <2> QED
    BY <2>4, <2>5
<1> QED
  BY <1>1, <1>3, <1>4, <1>8, <1>9, <1>10, ServerStep DEF Thins

\* A process that replaces the quotes of a pair does so live, and something was funded.
LEMMA ReplacesLive ==
  ASSUME InventoryInv, CycleInv, NEW s \in Servers, Replaces(server[s])
  PROVE  ~server[s].control.dry_run /\ Funded # {}
<1>1. ClaimsOf(commands, server[s])
  BY DEF CycleInv, Claims
<1>2. ~server[s].control.dry_run
  BY <1>1 DEF ClaimsOf, Owns
<1> QED
  BY <1>2 DEF InventoryInv, DryUntilFunded

\* c is at the same pair as b, with the same copy of the controls, and nobody waits.
SamePair(b, c) == b.pc # "canceling" /\ c.pair = b.pair /\ c.control = b.control

\* A step within a pair, after which it is on its way only if it was.
LEMMA WithinPair ==
  ASSUME InventoryInv, CycleInv, OfficeInv, NEW s \in Servers, NEW c, SamePair(server[s], c),
         server' = [server EXCEPT ![s] = c], UNCHANGED <<officeVars, maker>>, UNCHANGED bookVars,
         \A p \in Pairs, a \in MakerAccounts : OnWay(c, p, a) => OnWay(server[s], p, a),
         \A p \in Pairs, a \in MakerAccounts, x \in Quotes :
           Fits(x, server[s], BuysOf(quotes, p, a), p, a) => Fits(x, c, BuysOf(quotes', p, a), p, a)
  PROVE  InventoryInv'
<1>1. Thins
  BY StillSame
<1>2. \A p \in Pairs, a \in MakerAccounts : Stays(server[s], c, p, a)
  BY DEF Stays, bookVars
<1>3. c.control.dry_run \/ c.control = server[s].control \/ c.control = control
  BY DEF SamePair
<1>4. Chased'
  BY <1>1, StillChased DEF Thins, SamePair
<1> QED
  BY <1>1, <1>2, <1>3, <1>4, StaysStep DEF Thins

\* A claim: the process goes on to replace the quotes only if its copy said live.
LEMMA ClaimsWithin == ASSUME InventoryInv, CycleInv, OfficeInv, NEW s \in Servers, ClaimCommand(s) PROVE InventoryInv'
<1>0. PICK b \in Cycles : b = server[s]
  BY DEF CycleInv, CycleTypes
<1>1. b.pc = "claim" /\ UNCHANGED bookVars
  BY <1>0 DEF ClaimCommand
<1>2. UNCHANGED <<officeVars, maker>>
  BY DEF ClaimCommand, cycleOnly
<1>3. server \in [Servers -> Cycles]
  BY DEF CycleInv, CycleTypes
<1>4. CASE NextPair(s)
  BY <1>0, <1>1, <1>2, <1>4, StillSame, LeavesPair
<1>5. CASE SideToClaim(s) = "BUY"
  <2>1. PICK mine : server' = [server EXCEPT ![s].sides = {"BUY"}, ![s].found = mine]
    BY <1>5 DEF ClaimCommand
  <2>2. PICK c : c = [b EXCEPT !.sides = {"BUY"}, !.found = mine]
    OBVIOUS
  <2>3. server' = [server EXCEPT ![s] = c]
    BY <1>0, <1>3, <2>1, <2>2 DEF Cycles
  <2>4. c.pc = "claim" /\ c.pair = b.pair /\ c.control = b.control
    BY <1>1, <2>2 DEF Cycles
  <2>5. SamePair(server[s], c) /\ \A p \in Pairs, a \in MakerAccounts : OnWay(c, p, a) => OnWay(server[s], p, a)
    BY <1>0, <1>1, <2>4 DEF SamePair, OnWay, AtPair
  <2>6. \A p \in Pairs, a \in MakerAccounts, x \in Quotes : Fits(x, server[s], BuysOf(quotes, p, a), p, a) => Fits(x, c, BuysOf(quotes', p, a), p, a)
    BY <2>4 DEF Fits
  <2> QED
    BY <1>1, <1>2, <2>3, <2>5, <2>6, WithinPair
<1>6. CASE SideToClaim(s) # "BUY" /\ ~NextPair(s)
  <2>1. server' = [server EXCEPT ![s].pc = "list_orders", ![s].sides = {}, ![s].found = {}] /\ ~b.control.dry_run
    BY <1>0, <1>6 DEF ClaimCommand
  <2>2. PICK c : c = [b EXCEPT !.pc = "list_orders", !.sides = {}, !.found = {}]
    OBVIOUS
  <2>3. server' = [server EXCEPT ![s] = c]
    BY <1>0, <1>3, <2>1, <2>2 DEF Cycles
  <2>4. c.pc = "list_orders" /\ c.pair = b.pair /\ c.control = b.control
    BY <2>2 DEF Cycles
  <2>5. SamePair(server[s], c) /\ \A p \in Pairs, a \in MakerAccounts : OnWay(c, p, a) => OnWay(server[s], p, a)
    BY <1>0, <1>1, <2>4 DEF SamePair, OnWay, AtPair
  <2>6. \A p \in Pairs, a \in MakerAccounts, x \in Quotes : Fits(x, server[s], BuysOf(quotes, p, a), p, a) => Fits(x, c, BuysOf(quotes', p, a), p, a)
    BY <2>4 DEF Fits
  <2> QED
    BY <1>1, <1>2, <2>3, <2>5, <2>6, WithinPair
<1> QED
  BY <1>4, <1>5, <1>6

\* c goes on from b with the rest of the cancellations.
GoesOnWith(b, c, rest) ==
  \/ rest # {} /\ c = [b EXCEPT !.pc = "cancel", !.found = rest, !.asked = {}]
  \/ rest = {} /\ ~b.control.kill_switch /\ c = [b EXCEPT !.pc = "place", !.found = {}, !.asked = {}]

\* What fits it: a quote that the process placed before is among the rest, or gone.
LEMMA RestFits ==
  ASSUME NEW b \in Cycles, b.pc \in {"list_orders", "cancel", "canceling"}, NEW c, NEW rest, GoesOnWith(b, c, rest),
         NEW B, NEW B1, NEW p, NEW a,
         \A x \in Quotes : AtPair(b, p, a) /\ Fits(x, b, B, p, a) /\ x \in B1 => x \in rest
  PROVE  /\ c.control = b.control /\ c.pc \in {"cancel", "place"}
         /\ \A x \in Quotes : Fits(x, b, B, p, a) => Fits(x, c, B1, p, a)
         /\ OnWay(c, p, a) => OnWay(b, p, a) \/ (AsksBuy(b) /\ Replaces(b) /\ AtPair(b, p, a))
<1>1. CASE rest # {} /\ c = [b EXCEPT !.pc = "cancel", !.found = rest, !.asked = {}]
  <2>1. c.pc = "cancel" /\ c.pair = b.pair /\ c.control = b.control /\ c.found = rest
    BY <1>1 DEF Cycles
  <2> QED
    BY <2>1 DEF Fits, AtPair, OnWay, Replaces, AsksBuy
<1>2. CASE rest = {} /\ ~b.control.kill_switch /\ c = [b EXCEPT !.pc = "place", !.found = {}, !.asked = {}]
  <2>1. c.pc = "place" /\ c.pair = b.pair /\ c.control = b.control
    BY <1>2 DEF Cycles
  <2> QED
    BY <1>2, <2>1 DEF Fits, AtPair, OnWay, Replaces, AsksBuy
<1> QED
  BY <1>1, <1>2 DEF GoesOnWith

\* CancelRest leaves the pair or goes on.
LEMMA RestCases ==
  ASSUME CycleInv, NEW s \in Servers, NEW rest, CancelRest(s, rest), ~NextPair(s)
  PROVE  \E c : GoesOnWith(server[s], c, rest) /\ server' = [server EXCEPT ![s] = c]
<1>1. server \in [Servers -> Cycles] /\ server[s] \in Cycles
  BY DEF CycleInv, CycleTypes
<1>2. CASE rest # {}
  <2>1. PICK c : c = [server[s] EXCEPT !.pc = "cancel", !.found = rest, !.asked = {}]
    OBVIOUS
  <2>2. server' = [server EXCEPT ![s] = c]
    BY <1>1, <1>2, <2>1 DEF Cycles, CancelRest
  <2> QED
    BY <1>2, <2>1, <2>2 DEF GoesOnWith
<1>3. CASE rest = {}
  <2>1. PICK c : c = [server[s] EXCEPT !.pc = "place", !.found = {}, !.asked = {}]
    OBVIOUS
  <2>2. server' = [server EXCEPT ![s] = c] /\ ~server[s].control.kill_switch
    BY <1>1, <1>3, <2>1 DEF Cycles, CancelRest
  <2> QED
    BY <1>3, <2>1, <2>2 DEF GoesOnWith
<1> QED
  BY <1>2, <1>3

\* The quotes of the pair are listed, or one that has ended is passed over.
LEMMA ListsWithin ==
  ASSUME InventoryInv, CycleInv, OfficeInv, NEW s \in Servers, server[s].pc \in {"list_orders", "cancel"},
         NEW rest, CancelRest(s, rest), UNCHANGED <<officeVars, maker>>, UNCHANGED bookVars,
         \A p \in Pairs, a \in MakerAccounts, x \in Quotes :
           AtPair(server[s], p, a) /\ Fits(x, server[s], BuysOf(quotes, p, a), p, a) /\ x \in BuysOf(quotes, p, a) => x \in rest
  PROVE  InventoryInv'
<1>1. CASE NextPair(s)
  BY <1>1, StillSame, LeavesPair
<1>2. CASE ~NextPair(s)
  <2>1. PICK c : GoesOnWith(server[s], c, rest) /\ server' = [server EXCEPT ![s] = c]
    BY <1>2, RestCases
  <2>2. PICK b \in Cycles : b = server[s]
    BY DEF CycleInv, CycleTypes
  <2>3. ASSUME NEW p \in Pairs, NEW a \in MakerAccounts
        PROVE  /\ OnWay(c, p, a) => OnWay(b, p, a)
               /\ \A x \in Quotes : Fits(x, b, BuysOf(quotes, p, a), p, a) => Fits(x, c, BuysOf(quotes', p, a), p, a)
    <3>1. BuysOf(quotes', p, a) = BuysOf(quotes, p, a) /\ ~AsksBuy(b)
      BY <2>2 DEF bookVars, AsksBuy
    <3> QED
      BY <2>1, <2>2, <3>1, RestFits
  <2>4. SamePair(server[s], c)
    BY <2>1, <2>2 DEF SamePair, GoesOnWith, Cycles
  <2>5. \A p \in Pairs, a \in MakerAccounts : OnWay(c, p, a) => OnWay(server[s], p, a)
    BY <2>2, <2>3
  <2>6. \A p \in Pairs, a \in MakerAccounts, x \in Quotes :
          Fits(x, server[s], BuysOf(quotes, p, a), p, a) => Fits(x, c, BuysOf(quotes', p, a), p, a)
    BY <2>2, <2>3
  <2> QED
    BY <2>1, <2>4, <2>5, <2>6, WithinPair
<1> QED
  BY <1>1, <1>2

\* What leaves one finite set and comes into another.
LEMMA Moved ==
  ASSUME NEW X, NEW Y, IsFiniteSet(X), IsFiniteSet(Y), NEW x \in X, NEW y
  PROVE  /\ {Cardinality(X), Cardinality(Y), Cardinality(X \ {x}), Cardinality(Y \cup {y})} \subseteq Nat
         /\ Cardinality(X \ {x}) + Cardinality(Y \cup {y}) <= Cardinality(X) + Cardinality(Y)
<1>1. Cardinality(X) \in Nat /\ Cardinality(Y) \in Nat
  BY FS_CardinalityType
<1>2. IsFiniteSet(X \ {x}) /\ Cardinality(X \ {x}) = Cardinality(X) - 1
  BY FS_RemoveElement
<1>3. IsFiniteSet(Y \cup {y}) /\ Cardinality(Y \cup {y}) \in {Cardinality(Y), Cardinality(Y) + 1}
  BY FS_AddElement
<1>4. Cardinality(X \ {x}) \in Nat /\ Cardinality(Y \cup {y}) \in Nat
  BY <1>2, <1>3, FS_CardinalityType
<1> QED
  BY <1>1, <1>2, <1>3, <1>4

\* The sum stays within the bound when one of its parts gives to another.
LEMMA WithinMoved ==
  ASSUME NEW h \in Int, NEW B, NEW C, NEW W, NEW U, IsFiniteSet(B), IsFiniteSet(C), IsFiniteSet(W), IsFiniteSet(U), NEW y, Within(h, B, C, W, U)
  PROVE  /\ \A x \in B : Within(h, B \ {x}, C \cup {y}, W, U)
         /\ \A x \in C : Within(h, B, C \ {x}, W \cup {y}, U)
         /\ \A x \in W : Within(h, B \cup {y}, C, W \ {x}, U)
<1>1. {Cardinality(B), Cardinality(C), Cardinality(W), Cardinality(U), Cardinality(Servers)} \subseteq Nat /\ MaxInventory \in Nat
  BY FS_CardinalityType, MakerAssumption
<1>2. B \cup C \cup W # {} => h + Cardinality(B) + Cardinality(C) + Cardinality(W) <= MaxInventory - 1 + 2 * Cardinality(Servers) + Cardinality(U)
  BY DEF Within
<1>3. ASSUME NEW x \in B PROVE Within(h, B \ {x}, C \cup {y}, W, U)
  <2>0. /\ Cardinality(B \ {x}) \in Nat /\ Cardinality(C \cup {y}) \in Nat
        /\ Cardinality(B \ {x}) + Cardinality(C \cup {y}) <= Cardinality(B) + Cardinality(C)
    BY <1>3, Moved
  <2>2. h + Cardinality(B) + Cardinality(C) + Cardinality(W) <= MaxInventory - 1 + 2 * Cardinality(Servers) + Cardinality(U)
    BY <1>2, <1>3
  <2>1. h + Cardinality(B \ {x}) + Cardinality(C \cup {y}) + Cardinality(W) <= MaxInventory - 1 + 2 * Cardinality(Servers) + Cardinality(U)
    BY <1>1, <2>0, <2>2
  <2> QED
    BY <2>1 DEF Within
<1>4. ASSUME NEW x \in C PROVE Within(h, B, C \ {x}, W \cup {y}, U)
  <2>0. /\ Cardinality(C \ {x}) \in Nat /\ Cardinality(W \cup {y}) \in Nat
        /\ Cardinality(C \ {x}) + Cardinality(W \cup {y}) <= Cardinality(C) + Cardinality(W)
    BY <1>4, Moved
  <2>2. h + Cardinality(B) + Cardinality(C) + Cardinality(W) <= MaxInventory - 1 + 2 * Cardinality(Servers) + Cardinality(U)
    BY <1>2, <1>4
  <2>1. h + Cardinality(B) + Cardinality(C \ {x}) + Cardinality(W \cup {y}) <= MaxInventory - 1 + 2 * Cardinality(Servers) + Cardinality(U)
    BY <1>1, <2>0, <2>2
  <2> QED
    BY <2>1 DEF Within
<1>5. ASSUME NEW x \in W PROVE Within(h, B \cup {y}, C, W \ {x}, U)
  <2>0. /\ Cardinality(W \ {x}) \in Nat /\ Cardinality(B \cup {y}) \in Nat
        /\ Cardinality(W \ {x}) + Cardinality(B \cup {y}) <= Cardinality(W) + Cardinality(B)
    BY <1>5, Moved
  <2>2. h + Cardinality(B) + Cardinality(C) + Cardinality(W) <= MaxInventory - 1 + 2 * Cardinality(Servers) + Cardinality(U)
    BY <1>2, <1>5
  <2>1. h + Cardinality(B \cup {y}) + Cardinality(C) + Cardinality(W \ {x}) <= MaxInventory - 1 + 2 * Cardinality(Servers) + Cardinality(U)
    BY <1>1, <2>0, <2>2
  <2> QED
    BY <2>1 DEF Within
<1> QED
  BY <1>3, <1>4, <1>5

\* The cancellation of a quote is asked for: it is no longer open, and its asker not on its way.
LEMMA AsksWithin ==
  ASSUME InventoryInv, CycleInv, OfficeInv, NEW s \in Servers, NEW k \in Quotes, AskToCancel(s, k)
  PROVE  InventoryInv'
<1>1. PICK b \in Cycles : b = server[s]
  BY DEF CycleInv, CycleTypes
<1>2. b.pc = "cancel" /\ k \in b.found /\ k \in quotes /\ quotes' = quotes \ {k} /\ canceling' = canceling \cup {k} /\ unanswered' = unanswered
  BY <1>1 DEF AskToCancel
<1>3. PICK c : c = [b EXCEPT !.pc = "canceling", !.asked = {k}]
  OBVIOUS
<1>4. server \in [Servers -> Cycles]
  BY DEF CycleInv, CycleTypes
<1>5. server' = [server EXCEPT ![s] = c] /\ UNCHANGED <<officeVars, maker>>
  BY <1>1, <1>3, <1>4 DEF AskToCancel, cycleOnly
<1>6. c.pc = "canceling" /\ c.asked = {k} /\ c.found = b.found /\ c.pair = b.pair /\ c.control = b.control /\ c.sides = b.sides
  BY <1>3 DEF Cycles
<1>7. server'[s] = c /\ \A t \in Servers : t # s => server'[t] = server[t]
  BY <1>4, <1>5
<1>8. Chased'
  <2>1. ASSUME NEW j \in canceling' \ unanswered' PROVE \E t \in Servers : server'[t].pc = "canceling" /\ server'[t].asked = {j}
    <3>1. CASE j = k
      BY <1>6, <1>7, <3>1
    <3>2. CASE j # k
      <4>1. PICK t \in Servers : server[t].pc = "canceling" /\ server[t].asked = {j}
        BY <1>2, <3>2 DEF InventoryInv, Chased
      <4> QED
        BY <1>1, <1>2, <1>7, <4>1
    <3> QED
      BY <3>1, <3>2
  <2> QED
    BY <2>1 DEF Chased
<1>9. Funded = {} => Book' = {}
  BY <1>2 DEF InventoryInv, DryUntilFunded, Book
<1>10. AtQuote(b, k)
  BY <1>1, <1>2 DEF CycleInv, CycleTypes, InOrder
<1>11. ASSUME NEW p \in Pairs, NEW a \in MakerAccounts PROVE OneEach(server', BuysOf(quotes', p, a), p, a)
  <2>1. BuysOf(quotes', p, a) \subseteq BuysOf(quotes, p, a) /\ k \notin BuysOf(quotes', p, a)
    BY <1>2 DEF BuysOf
  <2>2. \A x \in Quotes : Fits(x, server[s], BuysOf(quotes, p, a), p, a) => Fits(x, c, BuysOf(quotes', p, a), p, a)
    BY <1>1, <1>2, <1>6, <2>1 DEF Fits, AtPair
  <2> QED
    BY <1>4, <1>5, <2>1, <2>2, StaysOneEach DEF InventoryInv
<1>12. ASSUME NEW p \in Pairs, NEW a \in MakerAccounts, OwnBase(p), Once(Funded)
       PROVE  Within(maker[a][Base[p]], BuysOf(quotes', p, a), BuysOf(canceling', p, a), Way(server', p, a), BuysOf(unanswered', p, a))
  <2> DEFINE h == maker[a][Base[p]]
             B == BuysOf(quotes, p, a)
             C == BuysOf(canceling, p, a)
             W == Way(server, p, a)
             U == BuysOf(unanswered, p, a)
             W1 == Way(server', p, a)
  <2>1. Within(h, B, C, W, U)
    BY <1>12 DEF InventoryInv, BoundKept
  <2>2. h \in Int /\ h <= h /\ IsFiniteSet(B) /\ IsFiniteSet(C) /\ IsFiniteSet(W) /\ IsFiniteSet(U)
    BY Counts
  <2>3. OnWay(c, p, a) => OnWay(server[s], p, a)
    BY <1>1, <1>2, <1>6 DEF OnWay, Replaces, AtPair, AsksBuy
  <2>4. W1 \in SUBSET W
    BY <1>7, <2>3 DEF Way
  <2>5. CASE k \in B
    <3>1. BuysOf(quotes', p, a) = B \ {k} /\ BuysOf(canceling', p, a) = C \cup {k}
      BY <1>2, <2>5 DEF BuysOf
    <3> HIDE DEF h, B, C, W, U, W1
    <3>2. Within(h, B \ {k}, C \cup {k}, W, U)
      BY <2>1, <2>2, <2>5, WithinMoved
    <3>3. IsFiniteSet(B \ {k}) /\ IsFiniteSet(C \cup {k})
      BY <2>2, FS_RemoveElement, FS_AddElement
    <3>4. PICK B1 : B1 = B \ {k}
      OBVIOUS
    <3>5. PICK C1 : C1 = C \cup {k}
      OBVIOUS
    <3>6. B1 \in SUBSET B1 /\ C1 \in SUBSET C1 /\ U \in SUBSET U /\ Within(h, B1, C1, W, U) /\ IsFiniteSet(B1) /\ IsFiniteSet(C1)
      BY <3>2, <3>3, <3>4, <3>5
    <3>7. Within(h, B1, C1, W1, U)
      BY <2>2, <2>4, <3>6, WithinLess
    <3> QED
      BY <1>2, <3>1, <3>4, <3>5, <3>7 DEF h, B, C, W, U, W1
  <2>6. CASE k \notin B
    <3>1. BuysOf(quotes', p, a) = B /\ BuysOf(canceling', p, a) = C
      BY <1>2, <2>6 DEF BuysOf
    <3> HIDE DEF h, B, C, W, U, W1
    <3>2. B \in SUBSET B /\ C \in SUBSET C /\ U \in SUBSET U
      OBVIOUS
    <3>3. Within(h, B, C, W1, U)
      BY <2>1, <2>2, <2>4, <3>2, WithinLess
    <3> QED
      BY <1>2, <3>1, <3>3 DEF h, B, C, W, U, W1
  <2> QED
    BY <2>5, <2>6
<1> QED
  BY <1>1, <1>5, <1>6, <1>8, <1>9, <1>11, <1>12, ServerStep

\* It is confirmed: the quote is gone, and its asker is on its way again.
LEMMA ConfirmedWithin ==
  ASSUME InventoryInv, CycleInv, OfficeInv, NEW s \in Servers, CancelConfirmed(s)
  PROVE  InventoryInv'
<1>1. PICK b \in Cycles : b = server[s]
  BY DEF CycleInv, CycleTypes
<1>2. b.pc = "canceling" /\ b.asked \subseteq canceling /\ canceling' = canceling \ b.asked /\ quotes' = quotes /\ unanswered' = unanswered
      /\ CancelRest(s, b.found \ b.asked)
  BY <1>1 DEF CancelConfirmed
<1>3. UNCHANGED <<officeVars, maker>>
  BY DEF CancelConfirmed, cycleOnly
<1>4. Thins
  BY <1>2, StillEmpty
<1>5. CASE NextPair(s)
  BY <1>1, <1>2, <1>3, <1>4, <1>5, LeavesPair
<1>6. CASE ~NextPair(s)
  <2>1. PICK rest : rest = b.found \ b.asked
    OBVIOUS
  <2>2. PICK c : GoesOnWith(server[s], c, rest) /\ server' = [server EXCEPT ![s] = c]
    BY <1>2, <1>6, <2>1, RestCases
  <2>3. server \in [Servers -> Cycles]
    BY DEF CycleInv, CycleTypes
  <2>4. server'[s] = c /\ \A t \in Servers : t # s => server'[t] = server[t]
    BY <2>2, <2>3
  <2>5. Chased'
    BY <1>1, <1>2, <2>2, StillChased
  <2>6. PICK k \in b.found : b.asked = {k} /\ AtQuote(b, k)
    BY <1>1, <1>2 DEF CycleInv, CycleTypes, InOrder
  <2>7. ASSUME NEW p \in Pairs, NEW a \in MakerAccounts
        PROVE  /\ c.control = b.control
               /\ \A x \in Quotes : Fits(x, b, BuysOf(quotes, p, a), p, a) => Fits(x, c, BuysOf(quotes, p, a), p, a)
               /\ OnWay(c, p, a) => OnWay(b, p, a) \/ (AsksBuy(b) /\ Replaces(b) /\ AtPair(b, p, a))
    <3>1. \A x \in Quotes : AtPair(b, p, a) /\ Fits(x, b, BuysOf(quotes, p, a), p, a) /\ x \in BuysOf(quotes, p, a) => x \in rest
      BY <1>2, <2>1 DEF Fits
    <3> QED
      BY <1>1, <1>2, <2>2, <3>1, RestFits
  <2>8. ASSUME NEW p \in Pairs, NEW a \in MakerAccounts PROVE OneEach(server', BuysOf(quotes', p, a), p, a)
    BY <1>1, <1>2, <2>2, <2>3, <2>7, StaysOneEach DEF InventoryInv
  <2>9. ASSUME NEW p \in Pairs, NEW a \in MakerAccounts, OwnBase(p), Once(Funded)
        PROVE  Within(maker[a][Base[p]], BuysOf(quotes', p, a), BuysOf(canceling', p, a), Way(server', p, a), BuysOf(unanswered', p, a))
    <3> DEFINE h == maker[a][Base[p]]
               B == BuysOf(quotes, p, a)
               C == BuysOf(canceling, p, a)
               C1 == BuysOf(canceling', p, a)
               W == Way(server, p, a)
               W1 == Way(server', p, a)
               U == BuysOf(unanswered, p, a)
    <3>1. Within(h, B, C, W, U)
      BY <2>9 DEF InventoryInv, BoundKept
    <3>2. h \in Int /\ h <= h /\ IsFiniteSet(B) /\ IsFiniteSet(C) /\ IsFiniteSet(W) /\ IsFiniteSet(U)
      BY Counts
    <3>3. C1 = C \ {k} /\ W1 \in SUBSET (W \cup {s})
      BY <1>2, <2>4, <2>6 DEF BuysOf, Way
    <3>4. CASE k \in C
      <4> HIDE DEF h, B, C, C1, W, W1, U
      <4>1. PICK Y : Y = W \cup {s}
        OBVIOUS
      <4>2. Within(h, B, C1, Y, U)
        BY <3>1, <3>2, <3>3, <3>4, <4>1, WithinMoved
      <4>3. IsFiniteSet(Y) /\ IsFiniteSet(C1) /\ W1 \in SUBSET Y /\ B \in SUBSET B /\ C1 \in SUBSET C1 /\ U \in SUBSET U
        BY <3>2, <3>3, <4>1, FS_AddElement, FS_RemoveElement
      <4>4. Within(h, B, C1, W1, U)
        BY <3>2, <4>2, <4>3, WithinLess
      <4> QED
        BY <1>2, <4>4 DEF h, B, C, C1, W, W1, U
    <3>5. CASE k \notin C
      <4>1. ~(AsksBuy(b) /\ AtPair(b, p, a))
        BY <1>2, <2>6, <3>5 DEF AsksBuy, AtPair, AtQuote, BuysOf
      <4>2. W1 \in SUBSET W
        BY <1>1, <2>4, <2>7, <4>1 DEF Way
      <4>3. B \in SUBSET B /\ C1 \in SUBSET C /\ U \in SUBSET U
        BY <3>3
      <4> HIDE DEF h, B, C, C1, W, W1, U
      <4>4. Within(h, B, C1, W1, U)
        BY <3>1, <3>2, <4>2, <4>3, WithinLess
      <4> QED
        BY <1>2, <4>4 DEF h, B, C, C1, W, W1, U
    <3> QED
      BY <3>4, <3>5
  <2>10. c.control = server[s].control
    BY <1>1, <2>2 DEF GoesOnWith, Cycles
  <2> QED
    BY <1>3, <1>4, <2>2, <2>5, <2>8, <2>9, <2>10, ServerStep DEF Thins
<1> QED
  BY <1>5, <1>6

\* It has placed its quote to buy.
HasBought(c) == c.pc \in {"idle", "pair"} \/ (c.pc = "place" /\ "BUY" \in c.sides)

\* The quote that is placed takes the place of the last one of the process.
LEMMA BuyHasHolder ==
  ASSUME NEW sv, NEW sv1, NEW B, NEW p, NEW a, OneEach(sv, B, p, a), NEW s \in Servers, NEW k \in Quotes, NEW n \in Quotes, n \notin B \cup {k},
         \A t \in Servers : t # s => sv1[t] = sv[t],
         AtPair(sv[s], p, a), sv[s].pc = "place", "BUY" \notin sv[s].sides, HasBought(sv1[s])
  PROVE  OneEach(sv1, B \cup {k}, p, a)
<1>1. PICK g \in [Servers -> Quotes] : Holders(g, sv, B, p, a)
  BY DEF OneEach
<1>2. PICK h \in [Servers -> Quotes] : h = [t \in Servers |-> IF t = s THEN k ELSE IF g[t] \in B THEN g[t] ELSE n]
  OBVIOUS
<1>3. g[s] \notin B
  BY <1>1 DEF Holders, Fits
<1>4. B \cup {k} \subseteq {h[t] : t \in Servers}
  BY <1>1, <1>2, <1>3 DEF Holders
<1>5. ASSUME NEW t \in Servers PROVE Fits(h[t], sv1[t], B \cup {k}, p, a)
  <2>1. CASE t = s
    BY <2>1 DEF Fits, HasBought
  <2>2. CASE t # s /\ g[t] \in B
    <3>1. h[t] = g[t] /\ sv1[t] = sv[t] /\ Fits(g[t], sv[t], B, p, a)
      BY <1>1, <1>2, <2>2 DEF Holders
    <3> QED
      BY <2>2, <3>1 DEF Fits
  <2>3. CASE t # s /\ g[t] \notin B
    <3>1. h[t] = n
      BY <1>2, <2>3
    <3> QED
      BY <3>1 DEF Fits
  <2> QED
    BY <2>1, <2>2, <2>3
<1>6. Holders(h, sv1, B \cup {k}, p, a)
  BY <1>4, <1>5 DEF Holders
<1> QED
  BY <1>6 DEF OneEach

\* A quote to buy is placed.
LEMMA BuyPlaced ==
  ASSUME InventoryInv, CycleInv, OfficeInv, NEW s \in Servers, server[s].pc = "place", "BUY" \notin server[s].sides, NEW c, HasBought(c),
         server' = [server EXCEPT ![s] = c], c.control.dry_run \/ c.control = server[s].control,
         UNCHANGED <<officeVars, maker, canceling, unanswered>>,
         quotes' = quotes \cup {<<server[s].pair, server[s].slot, "BUY", server[s].control.account>>}
  PROVE  InventoryInv'
<1>0. PICK b \in Cycles : b = server[s]
  BY DEF CycleInv, CycleTypes
<1>1. b.pc = "place" /\ b.pair \in Pairs /\ Replaces(b) /\ "BUY" \notin b.sides
  BY <1>0 DEF CycleInv, CycleTypes, InOrder, Works, Replaces
<1>2. ~b.control.dry_run /\ Funded # {}
  BY <1>0, <1>1, ReplacesLive
<1>3. server \in [Servers -> Cycles]
  BY DEF CycleInv, CycleTypes
<1>4. server'[s] = c /\ \A t \in Servers : t # s => server'[t] = server[t]
  BY <1>3
<1>5. b.slot \in 0..MaxSlot /\ b.control.account \in MakerAccounts
  BY DEF Cycles, Controls
<1>6. PICK k \in Quotes : k = <<b.pair, b.slot, "BUY", b.control.account>>
  BY <1>1, <1>5 DEF Quotes, Sides
<1>7. PICK n \in Quotes : n = <<b.pair, b.slot, "SELL", b.control.account>>
  BY <1>1, <1>5 DEF Quotes, Sides
<1>8. quotes' = quotes \cup {k}
  BY <1>0, <1>6
<1>9. k[1] = b.pair /\ k[3] = "BUY" /\ k[4] = b.control.account /\ n[3] = "SELL"
  BY <1>6, <1>7
<1>10. Chased'
  BY <1>0, <1>1, StillChased
<1>11. \A p \in Pairs, a \in MakerAccounts : ~OnWay(c, p, a)
  BY DEF OnWay, HasBought, Replaces
<1>12. ASSUME NEW p \in Pairs, NEW a \in MakerAccounts, ~AtPair(b, p, a)
       PROVE  BuysOf(quotes', p, a) = BuysOf(quotes, p, a) /\ Way(server', p, a) = Way(server, p, a)
  <2>1. BuysOf(quotes', p, a) = BuysOf(quotes, p, a)
    BY <1>8, <1>9, <1>12 DEF BuysOf, AtPair
  <2>2. ~OnWay(server[s], p, a)
    BY <1>0, <1>12 DEF OnWay
  <2> QED
    BY <1>4, <1>11, <2>1, <2>2 DEF Way
<1>13. ASSUME NEW p \in Pairs, NEW a \in MakerAccounts, AtPair(b, p, a)
       PROVE  BuysOf(quotes', p, a) = BuysOf(quotes, p, a) \cup {k} /\ s \in Way(server, p, a) /\ Way(server', p, a) = Way(server, p, a) \ {s}
  <2>1. BuysOf(quotes', p, a) = BuysOf(quotes, p, a) \cup {k}
    BY <1>8, <1>9, <1>13 DEF BuysOf, AtPair
  <2>2. OnWay(server[s], p, a)
    BY <1>0, <1>1, <1>2, <1>13 DEF OnWay, AsksBuy
  <2> QED
    BY <1>4, <1>11, <2>1, <2>2 DEF Way
<1>14. ASSUME NEW p \in Pairs, NEW a \in MakerAccounts PROVE OneEach(server', BuysOf(quotes', p, a), p, a)
  <2>1. CASE ~AtPair(b, p, a)
    <3>1. \A x \in Quotes : Fits(x, c, BuysOf(quotes', p, a), p, a)
      BY DEF Fits, HasBought
    <3>2. BuysOf(quotes', p, a) \subseteq BuysOf(quotes, p, a)
      BY <1>12, <2>1
    <3> QED
      BY <1>3, <3>1, <3>2, StaysOneEach DEF InventoryInv
  <2>2. CASE AtPair(b, p, a)
    <3>1. PICK B : B = BuysOf(quotes, p, a)
      OBVIOUS
    <3>2. n \notin B \cup {k} /\ OneEach(server, B, p, a)
      BY <1>9, <3>1 DEF BuysOf, InventoryInv
    <3>3. HasBought(server'[s]) /\ AtPair(server[s], p, a) /\ server[s].pc = "place" /\ "BUY" \notin server[s].sides
      BY <1>0, <1>4, <2>2
    <3>4. OneEach(server', B \cup {k}, p, a)
      BY <1>4, <3>2, <3>3, BuyHasHolder
    <3> QED
      BY <1>13, <2>2, <3>1, <3>4
  <2> QED
    BY <2>1, <2>2
<1>15. ASSUME NEW p \in Pairs, NEW a \in MakerAccounts, OwnBase(p), Once(Funded)
       PROVE  Within(maker[a][Base[p]], BuysOf(quotes', p, a), BuysOf(canceling', p, a), Way(server', p, a), BuysOf(unanswered', p, a))
  <2> DEFINE h == maker[a][Base[p]]
             B == BuysOf(quotes, p, a)
             C == BuysOf(canceling, p, a)
             W == Way(server, p, a)
             U == BuysOf(unanswered, p, a)
  <2>1. Within(h, B, C, W, U)
    BY <1>15 DEF InventoryInv, BoundKept
  <2>2. h \in Int /\ IsFiniteSet(B) /\ IsFiniteSet(C) /\ IsFiniteSet(W) /\ IsFiniteSet(U)
    BY Counts
  <2>3. CASE ~AtPair(b, p, a)
    BY <1>12, <2>1, <2>3
  <2>4. CASE AtPair(b, p, a)
    <3>1. BuysOf(quotes', p, a) = B \cup {k} /\ s \in W /\ Way(server', p, a) = W \ {s}
      BY <1>13, <2>4
    <3> HIDE DEF h, B, C, W, U
    <3>2. Within(h, B \cup {k}, C, W \ {s}, U)
      BY <2>1, <2>2, <3>1, WithinMoved
    <3> QED
      BY <3>1, <3>2 DEF h, B, C, W, U
  <2> QED
    BY <2>3, <2>4
<1> QED
  BY <1>2, <1>10, <1>14, <1>15, ServerStep

\* A quote is placed, rejected, or placed without an answer.
LEMMA PlacesWithin ==
  ASSUME InventoryInv, CycleInv, OfficeInv, NEW s \in Servers, PlaceOrder(s) \/ PlaceRejected(s) \/ PlaceFails(s)
  PROVE  InventoryInv'
<1>0. PICK b \in Cycles : b = server[s]
  BY DEF CycleInv, CycleTypes
<1>1. b.pc = "place" /\ Replaces(b)
  BY <1>0 DEF CycleInv, CycleTypes, InOrder, PlaceOrder, PlaceRejected, PlaceFails, Replaces
<1>2. ~b.control.dry_run /\ Funded # {}
  BY <1>0, <1>1, ReplacesLive
<1>3. UNCHANGED <<officeVars, maker, canceling, unanswered>>
  BY DEF PlaceOrder, PlaceRejected, PlaceFails, cycleOnly, bookVars
<1>4. server \in [Servers -> Cycles] /\ unanswered \subseteq Quotes
  BY DEF CycleInv, CycleTypes
<1>5. \/ NextPair(s) \/ server' = [server EXCEPT ![s] = IdleCycle]
      \/ "BUY" \notin b.sides /\ server' = [server EXCEPT ![s].sides = {"BUY"}]
  BY <1>0 DEF PlaceOrder, PlaceRejected, PlaceFails, NextSide, SideToPlace
<1>6. PICK c : server' = [server EXCEPT ![s] = c] /\ HasBought(c) /\ (c.control.dry_run \/ c.control = b.control)
  <2>1. CASE NextPair(s)
    <3>1. PICK d : d = [b EXCEPT !.pc = "pair", !.sides = {}, !.found = {}, !.asked = {}]
      OBVIOUS
    <3>2. d.pc = "pair" /\ d.control = b.control /\ IdleCycle.pc = "idle" /\ IdleCycle.control.dry_run
      BY <3>1 DEF Cycles, IdleCycle
    <3>3. server' = [server EXCEPT ![s] = IdleCycle] \/ server' = [server EXCEPT ![s] = d]
      BY <1>0, <2>1, <3>1 DEF NextPair
    <3> QED
      BY <3>2, <3>3 DEF HasBought
  <2>2. CASE server' = [server EXCEPT ![s] = IdleCycle]
    <3>1. PICK d : d = IdleCycle
      OBVIOUS
    <3>2. d.pc = "idle" /\ d.control.dry_run
      BY <3>1 DEF IdleCycle
    <3> QED
      BY <2>2, <3>1, <3>2 DEF HasBought
  <2>3. CASE server' = [server EXCEPT ![s].sides = {"BUY"}]
    <3>1. PICK d : d = [b EXCEPT !.sides = {"BUY"}]
      OBVIOUS
    <3>2. d.pc = "place" /\ d.control = b.control /\ d.sides = {"BUY"}
      BY <1>1, <3>1 DEF Cycles
    <3>3. server' = [server EXCEPT ![s] = d]
      BY <1>0, <1>4, <2>3, <3>1 DEF Cycles
    <3> QED
      BY <3>2, <3>3 DEF HasBought
  <2> QED
    BY <1>5, <2>1, <2>2, <2>3
<1>7. CASE "BUY" \notin b.sides /\ ~PlaceRejected(s)
  <2>1. quotes' = quotes \cup {<<server[s].pair, server[s].slot, "BUY", server[s].control.account>>}
    BY <1>0, <1>7 DEF PlaceOrder, PlaceFails, QuoteOf, SideToPlace
  <2> QED
    BY <1>0, <1>1, <1>3, <1>6, <1>7, <2>1, BuyPlaced
<1>8. CASE PlaceRejected(s)
  <2>1. UNCHANGED bookVars
    BY <1>8 DEF PlaceRejected
  <2>2. ASSUME NEW p \in Pairs, NEW a \in MakerAccounts PROVE Stays(b, c, p, a)
    BY <1>6, <2>1 DEF HasBought, OnWay, Replaces, Fits, Stays, bookVars
  <2>3. Thins /\ Chased'
    BY <1>0, <1>1, <1>6, <2>1, StillSame, StillChased DEF Thins
  <2>4. c.control.dry_run \/ c.control = server[s].control \/ c.control = control
    BY <1>0, <1>6
  <2>5. \A p \in Pairs, a \in MakerAccounts : Stays(server[s], c, p, a)
    BY <1>0, <2>2
  <2> QED
    BY <1>3, <1>6, <2>3, <2>4, <2>5, StaysStep DEF Thins
<1>9. CASE "BUY" \in b.sides /\ ~PlaceRejected(s)
  <2>1. quotes' = quotes \cup {<<server[s].pair, server[s].slot, "SELL", server[s].control.account>>}
    BY <1>0, <1>9 DEF PlaceOrder, PlaceFails, QuoteOf, SideToPlace
  <2>2. \A p \in Pairs, a \in MakerAccounts : BuysOf(quotes', p, a) \subseteq BuysOf(quotes, p, a)
    BY <2>1 DEF BuysOf
  <2>3. Thins
    BY <1>2, <1>3, <1>4, <2>2 DEF Thins
  <2>4. NextPair(s) \/ server' = [server EXCEPT ![s] = IdleCycle]
    BY <1>5, <1>9
  <2>5. server[s].pc # "canceling" /\ UNCHANGED <<officeVars, maker>>
    BY <1>0, <1>1, <1>3
  <2> QED
    BY <2>3, <2>4, <2>5, LeavesPair
<1> QED
  BY <1>7, <1>8, <1>9

\* The steps of a process.
LEMMA ServesWithin == ASSUME InventoryInv, CycleInv, OfficeInv, NEW s \in Servers, Serve(s) \/ Fail(s) PROVE InventoryInv'
<1>1. CASE Cycle(s) \/ ListConfigs(s) \/ Halt(s)
  BY <1>1, BeginsCycle
<1>2. CASE quotePair(s)
  <2>1. CASE server[s].control.dry_run
    <3>1. TakePair(s, "claim") /\ server[s].pc = "pair" /\ UNCHANGED bookVars
      BY <1>2 DEF quotePair
    <3>2. UNCHANGED <<officeVars, maker>>
      BY <1>2 DEF quotePair, cycleOnly
    <3> QED
      BY <2>1, <3>1, <3>2, TakesQuietly
  <2> QED
    BY <1>2, <2>1, TakesWithin
<1>3. CASE stopExisting(s)
  <2>1. TakePair(s, "list_orders") /\ server[s].pc = "pair" /\ server[s].control.kill_switch /\ UNCHANGED bookVars
    BY <1>3 DEF stopExisting
  <2>2. UNCHANGED <<officeVars, maker>>
    BY <1>3 DEF stopExisting, cycleOnly
  <2> QED
    BY <2>1, <2>2, TakesQuietly
<1>4. CASE ClaimCommand(s)
  BY <1>4, ClaimsWithin
<1>5. CASE ClaimRefused(s) \/ PlaceRefused(s) \/ Fail(s) \/ \E k \in Quotes : CancelTwice(s, k)
  <2>1. (NextPair(s) \/ server' = [server EXCEPT ![s] = IdleCycle]) /\ UNCHANGED bookVars /\ server[s].pc # "canceling"
    BY <1>5 DEF ClaimRefused, PlaceRefused, Fail, CancelTwice
  <2>2. UNCHANGED <<officeVars, maker>>
    BY <1>5 DEF ClaimRefused, PlaceRefused, Fail, CancelTwice, cycleOnly
  <2> QED
    BY <2>1, <2>2, StillSame, LeavesPair
<1>6. CASE CancelFails(s)
  <2>1. /\ NextPair(s) \/ server' = [server EXCEPT ![s] = IdleCycle]
        /\ unanswered' = unanswered \cup (server[s].asked \cap canceling) /\ quotes' = quotes /\ canceling' = canceling
    BY <1>6 DEF CancelFails
  <2>2. UNCHANGED <<officeVars, maker>>
    BY <1>6 DEF CancelFails, cycleOnly
  <2>3. Thins
    BY <2>1, StillEmpty DEF Book
  <2> QED
    BY <2>1, <2>2, <2>3, LeavesPair
<1>7. CASE ListOrders(s)
  <2>1. PICK rest : rest = OpenOrders(server[s].pair, server[s].control.account)
    OBVIOUS
  <2>2. CancelRest(s, rest) /\ UNCHANGED bookVars /\ server[s].pc \in {"list_orders", "cancel"}
    BY <1>7, <2>1 DEF ListOrders
  <2>3. UNCHANGED <<officeVars, maker>>
    BY <1>7 DEF ListOrders, cycleOnly
  <2>4. \A p \in Pairs, a \in MakerAccounts, x \in Quotes :
          AtPair(server[s], p, a) /\ Fits(x, server[s], BuysOf(quotes, p, a), p, a) /\ x \in BuysOf(quotes, p, a) => x \in rest
    BY <2>1 DEF OpenOrders, BuysOf, AtPair
  <2> QED
    BY <2>2, <2>3, <2>4, ListsWithin
<1>8. ASSUME NEW k \in Quotes, CancelPassed(s, k) PROVE InventoryInv'
  <2>1. PICK rest : rest = server[s].found \ {k}
    OBVIOUS
  <2>2. CancelRest(s, rest) /\ UNCHANGED bookVars /\ server[s].pc \in {"list_orders", "cancel"} /\ server[s].pc = "cancel" /\ k \notin quotes
    BY <1>8, <2>1 DEF CancelPassed
  <2>3. UNCHANGED <<officeVars, maker>>
    BY <1>8 DEF CancelPassed, cycleOnly
  <2>4. \A p \in Pairs, a \in MakerAccounts, x \in Quotes :
          AtPair(server[s], p, a) /\ Fits(x, server[s], BuysOf(quotes, p, a), p, a) /\ x \in BuysOf(quotes, p, a) => x \in rest
    BY <2>1, <2>2 DEF Fits, BuysOf
  <2> QED
    BY <2>2, <2>3, <2>4, ListsWithin
<1>9. CASE CancelConfirmed(s) \/ \E k \in Quotes : AskToCancel(s, k)
  BY <1>9, AsksWithin, ConfirmedWithin
<1>10. CASE PlaceOrder(s) \/ PlaceRejected(s) \/ PlaceFails(s)
  BY <1>10, PlacesWithin
<1> QED
  BY <1>1, <1>2, <1>3, <1>4, <1>5, <1>6, <1>7, <1>8, <1>9, <1>10 DEF Serve

\* Before anything was funded there is neither a quote in the book nor one on its way.
LEMMA NothingYet ==
  ASSUME InventoryInv, CycleInv, Funded = {}, NEW p, NEW a
  PROVE  BuysOf(quotes, p, a) = {} /\ BuysOf(canceling, p, a) = {} /\ Way(server, p, a) = {}
  BY DEF InventoryInv, DryUntilFunded, BuysOf, Way, OnWay, Book

\* A step of the officers: what was funded stays so, and a funding that is the first
\* finds nothing in the book.
LEMMA OfficeWithin ==
  ASSUME InventoryInv, CycleInv, OfficeInv, server' = server, UNCHANGED bookVars, Funded \subseteq Funded',
         Funded' = {} => control'.dry_run, maker' = maker \/ \E r \in Funded' : r \notin Funded
  PROVE  InventoryInv'
<1>0. quotes' = quotes /\ canceling' = canceling /\ unanswered' = unanswered
  BY DEF bookVars
<1>1. DryUntilFunded' /\ Chased'
  BY <1>0 DEF InventoryInv, DryUntilFunded, Chased, Book
<1>2. ASSUME NEW p \in Pairs, NEW a \in MakerAccounts PROVE OneEach(server, BuysOf(quotes, p, a), p, a)' /\ BoundKept(p, a)'
  <2>1. OneEach(server', BuysOf(quotes', p, a), p, a)
    BY <1>0 DEF InventoryInv
  <2>2. ASSUME OwnBase(p), Once(Funded')
        PROVE  Within(maker'[a][Base[p]], BuysOf(quotes, p, a), BuysOf(canceling, p, a), Way(server, p, a), BuysOf(unanswered, p, a))
    <3>1. Once(Funded)
      BY <2>2 DEF Once
    <3>2. CASE maker' = maker
      BY <2>2, <3>1, <3>2 DEF InventoryInv, BoundKept
    <3>3. CASE \E r \in Funded' : r \notin Funded
      <4>1. Funded = {}
        BY <2>2, <3>3 DEF Once
      <4> QED
        BY <4>1, NothingYet DEF Within
    <3> QED
      BY <3>2, <3>3
  <2> QED
    BY <1>0, <2>1, <2>2 DEF BoundKept, OwnBase
<1> QED
  BY <1>1, <1>2 DEF InventoryInv

\* What is released to live quoting was funded.
LEMMA ReleasedIsFunded == ASSUME OfficeInv, ReadyForLive PROVE Funded # {}
<1>1. PICK d : d = LatestDecision
  OBVIOUS
<1>2. d \in DOMAIN requests
  <2>1. decided \in Seq(DOMAIN requests) /\ decided # <<>>
    BY DEF OfficeInv, Decisions
  <2>2. Len(decided) \in 1..Len(decided)
    BY <2>1, LenProperties, EmptySeq
  <2>3. decided[Len(decided)] \in DOMAIN requests
    BY <2>1, <2>2, ElementOfSeq
  <2> QED
    BY <1>1, <2>1, <2>3 DEF LatestDecision, Last
<1>3. requests[d].input.action = "configure_dry_run" /\ configs # {} /\ Covered(configs, Inventory(d))
  BY <1>1 DEF ReadyForLive
<1>4. Inventory(d) # {}
  BY <1>3 DEF Covered
<1>5. requests[d].status = "approved"
  BY <1>4 DEF Inventory
<1> QED
  BY <1>2, <1>3, <1>5 DEF Funded

\* A proposal funds nothing.
LEMMA ProposesWithin == ASSUME InventoryInv, CycleInv, OfficeInv, NEW u, NEW in, Propose(u, in) PROVE InventoryInv'
<1> DEFINE q == [input |-> in, status |-> "pending", proposed_by |-> u, approved_by |-> "nobody"]
<1>1. requests' = Append(requests, q)
  BY DEF Propose
<1>2. q.status = "pending" /\ AnySeq(requests)
  BY DEF OfficeInv, Requested
<1> HIDE DEF q
<1>3. /\ Len(requests) \in Nat /\ DOMAIN requests = 1..Len(requests) /\ DOMAIN requests' = 1..(Len(requests) + 1)
      /\ \A i \in 1..Len(requests) : requests'[i] = requests[i]
      /\ requests'[Len(requests) + 1] = q
  BY <1>1, <1>2, AppendAny
<1>4. \A i \in DOMAIN requests : i \in DOMAIN requests' /\ requests'[i] = requests[i]
  BY <1>3
<1>5. \A i \in DOMAIN requests' : i \in DOMAIN requests \/ requests'[i] = q
  BY <1>3
<1>6. Funded' = Funded
  BY <1>2, <1>4, <1>5 DEF Funded
<1>7. server' = server /\ UNCHANGED bookVars /\ maker' = maker /\ control' = control
  BY DEF Propose
<1>8. Funded' = {} => control'.dry_run
  BY <1>6, <1>7 DEF InventoryInv, DryUntilFunded
<1> QED
  BY <1>6, <1>7, <1>8, OfficeWithin

\* An approval funds at most the request that it approves.
LEMMA ApprovesWithin ==
  ASSUME InventoryInv, CycleInv, OfficeInv, NEW u, NEW r \in DOMAIN requests, Approve(u, r)
  PROVE  InventoryInv'
<1>1. /\ DOMAIN requests' = DOMAIN requests
      /\ \A i \in DOMAIN requests : requests'[i].input = requests[i].input
      /\ \A i \in DOMAIN requests : i # r => requests'[i] = requests[i]
      /\ requests'[r].status = "approved" /\ requests[r].status = "pending"
  BY ApprovedRequest
<1>2. Funded \subseteq Funded' /\ r \notin Funded /\ server' = server /\ UNCHANGED bookVars
  BY <1>1 DEF Funded, Approve
<1>3. PICK in : in = requests[r].input
  OBVIOUS
<1>4. control \in Controls
  BY DEF OfficeInv
<1>5. CASE applyReferenceOnly(in)
  <2>1. control'.dry_run /\ maker' = maker
    BY <1>4, <1>5 DEF applyReferenceOnly, Controls
  <2> QED
    BY <1>2, <2>1, OfficeWithin
<1>6. CASE in.action = "configure_dry_run" /\ applyDryRun(in)
  <2>1. control'.dry_run
    BY <1>4, <1>6 DEF applyDryRun, Controls
  <2>2. r \in Funded'
    BY <1>1, <1>3, <1>6 DEF Funded
  <2> QED
    BY <1>2, <2>1, <2>2, OfficeWithin
<1>7. CASE applyLive
  <2>1. Funded' # {} /\ maker' = maker
    BY <1>2, <1>7, ReleasedIsFunded DEF applyLive
  <2> QED
    BY <1>2, <2>1, OfficeWithin
<1> QED
  BY <1>3, <1>5, <1>6, <1>7 DEF Approve

\* A fill: what was in the book is held.
LEMMA OneBoughtFilled ==
  ASSUME NEW h \in Int, NEW B, NEW C, NEW W, NEW U, IsFiniteSet(B), IsFiniteSet(C), IsFiniteSet(W), IsFiniteSet(U),
         NEW k \in B \cup C, Within(h, B, C, W, U)
  PROVE  Within(h + 1, B \ {k}, C \ {k}, W, U) /\ h + 1 <= MaxInventory + 2 * Cardinality(Servers) - 1 + Cardinality(U)
<1>1. PICK n \in Nat : n = Cardinality(Servers)
  BY FS_CardinalityType, MakerAssumption
<1>2. PICK b \in Nat : b = Cardinality(B)
  BY FS_CardinalityType
<1>3. PICK c \in Nat : c = Cardinality(C)
  BY FS_CardinalityType
<1>4. PICK w \in Nat : w = Cardinality(W)
  BY FS_CardinalityType
<1>5. PICK u \in Nat : u = Cardinality(U)
  BY FS_CardinalityType
<1>6. h + b + c + w <= MaxInventory - 1 + 2 * n + u /\ MaxInventory \in Nat
  BY <1>1, <1>2, <1>3, <1>4, <1>5, MakerAssumption DEF Within
<1>7. Cardinality(B \ {k}) = (IF k \in B THEN b - 1 ELSE b) /\ IsFiniteSet(B \ {k})
  BY <1>2, FS_RemoveElement
<1>8. Cardinality(C \ {k}) = (IF k \in C THEN c - 1 ELSE c) /\ IsFiniteSet(C \ {k})
  BY <1>3, FS_RemoveElement
<1>9. Cardinality(B \ {k}) \in Nat /\ Cardinality(C \ {k}) \in Nat
  BY <1>7, <1>8, FS_CardinalityType
<1>10. (h + 1) + Cardinality(B \ {k}) + Cardinality(C \ {k}) + w <= MaxInventory - 1 + 2 * n + u
  BY <1>6, <1>7, <1>8, <1>9
<1>11. h + 1 <= MaxInventory + 2 * n - 1 + u
  BY <1>6, <1>9, <1>10
<1> QED
  BY <1>1, <1>4, <1>5, <1>10, <1>11 DEF Within

\* Only a quote of the pair and the account that buys adds to what is held of its base asset.
LEMMA FillMoves ==
  ASSUME OfficeInv, NEW k \in Quotes, Fill(k), NEW p \in Pairs, NEW a \in MakerAccounts, OwnBase(p)
  PROVE  /\ maker[a][Base[p]] \in Int
         /\ k \in BuysOf(Book, p, a) => maker'[a][Base[p]] = maker[a][Base[p]] + 1
         /\ k \notin BuysOf(Book, p, a) => maker'[a][Base[p]] \in Int /\ maker'[a][Base[p]] <= maker[a][Base[p]]
<1>1. k[1] \in Pairs /\ k[3] \in Sides /\ k[4] \in MakerAccounts /\ k \in Book
  BY DEF Quotes, Fill, Book
<1>2. PICK b \in MakerAssets : b = Base[k[1]]
  BY <1>1, MakerAssumption
<1>3. PICK q \in MakerAssets : q = Quote[k[1]]
  BY <1>1, MakerAssumption
<1>4. PICK x \in MakerAssets : x = Base[p]
  BY MakerAssumption
<1>5. PICK d \in {1, -1} : d = IF k[3] = "BUY" THEN 1 ELSE -1
  OBVIOUS
<1>6. maker' = [maker EXCEPT ![k[4]][b] = @ + d, ![k[4]][q] = @ - d] /\ maker \in [MakerAccounts -> [MakerAssets -> Int]]
  BY <1>2, <1>3, <1>5 DEF Fill, OfficeInv, Held
<1>7. q # x /\ (b = x <=> k[1] = p)
  BY <1>1, <1>2, <1>3, <1>4 DEF OwnBase
<1>8. maker'[a][x] = IF b = x /\ k[4] = a THEN maker[a][x] + d ELSE maker[a][x]
  <2>1. CASE k[4] # a
    BY <1>1, <1>6, <2>1
  <2>2. CASE k[4] = a
    <3>1. PICK m \in [MakerAssets -> Int] : m = maker[a]
      BY <1>6
    <3>2. maker'[a] = [m EXCEPT ![b] = @ + d, ![q] = @ - d]
      BY <1>1, <1>6, <2>2, <3>1
    <3> QED
      BY <1>7, <2>2, <3>1, <3>2
  <2> QED
    BY <2>1, <2>2
<1>9. k \in BuysOf(Book, p, a) <=> b = x /\ k[4] = a /\ d = 1
  BY <1>1, <1>5, <1>7 DEF BuysOf
<1>10. maker[a][x] \in Int /\ (d = 1 \/ d = -1)
  BY <1>6
<1>11. CASE k \in BuysOf(Book, p, a)
  BY <1>4, <1>8, <1>9, <1>10, <1>11
<1>12. CASE k \notin BuysOf(Book, p, a)
  <2>1. maker'[a][x] \in Int /\ maker'[a][x] <= maker[a][x]
    BY <1>8, <1>9, <1>10, <1>12
  <2> QED
    BY <1>4, <1>10, <1>12, <2>1
<1> QED
  BY <1>11, <1>12

\* Every quote that is filled leaves the book.
LEMMA FillsWithin == ASSUME InventoryInv, CycleInv, OfficeInv, NEW k \in Quotes, Fill(k) PROVE InventoryInv'
<1>1. quotes' = quotes \ {k} /\ canceling' = canceling \ {k} /\ unanswered' = unanswered /\ server' = server /\ UNCHANGED officeVars
  BY DEF Fill
<1>2. Funded' = Funded /\ control' = control
  BY <1>1 DEF Funded, officeVars
<1>3. DryUntilFunded' /\ Chased'
  BY <1>1, <1>2 DEF InventoryInv, DryUntilFunded, Chased, Book
<1>4. ASSUME NEW p \in Pairs, NEW a \in MakerAccounts PROVE OneEach(server, BuysOf(quotes, p, a), p, a)' /\ BoundKept(p, a)'
  <2> DEFINE h == maker[a][Base[p]]
             B == BuysOf(quotes, p, a)
             C == BuysOf(canceling, p, a)
             W == Way(server, p, a)
             U == BuysOf(unanswered, p, a)
             h1 == maker'[a][Base[p]]
  <2>1. BuysOf(quotes', p, a) = B \ {k} /\ BuysOf(canceling', p, a) = C \ {k} /\ (k \in BuysOf(Book, p, a) <=> k \in B \cup C)
    BY <1>1 DEF BuysOf, Book
  <2>2. OneEach(server, B, p, a)
    BY DEF InventoryInv
  <2>3. h \in Int /\ IsFiniteSet(B) /\ IsFiniteSet(C) /\ IsFiniteSet(W) /\ IsFiniteSet(U)
    BY Counts
  <2>4. ASSUME OwnBase(p), Once(Funded)
        PROVE  /\ Within(h, B, C, W, U)
               /\ k \in B \cup C => h1 = h + 1
               /\ k \notin B \cup C => h1 \in Int /\ h1 <= h
    BY <2>1, <2>4, FillMoves DEF InventoryInv, BoundKept
  <2> HIDE DEF h, B, C, W, U, h1
  <2>5. OneEach(server, B \ {k}, p, a)
    <3>1. PICK g \in [Servers -> Quotes] : Holders(g, server, B, p, a)
      BY <2>2 DEF OneEach
    <3>2. B \ {k} \in SUBSET B
      OBVIOUS
    <3>3. Holders(g, server, B \ {k}, p, a)
      BY <3>1, <3>2, FewerFit DEF Holders
    <3> QED
      BY <3>3 DEF OneEach
  <2>6. ASSUME OwnBase(p), Once(Funded) PROVE Within(h1, B \ {k}, C \ {k}, W, U)
    <3>4. CASE k \in B \cup C
      <4>1. Within(h + 1, B \ {k}, C \ {k}, W, U)
        BY <2>3, <2>4, <2>6, <3>4, OneBoughtFilled
      <4> QED
        BY <2>4, <2>6, <3>4, <4>1
    <3>5. CASE k \notin B \cup C
      <4>1. PICK B1 : B1 = B \ {k}
        OBVIOUS
      <4>2. PICK C1 : C1 = C \ {k}
        OBVIOUS
      <4>3. B1 \in SUBSET B /\ C1 \in SUBSET C /\ W \in SUBSET W /\ U \in SUBSET U /\ Within(h, B, C, W, U) /\ h1 \in Int /\ h1 <= h
        BY <2>4, <2>6, <3>5, <4>1, <4>2
      <4>4. Within(h1, B1, C1, W, U)
        BY <2>3, <4>3, WithinLess
      <4> QED
        BY <4>1, <4>2, <4>4
    <3> QED
      BY <3>4, <3>5
  <2>7. OwnBase(p) /\ Once(Funded) => Within(h1, B \ {k}, C \ {k}, W, U)
    BY <2>6
  <2>8. BoundKept(p, a)'
    BY <1>1, <1>2, <2>1, <2>7 DEF BoundKept, OwnBase, h, B, C, W, U, h1
  <2> QED
    BY <1>1, <2>1, <2>5, <2>8 DEF B
<1> QED
  BY <1>3, <1>4 DEF InventoryInv

\* Every step keeps the bound.
LEMMA InventoryStep == InventoryInv /\ CycleInv /\ OfficeInv /\ [MakerNext]_makerVars => InventoryInv'
<1> SUFFICES ASSUME InventoryInv, CycleInv, OfficeInv, [MakerNext]_makerVars PROVE InventoryInv'
  OBVIOUS
<1>1. ASSUME NEW u, Officer(u) PROVE InventoryInv'
  <2>1. ASSUME NEW in, Propose(u, in) PROVE InventoryInv'
    BY <2>1, ProposesWithin
  <2>2. ASSUME NEW r \in DOMAIN requests, Approve(u, r) PROVE InventoryInv'
    BY <2>2, ApprovesWithin
  <2>3. CASE EmergencyStop(u)
    <3>1. server' = server /\ UNCHANGED bookVars /\ maker' = maker /\ requests' = requests
      BY <2>3 DEF EmergencyStop
    <3>2. control \in Controls /\ control' = [control EXCEPT !.kill_switch = TRUE]
      BY <2>3 DEF EmergencyStop, OfficeInv
    <3>3. control'.dry_run = control.dry_run
      BY <3>2 DEF Controls
    <3>4. Funded' = Funded
      BY <3>1 DEF Funded
    <3>5. Funded' = {} => control'.dry_run
      BY <3>3, <3>4 DEF InventoryInv, DryUntilFunded
    <3> QED
      BY <3>1, <3>4, <3>5, OfficeWithin
  <2> QED
    BY <1>1, <2>1, <2>2, <2>3 DEF Officer, ProposeResume, ProposeFundedDryRun
<1>2. ASSUME NEW s \in Servers, Serve(s) \/ Fail(s) PROVE InventoryInv'
  BY <1>2, ServesWithin
<1>3. ASSUME NEW k \in Quotes, Fill(k) PROVE InventoryInv'
  BY <1>3, FillsWithin
<1>4. CASE Tick \/ (\E a \in MakerAccounts : Suspend(a)) \/ UNCHANGED makerVars
  <2>1. UNCHANGED <<control, requests, maker, bookVars, server>>
    BY <1>4 DEF Tick, Suspend, makerVars, officeVars
  <2>2. Funded' = Funded
    BY <2>1 DEF Funded
  <2>3. Funded' = {} => control'.dry_run
    BY <2>1, <2>2 DEF InventoryInv, DryUntilFunded
  <2> QED
    BY <2>1, <2>2, <2>3, OfficeWithin
<1> QED
  BY <1>1, <1>2, <1>3, <1>4 DEF MakerNext

\* A set with at most one member.
LEMMA AtMostOnce == ASSUME OfficeInv, Cardinality(Funded) <= 1 PROVE Once(Funded)
<1>1. AnySeq(requests)
  BY DEF OfficeInv, Requested
<1>2. Len(requests) \in Nat /\ DOMAIN requests = 1..Len(requests)
  BY <1>1, LenProperties DEF AnySeq
<1>3. IsFiniteSet(DOMAIN requests) /\ Funded \in SUBSET DOMAIN requests
  BY <1>2, FS_Interval DEF Funded
<1>4. IsFiniteSet(Funded)
  BY <1>3, FS_Subset
<1>5. ASSUME NEW r \in Funded, NEW t \in Funded, r # t PROVE FALSE
  <2>1. PICK F : F = Funded
    OBVIOUS
  <2>2. IsFiniteSet(F) /\ IsFiniteSet(F \ {r}) /\ Cardinality(F \ {r}) = Cardinality(F) - 1 /\ t \in F \ {r}
    BY <1>4, <1>5, <2>1, FS_RemoveElement
  <2>3. Cardinality(F) \in Nat /\ Cardinality(F \ {r}) \in Nat /\ Cardinality(F \ {r}) # 0
    BY <2>2, FS_CardinalityType, FS_EmptySet
  <2> QED
    BY <2>1, <2>2, <2>3
<1> QED
  BY <1>5 DEF Once

\* Only a funding or a fill gives the market maker more of an asset.
LEMMA MoreByFill ==
  ASSUME OfficeInv, MakerNext, NEW p \in Pairs, NEW acc \in MakerAccounts, maker'[acc][Base[p]] > maker[acc][Base[p]], treasury' = treasury
  PROVE  \E k \in Quotes : Fill(k)
<1>1. PICK a \in MakerAssets : a = Base[p]
  BY MakerAssumption
<1>2. maker[acc][a] \in Int /\ ~(maker[acc][a] > maker[acc][a])
  BY DEF OfficeInv, Held
<1>3. maker' # maker
  BY <1>1, <1>2
<1>4. ASSUME NEW u, NEW r \in DOMAIN requests, Approve(u, r) PROVE FALSE
  <2>1. PICK in : in = requests[r].input
    OBVIOUS
  <2>2. IsInput(in)
    BY <2>1 DEF OfficeInv, Requested, IsRequest
  <2>3. applyDryRun(in)
    BY <1>3, <1>4, <2>1 DEF Approve, applyReferenceOnly, applyLive
  <2>4. PICK v \in Nat : v = Given(in, a)
    BY <2>2 DEF IsInput, Given
  <2>5. treasury'[a] = treasury[a] - v
    BY <2>3, <2>4 DEF applyDryRun
  <2>6. treasury[a] \in Nat
    BY DEF OfficeInv, Held
  <2>7. v = 0
    BY <2>5, <2>6
  <2>8. maker \in [MakerAccounts -> [MakerAssets -> Int]] /\ in.account \in MakerAccounts
    BY <2>2 DEF OfficeInv, Held, IsInput
  <2>9. PICK m : m = [x \in MakerAssets |-> maker[in.account][x] + Given(in, x)]
    OBVIOUS
  <2>10. maker' = [maker EXCEPT ![in.account] = m]
    BY <2>3, <2>9 DEF applyDryRun
  <2>11. m[a] = maker[in.account][a] + v
    BY <2>4, <2>9
  <2>12. maker'[acc][a] = maker[acc][a]
    <3>1. CASE acc = in.account
      BY <1>2, <2>7, <2>8, <2>10, <2>11, <3>1
    <3>2. CASE acc # in.account
      BY <2>8, <2>10, <3>2
    <3> QED
      BY <3>1, <3>2
  <2> QED
    BY <1>1, <1>2, <2>12
<1>5. ASSUME NEW u, Officer(u) PROVE FALSE
  BY <1>3, <1>4, <1>5 DEF Officer, Propose, ProposeResume, ProposeFundedDryRun, EmergencyStop
<1>6. ASSUME NEW s \in Servers, Serve(s) \/ Fail(s) PROVE FALSE
  BY <1>3, <1>6, ServeTouches
<1>7. CASE Tick \/ \E a1 \in MakerAccounts : Suspend(a1)
  BY <1>3, <1>7 DEF Tick, Suspend
<1> QED
  BY <1>5, <1>6, <1>7 DEF MakerNext

\* What the market maker buys is bounded by the limit, two units for every API process
\* and one for every cancellation that was not confirmed: every process has one quote
\* that is open, and one that it is about to place or that it waits to see the end of,
\* although checkRisk reads the inventory before the old quotes are cancelled and every
\* process reads it for itself; for any number of processes, pairs, accounts and slots.
THEOREM BuyingIsBounded == MakerSpec => InventoryBounded
<1>1. InventoryInv /\ CycleInv /\ OfficeInv /\ [MakerNext]_makerVars
      => [\A p \in Pairs, a \in MakerAccounts :
            /\ OwnBase(p) /\ Cardinality(Funded) <= 1
            /\ maker'[a][Base[p]] > maker[a][Base[p]] /\ treasury' = treasury
            => maker'[a][Base[p]] <= MaxInventory + 2 * Cardinality(Servers) - 1 + Cardinality(BuysOf(unanswered, p, a))]_makerVars
  <2> SUFFICES ASSUME InventoryInv, CycleInv, OfficeInv, MakerNext, NEW p \in Pairs, NEW a \in MakerAccounts, OwnBase(p), Cardinality(Funded) <= 1,
                      maker'[a][Base[p]] > maker[a][Base[p]], treasury' = treasury
               PROVE  maker'[a][Base[p]] <= MaxInventory + 2 * Cardinality(Servers) - 1 + Cardinality(BuysOf(unanswered, p, a))
    OBVIOUS
  <2>1. PICK k \in Quotes : Fill(k)
    BY MoreByFill
  <2> DEFINE h == maker[a][Base[p]]
             B == BuysOf(quotes, p, a)
             C == BuysOf(canceling, p, a)
             W == Way(server, p, a)
             U == BuysOf(unanswered, p, a)
             h1 == maker'[a][Base[p]]
  <2>2. h \in Int /\ (k \in BuysOf(Book, p, a) => h1 = h + 1) /\ (k \notin BuysOf(Book, p, a) => h1 \in Int /\ h1 <= h) /\ h1 > h
    BY <2>1, FillMoves
  <2>3. k \in B \cup C /\ h1 = h + 1
    <3>1. h1 = h + 1 /\ k \in BuysOf(Book, p, a)
      BY <2>2
    <3> QED
      BY <3>1 DEF BuysOf, Book
  <2>4. Within(h, B, C, W, U)
    BY AtMostOnce DEF InventoryInv, BoundKept
  <2>5. IsFiniteSet(B) /\ IsFiniteSet(C) /\ IsFiniteSet(W) /\ IsFiniteSet(U)
    BY Counts
  <2> HIDE DEF h, B, C, W, U, h1
  <2>6. h + 1 <= MaxInventory + 2 * Cardinality(Servers) - 1 + Cardinality(U)
    BY <2>2, <2>3, <2>4, <2>5, OneBoughtFilled
  <2> QED
    BY <2>3, <2>6 DEF h, U, h1
<1>2. InventoryInv /\ CycleInv /\ OfficeInv /\ [MakerNext]_makerVars => InventoryInv'
  BY InventoryStep
<1> QED
  BY <1>1, <1>2, InventoryInit, CycleInvariance, MakerInvariance, PTL DEF MakerSpec, InventoryBounded
=============================================================================
