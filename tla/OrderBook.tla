------------------------------ MODULE OrderBook ------------------------------
(***************************************************************************)
(* The matching core of the C++ engine: class OrderBook of                 *)
(* engine/src/order_book.cpp.  One worker thread owns a book, so nothing   *)
(* interleaves with submit() or cancel(); the matching loop of submit() is *)
(* nevertheless modelled one iteration at a time, because every property   *)
(* of the book has to hold between two fills as well.  While pc = "match"  *)
(* the only enabled actions are those of the running submit().             *)
(*                                                                         *)
(* What is kept: the order pool with its free list (slots are recycled),   *)
(* the id index, the two price maps of FIFO queues of slots, the ids seen, *)
(* the counter of live orders, all rejections and the order of effects.    *)
(* What is left out: user ids, fee tiers, timestamps and average prices,   *)
(* which no decision of the book depends on.                               *)
(***************************************************************************)
EXTENDS Integers, Sequences, FiniteSets, FiniteSetsExt, SequencesExt

CONSTANTS
  OrderIds,   \* the ids commands carry
  Prices,     \* the price levels, positive
  MaxQty,     \* largest quantity of a command
  Commands,   \* the order commands that may arrive
  Capacity,   \* number of slots of the order pool
  U64Max      \* largest value of a quantity total, std::uint64_t in the code

Sides    == {"buy", "sell"}
Slots    == 1..Capacity
Command  == [id: OrderIds, side: Sides, type: {"limit", "market"},
             tif: {"gtc", "ioc", "fok"}, price: Prices \cup {0},
             qty: 0..MaxQty, post_only: BOOLEAN]

ASSUME PricesAssumption   == Prices \subseteq Nat \ {0}
ASSUME QtyAssumption      == MaxQty \in Nat /\ U64Max \in Nat /\ MaxQty <= U64Max
ASSUME CapacityAssumption == Capacity \in Nat
ASSUME CommandAssumption  == Commands \subseteq Command

VARIABLES
  storage,      \* storage_: slot -> order
  free_slots,   \* free_slots_: stack of slots, the back is taken first
  by_id,        \* by_id_: set of <<id, slot>> entries of the index
  seen_ids,     \* seen_ids_
  levels,       \* bids_ and asks_: side -> price -> queue of slots
  live_orders,  \* live_orders_
  book_sequence,\* book_sequence_, the sequence of the depth snapshot() shows
  pc,           \* "idle", or "match" inside submit()
  incoming,     \* slot of the order being matched
  trades,       \* every Trade emitted; trade_sequence_ is its length
  statuses      \* every OrderStatus emitted; status_sequence_ is its length

vars == <<storage, free_slots, by_id, seen_ids, levels, live_orders,
          book_sequence, pc, incoming, trades, statuses>>

Status == {"open", "partial", "filled", "canceled", "rejected"}

\* A default-constructed OrderCommand: what an unused slot holds.
EmptyCommand == [id |-> "", side |-> "buy", type |-> "limit", tif |-> "gtc",
                 price |-> 0, qty |-> 0, post_only |-> FALSE]

Order == [command: Commands \cup {EmptyCommand}, remaining: 0..MaxQty, status: Status]

-----------------------------------------------------------------------------
Opposite(side) == IF side = "buy" THEN "sell" ELSE "buy"

\* Price levels with at least one order: the keys of the std::map.
LevelPrices(side) == {p \in Prices : levels[side][p] # <<>>}

\* The slots waiting at a level.
QueuedAt(side, p) == Range(levels[side][p])

\* A price the command is willing to trade at.
Acceptable(c, p) ==
  \/ c.type = "market"
  \/ c.side = "buy"  /\ p <= c.price
  \/ c.side = "sell" /\ p >= c.price

\* Mistake: the bid map ordered like the ask map.
IsBest_BidsAscending(side, p) ==
  /\ p \in LevelPrices(side)
  /\ \A q \in LevelPrices(side) : p <= q

\* levels.begin(): the highest bid, the lowest ask.
IsBest(side, p) ==
  /\ p \in LevelPrices(side)
  /\ \A q \in LevelPrices(side) : IF side = "buy" THEN q <= p ELSE p <= q

valid(c) ==
  /\ c.qty > 0
  /\ c.type = "market" \/ c.price > 0
  /\ ~(c.type = "market" /\ c.tif = "gtc")
  /\ ~(c.type = "market" /\ c.post_only)

\* Mistake: equal prices do not cross.
crosses_Strict(c) ==
  \E p \in LevelPrices(Opposite(c.side)) : Acceptable(c, p) /\ p # c.price

crosses(c) == \E p \in LevelPrices(Opposite(c.side)) : Acceptable(c, p)

\* The quantity the orders in the slots S have left; an order waits once, so
\* the slots of a queue stand for the queue.
Quantity(S) == SumFunctionOnSet([s \in Slots |-> storage[s].remaining], S)

LevelQuantity(side, p) == Quantity(QueuedAt(side, p))

\* The orders of the other side at a price the command is willing to trade at.
Offers(c) ==
  UNION {QueuedAt(Opposite(c.side), p) : p \in {q \in LevelPrices(Opposite(c.side)) : Acceptable(c, q)}}

\* Mistake: levels beyond the limit price are counted too.
executable_quantity_AllLevels(c) ==
  LET total == Quantity(UNION {QueuedAt(Opposite(c.side), p) : p \in LevelPrices(Opposite(c.side))})
  IN IF total > U64Max THEN U64Max ELSE total

\* The saturating total of the opposite quantity the command could take.
executable_quantity(c) ==
  IF Quantity(Offers(c)) > U64Max THEN U64Max ELSE Quantity(Offers(c))

\* Mistake: the quantity still open is reported as filled.
StatusEvent_Swapped(c, status, remaining) ==
  [id |-> c.id, status |-> status, filled |-> remaining, remaining |-> c.qty - remaining]

StatusEvent(c, status, remaining) ==
  [id |-> c.id, status |-> status, filled |-> c.qty - remaining, remaining |-> remaining]

-----------------------------------------------------------------------------
Init ==
  /\ storage = [s \in Slots |-> [command |-> EmptyCommand, remaining |-> 0, status |-> "open"]]
  /\ free_slots = [i \in Slots |-> Capacity + 1 - i]
  /\ by_id = {}
  /\ seen_ids = {}
  /\ levels = [side \in Sides |-> [p \in Prices |-> <<>>]]
  /\ live_orders = 0
  /\ book_sequence = 0
  /\ pc = "idle"
  /\ incoming = 0
  /\ trades = <<>>
  /\ statuses = <<>>

\* submit() of an id already seen: Result.duplicate, no effect.
SubmitDuplicate(c) ==
  /\ pc = "idle"
  /\ c.id \in seen_ids
  /\ UNCHANGED vars

MustReject(c) ==
  \/ ~valid(c)
  \/ free_slots = <<>>
  \/ c.post_only /\ crosses(c)
  \/ c.tif = "fok" /\ executable_quantity(c) < c.qty

\* The early returns of submit(): the id is consumed, nothing is stored.
SubmitReject(c) ==
  /\ pc = "idle"
  /\ c.id \notin seen_ids
  /\ MustReject(c)
  /\ seen_ids' = seen_ids \cup {c.id}
  /\ statuses' = Append(statuses, StatusEvent(c, "rejected", c.qty))
  /\ UNCHANGED <<storage, free_slots, by_id, levels, live_orders, book_sequence, pc,
                 incoming, trades>>

\* acquire(), the id index, and the start of match().
SubmitAccept(c) ==
  /\ pc = "idle"
  /\ c.id \notin seen_ids
  /\ ~MustReject(c)
  /\ LET slot == free_slots[Len(free_slots)] IN
       /\ storage' = [storage EXCEPT ![slot] =
                        [command |-> c, remaining |-> c.qty, status |-> "open"]]
       /\ by_id' = by_id \cup {<<c.id, slot>>}
       /\ incoming' = slot
  /\ free_slots' = SubSeq(free_slots, 1, Len(free_slots) - 1)
  /\ seen_ids' = seen_ids \cup {c.id}
  /\ live_orders' = live_orders + 1
  /\ pc' = "match"
  /\ UNCHANGED <<levels, book_sequence, trades, statuses>>

Taker == storage[incoming]

\* Mistake: release() forgets the id index.
ReleaseId_Keep(id) == by_id

\* release(): the id leaves the index, the slot returns to the free stack.
ReleaseId(id)     == {e \in by_id : e[1] # id}

FillQuantity(taker, maker) == Min({taker.remaining, maker.remaining})

\* One iteration of the inner loop of match(): the front of the best level.
MatchOne ==
  /\ pc = "match"
  /\ Taker.remaining > 0
  /\ \E p \in Prices :
       LET side  == Opposite(Taker.command.side)
           queue == levels[side][p]
           slot  == queue[1]
           maker == storage[slot]
           fill  == FillQuantity(Taker, maker)
           left  == maker.remaining - fill
           state == IF left = 0 THEN "filled" ELSE "partial"
       IN
       /\ IsBest(side, p)
       /\ Acceptable(Taker.command, p)
       /\ storage' = [storage EXCEPT ![incoming].remaining = @ - fill,
                                     ![slot].remaining = left,
                                     ![slot].status = state]
       /\ trades' = Append(trades, [maker |-> maker.command.id, taker |-> Taker.command.id,
                                    price |-> p, qty |-> fill])
       /\ statuses' = Append(statuses, StatusEvent(maker.command, state, left))
       /\ IF left = 0
          THEN /\ levels' = [levels EXCEPT ![side][p] = Tail(queue)]
               /\ live_orders' = live_orders - 1
               /\ by_id' = ReleaseId(maker.command.id)
               /\ free_slots' = Append(free_slots, slot)
          ELSE UNCHANGED <<levels, live_orders, by_id, free_slots>>
  /\ book_sequence' = book_sequence + 1
  /\ UNCHANGED <<seen_ids, pc, incoming>>

\* The loop of match() is over.
MatchDone == pc = "match" /\ (Taker.remaining = 0 \/ ~crosses(Taker.command))

\* rest() refuses an order that would overflow the quantity of its level.
LevelFits(o) ==
  LevelQuantity(o.command.side, o.command.price) + o.remaining <= U64Max

\* submit() leaves with the incoming order out of the book.
Discard(status) ==
  /\ storage' = [storage EXCEPT ![incoming].status = status]
  /\ statuses' = Append(statuses, StatusEvent(Taker.command, status, Taker.remaining))
  /\ live_orders' = live_orders - 1
  /\ by_id' = ReleaseId(Taker.command.id)
  /\ free_slots' = Append(free_slots, incoming)
  /\ pc' = "idle"
  /\ incoming' = 0
  /\ UNCHANGED <<seen_ids, levels, book_sequence, trades>>

FinishFilled ==
  /\ MatchDone
  /\ Taker.remaining = 0
  /\ Discard("filled")

Rests == Taker.command.tif = "gtc" /\ LevelFits(Taker)

FinishRest ==
  /\ MatchDone
  /\ Taker.remaining > 0
  /\ Rests
  /\ LET c      == Taker.command
         status == IF Taker.remaining = c.qty THEN "open" ELSE "partial"
     IN
     /\ levels' = [levels EXCEPT ![c.side][c.price] = Append(@, incoming)]
     /\ storage' = [storage EXCEPT ![incoming].status = status]
     /\ statuses' = Append(statuses, StatusEvent(c, status, Taker.remaining))
  /\ book_sequence' = book_sequence + 1
  /\ pc' = "idle"
  /\ incoming' = 0
  /\ UNCHANGED <<free_slots, by_id, seen_ids, live_orders, trades>>

FinishDiscard ==
  /\ MatchDone
  /\ Taker.remaining > 0
  /\ ~Rests
  /\ Discard(IF Taker.remaining = Taker.command.qty THEN "rejected" ELSE "canceled")

Cancelable(o) == o.remaining # 0 /\ o.status \notin {"canceled", "rejected"}

\* remove() and the increment of book_sequence_ that follows it.
remove(slot, c) ==
  /\ \E i \in DOMAIN levels[c.side][c.price] :
       /\ levels[c.side][c.price][i] = slot
       /\ levels' = [levels EXCEPT ![c.side][c.price] = RemoveAt(@, i)]
  /\ book_sequence' = book_sequence + 1

\* cancel() of an order in the index, release() included.
Cancel(id) ==
  /\ pc = "idle"
  /\ \E e \in by_id :
       LET slot == e[2]
           o    == storage[slot]
           c    == o.command
       IN
       /\ e[1] = id
       /\ Cancelable(o)
       /\ remove(slot, c)
       /\ storage' = [storage EXCEPT ![slot].status = "canceled"]
       /\ statuses' = Append(statuses, StatusEvent(c, "canceled", o.remaining))
       /\ live_orders' = live_orders - 1
       /\ by_id' = ReleaseId(c.id)
       /\ free_slots' = Append(free_slots, slot)
  /\ UNCHANGED <<seen_ids, pc, incoming, trades>>

\* cancel() of an id that is not open: an empty Result.
CancelUnknown(id) ==
  /\ pc = "idle"
  /\ ~\E e \in by_id : e[1] = id /\ Cancelable(storage[e[2]])
  /\ UNCHANGED vars

Next ==
  \/ \E c \in Commands : SubmitDuplicate(c) \/ SubmitReject(c) \/ SubmitAccept(c)
  \/ MatchOne
  \/ FinishFilled \/ FinishRest \/ FinishDiscard
  \/ \E id \in OrderIds : Cancel(id) \/ CancelUnknown(id)

Spec == Init /\ [][Next]_vars
-----------------------------------------------------------------------------
(* Properties. *)

\* Every variable stays in its type; live_orders_ never leaves 0..capacity.
TypeOK ==
  /\ storage \in [Slots -> Order]
  /\ free_slots \in Seq(Slots)
  /\ by_id \subseteq OrderIds \X Slots
  /\ seen_ids \subseteq OrderIds
  /\ levels \in [Sides -> [Prices -> Seq(Slots)]]
  /\ live_orders \in 0..Capacity
  /\ book_sequence \in Nat
  /\ pc \in {"idle", "match"}
  /\ incoming \in Slots \cup {0}
  /\ trades \in Seq([maker: OrderIds, taker: OrderIds, price: Prices, qty: 1..MaxQty])
  /\ statuses \in Seq([id: OrderIds, status: Status, filled: 0..MaxQty, remaining: 0..MaxQty])

\* The book is never crossed, not even between two fills: match() consumes
\* every acceptable level before rest() may add the order to its own side.
NotCrossed ==
  \A bid \in LevelPrices("buy"), ask \in LevelPrices("sell") : bid < ask

Queued == UNION {QueuedAt(side, p) : side \in Sides, p \in Prices}

\* The slots that hold an order of the book or the order being matched.
Used == Queued \cup (IF pc = "match" THEN {incoming} ELSE {})

\* The free stack holds exactly the slots not in use, each once.
FreeStackExact == IsInjective(free_slots) /\ Range(free_slots) = Slots \ Used

\* Each queued order waits once, at the level of its own side and price, and
\* has quantity left; the order being matched is not queued yet.
QueuesExact ==
  /\ \A side \in Sides, p \in Prices :
       /\ IsInjective(levels[side][p])
       /\ \A s \in QueuedAt(side, p) :
            /\ storage[s].command.side = side /\ storage[s].command.price = p
            /\ storage[s].remaining > 0
            /\ storage[s].status \in {"open", "partial"}
  /\ incoming \notin Queued

\* The id index finds the orders in use and nothing else.
IndexExact == by_id = {<<storage[s].command.id, s>> : s \in Used}

\* The pool never hands out a slot in use and the index never dangles, over any
\* sequence of submits, fills and cancels that recycle slots.
PoolConsistent ==
  FreeStackExact /\ QueuesExact /\ IndexExact /\ live_orders = Cardinality(Used)

Traded(id) ==
  SumFunctionOnSet([i \in DOMAIN trades |-> IF id \in {trades[i].maker, trades[i].taker} THEN trades[i].qty ELSE 0],
                   DOMAIN trades)

Terminal == {"filled", "canceled", "rejected"}

\* What the gateway is told adds up: after a terminal status an order is never
\* reported again, the reported fill never shrinks, and between commands the
\* last report of every order is exactly the quantity it has traded.
ReportsAddUp ==
  /\ \A i, j \in DOMAIN statuses :
       i < j /\ statuses[i].id = statuses[j].id
         => statuses[i].status \notin Terminal /\ statuses[i].filled <= statuses[j].filled
  /\ pc = "idle" =>
       \A i \in DOMAIN statuses :
         (\A j \in DOMAIN statuses : j > i => statuses[j].id # statuses[i].id)
           => statuses[i].filled = Traded(statuses[i].id)

\* A fill-or-kill order leaves submit() filled completely or not at all: what
\* executable_quantity() counted before the loop is what match() consumes.
FillOrKill ==
  [][pc = "match" /\ pc' = "idle" /\ Taker.command.tif = "fok"
       => Taker.remaining \in {0, Taker.command.qty}]_vars

\* A post-only order never takes liquidity.
PostOnlyNeverTakes ==
  pc = "match" /\ Taker.command.post_only => Taker.remaining = Taker.command.qty

\* When an order came to rest, its first report was emitted.
Arrived(id) == CHOOSE i \in DOMAIN statuses :
                 /\ statuses[i].id = id
                 /\ \A j \in DOMAIN statuses : statuses[j].id = id => i <= j

\* Price-time priority: whenever a trade happens, every other order resting on
\* the maker's side has a worse price, or the same price and came later.
PriceTimePriority ==
  [][Len(trades') > Len(trades) =>
       LET t    == trades'[Len(trades')]
           side == Opposite(Taker.command.side)
       IN \A p \in LevelPrices(side) : \A s \in QueuedAt(side, p) :
            LET other == storage[s].command.id IN
            \/ other = t.maker
            \/ side = "buy"  /\ p < t.price
            \/ side = "sell" /\ p > t.price
            \/ p = t.price /\ Arrived(t.maker) < Arrived(other)]_vars
=============================================================================
