-------------------------- MODULE OrderBookProofs --------------------------
(***************************************************************************)
(* Machine-checked proofs about OrderBook, for every pool capacity, price  *)
(* set, quantity bound and set of commands.                                *)
(*                                                                         *)
(* Inv is about the book itself: slots, queues, index, prices.  ReportInv  *)
(* adds what was told of its orders, and KillInv what a fill-or-kill order *)
(* finds on offer; both are proved over Inv.                               *)
(***************************************************************************)
EXTENDS OrderBook, SumLemmas, SequenceTheorems

-----------------------------------------------------------------------------
(* Queues and stacks as sets of slots. *)

\* push_back of a slot that is not there yet.
LEMMA AppendRange ==
  ASSUME NEW S, NEW q \in Seq(S), NEW e \in S, IsInjective(q), e \notin Range(q)
  PROVE  /\ Append(q, e) \in Seq(S)
         /\ IsInjective(Append(q, e))
         /\ Range(Append(q, e)) = Range(q) \cup {e}
<1>1. /\ Append(q, e) \in Seq(S)
      /\ DOMAIN Append(q, e) = 1..(Len(q) + 1)
      /\ \A i \in 1..Len(q) : Append(q, e)[i] = q[i]
      /\ Append(q, e)[Len(q) + 1] = e
  BY AppendProperties, LenProperties
<1>2. DOMAIN q = 1..Len(q) /\ Len(q) \in Nat
  BY LenProperties
<1>3. QED
  BY <1>1, <1>2 DEF IsInjective, Range

\* r is q, of length n and without repetitions, less its position k.
Drops(q, r, n, k) ==
  /\ n \in Nat /\ k \in 1..n
  /\ DOMAIN q = 1..n /\ DOMAIN r = 1..(n - 1)
  /\ IsInjective(q)
  /\ \A i \in 1..(n - 1) : r[i] = IF i < k THEN q[i] ELSE q[i + 1]

\* One position dropped from a sequence without repetitions.
LEMMA DropOne ==
  ASSUME NEW q, NEW r, NEW n, NEW k, Drops(q, r, n, k)
  PROVE  /\ IsInjective(r)
         /\ q[k] \in Range(q)
         /\ Range(r) = Range(q) \ {q[k]}
<1> USE DEF Drops
<1>1. IsInjective(r)
  <2> SUFFICES ASSUME NEW a \in 1..(n - 1), NEW b \in 1..(n - 1), r[a] = r[b]
               PROVE  a = b
    BY DEF IsInjective
  <2> DEFINE f(i) == IF i < k THEN i ELSE i + 1
  <2>1. \A i \in 1..(n - 1) : f(i) \in 1..n /\ r[i] = q[f(i)]
    OBVIOUS
  <2>2. q[f(a)] = q[f(b)] /\ f(a) \in 1..n /\ f(b) \in 1..n
    BY <2>1
  <2>3. f(a) = f(b)
    <3> HIDE DEF f
    <3> QED  BY <2>2 DEF IsInjective
  <2>4. QED
    BY <2>3
<1>2. \A i \in 1..(n - 1) : r[i] \in Range(q) /\ r[i] # q[k]
  <2> SUFFICES ASSUME NEW i \in 1..(n - 1) PROVE r[i] \in Range(q) /\ r[i] # q[k]
    OBVIOUS
  <2>1. CASE i < k
    <3>1. r[i] = q[i] /\ i \in 1..n /\ i # k
      BY <2>1
    <3>2. QED
      BY <3>1 DEF IsInjective, Range
  <2>2. CASE i >= k
    <3>1. r[i] = q[i + 1] /\ i + 1 \in 1..n /\ i + 1 # k
      BY <2>2
    <3>2. QED
      BY <3>1 DEF IsInjective, Range
  <2>3. QED
    BY <2>1, <2>2
<1>3. \A i \in 1..n : i # k => q[i] \in Range(r)
  <2> SUFFICES ASSUME NEW i \in 1..n, i # k PROVE q[i] \in Range(r)
    OBVIOUS
  <2>1. CASE i < k
    <3>1. i \in 1..(n - 1) /\ r[i] = q[i]
      BY <2>1
    <3>2. QED
      BY <3>1 DEF Range
  <2>2. CASE i > k
    <3>1. i - 1 \in 1..(n - 1) /\ r[i - 1] = q[i]
      BY <2>2
    <3>2. QED
      BY <3>1 DEF Range
  <2>3. QED
    BY <2>1, <2>2
<1>4. QED
  BY <1>1, <1>2, <1>3 DEF Range

\* pop_front of a queue.
LEMMA TailRange ==
  ASSUME NEW S, NEW q \in Seq(S), q # <<>>, IsInjective(q)
  PROVE  /\ Tail(q) \in Seq(S)
         /\ IsInjective(Tail(q))
         /\ q[1] \in Range(q)
         /\ Range(Tail(q)) = Range(q) \ {q[1]}
         /\ Drops(q, Tail(q), Len(q), 1)
<1>1. /\ Tail(q) \in Seq(S)
      /\ DOMAIN Tail(q) = 1..(Len(q) - 1)
      /\ \A i \in 1..(Len(q) - 1) : Tail(q)[i] = q[i + 1]
  BY HeadTailProperties, LenProperties
<1>2. DOMAIN q = 1..Len(q) /\ Len(q) \in Nat /\ 1 \in 1..Len(q)
  BY LenProperties, EmptySeq
<1>3. \A i \in 1..(Len(q) - 1) : Tail(q)[i] = IF i < 1 THEN q[i] ELSE q[i + 1]
  BY <1>1, <1>2
<1>4. Drops(q, Tail(q), Len(q), 1)
  BY <1>1, <1>2, <1>3 DEF Drops
<1>5. QED
  BY <1>1, <1>4, DropOne

\* The stack without its top.
LEMMA PopRange ==
  ASSUME NEW S, NEW q \in Seq(S), q # <<>>, IsInjective(q)
  PROVE  /\ q[Len(q)] \in Range(q)
         /\ q[Len(q)] \in S
         /\ SubSeq(q, 1, Len(q) - 1) \in Seq(S)
         /\ IsInjective(SubSeq(q, 1, Len(q) - 1))
         /\ Range(SubSeq(q, 1, Len(q) - 1)) = Range(q) \ {q[Len(q)]}
<1>1. DOMAIN q = 1..Len(q) /\ Len(q) \in Nat /\ Len(q) \in 1..Len(q)
  BY LenProperties, EmptySeq
<1>2. q[Len(q)] \in S /\ \A i \in 1..(Len(q) - 1) : q[i] \in S
  BY <1>1, ElementOfSeq
<1>3. /\ SubSeq(q, 1, Len(q) - 1) \in Seq(S)
      /\ DOMAIN SubSeq(q, 1, Len(q) - 1) = 1..(Len(q) - 1)
      /\ \A i \in 1..(Len(q) - 1) : SubSeq(q, 1, Len(q) - 1)[i] = q[i]
  BY <1>1, <1>2, SubSeqProperties, LenProperties
<1>4. \A i \in 1..(Len(q) - 1) :
        SubSeq(q, 1, Len(q) - 1)[i] = IF i < Len(q) THEN q[i] ELSE q[i + 1]
  BY <1>1, <1>3
<1>5. Drops(q, SubSeq(q, 1, Len(q) - 1), Len(q), Len(q))
  BY <1>1, <1>3, <1>4 DEF Drops
<1>6. QED
  BY <1>2, <1>3, <1>5, DropOne

\* erase of one position of a queue.
LEMMA RemoveAtRange ==
  ASSUME NEW S, NEW q \in Seq(S), NEW k \in DOMAIN q, IsInjective(q)
  PROVE  /\ RemoveAt(q, k) \in Seq(S)
         /\ IsInjective(RemoveAt(q, k))
         /\ q[k] \in Range(q)
         /\ Range(RemoveAt(q, k)) = Range(q) \ {q[k]}
         /\ Drops(q, RemoveAt(q, k), Len(q), k)
<1> DEFINE s1 == SubSeq(q, 1, k - 1)
           s2 == SubSeq(q, k + 1, Len(q))
<1>1. DOMAIN q = 1..Len(q) /\ Len(q) \in Nat /\ k \in 1..Len(q)
  BY LenProperties
<1>2. \A i \in 1..Len(q) : q[i] \in S
  BY ElementOfSeq
<1>3. /\ s1 \in Seq(S)
      /\ Len(s1) = k - 1
      /\ \A i \in 1..(k - 1) : s1[i] = q[i]
  <2>1. \A i \in 1..(k - 1) : q[i] \in S
    BY <1>1, <1>2
  <2>2. QED
    BY <1>1, <2>1, SubSeqProperties
<1>4. /\ s2 \in Seq(S)
      /\ Len(s2) = Len(q) - k
      /\ \A i \in 1..(Len(q) - k) : s2[i] = q[k + i]
  <2>1. \A i \in (k + 1)..Len(q) : q[i] \in S
    BY <1>1, <1>2
  <2>2. /\ s2 \in Seq(S)
        /\ Len(s2) = IF k + 1 <= Len(q) THEN Len(q) - (k + 1) + 1 ELSE 0
        /\ \A i \in 1..(Len(q) - (k + 1) + 1) : s2[i] = q[(k + 1) + i - 1]
    BY <1>1, <2>1, SubSeqProperties
  <2> HIDE DEF s2
  <2>3. \A i \in 1..(Len(q) - k) : i \in 1..(Len(q) - (k + 1) + 1) /\ (k + 1) + i - 1 = k + i
    BY <1>1
  <2>4. \A i \in 1..(Len(q) - k) : s2[i] = q[k + i]
    BY <2>2, <2>3
  <2>5. Len(s2) = Len(q) - k
    BY <1>1, <2>2
  <2>6. QED
    BY <2>2, <2>4, <2>5
<1>5. RemoveAt(q, k) = s1 \o s2
  BY DEF RemoveAt
<1> HIDE DEF s1, s2
<1> DEFINE t == s1 \o s2
<1>6. /\ t \in Seq(S)
      /\ Len(t) = Len(s1) + Len(s2)
      /\ \A i \in 1..(Len(s1) + Len(s2)) :
           t[i] = IF i <= Len(s1) THEN s1[i] ELSE s2[i - Len(s1)]
  BY <1>3, <1>4, ConcatProperties
<1> HIDE DEF t
<1>7. DOMAIN t = 1..(Len(q) - 1)
  <2>1. Len(t) = Len(q) - 1
    BY <1>1, <1>3, <1>4, <1>6
  <2>2. QED
    BY <1>6, <2>1, LenProperties
<1>8. \A i \in 1..(Len(q) - 1) : t[i] = IF i < k THEN q[i] ELSE q[i + 1]
  <2> SUFFICES ASSUME NEW i \in 1..(Len(q) - 1)
               PROVE  t[i] = IF i < k THEN q[i] ELSE q[i + 1]
    OBVIOUS
  <2>1. i \in 1..(Len(s1) + Len(s2))
    BY <1>1, <1>3, <1>4
  <2>2. CASE i < k
    BY <1>1, <1>3, <1>6, <2>1, <2>2
  <2>3. CASE i >= k
    <3>1. i - (k - 1) \in 1..(Len(q) - k) /\ k + (i - (k - 1)) = i + 1
      BY <1>1, <2>3
    <3>2. t[i] = s2[i - (k - 1)]
      BY <1>1, <1>3, <1>6, <2>1, <2>3
    <3>3. QED
      BY <1>4, <2>3, <3>1, <3>2
  <2>4. QED
    BY <1>1, <2>2, <2>3
<1>9. Drops(q, t, Len(q), k)
  BY <1>1, <1>7, <1>8 DEF Drops
<1>10. QED
  BY <1>5, <1>6, <1>9, DropOne DEF t

-----------------------------------------------------------------------------
(* The inductive invariant. *)

\* What a slot in use holds: an order that arrived, under an id of its own.
OrdersExact ==
  /\ \A s \in Used : /\ storage[s].command \in Commands
                     /\ storage[s].command.id \in seen_ids
                     /\ storage[s].remaining <= storage[s].command.qty
  /\ \A s, t \in Used : storage[s].command.id = storage[t].command.id => s = t

\* The order being matched passed the checks of submit().
Matching ==
  /\ pc = "idle" => incoming = 0
  /\ pc = "match" => incoming \in Slots /\ valid(Taker.command)

\* A post-only order found nothing to cross, and the book has not changed since.
PostOnlyCannotCross ==
  pc = "match" /\ Taker.command.post_only = TRUE =>
    ~crosses(Taker.command) /\ Taker.remaining = Taker.command.qty

Inv == /\ TypeOK /\ FreeStackExact /\ QueuesExact /\ IndexExact
       /\ live_orders = Cardinality(Used)
       /\ OrdersExact /\ Matching /\ NotCrossed /\ PostOnlyCannotCross

\* The pool has Capacity slots.
LEMMA SlotsFinite == IsFiniteSet(Slots) /\ Cardinality(Slots) = Capacity
  BY CapacityAssumption, FS_Interval DEF Slots

\* A set of slots has between none and Capacity elements.
LEMMA LiveRange ==
  ASSUME NEW U, U \subseteq Slots
  PROVE  IsFiniteSet(U) /\ Cardinality(U) \in 0..Capacity
<1>1. IsFiniteSet(U) /\ Cardinality(U) <= Capacity
  BY SlotsFinite, FS_Subset
<1>2. Cardinality(U) \in Nat
  BY <1>1, FS_CardinalityType
<1>3. QED
  BY <1>1, <1>2, CapacityAssumption

\* Queued and incoming orders occupy slots of the pool.
LEMMA UsedAreSlots == ASSUME TypeOK, Matching PROVE Queued \subseteq Slots /\ Used \subseteq Slots
<1>1. Queued \subseteq Slots
  <2> SUFFICES ASSUME NEW side \in Sides, NEW p \in Prices
               PROVE  QueuedAt(side, p) \subseteq Slots
    BY DEF Queued
  <2>1. levels[side][p] \in Seq(Slots)
    BY DEF TypeOK
  <2>2. QED
    BY <2>1, ElementOfSeq, LenProperties DEF QueuedAt, Range
<1>2. QED
  BY <1>1 DEF Used, Matching

\* The empty book.
LEMMA InitInv == ASSUME Init PROVE Inv
<1>1. Queued = {} /\ Used = {}
  <2>1. \A side \in Sides, p \in Prices : QueuedAt(side, p) = {}
    BY DEF Init, QueuedAt, Range
  <2>2. QED
    BY <2>1 DEF Init, Queued, Used
<1>2. free_slots \in Seq(Slots) /\ DOMAIN free_slots = Slots
  <2>1. free_slots \in [1..Capacity -> Slots]
    BY CapacityAssumption DEF Init, Slots
  <2>2. QED
    BY <2>1, CapacityAssumption, IsASeq DEF Slots
<1>3. TypeOK
  <2>1. EmptyCommand \in Commands \cup {EmptyCommand} /\ 0 \in 0..MaxQty
    BY QtyAssumption
  <2>2. storage \in [Slots -> Order]
    BY <2>1 DEF Init, Order, Status
  <2>3. levels \in [Sides -> [Prices -> Seq(Slots)]]
    BY EmptySeq DEF Init
  <2>4. QED
    BY <1>2, <2>2, <2>3, CapacityAssumption, EmptySeq DEF Init, TypeOK
<1>4. FreeStackExact
  <2>1. \A i \in Slots : free_slots[i] = Capacity + 1 - i
    BY DEF Init
  <2>2. IsInjective(free_slots)
    BY <1>2, <2>1, CapacityAssumption DEF IsInjective, Slots
  <2>3. \A s \in Slots : Capacity + 1 - s \in Slots /\ free_slots[Capacity + 1 - s] = s
    BY <2>1, CapacityAssumption DEF Slots
  <2>4. \A s \in Slots : free_slots[s] \in Slots
    BY <2>1, CapacityAssumption DEF Slots
  <2>5. Range(free_slots) = Slots
    BY <1>2, <2>3, <2>4 DEF Range
  <2>6. QED
    BY <1>1, <2>2, <2>5 DEF FreeStackExact
<1>5. QueuesExact
  <2>1. \A side \in Sides, p \in Prices : levels[side][p] = <<>>
    BY DEF Init
  <2>2. QED
    BY <1>1, <2>1 DEF QueuesExact, QueuedAt, Range, IsInjective
<1>6. IndexExact /\ OrdersExact
  BY <1>1 DEF Init, IndexExact, OrdersExact
<1>7. live_orders = Cardinality(Used)
  BY <1>1, FS_EmptySet DEF Init
<1>8. Matching /\ PostOnlyCannotCross
  BY DEF Init, Matching, PostOnlyCannotCross
<1>9. NotCrossed
  BY DEF Init, NotCrossed, LevelPrices, Sides
<1>10. QED
  BY <1>3, <1>4, <1>5, <1>6, <1>7, <1>8, <1>9 DEF Inv

-----------------------------------------------------------------------------
(* The invariant is preserved by every action. *)

StatusEvents == [id: OrderIds, status: Status, filled: 0..MaxQty, remaining: 0..MaxQty]

\* A status event is well typed for any command and quantities within it.
LEMMA StatusEventType ==
  ASSUME NEW c \in Commands, NEW st \in Status, NEW r \in 0..MaxQty, r <= c.qty
  PROVE  StatusEvent(c, st, r) \in StatusEvents
<1>1. c \in Command
  BY CommandAssumption
<1>2. c.id \in OrderIds /\ c.qty \in 0..MaxQty
  BY <1>1 DEF Command
<1>3. c.qty - r \in 0..MaxQty
  BY <1>2, QtyAssumption
<1>4. QED
  BY <1>2, <1>3 DEF StatusEvent, StatusEvents

\* So is a list of them that gains one.
LEMMA StatusesType ==
  ASSUME TypeOK, NEW e \in StatusEvents
  PROVE  Append(statuses, e) \in Seq(StatusEvents)
  BY AppendProperties DEF TypeOK, StatusEvents

\* A rejected command leaves the pool and the levels alone.
LEMMA SubmitRejectInv ==
  ASSUME Inv, NEW c \in Commands, SubmitReject(c)
  PROVE  Inv'
<1>1. UNCHANGED <<storage, free_slots, by_id, levels, live_orders, book_sequence, pc,
                  incoming, trades>>
  BY DEF SubmitReject
<1>2. Queued' = Queued /\ Used' = Used
  BY <1>1 DEF Queued, QueuedAt, Used
<1>3. c \in Command /\ c.id \in OrderIds /\ c.qty \in 0..MaxQty
  BY CommandAssumption DEF Command
<1>4. TypeOK'
  <2>1. StatusEvent(c, "rejected", c.qty) \in StatusEvents
    BY <1>3, StatusEventType, QtyAssumption DEF Status
  <2>2. statuses' \in Seq(StatusEvents)
    BY <2>1, StatusesType DEF Inv, SubmitReject
  <2>3. seen_ids' \subseteq OrderIds
    BY <1>3 DEF SubmitReject, Inv, TypeOK
  <2>4. QED
    BY <1>1, <2>2, <2>3 DEF Inv, TypeOK, StatusEvents
<1>5. FreeStackExact' /\ IndexExact' /\ live_orders' = Cardinality(Used')
  BY <1>1, <1>2 DEF Inv, FreeStackExact, IndexExact
<1>6. QueuesExact'
  BY <1>1, <1>2 DEF Inv, QueuesExact, QueuedAt
<1>7. OrdersExact'
  BY <1>1, <1>2 DEF Inv, OrdersExact, SubmitReject
<1>8. Matching' /\ PostOnlyCannotCross'
  BY <1>1 DEF Inv, Matching, PostOnlyCannotCross, Taker, crosses, LevelPrices
<1>9. NotCrossed'
  BY <1>1 DEF Inv, NotCrossed, LevelPrices
<1>10. QED
  BY <1>4, <1>5, <1>6, <1>7, <1>8, <1>9 DEF Inv

\* submit() takes the slot on top of the stack, which no order uses.
LEMMA SubmitAcceptInv ==
  ASSUME Inv, NEW c \in Commands, SubmitAccept(c)
  PROVE  Inv'
<1> DEFINE slot == free_slots[Len(free_slots)]
<1>1. /\ pc = "idle" /\ pc' = "match" /\ incoming' = slot
      /\ UNCHANGED <<levels, book_sequence, trades, statuses>>
      /\ c.id \notin seen_ids /\ seen_ids' = seen_ids \cup {c.id}
      /\ live_orders' = live_orders + 1
      /\ by_id' = by_id \cup {<<c.id, slot>>}
      /\ storage' = [storage EXCEPT ![slot] =
                       [command |-> c, remaining |-> c.qty, status |-> "open"]]
      /\ free_slots' = SubSeq(free_slots, 1, Len(free_slots) - 1)
  BY DEF SubmitAccept
<1>2. free_slots # <<>> /\ valid(c) /\ ~(c.post_only /\ crosses(c))
  BY DEF SubmitAccept, MustReject
<1>3. /\ slot \in Slots /\ slot \in Range(free_slots)
      /\ free_slots' \in Seq(Slots) /\ IsInjective(free_slots')
      /\ Range(free_slots') = Range(free_slots) \ {slot}
  BY <1>1, <1>2, PopRange DEF Inv, TypeOK, FreeStackExact
<1>4. slot \notin Used
  BY <1>3 DEF Inv, FreeStackExact
<1> HIDE DEF slot
<1>5. Queued' = Queued /\ Used = Queued /\ Used' = Used \cup {slot}
  BY <1>1 DEF Queued, QueuedAt, Used
<1>6. c \in Command /\ c.id \in OrderIds /\ c.qty \in 0..MaxQty /\ c.post_only \in BOOLEAN
  BY CommandAssumption DEF Command
<1>7. Used \subseteq Slots
  BY UsedAreSlots DEF Inv
<1>8. /\ storage'[slot] = [command |-> c, remaining |-> c.qty, status |-> "open"]
      /\ \A s \in Used : storage'[s] = storage[s]
  BY <1>1, <1>3, <1>4, <1>7 DEF Inv, TypeOK
<1>9. live_orders' = Cardinality(Used')
  BY <1>1, <1>4, <1>5, <1>7, LiveRange, FS_AddElement DEF Inv
<1>10. TypeOK'
  <2>1. storage' \in [Slots -> Order]
    BY <1>1, <1>3, <1>6 DEF Inv, TypeOK, Order, Status
  <2>2. live_orders' \in 0..Capacity
    BY <1>3, <1>5, <1>7, <1>9, LiveRange
  <2>3. by_id' \subseteq OrderIds \X Slots /\ seen_ids' \subseteq OrderIds
    BY <1>1, <1>3, <1>6 DEF Inv, TypeOK
  <2>4. QED
    BY <1>1, <1>3, <2>1, <2>2, <2>3 DEF Inv, TypeOK
<1>11. FreeStackExact'
  BY <1>3, <1>5 DEF Inv, FreeStackExact
<1>12. QueuesExact'
  <2>1. incoming' \notin Queued'
    BY <1>1, <1>4, <1>5
  <2>2. ASSUME NEW side \in Sides, NEW p \in Prices, NEW s \in QueuedAt(side, p)
        PROVE  s \in Used
    BY <1>5 DEF Queued
  <2>3. QED
    BY <1>1, <1>8, <2>1, <2>2 DEF Inv, QueuesExact, QueuedAt
<1>13. IndexExact'
  BY <1>1, <1>5, <1>8 DEF Inv, IndexExact
<1>14. OrdersExact'
  BY <1>1, <1>4, <1>5, <1>6, <1>8 DEF Inv, OrdersExact
<1>15. Matching'
  BY <1>1, <1>2, <1>3, <1>8 DEF Matching, Taker, valid
<1>16. NotCrossed'
  BY <1>1 DEF Inv, NotCrossed, LevelPrices
<1>17. PostOnlyCannotCross'
  BY <1>1, <1>2, <1>6, <1>8 DEF PostOnlyCannotCross, Taker, crosses, LevelPrices
<1>18. QED
  BY <1>9, <1>10, <1>11, <1>12, <1>13, <1>14, <1>15, <1>16, <1>17 DEF Inv

\* submit() returns the slot of an order that does not rest.
LEMMA DiscardInv ==
  ASSUME Inv, pc = "match", NEW st \in Status, Discard(st)
  PROVE  Inv'
<1> DEFINE c == Taker.command
<1>1. /\ pc' = "idle" /\ incoming' = 0
      /\ UNCHANGED <<seen_ids, levels, book_sequence, trades>>
      /\ live_orders' = live_orders - 1
      /\ by_id' = {e \in by_id : e[1] # c.id}
      /\ free_slots' = Append(free_slots, incoming)
      /\ storage' = [storage EXCEPT ![incoming].status = st]
      /\ statuses' = Append(statuses, StatusEvent(c, st, Taker.remaining))
  BY DEF Discard, ReleaseId
<1>2. incoming \in Slots /\ incoming \in Used /\ incoming \notin Queued
  BY DEF Inv, Matching, Used, QueuesExact
<1>3. Queued' = Queued /\ Used' = Used \ {incoming} /\ Used' = Queued
  BY <1>1, <1>2 DEF Queued, QueuedAt, Used
<1>4. Used \subseteq Slots
  BY UsedAreSlots DEF Inv
<1>5. \A s \in Slots : /\ storage'[s].command = storage[s].command
                       /\ storage'[s].remaining = storage[s].remaining
                       /\ s # incoming => storage'[s] = storage[s]
  BY <1>1, <1>2 DEF Inv, TypeOK, Order
<1>6. /\ free_slots' \in Seq(Slots) /\ IsInjective(free_slots')
      /\ Range(free_slots') = Range(free_slots) \cup {incoming}
  <2>1. incoming \notin Range(free_slots)
    BY <1>2 DEF Inv, FreeStackExact
  <2>2. QED
    BY <1>1, <1>2, <2>1, AppendRange DEF Inv, TypeOK, FreeStackExact
<1>7. live_orders' = Cardinality(Used')
  BY <1>1, <1>2, <1>3, <1>4, LiveRange, FS_RemoveElement DEF Inv
<1>8. TypeOK'
  <2>1. storage' \in [Slots -> Order]
    BY <1>1, <1>2 DEF Inv, TypeOK, Order
  <2>2. live_orders' \in 0..Capacity
    BY <1>3, <1>4, <1>7, LiveRange
  <2>3. c \in Commands /\ Taker.remaining \in 0..MaxQty /\ Taker.remaining <= c.qty
    BY <1>2 DEF Inv, OrdersExact, TypeOK, Order, Taker
  <2>4. statuses' \in Seq(StatusEvents)
    BY <1>1, <2>3, StatusEventType, StatusesType DEF Inv
  <2>5. by_id' \subseteq OrderIds \X Slots
    BY <1>1 DEF Inv, TypeOK
  <2>6. QED
    BY <1>1, <1>6, <2>1, <2>2, <2>4, <2>5 DEF Inv, TypeOK, StatusEvents
<1>9. FreeStackExact'
  BY <1>2, <1>3, <1>4, <1>6 DEF Inv, FreeStackExact
<1>10. QueuesExact'
  <2>1. ASSUME NEW side \in Sides, NEW p \in Prices, NEW s \in QueuedAt(side, p)
        PROVE  s \in Slots /\ s # incoming
    BY <1>2, <1>3, <1>4 DEF Queued
  <2>2. incoming' \notin Queued'
    BY <1>1, <1>3, <1>4, CapacityAssumption DEF Slots
  <2>3. QED
    BY <1>1, <1>5, <2>1, <2>2 DEF Inv, QueuesExact, QueuedAt
<1>11. IndexExact'
  <2>1. c = storage[incoming].command
    BY DEF Taker
  <2>2. \A s \in Used : storage[s].command.id = c.id <=> s = incoming
    BY <1>2, <2>1 DEF Inv, OrdersExact
  <2> HIDE DEF c
  <2>3. by_id' = {<<storage[s].command.id, s>> : s \in Used \ {incoming}}
    BY <1>1, <2>2 DEF Inv, IndexExact
  <2>4. QED
    BY <1>3, <1>4, <1>5, <2>3 DEF IndexExact
<1>12. OrdersExact'
  BY <1>1, <1>3, <1>4, <1>5 DEF Inv, OrdersExact
<1>13. Matching' /\ PostOnlyCannotCross'
  BY <1>1 DEF Matching, PostOnlyCannotCross
<1>14. NotCrossed'
  BY <1>1 DEF Inv, NotCrossed, LevelPrices
<1>15. QED
  BY <1>7, <1>8, <1>9, <1>10, <1>11, <1>12, <1>13, <1>14 DEF Inv

\* One queue replaced, the others untouched.
LEMMA LevelUpdate ==
  ASSUME TypeOK, NEW sd \in Sides, NEW pr \in Prices, NEW q \in Seq(Slots),
         levels' = [levels EXCEPT ![sd][pr] = q]
  PROVE  /\ levels' \in [Sides -> [Prices -> Seq(Slots)]]
         /\ levels'[sd][pr] = q /\ QueuedAt(sd, pr)' = Range(q)
         /\ \A side \in Sides, p \in Prices : (side # sd \/ p # pr) =>
              levels'[side][p] = levels[side][p] /\ QueuedAt(side, p)' = QueuedAt(side, p)
  BY DEF TypeOK, QueuedAt

\* Queueing a slot adds that slot and no other.
LEMMA QueuedPlus ==
  ASSUME NEW sd \in Sides, NEW pr \in Prices, NEW x,
         QueuedAt(sd, pr)' = QueuedAt(sd, pr) \cup {x},
         \A side \in Sides, p \in Prices : (side # sd \/ p # pr) =>
           QueuedAt(side, p)' = QueuedAt(side, p)
  PROVE  Queued' = Queued \cup {x}
<1>1. \A s : s \in Queued <=> \E side \in Sides, p \in Prices : s \in QueuedAt(side, p)
  BY DEF Queued
<1>2. \A s : s \in Queued' <=> \E side \in Sides, p \in Prices : s \in QueuedAt(side, p)'
  BY DEF Queued
<1>3. QED
  BY <1>1, <1>2

\* An order waits in one queue only, so leaving that queue it leaves the book.
LEMMA QueuedMinus ==
  ASSUME QueuesExact, NEW sd \in Sides, NEW pr \in Prices, NEW x \in QueuedAt(sd, pr),
         QueuedAt(sd, pr)' = QueuedAt(sd, pr) \ {x},
         \A side \in Sides, p \in Prices : (side # sd \/ p # pr) =>
           QueuedAt(side, p)' = QueuedAt(side, p)
  PROVE  Queued' = Queued \ {x}
<1>1. \A s : s \in Queued <=> \E side \in Sides, p \in Prices : s \in QueuedAt(side, p)
  BY DEF Queued
<1>2. \A s : s \in Queued' <=> \E side \in Sides, p \in Prices : s \in QueuedAt(side, p)'
  BY DEF Queued
<1>3. \A side \in Sides, p \in Prices : (side # sd \/ p # pr) => x \notin QueuedAt(side, p)
  BY DEF QueuesExact
<1>4. QED
  BY <1>1, <1>2, <1>3

\* rest() moves the incoming order to the back of the queue of its price; no
\* level of the other side is acceptable to it any more.
LEMMA FinishRestInv ==
  ASSUME Inv, FinishRest
  PROVE  Inv'
<1> DEFINE c == Taker.command
           st == IF Taker.remaining = c.qty THEN "open" ELSE "partial"
<1>1. /\ pc = "match" /\ pc' = "idle" /\ incoming' = 0
      /\ UNCHANGED <<seen_ids, trades, live_orders, by_id, free_slots>>
      /\ book_sequence' = book_sequence + 1
      /\ levels' = [levels EXCEPT ![c.side][c.price] = Append(@, incoming)]
      /\ storage' = [storage EXCEPT ![incoming].status = st]
      /\ statuses' = Append(statuses, StatusEvent(c, st, Taker.remaining))
      /\ Taker.remaining > 0 /\ ~crosses(c) /\ c.tif = "gtc"
  <2>1. Taker.remaining \in 0..MaxQty
    BY DEF FinishRest, MatchDone, Inv, Matching, TypeOK, Order, Taker
  <2>2. QED
    BY <2>1 DEF FinishRest, MatchDone, Rests
<1>2. incoming \in Slots /\ incoming \in Used /\ incoming \notin Queued
  BY <1>1 DEF Inv, Matching, Used, QueuesExact
<1>3. c \in Commands /\ Taker.remaining \in 0..MaxQty /\ Taker.remaining <= c.qty
  BY <1>2 DEF Inv, OrdersExact, TypeOK, Order, Taker
<1>4. c.side \in Sides /\ c.price \in Prices /\ c.type = "limit"
  <2>1. c \in Command
    BY <1>3, CommandAssumption
  <2>2. valid(c)
    BY <1>1 DEF Inv, Matching
  <2>3. c.type = "limit" /\ c.price > 0
    BY <1>1, <2>1, <2>2 DEF valid, Command
  <2>4. QED
    BY <2>1, <2>3 DEF Command
<1>5. st \in {"open", "partial"}
  OBVIOUS
<1>6. storage[incoming].command = c /\ storage[incoming].remaining = Taker.remaining
  BY DEF Taker
<1> HIDE DEF c, st
<1>7. \A s \in Slots : /\ storage'[s].command = storage[s].command
                       /\ storage'[s].remaining = storage[s].remaining
                       /\ s # incoming => storage'[s] = storage[s]
                       /\ s = incoming => storage'[s].status = st
  BY <1>1, <1>2 DEF Inv, TypeOK, Order
<1>8. Used \subseteq Slots /\ Queued \subseteq Slots
  BY UsedAreSlots DEF Inv
<1>9. PICK sd \in Sides, pr \in Prices : sd = c.side /\ pr = c.price
  BY <1>4
<1>10. /\ levels' \in [Sides -> [Prices -> Seq(Slots)]]
       /\ IsInjective(levels'[sd][pr])
       /\ QueuedAt(sd, pr)' = QueuedAt(sd, pr) \cup {incoming}
       /\ \A side \in Sides, p \in Prices : (side # sd \/ p # pr) =>
            levels'[side][p] = levels[side][p] /\ QueuedAt(side, p)' = QueuedAt(side, p)
  <2> DEFINE q == Append(levels[sd][pr], incoming)
  <2>1. levels[sd][pr] \in Seq(Slots) /\ IsInjective(levels[sd][pr])
    BY DEF Inv, TypeOK, QueuesExact
  <2>2. incoming \notin Range(levels[sd][pr])
    BY <1>2 DEF Queued, QueuedAt
  <2>3. q \in Seq(Slots) /\ IsInjective(q) /\ Range(q) = QueuedAt(sd, pr) \cup {incoming}
    BY <1>2, <2>1, <2>2, AppendRange DEF QueuedAt
  <2>4. levels' = [levels EXCEPT ![sd][pr] = q]
    BY <1>1, <1>9 DEF Inv, TypeOK
  <2> HIDE DEF q
  <2>5. TypeOK /\ q \in Seq(Slots)
    BY <2>3 DEF Inv
  <2>6. /\ levels' \in [Sides -> [Prices -> Seq(Slots)]]
        /\ levels'[sd][pr] = q /\ QueuedAt(sd, pr)' = Range(q)
        /\ \A side \in Sides, p \in Prices : (side # sd \/ p # pr) =>
             levels'[side][p] = levels[side][p] /\ QueuedAt(side, p)' = QueuedAt(side, p)
    BY <2>4, <2>5, LevelUpdate
  <2>7. QED
    BY <2>3, <2>6
<1>11. Queued' = Queued \cup {incoming}
  <2>1. PICK inc \in Slots : inc = incoming
    BY <1>2
  <2>2. QueuedAt(sd, pr)' = QueuedAt(sd, pr) \cup {inc}
    BY <1>10, <2>1
  <2>3. \A side \in Sides, p \in Prices : (side # sd \/ p # pr) =>
          QueuedAt(side, p)' = QueuedAt(side, p)
    BY <1>10
  <2>4. Queued' = Queued \cup {inc}
    BY <2>2, <2>3, QueuedPlus
  <2>5. QED
    BY <2>1, <2>4
<1>12. Used' = Used
  BY <1>1, <1>11 DEF Used
<1>13. TypeOK'
  <2>1. storage' \in [Slots -> Order]
    BY <1>1, <1>2, <1>5 DEF Inv, TypeOK, Order, Status
  <2>2. levels' \in [Sides -> [Prices -> Seq(Slots)]]
    BY <1>10
  <2>3. statuses' \in Seq(StatusEvents)
    BY <1>1, <1>3, <1>5, StatusEventType, StatusesType DEF Inv, Status
  <2>4. UNCHANGED <<seen_ids, trades, live_orders, by_id, free_slots>>
    BY <1>1
  <2>5. pc' = "idle" /\ incoming' = 0 /\ book_sequence' = book_sequence + 1
    BY <1>1
  <2>6. QED
    BY <2>1, <2>2, <2>3, <2>4, <2>5 DEF Inv, TypeOK, StatusEvents
<1>14. FreeStackExact' /\ live_orders' = Cardinality(Used')
  BY <1>1, <1>12 DEF Inv, FreeStackExact
<1>15. QueuesExact'
  <2>1. incoming' \notin Queued'
    BY <1>1, <1>2, <1>8, <1>11, CapacityAssumption DEF Slots
  <2>2. ASSUME NEW side \in Sides, NEW p \in Prices
        PROVE  /\ IsInjective(levels'[side][p])
               /\ \A s \in QueuedAt(side, p)' :
                    /\ storage'[s].command.side = side /\ storage'[s].command.price = p
                    /\ storage'[s].remaining > 0
                    /\ storage'[s].status \in {"open", "partial"}
    <3>1. \A s \in QueuedAt(side, p) : s \in Slots /\ s # incoming
      BY <1>2, <1>8 DEF Queued
    <3>2. \A s \in QueuedAt(side, p) :
                    /\ storage'[s].command.side = side /\ storage'[s].command.price = p
                    /\ storage'[s].remaining > 0
                    /\ storage'[s].status \in {"open", "partial"}
      BY <1>7, <3>1 DEF Inv, QueuesExact
    <3>3. CASE side = sd /\ p = pr
      BY <1>1, <1>2, <1>5, <1>6, <1>7, <1>9, <1>10, <3>2, <3>3
    <3>4. CASE side # sd \/ p # pr
      BY <1>10, <3>2, <3>4 DEF Inv, QueuesExact
    <3>5. QED
      BY <3>3, <3>4
  <2>3. QED
    BY <2>1, <2>2 DEF QueuesExact
<1>16. IndexExact' /\ OrdersExact'
  BY <1>1, <1>7, <1>8, <1>12 DEF Inv, IndexExact, OrdersExact
<1>17. Matching' /\ PostOnlyCannotCross'
  BY <1>1 DEF Matching, PostOnlyCannotCross
<1>18. NotCrossed'
  <2>1. \A side \in Sides, p \in Prices :
          p \in LevelPrices(side)' => p \in LevelPrices(side) \/ (side = c.side /\ p = c.price)
    BY <1>9, <1>10 DEF LevelPrices
  <2>2. \A p \in LevelPrices(Opposite(c.side)) : ~Acceptable(c, p)
    BY <1>1 DEF crosses
  <2>3. \A p \in Prices : p \in Nat
    BY PricesAssumption
  <2>4. \A side : LevelPrices(side)' \subseteq Prices
    BY DEF LevelPrices
  <2>5. ASSUME NEW bid \in LevelPrices("buy")', NEW ask \in LevelPrices("sell")'
        PROVE  bid < ask
    <3>1. CASE bid \in LevelPrices("buy") /\ ask \in LevelPrices("sell")
      BY <3>1 DEF Inv, NotCrossed
    <3>2. CASE c.side = "buy" /\ bid = c.price /\ ask \in LevelPrices("sell")
      BY <1>4, <2>2, <2>3, <2>4, <3>2 DEF Opposite, Acceptable
    <3>3. CASE c.side = "sell" /\ ask = c.price /\ bid \in LevelPrices("buy")
      BY <1>4, <2>2, <2>3, <2>4, <3>3 DEF Opposite, Acceptable
    <3>4. QED
      BY <2>1, <2>4, <3>1, <3>2, <3>3 DEF Sides
  <2>6. QED
    BY <2>5 DEF NotCrossed
<1>19. QED
  BY <1>13, <1>14, <1>15, <1>16, <1>17, <1>18 DEF Inv

\* A resting order leaves: the common part of a complete fill and of cancel().
LEMMA ReleaseQueued ==
  ASSUME Inv, NEW sd \in Sides, NEW pr \in Prices, NEW slot \in QueuedAt(sd, pr),
         NEW q \in Seq(Slots), IsInjective(q), Range(q) = QueuedAt(sd, pr) \ {slot},
         levels' = [levels EXCEPT ![sd][pr] = q],
         free_slots' = Append(free_slots, slot),
         by_id' = ReleaseId(storage[slot].command.id),
         live_orders' = live_orders - 1,
         UNCHANGED <<pc, incoming, seen_ids>>,
         storage' \in [Slots -> Order],
         \A s \in Slots : /\ storage'[s].command = storage[s].command
                          /\ storage'[s].remaining <= storage[s].remaining,
         \A s \in Slots \ {slot, incoming} : storage'[s] = storage[s]
  PROVE  /\ levels' \in [Sides -> [Prices -> Seq(Slots)]]
         /\ free_slots' \in Seq(Slots)
         /\ by_id' \subseteq OrderIds \X Slots
         /\ live_orders' \in 0..Capacity
         /\ FreeStackExact' /\ QueuesExact' /\ IndexExact'
         /\ live_orders' = Cardinality(Used')
         /\ OrdersExact' /\ Matching' /\ NotCrossed'
<1>1. Used \subseteq Slots /\ Queued \subseteq Slots
  BY UsedAreSlots DEF Inv
<1>2. slot \in Queued /\ slot \in Used /\ slot \in Slots /\ slot # incoming
  BY <1>1 DEF Queued, Used, Inv, QueuesExact
<1>3. /\ levels' \in [Sides -> [Prices -> Seq(Slots)]]
      /\ levels'[sd][pr] = q /\ QueuedAt(sd, pr)' = Range(q)
      /\ \A side \in Sides, p \in Prices : (side # sd \/ p # pr) =>
           levels'[side][p] = levels[side][p] /\ QueuedAt(side, p)' = QueuedAt(side, p)
  BY LevelUpdate DEF Inv
<1>4. Queued' = Queued \ {slot}
  <2>1. QueuedAt(sd, pr)' = QueuedAt(sd, pr) \ {slot}
    BY <1>3
  <2>2. \A side \in Sides, p \in Prices : (side # sd \/ p # pr) =>
          QueuedAt(side, p)' = QueuedAt(side, p)
    BY <1>3
  <2>3. QED
    BY <2>1, <2>2, QueuedMinus DEF Inv
<1>5. Used' = Used \ {slot}
  BY <1>2, <1>4 DEF Used
<1>6. /\ free_slots' \in Seq(Slots) /\ IsInjective(free_slots')
      /\ Range(free_slots') = Range(free_slots) \cup {slot}
  <2>1. slot \notin Range(free_slots)
    BY <1>2 DEF Inv, FreeStackExact
  <2>2. QED
    BY <1>2, <2>1, AppendRange DEF Inv, TypeOK, FreeStackExact
<1>7. live_orders' = Cardinality(Used') /\ live_orders' \in 0..Capacity
  <2>1. live_orders' = Cardinality(Used')
    BY <1>1, <1>2, <1>5, LiveRange, FS_RemoveElement DEF Inv
  <2>2. QED
    BY <1>1, <1>5, <2>1, LiveRange
<1>8. FreeStackExact'
  BY <1>1, <1>2, <1>5, <1>6 DEF Inv, FreeStackExact
<1>9. QueuesExact'
  <2>1. incoming' \notin Queued'
    BY <1>4 DEF Inv, QueuesExact
  <2>2. ASSUME NEW side \in Sides, NEW p \in Prices
        PROVE  /\ IsInjective(levels'[side][p])
               /\ \A s \in QueuedAt(side, p)' :
                    /\ storage'[s].command.side = side /\ storage'[s].command.price = p
                    /\ storage'[s].remaining > 0
                    /\ storage'[s].status \in {"open", "partial"}
    <3>1. IsInjective(levels'[side][p])
      BY <1>3 DEF Inv, QueuesExact
    <3>2. \A s \in QueuedAt(side, p)' : s \in QueuedAt(side, p)
      BY <1>3
    <3>3. \A s \in QueuedAt(side, p)' : s \in Slots /\ s # slot /\ s # incoming
      <4>1. \A s \in QueuedAt(side, p)' : s \in Queued'
        BY DEF Queued
      <4>2. QED
        BY <1>1, <1>4, <2>1, <4>1
    <3>4. \A s \in QueuedAt(side, p)' : storage'[s] = storage[s]
      BY <3>3
    <3>5. QED
      BY <3>1, <3>2, <3>4 DEF Inv, QueuesExact
  <2>3. QED
    BY <2>1, <2>2 DEF QueuesExact
<1>10. IndexExact' /\ by_id' \subseteq OrderIds \X Slots
  <2>1. \A s \in Used : storage[s].command.id = storage[slot].command.id <=> s = slot
    BY <1>2 DEF Inv, OrdersExact
  <2>2. by_id' = {<<storage[s].command.id, s>> : s \in Used \ {slot}}
    BY <2>1 DEF Inv, IndexExact, ReleaseId
  <2>3. by_id' = {<<storage'[s].command.id, s>> : s \in Used'}
    BY <1>1, <1>5, <2>2
  <2>4. by_id' \subseteq by_id
    BY DEF ReleaseId
  <2>5. QED
    BY <2>3, <2>4 DEF Inv, TypeOK, IndexExact
<1>11. OrdersExact'
  <2>1. ASSUME NEW s \in Used'
        PROVE  /\ storage'[s].command \in Commands /\ storage'[s].command.id \in seen_ids'
               /\ storage'[s].remaining <= storage'[s].command.qty
    <3>1. s \in Used /\ s \in Slots
      BY <1>1, <1>5
    <3>2. storage[s] \in Order /\ storage'[s] \in Order
      BY <3>1 DEF Inv, TypeOK
    <3>3. storage[s].remaining \in Int /\ storage'[s].remaining \in Int
      BY <3>2, QtyAssumption DEF Order
    <3>4. storage[s].command \in Command /\ storage[s].command.qty \in Int
      BY <3>1, CommandAssumption, QtyAssumption DEF Inv, OrdersExact, Command
    <3>5. QED
      BY <3>1, <3>3, <3>4 DEF Inv, OrdersExact
  <2>2. \A s, t \in Used' : storage'[s].command.id = storage'[t].command.id => s = t
    BY <1>1, <1>5 DEF Inv, OrdersExact
  <2>3. QED
    BY <2>1, <2>2 DEF OrdersExact
<1>12. Matching'
  <2>1. ASSUME pc' = "match"
        PROVE  incoming' \in Slots /\ valid(storage'[incoming'].command)
    BY <2>1 DEF Inv, Matching, Taker
  <2>2. QED
    BY <2>1 DEF Inv, Matching, Taker, valid
<1>13. NotCrossed'
  <2>1. \A side \in Sides : LevelPrices(side)' \subseteq LevelPrices(side)
    <3> SUFFICES ASSUME NEW side \in Sides, NEW p \in Prices, levels'[side][p] # <<>>
                 PROVE  levels[side][p] # <<>>
      BY DEF LevelPrices
    <3>1. levels[sd][pr] # <<>>
      BY DEF QueuedAt, Range
    <3>2. QED
      BY <1>3, <3>1
  <2>2. QED
    BY <2>1 DEF Inv, NotCrossed, Sides
<1>14. QED
  BY <1>3, <1>6, <1>7, <1>8, <1>9, <1>10, <1>11, <1>12, <1>13

\* cancel() of a resting order.
LEMMA CancelInv ==
  ASSUME Inv, NEW id, Cancel(id)
  PROVE  Inv'
<1>1. PICK e \in by_id :
        LET o == storage[e[2]] IN
        /\ e[1] = id /\ Cancelable(o)
        /\ remove(e[2], o.command)
        /\ storage' = [storage EXCEPT ![e[2]].status = "canceled"]
        /\ statuses' = Append(statuses, StatusEvent(o.command, "canceled", o.remaining))
        /\ live_orders' = live_orders - 1
        /\ by_id' = ReleaseId(o.command.id)
        /\ free_slots' = Append(free_slots, e[2])
  BY DEF Cancel
<1>2. pc = "idle" /\ UNCHANGED <<seen_ids, pc, incoming, trades>>
  BY DEF Cancel
<1>3. PICK slot \in Used : e = <<storage[slot].command.id, slot>>
  BY DEF Inv, IndexExact
<1>4. e[2] = slot /\ slot \in Queued /\ slot \in Slots
  BY <1>2, <1>3, UsedAreSlots DEF Used, Inv
<1>5. PICK sd \in Sides, pr \in Prices : slot \in QueuedAt(sd, pr)
  BY <1>4 DEF Queued
<1>6. storage[slot].command.side = sd /\ storage[slot].command.price = pr
  BY <1>5 DEF Inv, QueuesExact
<1>7. PICK k \in DOMAIN levels[sd][pr] :
        /\ levels[sd][pr][k] = slot
        /\ levels' = [levels EXCEPT ![sd][pr] = RemoveAt(@, k)]
  BY <1>1, <1>4, <1>6 DEF remove
<1>8. levels[sd][pr] \in Seq(Slots) /\ IsInjective(levels[sd][pr])
  BY DEF Inv, TypeOK, QueuesExact
<1>9. PICK q \in Seq(Slots) : q = RemoveAt(levels[sd][pr], k)
  BY <1>8, RemoveAtRange
<1>10. IsInjective(q) /\ Range(q) = QueuedAt(sd, pr) \ {slot}
  BY <1>7, <1>8, <1>9, RemoveAtRange DEF QueuedAt
<1>11. levels' = [levels EXCEPT ![sd][pr] = q]
  BY <1>7, <1>9 DEF Inv, TypeOK
<1>12. /\ storage' \in [Slots -> Order]
       /\ \A s \in Slots : /\ storage'[s].command = storage[s].command
                           /\ storage'[s].remaining = storage[s].remaining
       /\ \A s \in Slots \ {slot, incoming} : storage'[s] = storage[s]
  BY <1>1, <1>4 DEF Inv, TypeOK, Order, Status
<1>13. \A s \in Slots : storage'[s].remaining <= storage[s].remaining
  <2>1. \A s \in Slots : storage[s].remaining \in Int
    BY QtyAssumption DEF Inv, TypeOK, Order
  <2>2. QED
    BY <1>12, <2>1
<1>14. /\ free_slots' = Append(free_slots, slot)
       /\ by_id' = ReleaseId(storage[slot].command.id)
       /\ live_orders' = live_orders - 1
       /\ book_sequence' = book_sequence + 1
  BY <1>1, <1>4 DEF remove
<1>15. /\ levels' \in [Sides -> [Prices -> Seq(Slots)]]
       /\ free_slots' \in Seq(Slots)
       /\ by_id' \subseteq OrderIds \X Slots
       /\ live_orders' \in 0..Capacity
       /\ FreeStackExact' /\ QueuesExact' /\ IndexExact'
       /\ live_orders' = Cardinality(Used')
       /\ OrdersExact' /\ Matching' /\ NotCrossed'
  BY <1>2, <1>5, <1>10, <1>11, <1>12, <1>13, <1>14, ReleaseQueued
<1>16. TypeOK'
  <2>1. /\ storage[slot].command \in Commands /\ storage[slot].remaining \in 0..MaxQty
        /\ storage[slot].remaining <= storage[slot].command.qty
    BY <1>3, <1>4 DEF Inv, OrdersExact, TypeOK, Order
  <2>2. StatusEvent(storage[slot].command, "canceled", storage[slot].remaining) \in StatusEvents
    BY <2>1, StatusEventType DEF Status
  <2>3. statuses' \in Seq(StatusEvents)
    BY <1>1, <1>4, <2>2, StatusesType DEF Inv
  <2>4. QED
    BY <1>2, <1>12, <1>14, <1>15, <2>3 DEF Inv, TypeOK, StatusEvents
<1>17. PostOnlyCannotCross'
  BY <1>2 DEF PostOnlyCannotCross
<1>18. QED
  BY <1>15, <1>16, <1>17 DEF Inv

\* std::min of two quantities.
LEMMA MinOfTwo ==
  ASSUME NEW a \in Int, NEW b \in Int
  PROVE  Min({a, b}) = IF a < b THEN a ELSE b
  BY DEF Min

TradeEvents == [maker: OrderIds, taker: OrderIds, price: Prices, qty: 1..MaxQty]

\* One fill, in full: the order in slot, first in its queue, gives the quantity fill and keeps left.
Fills(sd, pr, slot, fill, left, st) ==
  /\ pc = "match" /\ UNCHANGED <<seen_ids, pc, incoming>> /\ book_sequence' = book_sequence + 1
  /\ IsBest(sd, pr) /\ sd = Opposite(storage[incoming].command.side) /\ Acceptable(storage[incoming].command, pr)
  /\ levels[sd][pr] # <<>> /\ slot = levels[sd][pr][1]
  /\ slot \in QueuedAt(sd, pr) /\ slot \in Queued /\ slot \in Used
  /\ incoming \in Slots /\ incoming \in Used /\ incoming # slot
  /\ storage[slot].command \in Commands /\ storage[incoming].command \in Commands
  /\ left = storage[slot].remaining - fill
  /\ st = IF left = 0 THEN "filled" ELSE "partial"
  /\ storage' \in [Slots -> Order]
  /\ \A s \in Slots : /\ storage'[s].command = storage[s].command
                      /\ storage'[s].remaining <= storage[s].remaining
                      /\ s \notin {slot, incoming} => storage'[s] = storage[s]
  /\ storage'[slot].remaining = left /\ storage'[slot].status = st
  /\ storage'[incoming].remaining = storage[incoming].remaining - fill
  /\ trades' = Append(trades, [maker |-> storage[slot].command.id, taker |-> storage[incoming].command.id,
                               price |-> pr, qty |-> fill])
  /\ statuses' = Append(statuses, StatusEvent(storage[slot].command, st, left))
  /\ trades' \in Seq(TradeEvents) /\ statuses' \in Seq(StatusEvents)
  /\ IF left = 0
     THEN /\ levels' = [levels EXCEPT ![sd][pr] = Tail(levels[sd][pr])]
          /\ live_orders' = live_orders - 1
          /\ by_id' = ReleaseId(storage[slot].command.id)
          /\ free_slots' = Append(free_slots, slot)
     ELSE UNCHANGED <<levels, live_orders, by_id, free_slots>>

\* What an iteration of match() does.
LEMMA MatchOneFacts ==
  ASSUME Inv, MatchOne
  PROVE  \E sd \in Sides, pr \in Prices, slot \in Slots, fill \in 1..MaxQty, left \in 0..MaxQty, st \in {"filled", "partial"} :
           Fills(sd, pr, slot, fill, left, st)
<1>1. /\ pc = "match" /\ UNCHANGED <<seen_ids, pc, incoming>>
      /\ book_sequence' = book_sequence + 1 /\ Taker.remaining > 0
  BY DEF MatchOne
<1>2. PICK sd \in Sides : sd = Opposite(Taker.command.side)
  BY DEF Opposite, Sides
<1>3. PICK pr \in Prices :
       LET queue == levels[sd][pr]
           maker == storage[queue[1]]
           fill  == FillQuantity(Taker, maker)
           left  == maker.remaining - fill
           state == IF left = 0 THEN "filled" ELSE "partial"
       IN
       /\ IsBest(sd, pr)
       /\ Acceptable(Taker.command, pr)
       /\ storage' = [storage EXCEPT ![incoming].remaining = @ - fill,
                                     ![queue[1]].remaining = left,
                                     ![queue[1]].status = state]
       /\ trades' = Append(trades, [maker |-> maker.command.id, taker |-> Taker.command.id,
                                    price |-> pr, qty |-> fill])
       /\ statuses' = Append(statuses, StatusEvent(maker.command, state, left))
       /\ IF left = 0
          THEN /\ levels' = [levels EXCEPT ![sd][pr] = Tail(queue)]
               /\ live_orders' = live_orders - 1
               /\ by_id' = ReleaseId(maker.command.id)
               /\ free_slots' = Append(free_slots, queue[1])
          ELSE UNCHANGED <<levels, live_orders, by_id, free_slots>>
  BY <1>2 DEF MatchOne
<1>4. /\ levels[sd][pr] \in Seq(Slots) /\ levels[sd][pr] # <<>>
      /\ IsInjective(levels[sd][pr])
  BY <1>3 DEF IsBest, LevelPrices, Inv, TypeOK, QueuesExact
<1>5. PICK slot \in Slots : slot = levels[sd][pr][1]
  BY <1>4, ElementOfSeq, LenProperties, EmptySeq
<1>6. /\ slot \in QueuedAt(sd, pr) /\ slot \in Queued /\ slot \in Used
      /\ incoming \in Slots /\ incoming \in Used /\ incoming # slot
  <2>1. slot \in QueuedAt(sd, pr)
    BY <1>4, <1>5, TailRange DEF QueuedAt
  <2>2. QED
    BY <1>1, <2>1 DEF Inv, Queued, Used, Matching, QueuesExact
<1> DEFINE m    == storage[slot]
           t    == storage[incoming]
           fill == FillQuantity(t, m)
           left == m.remaining - fill
           st   == IF left = 0 THEN "filled" ELSE "partial"
<1>7. /\ m \in Order /\ t \in Order
      /\ m.command \in Commands /\ t.command \in Commands
      /\ m.remaining \in 1..MaxQty /\ t.remaining \in 1..MaxQty
      /\ m.remaining <= m.command.qty /\ t.remaining <= t.command.qty
  <2>1. m \in Order /\ t \in Order
    BY <1>6 DEF Inv, TypeOK
  <2>2. m.remaining \in 0..MaxQty /\ t.remaining \in 0..MaxQty
    BY <2>1 DEF Order
  <2>3. m.remaining > 0 /\ t.remaining > 0
    BY <1>1, <1>6 DEF Inv, QueuesExact, Taker
  <2>4. QED
    BY <1>6, <2>1, <2>2, <2>3, QtyAssumption DEF Inv, OrdersExact
<1>8. /\ fill \in 1..MaxQty /\ left \in 0..MaxQty /\ left <= m.remaining
      /\ t.remaining - fill \in 0..MaxQty /\ t.remaining - fill <= t.remaining
      /\ st \in {"filled", "partial"}
  <2>1. fill = IF t.remaining < m.remaining THEN t.remaining ELSE m.remaining
    BY <1>7, MinOfTwo DEF FillQuantity
  <2> HIDE DEF fill
  <2>2. QED
    BY <1>7, <2>1, QtyAssumption
<1>9. /\ storage' = [storage EXCEPT ![incoming].remaining = @ - fill,
                                    ![slot].remaining = left, ![slot].status = st]
      /\ trades' = Append(trades, [maker |-> m.command.id, taker |-> t.command.id,
                                   price |-> pr, qty |-> fill])
      /\ statuses' = Append(statuses, StatusEvent(m.command, st, left))
      /\ IF left = 0
         THEN /\ levels' = [levels EXCEPT ![sd][pr] = Tail(levels[sd][pr])]
              /\ live_orders' = live_orders - 1
              /\ by_id' = ReleaseId(m.command.id)
              /\ free_slots' = Append(free_slots, slot)
         ELSE UNCHANGED <<levels, live_orders, by_id, free_slots>>
  BY <1>3, <1>5 DEF Taker
<1> HIDE DEF fill, left, st
<1>11. /\ storage' \in [Slots -> Order]
       /\ storage'[incoming] = [t EXCEPT !.remaining = t.remaining - fill]
       /\ storage'[slot] = [[m EXCEPT !.remaining = left] EXCEPT !.status = st]
       /\ \A s \in Slots \ {slot, incoming} : storage'[s] = storage[s]
  <2>1. [t EXCEPT !.remaining = t.remaining - fill] \in Order
    BY <1>7, <1>8 DEF Order
  <2>2. [[m EXCEPT !.remaining = left] EXCEPT !.status = st] \in Order
    BY <1>7, <1>8 DEF Order, Status
  <2>3. QED
    BY <1>6, <1>9, <2>1, <2>2 DEF Inv, TypeOK
<1>12. \A s \in Slots : /\ storage'[s].command = storage[s].command
                        /\ storage'[s].remaining <= storage[s].remaining
  <2> SUFFICES ASSUME NEW s \in Slots
               PROVE  /\ storage'[s].command = storage[s].command
                      /\ storage'[s].remaining <= storage[s].remaining
    OBVIOUS
  <2>1. storage[s].remaining \in 0..MaxQty
    BY DEF Inv, TypeOK, Order
  <2>2. CASE s = incoming
    BY <1>7, <1>8, <1>11, <2>2 DEF Order
  <2>3. CASE s = slot
    BY <1>7, <1>8, <1>11, <2>3 DEF Order
  <2>4. CASE s \notin {slot, incoming}
    BY <1>11, <2>1, <2>4, QtyAssumption
  <2>5. QED
    BY <2>2, <2>3, <2>4
<1>13. trades' \in Seq(TradeEvents) /\ statuses' \in Seq(StatusEvents)
  <2>1. m.command \in Command /\ t.command \in Command
    BY <1>7, CommandAssumption
  <2>2. [maker |-> m.command.id, taker |-> t.command.id, price |-> pr, qty |-> fill]
          \in TradeEvents
    BY <1>8, <2>1 DEF Command, TradeEvents
  <2>3. trades' \in Seq(TradeEvents)
    BY <1>9, <2>2, AppendProperties DEF Inv, TypeOK, TradeEvents
  <2>4. m.command.qty \in Int /\ left <= m.command.qty
    BY <1>7, <1>8, <2>1, QtyAssumption DEF Command
  <2>5. StatusEvent(m.command, st, left) \in StatusEvents
    BY <1>7, <1>8, <2>4, StatusEventType DEF Status
  <2>6. QED
    BY <1>9, <2>3, <2>5, StatusesType DEF Inv
<1>14. storage'[slot].remaining = left /\ storage'[slot].status = st
       /\ storage'[incoming].remaining = storage[incoming].remaining - fill
  BY <1>7, <1>8, <1>11 DEF Order
<1>15. IsBest(sd, pr) /\ sd = Opposite(t.command.side) /\ Acceptable(t.command, pr)
  BY <1>2, <1>3 DEF Taker
<1>16. /\ left = m.remaining - fill
       /\ st = IF left = 0 THEN "filled" ELSE "partial"
  BY DEF left, st
<1>17. \A s \in Slots : /\ storage'[s].command = storage[s].command
                        /\ storage'[s].remaining <= storage[s].remaining
                        /\ s \notin {slot, incoming} => storage'[s] = storage[s]
  BY <1>11, <1>12
<1>18. Fills(sd, pr, slot, fill, left, st)
  BY <1>1, <1>4, <1>5, <1>6, <1>7, <1>9, <1>11, <1>13, <1>14, <1>15, <1>16, <1>17 DEF Fills
<1>19. QED
  BY <1>8, <1>18

\* One fill: the maker at the front of the best level gives what the taker
\* still wants, and leaves when it is empty.
LEMMA MatchOneInv ==
  ASSUME Inv, MatchOne
  PROVE  Inv'
<1>0. PICK sd \in Sides, pr \in Prices, slot \in Slots, fill \in 1..MaxQty, left \in 0..MaxQty, st \in {"filled", "partial"} :
        Fills(sd, pr, slot, fill, left, st)
  BY MatchOneFacts
<1>1. pc = "match" /\ UNCHANGED <<seen_ids, pc, incoming>> /\ book_sequence' = book_sequence + 1
  BY <1>0 DEF Fills
<1>4. /\ levels[sd][pr] \in Seq(Slots) /\ levels[sd][pr] # <<>>
      /\ IsInjective(levels[sd][pr])
  <2>1. levels[sd][pr] # <<>>
    BY <1>0 DEF Fills
  <2>2. QED
    BY <2>1 DEF Inv, TypeOK, QueuesExact
<1>5. slot = levels[sd][pr][1]
  BY <1>0 DEF Fills
<1>6. /\ slot \in QueuedAt(sd, pr) /\ slot \in Queued /\ slot \in Used
      /\ incoming \in Slots /\ incoming \in Used /\ incoming # slot
  BY <1>0 DEF Fills
<1> DEFINE t == storage[incoming]
<1>7. t.command \in Commands
  BY <1>0 DEF Fills
<1>8. left = 0 \/ st = "partial"
  BY <1>0 DEF Fills
<1>9. IF left = 0
      THEN /\ levels' = [levels EXCEPT ![sd][pr] = Tail(levels[sd][pr])]
           /\ live_orders' = live_orders - 1
           /\ by_id' = ReleaseId(storage[slot].command.id)
           /\ free_slots' = Append(free_slots, slot)
      ELSE UNCHANGED <<levels, live_orders, by_id, free_slots>>
  BY <1>0 DEF Fills
<1>10. Acceptable(t.command, pr) /\ pr \in LevelPrices(Opposite(t.command.side))
  BY <1>0 DEF Fills, IsBest
<1>11. /\ storage' \in [Slots -> Order]
       /\ storage'[slot].remaining = left /\ storage'[slot].status = st
       /\ \A s \in Slots \ {slot, incoming} : storage'[s] = storage[s]
  BY <1>0 DEF Fills
<1>12. \A s \in Slots : /\ storage'[s].command = storage[s].command
                        /\ storage'[s].remaining <= storage[s].remaining
  BY <1>0 DEF Fills
<1>13. trades' \in Seq(TradeEvents) /\ statuses' \in Seq(StatusEvents)
  BY <1>0 DEF Fills
<1>14. PostOnlyCannotCross'
  <2>1. crosses(t.command)
    BY <1>10 DEF crosses
  <2>2. t.command.post_only \in BOOLEAN
    BY <1>7, CommandAssumption DEF Command
  <2>3. t.command.post_only # TRUE
    BY <1>1, <2>1 DEF Inv, PostOnlyCannotCross, Taker
  <2>4. storage'[incoming'].command = t.command
    BY <1>1, <1>6, <1>12
  <2>5. QED
    BY <2>3, <2>4 DEF PostOnlyCannotCross, Taker
<1>15. CASE left = 0
  <2>1. PICK q \in Seq(Slots) : q = Tail(levels[sd][pr])
    BY <1>4, TailRange
  <2>2. IsInjective(q) /\ Range(q) = QueuedAt(sd, pr) \ {slot}
    BY <1>4, <1>5, <2>1, TailRange DEF QueuedAt
  <2>3. /\ levels' = [levels EXCEPT ![sd][pr] = q]
        /\ live_orders' = live_orders - 1
        /\ by_id' = ReleaseId(storage[slot].command.id)
        /\ free_slots' = Append(free_slots, slot)
    BY <1>9, <1>15, <2>1
  <2>4. UNCHANGED <<pc, incoming, seen_ids>>
    BY <1>1
  <2>5. \A s \in Slots \ {slot, incoming} : storage'[s] = storage[s]
    BY <1>11
  <2>6. /\ levels' \in [Sides -> [Prices -> Seq(Slots)]]
        /\ free_slots' \in Seq(Slots)
        /\ by_id' \subseteq OrderIds \X Slots
        /\ live_orders' \in 0..Capacity
        /\ FreeStackExact' /\ QueuesExact' /\ IndexExact'
        /\ live_orders' = Cardinality(Used')
        /\ OrdersExact' /\ Matching' /\ NotCrossed'
    BY <1>6, <1>11, <1>12, <2>2, <2>3, <2>4, <2>5, ReleaseQueued
  <2>7. TypeOK'
    BY <1>1, <1>11, <1>13, <2>6 DEF Inv, TypeOK, StatusEvents, TradeEvents
  <2>8. QED
    BY <1>14, <2>6, <2>7 DEF Inv
<1>16. CASE left # 0
  <2>1. UNCHANGED <<levels, live_orders, by_id, free_slots>>
    BY <1>9, <1>16
  <2>2. Queued' = Queued /\ Used' = Used
    BY <1>1, <2>1 DEF Queued, QueuedAt, Used
  <2>3. Queued \subseteq Slots /\ Used \subseteq Slots
    BY UsedAreSlots DEF Inv
  <2>4. TypeOK'
    BY <1>1, <1>11, <1>13, <2>1 DEF Inv, TypeOK, StatusEvents, TradeEvents
  <2>5. FreeStackExact' /\ live_orders' = Cardinality(Used')
    BY <2>1, <2>2 DEF Inv, FreeStackExact
  <2>6. QueuesExact'
    <3>1. storage'[slot].remaining > 0 /\ storage'[slot].status \in {"open", "partial"}
      BY <1>8, <1>11, <1>16, QtyAssumption
    <3>2. \A s \in Queued : s # slot => storage'[s] = storage[s]
      BY <1>11, <2>3 DEF Inv, QueuesExact
    <3>3. ASSUME NEW side \in Sides, NEW p \in Prices, NEW s \in QueuedAt(side, p)
          PROVE  /\ storage'[s].command.side = side /\ storage'[s].command.price = p
                 /\ storage'[s].remaining > 0
                 /\ storage'[s].status \in {"open", "partial"}
      <4>1. s \in Queued /\ s \in Slots
        BY <2>3 DEF Queued
      <4>2. storage[s].command.side = side /\ storage[s].command.price = p
        BY DEF Inv, QueuesExact
      <4>3. CASE s = slot
        BY <1>12, <3>1, <4>1, <4>2, <4>3
      <4>4. CASE s # slot
        BY <3>2, <4>1, <4>4 DEF Inv, QueuesExact
      <4>5. QED
        BY <4>3, <4>4
    <3>4. QED
      BY <1>1, <2>1, <2>2, <3>3 DEF Inv, QueuesExact, QueuedAt
  <2>7. IndexExact'
    BY <1>12, <2>1, <2>2, <2>3 DEF Inv, IndexExact
  <2>8. OrdersExact'
    <3>1. ASSUME NEW s \in Used
          PROVE  storage'[s].remaining <= storage'[s].command.qty
      <4>1. storage[s].command \in Commands /\ storage[s].remaining <= storage[s].command.qty
        BY DEF Inv, OrdersExact
      <4>2. storage[s].command.qty \in Int
        BY <4>1, CommandAssumption, QtyAssumption DEF Command
      <4>3. storage[s].remaining \in Int /\ storage'[s].remaining \in Int
        BY <1>11, <2>3, QtyAssumption DEF Inv, TypeOK, Order
      <4>4. QED
        BY <1>12, <2>3, <4>1, <4>2, <4>3
    <3>2. QED
      BY <1>1, <1>12, <2>2, <2>3, <3>1 DEF Inv, OrdersExact
  <2>9. Matching'
    <3>1. storage'[incoming'].command = Taker.command
      BY <1>1, <1>6, <1>12 DEF Taker
    <3>2. QED
      BY <1>1, <3>1 DEF Inv, Matching, Taker
  <2>10. NotCrossed'
    BY <2>1 DEF Inv, NotCrossed, LevelPrices
  <2>11. QED
    BY <1>14, <2>4, <2>5, <2>6, <2>7, <2>8, <2>9, <2>10 DEF Inv
<1>17. QED
  BY <1>15, <1>16

\* A step that changes nothing preserves the invariant.
LEMMA StutterInv == ASSUME Inv, UNCHANGED vars PROVE Inv'
<1>1. UNCHANGED <<storage, free_slots, by_id, seen_ids, levels, live_orders,
                  book_sequence, pc, incoming, trades, statuses>>
  BY DEF vars
<1>2. Queued' = Queued /\ Used' = Used
  BY <1>1 DEF Queued, QueuedAt, Used
<1>3. TypeOK' /\ FreeStackExact' /\ IndexExact' /\ OrdersExact' /\ live_orders' = Cardinality(Used')
  BY <1>1, <1>2 DEF Inv, TypeOK, FreeStackExact, IndexExact, OrdersExact
<1>4. QueuesExact'
  BY <1>1, <1>2 DEF Inv, QueuesExact, QueuedAt
<1>5. Matching' /\ PostOnlyCannotCross' /\ NotCrossed'
  BY <1>1 DEF Inv, Matching, PostOnlyCannotCross, NotCrossed, Taker, crosses, LevelPrices
<1>6. QED
  BY <1>3, <1>4, <1>5 DEF Inv

\* Every step of submit, match, rest and cancel preserves the invariant.
LEMMA NextInv == ASSUME Inv, [Next]_vars PROVE Inv'
<1>1. ASSUME NEW c \in Commands, SubmitDuplicate(c) PROVE Inv'
  BY <1>1, StutterInv DEF SubmitDuplicate
<1>2. ASSUME NEW c \in Commands, SubmitReject(c) PROVE Inv'
  BY <1>2, SubmitRejectInv
<1>3. ASSUME NEW c \in Commands, SubmitAccept(c) PROVE Inv'
  BY <1>3, SubmitAcceptInv
<1>4. CASE MatchOne
  BY <1>4, MatchOneInv
<1>5. CASE FinishFilled
  BY <1>5, DiscardInv DEF FinishFilled, MatchDone, Status
<1>6. CASE FinishRest
  BY <1>6, FinishRestInv
<1>7. CASE FinishDiscard
  <2>1. PICK st \in {"rejected", "canceled"} :
          st = IF Taker.remaining = Taker.command.qty THEN "rejected" ELSE "canceled"
    OBVIOUS
  <2>2. pc = "match" /\ Discard(st)
    BY <1>7, <2>1 DEF FinishDiscard, MatchDone
  <2>3. QED
    BY <2>2, DiscardInv DEF Status
<1>8. ASSUME NEW id \in OrderIds, Cancel(id) PROVE Inv'
  BY <1>8, CancelInv
<1>9. ASSUME NEW id \in OrderIds, CancelUnknown(id) PROVE Inv'
  BY <1>9, StutterInv DEF CancelUnknown
<1>10. CASE UNCHANGED vars
  BY <1>10, StutterInv
<1>11. QED
  BY <1>1, <1>2, <1>3, <1>4, <1>5, <1>6, <1>7, <1>8, <1>9, <1>10 DEF Next

\* The invariant holds in every reachable state of the book.
THEOREM Invariance == Spec => []Inv
<1>1. Init => Inv
  BY InitInv
<1>2. Inv /\ [Next]_vars => Inv'
  BY NextInv
<1>3. QED
  BY <1>1, <1>2, PTL DEF Spec

\* Every variable of OrderBook keeps its type, live_orders_ and the reported
\* quantities included, for every sequence of commands.
THEOREM TypeCorrect == Spec => []TypeOK
  BY Invariance, PTL DEF Inv

\* submit(), match(), rest() and cancel() never leave a crossed book.
THEOREM BookNeverCrossed == Spec => []NotCrossed
  BY Invariance, PTL DEF Inv

\* acquire(), release() and the id index agree with the queues for every
\* capacity of the pool: no slot is lost, used twice or left in the index.
THEOREM PoolAlwaysConsistent == Spec => []PoolConsistent
<1>1. Inv => PoolConsistent
  BY DEF Inv, PoolConsistent
<1>2. QED
  BY <1>1, Invariance, PTL

\* An order accepted as post-only trades nothing while it is the taker.
THEOREM PostOnlyRespected == Spec => []PostOnlyNeverTakes
<1>1. Inv => PostOnlyNeverTakes
  <2> SUFFICES ASSUME Inv, pc = "match", Taker.command.post_only
               PROVE  Taker.remaining = Taker.command.qty
    BY DEF PostOnlyNeverTakes
  <2>1. Taker.command \in Commands
    BY DEF Inv, OrdersExact, Used, Taker
  <2>2. Taker.command.post_only \in BOOLEAN
    BY <2>1, CommandAssumption DEF Command
  <2>3. QED
    BY <2>2 DEF Inv, PostOnlyCannotCross
<1>2. QED
  BY <1>1, Invariance, PTL
-----------------------------------------------------------------------------
(* What is reported of an order, and when it came to rest. *)

\* What the trades ts have filled of order x.
TradedIn(ts, x) ==
  SumFunctionOnSet([i \in DOMAIN ts |-> IF x \in {ts[i].maker, ts[i].taker} THEN ts[i].qty ELSE 0], DOMAIN ts)

\* The reports ss agree with each other and with the trades ts.
GoodReports(ss, ts) ==
  /\ \A i, j \in DOMAIN ss : i < j /\ ss[i].id = ss[j].id => ss[i].status \notin Terminal /\ ss[i].filled <= ss[j].filled
  /\ \A i \in DOMAIN ss : (\A j \in DOMAIN ss : j > i => ss[j].id # ss[i].id) => ss[i].filled = TradedIn(ts, ss[i].id)

\* The reports of an order in use, of which n is filled: it has not ended, and no more was reported.
OpenReports(ss, x, n) == \A i \in DOMAIN ss : ss[i].id = x => ss[i].status \notin Terminal /\ ss[i].filled <= n

Unreported(ss, x) == \A i \in DOMAIN ss : ss[i].id # x

\* The first report of order x is the one at i.
FirstReport(ss, x, i) == i \in DOMAIN ss /\ ss[i].id = x /\ \A j \in DOMAIN ss : ss[j].id = x => i <= j

\* The orders of queue q were first reported one after the other.
InOrder(q, st, ss) ==
  \A j \in DOMAIN q : \E b \in DOMAIN ss :
    /\ FirstReport(ss, st[q[j]].command.id, b)
    /\ \A i \in DOMAIN q : i < j => \E a \in DOMAIN ss : a < b /\ FirstReport(ss, st[q[i]].command.id, a)

\* The inductive invariant of the reports.
ReportInv ==
  /\ GoodReports(statuses, trades)
  /\ \A i \in DOMAIN statuses : statuses[i].id \in seen_ids
  /\ \A x \in OrderIds \ seen_ids : TradedIn(trades, x) = 0
  /\ \A s \in Used : /\ TradedIn(trades, storage[s].command.id) = storage[s].command.qty - storage[s].remaining
                     /\ OpenReports(statuses, storage[s].command.id, storage[s].command.qty - storage[s].remaining)
  /\ pc = "match" => Unreported(statuses, storage[incoming].command.id)
  /\ \A side \in Sides, p \in Prices : InOrder(levels[side][p], storage, statuses)

\* A trade adds its quantity to its two parties.
LEMMA TradedAppend ==
  ASSUME NEW ts \in Seq(TradeEvents), NEW t \in TradeEvents, NEW x
  PROVE  /\ TradedIn(ts, x) \in Int
         /\ TradedIn(Append(ts, t), x) = TradedIn(ts, x) + (IF x \in {t.maker, t.taker} THEN t.qty ELSE 0)
<1> DEFINE us == Append(ts, t)
           k == Len(ts)
           f == [i \in DOMAIN ts |-> IF x \in {ts[i].maker, ts[i].taker} THEN ts[i].qty ELSE 0]
           g == [i \in DOMAIN us |-> IF x \in {us[i].maker, us[i].taker} THEN us[i].qty ELSE 0]
<1>1. k \in Nat /\ DOMAIN ts = 1..k /\ \A i \in 1..k : ts[i] \in TradeEvents
  OBVIOUS
<1>2. us \in Seq(TradeEvents) /\ DOMAIN us = 1..(k + 1) /\ us[k + 1] = t /\ \A i \in 1..k : us[i] = ts[i]
  BY AppendProperties, LenProperties
<1>3. \A u \in TradeEvents : u.qty \in Int
  BY QtyAssumption DEF TradeEvents
<1>4. f \in [1..k -> Int]
  BY <1>1, <1>3
<1>5. \A i \in 1..(k + 1) : us[i] \in TradeEvents
  BY <1>1, <1>2
<1>6. g \in [1..(k + 1) -> Int] /\ (\A i \in 1..k : g[i] = f[i])
      /\ g[k + 1] = (IF x \in {t.maker, t.taker} THEN t.qty ELSE 0)
  BY <1>1, <1>2, <1>3, <1>5
<1> HIDE DEF k, us
<1>7. SumFunctionOnSet(f, 1..k) \in Int
  <2>1. 1..k \in SUBSET (1..k) /\ IsFiniteSet(1..k)
    BY <1>1, FS_Interval
  <2> QED
    BY <1>4, <2>1, SumType
<1>8. PICK m : m = k + 1
  OBVIOUS
<1>9. SumFunctionOnSet(g, 1..m) = SumFunctionOnSet(f, 1..k) + g[m]
  <2> HIDE DEF f, g
  <2> QED
    BY <1>1, <1>4, <1>6, <1>8, SumOneMore
<1> QED
  BY <1>1, <1>2, <1>6, <1>7, <1>8, <1>9 DEF TradedIn, us

\* One more report, on an order that has not ended.
LEMMA ReportAppend ==
  ASSUME NEW ss \in Seq(StatusEvents), NEW ts, NEW us, GoodReports(ss, ts), NEW e \in StatusEvents,
         OpenReports(ss, e.id, e.filled), e.filled = TradedIn(us, e.id),
         \A i \in DOMAIN ss : ss[i].id # e.id => TradedIn(us, ss[i].id) = TradedIn(ts, ss[i].id)
  PROVE  GoodReports(Append(ss, e), us)
<1> DEFINE rs == Append(ss, e)
           k == Len(ss)
<1>1. k \in Nat /\ DOMAIN ss = 1..k /\ DOMAIN rs = 1..(k + 1) /\ rs[k + 1] = e /\ \A i \in 1..k : rs[i] = ss[i]
  BY AppendProperties, LenProperties
<1> HIDE DEF k, rs
<1>2. ASSUME NEW i \in DOMAIN rs, NEW j \in DOMAIN rs, i < j, rs[i].id = rs[j].id
      PROVE  rs[i].status \notin Terminal /\ rs[i].filled <= rs[j].filled
  <2>1. i \in 1..k /\ rs[i] = ss[i]
    BY <1>1, <1>2
  <2>2. CASE j = k + 1
    BY <1>1, <1>2, <2>1, <2>2 DEF OpenReports
  <2>3. CASE j \in 1..k
    BY <1>1, <1>2, <2>1, <2>3 DEF GoodReports
  <2> QED
    BY <1>1, <2>2, <2>3
<1>3. ASSUME NEW i \in DOMAIN rs, \A j \in DOMAIN rs : j > i => rs[j].id # rs[i].id
      PROVE  rs[i].filled = TradedIn(us, rs[i].id)
  <2>1. CASE i = k + 1
    BY <1>1, <2>1
  <2>2. CASE i \in 1..k
    <3>1. rs[i] = ss[i] /\ ss[i].id # e.id
      BY <1>1, <1>3, <2>2
    <3>2. \A j \in DOMAIN ss : j > i => ss[j].id # ss[i].id
      BY <1>1, <1>3, <2>2
    <3> QED
      BY <1>1, <2>2, <3>1, <3>2 DEF GoodReports
  <2> QED
    BY <1>1, <2>1, <2>2
<1> QED
  BY <1>2, <1>3 DEF GoodReports, rs

\* One more report is the first of its order only if there was none.
LEMMA FirstAppend ==
  ASSUME NEW ss \in Seq(StatusEvents), NEW e \in StatusEvents, NEW x
  PROVE  /\ DOMAIN ss \subseteq DOMAIN Append(ss, e)
         /\ \A i : FirstReport(ss, x, i) => FirstReport(Append(ss, e), x, i)
         /\ Unreported(ss, e.id) => FirstReport(Append(ss, e), e.id, Len(ss) + 1)
         /\ Unreported(ss, x) /\ e.id # x => Unreported(Append(ss, e), x)
         /\ \A n : OpenReports(ss, x, n) /\ (e.id = x => e.status \notin Terminal /\ e.filled <= n) => OpenReports(Append(ss, e), x, n)
<1> DEFINE rs == Append(ss, e)
           k == Len(ss)
<1>1. k \in Nat /\ DOMAIN ss = 1..k /\ DOMAIN rs = 1..(k + 1) /\ rs[k + 1] = e /\ \A i \in 1..k : rs[i] = ss[i]
  BY AppendProperties, LenProperties
<1> HIDE DEF rs
<1>2. DOMAIN ss \subseteq DOMAIN rs
  BY <1>1
<1>3. ASSUME NEW i, FirstReport(ss, x, i) PROVE FirstReport(rs, x, i)
  BY <1>1, <1>3 DEF FirstReport
<1>4. ASSUME Unreported(ss, e.id) PROVE FirstReport(rs, e.id, k + 1)
  BY <1>1, <1>4 DEF FirstReport, Unreported
<1>5. ASSUME Unreported(ss, x), e.id # x PROVE Unreported(rs, x)
  BY <1>1, <1>5 DEF Unreported
<1>6. ASSUME NEW n, OpenReports(ss, x, n), e.id = x => e.status \notin Terminal /\ e.filled <= n PROVE OpenReports(rs, x, n)
  BY <1>1, <1>6 DEF OpenReports
<1> QED
  BY <1>2, <1>3, <1>4, <1>5, <1>6 DEF rs

\* A report disturbs no queue.
LEMMA OrderReported ==
  ASSUME NEW q \in Seq(Slots), NEW st, NEW st2, NEW ss \in Seq(StatusEvents), NEW e \in StatusEvents, InOrder(q, st, ss),
         \A i \in DOMAIN q : st2[q[i]].command = st[q[i]].command
  PROVE  InOrder(q, st2, Append(ss, e))
<1> DEFINE rs == Append(ss, e)
<1>1. DOMAIN ss \subseteq DOMAIN rs /\ \A x, i : FirstReport(ss, x, i) => FirstReport(rs, x, i)
  BY FirstAppend
<1> HIDE DEF rs
<1> SUFFICES ASSUME NEW j \in DOMAIN q
             PROVE  \E b \in DOMAIN rs : /\ FirstReport(rs, st2[q[j]].command.id, b)
                                         /\ \A i \in DOMAIN q : i < j => \E a \in DOMAIN rs : a < b /\ FirstReport(rs, st2[q[i]].command.id, a)
  BY DEF InOrder, rs
<1>2. PICK b \in DOMAIN ss : /\ FirstReport(ss, st[q[j]].command.id, b)
                             /\ \A i \in DOMAIN q : i < j => \E a \in DOMAIN ss : a < b /\ FirstReport(ss, st[q[i]].command.id, a)
  BY DEF InOrder
<1>3. b \in DOMAIN rs /\ FirstReport(rs, st2[q[j]].command.id, b)
  BY <1>1, <1>2
<1>4. ASSUME NEW i \in DOMAIN q, i < j PROVE \E a \in DOMAIN rs : a < b /\ FirstReport(rs, st2[q[i]].command.id, a)
  <2>1. PICK a \in DOMAIN ss : a < b /\ FirstReport(ss, st[q[i]].command.id, a)
    BY <1>2, <1>4
  <2> QED
    BY <1>1, <2>1
<1> QED
  BY <1>3, <1>4

\* An order that leaves its queue leaves the others in order.
LEMMA OrderDropped ==
  ASSUME NEW q, NEW r, NEW n, NEW k, Drops(q, r, n, k), NEW st, NEW ss, InOrder(q, st, ss)
  PROVE  InOrder(r, st, ss)
<1> DEFINE f(i) == IF i < k THEN i ELSE i + 1
<1>1. \A i \in DOMAIN r : i \in Nat /\ f(i) \in DOMAIN q /\ r[i] = q[f(i)]
  BY DEF Drops
<1>2. \A i, j \in DOMAIN r : i < j => f(i) < f(j)
  BY DEF Drops
<1> HIDE DEF f
<1> SUFFICES ASSUME NEW j \in DOMAIN r
             PROVE  \E b \in DOMAIN ss : /\ FirstReport(ss, st[r[j]].command.id, b)
                                         /\ \A i \in DOMAIN r : i < j => \E a \in DOMAIN ss : a < b /\ FirstReport(ss, st[r[i]].command.id, a)
  BY DEF InOrder
<1>3. PICK b \in DOMAIN ss : /\ FirstReport(ss, st[q[f(j)]].command.id, b)
                             /\ \A i \in DOMAIN q : i < f(j) => \E a \in DOMAIN ss : a < b /\ FirstReport(ss, st[q[i]].command.id, a)
  BY <1>1 DEF InOrder
<1>4. ASSUME NEW i \in DOMAIN r, i < j PROVE \E a \in DOMAIN ss : a < b /\ FirstReport(ss, st[r[i]].command.id, a)
  BY <1>1, <1>2, <1>3, <1>4
<1> QED
  BY <1>1, <1>3, <1>4

\* An order whose first report is the last one joins at the back.
LEMMA OrderJoined ==
  ASSUME NEW q \in Seq(Slots), NEW s \in Slots, NEW st, NEW ss \in Seq(StatusEvents), NEW e \in StatusEvents,
         InOrder(q, st, Append(ss, e)), InOrder(q, st, ss), st[s].command.id = e.id, Unreported(ss, e.id)
  PROVE  InOrder(Append(q, s), st, Append(ss, e))
<1> DEFINE rs == Append(ss, e)
           r  == Append(q, s)
           n  == Len(q)
           k  == Len(ss)
<1>1. n \in Nat /\ DOMAIN q = 1..n /\ DOMAIN r = 1..(n + 1) /\ r[n + 1] = s /\ \A i \in 1..n : r[i] = q[i]
  BY AppendProperties, LenProperties
<1>2. k \in Nat /\ DOMAIN ss = 1..k /\ DOMAIN rs = 1..(k + 1)
  BY AppendProperties, LenProperties
<1>3. FirstReport(rs, e.id, k + 1)
  BY FirstAppend
<1>4. \A x, i : FirstReport(ss, x, i) => FirstReport(rs, x, i)
  BY FirstAppend
<1> HIDE DEF rs, r, n, k
<1> SUFFICES ASSUME NEW j \in DOMAIN r
             PROVE  \E b \in DOMAIN rs : /\ FirstReport(rs, st[r[j]].command.id, b)
                                         /\ \A i \in DOMAIN r : i < j => \E a \in DOMAIN rs : a < b /\ FirstReport(rs, st[r[i]].command.id, a)
  BY DEF InOrder, rs, r
<1>5. CASE j \in 1..n
  <2>1. PICK b \in DOMAIN rs : /\ FirstReport(rs, st[q[j]].command.id, b)
                               /\ \A i \in DOMAIN q : i < j => \E a \in DOMAIN rs : a < b /\ FirstReport(rs, st[q[i]].command.id, a)
    BY <1>1, <1>5 DEF InOrder, rs
  <2>2. \A i \in DOMAIN r : i < j => i \in DOMAIN q /\ r[i] = q[i]
    BY <1>1, <1>5
  <2>3. r[j] = q[j]
    BY <1>1, <1>5
  <2> QED
    BY <2>1, <2>2, <2>3
<1>6. CASE j = n + 1
  <2>1. k + 1 \in DOMAIN rs /\ FirstReport(rs, st[r[j]].command.id, k + 1)
    BY <1>1, <1>2, <1>3, <1>6
  <2>2. ASSUME NEW i \in DOMAIN r, i < j PROVE \E a \in DOMAIN rs : a < k + 1 /\ FirstReport(rs, st[r[i]].command.id, a)
    <3>1. i \in DOMAIN q /\ r[i] = q[i]
      BY <1>1, <1>6, <2>2
    <3>2. PICK a \in DOMAIN ss : FirstReport(ss, st[q[i]].command.id, a)
      BY <3>1 DEF InOrder
    <3> QED
      BY <1>2, <1>4, <3>1, <3>2
  <2> QED
    BY <2>1, <2>2
<1> QED
  BY <1>1, <1>5, <1>6

\* The orders in use.
LEMMA UsedFacts ==
  ASSUME Inv, NEW s \in Used
  PROVE  /\ s \in Slots /\ storage[s].command \in Commands
         /\ storage[s].command.id \in OrderIds /\ storage[s].command.id \in seen_ids
         /\ storage[s].command.qty \in Nat /\ storage[s].remaining \in Nat
         /\ storage[s].remaining <= storage[s].command.qty
         /\ \A t \in Used : storage[t].command.id = storage[s].command.id => t = s
<1>1. s \in Slots
  BY UsedAreSlots DEF Inv
<1>2. storage[s].command \in Commands /\ storage[s].command \in Command
  BY CommandAssumption DEF Inv, OrdersExact
<1>3. storage[s].remaining \in 0..MaxQty
  BY <1>1 DEF Inv, TypeOK, Order
<1>4. storage[s].command.id \in OrderIds /\ storage[s].command.qty \in Nat
  BY <1>2, QtyAssumption DEF Command
<1>5. /\ storage[s].command.id \in seen_ids /\ storage[s].remaining <= storage[s].command.qty
      /\ \A t \in Used : storage[t].command.id = storage[s].command.id => t = s
  BY DEF Inv, OrdersExact
<1> QED
  BY <1>1, <1>2, <1>3, <1>4, <1>5, QtyAssumption

\* A report without a trade, on an order that was not reported to have ended.
LEMMA ReportStep ==
  ASSUME Inv, ReportInv, NEW e \in StatusEvents, statuses' = Append(statuses, e), trades' = trades, pc' = "idle",
         seen_ids' = seen_ids \cup {e.id}, e.filled = TradedIn(trades, e.id), OpenReports(statuses, e.id, e.filled),
         \A s \in Used' : /\ s \in Used /\ storage'[s].command = storage[s].command
                          /\ storage'[s].remaining = storage[s].remaining
                          /\ storage[s].command.id = e.id => e.status \notin Terminal,
         \A side \in Sides, p \in Prices : InOrder(levels'[side][p], storage', Append(statuses, e))
  PROVE  ReportInv'
<1>1. statuses \in Seq(StatusEvents)
  BY DEF Inv, TypeOK, StatusEvents
<1>2. GoodReports(statuses', trades')
  <2>1. GoodReports(statuses, trades)
    BY DEF ReportInv
  <2>2. PICK ss \in Seq(StatusEvents) : ss = statuses
    BY <1>1
  <2>3. GoodReports(Append(ss, e), trades)
    BY <2>1, <2>2, ReportAppend
  <2> QED
    BY <2>2, <2>3
<1>3. \A i \in DOMAIN statuses' : statuses'[i].id \in seen_ids'
  <2>1. \A i \in DOMAIN statuses : statuses[i].id \in seen_ids
    BY DEF ReportInv
  <2>2. DOMAIN statuses = 1..Len(statuses) /\ DOMAIN statuses' = 1..(Len(statuses) + 1) /\ Len(statuses) \in Nat
        /\ statuses'[Len(statuses) + 1] = e /\ \A i \in 1..Len(statuses) : statuses'[i] = statuses[i]
    BY <1>1, AppendProperties, LenProperties
  <2> QED
    BY <2>1, <2>2
<1>4. \A x \in OrderIds \ seen_ids' : TradedIn(trades', x) = 0
  BY DEF ReportInv
<1>5. ASSUME NEW s \in Used'
      PROVE  /\ TradedIn(trades', storage'[s].command.id) = storage'[s].command.qty - storage'[s].remaining
             /\ OpenReports(statuses', storage'[s].command.id, storage'[s].command.qty - storage'[s].remaining)
  <2>1. PICK x, n : x = storage[s].command.id /\ n = storage[s].command.qty - storage[s].remaining
    OBVIOUS
  <2>2. TradedIn(trades, x) = n /\ OpenReports(statuses, x, n)
    BY <1>5, <2>1 DEF ReportInv
  <2>3. n \in Nat
    BY <1>5, <2>1, UsedFacts
  <2>4. e.id = x => e.status \notin Terminal /\ e.filled <= n
    BY <1>5, <2>1, <2>2, <2>3
  <2>5. OpenReports(Append(statuses, e), x, n)
    BY <1>1, <2>2, <2>4, FirstAppend
  <2> QED
    BY <1>5, <2>1, <2>2, <2>5
<1> QED
  BY <1>2, <1>3, <1>4, <1>5 DEF ReportInv

\* Nothing changes in the queues.
LEMMA QueuesReported ==
  ASSUME Inv, ReportInv, NEW e \in StatusEvents, levels' = levels,
         \A s \in Queued : storage'[s].command = storage[s].command
  PROVE  \A side \in Sides, p \in Prices : InOrder(levels'[side][p], storage', Append(statuses, e))
<1> SUFFICES ASSUME NEW side \in Sides, NEW p \in Prices
             PROVE  InOrder(levels[side][p], storage', Append(statuses, e))
  OBVIOUS
<1>1. PICK q \in Seq(Slots) : q = levels[side][p]
  BY DEF Inv, TypeOK
<1>2. \A i \in DOMAIN q : q[i] \in Queued
  <2>1. \A i \in DOMAIN q : q[i] \in QueuedAt(side, p)
    BY <1>1 DEF QueuedAt, Range
  <2> QED
    BY <2>1 DEF Queued
<1>3. statuses \in Seq(StatusEvents) /\ InOrder(q, storage, statuses)
  BY <1>1 DEF Inv, TypeOK, StatusEvents, ReportInv
<1>4. InOrder(q, storage', Append(statuses, e))
  BY <1>2, <1>3, OrderReported
<1> QED
  BY <1>1, <1>4

\* A rejected order is reported once, with nothing filled.
LEMMA SubmitRejectReport ==
  ASSUME Inv, ReportInv, NEW c \in Commands, SubmitReject(c)
  PROVE  ReportInv'
<1>1. c \in Command /\ c.id \in OrderIds /\ c.qty \in 0..MaxQty
  BY CommandAssumption DEF Command
<1>2. PICK e \in StatusEvents : e = StatusEvent(c, "rejected", c.qty)
  BY <1>1, StatusEventType, QtyAssumption DEF Status
<1>3. e.id = c.id /\ e.filled = 0
  BY <1>1, <1>2, QtyAssumption DEF StatusEvent
<1>4. /\ statuses' = Append(statuses, e) /\ trades' = trades /\ pc' = "idle" /\ seen_ids' = seen_ids \cup {e.id}
      /\ UNCHANGED <<storage, levels, incoming, pc>> /\ e.id \notin seen_ids
  BY <1>2, <1>3 DEF SubmitReject
<1>5. Used' = Used
  BY <1>4 DEF Used, Queued, QueuedAt
<1>6. TradedIn(trades, e.id) = e.filled /\ OpenReports(statuses, e.id, e.filled)
  BY <1>1, <1>3, <1>4 DEF ReportInv, OpenReports
<1>7. \A s \in Used : storage[s].command.id # e.id
  BY <1>4, UsedFacts
<1>8. \A side \in Sides, p \in Prices : InOrder(levels'[side][p], storage', Append(statuses, e))
  BY <1>4, QueuesReported
<1> QED
  BY <1>4, <1>5, <1>6, <1>7, <1>8, ReportStep

\* An order that is accepted is not reported yet.
LEMMA SubmitAcceptReport ==
  ASSUME Inv, ReportInv, NEW c \in Commands, SubmitAccept(c), Inv'
  PROVE  ReportInv'
<1>1. c \in Command /\ c.id \in OrderIds /\ c.qty \in Nat
  BY CommandAssumption, QtyAssumption DEF Command
<1>2. free_slots # <<>>
  BY DEF SubmitAccept, MustReject
<1>3. PICK slot \in Slots : slot = free_slots[Len(free_slots)] /\ slot \in Range(free_slots)
  BY <1>2, PopRange DEF Inv, TypeOK, FreeStackExact
<1>4. slot \notin Used
  BY <1>3 DEF Inv, FreeStackExact
<1>5. /\ pc = "idle" /\ pc' = "match" /\ incoming' = slot
      /\ UNCHANGED <<levels, trades, statuses>>
      /\ c.id \notin seen_ids /\ seen_ids' = seen_ids \cup {c.id}
      /\ storage' = [storage EXCEPT ![slot] = [command |-> c, remaining |-> c.qty, status |-> "open"]]
  BY <1>3 DEF SubmitAccept
<1>6. Used = Queued /\ Queued' = Queued /\ Used' = Used \cup {slot}
  BY <1>5 DEF Used, Queued, QueuedAt
<1>7. storage'[slot].command = c /\ storage'[slot].remaining = c.qty /\ \A s \in Used : storage'[s] = storage[s]
  BY <1>4, <1>5, UsedFacts DEF Inv, TypeOK
<1>8. Unreported(statuses, c.id) /\ TradedIn(trades, c.id) = 0
  BY <1>1, <1>5 DEF ReportInv, Unreported
<1>9. /\ TradedIn(trades, c.id) = c.qty - c.qty
      /\ OpenReports(statuses, c.id, c.qty - c.qty)
  BY <1>1, <1>8 DEF Unreported, OpenReports
<1>10. ASSUME NEW s \in Used'
       PROVE  /\ TradedIn(trades', storage'[s].command.id) = storage'[s].command.qty - storage'[s].remaining
              /\ OpenReports(statuses', storage'[s].command.id, storage'[s].command.qty - storage'[s].remaining)
  <2>1. CASE s = slot
    BY <1>5, <1>7, <1>9, <2>1
  <2>2. CASE s \in Used
    BY <1>5, <1>7, <2>2 DEF ReportInv
  <2> QED
    BY <1>6, <2>1, <2>2
<1>11. ASSUME NEW side \in Sides, NEW p \in Prices
       PROVE  InOrder(levels'[side][p], storage', statuses')
  <2>1. \A i \in DOMAIN levels[side][p] : levels[side][p][i] \in Used
    <3>1. \A i \in DOMAIN levels[side][p] : levels[side][p][i] \in QueuedAt(side, p)
      BY DEF QueuedAt, Range
    <3> QED
      BY <1>6, <3>1 DEF Queued
  <2>2. InOrder(levels[side][p], storage, statuses)
    BY DEF ReportInv
  <2> QED
    BY <1>5, <1>7, <2>1, <2>2 DEF InOrder
<1>12. Unreported(statuses', storage'[incoming'].command.id)
  BY <1>5, <1>7, <1>8
<1>13. GoodReports(statuses', trades') /\ (\A i \in DOMAIN statuses' : statuses'[i].id \in seen_ids')
       /\ \A x \in OrderIds \ seen_ids' : TradedIn(trades', x) = 0
  BY <1>5 DEF ReportInv
<1> QED
  BY <1>10, <1>11, <1>12, <1>13 DEF ReportInv

\* The order being matched: what a report of it says.
LEMMA TakerReport ==
  ASSUME Inv, ReportInv, pc = "match", NEW st \in Status
  PROVE  \E e \in StatusEvents :
           /\ e = StatusEvent(Taker.command, st, Taker.remaining)
           /\ e.id = storage[incoming].command.id /\ e.status = st
           /\ e.filled = TradedIn(trades, e.id) /\ OpenReports(statuses, e.id, e.filled)
           /\ Unreported(statuses, e.id) /\ seen_ids \cup {e.id} = seen_ids
           /\ incoming \in Used /\ incoming \notin Queued
<1>1. incoming \in Used /\ incoming \notin Queued
  BY DEF Used, Inv, QueuesExact
<1>2. PICK e : e = StatusEvent(Taker.command, st, Taker.remaining)
  OBVIOUS
<1>3. Taker = storage[incoming]
  BY DEF Taker
<1>4. /\ Taker.command \in Commands /\ Taker.remaining \in 0..MaxQty /\ Taker.remaining <= Taker.command.qty
      /\ Taker.command.id \in seen_ids
  BY <1>1, <1>3, UsedFacts DEF Inv, TypeOK, Order
<1>5. e \in StatusEvents
  BY <1>2, <1>4, StatusEventType
<1>6. e.id = storage[incoming].command.id /\ e.status = st /\ e.filled = storage[incoming].command.qty - storage[incoming].remaining
  BY <1>2, <1>3 DEF StatusEvent
<1>7. Unreported(statuses, e.id) /\ e.filled = TradedIn(trades, e.id)
  BY <1>1, <1>6 DEF ReportInv
<1>8. OpenReports(statuses, e.id, e.filled)
  BY <1>7 DEF Unreported, OpenReports
<1> QED
  BY <1>1, <1>2, <1>3, <1>4, <1>5, <1>6, <1>7, <1>8

\* An order that does not rest is reported once.
LEMMA DiscardReport ==
  ASSUME Inv, ReportInv, pc = "match", NEW st \in Status, Discard(st)
  PROVE  ReportInv'
<1>1. PICK e \in StatusEvents :
           /\ e = StatusEvent(Taker.command, st, Taker.remaining)
           /\ e.id = storage[incoming].command.id
           /\ e.filled = TradedIn(trades, e.id) /\ OpenReports(statuses, e.id, e.filled)
           /\ seen_ids \cup {e.id} = seen_ids
           /\ incoming \in Used /\ incoming \notin Queued
  BY TakerReport
<1>2. /\ statuses' = Append(statuses, e) /\ trades' = trades /\ pc' = "idle" /\ seen_ids' = seen_ids \cup {e.id}
      /\ levels' = levels /\ storage' = [storage EXCEPT ![incoming].status = st]
  BY <1>1 DEF Discard
<1>3. Queued' = Queued /\ Used' = Queued /\ Queued \subseteq Used
  BY <1>2 DEF Used, Queued, QueuedAt
<1>4. \A s \in Used : /\ storage'[s].command = storage[s].command /\ storage'[s].remaining = storage[s].remaining
  BY <1>1, <1>2, UsedFacts DEF Inv, TypeOK, Order
<1>5. \A s \in Used' : s \in Used /\ storage[s].command.id # e.id
  BY <1>1, <1>3, UsedFacts
<1>6. \A side \in Sides, p \in Prices : InOrder(levels'[side][p], storage', Append(statuses, e))
  BY <1>2, <1>3, <1>4, QueuesReported
<1> QED
  BY <1>1, <1>2, <1>4, <1>5, <1>6, ReportStep

\* An order that comes to rest is reported for the first time, after all that rest already.
LEMMA FinishRestReport ==
  ASSUME Inv, ReportInv, FinishRest
  PROVE  ReportInv'
<1>0. pc = "match" /\ pc' = "idle" /\ Taker.remaining > 0
  BY DEF FinishRest, MatchDone
<1>1. PICK st \in {"open", "partial"} : st = IF Taker.remaining = Taker.command.qty THEN "open" ELSE "partial"
  OBVIOUS
<1>2. PICK e \in StatusEvents :
           /\ e = StatusEvent(Taker.command, st, Taker.remaining)
           /\ e.id = storage[incoming].command.id /\ e.status = st
           /\ e.filled = TradedIn(trades, e.id) /\ OpenReports(statuses, e.id, e.filled)
           /\ Unreported(statuses, e.id) /\ seen_ids \cup {e.id} = seen_ids
           /\ incoming \in Used /\ incoming \notin Queued
  <2>1. st \in Status
    BY DEF Status
  <2> QED
    BY <1>0, <2>1, TakerReport
<1>3. /\ statuses' = Append(statuses, e) /\ trades' = trades /\ seen_ids' = seen_ids \cup {e.id}
      /\ storage' = [storage EXCEPT ![incoming].status = st]
      /\ levels' = [levels EXCEPT ![Taker.command.side][Taker.command.price] = Append(@, incoming)]
  BY <1>1, <1>2 DEF FinishRest
<1>4. PICK inc \in Slots : inc = incoming
  BY <1>2, UsedFacts
<1>5. PICK sd \in Sides, pr \in Prices : sd = Taker.command.side /\ pr = Taker.command.price
  <2>1. Taker.command \in Command /\ valid(Taker.command)
    BY <1>0, <1>2, UsedFacts, CommandAssumption DEF Inv, Matching, Taker
  <2>2. Taker.command.tif = "gtc"
    BY DEF FinishRest, Rests
  <2>3. Taker.command.price # 0 /\ Taker.command.type = "limit"
    BY <2>1, <2>2 DEF valid, Command
  <2> QED
    BY <2>1, <2>3 DEF Command
<1>6. \A s \in Slots : storage'[s].command = storage[s].command /\ storage'[s].remaining = storage[s].remaining
  BY <1>3, <1>4 DEF Inv, TypeOK, Order
<1>7. statuses \in Seq(StatusEvents)
  BY DEF Inv, TypeOK, StatusEvents
<1>8. ASSUME NEW side \in Sides, NEW p \in Prices
      PROVE  /\ levels[side][p] \in Seq(Slots) /\ InOrder(levels[side][p], storage', statuses)
             /\ InOrder(levels[side][p], storage', Append(statuses, e))
  <2>1. PICK q \in Seq(Slots) : q = levels[side][p]
    BY DEF Inv, TypeOK
  <2>2. \A i \in DOMAIN q : storage'[q[i]].command = storage[q[i]].command
    BY <1>6
  <2>3. InOrder(q, storage, statuses)
    BY <2>1 DEF ReportInv
  <2>4. InOrder(q, storage', statuses)
    BY <2>2, <2>3 DEF InOrder
  <2>5. InOrder(q, storage', Append(statuses, e))
    BY <1>7, <2>2, <2>3, OrderReported
  <2> QED
    BY <2>1, <2>4, <2>5
<1>9. PICK q \in Seq(Slots) : q = levels[sd][pr]
  BY <1>8
<1>10. PICK r \in Seq(Slots) : r = Append(q, inc)
  BY AppendProperties
<1>11. levels' = [levels EXCEPT ![sd][pr] = r]
  BY <1>3, <1>4, <1>5, <1>9, <1>10 DEF Inv, TypeOK
<1>12. /\ levels'[sd][pr] = r /\ QueuedAt(sd, pr)' = Range(r)
       /\ \A side \in Sides, p \in Prices : (side # sd \/ p # pr) => levels'[side][p] = levels[side][p]
                                                                  /\ QueuedAt(side, p)' = QueuedAt(side, p)
  <2>1. TypeOK
    BY DEF Inv
  <2> QED
    BY <1>11, <2>1, LevelUpdate
<1>13. InOrder(r, storage', Append(statuses, e))
  <2>1. storage'[inc].command.id = e.id
    BY <1>2, <1>4, <1>6
  <2>2. InOrder(q, storage', statuses) /\ InOrder(q, storage', Append(statuses, e))
    BY <1>8, <1>9
  <2> QED
    BY <1>2, <1>7, <1>10, <2>1, <2>2, OrderJoined
<1>14. \A side \in Sides, p \in Prices : InOrder(levels'[side][p], storage', Append(statuses, e))
  BY <1>8, <1>12, <1>13
<1>15. \A s \in Used' : s \in Used
  <2>1. QueuedAt(sd, pr)' \subseteq QueuedAt(sd, pr) \cup {inc}
    <3>1. DOMAIN r = 1..(Len(q) + 1) /\ DOMAIN q = 1..Len(q) /\ Len(q) \in Nat
          /\ r[Len(q) + 1] = inc /\ \A i \in 1..Len(q) : r[i] = q[i]
      BY <1>10, AppendProperties, LenProperties
    <3>2. \A i \in DOMAIN r : r[i] = inc \/ r[i] \in Range(q)
      BY <3>1 DEF Range
    <3> QED
      BY <1>9, <1>12, <3>2 DEF QueuedAt, Range
  <2>2. Used' = Queued'
    BY <1>0 DEF Used
  <2>3. \A s : s \in Queued' <=> \E side \in Sides, p \in Prices : s \in QueuedAt(side, p)'
    BY DEF Queued
  <2>4. \A side \in Sides, p \in Prices : QueuedAt(side, p) \subseteq Used
    BY DEF Queued, Used
  <2>5. ASSUME NEW s \in Used' PROVE s \in Used
    <3>1. PICK side \in Sides, p \in Prices : s \in QueuedAt(side, p)'
      BY <2>2, <2>3, <2>5
    <3>2. s \in QueuedAt(side, p) \/ s = inc
      BY <1>12, <2>1, <3>1
    <3> QED
      BY <1>2, <1>4, <2>4, <3>2
  <2> QED
    BY <2>5
<1>16. \A s \in Used' : /\ s \in Used /\ storage'[s].command = storage[s].command
                        /\ storage'[s].remaining = storage[s].remaining
                        /\ storage[s].command.id = e.id => e.status \notin Terminal
  BY <1>2, <1>6, <1>15, UsedFacts DEF Terminal
<1> QED
  BY <1>0, <1>2, <1>3, <1>14, <1>16, ReportStep

\* A queue of the book loses one order.
LEMMA QueueDropped ==
  ASSUME Inv, ReportInv, NEW sd \in Sides, NEW pr \in Prices, NEW r \in Seq(Slots),
         NEW n, NEW k, Drops(levels[sd][pr], r, n, k), levels' = [levels EXCEPT ![sd][pr] = r],
         NEW e \in StatusEvents, \A s \in Slots : storage'[s].command = storage[s].command
  PROVE  \A side \in Sides, p \in Prices : InOrder(levels'[side][p], storage', Append(statuses, e))
<1>1. statuses \in Seq(StatusEvents) /\ levels \in [Sides -> [Prices -> Seq(Slots)]]
  BY DEF Inv, TypeOK, StatusEvents
<1>0. /\ levels' \in [Sides -> [Prices -> Seq(Slots)]] /\ levels'[sd][pr] = r
      /\ \A side \in Sides, p \in Prices : (side # sd \/ p # pr) => levels'[side][p] = levels[side][p]
  BY <1>1
<1> SUFFICES ASSUME NEW side \in Sides, NEW p \in Prices
             PROVE  InOrder(levels'[side][p], storage', Append(statuses, e))
  OBVIOUS
<1>2. /\ levels' \in [Sides -> [Prices -> Seq(Slots)]] /\ levels'[sd][pr] = r
      /\ (side # sd \/ p # pr) => levels'[side][p] = levels[side][p]
  BY <1>0
<1>3. PICK q \in Seq(Slots) : q = levels'[side][p]
  BY <1>2
<1>4. InOrder(q, storage, statuses)
  <2>1. CASE side = sd /\ p = pr
    <3>1. q = r
      BY <1>2, <1>3, <2>1
    <3>2. InOrder(levels[sd][pr], storage, statuses)
      BY DEF ReportInv
    <3> QED
      BY <3>1, <3>2, OrderDropped
  <2>2. CASE side # sd \/ p # pr
    <3>1. q = levels[side][p]
      BY <1>2, <1>3, <2>2
    <3> QED
      BY <3>1 DEF ReportInv
  <2> QED
    BY <2>1, <2>2
<1>5. \A i \in DOMAIN q : storage'[q[i]].command = storage[q[i]].command
  OBVIOUS
<1>6. InOrder(q, storage', Append(statuses, e))
  BY <1>1, <1>4, <1>5, OrderReported
<1> QED
  BY <1>3, <1>6

\* A canceled order is reported for the last time.
LEMMA CancelReport ==
  ASSUME Inv, ReportInv, NEW id, Cancel(id), Inv'
  PROVE  ReportInv'
<1>1. PICK e0 \in by_id :
        LET o == storage[e0[2]] IN
        /\ e0[1] = id /\ Cancelable(o)
        /\ remove(e0[2], o.command)
        /\ storage' = [storage EXCEPT ![e0[2]].status = "canceled"]
        /\ statuses' = Append(statuses, StatusEvent(o.command, "canceled", o.remaining))
        /\ by_id' = ReleaseId(o.command.id)
  BY DEF Cancel
<1>2. pc = "idle" /\ UNCHANGED <<seen_ids, pc, incoming, trades>>
  BY DEF Cancel
<1>3. PICK slot \in Used : e0 = <<storage[slot].command.id, slot>>
  BY DEF Inv, IndexExact
<1>4. e0[2] = slot /\ slot \in Queued /\ slot \in Slots
  BY <1>2, <1>3, UsedFacts DEF Used
<1>5. PICK sd \in Sides, pr \in Prices : slot \in QueuedAt(sd, pr)
  BY <1>4 DEF Queued
<1>6. storage[slot].command.side = sd /\ storage[slot].command.price = pr
  BY <1>5 DEF Inv, QueuesExact
<1>7. PICK k \in DOMAIN levels[sd][pr] :
        /\ levels[sd][pr][k] = slot
        /\ levels' = [levels EXCEPT ![sd][pr] = RemoveAt(@, k)]
  BY <1>1, <1>4, <1>6 DEF remove
<1>8. levels[sd][pr] \in Seq(Slots) /\ IsInjective(levels[sd][pr])
  BY DEF Inv, TypeOK, QueuesExact
<1>9. PICK r \in Seq(Slots) : r = RemoveAt(levels[sd][pr], k) /\ Drops(levels[sd][pr], r, Len(levels[sd][pr]), k)
  BY <1>8, RemoveAtRange
<1>10. levels' = [levels EXCEPT ![sd][pr] = r]
  BY <1>7, <1>9 DEF Inv, TypeOK
<1>11. \A s \in Slots : storage'[s].command = storage[s].command /\ storage'[s].remaining = storage[s].remaining
  BY <1>1, <1>4 DEF Inv, TypeOK, Order
<1>12. PICK e : e = StatusEvent(storage[slot].command, "canceled", storage[slot].remaining)
  OBVIOUS
<1>13. e \in StatusEvents
  <2>1. /\ storage[slot].command \in Commands /\ storage[slot].remaining \in 0..MaxQty
        /\ storage[slot].remaining <= storage[slot].command.qty
    BY <1>3, <1>4, UsedFacts DEF Inv, TypeOK, Order
  <2> QED
    BY <1>12, <2>1, StatusEventType DEF Status
<1>14. e.id = storage[slot].command.id /\ e.filled = storage[slot].command.qty - storage[slot].remaining
  BY <1>12 DEF StatusEvent
<1>15. e.filled = TradedIn(trades, e.id) /\ OpenReports(statuses, e.id, e.filled)
  BY <1>3, <1>14 DEF ReportInv
<1>16. \A side \in Sides, p \in Prices : InOrder(levels'[side][p], storage', Append(statuses, e))
  BY <1>9, <1>10, <1>11, <1>13, QueueDropped
<1>17. ASSUME NEW s \in Used' PROVE s \in Used /\ storage[s].command.id # e.id
  <2>1. <<storage'[s].command.id, s>> \in by_id'
    <3>1. by_id' = {<<storage'[u].command.id, u>> : u \in Used'}
      BY DEF Inv, IndexExact
    <3> QED
      BY <1>17, <3>1
  <2>2. PICK x : x = <<storage'[s].command.id, s>>
    OBVIOUS
  <2>3. x \in by_id /\ x[1] # e.id
    <3>1. by_id' = ReleaseId(storage[slot].command.id)
      BY <1>1, <1>4
    <3>2. by_id' = {f \in by_id : f[1] # e.id}
      BY <1>14, <3>1 DEF ReleaseId
    <3> QED
      BY <2>1, <2>2, <3>2
  <2>4. PICK t \in Used : x = <<storage[t].command.id, t>>
    BY <2>3 DEF Inv, IndexExact
  <2>5. t = s
    BY <2>2, <2>4
  <2> QED
    BY <2>3, <2>4, <2>5
<1>18. \A s \in Used' : /\ s \in Used /\ storage'[s].command = storage[s].command
                        /\ storage'[s].remaining = storage[s].remaining
                        /\ storage[s].command.id = e.id => e.status \notin Terminal
  BY <1>11, <1>17, UsedFacts
<1>19. statuses' = Append(statuses, e) /\ trades' = trades /\ pc' = "idle"
  BY <1>1, <1>2, <1>4, <1>12
<1>20. seen_ids' = seen_ids \cup {e.id}
  BY <1>2, <1>3, <1>14, UsedFacts
<1> QED
  BY <1>13, <1>15, <1>16, <1>18, <1>19, <1>20, ReportStep

\* The index after release(): the orders still in use are the others.
LEMMA ReleasedId ==
  ASSUME Inv, IndexExact', NEW x, by_id' = ReleaseId(x), NEW s \in Used'
  PROVE  s \in Used /\ storage'[s].command.id # x
<1>1. PICK e : e = <<storage'[s].command.id, s>>
  OBVIOUS
<1>2. e \in by_id'
  BY <1>1 DEF IndexExact
<1>3. e \in by_id /\ e[1] # x
  BY <1>2 DEF ReleaseId
<1>4. PICK t \in Used : e = <<storage[t].command.id, t>>
  BY <1>3 DEF Inv, IndexExact
<1> QED
  BY <1>1, <1>3, <1>4

\* A fill is reported of the maker, and adds to what the maker and the taker have traded.
LEMMA MatchOneReport ==
  ASSUME Inv, ReportInv, MatchOne, Inv'
  PROVE  ReportInv'
<1>1. PICK sd \in Sides, pr \in Prices, slot \in Slots, fill \in 1..MaxQty, left \in 0..MaxQty, st \in {"filled", "partial"} :
        Fills(sd, pr, slot, fill, left, st)
  BY MatchOneFacts
<1>2. PICK x, y : x = storage[slot].command.id /\ y = storage[incoming].command.id
  OBVIOUS
<1>3. /\ pc = "match" /\ pc' = "match" /\ seen_ids' = seen_ids /\ incoming' = incoming
      /\ slot \in Used /\ incoming \in Used /\ incoming # slot /\ incoming \in Slots
      /\ left = storage[slot].remaining - fill /\ storage'[slot].remaining = left
      /\ storage'[incoming].remaining = storage[incoming].remaining - fill
  BY <1>1 DEF Fills
<1>4. \A s \in Slots : /\ storage'[s].command = storage[s].command
                       /\ s \notin {slot, incoming} => storage'[s] = storage[s]
  BY <1>1 DEF Fills
<1>5. x # y /\ x \in OrderIds /\ y \in OrderIds /\ x \in seen_ids /\ y \in seen_ids
  BY <1>2, <1>3, UsedFacts
<1>6. fill \in Nat /\ fill > 0
  BY QtyAssumption
<1>7. PICK t \in TradeEvents : /\ trades' = Append(trades, t) /\ t.maker = x /\ t.taker = y /\ t.qty = fill
  <2>1. [maker |-> x, taker |-> y, price |-> pr, qty |-> fill] \in TradeEvents
    BY <1>5 DEF TradeEvents
  <2>2. trades' = Append(trades, [maker |-> x, taker |-> y, price |-> pr, qty |-> fill])
    BY <1>1, <1>2 DEF Fills
  <2> QED
    BY <2>1, <2>2
<1>8. trades \in Seq(TradeEvents) /\ statuses \in Seq(StatusEvents)
  BY DEF Inv, TypeOK, StatusEvents, TradeEvents
<1>9. ASSUME NEW z
      PROVE  /\ TradedIn(trades, z) \in Int
             /\ z \in {x, y} => TradedIn(trades', z) = TradedIn(trades, z) + fill
             /\ z \notin {x, y} => TradedIn(trades', z) = TradedIn(trades, z)
  <2>1. /\ TradedIn(trades, z) \in Int
        /\ TradedIn(Append(trades, t), z) = TradedIn(trades, z) + (IF z \in {t.maker, t.taker} THEN t.qty ELSE 0)
    BY <1>8, TradedAppend
  <2> QED
    BY <1>6, <1>7, <2>1
<1>10. PICK e : e = StatusEvent(storage[slot].command, st, left)
  OBVIOUS
<1>11. /\ statuses' = Append(statuses, e) /\ e.id = x /\ e.status = st
       /\ e.filled = storage[slot].command.qty - left
  BY <1>1, <1>2, <1>10 DEF Fills, StatusEvent
<1>12. e \in StatusEvents
  <2>1. /\ storage[slot].command \in Commands /\ storage[slot].remaining <= storage[slot].command.qty
        /\ storage[slot].command.qty \in Nat /\ storage[slot].remaining \in Nat
    BY <1>3, UsedFacts
  <2>2. left <= storage[slot].command.qty
    BY <1>3, <1>6, <2>1
  <2>3. st \in Status
    BY DEF Status
  <2> QED
    BY <1>10, <2>1, <2>2, <2>3, StatusEventType
<1>13. PICK m, n : m = storage[slot].command.qty - storage[slot].remaining /\ n = storage[slot].command.qty - left
  OBVIOUS
<1>14. m \in Nat /\ n = m + fill
  BY <1>3, <1>6, <1>13, UsedFacts
<1>15. TradedIn(trades, x) = m /\ OpenReports(statuses, x, m)
  BY <1>2, <1>3, <1>13 DEF ReportInv
<1>16. TradedIn(trades', x) = n /\ e.filled = n
  BY <1>9, <1>11, <1>13, <1>14, <1>15
<1>17. OpenReports(statuses, x, n)
  <2>1. \A i \in DOMAIN statuses : statuses[i].filled \in Int
    <3>1. \A u \in StatusEvents : u.filled \in Int
      BY QtyAssumption DEF StatusEvents
    <3>2. \A i \in DOMAIN statuses : statuses[i] \in StatusEvents
      BY <1>8
    <3> QED
      BY <3>1, <3>2
  <2> QED
    BY <1>14, <1>15, <1>6, <2>1 DEF OpenReports
<1>18. Unreported(statuses, y)
  BY <1>2, <1>3 DEF ReportInv
<1>19. GoodReports(statuses', trades')
  <2>1. PICK us : us = trades'
    OBVIOUS
  <2>2. \A i \in DOMAIN statuses : statuses[i].id # e.id => TradedIn(us, statuses[i].id) = TradedIn(trades, statuses[i].id)
    BY <1>9, <1>11, <1>18, <2>1 DEF Unreported
  <2>3. GoodReports(statuses, trades)
    BY DEF ReportInv
  <2>4. e.filled = TradedIn(us, e.id) /\ OpenReports(statuses, e.id, e.filled)
    BY <1>11, <1>16, <1>17, <2>1
  <2>5. GoodReports(Append(statuses, e), us)
    BY <1>8, <1>12, <2>2, <2>3, <2>4, ReportAppend
  <2> QED
    BY <1>11, <2>1, <2>5
<1>20. \A i \in DOMAIN statuses' : statuses'[i].id \in seen_ids'
  <2>1. \A i \in DOMAIN statuses : statuses[i].id \in seen_ids
    BY DEF ReportInv
  <2>2. DOMAIN statuses = 1..Len(statuses) /\ DOMAIN statuses' = 1..(Len(statuses) + 1) /\ Len(statuses) \in Nat
        /\ statuses'[Len(statuses) + 1] = e /\ \A i \in 1..Len(statuses) : statuses'[i] = statuses[i]
    BY <1>8, <1>11, <1>12, AppendProperties, LenProperties
  <2> QED
    BY <1>3, <1>5, <1>11, <2>1, <2>2
<1>21. \A z \in OrderIds \ seen_ids' : TradedIn(trades', z) = 0
  <2>1. \A z \in OrderIds \ seen_ids : TradedIn(trades, z) = 0
    BY DEF ReportInv
  <2> QED
    BY <1>3, <1>5, <1>9, <2>1
<1>22. ASSUME NEW s \in Used' PROVE s \in Used /\ (s = slot => left # 0)
  <2>1. CASE left = 0
    <3>1. by_id' = ReleaseId(x)
      BY <1>1, <1>2, <2>1 DEF Fills
    <3>2. IndexExact'
      BY DEF Inv
    <3>3. s \in Used /\ storage'[s].command.id # x
      BY <1>22, <3>1, <3>2, ReleasedId
    <3> QED
      BY <1>2, <1>4, <3>3
  <2>2. CASE left # 0
    <3>1. levels' = levels
      BY <1>1, <2>2 DEF Fills
    <3>2. Used' = Used
      BY <1>3, <3>1 DEF Used, Queued, QueuedAt
    <3> QED
      BY <1>22, <2>2, <3>2
  <2> QED
    BY <2>1, <2>2
<1>23. left # 0 => st = "partial"
  BY <1>1 DEF Fills
<1>24. ASSUME NEW s \in Used'
       PROVE  /\ TradedIn(trades', storage'[s].command.id) = storage'[s].command.qty - storage'[s].remaining
              /\ OpenReports(statuses', storage'[s].command.id, storage'[s].command.qty - storage'[s].remaining)
  <2>1. s \in Used /\ s \in Slots /\ (s = slot => left # 0)
    BY <1>22, <1>24, UsedFacts
  <2>2. PICK z, o, a : z = storage[s].command.id /\ o = storage[s].command.qty - storage[s].remaining
                       /\ a = storage[s].command.qty - storage'[s].remaining
    OBVIOUS
  <2>3. storage'[s].command = storage[s].command
    BY <1>4, <2>1
  <2>4. o \in Nat /\ TradedIn(trades, z) = o /\ OpenReports(statuses, z, o)
    BY <2>1, <2>2, UsedFacts DEF ReportInv
  <2>5. CASE s = slot
    <3>1. z = x /\ a = n
      BY <1>2, <1>3, <1>13, <2>2, <2>5
    <3>2. e.status \notin Terminal /\ e.filled <= n
      BY <1>11, <1>14, <1>16, <1>23, <2>1, <2>5 DEF Terminal
    <3>3. OpenReports(Append(statuses, e), x, n)
      BY <1>8, <1>12, <1>17, <3>2, FirstAppend
    <3> QED
      BY <1>11, <1>16, <2>2, <2>3, <3>1, <3>3
  <2>6. CASE s = incoming
    <3>1. z = y /\ a = o + fill
      BY <1>2, <1>3, <1>6, <2>1, <2>2, <2>6, UsedFacts
    <3>2. Unreported(Append(statuses, e), y)
      BY <1>5, <1>8, <1>11, <1>12, <1>18, FirstAppend
    <3>3. OpenReports(Append(statuses, e), y, a)
      BY <3>2 DEF Unreported, OpenReports
    <3>4. TradedIn(trades', y) = a
      BY <1>9, <2>4, <3>1
    <3> QED
      BY <1>11, <2>2, <2>3, <3>1, <3>3, <3>4
  <2>7. CASE s \notin {slot, incoming}
    <3>1. z # x /\ z # y /\ a = o
      BY <1>2, <1>3, <1>4, <2>1, <2>2, <2>7, UsedFacts
    <3>2. OpenReports(Append(statuses, e), z, o)
      BY <1>8, <1>11, <1>12, <2>4, <3>1, FirstAppend
    <3> QED
      BY <1>9, <1>11, <2>2, <2>3, <2>4, <3>1, <3>2
  <2> QED
    BY <2>5, <2>6, <2>7
<1>25. Unreported(statuses', storage'[incoming'].command.id)
  <2>1. Unreported(Append(statuses, e), y)
    BY <1>5, <1>8, <1>11, <1>12, <1>18, FirstAppend
  <2> QED
    BY <1>2, <1>3, <1>4, <1>11, <2>1
<1>26. \A side \in Sides, p \in Prices : InOrder(levels'[side][p], storage', Append(statuses, e))
  <2>0. \A s \in Slots : storage'[s].command = storage[s].command
    BY <1>4
  <2>1. CASE left = 0
    <3>1. levels[sd][pr] \in Seq(Slots) /\ levels[sd][pr] # <<>> /\ IsInjective(levels[sd][pr])
      <4>1. levels[sd][pr] # <<>>
        BY <1>1 DEF Fills
      <4> QED
        BY <4>1 DEF Inv, TypeOK, QueuesExact
    <3>2. PICK r \in Seq(Slots) : r = Tail(levels[sd][pr]) /\ Drops(levels[sd][pr], r, Len(levels[sd][pr]), 1)
      BY <3>1, TailRange
    <3>3. levels' = [levels EXCEPT ![sd][pr] = r]
      BY <1>1, <2>1, <3>2 DEF Fills
    <3> QED
      BY <1>12, <2>0, <3>2, <3>3, QueueDropped
  <2>2. CASE left # 0
    <3>1. levels' = levels
      BY <1>1, <2>2 DEF Fills
    <3>2. \A s \in Queued : storage'[s].command = storage[s].command
      BY <2>0, UsedAreSlots DEF Inv
    <3> QED
      BY <1>12, <3>1, <3>2, QueuesReported
  <2> QED
    BY <2>1, <2>2
<1>27. \A side \in Sides, p \in Prices : InOrder(levels'[side][p], storage', statuses')
  BY <1>11, <1>26
<1> QED
  BY <1>19, <1>20, <1>21, <1>24, <1>25, <1>27 DEF ReportInv

\* A step that changes nothing.
LEMMA ReportStutter == ASSUME ReportInv, UNCHANGED vars PROVE ReportInv'
<1>1. UNCHANGED <<storage, seen_ids, levels, pc, incoming, trades, statuses>>
  BY DEF vars
<1>2. Used' = Used
  BY <1>1 DEF Used, Queued, QueuedAt
<1>3. /\ GoodReports(statuses', trades')
      /\ \A i \in DOMAIN statuses' : statuses'[i].id \in seen_ids'
      /\ \A x \in OrderIds \ seen_ids' : TradedIn(trades', x) = 0
      /\ pc' = "match" => Unreported(statuses', storage'[incoming'].command.id)
  BY <1>1 DEF ReportInv
<1>4. \A s \in Used' : /\ TradedIn(trades', storage'[s].command.id) = storage'[s].command.qty - storage'[s].remaining
                       /\ OpenReports(statuses', storage'[s].command.id, storage'[s].command.qty - storage'[s].remaining)
  BY <1>1, <1>2 DEF ReportInv
<1>5. \A side \in Sides, p \in Prices : InOrder(levels'[side][p], storage', statuses')
  BY <1>1 DEF ReportInv
<1> QED
  BY <1>3, <1>4, <1>5 DEF ReportInv

\* Nothing is reported and nothing traded of an empty book.
LEMMA ReportInit == ASSUME Init PROVE ReportInv
<1>1. /\ statuses = <<>> /\ trades = <<>> /\ pc = "idle" /\ levels = [side \in Sides |-> [p \in Prices |-> <<>>]]
  BY DEF Init
<1>2. DOMAIN statuses = {} /\ DOMAIN trades = {}
  BY <1>1
<1>3. Used = {}
  <2>1. \A side \in Sides, p \in Prices : QueuedAt(side, p) = {}
    BY <1>1 DEF QueuedAt, Range
  <2> QED
    BY <1>1, <2>1 DEF Used, Queued
<1>4. \A x : TradedIn(trades, x) = 0
  <2>1. TAKE x
  <2>2. PICK f : f = [i \in DOMAIN trades |-> IF x \in {trades[i].maker, trades[i].taker} THEN trades[i].qty ELSE 0]
    OBVIOUS
  <2>3. SumFunctionOnSet(f, {}) = 0
    BY SumEmpty
  <2> QED
    BY <1>2, <2>2, <2>3 DEF TradedIn
<1>5. GoodReports(statuses, trades)
  BY <1>2 DEF GoodReports
<1>6. \A side \in Sides, p \in Prices : InOrder(levels[side][p], storage, statuses)
  BY <1>1 DEF InOrder
<1> QED
  BY <1>1, <1>2, <1>3, <1>4, <1>5, <1>6 DEF ReportInv

\* Every step of the book keeps the reports right.
LEMMA ReportNext == ASSUME Inv, Inv', ReportInv, [Next]_vars PROVE ReportInv'
<1>1. ASSUME NEW c \in Commands, SubmitDuplicate(c) PROVE ReportInv'
  BY <1>1, ReportStutter DEF SubmitDuplicate
<1>2. ASSUME NEW c \in Commands, SubmitReject(c) PROVE ReportInv'
  BY <1>2, SubmitRejectReport
<1>3. ASSUME NEW c \in Commands, SubmitAccept(c) PROVE ReportInv'
  BY <1>3, SubmitAcceptReport
<1>4. CASE MatchOne
  BY <1>4, MatchOneReport
<1>5. CASE FinishFilled
  BY <1>5, DiscardReport DEF FinishFilled, MatchDone, Status
<1>6. CASE FinishRest
  BY <1>6, FinishRestReport
<1>7. CASE FinishDiscard
  <2>1. PICK st \in {"rejected", "canceled"} :
          st = IF Taker.remaining = Taker.command.qty THEN "rejected" ELSE "canceled"
    OBVIOUS
  <2>2. pc = "match" /\ Discard(st)
    BY <1>7, <2>1 DEF FinishDiscard, MatchDone
  <2> QED
    BY <2>2, DiscardReport DEF Status
<1>8. ASSUME NEW id \in OrderIds, Cancel(id) PROVE ReportInv'
  BY <1>8, CancelReport
<1>9. ASSUME NEW id \in OrderIds, CancelUnknown(id) PROVE ReportInv'
  BY <1>9, ReportStutter DEF CancelUnknown
<1>10. CASE UNCHANGED vars
  BY <1>10, ReportStutter
<1> QED
  BY <1>1, <1>2, <1>3, <1>4, <1>5, <1>6, <1>7, <1>8, <1>9, <1>10 DEF Next

\* Every report the engine emits, over any sequence of submit() and cancel(), agrees with
\* the trades, and every queue of the book is in the order its orders were first reported.
THEOREM ReportsKept == Spec => [](Inv /\ ReportInv)
<1>1. Init => Inv /\ ReportInv
  BY InitInv, ReportInit
<1>2. (Inv /\ ReportInv) /\ [Next]_vars => (Inv /\ ReportInv)'
  BY NextInv, ReportNext
<1> QED
  BY <1>1, <1>2, PTL DEF Spec

\* The OrderStatus stream of submit() and cancel() adds up to the Trade stream: nothing
\* follows a terminal status, no reported fill shrinks, and the last one is what was traded.
THEOREM ReportsAlwaysAddUp == Spec => []ReportsAddUp
<1>1. Inv /\ ReportInv => ReportsAddUp
  <2>1. \A x : Traded(x) = TradedIn(trades, x)
    BY DEF Traded, TradedIn
  <2> QED
    BY <2>1 DEF ReportInv, GoodReports, ReportsAddUp
<1> QED
  BY <1>1, ReportsKept, PTL

\* The arrival of an order is its first report.
LEMMA ArrivedFirst ==
  ASSUME statuses \in Seq(StatusEvents), NEW x, NEW i, FirstReport(statuses, x, i)
  PROVE  Arrived(x) = i
<1>1. DOMAIN statuses \subseteq Int
  BY LenProperties
<1>2. i \in DOMAIN statuses /\ statuses[i].id = x /\ \A j \in DOMAIN statuses : statuses[j].id = x => i <= j
  BY DEF FirstReport
<1>3. ASSUME NEW k \in DOMAIN statuses, statuses[k].id = x, \A j \in DOMAIN statuses : statuses[j].id = x => k <= j
      PROVE  k = i
  BY <1>1, <1>2, <1>3
<1>4. \A k \in DOMAIN statuses : (statuses[k].id = x /\ \A j \in DOMAIN statuses : statuses[j].id = x => k <= j) <=> k = i
  BY <1>2, <1>3
<1> QED
  BY <1>2, <1>4 DEF Arrived

\* A fill takes the front of the best level: every other order of that side is worse, or came later.
LEMMA FillIsFirst ==
  ASSUME Inv, ReportInv, MatchOne,
         NEW p \in LevelPrices(Opposite(Taker.command.side)), NEW s \in QueuedAt(Opposite(Taker.command.side), p)
  PROVE  \/ storage[s].command.id = trades'[Len(trades')].maker
         \/ Opposite(Taker.command.side) = "buy"  /\ p < trades'[Len(trades')].price
         \/ Opposite(Taker.command.side) = "sell" /\ p > trades'[Len(trades')].price
         \/ /\ p = trades'[Len(trades')].price
            /\ Arrived(trades'[Len(trades')].maker) < Arrived(storage[s].command.id)
<1>1. PICK sd \in Sides, pr \in Prices, slot \in Slots, fill \in 1..MaxQty, left \in 0..MaxQty, st \in {"filled", "partial"} :
        Fills(sd, pr, slot, fill, left, st)
  BY MatchOneFacts
<1>2. /\ IsBest(sd, pr) /\ sd = Opposite(Taker.command.side) /\ slot = levels[sd][pr][1]
      /\ levels[sd][pr] # <<>>
  BY <1>1 DEF Fills, Taker
<1>3. PICK t : t = trades'[Len(trades')]
  OBVIOUS
<1>4. t.maker = storage[slot].command.id /\ t.price = pr
  <2>1. PICK u : /\ u = [maker |-> storage[slot].command.id, taker |-> storage[incoming].command.id,
                         price |-> pr, qty |-> fill]
                /\ trades' = Append(trades, u) /\ trades' \in Seq(TradeEvents)
    BY <1>1 DEF Fills
  <2>2. trades \in Seq(TradeEvents)
    BY DEF Inv, TypeOK, TradeEvents
  <2>3. Len(trades') = Len(trades) + 1 /\ trades'[Len(trades) + 1] = u
    BY <2>1, <2>2, AppendProperties
  <2> QED
    BY <1>3, <2>1, <2>3
<1>5. /\ p \in Prices /\ (IF sd = "buy" THEN p <= pr ELSE pr <= p) /\ s \in QueuedAt(sd, p)
  BY <1>2 DEF IsBest, LevelPrices
<1>6. p \in Nat /\ pr \in Nat
  BY <1>5, PricesAssumption
<1>7. CASE p # pr
  BY <1>2, <1>3, <1>4, <1>5, <1>6, <1>7 DEF Sides
<1>8. CASE p = pr
  <2>1. PICK q \in Seq(Slots) : q = levels[sd][pr]
    BY DEF Inv, TypeOK
  <2>2. PICK j \in DOMAIN q : q[j] = s
    BY <1>5, <1>8, <2>1 DEF QueuedAt, Range
  <2>3. DOMAIN q = 1..Len(q) /\ Len(q) \in Nat
    BY LenProperties
  <2>4. CASE j = 1
    BY <1>2, <1>3, <1>4, <2>1, <2>2, <2>4
  <2>5. CASE j # 1
    <3>1. 1 \in DOMAIN q /\ 1 < j
      BY <2>3, <2>5
    <3>2. InOrder(q, storage, statuses)
      BY <2>1 DEF ReportInv
    <3>3. PICK b \in DOMAIN statuses : /\ FirstReport(statuses, storage[q[j]].command.id, b)
                                       /\ \E a \in DOMAIN statuses : a < b /\ FirstReport(statuses, storage[q[1]].command.id, a)
      BY <3>1, <3>2 DEF InOrder
    <3>4. PICK a \in DOMAIN statuses : a < b /\ FirstReport(statuses, storage[q[1]].command.id, a)
      BY <3>3
    <3>5. statuses \in Seq(StatusEvents)
      BY DEF Inv, TypeOK, StatusEvents
    <3>6. Arrived(storage[q[j]].command.id) = b
      BY <3>3, <3>5, ArrivedFirst
    <3>7. Arrived(storage[q[1]].command.id) = a
      BY <3>4, <3>5, ArrivedFirst
    <3>8. Arrived(t.maker) < Arrived(storage[s].command.id)
      BY <1>2, <1>4, <2>1, <2>2, <3>4, <3>6, <3>7
    <3> QED
      BY <1>3, <1>4, <1>8, <3>8
  <2> QED
    BY <2>4, <2>5
<1> QED
  BY <1>7, <1>8

\* Price-time priority of match(), for every sequence of commands: a trade takes the best
\* price of the other side, and at that price the order that came to rest first.
THEOREM PriorityKept == Spec => PriceTimePriority
<1>1. Inv /\ ReportInv /\ [Next]_vars =>
        [Len(trades') > Len(trades) =>
           LET t    == trades'[Len(trades')]
               side == Opposite(Taker.command.side)
           IN \A p \in LevelPrices(side) : \A s \in QueuedAt(side, p) :
                LET other == storage[s].command.id IN
                \/ other = t.maker
                \/ side = "buy"  /\ p < t.price
                \/ side = "sell" /\ p > t.price
                \/ p = t.price /\ Arrived(t.maker) < Arrived(other)]_vars
  <2> SUFFICES ASSUME Inv, ReportInv, Next, Len(trades') > Len(trades)
               PROVE  LET t    == trades'[Len(trades')]
                          side == Opposite(Taker.command.side)
                      IN \A p \in LevelPrices(side) : \A s \in QueuedAt(side, p) :
                           LET other == storage[s].command.id IN
                           \/ other = t.maker
                           \/ side = "buy"  /\ p < t.price
                           \/ side = "sell" /\ p > t.price
                           \/ p = t.price /\ Arrived(t.maker) < Arrived(other)
    OBVIOUS
  <2>1. Len(trades) \in Nat
    BY LenProperties DEF Inv, TypeOK
  <2>2. trades' # trades
    BY <2>1
  <2>3. MatchOne
    BY <2>2 DEF Next, SubmitDuplicate, SubmitReject, SubmitAccept, FinishFilled, FinishRest, FinishDiscard, Discard,
                Cancel, CancelUnknown, vars
  <2> QED
    BY <2>3, FillIsFirst
<1> QED
  BY <1>1, ReportsKept, PTL DEF PriceTimePriority, Spec

-----------------------------------------------------------------------------
(* A fill-or-kill order. *)

\* What the orders in the slots S have left, the orders being st.
Left(st, S) == SumFunctionOnSet([s \in Slots |-> st[s].remaining], S)

\* The inductive invariant of a fill-or-kill order: what it still wants is still on offer.
KillInv == pc = "match" /\ Taker.command.tif = "fok" => Taker.remaining <= Left(storage, Offers(Taker.command))

\* What slots have left is a natural number.
LEMMA LeftType ==
  ASSUME NEW st \in [Slots -> Order], NEW S \in SUBSET Slots
  PROVE  /\ Left(st, S) \in Nat /\ IsFiniteSet(S) /\ [s \in Slots |-> st[s].remaining] \in [Slots -> Int]
         /\ Left(st, {}) = 0
<1>1. IsFiniteSet(S)
  BY SlotsFinite, FS_Subset
<1>2. \A s \in Slots : st[s].remaining \in Nat /\ st[s].remaining \in Int
  <2>1. \A o \in Order : o.remaining \in 0..MaxQty
    BY DEF Order
  <2>2. \A s \in Slots : st[s].remaining \in 0..MaxQty
    BY <2>1
  <2> QED
    BY <2>2, QtyAssumption
<1>3. PICK f : f = [s \in Slots |-> st[s].remaining] /\ f \in [Slots -> Int]
  <2>1. [s \in Slots |-> st[s].remaining] \in [Slots -> Int]
    BY <1>2
  <2> QED
    BY <2>1
<1>4. \A s \in S : 0 <= f[s]
  BY <1>2, <1>3
<1>5. SumFunctionOnSet(f, S) \in Nat
  BY <1>1, <1>3, <1>4, SumNat
<1> QED
  BY <1>1, <1>3, <1>5, SumEmpty DEF Left

\* One order of the slots S gives fill, and leaves them or not.
LEMMA LeftAfterFill ==
  ASSUME NEW st \in [Slots -> Order], NEW st2 \in [Slots -> Order], NEW S \in SUBSET Slots, NEW x \in S,
         NEW fill \in Nat, st2[x].remaining = st[x].remaining - fill,
         \A s \in S \ {x} : st2[s].remaining = st[s].remaining, NEW T,
         T = S \/ (T = S \ {x} /\ st2[x].remaining = 0)
  PROVE  Left(st2, T) = Left(st, S) - fill
<1> DEFINE f == [s \in Slots |-> st[s].remaining]
           g == [s \in Slots |-> st2[s].remaining]
           R == S \ {x}
<1>1. f \in [Slots -> Int] /\ g \in [Slots -> Int] /\ IsFiniteSet(S)
  BY LeftType
<1>2. f[x] = st[x].remaining /\ g[x] = f[x] - fill /\ \A s \in R : g[s] = f[s]
  OBVIOUS
<1>3. IsFiniteSet(R) /\ R \in SUBSET Slots
  BY <1>1, FS_Subset
<1> HIDE DEF f, g
<1>4. SumFunctionOnSet(f, S) = f[x] + SumFunctionOnSet(f, R)
  BY <1>1, SumTakeOut
<1>5. SumFunctionOnSet(g, S) = g[x] + SumFunctionOnSet(g, R)
  BY <1>1, SumTakeOut
<1> HIDE DEF R
<1>6. SumFunctionOnSet(g, R) = SumFunctionOnSet(f, R) /\ SumFunctionOnSet(f, R) \in Int
  BY <1>1, <1>2, <1>3, SumSame, SumType
<1>7. f[x] \in Int /\ g[x] \in Int
  BY <1>1
<1>8. st2[x].remaining = g[x]
  BY DEF g
<1>9. Left(st, S) = SumFunctionOnSet(f, S) /\ Left(st2, S) = SumFunctionOnSet(g, S) /\ Left(st2, R) = SumFunctionOnSet(g, R)
  BY DEF Left, f, g
<1>10. CASE T = S
  BY <1>2, <1>4, <1>5, <1>6, <1>7, <1>9, <1>10
<1>11. CASE T = R /\ g[x] = 0
  BY <1>2, <1>4, <1>6, <1>7, <1>9, <1>11
<1> QED
  BY <1>8, <1>10, <1>11 DEF R

\* Who offers to a command.
LEMMA OffersAre ==
  ASSUME NEW c
  PROVE  /\ \A s : s \in Offers(c) <=> \E p \in Prices : Acceptable(c, p) /\ s \in QueuedAt(Opposite(c.side), p)
         /\ Offers(c) \subseteq Queued
<1>1. Opposite(c.side) \in Sides
  BY DEF Opposite, Sides
<1>2. \A p \in Prices : QueuedAt(Opposite(c.side), p) # {} => p \in LevelPrices(Opposite(c.side))
  BY DEF QueuedAt, LevelPrices, Range
<1>3. \A s : s \in Offers(c) <=> \E p \in LevelPrices(Opposite(c.side)) : Acceptable(c, p) /\ s \in QueuedAt(Opposite(c.side), p)
  BY DEF Offers
<1>4. LevelPrices(Opposite(c.side)) \subseteq Prices
  BY DEF LevelPrices
<1>5. \A s : s \in Offers(c) <=> \E p \in Prices : Acceptable(c, p) /\ s \in QueuedAt(Opposite(c.side), p)
  BY <1>2, <1>3, <1>4
<1> QED
  BY <1>1, <1>5 DEF Queued

\* submit() starts a fill-or-kill order only when its quantity is on offer.
LEMMA SubmitAcceptKill ==
  ASSUME Inv, NEW c \in Commands, SubmitAccept(c)
  PROVE  KillInv'
<1>1. c \in Command /\ c.qty \in 0..MaxQty
  BY CommandAssumption DEF Command
<1>2. free_slots # <<>>
  BY DEF SubmitAccept, MustReject
<1>3. PICK slot \in Slots : slot = free_slots[Len(free_slots)] /\ slot \in Range(free_slots)
  BY <1>2, PopRange DEF Inv, TypeOK, FreeStackExact
<1>4. slot \notin Queued /\ Queued \subseteq Slots
  BY <1>3, UsedAreSlots DEF Inv, FreeStackExact, Used
<1>5. /\ incoming' = slot /\ levels' = levels
      /\ storage' = [storage EXCEPT ![slot] = [command |-> c, remaining |-> c.qty, status |-> "open"]]
  BY <1>3 DEF SubmitAccept
<1>6. storage \in [Slots -> Order]
  BY DEF Inv, TypeOK
<1>7. Taker'.command = c /\ Taker'.remaining = c.qty
  BY <1>5, <1>6 DEF Taker
<1>8. PICK S \in SUBSET Slots : S = Offers(c) /\ slot \notin S
  BY <1>4, OffersAre
<1>9. Offers(c)' = Offers(c)
  BY <1>5 DEF Offers, LevelPrices, QueuedAt
<1>10. Left(storage', S) = Left(storage, S)
  <2>1. PICK f \in [Slots -> Int] : f = [s \in Slots |-> storage[s].remaining]
    BY <1>6, LeftType
  <2>2. storage' \in [Slots -> Order]
    BY <1>1, <1>5, <1>6 DEF Order, Status
  <2>3. PICK g \in [Slots -> Int] : g = [s \in Slots |-> storage'[s].remaining]
    BY <2>2, LeftType
  <2>4. \A s \in S : g[s] = f[s]
    BY <1>5, <1>6, <1>8, <2>1, <2>3
  <2>5. IsFiniteSet(S)
    BY <1>6, LeftType
  <2>6. SumFunctionOnSet(g, S) = SumFunctionOnSet(f, S)
    BY <2>4, <2>5, SumSame
  <2> QED
    BY <2>1, <2>3, <2>6 DEF Left
<1>11. Left(storage, S) \in Nat
  BY <1>6, LeftType
<1>12. ASSUME c.tif = "fok" PROVE c.qty <= Left(storage, S)
  <2>1. ~(executable_quantity(c) < c.qty)
    BY <1>12 DEF SubmitAccept, MustReject
  <2>2. Quantity(Offers(c)) = Left(storage, S)
    BY <1>8 DEF Quantity, Left
  <2>3. executable_quantity(c) = IF Left(storage, S) > U64Max THEN U64Max ELSE Left(storage, S)
    BY <2>2 DEF executable_quantity
  <2> QED
    BY <1>1, <1>11, <2>1, <2>3, QtyAssumption
<1>13. Left(storage', Offers(Taker.command)') = Left(storage, S)
  BY <1>7, <1>8, <1>9, <1>10
<1> QED
  BY <1>7, <1>12, <1>13 DEF KillInv

\* A fill takes the same from the order and from what is on offer to it.
LEMMA MatchOneKill ==
  ASSUME Inv, KillInv, MatchOne, Inv'
  PROVE  KillInv'
<1>1. PICK sd \in Sides, pr \in Prices, slot \in Slots, fill \in 1..MaxQty, left \in 0..MaxQty, st \in {"filled", "partial"} :
        Fills(sd, pr, slot, fill, left, st)
  BY MatchOneFacts
<1>2. /\ pc = "match" /\ incoming' = incoming /\ incoming \in Slots
      /\ slot \in QueuedAt(sd, pr) /\ slot \in Queued
      /\ left = storage[slot].remaining - fill /\ storage'[slot].remaining = left
      /\ storage'[incoming].remaining = storage[incoming].remaining - fill
      /\ sd = Opposite(storage[incoming].command.side) /\ Acceptable(storage[incoming].command, pr)
      /\ storage' \in [Slots -> Order]
  BY <1>1 DEF Fills
<1>3. \A s \in Slots : /\ storage'[s].command = storage[s].command
                       /\ s \notin {slot, incoming} => storage'[s] = storage[s]
  BY <1>1 DEF Fills
<1>4. PICK c : c = storage[incoming].command
  OBVIOUS
<1>5. Taker.command = c /\ Taker'.command = c
  BY <1>2, <1>3, <1>4 DEF Taker
<1>6. storage \in [Slots -> Order] /\ Queued \subseteq Slots /\ incoming \notin Queued
  BY UsedAreSlots DEF Inv, TypeOK, QueuesExact
<1>7. PICK S \in SUBSET Slots : S = Offers(c)
  BY <1>6, OffersAre
<1>8. PICK T : T = Offers(c)'
  OBVIOUS
<1>9. slot \in S /\ incoming \notin S
  BY <1>2, <1>4, <1>6, <1>7, OffersAre
<1>10. \A s : s \in S <=> \E p \in Prices : Acceptable(c, p) /\ s \in QueuedAt(sd, p)
  BY <1>2, <1>4, <1>7, OffersAre
<1>11. \A s : s \in T <=> \E p \in Prices : Acceptable(c, p) /\ s \in QueuedAt(sd, p)'
  <2>1. \A p \in Prices : QueuedAt(sd, p)' # {} => p \in LevelPrices(sd)'
    BY DEF QueuedAt, LevelPrices, Range
  <2>2. T = UNION {QueuedAt(sd, p)' : p \in {q \in LevelPrices(sd)' : Acceptable(c, q)}}
    BY <1>2, <1>4, <1>8 DEF Offers, Opposite, Acceptable, LevelPrices, QueuedAt
  <2>3. \A s : s \in T <=> \E p \in LevelPrices(sd)' : Acceptable(c, p) /\ s \in QueuedAt(sd, p)'
    BY <2>2
  <2>4. LevelPrices(sd)' \subseteq Prices
    BY DEF LevelPrices
  <2> QED
    BY <2>1, <2>3, <2>4
<1>12. T = S \/ (T = S \ {slot} /\ storage'[slot].remaining = 0)
  <2>1. CASE left # 0
    <3>1. levels' = levels
      BY <1>1, <2>1 DEF Fills
    <3>2. \A p \in Prices : QueuedAt(sd, p)' = QueuedAt(sd, p)
      BY <3>1 DEF QueuedAt
    <3> QED
      BY <1>10, <1>11, <3>2
  <2>2. CASE left = 0
    <3>1. levels[sd][pr] # <<>> /\ slot = levels[sd][pr][1]
      BY <1>1 DEF Fills
    <3>2. levels[sd][pr] \in Seq(Slots) /\ IsInjective(levels[sd][pr])
      BY DEF Inv, TypeOK, QueuesExact
    <3>3. PICK r \in Seq(Slots) : r = Tail(levels[sd][pr]) /\ Range(r) = Range(levels[sd][pr]) \ {slot}
      BY <3>1, <3>2, TailRange
    <3>4. levels' = [levels EXCEPT ![sd][pr] = r]
      BY <1>1, <2>2, <3>3 DEF Fills
    <3>5. TypeOK
      BY DEF Inv
    <3>6. /\ QueuedAt(sd, pr)' = Range(r)
          /\ \A side \in Sides, p \in Prices : (side # sd \/ p # pr) => QueuedAt(side, p)' = QueuedAt(side, p)
      BY <3>4, <3>5, LevelUpdate
    <3>7. QueuedAt(sd, pr)' = QueuedAt(sd, pr) \ {slot}
      BY <3>3, <3>6 DEF QueuedAt
    <3>8. \A p \in Prices : p # pr => QueuedAt(sd, p)' = QueuedAt(sd, p) /\ slot \notin QueuedAt(sd, p)
      BY <1>2, <3>6 DEF Inv, QueuesExact
    <3>9. \A s : s \in T <=> s \in S /\ s # slot
      BY <1>10, <1>11, <3>7, <3>8
    <3>10. T = S \ {slot}
      BY <3>9
    <3> QED
      BY <1>2, <2>2, <3>10
  <2> QED
    BY <2>1, <2>2
<1>13. fill \in Nat /\ storage'[slot].remaining = storage[slot].remaining - fill
  BY <1>2, QtyAssumption
<1>14. \A s \in S \ {slot} : storage'[s].remaining = storage[s].remaining
  BY <1>3, <1>9
<1>15. PICK st2 \in [Slots -> Order] : st2 = storage'
  BY <1>2
<1>16. Left(st2, T) = Left(storage, S) - fill
  <2>1. st2[slot].remaining = storage[slot].remaining - fill /\ \A s \in S \ {slot} : st2[s].remaining = storage[s].remaining
    BY <1>13, <1>14, <1>15
  <2>2. T = S \/ (T = S \ {slot} /\ st2[slot].remaining = 0)
    BY <1>12, <1>15
  <2> QED
    BY <1>6, <1>9, <1>13, <2>1, <2>2, LeftAfterFill
<1>17. Left(storage, S) \in Nat
  BY <1>6, LeftType
<1>18. Taker.remaining \in Nat /\ Taker'.remaining = Taker.remaining - fill
  BY <1>2, <1>6, QtyAssumption DEF Taker, Order
<1>19. c.tif = "fok" => Taker.remaining <= Left(storage, S)
  BY <1>2, <1>5, <1>7 DEF KillInv
<1>20. Left(storage', Offers(Taker.command)') = Left(storage, S) - fill
  BY <1>5, <1>8, <1>15, <1>16
<1> QED
  BY <1>5, <1>13, <1>17, <1>18, <1>19, <1>20 DEF KillInv

\* A fill-or-kill order leaves the loop of match() only when it is filled.
LEMMA KilledOrFilled ==
  ASSUME Inv, KillInv, MatchDone, Taker.command.tif = "fok"
  PROVE  Taker.remaining = 0
<1> SUFFICES ASSUME ~crosses(Taker.command) PROVE Taker.remaining = 0
  BY DEF MatchDone
<1>1. Offers(Taker.command) = {}
  BY DEF Offers, crosses
<1>2. storage \in [Slots -> Order] /\ incoming \in Slots
  <2>1. incoming \in Used
    BY DEF MatchDone, Used
  <2> QED
    BY <2>1, UsedAreSlots DEF Inv, TypeOK
<1>3. Left(storage, {}) = 0
  <2>1. {} \in SUBSET Slots
    OBVIOUS
  <2> QED
    BY <1>2, <2>1, LeftType
<1>4. Taker.remaining \in Nat
  BY <1>2, QtyAssumption DEF Taker, Order
<1> QED
  BY <1>1, <1>3, <1>4 DEF MatchDone, KillInv

\* Every step keeps on offer what a fill-or-kill order still wants.
LEMMA KillNext == ASSUME Inv, Inv', KillInv, [Next]_vars PROVE KillInv'
<1>1. ASSUME NEW c \in Commands, SubmitAccept(c) PROVE KillInv'
  BY <1>1, SubmitAcceptKill
<1>2. CASE MatchOne
  BY <1>2, MatchOneKill
<1>3. CASE pc' = "idle"
  BY <1>3 DEF KillInv
<1>4. CASE UNCHANGED vars
  BY <1>4 DEF vars, KillInv, Taker, Offers, LevelPrices, QueuedAt
<1> QED
  BY <1>1, <1>2, <1>3, <1>4 DEF Next, SubmitDuplicate, SubmitReject, FinishFilled, FinishRest, FinishDiscard, Discard,
        Cancel, CancelUnknown

\* What executable_quantity() finds on offer to a fill-or-kill order stays on offer until it is taken.
THEOREM KillKept == Spec => [](Inv /\ KillInv)
<1>1. Init => Inv /\ KillInv
  <2>1. Init => KillInv
    BY DEF Init, KillInv
  <2> QED
    BY <2>1, InitInv
<1>2. (Inv /\ KillInv) /\ [Next]_vars => (Inv /\ KillInv)'
  BY NextInv, KillNext
<1> QED
  BY <1>1, <1>2, PTL DEF Spec

\* A fill-or-kill order that submit() lets into match() is filled completely, for every book.
THEOREM FillOrKillKept == Spec => FillOrKill
<1>1. Inv /\ KillInv /\ [Next]_vars =>
        [pc = "match" /\ pc' = "idle" /\ Taker.command.tif = "fok"
           => Taker.remaining \in {0, Taker.command.qty}]_vars
  <2> SUFFICES ASSUME Inv, KillInv, Next, pc = "match", pc' = "idle", Taker.command.tif = "fok"
               PROVE  Taker.remaining = 0
    OBVIOUS
  <2>1. MatchDone
    <3>1. FinishFilled \/ FinishRest \/ FinishDiscard
      BY DEF Next, SubmitDuplicate, SubmitReject, SubmitAccept, MatchOne, Cancel, CancelUnknown
    <3> QED
      BY <3>1 DEF FinishFilled, FinishRest, FinishDiscard
  <2> QED
    BY <2>1, KilledOrFilled
<1> QED
  BY <1>1, KillKept, PTL DEF FillOrKill, Spec
=============================================================================
