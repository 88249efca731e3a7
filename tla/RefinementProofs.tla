-------------------------- MODULE RefinementProofs --------------------------
(***************************************************************************)
(* The two components that implement an abstract specification.            *)
(*                                                                         *)
(* P2PEscrow, for any number of trades, accounts and officers: the type    *)
(* invariant, EscrowCovered, ReleaseJustified, and that the market         *)
(* implements Escrow.  The inductive invariant ties the status of a trade  *)
(* to the journals written for it (Journalled), to its parties (Parties)   *)
(* and to the events that led to it (Recorded).                            *)
(*                                                                         *)
(* Outbox and Notifications, for any number of events and processes: the   *)
(* pipeline implements AtLeastOnce.  The inductive invariant says that     *)
(* each step which lets go of an event leaves it finished with or in a     *)
(* queue: a row that is marked, an event that a publisher has sent         *)
(* (SecuredRows), a copy that the router is about to delete, a message in  *)
(* the hands of a worker (SecuredCopies), a message that it has received   *)
(* and not begun (SecuredInbox).                                           *)
(***************************************************************************)
EXTENDS P2PEscrow, Notifications, SumLemmas, SequenceTheorems, TLAPS

\* A trade's journals are those of the way its escrow went.
Journalled ==
  \A t \in Trades :
    /\ trade[t].status = "none" => journals[t] = {}
    /\ trade[t].status \in Live => journals[t] = {"p2p-escrow"}
    /\ trade[t].status = "released" => \E r \in Releases : journals[t] = {"p2p-escrow", r}
    /\ trade[t].status \in {"refunded", "cancelled", "expired"} => \E r \in Refunds : journals[t] = {"p2p-escrow", r}

\* Who is party to a trade: nobody trades with himself.
Parties ==
  \A t \in Trades :
    /\ trade[t].status # "none" => trade[t].seller \in Accounts
    /\ trade[t].status = "none" => trade[t].seller = "nobody"
    /\ trade[t].status \in {"accepted", "paid", "disputed"} =>
         trade[t].buyer \in Accounts /\ Owner[trade[t].buyer] # Owner[trade[t].seller]

\* The events that must have been recorded.
Recorded ==
  \A t \in Trades :
    /\ trade[t].status = "paid" => Did(t, "paid", Owner[trade[t].buyer])
    /\ resolution[t].status = "pending" =>
         resolution[t].proposed_by \in Operators /\ Did(t, "resolution_proposed", resolution[t].proposed_by)

\* The inductive invariant.
MarketInv == TypeOK /\ Journalled /\ Parties /\ Recorded /\ EscrowCovered /\ ReleaseJustified

-----------------------------------------------------------------------------
(* Sums of escrowed amounts *)

\* Offered, as a function of the table.
Owed(tr, ts, a) == SumFunctionOnSet([t \in Trades |-> tr[t].amount], {t \in ts : tr[t].seller = a})

\* The unfinished trades of a table.
Unfinished(tr) == {t \in Trades : tr[t].status \in Live}

\* A table of trades whose amounts are numbers.
Priced(tr) == \A t \in Trades : tr[t].amount \in Nat

\* There are finitely many trades.
LEMMA FiniteTrades == IsFiniteSet(Trades)
  BY P2PAssumption

\* What is owed is a number.
LEMMA OwedType ==
  ASSUME NEW tr, Priced(tr), NEW ts \in SUBSET Trades, NEW a
  PROVE  Owed(tr, ts, a) \in Nat
<1> DEFINE f == [t \in Trades |-> tr[t].amount]
           S == {t \in ts : tr[t].seller = a}
<1>1. f \in [Trades -> Int] /\ S \in SUBSET Trades /\ \A t \in S : 0 <= f[t]
  BY DEF Priced
<1>2. IsFiniteSet(S)
  BY <1>1, FS_Subset, FiniteTrades
<1> HIDE DEF f, S
<1>3. SumFunctionOnSet(f, S) \in Nat
  BY <1>1, <1>2, SumNat
<1> QED
  BY <1>3 DEF Owed, f, S

\* What is owed for ts is what is owed for a part of ts and for the rest.
LEMMA OwedSplit ==
  ASSUME NEW tr, Priced(tr), NEW ts \in SUBSET Trades, NEW us \in SUBSET ts, NEW a
  PROVE  Owed(tr, ts, a) = Owed(tr, us, a) + Owed(tr, ts \ us, a)
<1> DEFINE f == [t \in Trades |-> tr[t].amount]
           S == {t \in ts : tr[t].seller = a}
           T == {t \in us : tr[t].seller = a}
<1>1. f \in [Trades -> Int] /\ S \in SUBSET Trades /\ T \in SUBSET S
  BY DEF Priced
<1>2. S \ T = {t \in ts \ us : tr[t].seller = a}
  OBVIOUS
<1>3. IsFiniteSet(S)
  BY <1>1, FS_Subset, FiniteTrades
<1> HIDE DEF f, S, T
<1>4. SumFunctionOnSet(f, S) = SumFunctionOnSet(f, T) + SumFunctionOnSet(f, S \ T)
  BY <1>1, <1>3, SumSplit
<1> QED
  BY <1>2, <1>4 DEF Owed, f, S, T

\* Tables that agree on ts owe the same for ts.
LEMMA OwedSame ==
  ASSUME NEW tr, NEW tr2, NEW ts \in SUBSET Trades, NEW a,
         \A t \in ts : tr2[t].amount = tr[t].amount /\ tr2[t].seller = tr[t].seller
  PROVE  Owed(tr2, ts, a) = Owed(tr, ts, a)
<1> DEFINE f == [t \in Trades |-> tr[t].amount]
           g == [t \in Trades |-> tr2[t].amount]
           S == {t \in ts : tr[t].seller = a}
<1>1. S = {t \in ts : tr2[t].seller = a} /\ S \in SUBSET Trades /\ \A t \in S : f[t] = g[t]
  OBVIOUS
<1>2. IsFiniteSet(S)
  BY <1>1, FS_Subset, FiniteTrades
<1> HIDE DEF f, g, S
<1>3. SumFunctionOnSet(f, S) = SumFunctionOnSet(g, S)
  BY <1>1, <1>2, SumSame
<1> QED
  BY <1>1, <1>3 DEF Owed, f, g, S

\* One trade is owed to its seller.
LEMMA OwedOne ==
  ASSUME NEW tr, Priced(tr), NEW t \in Trades, NEW a
  PROVE  Owed(tr, {t}, a) = IF tr[t].seller = a THEN tr[t].amount ELSE 0
<1> DEFINE f == [u \in Trades |-> tr[u].amount]
           S == {u \in {t} : tr[u].seller = a}
<1>1. f \in [Trades -> Int] /\ f[t] = tr[t].amount /\ tr[t].amount \in Nat
  BY DEF Priced
<1>2. CASE tr[t].seller = a
  <2>1. S = {t} /\ {t} \ {t} = {} /\ {t} \in SUBSET Trades /\ t \in {t}
    BY <1>2
  <2> HIDE DEF f, S
  <2>2. IsFiniteSet({t})
    BY FS_Singleton
  <2>3. SumFunctionOnSet(f, {t}) = f[t] + SumFunctionOnSet(f, {t} \ {t})
    BY <1>1, <2>1, <2>2, SumTakeOut
  <2>4. SumFunctionOnSet(f, {t} \ {t}) = 0
    BY <2>1, SumEmpty
  <2>5. SumFunctionOnSet(f, S) = tr[t].amount
    BY <1>1, <2>1, <2>3, <2>4
  <2> QED
    BY <1>2, <2>5 DEF Owed, f, S
<1>3. CASE tr[t].seller # a
  <2>1. S = {}
    BY <1>3
  <2> HIDE DEF f, S
  <2>2. SumFunctionOnSet(f, S) = 0
    BY <2>1, SumEmpty
  <2> QED
    BY <1>3, <2>2 DEF Owed, f, S
<1> QED
  BY <1>2, <1>3

\* The operators of the specification in these terms.
LEMMA OfferedIsOwed == \A ts, a : Offered(ts, a) = Owed(trade, ts, a)
  BY DEF Offered, Owed

\* EscrowCovered in these terms, before and after a step.
LEMMA CoveredIs ==
  /\ EscrowCovered <=> \A a \in Accounts : held[a] = Owed(trade, Unfinished(trade), a)
  /\ EscrowCovered' <=> \A a \in Accounts : held'[a] = Owed(trade', Unfinished(trade'), a)
  BY DEF EscrowCovered, Offered, Owed, Unfinished

\* The type invariant prices every trade.
LEMMA TypePriced ==
  /\ TypeOK => Priced(trade)
  /\ TypeOK' => Priced(trade')
<1>1. Amounts \cup {0} \subseteq Nat
  BY P2PAssumption
<1> QED
  BY <1>1 DEF TypeOK, Priced
-----------------------------------------------------------------------------
(* Types *)

\* The tables' types, by name.
TradeRow == [status: Statuses, seller: Accounts \cup {"nobody"}, buyer: Accounts \cup {"nobody"},
             amount: Amounts \cup {0}, offer_expires_at: Nat, payment_deadline: Nat]
ResolutionRow == [status: {"none", "pending", "approved"}, action: {"none", "force_release", "refund"},
                  proposed_by: Operators \cup {"nobody"}, approved_by: Approvers \cup {"nobody"}]
Journals == {"p2p-escrow"} \cup Refunds \cup Releases

\* A time a request has read is a number.
LEMMA NowType == ASSUME TypeOK PROVE Now \subseteq Nat
  BY P2PAssumption DEF TypeOK, Now

\* Postings of a refund keep the types.
LEMMA RefundType ==
  ASSUME TypeOK, NEW ts \in SUBSET Trades, NEW prefix \in Refunds, refundEscrow(ts, prefix)
  PROVE  /\ journals' \in [Trades -> SUBSET Journals]
         /\ available' \in [Accounts -> Nat] /\ held' \in [Accounts -> Nat]
<1>1. \A a \in Accounts : Offered(ts, a) \in Nat
  BY TypePriced, OfferedIsOwed, OwedType
<1>2. journals' \in [Trades -> SUBSET Journals]
  BY DEF TypeOK, refundEscrow, Journals
<1>3. \A a \in Accounts : available[a] \in Nat /\ held[a] \in Nat /\ held[a] >= Offered(ts, a)
  BY DEF TypeOK, refundEscrow
<1>4. \A a \in Accounts : available[a] + Offered(ts, a) \in Nat /\ held[a] - Offered(ts, a) \in Nat
  BY <1>1, <1>3
<1>5. /\ held' = [a \in Accounts |-> held[a] - Offered(ts, a)]
      /\ available' = [a \in Accounts |-> available[a] + Offered(ts, a)]
  BY DEF refundEscrow
<1> QED
  BY <1>2, <1>4, <1>5

\* Postings of a release keep the types.
LEMMA ReleaseType ==
  ASSUME TypeOK, NEW t \in Trades, NEW prefix \in Releases, releaseEscrow(t, prefix)
  PROVE  /\ journals' \in [Trades -> SUBSET Journals]
         /\ available' \in [Accounts -> Nat] /\ held' \in [Accounts -> Nat]
<1>1. trade[t].amount \in Nat
  BY TypePriced DEF Priced
<1>2. journals' \in [Trades -> SUBSET Journals]
  BY DEF TypeOK, releaseEscrow, Journals
<1>3. available \in [Accounts -> Nat] /\ held \in [Accounts -> Nat]
  BY DEF TypeOK
<1> DEFINE b == trade[t].buyer
           s == trade[t].seller
           n == trade[t].amount
<1>4. /\ available' = [available EXCEPT ![b] = available[b] + n]
      /\ held' = [held EXCEPT ![s] = held[s] - n] /\ held[s] >= n
  BY DEF releaseEscrow
<1> HIDE DEF b, s, n
<1>5. n \in Nat
  BY <1>1 DEF n
<1>6. \A x \in Accounts : available[x] \in Nat /\ held[x] \in Nat
  BY <1>3
<1>7. available' \in [Accounts -> Nat]
  <2>1. \A x \in Accounts : available'[x] = IF x = b THEN available[x] + n ELSE available[x]
    BY <1>3, <1>4
  <2>2. \A x \in Accounts : available'[x] \in Nat
    BY <1>5, <1>6, <2>1
  <2> QED
    BY <1>3, <1>4, <2>2
<1>8. held' \in [Accounts -> Nat]
  <2>1. \A x \in Accounts : held'[x] = IF x = s THEN held[x] - n ELSE held[x]
    BY <1>3, <1>4
  <2>2. \A x \in Accounts : held'[x] \in Nat
    BY <1>4, <1>5, <1>6, <2>1
  <2> QED
    BY <1>3, <1>4, <2>2
<1> QED
  BY <1>2, <1>7, <1>8

\* Every step keeps the type invariant.
LEMMA TypeStep == ASSUME TypeOK, [Next]_vars PROVE TypeOK'
<1>1. /\ clock \in 0..MaxTime /\ trade \in [Trades -> TradeRow] /\ resolution \in [Trades -> ResolutionRow]
      /\ evidence \subseteq Trades /\ journals \in [Trades -> SUBSET Journals]
      /\ available \in [Accounts -> Nat] /\ held \in [Accounts -> Nat]
  BY DEF TypeOK, TradeRow, ResolutionRow, Journals
<1> SUFFICES /\ clock' \in 0..MaxTime /\ trade' \in [Trades -> TradeRow] /\ resolution' \in [Trades -> ResolutionRow]
             /\ evidence' \subseteq Trades /\ journals' \in [Trades -> SUBSET Journals]
             /\ available' \in [Accounts -> Nat] /\ held' \in [Accounts -> Nat]
  BY DEF TypeOK, TradeRow, ResolutionRow, Journals
<1>a. ASSUME NEW t \in Trades, NEW st \in Statuses
      PROVE  [trade EXCEPT ![t].status = st] \in [Trades -> TradeRow]
  BY <1>1 DEF TradeRow
<1>2. CASE Tick
  BY <1>1, <1>2, P2PAssumption DEF Tick, tables
<1>3. ASSUME NEW a \in Accounts, NEW t \in Trades, NEW key, NEW n \in Amounts, NEW ttl \in OfferTimes,
             Create(a, t, n, ttl, key)
      PROVE  TypeOK'
  <2>1. PICK now \in Now : trade' = [trade EXCEPT ![t] =
          [status |-> "open", seller |-> a, buyer |-> "nobody", amount |-> n,
           offer_expires_at |-> now + ttl, payment_deadline |-> 0]]
    BY <1>3 DEF Create
  <2>2. now + ttl \in Nat /\ n \in Nat
    BY NowType, P2PAssumption
  <2>3. trade' \in [Trades -> TradeRow]
    BY <1>1, <2>1, <2>2 DEF TradeRow, Statuses, Live
  <2>4. held' \in [Accounts -> Nat] /\ available' \in [Accounts -> Nat]
    BY <1>1, <1>3, <2>2 DEF Create, postEscrow
  <2>5. journals' \in [Trades -> SUBSET Journals]
    BY <1>1, <1>3 DEF Create, postEscrow, Journals
  <2> QED
    BY <1>1, <1>3, <2>3, <2>4, <2>5 DEF Create, TypeOK, TradeRow, ResolutionRow, Journals
<1>4. ASSUME NEW a \in Accounts, NEW t \in Trades, NEW key, Accept(a, t, key)
      PROVE  TypeOK'
  <2>1. PICK now \in Now : trade' = [trade EXCEPT ![t].buyer = a, ![t].status = "accepted",
                                                  ![t].payment_deadline = PaymentDeadline(now)]
    BY <1>4 DEF Accept
  <2>2. PaymentDeadline(now) \in Nat
    BY NowType, P2PAssumption DEF PaymentDeadline
  <2> DEFINE row == [trade[t] EXCEPT !.buyer = a, !.status = "accepted", !.payment_deadline = PaymentDeadline(now)]
  <2>a. trade' = [trade EXCEPT ![t] = row]
    BY <1>1, <2>1 DEF TradeRow
  <2>b. row \in TradeRow
    <3>1. trade[t] \in TradeRow /\ "accepted" \in Statuses
      BY <1>1 DEF Statuses, Live
    <3> QED
      BY <2>2, <3>1 DEF TradeRow
  <2> HIDE DEF row
  <2>3. trade' \in [Trades -> TradeRow]
    BY <1>1, <2>a, <2>b
  <2> QED
    BY <1>1, <1>4, <2>3 DEF Accept, TypeOK, TradeRow, ResolutionRow, Journals
<1>5. ASSUME NEW a \in Accounts, NEW t \in Trades, NEW key, NEW type \in Statuses, transition(t, a, type, key)
      PROVE  TypeOK'
  <2>1. trade' \in [Trades -> TradeRow]
    BY <1>a, <1>5 DEF transition
  <2> QED
    BY <1>1, <1>5, <2>1 DEF transition, TypeOK, TradeRow, ResolutionRow, Journals
<1>6. ASSUME NEW a \in Accounts, NEW t \in Trades, NEW key, Release(a, t, key)
      PROVE  TypeOK'
  <2>1. "released" \in Statuses /\ "p2p-release" \in Releases
    BY DEF Statuses, Releases
  <2>2. trade' \in [Trades -> TradeRow]
    BY <1>a, <1>6, <2>1 DEF Release
  <2> QED
    BY <1>1, <1>6, <2>1, <2>2, ReleaseType DEF Release, TypeOK, TradeRow, ResolutionRow, Journals
<1>7. ASSUME NEW a \in Accounts, NEW t \in Trades, NEW key, Cancel(a, t, key)
      PROVE  TypeOK'
  <2>1. "cancelled" \in Statuses /\ "p2p-cancel" \in Refunds /\ {t} \in SUBSET Trades
    BY DEF Statuses, Refunds
  <2>2. trade' \in [Trades -> TradeRow]
    BY <1>a, <1>7, <2>1 DEF Cancel
  <2> QED
    BY <1>1, <1>7, <2>1, <2>2, RefundType DEF Cancel, TypeOK, TradeRow, ResolutionRow, Journals
<1>8. ASSUME NEW a \in Accounts, NEW t \in Trades, NEW key, AddEvidence(a, t, key)
      PROVE  TypeOK'
  BY <1>1, <1>8 DEF AddEvidence, TypeOK, TradeRow, ResolutionRow, Journals
<1>9. ASSUME NEW ts \in SUBSET Trades, Expire(ts)
      PROVE  TypeOK'
  <2>1. "expired" \in Statuses /\ "p2p-expiry" \in Refunds
    BY DEF Statuses, Refunds
  <2>2. trade' = [t \in Trades |-> IF t \in ts THEN [trade[t] EXCEPT !.status = "expired"] ELSE trade[t]]
    BY <1>9 DEF Expire
  <2>a. \A t \in Trades : [trade[t] EXCEPT !.status = "expired"] \in TradeRow
    BY <1>1, <2>1 DEF TradeRow
  <2>3. trade' \in [Trades -> TradeRow]
    BY <1>1, <2>2, <2>a
  <2> QED
    BY <1>1, <1>9, <2>1, <2>3, RefundType DEF Expire, TypeOK, TradeRow, ResolutionRow, Journals
<1>10. ASSUME NEW u, NEW t \in Trades, NEW key, NEW action \in {"force_release", "refund"},
              ProposeResolution(u, t, action, key)
       PROVE  TypeOK'
  <2>1. resolution' \in [Trades -> ResolutionRow]
    BY <1>1, <1>10 DEF ProposeResolution, ResolutionRow, hasRole
  <2> QED
    BY <1>1, <1>10, <2>1 DEF ProposeResolution, TypeOK, TradeRow, ResolutionRow, Journals
<1>11. ASSUME NEW u, NEW t \in Trades, NEW key, ApproveResolution(u, t, key)
       PROVE  TypeOK'
  <2>1. resolution' \in [Trades -> ResolutionRow]
    <3>1. u \in Approvers /\ resolution' = [resolution EXCEPT ![t].status = "approved", ![t].approved_by = u]
      BY <1>11 DEF ApproveResolution, hasRole
    <3>2. [resolution[t] EXCEPT !.status = "approved", !.approved_by = u] \in ResolutionRow
      BY <1>1, <3>1 DEF ResolutionRow
    <3>3. resolution' = [resolution EXCEPT ![t] = [resolution[t] EXCEPT !.status = "approved", !.approved_by = u]]
      BY <1>1, <3>1 DEF ResolutionRow
    <3> QED
      BY <1>1, <3>2, <3>3
  <2>2. trade' \in [Trades -> TradeRow]
    <3>1. Outcome(t) \in Statuses
      BY DEF Outcome, Statuses
    <3> QED
      BY <1>a, <1>11, <3>1 DEF ApproveResolution
  <2>3. /\ journals' \in [Trades -> SUBSET Journals]
        /\ available' \in [Accounts -> Nat] /\ held' \in [Accounts -> Nat]
    <3>1. "p2p-resolution-release" \in Releases /\ "p2p-resolution-refund" \in Refunds /\ {t} \in SUBSET Trades
      BY DEF Releases, Refunds
    <3> QED
      BY <1>11, <3>1, ReleaseType, RefundType DEF ApproveResolution
  <2> QED
    BY <1>1, <1>11, <2>1, <2>2, <2>3 DEF ApproveResolution, TypeOK, TradeRow, ResolutionRow, Journals
<1>12. CASE UNCHANGED vars
  BY <1>1, <1>12 DEF vars, tables
<1>13. ASSUME NEW a \in Accounts, NEW t \in Trades, NEW key, MarkPaid(a, t, key) \/ Dispute(a, t, key)
       PROVE  TypeOK'
  <2>1. {"paid", "disputed"} \subseteq Statuses
    BY DEF Statuses, Live
  <2> QED
    BY <1>5, <1>13, <2>1 DEF MarkPaid, Dispute
<1>14. ASSUME NEW a \in Accounts, NEW t \in Trades, NEW key, Customer(a, t, key)
       PROVE  TypeOK'
  BY <1>3, <1>4, <1>6, <1>7, <1>8, <1>13, <1>14 DEF Customer
<1>15. ASSUME NEW u, NEW t \in Trades, NEW key, Officer(u, t, key)
       PROVE  TypeOK'
  BY <1>10, <1>11, <1>15 DEF Officer
<1>16. CASE Next
  <2>1. TypeOK' \/ Tick
    BY <1>9, <1>14, <1>15, <1>16 DEF Next
  <2> QED
    BY <1>2, <2>1 DEF TypeOK, TradeRow, ResolutionRow, Journals
<1> QED
  BY <1>12, <1>16
-----------------------------------------------------------------------------
(* The steps *)

\* Steps that leave sellers, amounts and the set of unfinished trades alone.
LEMMA CoveredKept ==
  ASSUME EscrowCovered, held' = held, Unfinished(trade') = Unfinished(trade),
         \A t \in Trades : trade'[t].amount = trade[t].amount /\ trade'[t].seller = trade[t].seller
  PROVE  EscrowCovered'
<1> DEFINE U == Unfinished(trade)
<1>1. U \in SUBSET Trades
  BY DEF Unfinished
<1> HIDE DEF U
<1>2. \A a \in Accounts : Owed(trade', U, a) = Owed(trade, U, a)
  BY <1>1, OwedSame
<1> QED
  BY <1>2, CoveredIs DEF U

\* Steps that finish the trades ts and take from escrow what was offered for them.
LEMMA CoveredReduced ==
  ASSUME TypeOK, TypeOK', EscrowCovered, NEW ts \in SUBSET Unfinished(trade),
         Unfinished(trade') = Unfinished(trade) \ ts,
         \A t \in Trades : trade'[t].amount = trade[t].amount /\ trade'[t].seller = trade[t].seller,
         \A a \in Accounts : held'[a] = held[a] - Owed(trade, ts, a)
  PROVE  EscrowCovered'
<1> DEFINE U == Unfinished(trade)
<1>1. U \in SUBSET Trades /\ U \ ts \in SUBSET Trades /\ ts \in SUBSET Trades /\ Priced(trade)
  BY TypePriced DEF Unfinished
<1> SUFFICES ASSUME NEW a \in Accounts PROVE held'[a] = Owed(trade', Unfinished(trade'), a)
  BY CoveredIs
<1>2. held[a] = Owed(trade, U, a)
  BY CoveredIs
<1>3. Owed(trade, U, a) = Owed(trade, ts, a) + Owed(trade, U \ ts, a)
  BY <1>1, OwedSplit
<1>4. Owed(trade', U \ ts, a) = Owed(trade, U \ ts, a)
  BY <1>1, OwedSame
<1>5. Owed(trade, ts, a) \in Nat /\ Owed(trade, U \ ts, a) \in Nat
  BY <1>1, OwedType
<1>6. held'[a] = Owed(trade, U \ ts, a)
  BY <1>2, <1>3, <1>5
<1> QED
  BY <1>4, <1>6

\* A refund takes out of escrow what was offered for the trades it ends.
LEMMA RefundCovered ==
  ASSUME TypeOK, TypeOK', EscrowCovered, NEW ts \in SUBSET Trades, NEW prefix, refundEscrow(ts, prefix),
         NEW st \in Statuses \ Live, \A t \in ts : trade[t].status \in Live,
         \A t \in Trades : trade'[t] = IF t \in ts THEN [trade[t] EXCEPT !.status = st] ELSE trade[t]
  PROVE  EscrowCovered'
<1>1. \A t \in Trades : trade[t] \in TradeRow
  BY DEF TypeOK, TradeRow
<1>2. \A t \in Trades : /\ trade'[t].amount = trade[t].amount /\ trade'[t].seller = trade[t].seller
                        /\ trade'[t].status = IF t \in ts THEN st ELSE trade[t].status
  BY <1>1 DEF TradeRow
<1>3. ts \in SUBSET Unfinished(trade)
  BY DEF Unfinished
<1>4. Unfinished(trade') = Unfinished(trade) \ ts
  BY <1>2 DEF Unfinished
<1>5. \A a \in Accounts : held'[a] = held[a] - Owed(trade, ts, a)
  BY OfferedIsOwed DEF refundEscrow
<1> QED
  BY <1>2, <1>3, <1>4, <1>5, CoveredReduced

\* A release takes out of escrow what was offered for the trade it ends.
LEMMA ReleaseCovered ==
  ASSUME TypeOK, TypeOK', EscrowCovered, NEW t \in Trades, NEW prefix, releaseEscrow(t, prefix),
         trade[t].status \in Live, trade[t].seller \in Accounts,
         trade' = [trade EXCEPT ![t].status = "released"]
  PROVE  EscrowCovered'
<1>1. \A u \in Trades : trade[u] \in TradeRow
  BY DEF TypeOK, TradeRow
<1>2. \A u \in Trades : /\ trade'[u].amount = trade[u].amount /\ trade'[u].seller = trade[u].seller
                        /\ trade'[u].status = IF u = t THEN "released" ELSE trade[u].status
  BY <1>1 DEF TypeOK, TradeRow
<1>3. {t} \in SUBSET Unfinished(trade)
  BY DEF Unfinished
<1>4. Unfinished(trade') = Unfinished(trade) \ {t}
  BY <1>2 DEF Unfinished, Live
<1>5. ASSUME NEW a \in Accounts PROVE held'[a] = held[a] - Owed(trade, {t}, a)
  <2>1. Owed(trade, {t}, a) = IF trade[t].seller = a THEN trade[t].amount ELSE 0
    BY TypePriced, OwedOne
  <2>2. held'[a] = IF trade[t].seller = a THEN held[a] - trade[t].amount ELSE held[a]
    BY DEF releaseEscrow, TypeOK
  <2>3. held[a] \in Nat
    BY DEF TypeOK
  <2> QED
    BY <2>1, <2>2, <2>3
<1> QED
  BY <1>2, <1>3, <1>4, <1>5, CoveredReduced
\* An event that is recorded is on record.
LEMMA DidNow ==
  ASSUME NEW t, NEW type, NEW u, NEW key, recordEvent(t, type, u, key)
  PROVE  Did(t, type, u)'
<1> DEFINE e == [trade |-> t, type |-> type, actor |-> u, key |-> key]
<1>1. e \in events' /\ e.trade = t /\ e.type = type /\ e.actor = u
  BY DEF recordEvent
<1> QED
  BY <1>1 DEF Did

\* Create: a trade that was not there is open and its amount in escrow.
LEMMA CreateStep ==
  ASSUME MarketInv, TypeOK', NEW a \in Accounts, NEW t \in Trades, NEW key, NEW n \in Amounts,
         NEW ttl \in OfferTimes, Create(a, t, n, ttl, key)
  PROVE  MarketInv'
<1>0. PICK now \in Now : trade' = [trade EXCEPT ![t] =
        [status |-> "open", seller |-> a, buyer |-> "nobody", amount |-> n,
         offer_expires_at |-> now + ttl, payment_deadline |-> 0]]
  BY DEF Create
<1>1. \A u \in Trades : trade[u] \in TradeRow
  BY DEF MarketInv, TypeOK, TradeRow
<1>2. /\ trade'[t].status = "open" /\ trade'[t].seller = a /\ trade'[t].amount = n
      /\ \A u \in Trades : u # t => trade'[u] = trade[u]
  BY <1>0 DEF MarketInv, TypeOK
<1>3. trade[t].status = "none" /\ events \subseteq events' /\ resolution' = resolution /\ postEscrow(t, a, n)
  BY DEF Create, recordEvent
<1>4. Journalled'
  <2>1. journals' = [journals EXCEPT ![t] = @ \cup {"p2p-escrow"}]
    BY <1>3 DEF postEscrow
  <2>2. journals'[t] = {"p2p-escrow"} /\ \A u \in Trades : u # t => journals'[u] = journals[u]
    BY <1>3, <2>1 DEF MarketInv, TypeOK, Journalled
  <2> QED
    BY <1>2, <2>2 DEF MarketInv, Journalled, Live
<1>5. Parties'
  BY <1>2 DEF MarketInv, Parties
<1>6. Recorded'
  BY <1>2, <1>3 DEF MarketInv, Recorded, Did
<1>7. ReleaseJustified'
  BY <1>2, <1>3 DEF MarketInv, ReleaseJustified, Did
<1>8. EscrowCovered'
  <2> DEFINE U == Unfinished(trade)
  <2>1. U \in SUBSET Trades /\ t \notin U /\ Priced(trade) /\ Priced(trade')
    BY <1>3, TypePriced DEF Unfinished, MarketInv, Live
  <2>2. Unfinished(trade') = U \cup {t}
    BY <1>2 DEF Unfinished, Live
  <2> HIDE DEF U
  <2> SUFFICES ASSUME NEW b \in Accounts PROVE held'[b] = Owed(trade', U \cup {t}, b)
    BY <2>2, CoveredIs
  <2>3. held[b] = Owed(trade, U, b)
    BY CoveredIs DEF MarketInv, U
  <2>4. Owed(trade', U, b) = Owed(trade, U, b)
    BY <1>2, <2>1, OwedSame
  <2>5. Owed(trade', U \cup {t}, b) = Owed(trade', {t}, b) + Owed(trade', U, b)
    <3>1. (U \cup {t}) \ {t} = U /\ U \cup {t} \in SUBSET Trades /\ {t} \in SUBSET (U \cup {t})
      BY <2>1
    <3> QED
      BY <2>1, <3>1, OwedSplit
  <2>6. Owed(trade', {t}, b) = IF a = b THEN n ELSE 0
    BY <1>2, <2>1, OwedOne
  <2>7. Owed(trade, U, b) \in Nat /\ n \in Nat
    BY <2>1, OwedType, P2PAssumption
  <2>8. held'[b] = IF a = b THEN held[b] + n ELSE held[b]
    BY <1>3 DEF postEscrow, MarketInv, TypeOK
  <2> QED
    BY <2>3, <2>4, <2>5, <2>6, <2>7, <2>8
<1> QED
  BY <1>4, <1>5, <1>6, <1>7, <1>8 DEF MarketInv

\* Accept: the only step that names a buyer, and he is not the seller.
LEMMA AcceptStep ==
  ASSUME MarketInv, TypeOK', NEW a \in Accounts, NEW t \in Trades, NEW key, Accept(a, t, key)
  PROVE  MarketInv'
<1>1. \A u \in Trades : trade[u] \in TradeRow
  BY DEF MarketInv, TypeOK, TradeRow
<1>2. PICK now \in Now :
        /\ Acceptable(t, a, now)
        /\ trade' = [trade EXCEPT ![t].buyer = a, ![t].status = "accepted", ![t].payment_deadline = PaymentDeadline(now)]
  BY DEF Accept
<1>3. /\ trade'[t].status = "accepted" /\ trade'[t].buyer = a
      /\ trade'[t].seller = trade[t].seller /\ trade'[t].amount = trade[t].amount
      /\ \A u \in Trades : u # t => trade'[u] = trade[u]
  BY <1>1, <1>2 DEF MarketInv, TypeOK, TradeRow
<1>4. trade[t].status = "open" /\ Owner[a] # Owner[trade[t].seller]
  BY <1>2 DEF Acceptable
<1>5. events \subseteq events' /\ resolution' = resolution /\ journals' = journals /\ held' = held
  BY DEF Accept, recordEvent
<1>6. Journalled'
  BY <1>3, <1>4, <1>5 DEF MarketInv, Journalled, Live
<1>7. Parties'
  BY <1>3, <1>4 DEF MarketInv, Parties
<1>8. Recorded'
  BY <1>3, <1>5 DEF MarketInv, Recorded, Did
<1>9. ReleaseJustified'
  BY <1>3, <1>5 DEF MarketInv, ReleaseJustified, Did
<1>10. EscrowCovered'
  BY <1>3, <1>4, <1>5, CoveredKept DEF MarketInv, Unfinished, Live
<1> QED
  BY <1>6, <1>7, <1>8, <1>9, <1>10 DEF MarketInv

\* MarkPaid and Dispute: the status moves on, and a payment is on record.
LEMMA TransitionStep ==
  ASSUME MarketInv, TypeOK', NEW a \in Accounts, NEW t \in Trades, NEW key,
         MarkPaid(a, t, key) \/ Dispute(a, t, key)
  PROVE  MarketInv'
<1>1. \A u \in Trades : trade[u] \in TradeRow
  BY DEF MarketInv, TypeOK, TradeRow
<1>2. PICK type \in {"paid", "disputed"} :
        /\ transition(t, a, type, key) /\ trade[t].status \in {"accepted", "paid"}
        /\ type = "paid" => trade[t].buyer = a
  BY DEF MarkPaid, Dispute
<1>3. /\ trade'[t].status = type /\ trade'[t].buyer = trade[t].buyer
      /\ trade'[t].seller = trade[t].seller /\ trade'[t].amount = trade[t].amount
      /\ \A u \in Trades : u # t => trade'[u] = trade[u]
  BY <1>1, <1>2 DEF MarketInv, TypeOK, TradeRow, transition
<1>4. /\ events' = events \cup {[trade |-> t, type |-> type, actor |-> Owner[a], key |-> key]}
      /\ resolution' = resolution /\ journals' = journals /\ held' = held
  BY <1>2 DEF transition, recordEvent
<1>5. Journalled'
  BY <1>2, <1>3, <1>4 DEF MarketInv, Journalled, Live
<1>6. Parties'
  BY <1>2, <1>3 DEF MarketInv, Parties
<1>7. Recorded'
  <2>1. type = "paid" => Did(t, "paid", Owner[a])'
    BY <1>2, DidNow DEF transition
  <2> QED
    BY <1>2, <1>3, <1>4, <2>1 DEF MarketInv, Recorded, Did
<1>8. ReleaseJustified'
  BY <1>3, <1>4 DEF MarketInv, ReleaseJustified, Did
<1>9. EscrowCovered'
  BY <1>2, <1>3, <1>4, CoveredKept DEF MarketInv, Unfinished, Live
<1> QED
  BY <1>5, <1>6, <1>7, <1>8, <1>9 DEF MarketInv

\* Release: the buyer's word is on record already, the seller's is recorded now.
LEMMA ReleaseStep ==
  ASSUME MarketInv, TypeOK', NEW a \in Accounts, NEW t \in Trades, NEW key, Release(a, t, key)
  PROVE  MarketInv'
<1>1. \A u \in Trades : trade[u] \in TradeRow
  BY DEF MarketInv, TypeOK, TradeRow
<1>2. /\ trade[t].status = "paid" /\ trade[t].seller = a /\ releaseEscrow(t, "p2p-release")
      /\ trade' = [trade EXCEPT ![t].status = "released"] /\ resolution' = resolution
      /\ events' = events \cup {[trade |-> t, type |-> "released", actor |-> Owner[a], key |-> key]}
  BY DEF Release, Releasable, recordEvent
<1>3. /\ trade'[t].status = "released" /\ trade'[t].buyer = trade[t].buyer /\ trade'[t].seller = trade[t].seller
      /\ \A u \in Trades : u # t => trade'[u] = trade[u]
  BY <1>1, <1>2 DEF MarketInv, TypeOK, TradeRow
<1>4. Journalled'
  <2>1. journals' = [journals EXCEPT ![t] = @ \cup {"p2p-release"}]
    BY <1>2 DEF releaseEscrow
  <2>2. journals'[t] = {"p2p-escrow", "p2p-release"} /\ \A u \in Trades : u # t => journals'[u] = journals[u]
    BY <1>2, <2>1 DEF MarketInv, TypeOK, Journalled, Live
  <2> QED
    BY <1>3, <2>2 DEF MarketInv, Journalled, Releases, Live
<1>5. Parties'
  BY <1>2, <1>3 DEF MarketInv, Parties
<1>6. Recorded'
  BY <1>2, <1>3 DEF MarketInv, Recorded, Did
<1>7. ReleaseJustified'
  <2>1. Did(t, "released", Owner[a])'
    BY DidNow DEF Release
  <2>2. Did(t, "paid", Owner[trade[t].buyer])'
    BY <1>2, <1>3 DEF MarketInv, Recorded, Did
  <2>3. \A u \in Trades : \A type, v : Did(u, type, v) => Did(u, type, v)'
    BY <1>2 DEF Did
  <2> QED
    BY <1>2, <1>3, <2>1, <2>2, <2>3 DEF MarketInv, ReleaseJustified, Did
<1>8. EscrowCovered'
  BY <1>2, ReleaseCovered DEF MarketInv, Parties, Live
<1> QED
  BY <1>4, <1>5, <1>6, <1>7, <1>8 DEF MarketInv
\* A refund ends trades in another status than released and notes it in their journals.
LEMMA RefundStep ==
  ASSUME MarketInv, TypeOK', NEW ts \in SUBSET Trades, NEW prefix \in Refunds, refundEscrow(ts, prefix),
         NEW st \in {"refunded", "cancelled", "expired"}, \A t \in ts : trade[t].status \in Live,
         \A t \in Trades : trade'[t] = IF t \in ts THEN [trade[t] EXCEPT !.status = st] ELSE trade[t],
         events \subseteq events'
  PROVE  Journalled' /\ Parties' /\ EscrowCovered' /\ ReleaseJustified'
<1>1. \A t \in Trades : trade[t] \in TradeRow
  BY DEF MarketInv, TypeOK, TradeRow
<1>2. \A t \in ts : trade'[t].status = st /\ trade'[t].seller = trade[t].seller
  BY <1>1 DEF TradeRow
<1>3. \A t \in Trades \ ts : trade'[t] = trade[t]
  OBVIOUS
<1>4. Journalled'
  <2>1. \A t \in Trades : journals'[t] = journals[t] \cup (IF t \in ts THEN {prefix} ELSE {})
    BY DEF refundEscrow
  <2>2. \A t \in ts : journals'[t] = {"p2p-escrow", prefix}
    BY <2>1 DEF MarketInv, Journalled
  <2>3. \A t \in Trades \ ts : journals'[t] = journals[t]
    BY <2>1
  <2>4. st \notin Live /\ st # "none" /\ st # "released"
    BY DEF Live
  <2> QED
    BY <1>2, <1>3, <2>2, <2>3, <2>4 DEF MarketInv, Journalled
<1>5. Parties'
  BY <1>2, <1>3 DEF MarketInv, Parties, Live
<1>6. st \in Statuses \ Live
  BY DEF Statuses, Live
<1>7. EscrowCovered'
  BY <1>6, RefundCovered DEF MarketInv
<1>8. ReleaseJustified'
  BY <1>2, <1>3 DEF MarketInv, ReleaseJustified, Did
<1> QED
  BY <1>4, <1>5, <1>7, <1>8

\* Cancel and the sweep: refunds that leave the officers' table alone.
LEMMA CancelStep ==
  ASSUME MarketInv, TypeOK', NEW a \in Accounts, NEW t \in Trades, NEW key, Cancel(a, t, key)
  PROVE  MarketInv'
<1>1. \A u \in Trades : trade[u] \in TradeRow
  BY DEF MarketInv, TypeOK, TradeRow
<1>2. /\ trade[t].status = "open" /\ refundEscrow({t}, "p2p-cancel") /\ resolution' = resolution
      /\ trade' = [trade EXCEPT ![t].status = "cancelled"] /\ events \subseteq events'
  BY DEF Cancel, recordEvent
<1>3. \A u \in Trades : trade'[u] = IF u \in {t} THEN [trade[u] EXCEPT !.status = "cancelled"] ELSE trade[u]
  BY <1>2 DEF MarketInv, TypeOK
<1>4. {t} \in SUBSET Trades /\ (\A u \in {t} : trade[u].status \in Live) /\ "p2p-cancel" \in Refunds
  BY <1>2 DEF Live, Refunds
<1>5. Journalled' /\ Parties' /\ EscrowCovered' /\ ReleaseJustified'
  BY <1>2, <1>3, <1>4, RefundStep
<1>6. Recorded'
  <2>1. \A u \in Trades : trade'[u].status = "paid" => trade'[u] = trade[u]
    BY <1>1, <1>3 DEF TradeRow
  <2> QED
    BY <1>2, <2>1 DEF MarketInv, Recorded, Did
<1> QED
  BY <1>5, <1>6 DEF MarketInv

\* The sweep ends any number of trades at once.
LEMMA ExpireStep ==
  ASSUME MarketInv, TypeOK', NEW ts \in SUBSET Trades, Expire(ts)
  PROVE  MarketInv'
<1>1. \A u \in Trades : trade[u] \in TradeRow
  BY DEF MarketInv, TypeOK, TradeRow
<1>2. PICK now \in Now :
        /\ ts \subseteq Due(now) /\ refundEscrow(ts, "p2p-expiry") /\ resolution' = resolution
        /\ trade' = [t \in Trades |-> IF t \in ts THEN [trade[t] EXCEPT !.status = "expired"] ELSE trade[t]]
        /\ events \subseteq events'
  BY DEF Expire
<1>3. \A u \in Trades : trade'[u] = IF u \in ts THEN [trade[u] EXCEPT !.status = "expired"] ELSE trade[u]
  BY <1>2
<1>4. (\A u \in ts : trade[u].status \in Live) /\ "p2p-expiry" \in Refunds
  BY <1>2 DEF Due, Live, Refunds
<1>5. Journalled' /\ Parties' /\ EscrowCovered' /\ ReleaseJustified'
  BY <1>2, <1>3, <1>4, RefundStep
<1>6. Recorded'
  <2>1. \A u \in Trades : trade'[u].status = "paid" => trade'[u] = trade[u]
    BY <1>1, <1>3 DEF TradeRow
  <2> QED
    BY <1>2, <2>1 DEF MarketInv, Recorded, Did
<1> QED
  BY <1>5, <1>6 DEF MarketInv

\* ProposeResolution: the proposal is on record.
LEMMA ProposeStep ==
  ASSUME MarketInv, TypeOK', NEW u, NEW t \in Trades, NEW key, NEW action, ProposeResolution(u, t, action, key)
  PROVE  MarketInv'
<1>1. /\ u \in Operators /\ trade' = trade /\ journals' = journals /\ held' = held /\ events \subseteq events'
      /\ resolution' = [resolution EXCEPT ![t] = [status |-> "pending", action |-> action,
                                                 proposed_by |-> u, approved_by |-> "nobody"]]
  BY DEF ProposeResolution, recordEvent, hasRole
<1>2. resolution'[t].proposed_by = u /\ \A v \in Trades : v # t => resolution'[v] = resolution[v]
  BY <1>1 DEF MarketInv, TypeOK
<1>3. Did(t, "resolution_proposed", u)'
  BY DidNow DEF ProposeResolution
<1>4. Recorded'
  BY <1>1, <1>2, <1>3 DEF MarketInv, Recorded, Did
<1>5. Journalled' /\ Parties' /\ EscrowCovered'
  BY <1>1, CoveredKept DEF MarketInv, Journalled, Parties
<1>6. ReleaseJustified'
  BY <1>1 DEF MarketInv, ReleaseJustified, Did
<1> QED
  BY <1>4, <1>5, <1>6 DEF MarketInv

\* ApproveResolution: another officer than the one on record as the proposer.
LEMMA ApproveStep ==
  ASSUME MarketInv, TypeOK', NEW u, NEW t \in Trades, NEW key, ApproveResolution(u, t, key)
  PROVE  MarketInv'
<1>1. \A v \in Trades : trade[v] \in TradeRow /\ resolution[v] \in ResolutionRow
  BY DEF MarketInv, TypeOK, TradeRow, ResolutionRow
<1>2. /\ u \in Approvers /\ trade[t].status = "disputed" /\ resolution[t].status = "pending"
      /\ resolution[t].proposed_by # u /\ trade' = [trade EXCEPT ![t].status = Outcome(t)]
      /\ resolution' = [resolution EXCEPT ![t].status = "approved", ![t].approved_by = u]
      /\ recordEvent(t, "resolution_approved", u, key) /\ events \subseteq events'
  BY DEF ApproveResolution, Approvable, hasRole, recordEvent
<1>3. Outcome(t) \in {"released", "refunded"}
  BY DEF Outcome
<1>4. /\ \A v \in Trades : trade'[v] = IF v \in {t} THEN [trade[v] EXCEPT !.status = Outcome(t)] ELSE trade[v]
      /\ trade'[t].status = Outcome(t) /\ trade'[t].buyer = trade[t].buyer /\ trade'[t].seller = trade[t].seller
  BY <1>1, <1>2 DEF MarketInv, TypeOK, TradeRow
<1>5. resolution'[t].status = "approved" /\ \A v \in Trades : v # t => resolution'[v] = resolution[v]
  BY <1>1, <1>2 DEF MarketInv, TypeOK, ResolutionRow
<1>a. \A v \in Trades : v # t => trade'[v] = trade[v]
  BY <1>4
<1>6. Recorded'
  <2>2. trade'[t].status # "paid" /\ resolution'[t].status # "pending"
    BY <1>3, <1>4, <1>5
  <2>3. ASSUME NEW v \in Trades, v # t
        PROVE  /\ trade'[v].status = "paid" => Did(v, "paid", Owner[trade[v].buyer])'
               /\ resolution'[v].status = "pending" =>
                    resolution'[v].proposed_by \in Operators /\ Did(v, "resolution_proposed", resolution[v].proposed_by)'
    <3>1. trade'[v] = trade[v] /\ resolution'[v] = resolution[v] /\ events \subseteq events'
      BY <1>a, <1>2, <1>5, <2>3
    <3>2. /\ trade[v].status = "paid" => Did(v, "paid", Owner[trade[v].buyer])
          /\ resolution[v].status = "pending" =>
               resolution[v].proposed_by \in Operators /\ Did(v, "resolution_proposed", resolution[v].proposed_by)
      BY DEF MarketInv, Recorded
    <3> QED
      BY <3>1, <3>2 DEF Did
  <2> QED
    BY <2>2, <2>3 DEF Recorded
<1>7. CASE Outcome(t) = "refunded"
  <2>1. refundEscrow({t}, "p2p-resolution-refund")
    BY <1>7 DEF ApproveResolution
  <2>2. {t} \in SUBSET Trades /\ (\A v \in {t} : trade[v].status \in Live) /\ "p2p-resolution-refund" \in Refunds
    BY <1>2 DEF Live, Refunds
  <2>a. events \subseteq events'
    BY <1>2
  <2>b. \A v \in Trades : trade'[v] = IF v \in {t} THEN [trade[v] EXCEPT !.status = "refunded"] ELSE trade[v]
    BY <1>4, <1>7
  <2>3. Journalled' /\ Parties' /\ EscrowCovered' /\ ReleaseJustified'
    BY <2>a, <2>b, <2>1, <2>2, RefundStep
  <2> QED
    BY <1>6, <2>3 DEF MarketInv
<1>8. CASE Outcome(t) = "released"
  <2>1. releaseEscrow(t, "p2p-resolution-release")
    BY <1>8 DEF ApproveResolution
  <2>2. Journalled'
    <3>1. journals' = [journals EXCEPT ![t] = @ \cup {"p2p-resolution-release"}]
      BY <2>1 DEF releaseEscrow
    <3>2. /\ journals'[t] = {"p2p-escrow", "p2p-resolution-release"}
          /\ \A v \in Trades : v # t => journals'[v] = journals[v]
      BY <1>2, <3>1 DEF MarketInv, TypeOK, Journalled, Live
    <3> QED
      BY <1>a, <1>4, <1>8, <3>2 DEF MarketInv, Journalled, Releases, Live
  <2>3. Parties'
    BY <1>2, <1>4, <1>8 DEF MarketInv, Parties
  <2>4. EscrowCovered'
    BY <1>2, <1>8, <2>1, ReleaseCovered DEF MarketInv, Parties, Live
  <2>5. ReleaseJustified'
    <3>1. /\ resolution[t].proposed_by \in Operators
          /\ Did(t, "resolution_proposed", resolution[t].proposed_by)
      BY <1>2 DEF MarketInv, Recorded
    <3>2. PICK w \in Operators : w # u /\ Did(t, "resolution_proposed", w)
      BY <1>2, <3>1
    <3>3. Did(t, "resolution_approved", u)'
      BY <1>2, DidNow
    <3>4. \A v \in Trades : \A type, x : Did(v, type, x) => Did(v, type, x)'
      BY <1>2 DEF Did
    <3>5. Did(t, "resolution_proposed", w)'
      BY <3>2, <3>4
    <3> QED
      BY <1>a, <1>2, <3>2, <3>3, <3>4, <3>5 DEF MarketInv, ReleaseJustified, Did
  <2> QED
    BY <1>6, <2>2, <2>3, <2>4, <2>5 DEF MarketInv
<1> QED
  BY <1>3, <1>7, <1>8

\* Steps that leave trades, resolutions, journals and balances alone.
LEMMA OtherStep ==
  ASSUME MarketInv, TypeOK', UNCHANGED <<trade, resolution, journals, held>>, events \subseteq events'
  PROVE  MarketInv'
<1>1. EscrowCovered'
  BY CoveredKept DEF MarketInv
<1>2. Journalled' /\ Parties'
  BY DEF MarketInv, Journalled, Parties
<1>3. Recorded' /\ ReleaseJustified'
  BY DEF MarketInv, Recorded, ReleaseJustified, Did
<1> QED
  BY <1>1, <1>2, <1>3 DEF MarketInv

\* Every step keeps the invariant.
LEMMA InvStep == MarketInv /\ [Next]_vars => MarketInv'
<1> SUFFICES ASSUME MarketInv, [Next]_vars PROVE MarketInv'
  OBVIOUS
<1>1. TypeOK'
  BY TypeStep DEF MarketInv
<1>2. CASE Tick \/ UNCHANGED vars
  BY <1>1, <1>2, OtherStep DEF Tick, vars, tables
<1>3. ASSUME NEW a \in Accounts, NEW t \in Trades, NEW key, Customer(a, t, key) PROVE MarketInv'
  <2>1. CASE AddEvidence(a, t, key)
    BY <1>1, <2>1, OtherStep DEF AddEvidence, recordEvent
  <2> QED
    BY <1>1, <1>3, <2>1, CreateStep, AcceptStep, TransitionStep, ReleaseStep, CancelStep DEF Customer
<1>4. ASSUME NEW u, NEW t \in Trades, NEW key, Officer(u, t, key) PROVE MarketInv'
  BY <1>1, <1>4, ProposeStep, ApproveStep DEF Officer
<1>5. ASSUME NEW ts \in SUBSET Trades, Expire(ts) PROVE MarketInv'
  BY <1>1, <1>5, ExpireStep
<1> QED
  BY <1>2, <1>3, <1>4, <1>5 DEF Next

\* The empty tables satisfy the invariant.
LEMMA InvInit == Init => MarketInv
<1> SUFFICES ASSUME Init PROVE MarketInv
  OBVIOUS
<1>1. TypeOK
  BY P2PAssumption DEF Init, TypeOK, NoTrade, NoResolution, Statuses
<1>2. \A t \in Trades : trade[t] = NoTrade /\ resolution[t] = NoResolution /\ journals[t] = {}
  BY DEF Init
<1>3. Journalled /\ Parties /\ Recorded /\ ReleaseJustified
  BY <1>2 DEF Journalled, Parties, Recorded, ReleaseJustified, NoTrade, NoResolution, Live
<1>4. EscrowCovered
  <2>1. Unfinished(trade) = {}
    BY <1>2 DEF Unfinished, NoTrade, Live
  <2>2. \A a \in Accounts : Owed(trade, {}, a) = 0
    BY SumEmpty DEF Owed
  <2> QED
    BY <2>1, <2>2, CoveredIs DEF Init
<1> QED
  BY <1>1, <1>3, <1>4 DEF MarketInv

\* The tables hold what their columns say: every status, party, amount and
\* posting the operations of PostgresStore write is of its kind, and no balance
\* becomes negative.
THEOREM Types == Spec => []TypeOK
<1>1. MarketInv => TypeOK
  BY DEF MarketInv
<1> QED
  BY <1>1, InvInit, InvStep, PTL DEF Spec

\* What an account has in escrow is the sum of what its unfinished trades are
\* about, whatever seller, buyer, sweep and officers do and in whatever order.
THEOREM Covered == Spec => []EscrowCovered
<1>1. MarketInv => EscrowCovered
  BY DEF MarketInv
<1> QED
  BY <1>1, InvInit, InvStep, PTL DEF Spec

\* The buyer gets the amount only on the word of both parties, or of two
\* different officers.
THEOREM Justified == Spec => []ReleaseJustified
<1>1. MarketInv => ReleaseJustified
  BY DEF MarketInv
<1> QED
  BY <1>1, InvInit, InvStep, PTL DEF Spec
-----------------------------------------------------------------------------
(* The market implements Escrow *)

\* How the journals of a trade read as the state of a deal.
LEMMA DealStates ==
  /\ DealState({}) = "none" /\ DealState({"p2p-escrow"}) = "held"
  /\ \A r \in Releases : DealState({"p2p-escrow", r}) = "delivered"
  /\ \A r \in Refunds : DealState({"p2p-escrow", r}) = "returned"
<1>1. {} # {"p2p-escrow"} /\ \A r : {} # {"p2p-escrow", r}
  OBVIOUS
<1>2. \A r \in Releases \cup Refunds : r # "p2p-escrow" /\ {"p2p-escrow", r} # {"p2p-escrow"}
  BY DEF Releases, Refunds
<1>3. \A r \in Releases, q \in Refunds : r # q /\ {"p2p-escrow", r} # {"p2p-escrow", q}
  BY DEF Releases, Refunds
<1>4. DealState({}) = "none"
  BY <1>1 DEF DealState
<1>5. DealState({"p2p-escrow"}) = "held"
  BY <1>1, <1>2 DEF DealState
<1>6. ASSUME NEW r \in Releases PROVE DealState({"p2p-escrow", r}) = "delivered"
  BY <1>1, <1>2, <1>3 DEF DealState
<1>7. ASSUME NEW r \in Refunds PROVE DealState({"p2p-escrow", r}) = "returned"
  BY <1>1, <1>2, <1>3 DEF DealState
<1> QED
  BY <1>4, <1>5, <1>6, <1>7

\* The deals of the refinement mapping.
Deal(t) == [state |-> DealState(journals[t]), seller |-> trade[t].seller, amount |-> trade[t].amount]
Deals   == [t \in Trades |-> Deal(t)]

\* The market starts with no deal made.
LEMMA PromiseInit == Init => Promise!Init
<1> SUFFICES ASSUME Init PROVE Promise!Init
  OBVIOUS
<1>1. \A t \in Trades : journals[t] = {} /\ trade[t].seller = "nobody" /\ trade[t].amount = 0
  BY DEF Init, NoTrade
<1> QED
  BY <1>1, DealStates DEF Init, Promise!Init

\* An offer opens a deal.
LEMMA CreateOpens ==
  ASSUME MarketInv, NEW a \in Accounts, NEW t \in Trades, NEW key, NEW n \in Amounts, NEW ttl, Create(a, t, n, ttl, key)
  PROVE  Promise!Open(t, a, n)
<1>0. PICK now \in Now : trade' = [trade EXCEPT ![t] =
        [status |-> "open", seller |-> a, buyer |-> "nobody", amount |-> n,
         offer_expires_at |-> now + ttl, payment_deadline |-> 0]]
  BY DEF Create
<1>1. trade'[t].seller = a /\ trade'[t].amount = n /\ \A u \in Trades : u # t => trade'[u] = trade[u]
  BY <1>0 DEF MarketInv, TypeOK
<1>2. journals[t] = {} /\ available[a] >= n /\ available' = [available EXCEPT ![a] = @ - n]
  BY DEF Create, postEscrow, MarketInv, Journalled
<1>3. journals' = [journals EXCEPT ![t] = @ \cup {"p2p-escrow"}]
  BY DEF Create, postEscrow
<1>4. journals'[t] = {"p2p-escrow"} /\ \A u \in Trades : u # t => journals'[u] = journals[u]
  BY <1>2, <1>3 DEF MarketInv, TypeOK
<1>5. Deals[t].state = "none"
  BY <1>2, DealStates DEF Deals, Deal
<1>6. Deals' = [Deals EXCEPT ![t] = [state |-> "held", seller |-> a, amount |-> n]]
  BY <1>1, <1>4, DealStates DEF Deals, Deal
<1> QED
  BY <1>2, <1>5, <1>6 DEF Promise!Open, Deals, Deal

\* A release delivers to a buyer who is not the seller.
LEMMA ReleaseDelivers ==
  ASSUME MarketInv, NEW t \in Trades, NEW prefix \in Releases, releaseEscrow(t, prefix),
         trade[t].status \in {"paid", "disputed"},
         trade' = [trade EXCEPT ![t].status = "released"]
  PROVE  \E b \in Accounts : Promise!Deliver(t, b)
<1>0. \A u \in Trades : trade[u] \in TradeRow
  BY DEF MarketInv, TypeOK, TradeRow
<1>1. \A u \in Trades : trade'[u].seller = trade[u].seller /\ trade'[u].amount = trade[u].amount
  BY <1>0 DEF MarketInv, TypeOK, TradeRow
<1>a. PICK b \in Accounts : b = trade[t].buyer /\ b # trade[t].seller
  BY DEF MarketInv, Parties
<1>2. journals[t] = {"p2p-escrow"}
  BY DEF MarketInv, Journalled, Live
<1>3. /\ journals' = [journals EXCEPT ![t] = @ \cup {prefix}]
      /\ available' = [available EXCEPT ![b] = @ + trade[t].amount]
  BY <1>a DEF releaseEscrow
<1>4. journals'[t] = {"p2p-escrow", prefix} /\ \A u \in Trades : u # t => journals'[u] = journals[u]
  BY <1>2, <1>3 DEF MarketInv, TypeOK
<1>5. Deals[t].state = "held" /\ Deals[t].seller = trade[t].seller /\ Deals[t].amount = trade[t].amount
  BY <1>2, DealStates DEF Deals, Deal
<1>6. Deals' = [Deals EXCEPT ![t].state = "delivered"]
  <2>1. \A u \in Trades : u # t => DealState(journals'[u]) = DealState(journals[u])
    BY <1>4
  <2>2. DealState(journals'[t]) = "delivered"
    BY <1>4, DealStates
  <2> QED
    BY <1>1, <2>1, <2>2 DEF Deals, Deal
<1>7. Promise!Deliver(t, b)
  <2>1. available' = [available EXCEPT ![b] = @ + Deals[t].amount] /\ b # Deals[t].seller
    BY <1>a, <1>3, <1>5
  <2> QED
    BY <1>5, <1>6, <2>1 DEF Promise!Deliver, Deals, Deal
<1> QED
  BY <1>7

\* Sums are the same in both specifications.
LEMMA SameSums == \A f, S : Promise!SumFunctionOnSet(f, S) = SumFunctionOnSet(f, S)
  BY DEF SumFunctionOnSet, FoldFunctionOnSet, MapThenFoldSet,
         Promise!SumFunctionOnSet, Promise!FoldFunctionOnSet, Promise!MapThenFoldSet

\* A refund gives the amounts of ts back to their sellers.
LEMMA RefundGivesBack ==
  ASSUME MarketInv, NEW ts \in SUBSET Trades, ts # {}, NEW prefix \in Refunds, refundEscrow(ts, prefix), NEW st,
         \A t \in ts : trade[t].status \in Live,
         \A t \in Trades : trade'[t] = IF t \in ts THEN [trade[t] EXCEPT !.status = st] ELSE trade[t]
  PROVE  Promise!GiveBack(ts)
<1>0. \A u \in Trades : trade[u] \in TradeRow
  BY DEF MarketInv, TypeOK, TradeRow
<1>1. \A u \in Trades : trade'[u].seller = trade[u].seller /\ trade'[u].amount = trade[u].amount
  BY <1>0 DEF TradeRow
<1>2. \A t \in Trades : journals'[t] = journals[t] \cup (IF t \in ts THEN {prefix} ELSE {})
  BY DEF refundEscrow
<1>3. \A t \in ts : journals[t] = {"p2p-escrow"} /\ journals'[t] = {"p2p-escrow", prefix}
  BY <1>2 DEF MarketInv, Journalled
<1>4. \A t \in Trades \ ts : journals'[t] = journals[t]
  BY <1>2
<1>5. \A t \in ts : Deals[t].state = "held"
  BY <1>3, DealStates DEF Deals, Deal
<1>6. Deals' = [t \in Trades |-> IF t \in ts THEN [Deals[t] EXCEPT !.state = "returned"] ELSE Deals[t]]
  BY <1>1, <1>3, <1>4, DealStates DEF Deals, Deal
<1>7. available' = [a \in Accounts |-> available[a] +
        Promise!SumFunctionOnSet([t \in Trades |-> Deals[t].amount], {t \in ts : Deals[t].seller = a})]
  <2>1. [t \in Trades |-> Deals[t].amount] = [t \in Trades |-> trade[t].amount]
    BY DEF Deals, Deal
  <2>2. \A a : {t \in ts : Deals[t].seller = a} = {t \in ts : trade[t].seller = a}
    BY DEF Deals, Deal
  <2> QED
    <3>1. available' = [a \in Accounts |-> available[a] + Offered(ts, a)]
      BY DEF refundEscrow
    <3>2. \A a \in Accounts : Offered(ts, a) =
            Promise!SumFunctionOnSet([t \in Trades |-> Deals[t].amount], {t \in ts : Deals[t].seller = a})
      BY <2>1, <2>2, SameSums DEF Offered
    <3> QED
      BY <3>1, <3>2
<1> QED
  BY <1>5, <1>6, <1>7 DEF Promise!GiveBack, Deals, Deal

\* Steps that move no money and write no journal are no steps of the escrow.
LEMMA OtherStutters ==
  ASSUME available' = available, journals' = journals,
         \A t \in Trades : trade'[t].seller = trade[t].seller /\ trade'[t].amount = trade[t].amount
  PROVE  UNCHANGED Promise!escrowVars
<1>1. Deals' = Deals
  BY DEF Deals, Deal
<1> QED
  BY <1>1 DEF Promise!escrowVars, Deals, Deal
\* Every step of the market is a step of the escrow or none.
LEMMA PromiseStep == MarketInv /\ [Next]_vars => [Promise!Next]_(Promise!escrowVars)
<1> SUFFICES ASSUME MarketInv, [Next]_vars PROVE Promise!Next \/ UNCHANGED Promise!escrowVars
  OBVIOUS
<1>0. \A u \in Trades : trade[u] \in TradeRow
  BY DEF MarketInv, TypeOK, TradeRow
<1>1. ASSUME NEW a \in Accounts, NEW t \in Trades, NEW key, NEW n \in Amounts, NEW ttl \in OfferTimes,
             Create(a, t, n, ttl, key)
      PROVE  Promise!Next
  BY <1>1, CreateOpens DEF Promise!Next
<1>2. ASSUME NEW a \in Accounts, NEW t \in Trades, NEW key, Accept(a, t, key) \/ MarkPaid(a, t, key) \/ Dispute(a, t, key)
      PROVE  UNCHANGED Promise!escrowVars
  <2>1. \A u \in Trades : trade'[u].seller = trade[u].seller /\ trade'[u].amount = trade[u].amount
    <3>1. CASE Accept(a, t, key)
      <4>1. PICK now \in Now : trade' = [trade EXCEPT ![t].buyer = a, ![t].status = "accepted",
                                                      ![t].payment_deadline = PaymentDeadline(now)]
        BY <3>1 DEF Accept
      <4> QED
        BY <1>0, <4>1 DEF MarketInv, TypeOK, TradeRow
    <3>2. CASE MarkPaid(a, t, key) \/ Dispute(a, t, key)
      <4>1. PICK type : trade' = [trade EXCEPT ![t].status = type]
        BY <3>2 DEF MarkPaid, Dispute, transition
      <4> QED
        BY <1>0, <4>1 DEF MarketInv, TypeOK, TradeRow
    <3> QED
      BY <1>2, <3>1, <3>2
  <2>2. available' = available /\ journals' = journals
    BY <1>2 DEF Accept, MarkPaid, Dispute, transition
  <2> QED
    BY <2>1, <2>2, OtherStutters
<1>3. ASSUME NEW a \in Accounts, NEW t \in Trades, NEW key, Release(a, t, key)
      PROVE  Promise!Next
  <2>1. \E b \in Accounts : Promise!Deliver(t, b)
    <3>1. /\ releaseEscrow(t, "p2p-release") /\ trade[t].status \in {"paid", "disputed"}
          /\ trade' = [trade EXCEPT ![t].status = "released"]
      BY <1>3 DEF Release, Releasable
    <3>2. "p2p-release" \in Releases
      BY DEF Releases
    <3> QED
      BY <3>1, <3>2, ReleaseDelivers
  <2> QED
    BY <2>1 DEF Promise!Next
<1>4. ASSUME NEW a \in Accounts, NEW t \in Trades, NEW key, Cancel(a, t, key)
      PROVE  Promise!Next
  <2>1. /\ trade[t].status = "open" /\ refundEscrow({t}, "p2p-cancel") /\ "p2p-cancel" \in Refunds
        /\ trade' = [trade EXCEPT ![t].status = "cancelled"] /\ {t} \in SUBSET Trades /\ {t} # {}
    BY <1>4 DEF Cancel, Refunds
  <2>2. \A u \in Trades : trade'[u] = IF u \in {t} THEN [trade[u] EXCEPT !.status = "cancelled"] ELSE trade[u]
    BY <2>1 DEF MarketInv, TypeOK
  <2>3. Promise!GiveBack({t})
    BY <2>1, <2>2, RefundGivesBack DEF Live
  <2> QED
    BY <2>1, <2>3 DEF Promise!Next
<1>5. ASSUME NEW ts \in SUBSET Trades, Expire(ts)
      PROVE  Promise!Next
  <2>1. PICK now \in Now :
          /\ ts # {} /\ ts \subseteq Due(now) /\ refundEscrow(ts, "p2p-expiry")
          /\ trade' = [t \in Trades |-> IF t \in ts THEN [trade[t] EXCEPT !.status = "expired"] ELSE trade[t]]
    BY <1>5 DEF Expire
  <2>2. (\A t \in ts : trade[t].status \in Live) /\ "p2p-expiry" \in Refunds
    BY <2>1 DEF Due, Live, Refunds
  <2>3. \A t \in Trades : trade'[t] = IF t \in ts THEN [trade[t] EXCEPT !.status = "expired"] ELSE trade[t]
    BY <2>1
  <2>4. Promise!GiveBack(ts)
    BY <2>1, <2>2, <2>3, RefundGivesBack
  <2> QED
    BY <2>4 DEF Promise!Next
<1>6. ASSUME NEW u, NEW t \in Trades, NEW key, ApproveResolution(u, t, key)
      PROVE  Promise!Next
  <2>1. trade[t].status = "disputed" /\ trade' = [trade EXCEPT ![t].status = Outcome(t)]
    BY <1>6 DEF ApproveResolution, Approvable
  <2>2. CASE Outcome(t) = "released"
    <3>1. \E b \in Accounts : Promise!Deliver(t, b)
      <4>1. /\ releaseEscrow(t, "p2p-resolution-release") /\ trade[t].status \in {"paid", "disputed"}
            /\ trade' = [trade EXCEPT ![t].status = "released"]
        BY <1>6, <2>1, <2>2 DEF ApproveResolution
      <4>2. "p2p-resolution-release" \in Releases
        BY DEF Releases
      <4> QED
        BY <4>1, <4>2, ReleaseDelivers
    <3> QED
      BY <3>1 DEF Promise!Next
  <2>3. CASE Outcome(t) # "released"
    <3>1. /\ refundEscrow({t}, "p2p-resolution-refund") /\ "p2p-resolution-refund" \in Refunds
          /\ {t} \in SUBSET Trades /\ {t} # {}
      BY <1>6, <2>3 DEF ApproveResolution, Refunds
    <3>2. \A v \in Trades : trade'[v] = IF v \in {t} THEN [trade[v] EXCEPT !.status = Outcome(t)] ELSE trade[v]
      BY <2>1 DEF MarketInv, TypeOK
    <3>3. Promise!GiveBack({t})
      BY <2>1, <3>1, <3>2, RefundGivesBack DEF Live
    <3> QED
      BY <3>1, <3>3 DEF Promise!Next
  <2> QED
    BY <2>2, <2>3
<1>7. ASSUME trade' = trade, available' = available, journals' = journals
      PROVE  UNCHANGED Promise!escrowVars
  BY <1>7, OtherStutters
<1>8. ASSUME NEW a \in Accounts, NEW t \in Trades, NEW key, Customer(a, t, key)
      PROVE  Promise!Next \/ UNCHANGED Promise!escrowVars
  <2>1. CASE AddEvidence(a, t, key)
    BY <1>7, <2>1 DEF AddEvidence
  <2> QED
    BY <1>1, <1>2, <1>3, <1>4, <1>8, <2>1 DEF Customer
<1>9. ASSUME NEW u, NEW t \in Trades, NEW key, Officer(u, t, key)
      PROVE  Promise!Next \/ UNCHANGED Promise!escrowVars
  <2>1. ASSUME NEW action, ProposeResolution(u, t, action, key) PROVE UNCHANGED Promise!escrowVars
    BY <1>7, <2>1 DEF ProposeResolution
  <2> QED
    BY <1>6, <1>9, <2>1 DEF Officer
<1>10. CASE Tick \/ UNCHANGED vars
  BY <1>7, <1>10 DEF Tick, vars, tables
<1> QED
  BY <1>5, <1>8, <1>9, <1>10 DEF Next

\* The market implements Escrow: the amount of every trade leaves the seller
\* once and then moves exactly once, in full, to another customer or back.
THEOREM Implements == Spec => EscrowSpec
  BY PromiseInit, PromiseStep, InvInit, InvStep, PTL DEF Spec, EscrowSpec, Promise!Spec

-----------------------------------------------------------------------------
(* The event pipeline *)

\* The row of a batch that is published first.
Oldest(B) == CHOOSE e \in B : \A f \in B : e[1] <= f[1]

OutboxRows == [published : BOOLEAN, lease : {"none", "held", "expired"}, token : Nat]

\* What each table, queue and process may hold: events that were committed.
PipelineTypes ==
  /\ outbox \in Seq(OutboxRows) /\ Len(produced) \in 0..Length /\ Len(outbox) <= Len(produced)
  /\ batch \in [Publishers -> SUBSET ((1..Len(outbox)) \X Nat)]
  /\ sent \in [Publishers -> BOOLEAN] /\ \A p \in Publishers : sent[p] => batch[p] # {}
  /\ queue \in [Queues -> SUBSET (1..Len(outbox))]
  /\ router \in 0..Len(outbox)
  /\ handled \subseteq 1..Len(outbox)
  /\ consumer = [c \in Consumers |-> consumer[c]]
  /\ \A c \in Consumers : {"pc", "id", "todo"} \subseteq DOMAIN consumer[c]

\* An event that nobody needs to keep for the sake of the others.
Secured(i, qs, h) == i \in h \/ \E q \in Queues : i \in qs[q]

\* A worker is busy with an event that is in its queue, or finished with; it deletes what is finished with.
Attended(r, ns, h) ==
  /\ r.pc # "idle" => r.id \in h \cup ns
  /\ r.pc = "delete" => r.id \in h

SecuredRows ==
  /\ \A i \in 1..Len(outbox) : outbox[i].published => Secured(i, queue, handled)
  /\ \A p \in Publishers : sent[p] => Secured(Oldest(batch[p])[1], queue, handled)

SecuredCopies ==
  /\ router # 0 => router \in handled \/ router \in queue[Destination(produced[router].type)]
  /\ \A c \in Consumers : Attended(consumer[c], queue["notifications"], handled)

PipelineInv == PipelineTypes /\ SecuredRows /\ SecuredCopies

\* What a worker has received is still in the queue, or finished with.
SecuredInbox ==
  /\ inbox = [c \in Consumers |-> inbox[c]]
  /\ \A c \in Consumers : inbox[c] \in Seq(handled \cup queue["notifications"])

\* There is a first one.
LEMMA OldestIn == ASSUME NEW n, NEW B \in SUBSET ((1..n) \X Nat), B # {} PROVE Oldest(B) \in B
<1> DEFINE N == {e[1] : e \in B}
<1>1. N \in SUBSET Nat /\ N # {}
  OBVIOUS
<1>2. PICK k \in N : \A m \in N : k <= m
  BY <1>1, LeastNat
<1>3. \E e \in B : \A f \in B : e[1] <= f[1]
  BY <1>2
<1> QED
  BY <1>3 DEF Oldest

\* First is the oldest of the batch.
LEMMA FirstOldest ==
  ASSUME PipelineTypes, NEW p \in Publishers, batch[p] # {}
  PROVE  First(p) = Oldest(batch[p]) /\ First(p) \in batch[p] /\ First(p)[1] \in 1..Len(outbox)
<1>1. First(p) = Oldest(batch[p])
  BY DEF First, Oldest
<1>2. batch[p] \in SUBSET ((1..Len(outbox)) \X Nat)
  BY DEF PipelineTypes
<1>3. Oldest(batch[p]) \in batch[p]
  BY <1>2, OldestIn
<1> QED
  BY <1>1, <1>2, <1>3

\* Every event has a queue of a worker, which is not the shared one.
LEMMA HasDestination == \A type : Destination(type) \in Queues /\ Destination(type) # "source"
  BY DEF Destination, Queues

\* It holds at first.
LEMMA PipelineStart == PipelineInit => PipelineInv
<1> SUFFICES ASSUME PipelineInit PROVE PipelineInv
  OBVIOUS
<1>1. outbox = <<>> /\ Len(outbox) = 0 /\ outbox \in Seq(OutboxRows) /\ produced \in Scenarios
  BY DEF PipelineInit, OutboxInit
<1>2. Len(produced) \in 0..Length /\ Length \in Nat
  BY <1>1, OutboxAssumption
<1>3. /\ batch = [p \in Publishers |-> {}] /\ sent = [p \in Publishers |-> FALSE] /\ queue = [q \in Queues |-> {}]
      /\ router = 0 /\ handled = {} /\ consumer = [c \in Consumers |-> Idle]
  BY DEF PipelineInit, OutboxInit
<1>4. Idle.pc = "idle" /\ DOMAIN Idle = {"pc", "id", "todo"}
  BY DEF Idle
<1>5. PipelineTypes
  BY <1>1, <1>2, <1>3, <1>4 DEF PipelineTypes
<1> QED
  BY <1>1, <1>3, <1>4, <1>5 DEF PipelineInv, SecuredRows, SecuredCopies, Attended

\* A queue loses only what is finished with, or is in another queue.
NothingLost(qs, qs1, h1) == \A q \in Queues : \A x \in qs[q] : Secured(x, qs1, h1)

\* What was secured stays so.
LEMMA StaysSecured ==
  ASSUME NEW qs, NEW qs1, NEW h, NEW h1, h \subseteq h1, NothingLost(qs, qs1, h1), NEW i, Secured(i, qs, h)
  PROVE  Secured(i, qs1, h1)
  BY DEF Secured, NothingLost

-----------------------------------------------------------------------------
(* The publishers *)

\* A row is added.
LEMMA EnqueueKeeps == ASSUME PipelineInv, Enqueue, UNCHANGED notificationVars PROVE PipelineInv'
<1> DEFINE row == [published |-> FALSE, lease |-> "none", token |-> 0]
           n == Len(outbox)
<1>1. /\ outbox \in Seq(OutboxRows) /\ n \in Nat /\ Len(produced) \in 0..Length /\ n < Len(produced)
      /\ outbox' = Append(outbox, row) /\ UNCHANGED <<produced, batch, sent, queue, router, handled, consumer>>
  BY LenProperties DEF PipelineInv, PipelineTypes, Enqueue, notificationVars
<1>2. row \in OutboxRows /\ ~row.published
  BY DEF OutboxRows
<1> HIDE DEF row
<1>3. outbox' \in Seq(OutboxRows) /\ Len(outbox') = n + 1 /\ outbox'[n + 1] = row /\ \A i \in 1..n : outbox'[i] = outbox[i]
  BY <1>1, <1>2, AppendProperties
<1>4. 1..n \subseteq 1..Len(outbox') /\ router \in 0..Len(outbox') /\ Len(outbox') <= Len(produced)
  BY <1>1, <1>3, OutboxAssumption DEF PipelineInv, PipelineTypes
<1>5. PipelineTypes'
  <2>1. batch' \in [Publishers -> SUBSET ((1..Len(outbox')) \X Nat)]
    BY <1>1, <1>4 DEF PipelineInv, PipelineTypes
  <2>2. queue' \in [Queues -> SUBSET (1..Len(outbox'))] /\ handled' \subseteq 1..Len(outbox')
    BY <1>1, <1>4 DEF PipelineInv, PipelineTypes
  <2> QED
    BY <1>1, <1>3, <1>4, <2>1, <2>2 DEF PipelineInv, PipelineTypes
<1>6. \A i \in 1..Len(outbox') : outbox'[i].published => i \in 1..n /\ outbox[i].published
  <2>1. \A i \in 1..(n + 1) : i \in 1..n \/ i = n + 1
    BY <1>1
  <2> QED
    BY <1>2, <1>3, <2>1
<1> QED
  BY <1>1, <1>5, <1>6 DEF PipelineInv, SecuredRows, SecuredCopies

\* Rows that are as they were, but for the lease.
SameRows(o, o1) == o1 \in Seq(OutboxRows) /\ Len(o1) = Len(o) /\ \A i \in 1..Len(o) : o1[i].published = o[i].published

\* Leases only.
LEMMA RowsReplaced ==
  ASSUME NEW o \in Seq(OutboxRows), NEW o1, DOMAIN o1 = DOMAIN o, o1 = [i \in DOMAIN o |-> o1[i]], \A i \in DOMAIN o : o1[i] \in OutboxRows
  PROVE  o1 \in Seq(OutboxRows) /\ Len(o1) = Len(o) /\ DOMAIN o = 1..Len(o) /\ Len(o) \in Nat
<1>1. DOMAIN o = 1..Len(o) /\ Len(o) \in Nat
  BY LenProperties
<1>2. o1 \in [1..Len(o) -> OutboxRows]
  BY <1>1
<1>3. o1 \in Seq(OutboxRows)
  BY <1>1, <1>2, SeqDef
<1> QED
  BY <1>1, <1>3, LenProperties

\* A batch is leased.
LEMMA LeaseRows ==
  ASSUME PipelineTypes, NEW p \in Publishers, LeaseOutbox(p)
  PROVE  /\ SameRows(outbox, outbox') /\ batch' \in [Publishers -> SUBSET ((1..Len(outbox)) \X Nat)]
         /\ batch[p] = {} /\ ~sent[p]
         /\ \A t \in Publishers : t # p => batch'[t] = batch[t]
         /\ \A e \in batch'[p] : e[1] \in 1..Len(outbox) /\ ~outbox[e[1]].published
<1> DEFINE ids == {i \in Leasable : Cardinality({j \in Leasable : j < i}) < BatchSize}
<1>1. /\ outbox \in Seq(OutboxRows) /\ batch[p] = {} /\ ~sent[p]
      /\ outbox' = [i \in DOMAIN outbox |-> IF i \in ids THEN [outbox[i] EXCEPT !.lease = "held", !.token = @ + 1] ELSE outbox[i]]
      /\ batch' = [batch EXCEPT ![p] = {<<i, outbox[i].token + 1>> : i \in ids}]
      /\ batch \in [Publishers -> SUBSET ((1..Len(outbox)) \X Nat)]
  BY DEF PipelineTypes, LeaseOutbox
<1>2. ids \subseteq DOMAIN outbox /\ \A i \in ids : ~outbox[i].published
  BY DEF Leasable
<1> HIDE DEF ids
<1>3. DOMAIN outbox = 1..Len(outbox) /\ \A i \in DOMAIN outbox : outbox[i] \in OutboxRows
  BY <1>1, LenProperties, ElementOfSeq
<1>4. ASSUME NEW i \in DOMAIN outbox PROVE outbox'[i] \in OutboxRows /\ outbox'[i].published = outbox[i].published
  <2>1. PICK o \in OutboxRows : o = outbox[i]
    BY <1>3
  <2>2. PICK n \in Nat : n = o.token + 1
    BY DEF OutboxRows
  <2>6. PICK o1 : o1 = [o EXCEPT !.lease = "held", !.token = n]
    OBVIOUS
  <2>3. o1 \in OutboxRows /\ o1.published = o.published
    BY <2>6 DEF OutboxRows
  <2>4. outbox'[i] = IF i \in ids THEN [outbox[i] EXCEPT !.lease = "held", !.token = @ + 1] ELSE outbox[i]
    BY <1>1
  <2>5. outbox'[i] = IF i \in ids THEN o1 ELSE o
    BY <2>1, <2>2, <2>4, <2>6
  <2> QED
    BY <2>1, <2>3, <2>5
<1>5. DOMAIN outbox' = DOMAIN outbox /\ outbox' = [i \in DOMAIN outbox |-> outbox'[i]]
  BY <1>1
<1>6. outbox' \in Seq(OutboxRows) /\ Len(outbox') = Len(outbox)
  BY <1>1, <1>4, <1>5, RowsReplaced
<1>7. SameRows(outbox, outbox')
  BY <1>3, <1>4, <1>6 DEF SameRows
<1>8. PICK new : new = {<<i, outbox[i].token + 1>> : i \in ids}
  OBVIOUS
<1>9. new \in SUBSET ((1..Len(outbox)) \X Nat) /\ \A e \in new : e[1] \in ids
  BY <1>2, <1>3, <1>8 DEF OutboxRows
<1>10. batch' \in [Publishers -> SUBSET ((1..Len(outbox)) \X Nat)] /\ batch'[p] = new /\ \A t \in Publishers : t # p => batch'[t] = batch[t]
  BY <1>1, <1>8, <1>9
<1> QED
  BY <1>1, <1>2, <1>3, <1>7, <1>9, <1>10

\* A batch is leased: nothing is less secure.
LEMMA LeaseKeeps == ASSUME PipelineInv, NEW p \in Publishers, LeaseOutbox(p), UNCHANGED notificationVars PROVE PipelineInv'
<1>1. /\ SameRows(outbox, outbox') /\ batch' \in [Publishers -> SUBSET ((1..Len(outbox)) \X Nat)]
      /\ batch[p] = {} /\ ~sent[p] /\ \A t \in Publishers : t # p => batch'[t] = batch[t]
  BY LeaseRows DEF PipelineInv
<1>2. UNCHANGED <<produced, sent, queue, router, handled, consumer>>
  BY DEF LeaseOutbox, notificationVars
<1>3. PipelineTypes'
  BY <1>1, <1>2 DEF PipelineInv, PipelineTypes, SameRows
<1>4. SecuredRows'
  BY <1>1, <1>2 DEF PipelineInv, SecuredRows, SameRows
<1> QED
  BY <1>2, <1>3, <1>4 DEF PipelineInv, SecuredCopies

\* A lease ends.
LEMMA ExpiryRows == ASSUME PipelineTypes, NEW i \in DOMAIN outbox, LeaseExpires(i) PROVE SameRows(outbox, outbox')
<1>1. outbox \in Seq(OutboxRows) /\ outbox' = [outbox EXCEPT ![i].lease = "expired"]
  BY DEF PipelineTypes, LeaseExpires
<1>2. DOMAIN outbox = 1..Len(outbox) /\ \A k \in DOMAIN outbox : outbox[k] \in OutboxRows
  BY <1>1, LenProperties, ElementOfSeq
<1>3. ASSUME NEW k \in DOMAIN outbox PROVE outbox'[k] \in OutboxRows /\ outbox'[k].published = outbox[k].published
  <2>1. PICK o \in OutboxRows : o = outbox[k]
    BY <1>2
  <2>2. PICK o1 : o1 = [o EXCEPT !.lease = "expired"]
    OBVIOUS
  <2>3. o1 \in OutboxRows /\ o1.published = o.published
    BY <2>2 DEF OutboxRows
  <2>4. outbox'[k] = IF k = i THEN o1 ELSE o
    BY <1>1, <2>1, <2>2
  <2> QED
    BY <2>1, <2>3, <2>4
<1>4. DOMAIN outbox' = DOMAIN outbox /\ outbox' = [k \in DOMAIN outbox |-> outbox'[k]]
  BY <1>1
<1>5. outbox' \in Seq(OutboxRows) /\ Len(outbox') = Len(outbox)
  <2>1. \A k \in DOMAIN outbox : outbox'[k] \in OutboxRows
    BY <1>3
  <2>2. outbox \in Seq(OutboxRows)
    BY <1>1
  <2> QED
    BY <1>4, <2>1, <2>2, RowsReplaced
<1> QED
  BY <1>2, <1>3, <1>5 DEF SameRows

\* Nothing else changes.
LEMMA ExpiryKeeps == ASSUME PipelineInv, NEW i \in DOMAIN outbox, LeaseExpires(i), UNCHANGED notificationVars PROVE PipelineInv'
<1>1. SameRows(outbox, outbox')
  BY ExpiryRows DEF PipelineInv
<1>2. UNCHANGED <<produced, batch, sent, queue, router, handled, consumer>>
  BY DEF LeaseExpires, notificationVars
<1>3. PipelineTypes'
  BY <1>1, <1>2 DEF PipelineInv, PipelineTypes, SameRows
<1>4. SecuredRows'
  BY <1>1, <1>2 DEF PipelineInv, SecuredRows, SameRows
<1> QED
  BY <1>2, <1>3, <1>4 DEF PipelineInv, SecuredCopies

\* An event is published.
LEMMA PublishKeeps == ASSUME PipelineInv, NEW p \in Publishers, Publish(p), UNCHANGED notificationVars PROVE PipelineInv'
<1>1. PICK j : j = First(p)[1]
  OBVIOUS
<1>2. j \in 1..Len(outbox) /\ First(p) = Oldest(batch[p]) /\ batch[p] # {}
  BY <1>1, FirstOldest DEF PipelineInv, Publish
<1>3. /\ UNCHANGED <<produced, outbox, batch, router, handled, consumer>>
      /\ queue' = [queue EXCEPT !["source"] = @ \cup {j}] /\ sent' = [sent EXCEPT ![p] = TRUE]
      /\ queue \in [Queues -> SUBSET (1..Len(outbox))] /\ sent \in [Publishers -> BOOLEAN] /\ "source" \in Queues
  BY <1>1 DEF Publish, notificationVars, PipelineInv, PipelineTypes, Queues
<1>4. j \in queue'["source"] /\ (\A q \in Queues : queue[q] \subseteq queue'[q]) /\ queue' \in [Queues -> SUBSET (1..Len(outbox))]
  BY <1>2, <1>3
<1>5. sent' \in [Publishers -> BOOLEAN] /\ \A t \in Publishers : sent'[t] => t = p \/ sent[t]
  BY <1>3
<1>6. PipelineTypes'
  BY <1>2, <1>3, <1>4, <1>5 DEF PipelineInv, PipelineTypes
<1>7. \A i : Secured(i, queue, handled) => Secured(i, queue', handled)
  BY <1>4 DEF Secured
<1>8. Secured(j, queue', handled)
  BY <1>3, <1>4 DEF Secured
<1>9. SecuredRows'
  BY <1>1, <1>2, <1>3, <1>5, <1>7, <1>8 DEF PipelineInv, SecuredRows
<1>10. SecuredCopies'
  BY <1>3, <1>4, HasDestination DEF PipelineInv, SecuredCopies, Attended, Queues
<1> QED
  BY <1>6, <1>9, <1>10 DEF PipelineInv

\* The row that is marked was published, or is one that another lease has taken over.
LEMMA MarkedRows ==
  ASSUME PipelineInv, NEW p \in Publishers, MarkOutboxPublished(p)
  PROVE  /\ outbox' \in Seq(OutboxRows) /\ Len(outbox') = Len(outbox)
         /\ Secured(First(p)[1], queue, handled) /\ First(p)[1] \in 1..Len(outbox)
         /\ \A i \in 1..Len(outbox) : i # First(p)[1] => outbox'[i] = outbox[i]
         /\ outbox[First(p)[1]].published => outbox'[First(p)[1]].published
<1>1. PICK j : j = First(p)[1]
  OBVIOUS
<1>2. sent[p] /\ batch[p] # {} /\ outbox \in Seq(OutboxRows)
  BY DEF PipelineInv, PipelineTypes, MarkOutboxPublished
<1>3. j \in 1..Len(outbox) /\ First(p) = Oldest(batch[p])
  BY <1>1, <1>2, FirstOldest DEF PipelineInv
<1>4. Secured(j, queue, handled)
  BY <1>1, <1>2, <1>3 DEF PipelineInv, SecuredRows
<1>5. DOMAIN outbox = 1..Len(outbox) /\ \A i \in DOMAIN outbox : outbox[i] \in OutboxRows
  BY <1>2, LenProperties, ElementOfSeq
<1>6. PICK o \in OutboxRows : o = outbox[j]
  BY <1>3, <1>5
<1>7. PICK o1 : o1 = [o EXCEPT !.published = TRUE, !.lease = "none"]
  OBVIOUS
<1>8. o1 \in OutboxRows /\ o1.published
  BY <1>7 DEF OutboxRows
<1>9. CASE outbox' = outbox
  BY <1>1, <1>2, <1>3, <1>4, <1>9
<1>10. CASE outbox' = [outbox EXCEPT ![j] = [@ EXCEPT !.published = TRUE, !.lease = "none"]]
  <2>1. outbox' = [outbox EXCEPT ![j] = o1]
    BY <1>6, <1>7, <1>10
  <2>2. DOMAIN outbox' = DOMAIN outbox /\ outbox' = [i \in DOMAIN outbox |-> outbox'[i]]
        /\ outbox'[j] = o1 /\ \A i \in DOMAIN outbox : i # j => outbox'[i] = outbox[i]
    BY <1>3, <1>5, <2>1
  <2>3. \A i \in DOMAIN outbox : outbox'[i] \in OutboxRows
    BY <1>5, <1>8, <2>2
  <2>4. outbox' \in Seq(OutboxRows) /\ Len(outbox') = Len(outbox)
    BY <1>2, <2>2, <2>3, RowsReplaced
  <2> QED
    BY <1>1, <1>3, <1>4, <1>5, <1>8, <2>2, <2>4
<1> QED
  BY <1>1, <1>9, <1>10 DEF MarkOutboxPublished

\* The row is marked, and the publisher goes on with the rest of its batch.
LEMMA MarkKeeps == ASSUME PipelineInv, NEW p \in Publishers, MarkOutboxPublished(p), UNCHANGED notificationVars PROVE PipelineInv'
<1>1. PICK j : j = First(p)[1]
  OBVIOUS
<1>2. /\ outbox' \in Seq(OutboxRows) /\ Len(outbox') = Len(outbox) /\ Secured(j, queue, handled)
      /\ \A i \in 1..Len(outbox) : i # j => outbox'[i] = outbox[i]
  BY <1>1, MarkedRows
<1>3. /\ UNCHANGED <<produced, queue, router, handled, consumer>>
      /\ batch' = [batch EXCEPT ![p] = @ \ {First(p)}] /\ sent' = [sent EXCEPT ![p] = FALSE]
      /\ batch \in [Publishers -> SUBSET ((1..Len(outbox)) \X Nat)] /\ sent \in [Publishers -> BOOLEAN]
  BY DEF MarkOutboxPublished, notificationVars, PipelineInv, PipelineTypes
<1>4. batch' \in [Publishers -> SUBSET ((1..Len(outbox)) \X Nat)] /\ sent' \in [Publishers -> BOOLEAN]
      /\ \A t \in Publishers : sent'[t] => t # p /\ sent[t] /\ batch'[t] = batch[t]
  BY <1>3
<1>5. PipelineTypes'
  BY <1>2, <1>3, <1>4 DEF PipelineInv, PipelineTypes
<1>6. SecuredRows'
  BY <1>2, <1>3, <1>4 DEF PipelineInv, SecuredRows
<1> QED
  BY <1>3, <1>5, <1>6 DEF PipelineInv, SecuredCopies

\* The publisher leaves its batch.
LEMMA StopKeeps == ASSUME PipelineInv, NEW p \in Publishers, PublisherStops(p), UNCHANGED notificationVars PROVE PipelineInv'
<1>1. /\ UNCHANGED <<produced, outbox, queue, router, handled, consumer>>
      /\ batch' = [batch EXCEPT ![p] = {}] /\ sent' = [sent EXCEPT ![p] = FALSE]
      /\ batch \in [Publishers -> SUBSET ((1..Len(outbox)) \X Nat)] /\ sent \in [Publishers -> BOOLEAN]
  BY DEF PublisherStops, notificationVars, PipelineInv, PipelineTypes
<1>2. batch' \in [Publishers -> SUBSET ((1..Len(outbox)) \X Nat)] /\ sent' \in [Publishers -> BOOLEAN]
      /\ \A t \in Publishers : sent'[t] => t # p /\ sent[t] /\ batch'[t] = batch[t]
  BY <1>1
<1>3. PipelineTypes'
  BY <1>1, <1>2 DEF PipelineInv, PipelineTypes
<1>4. SecuredRows'
  BY <1>1, <1>2 DEF PipelineInv, SecuredRows
<1> QED
  BY <1>1, <1>3, <1>4 DEF PipelineInv, SecuredCopies

-----------------------------------------------------------------------------
(* The router and the workers *)

\* A step that leaves the table and the publishers alone.
LEMMA QueuesKeep ==
  ASSUME PipelineInv, UNCHANGED <<produced, outbox, batch, sent>>,
         queue' \in [Queues -> SUBSET (1..Len(outbox))], router' \in 0..Len(outbox), handled' \subseteq 1..Len(outbox),
         consumer' = [c \in Consumers |-> consumer'[c]], \A c \in Consumers : {"pc", "id", "todo"} \subseteq DOMAIN consumer'[c],
         handled \subseteq handled', NothingLost(queue, queue', handled'), SecuredCopies'
  PROVE  PipelineInv'
<1>1. PipelineTypes'
  BY DEF PipelineInv, PipelineTypes
<1>2. \A i : Secured(i, queue, handled) => Secured(i, queue', handled')
  BY StaysSecured
<1>3. SecuredRows'
  BY <1>2 DEF PipelineInv, SecuredRows
<1> QED
  BY <1>1, <1>3 DEF PipelineInv

\* An event is copied to the queue of its worker.
LEMMA RouteKeeps == ASSUME PipelineInv, NEW i \in Ids, Route(i), UNCHANGED notificationVars PROVE PipelineInv'
<1>1. PICK d \in Queues : d = Destination(produced[i].type)
  BY HasDestination
<1>2. /\ UNCHANGED <<produced, outbox, batch, sent, handled, consumer>>
      /\ queue' = [queue EXCEPT ![d] = @ \cup {i}] /\ router' = i /\ i \in queue["source"]
      /\ queue \in [Queues -> SUBSET (1..Len(outbox))] /\ "source" \in Queues /\ "notifications" \in Queues
  BY <1>1 DEF Route, Copied, notificationVars, PipelineInv, PipelineTypes, Queues
<1>3. i \in 1..Len(outbox) /\ queue' \in [Queues -> SUBSET (1..Len(outbox))] /\ i \in queue'[d] /\ \A q \in Queues : queue[q] \subseteq queue'[q]
  BY <1>2
<1>4. NothingLost(queue, queue', handled') /\ router' \in 0..Len(outbox)
  BY <1>2, <1>3 DEF NothingLost, Secured
<1>5. SecuredCopies'
  BY <1>1, <1>2, <1>3 DEF PipelineInv, SecuredCopies, Attended
<1>6. handled' \subseteq 1..Len(outbox) /\ consumer' = [c \in Consumers |-> consumer'[c]]
      /\ \A c \in Consumers : {"pc", "id", "todo"} \subseteq DOMAIN consumer'[c]
  BY <1>2 DEF PipelineInv, PipelineTypes
<1> QED
  BY <1>2, <1>3, <1>4, <1>5, <1>6, QueuesKeep

\* It is deleted from the shared queue, where its copy is or was dealt with.
LEMMA RouteDeleteKeeps == ASSUME PipelineInv, RouteDelete, UNCHANGED notificationVars PROVE PipelineInv'
<1>1. PICK d \in Queues : d = Destination(produced[router].type) /\ d # "source"
  BY HasDestination
<1>2. /\ UNCHANGED <<produced, outbox, batch, sent, handled, consumer>>
      /\ queue' = [queue EXCEPT !["source"] = @ \ {router}] /\ router' = 0 /\ router # 0
      /\ queue \in [Queues -> SUBSET (1..Len(outbox))] /\ "source" \in Queues /\ "notifications" \in Queues
  BY DEF RouteDelete, notificationVars, PipelineInv, PipelineTypes, Queues
<1>3. queue' \in [Queues -> SUBSET (1..Len(outbox))] /\ queue'["source"] = queue["source"] \ {router}
      /\ \A q \in Queues : q # "source" => queue'[q] = queue[q]
  BY <1>2
<1>4. Secured(router, queue', handled)
  BY <1>1, <1>2, <1>3 DEF PipelineInv, SecuredCopies, Secured
<1>5. NothingLost(queue, queue', handled')
  BY <1>2, <1>3, <1>4 DEF NothingLost, Secured
<1>6. SecuredCopies' /\ router' \in 0..Len(outbox)
  BY <1>2, <1>3 DEF PipelineInv, PipelineTypes, SecuredCopies, Attended
<1>7. handled' \subseteq 1..Len(outbox) /\ consumer' = [c \in Consumers |-> consumer'[c]]
      /\ \A c \in Consumers : {"pc", "id", "todo"} \subseteq DOMAIN consumer'[c]
  BY <1>2 DEF PipelineInv, PipelineTypes
<1> QED
  BY <1>2, <1>3, <1>5, <1>6, <1>7, QueuesKeep

\* The router stops before it has deleted the event.
LEMMA RouterStopKeeps == ASSUME PipelineInv, RouterStops, UNCHANGED notificationVars PROVE PipelineInv'
<1>1. UNCHANGED <<produced, outbox, batch, sent, queue, handled, consumer>> /\ router' = 0
  BY DEF RouterStops, notificationVars
<1>2. NothingLost(queue, queue', handled') /\ SecuredCopies'
  BY <1>1 DEF PipelineInv, NothingLost, Secured, SecuredCopies
<1>3. queue' \in [Queues -> SUBSET (1..Len(outbox))] /\ router' \in 0..Len(outbox) /\ handled' \subseteq 1..Len(outbox)
  BY <1>1 DEF PipelineInv, PipelineTypes
<1>4. consumer' = [c \in Consumers |-> consumer'[c]] /\ \A c \in Consumers : {"pc", "id", "todo"} \subseteq DOMAIN consumer'[c]
  BY <1>1 DEF PipelineInv, PipelineTypes
<1> QED
  BY <1>1, <1>2, <1>3, <1>4, QueuesKeep

\* The next place of a worker.
Placed(r, ns, h) == {"pc", "id", "todo"} \subseteq DOMAIN r /\ Attended(r, ns, h)

\* A step of a worker: messages leave a queue only when they are finished with.
LEMMA WorkersKeep ==
  ASSUME PipelineInv, UNCHANGED <<produced, outbox, batch, sent, router>>,
         queue' \in [Queues -> SUBSET (1..Len(outbox))], handled \subseteq handled', handled' \subseteq 1..Len(outbox),
         \A q \in Queues : queue[q] \subseteq queue'[q] \cup handled',
         consumer' = [c \in Consumers |-> consumer'[c]],
         \A c \in Consumers : consumer'[c] = consumer[c] \/ Placed(consumer'[c], queue'["notifications"], handled')
  PROVE  PipelineInv'
<1>1. \A c \in Consumers : {"pc", "id", "todo"} \subseteq DOMAIN consumer'[c]
  BY DEF PipelineInv, PipelineTypes, Placed
<1>2. NothingLost(queue, queue', handled') /\ router' \in 0..Len(outbox) /\ "notifications" \in Queues
  BY DEF NothingLost, Secured, PipelineInv, PipelineTypes, Queues
<1>3. SecuredCopies'
  <2>1. router' # 0 => router' \in handled' \/ router' \in queue'[Destination(produced'[router'].type)]
    BY HasDestination DEF PipelineInv, SecuredCopies
  <2>2. ASSUME NEW c \in Consumers PROVE Attended(consumer'[c], queue'["notifications"], handled')
    <3>1. Attended(consumer[c], queue["notifications"], handled)
      BY DEF PipelineInv, SecuredCopies
    <3> QED
      BY <1>2, <3>1 DEF Attended, Placed
  <2> QED
    BY <2>1, <2>2 DEF SecuredCopies
<1> QED
  BY <1>1, <1>2, <1>3, QueuesKeep

\* One worker moves, and may finish with its event.
LEMMA ConsumerMoves ==
  ASSUME PipelineInv, UNCHANGED <<produced, outbox, batch, sent, queue, router>>, NEW c \in Consumers, NEW r,
         consumer' = [consumer EXCEPT ![c] = r], handled \subseteq handled', handled' \subseteq 1..Len(outbox),
         Placed(r, queue["notifications"], handled')
  PROVE  PipelineInv'
<1>1. consumer = [x \in Consumers |-> consumer[x]] /\ queue \in [Queues -> SUBSET (1..Len(outbox))]
  BY DEF PipelineInv, PipelineTypes
<1>2. consumer' = [x \in Consumers |-> consumer'[x]]
      /\ \A x \in Consumers : consumer'[x] = consumer[x] \/ Placed(consumer'[x], queue'["notifications"], handled')
  BY <1>1
<1> QED
  BY <1>1, <1>2, WorkersKeep

\* What a step of a worker leaves alone.
Processing == UNCHANGED <<produced, outbox, batch, sent, queue, router>>

\* Worker c goes on with its event, or ends it.
GoesOn(c) ==
  /\ Processing /\ consumer[c].pc # "idle"
  /\ \E pc, todo :
       /\ consumer' = [consumer EXCEPT ![c] = [consumer[c] EXCEPT !.pc = pc, !.todo = todo]]
       /\ pc = "delete" => handled' = handled \cup {consumer[c].id}
       /\ pc # "delete" => handled' = handled

\* It may do so.
LEMMA GoingOn == ASSUME PipelineInv, NEW c \in Consumers, GoesOn(c) PROVE PipelineInv'
<1>1. PICK pc, todo : /\ consumer' = [consumer EXCEPT ![c] = [consumer[c] EXCEPT !.pc = pc, !.todo = todo]]
                      /\ pc = "delete" => handled' = handled \cup {consumer[c].id}
                      /\ pc # "delete" => handled' = handled
  BY DEF GoesOn
<1>2. PICK r0 : r0 = consumer[c] /\ {"pc", "id", "todo"} \subseteq DOMAIN r0 /\ r0.id \in handled \cup queue["notifications"]
  BY DEF GoesOn, PipelineInv, PipelineTypes, SecuredCopies, Attended
<1>3. PICK r : r = [r0 EXCEPT !.pc = pc, !.todo = todo]
  OBVIOUS
<1>4. {"pc", "id", "todo"} \subseteq DOMAIN r /\ r.pc = pc /\ r.id = r0.id
  BY <1>2, <1>3
<1>5. r0.id \in 1..Len(outbox) /\ handled \subseteq 1..Len(outbox)
  BY <1>2 DEF PipelineInv, PipelineTypes, Queues
<1>6. handled \subseteq handled' /\ handled' \subseteq 1..Len(outbox)
  BY <1>1, <1>2, <1>5
<1>7. Placed(r, queue["notifications"], handled')
  BY <1>1, <1>2, <1>4, <1>6 DEF Placed, Attended
<1>8. consumer' = [consumer EXCEPT ![c] = r]
  BY <1>1, <1>2, <1>3
<1> QED
  BY <1>6, <1>7, <1>8, ConsumerMoves DEF GoesOn, Processing

\* The steps between the reception of a message and its deletion.
Handles(c) ==
  \/ SendCode(c) \/ CreateNotification(c) \/ GiveUp(c) \/ NextRecipient(c)
  \/ \E channel \in {"email", "push"} :
       Skip(c, channel) \/ Deliver(c, channel) \/ MarkNotificationDeliveryComplete(c, channel)

\* A place of the worker that differs in two fields.
LEMMA FieldsMove ==
  ASSUME NEW f, NEW c, NEW S, f = [x \in S |-> f[x]], c \in S, {"pc", "id", "todo"} \subseteq DOMAIN f[c], NEW pc
  PROVE  [f EXCEPT ![c].pc = pc] = [f EXCEPT ![c] = [f[c] EXCEPT !.pc = pc, !.todo = f[c].todo]]
<1>1. PICK r : r = f[c]
  OBVIOUS
<1>2. [r EXCEPT !.pc = pc] = [r EXCEPT !.pc = pc, !.todo = r.todo]
  OBVIOUS
<1> QED
  BY <1>1, <1>2

\* Each of them is of that kind.
LEMMA HandlesGoesOn == ASSUME PipelineTypes, NEW c \in Consumers, Handles(c) PROVE GoesOn(c)
<1>1. consumer = [x \in Consumers |-> consumer[x]] /\ {"pc", "id", "todo"} \subseteq DOMAIN consumer[c]
  BY DEF PipelineTypes
<1>2. \A pc : [consumer EXCEPT ![c].pc = pc] = [consumer EXCEPT ![c] = [consumer[c] EXCEPT !.pc = pc, !.todo = consumer[c].todo]]
  BY <1>1, FieldsMove
<1>3. ASSUME NEW pc, consumer' = [consumer EXCEPT ![c].pc = pc], Processing, consumer[c].pc # "idle",
             pc = "delete" => handled' = handled \cup {consumer[c].id}, pc # "delete" => handled' = handled
      PROVE  GoesOn(c)
  BY <1>2, <1>3 DEF GoesOn
<1>4. CASE SendCode(c) \/ GiveUp(c)
  <2>1. Processing /\ consumer[c].pc # "idle" /\ consumer' = [consumer EXCEPT ![c].pc = "delete"] /\ handled' = handled \cup {consumer[c].id}
    BY <1>4 DEF SendCode, GiveUp, Closed, Processing, outboxVars
  <2> QED
    BY <1>3, <2>1
<1>5. CASE CreateNotification(c)
  <2>1. Processing /\ consumer[c].pc # "idle" /\ consumer' = [consumer EXCEPT ![c].pc = "email"] /\ handled' = handled
    BY <1>5 DEF CreateNotification, Processing, outboxVars
  <2> QED
    BY <1>3, <2>1
<1>6. ASSUME NEW channel \in {"email", "push"}, Skip(c, channel) PROVE GoesOn(c)
  <2>1. Processing /\ consumer[c].pc # "idle" /\ consumer' = [consumer EXCEPT ![c].pc = After(channel)] /\ handled' = handled /\ After(channel) # "delete"
    BY <1>6 DEF Skip, After, Processing, outboxVars
  <2> QED
    BY <1>3, <2>1
<1>7. ASSUME NEW channel \in {"email", "push"}, Deliver(c, channel) PROVE GoesOn(c)
  <2>1. PICK pc : pc \in {"mailed", "pushed"} /\ consumer' = [consumer EXCEPT ![c].pc = pc]
    BY <1>7 DEF Deliver
  <2>2. Processing /\ consumer[c].pc # "idle" /\ handled' = handled
    BY <1>7 DEF Deliver, Processing, outboxVars
  <2> QED
    BY <1>3, <2>1, <2>2
<1>8. ASSUME NEW channel \in {"email", "push"}, MarkNotificationDeliveryComplete(c, channel) PROVE GoesOn(c)
  <2>1. Processing /\ consumer[c].pc # "idle" /\ consumer' = [consumer EXCEPT ![c].pc = After(channel)] /\ handled' = handled /\ After(channel) # "delete"
    BY <1>8 DEF MarkNotificationDeliveryComplete, After, Processing, outboxVars
  <2> QED
    BY <1>3, <2>1
<1>9. CASE NextRecipient(c)
  <2>1. Processing /\ consumer[c].pc # "idle"
    BY <1>9 DEF NextRecipient, Processing, outboxVars
  <2>2. CASE Closed(c)
    BY <1>3, <2>1, <2>2 DEF Closed
  <2>3. CASE consumer' = [consumer EXCEPT ![c].pc = "create", ![c].todo = Tail(@)] /\ handled' = handled
    <3>1. PICK r : r = consumer[c]
      OBVIOUS
    <3>2. PICK rest : rest = Tail(r.todo)
      OBVIOUS
    <3>4. consumer' = [consumer EXCEPT ![c].pc = "create", ![c].todo = rest]
      BY <2>3, <3>1, <3>2, <1>1
    <3>3. consumer' = [consumer EXCEPT ![c] = [consumer[c] EXCEPT !.pc = "create", !.todo = rest]]
      BY <1>1, <3>1, <3>4
    <3>5. handled' = handled /\ "create" # "delete"
      BY <2>3
    <3>6. \E pc, todo :
            /\ consumer' = [consumer EXCEPT ![c] = [consumer[c] EXCEPT !.pc = pc, !.todo = todo]]
            /\ pc = "delete" => handled' = handled \cup {consumer[c].id}
            /\ pc # "delete" => handled' = handled
      <4> WITNESS "create", rest
      <4> QED
        BY <3>3, <3>5
    <3> QED
      BY <2>1, <3>6 DEF GoesOn
  <2> QED
    BY <1>9, <2>2, <2>3 DEF NextRecipient
<1> QED
  BY <1>4, <1>5, <1>6, <1>7, <1>8, <1>9 DEF Handles

\* The first message of a batch is in the queue, or finished with.
LEMMA FirstHeld ==
  ASSUME SecuredInbox, NEW c \in Consumers, inbox[c] # <<>>, NEW i, i = Head(inbox[c])
  PROVE  i \in handled \cup queue["notifications"]
<1>1. PICK S : S = handled \cup queue["notifications"]
  OBVIOUS
<1>2. PICK ms : ms = inbox[c] /\ ms \in Seq(S) /\ ms # <<>>
  BY <1>1 DEF SecuredInbox
<1>3. Head(ms) \in S
  BY <1>2, HeadTailProperties
<1> QED
  BY <1>1, <1>2, <1>3

\* A message is begun.
LEMMA ProcessKeeps == ASSUME PipelineInv, SecuredInbox, NEW c \in Consumers, Process(c) PROVE PipelineInv'
<1>0. PICK i : i = Head(inbox[c])
  OBVIOUS
<1>1. UNCHANGED <<produced, outbox, batch, sent, queue, router>> /\ i \in handled \cup queue["notifications"]
  BY <1>0, FirstHeld DEF Process, outboxVars
<1>2. PICK r : /\ consumer' = [consumer EXCEPT ![c] = r] /\ {"pc", "id", "todo"} \subseteq DOMAIN r /\ r.id = i
               /\ \/ handled' = handled \cup {i}
                  \/ handled' = handled /\ r.pc # "delete"
  <2>2. ASSUME NEW pc PROVE LET r == [Idle EXCEPT !.pc = pc, !.id = i] IN DOMAIN r = {"pc", "id", "todo"} /\ r.id = i /\ r.pc = pc
    BY DEF Idle
  <2>3. ASSUME NEW todo PROVE LET r == [pc |-> "create", id |-> i, todo |-> todo] IN DOMAIN r = {"pc", "id", "todo"} /\ r.id = i /\ r.pc = "create"
    OBVIOUS
  <2>4. CASE consumer' = [consumer EXCEPT ![c] = [Idle EXCEPT !.pc = "delete", !.id = i]] /\ handled' = handled \cup {i}
    BY <2>2, <2>4
  <2>5. CASE consumer' = [consumer EXCEPT ![c] = processNotification(i)] /\ handled' = handled
    <3>1. CASE processNotification(i) = [Idle EXCEPT !.pc = "code", !.id = i]
      BY <2>2, <2>5, <3>1
    <3>2. CASE processNotification(i) = [pc |-> "create", id |-> i, todo |-> NotificationRecipients(i)]
      BY <2>3, <2>5, <3>2
    <3> QED
      BY <3>1, <3>2 DEF processNotification
  <2> QED
    BY <1>0, <2>4, <2>5 DEF Process
<1>3. i \in 1..Len(outbox) /\ handled \subseteq 1..Len(outbox)
  BY <1>1 DEF PipelineInv, PipelineTypes, Queues
<1>4. handled \subseteq handled' /\ handled' \subseteq 1..Len(outbox) /\ Placed(r, queue["notifications"], handled')
  BY <1>1, <1>2, <1>3 DEF Placed, Attended
<1> QED
  BY <1>1, <1>2, <1>4, ConsumerMoves

\* A worker is idle.
LEMMA IdlePlaced == \A ns, h : Placed(Idle, ns, h)
  BY DEF Placed, Attended, Idle

\* The message that is deleted is finished with.
LEMMA DeleteKeeps == ASSUME PipelineInv, NEW c \in Consumers, Delete(c) PROVE PipelineInv'
<1>1. PICK j : j = consumer[c].id
  OBVIOUS
<1>2. /\ UNCHANGED <<produced, outbox, batch, sent, router, handled>>
      /\ queue' = [queue EXCEPT !["notifications"] = @ \ {j}] /\ consumer' = [consumer EXCEPT ![c] = Idle]
      /\ queue \in [Queues -> SUBSET (1..Len(outbox))] /\ consumer = [x \in Consumers |-> consumer[x]]
      /\ handled \subseteq 1..Len(outbox) /\ j \in handled
  BY <1>1 DEF Delete, PipelineInv, PipelineTypes, SecuredCopies, Attended
<1>3. queue' \in [Queues -> SUBSET (1..Len(outbox))] /\ \A q \in Queues : queue[q] \subseteq queue'[q] \cup handled'
  BY <1>2
<1>4. consumer' = [x \in Consumers |-> consumer'[x]]
      /\ \A x \in Consumers : consumer'[x] = consumer[x] \/ Placed(consumer'[x], queue'["notifications"], handled')
  BY <1>2, IdlePlaced
<1> QED
  BY <1>2, <1>3, <1>4, WorkersKeep

\* A worker stops.
LEMMA ConsumerStopKeeps == ASSUME PipelineInv, NEW c \in Consumers, ConsumerStops(c) PROVE PipelineInv'
<1>1. UNCHANGED <<produced, outbox, batch, sent, queue, router, handled>> /\ consumer' = [consumer EXCEPT ![c] = Idle]
      /\ handled \subseteq 1..Len(outbox)
  BY DEF ConsumerStops, PipelineInv, PipelineTypes
<1>2. Placed(Idle, queue["notifications"], handled')
  BY IdlePlaced
<1> QED
  BY <1>1, <1>2, ConsumerMoves

\* A receipt is finished with, or deleted.
LEMMA DepositWorkerKeeps == ASSUME PipelineInv, NEW i, DepositWorker(i) PROVE PipelineInv'
<1>1. /\ UNCHANGED <<produced, outbox, batch, sent, router, consumer>> /\ i \in queue["deposits"]
      /\ queue \in [Queues -> SUBSET (1..Len(outbox))] /\ consumer = [x \in Consumers |-> consumer[x]]
      /\ handled \subseteq 1..Len(outbox) /\ "deposits" \in Queues
  BY DEF DepositWorker, PipelineInv, PipelineTypes, Queues
<1>2. handled \subseteq handled' /\ handled' \subseteq 1..Len(outbox)
      /\ queue' \in [Queues -> SUBSET (1..Len(outbox))] /\ \A q \in Queues : queue[q] \subseteq queue'[q] \cup handled'
  <2>1. CASE i \in handled /\ queue' = [queue EXCEPT !["deposits"] = @ \ {i}] /\ handled' = handled
    BY <1>1, <2>1
  <2>2. CASE handled' = handled \cup {i} /\ queue' = queue
    BY <1>1, <2>2
  <2> QED
    BY <2>1, <2>2 DEF DepositWorker
<1> QED
  BY <1>1, <1>2, WorkersKeep

\* What customers and time do concerns other tables; a batch that is received or left, the inbox.
Elsewhere == UNCHANGED <<produced, outbox, batch, sent, queue, router, consumer, handled>>

\* Whoever asks.
LEMMA ElsewhereIs ==
  ASSUME \/ CustomerRequest \/ (\E u \in Customers : Suspend(u))
         \/ (\E i \in DOMAIN produced : CodeExpires(i) \/ Reappear(i)) \/ UNCHANGED pipelineVars
  PROVE  Elsewhere /\ UNCHANGED inbox
  BY DEF CustomerRequest, MarkNotificationRead, MarkNotificationUnread, CreateByCustomer, MarkAllNotificationsRead,
         UpsertNotificationDevice, Suspend, CodeExpires, Reappear, Untouched, pipelineVars, outboxVars, notificationVars, Elsewhere

\* It keeps the events.
LEMMA ElsewhereKeeps == ASSUME PipelineInv, Elsewhere PROVE PipelineInv'
  BY DEF Elsewhere, PipelineInv, PipelineTypes, SecuredRows, SecuredCopies

\* So do the receptions and the refusals.
LEMMA BatchesElsewhere == ASSUME NEW c, Receive(c) \/ Refuse(c) PROVE Elsewhere
  BY DEF Receive, Refuse, outboxVars, Elsewhere

\* The steps, by what the proof says of them.
LEMMA PipelineCases ==
  ASSUME [PipelineNext]_pipelineVars
  PROVE  \/ Enqueue /\ UNCHANGED notificationVars
         \/ \E p \in Publishers : (LeaseOutbox(p) \/ Publish(p) \/ MarkOutboxPublished(p) \/ PublisherStops(p)) /\ UNCHANGED notificationVars
         \/ \E i \in DOMAIN outbox : LeaseExpires(i) /\ UNCHANGED notificationVars
         \/ \E i \in Ids : Route(i) /\ UNCHANGED notificationVars
         \/ (RouteDelete \/ RouterStops) /\ UNCHANGED notificationVars
         \/ \E c \in Consumers : Receive(c) \/ Refuse(c) \/ Process(c) \/ Handles(c) \/ Delete(c) \/ ConsumerStops(c)
         \/ \E i \in DOMAIN produced : DepositWorker(i)
         \/ Elsewhere /\ UNCHANGED inbox
<1>1. CASE OutboxNext /\ UNCHANGED notificationVars
  BY <1>1 DEF OutboxNext, RunRouter, RunPublisher
<1>2. ASSUME NEW c \in Consumers, RunOnce(c) PROVE Receive(c) \/ Refuse(c) \/ Process(c) \/ Handles(c) \/ Delete(c)
  BY <1>2 DEF RunOnce, Handles
<1> QED
  BY <1>1, <1>2, ElsewhereIs DEF PipelineNext

\* Every step keeps what is secured.
LEMMA PipelineStep == PipelineInv /\ SecuredInbox /\ [PipelineNext]_pipelineVars => PipelineInv'
<1> SUFFICES ASSUME PipelineInv, SecuredInbox, [PipelineNext]_pipelineVars PROVE PipelineInv'
  OBVIOUS
<1>1. CASE Enqueue /\ UNCHANGED notificationVars
  BY <1>1, EnqueueKeeps
<1>2. ASSUME NEW p \in Publishers, LeaseOutbox(p) \/ Publish(p) \/ MarkOutboxPublished(p) \/ PublisherStops(p), UNCHANGED notificationVars
      PROVE  PipelineInv'
  BY <1>2, LeaseKeeps, PublishKeeps, MarkKeeps, StopKeeps
<1>3. ASSUME NEW i \in DOMAIN outbox, LeaseExpires(i), UNCHANGED notificationVars PROVE PipelineInv'
  BY <1>3, ExpiryKeeps
<1>4. ASSUME NEW i \in Ids, Route(i), UNCHANGED notificationVars PROVE PipelineInv'
  BY <1>4, RouteKeeps
<1>5. CASE (RouteDelete \/ RouterStops) /\ UNCHANGED notificationVars
  BY <1>5, RouteDeleteKeeps, RouterStopKeeps
<1>6. ASSUME NEW c \in Consumers, Process(c) \/ Delete(c) \/ ConsumerStops(c) PROVE PipelineInv'
  BY <1>6, ProcessKeeps, DeleteKeeps, ConsumerStopKeeps
<1>7. ASSUME NEW c \in Consumers, Handles(c) PROVE PipelineInv'
  BY <1>7, HandlesGoesOn, GoingOn DEF PipelineInv
<1>8. ASSUME NEW i \in DOMAIN produced, DepositWorker(i) PROVE PipelineInv'
  BY <1>8, DepositWorkerKeeps
<1>9. CASE Elsewhere
  BY <1>9, ElsewhereKeeps
<1>10. ASSUME NEW c \in Consumers, Receive(c) \/ Refuse(c) PROVE Elsewhere
  BY <1>10, BatchesElsewhere
<1> QED
  BY <1>1, <1>2, <1>3, <1>4, <1>5, <1>6, <1>7, <1>8, <1>9, <1>10, PipelineCases

\* What a worker has in hand leaves the queue only when it is finished with.
Retained == handled \subseteq handled' /\ queue["notifications"] \subseteq queue'["notifications"] \cup handled'

\* No step takes it away.
LEMMA StepRetains == ASSUME PipelineInv, SecuredInbox, [PipelineNext]_pipelineVars PROVE Retained
<1>0. queue \in [Queues -> SUBSET (1..Len(outbox))] /\ Queues = {"source", "deposits", "notifications", "unrouted"}
  BY DEF PipelineInv, PipelineTypes, Queues
<1>1. CASE Enqueue /\ UNCHANGED notificationVars
  BY <1>1 DEF Enqueue, notificationVars, Retained
<1>2. ASSUME NEW p \in Publishers, LeaseOutbox(p) \/ Publish(p) \/ MarkOutboxPublished(p) \/ PublisherStops(p), UNCHANGED notificationVars
      PROVE  Retained
  <2>1. handled' = handled /\ (queue' = queue \/ queue' = [queue EXCEPT !["source"] = @ \cup {First(p)[1]}])
    BY <1>2 DEF LeaseOutbox, Publish, MarkOutboxPublished, PublisherStops, notificationVars
  <2> QED
    BY <1>0, <2>1 DEF Retained
<1>3. ASSUME NEW i \in DOMAIN outbox, LeaseExpires(i), UNCHANGED notificationVars PROVE Retained
  BY <1>3 DEF LeaseExpires, notificationVars, Retained
<1>4. ASSUME NEW i \in Ids, Route(i), UNCHANGED notificationVars PROVE Retained
  <2>1. PICK d \in Queues : d = Destination(produced[i].type)
    BY HasDestination
  <2>2. handled' = handled /\ queue' = [queue EXCEPT ![d] = @ \cup {i}]
    BY <1>4, <2>1 DEF Route, Copied, notificationVars
  <2> QED
    BY <1>0, <2>2 DEF Retained
<1>5. CASE (RouteDelete \/ RouterStops) /\ UNCHANGED notificationVars
  <2>1. handled' = handled /\ (queue' = queue \/ queue' = [queue EXCEPT !["source"] = @ \ {router}])
    BY <1>5 DEF RouteDelete, RouterStops, notificationVars
  <2> QED
    BY <1>0, <2>1 DEF Retained
<1>6. ASSUME NEW c \in Consumers, Receive(c) \/ Refuse(c) \/ Process(c) \/ ConsumerStops(c) PROVE Retained
  BY <1>6 DEF Receive, Refuse, Process, ConsumerStops, outboxVars, Retained
<1>7. ASSUME NEW c \in Consumers, Handles(c) PROVE Retained
  <2>1. GoesOn(c)
    BY <1>7, HandlesGoesOn DEF PipelineInv
  <2>2. handled \subseteq handled'
    BY <2>1 DEF GoesOn
  <2> QED
    BY <2>1, <2>2 DEF GoesOn, Processing, Retained
<1>8. ASSUME NEW c \in Consumers, Delete(c) PROVE Retained
  <2>1. PICK j : j = consumer[c].id /\ j \in handled
    BY <1>8 DEF Delete, PipelineInv, SecuredCopies, Attended
  <2>2. handled' = handled /\ queue' = [queue EXCEPT !["notifications"] = @ \ {j}]
    BY <1>8, <2>1 DEF Delete
  <2> QED
    BY <1>0, <2>1, <2>2 DEF Retained
<1>9. ASSUME NEW i \in DOMAIN produced, DepositWorker(i) PROVE Retained
  <2>1. \/ handled' = handled /\ queue' = [queue EXCEPT !["deposits"] = @ \ {i}]
        \/ handled' = handled \cup {i} /\ queue' = queue
    BY <1>9 DEF DepositWorker
  <2> QED
    BY <1>0, <2>1 DEF Retained
<1>10. CASE Elsewhere
  BY <1>10 DEF Elsewhere, Retained
<1> QED
  BY <1>1, <1>2, <1>3, <1>4, <1>5, <1>6, <1>7, <1>8, <1>9, <1>10, PipelineCases

\* What a step makes of the inbox of a worker.
InboxStep(c) ==
  \/ inbox' = inbox
  \/ inbox' = [inbox EXCEPT ![c] = <<>>]
  \/ inbox[c] # <<>> /\ inbox' = [inbox EXCEPT ![c] = Tail(@)]
  \/ \E ms \in Batches(queue["notifications"] \ hidden) : inbox' = [inbox EXCEPT ![c] = ms]

\* It is left alone, emptied, shortened or filled from the queue.
LEMMA InboxCases ==
  ASSUME [PipelineNext]_pipelineVars
  PROVE  inbox' = inbox \/ \E c \in Consumers : InboxStep(c)
<1>1. CASE UNCHANGED notificationVars
  BY <1>1 DEF notificationVars
<1>2. ASSUME NEW c \in Consumers, Receive(c) \/ Refuse(c) \/ Process(c) \/ ConsumerStops(c) PROVE InboxStep(c)
  BY <1>2 DEF Receive, Refuse, Process, ConsumerStops, InboxStep
<1>3. ASSUME NEW c \in Consumers, Handles(c) \/ Delete(c) PROVE inbox' = inbox
  BY <1>3 DEF Handles, SendCode, CreateNotification, GiveUp, NextRecipient, Skip, Deliver, MarkNotificationDeliveryComplete, Delete
<1>4. ASSUME NEW i, DepositWorker(i) PROVE inbox' = inbox
  BY <1>4 DEF DepositWorker
<1> QED
  BY <1>1, <1>2, <1>3, <1>4, PipelineCases

\* A batch is a sequence of messages of the queue.
LEMMA BatchesAre == ASSUME NEW S, NEW ms \in Batches(S) PROVE ms \in Seq(S)
<1>1. PICK n \in 1..MaxMessages : ms \in [1..n -> S]
  BY DEF Batches
<1>2. n \in Nat
  BY NotificationsAssumption
<1> QED
  BY <1>1, <1>2, SeqDef

\* What is received stays in the queue until it is finished with.
LEMMA InboxKeeps == PipelineInv /\ SecuredInbox /\ [PipelineNext]_pipelineVars => SecuredInbox'
<1> SUFFICES ASSUME PipelineInv, SecuredInbox, [PipelineNext]_pipelineVars PROVE SecuredInbox'
  OBVIOUS
<1>1. PICK S, T : S = handled \cup queue["notifications"] /\ T = (handled \cup queue["notifications"])' /\ S \subseteq T
  BY StepRetains DEF Retained
<1>2. \A ms \in Seq(S) : ms \in Seq(T)
  BY <1>1, SeqMonotonic
<1>3. inbox = [x \in Consumers |-> inbox[x]] /\ \A x \in Consumers : inbox[x] \in Seq(T)
  BY <1>1, <1>2 DEF SecuredInbox
<1>4. ASSUME NEW c \in Consumers, InboxStep(c) PROVE inbox' = [x \in Consumers |-> inbox'[x]] /\ \A x \in Consumers : inbox'[x] \in Seq(T)
  <2>1. ASSUME NEW ms \in Seq(T), inbox' = [inbox EXCEPT ![c] = ms]
        PROVE  inbox' = [x \in Consumers |-> inbox'[x]] /\ \A x \in Consumers : inbox'[x] \in Seq(T)
    BY <1>3, <2>1
  <2>2. CASE inbox' = inbox
    BY <1>3, <2>2
  <2>3. CASE inbox' = [inbox EXCEPT ![c] = <<>>]
    <3>1. <<>> \in Seq(T)
      OBVIOUS
    <3> QED
      BY <2>1, <2>3, <3>1
  <2>4. CASE inbox[c] # <<>> /\ inbox' = [inbox EXCEPT ![c] = Tail(@)]
    <3>1. PICK ms : ms = inbox[c] /\ ms \in Seq(T) /\ ms # <<>>
      BY <1>3, <2>4
    <3>2. Tail(ms) \in Seq(T) /\ inbox' = [inbox EXCEPT ![c] = Tail(ms)]
      BY <2>4, <3>1, HeadTailProperties
    <3> QED
      BY <2>1, <3>2
  <2>5. ASSUME NEW ms \in Batches(queue["notifications"] \ hidden), inbox' = [inbox EXCEPT ![c] = ms]
        PROVE  ms \in Seq(T)
    <3>1. PICK U : U = queue["notifications"] \ hidden /\ U \subseteq T
      BY <1>1
    <3>2. ms \in Seq(U)
      BY <3>1, BatchesAre
    <3> QED
      BY <3>1, <3>2, SeqMonotonic
  <2> QED
    BY <1>4, <2>1, <2>2, <2>3, <2>4, <2>5 DEF InboxStep
<1>5. inbox' = [x \in Consumers |-> inbox'[x]] /\ \A x \in Consumers : inbox'[x] \in Seq(T)
  BY <1>3, <1>4, InboxCases
<1> QED
  BY <1>1, <1>5 DEF SecuredInbox

-----------------------------------------------------------------------------
(* The pipeline is a channel that delivers at least once *)

\* Somewhere, of any contents.
Kept(i, o, b, s, qs) ==
  \/ ~o[i].published
  \/ \E p \in Publishers : \E e \in b[p] : e[1] = i /\ ~(s[p] /\ e = Oldest(b[p]))
  \/ \E q \in Queues : i \in qs[q]

\* The status of the events in the channel.
StatusOf(o, b, s, qs) == [i \in Ids |-> IF i > Len(o) THEN "none" ELSE IF Kept(i, o, b, s, qs) THEN "kept" ELSE "gone"]

\* It is the same.
LEMMA SomewhereKept ==
  /\ \A i : Somewhere(i) <=> Kept(i, outbox, batch, sent, queue)
  /\ \A i : Somewhere(i)' <=> Kept(i, outbox', batch', sent', queue')
<1>1. \A p : First(p) = Oldest(batch[p]) /\ First(p)' = Oldest(batch'[p])
  BY DEF First, Oldest
<1> QED
  BY <1>1 DEF Somewhere, Kept

\* What is committed is kept or received.
LEMMA KeptOrReceived ==
  ASSUME PipelineInv'
  PROVE  \A i \in 1..Len(outbox') : Kept(i, outbox', batch', sent', queue') \/ i \in handled'
  BY DEF PipelineInv, SecuredRows, Secured, Kept

\* The same before the step.
LEMMA KeptOrReceivedNow ==
  ASSUME PipelineInv
  PROVE  \A i \in 1..Len(outbox) : Kept(i, outbox, batch, sent, queue) \/ i \in handled
  BY DEF PipelineInv, SecuredRows, Secured, Kept

\* The events and the identifiers.
LEMMA Numbers == ASSUME PipelineInv PROVE Len(outbox) \in Nat /\ Length \in Nat /\ Len(outbox) <= Length /\ Ids = 1..Length
<1>1. Len(outbox) \in Nat
  BY LenProperties DEF PipelineInv, PipelineTypes
<1> QED
  BY <1>1, OutboxAssumption DEF PipelineInv, PipelineTypes, Ids

\* A step after which no event is kept that was not: those that are not kept any more are forgotten.
LEMMA DropsForget ==
  ASSUME PipelineInv, PipelineInv', Len(outbox') = Len(outbox), handled' = handled,
         \A i \in 1..Len(outbox) : Kept(i, outbox', batch', sent', queue') => Kept(i, outbox, batch, sent, queue)
  PROVE  Channel!Next
<1>1. Len(outbox) \in Nat /\ Length \in Nat /\ Len(outbox) <= Length /\ Ids = 1..Length
  BY Numbers
<1> DEFINE st  == StatusOf(outbox, batch, sent, queue)
           st1 == StatusOf(outbox', batch', sent', queue')
           es  == {i \in 1..Len(outbox) : Kept(i, outbox, batch, sent, queue) /\ ~Kept(i, outbox', batch', sent', queue')}
<1>2. es \subseteq Ids /\ \A i \in es : i \in handled
  BY <1>1, KeptOrReceived
<1>3. \A i \in es : st[i] = "kept"
  BY <1>1, <1>2 DEF StatusOf
<1>4. ASSUME NEW i \in Ids PROVE st1[i] = IF i \in es THEN "gone" ELSE st[i]
  BY <1>1, <1>4 DEF StatusOf
<1>5. st1 = [i \in Ids |-> st1[i]]
  BY DEF StatusOf
<1>6. st1 = [i \in Ids |-> IF i \in es THEN "gone" ELSE st[i]]
  BY <1>4, <1>5
<1>7. /\ [i \in Ids |-> IF i > Len(outbox) THEN "none" ELSE IF Somewhere(i) THEN "kept" ELSE "gone"] = st
      /\ [i \in Ids |-> IF i > Len(outbox) THEN "none" ELSE IF Somewhere(i) THEN "kept" ELSE "gone"]' = st1
  BY SomewhereKept DEF StatusOf, Ids
<1> HIDE DEF st, st1, es
<1>8. PICK fs \in SUBSET Ids : fs = es
  BY <1>2
<1>9. Channel!Forget(fs)
  BY <1>2, <1>3, <1>6, <1>7, <1>8 DEF Channel!Forget
<1> QED
  BY <1>8, <1>9 DEF Channel!Next

\* A worker finishes with an event.
LEMMA TakesReceive ==
  ASSUME PipelineInv, UNCHANGED outboxVars, NEW i \in 1..Len(outbox), handled' = handled \/ handled' = handled \cup {i}
  PROVE  Channel!Next \/ UNCHANGED Channel!channelVars
<1>1. Len(outbox) \in Nat /\ Length \in Nat /\ Len(outbox) <= Length /\ Ids = 1..Length
  BY Numbers
<1> DEFINE st == StatusOf(outbox, batch, sent, queue)
<1>2. /\ [k \in Ids |-> IF k > Len(outbox) THEN "none" ELSE IF Somewhere(k) THEN "kept" ELSE "gone"] = st
      /\ [k \in Ids |-> IF k > Len(outbox) THEN "none" ELSE IF Somewhere(k) THEN "kept" ELSE "gone"]' = st
  BY SomewhereKept DEF StatusOf, Ids, outboxVars
<1>3. i \in Ids /\ (st[i] = "kept" \/ i \in handled)
  BY <1>1, KeptOrReceivedNow DEF StatusOf
<1> HIDE DEF st
<1>4. CASE handled' = handled
  BY <1>2, <1>4 DEF Channel!channelVars
<1>5. CASE handled' = handled \cup {i} /\ handled' # handled
  <2>1. st[i] = "kept"
    BY <1>3, <1>5
  <2>2. Channel!Receive(i)
    BY <1>2, <1>5, <2>1 DEF Channel!Receive
  <2> QED
    BY <1>3, <2>2 DEF Channel!Next
<1> QED
  BY <1>4, <1>5

\* A row is committed.
LEMMA EnqueueSends == ASSUME PipelineInv, Enqueue, UNCHANGED notificationVars PROVE Channel!Next
<1> DEFINE row == [published |-> FALSE, lease |-> "none", token |-> 0]
           n == Len(outbox)
           st  == StatusOf(outbox, batch, sent, queue)
           st1 == StatusOf(outbox', batch', sent', queue')
<1>1. /\ n \in Nat /\ Length \in Nat /\ n < Length /\ Ids = 1..Length /\ n + 1 \in Ids
      /\ outbox \in Seq(OutboxRows) /\ outbox' = Append(outbox, row) /\ UNCHANGED <<batch, sent, queue, handled>>
  BY Numbers, OutboxAssumption DEF PipelineInv, PipelineTypes, Enqueue, notificationVars
<1>2. row \in OutboxRows /\ ~row.published
  BY DEF OutboxRows
<1> HIDE DEF row
<1>3. Len(outbox') = n + 1 /\ outbox'[n + 1] = row /\ \A i \in 1..n : outbox'[i] = outbox[i]
  BY <1>1, <1>2, AppendProperties
<1>4. st[n + 1] = "none"
  BY <1>1 DEF StatusOf
<1>5. ASSUME NEW i \in Ids PROVE st1[i] = IF i = n + 1 THEN "kept" ELSE st[i]
  <2>1. CASE i = n + 1
    BY <1>1, <1>2, <1>3, <2>1 DEF StatusOf, Kept
  <2>2. CASE i \in 1..n
    <3>1. Kept(i, outbox', batch', sent', queue') <=> Kept(i, outbox, batch, sent, queue)
      BY <1>1, <1>3, <2>2 DEF Kept
    <3> QED
      BY <1>1, <1>3, <2>2, <3>1 DEF StatusOf
  <2>3. CASE i > n + 1
    BY <1>1, <1>3, <2>3 DEF StatusOf
  <2> QED
    BY <1>1, <2>1, <2>2, <2>3
<1>6. st = [i \in Ids |-> st[i]] /\ st1 = [i \in Ids |-> st1[i]]
  BY DEF StatusOf
<1>7. /\ [i \in Ids |-> IF i > Len(outbox) THEN "none" ELSE IF Somewhere(i) THEN "kept" ELSE "gone"] = st
      /\ [i \in Ids |-> IF i > Len(outbox) THEN "none" ELSE IF Somewhere(i) THEN "kept" ELSE "gone"]' = st1
  BY SomewhereKept DEF StatusOf, Ids
<1> HIDE DEF st, st1
<1>8. st1 = [st EXCEPT ![n + 1] = "kept"]
  BY <1>1, <1>5, <1>6
<1>9. PICK e \in Ids : e = n + 1
  BY <1>1
<1>10. Channel!Send(e)
  BY <1>1, <1>4, <1>7, <1>8, <1>9 DEF Channel!Send
<1> QED
  BY <1>10 DEF Channel!Next

\* No event comes back that was forgotten.
NothingRevived ==
  /\ Len(outbox') = Len(outbox) /\ handled' = handled
  /\ \A i \in 1..Len(outbox) : Kept(i, outbox', batch', sent', queue') => Kept(i, outbox, batch, sent, queue)

\* Leased rows were in the table, and those that are dropped stay there.
LEMMA PublisherRevives ==
  ASSUME PipelineInv, NEW p \in Publishers, LeaseOutbox(p) \/ Publish(p) \/ MarkOutboxPublished(p) \/ PublisherStops(p),
         UNCHANGED notificationVars
  PROVE  NothingRevived
<1>0. handled' = handled /\ batch \in [Publishers -> SUBSET ((1..Len(outbox)) \X Nat)] /\ sent \in [Publishers -> BOOLEAN]
      /\ queue \in [Queues -> SUBSET (1..Len(outbox))] /\ "source" \in Queues
  BY DEF notificationVars, PipelineInv, PipelineTypes, Queues
<1>1. CASE LeaseOutbox(p)
  <2>1. /\ SameRows(outbox, outbox') /\ \A t \in Publishers : t # p => batch'[t] = batch[t]
        /\ \A e \in batch'[p] : e[1] \in 1..Len(outbox) /\ ~outbox[e[1]].published
    BY <1>1, LeaseRows DEF PipelineInv
  <2>2. UNCHANGED <<sent, queue>>
    BY <1>1 DEF LeaseOutbox
  <2> QED
    BY <1>0, <2>1, <2>2 DEF NothingRevived, Kept, SameRows
<1>2. CASE Publish(p)
  <2>1. /\ UNCHANGED <<outbox, batch>> /\ batch[p] # {} /\ ~sent[p]
        /\ queue' = [queue EXCEPT !["source"] = @ \cup {First(p)[1]}] /\ sent' = [sent EXCEPT ![p] = TRUE]
    BY <1>2 DEF Publish
  <2>2. First(p) \in batch[p]
    BY <2>1, FirstOldest DEF PipelineInv
  <2>3. Kept(First(p)[1], outbox, batch, sent, queue)
    BY <2>1, <2>2 DEF Kept
  <2>4. \A q \in Queues : \A i \in queue'[q] : i \in queue[q] \/ i = First(p)[1]
    BY <1>0, <2>1
  <2>5. \A t \in Publishers : sent[t] => sent'[t]
    BY <1>0, <2>1
  <2> QED
    BY <1>0, <2>1, <2>3, <2>4, <2>5 DEF NothingRevived, Kept
<1>3. CASE MarkOutboxPublished(p)
  <2>1. /\ Len(outbox') = Len(outbox) /\ \A i \in 1..Len(outbox) : outbox[i].published => outbox'[i].published
    BY <1>3, MarkedRows
  <2>2. batch[p] # {}
    BY <1>3 DEF MarkOutboxPublished, PipelineInv, PipelineTypes
  <2>3. First(p) = Oldest(batch[p])
    BY <2>2, FirstOldest DEF PipelineInv
  <2>4. queue' = queue /\ batch' = [batch EXCEPT ![p] = @ \ {First(p)}] /\ sent' = [sent EXCEPT ![p] = FALSE]
    BY <1>3 DEF MarkOutboxPublished
  <2>5. \A t \in Publishers : t # p => batch'[t] = batch[t] /\ sent'[t] = sent[t]
    BY <1>0, <2>4
  <2>6. \A e \in batch'[p] : e \in batch[p] /\ e # Oldest(batch[p])
    BY <1>0, <2>3, <2>4
  <2> QED
    BY <1>0, <2>1, <2>4, <2>5, <2>6 DEF NothingRevived, Kept
<1>4. CASE PublisherStops(p)
  <2>1. UNCHANGED <<outbox, queue>> /\ batch' = [batch EXCEPT ![p] = {}] /\ sent' = [sent EXCEPT ![p] = FALSE]
    BY <1>4 DEF PublisherStops
  <2>2. batch'[p] = {} /\ \A t \in Publishers : t # p => batch'[t] = batch[t] /\ sent'[t] = sent[t]
    BY <1>0, <2>1
  <2> QED
    BY <1>0, <2>1, <2>2 DEF NothingRevived, Kept
<1> QED
  BY <1>1, <1>2, <1>3, <1>4

\* A step that leaves the table and the publishers alone, and puts into a queue only what is in one.
LEMMA QueuesRevive ==
  ASSUME UNCHANGED <<outbox, batch, sent, handled>>, \A q \in Queues : \A i \in queue'[q] : \E t \in Queues : i \in queue[t]
  PROVE  NothingRevived
  BY DEF NothingRevived, Kept

\* The router and the workers' deletions are such steps.
LEMMA QueueSteps ==
  ASSUME PipelineInv,
         \/ (\E i \in Ids : Route(i)) /\ UNCHANGED notificationVars
         \/ (RouteDelete \/ RouterStops) /\ UNCHANGED notificationVars
         \/ \E c \in Consumers : Delete(c) \/ ConsumerStops(c)
  PROVE  NothingRevived
<1>0. queue \in [Queues -> SUBSET (1..Len(outbox))] /\ "source" \in Queues /\ "notifications" \in Queues
  BY DEF PipelineInv, PipelineTypes, Queues
<1>1. ASSUME NEW i \in Ids, Route(i), UNCHANGED notificationVars PROVE NothingRevived
  <2>1. PICK d \in Queues : d = Destination(produced[i].type)
    BY HasDestination
  <2>2. UNCHANGED <<outbox, batch, sent, handled>> /\ queue' = [queue EXCEPT ![d] = @ \cup {i}] /\ i \in queue["source"]
    BY <1>1, <2>1 DEF Route, Copied, notificationVars
  <2>3. \A q \in Queues : \A k \in queue'[q] : \E t \in Queues : k \in queue[t]
    BY <1>0, <2>2
  <2> QED
    BY <2>2, <2>3, QueuesRevive
<1>2. CASE RouteDelete /\ UNCHANGED notificationVars
  <2>1. UNCHANGED <<outbox, batch, sent, handled>> /\ queue' = [queue EXCEPT !["source"] = @ \ {router}]
    BY <1>2 DEF RouteDelete, notificationVars
  <2>2. \A q \in Queues : \A k \in queue'[q] : \E t \in Queues : k \in queue[t]
    BY <1>0, <2>1
  <2> QED
    BY <2>1, <2>2, QueuesRevive
<1>3. CASE (RouterStops /\ UNCHANGED notificationVars) \/ \E c \in Consumers : ConsumerStops(c)
  BY <1>3, QueuesRevive DEF RouterStops, ConsumerStops, notificationVars
<1>4. ASSUME NEW c \in Consumers, Delete(c) PROVE NothingRevived
  <2>1. UNCHANGED <<outbox, batch, sent, handled>> /\ queue' = [queue EXCEPT !["notifications"] = @ \ {consumer[c].id}]
    BY <1>4 DEF Delete
  <2>2. \A q \in Queues : \A k \in queue'[q] : \E t \in Queues : k \in queue[t]
    BY <1>0, <2>1
  <2> QED
    BY <2>1, <2>2, QueuesRevive
<1> QED
  BY <1>1, <1>2, <1>3, <1>4

\* A step of a worker finishes with an event that is committed, or with none.
LEMMA WorkersTake ==
  ASSUME PipelineInv, SecuredInbox, NEW c \in Consumers, Process(c) \/ Handles(c)
  PROVE  UNCHANGED outboxVars /\ \E i \in 1..Len(outbox) : handled' = handled \/ handled' = handled \cup {i}
<1>1. CASE Process(c)
  <2>1. PICK i : i = Head(inbox[c])
    OBVIOUS
  <2>2. i \in handled \cup queue["notifications"]
    BY <1>1, <2>1, FirstHeld DEF Process
  <2>3. i \in 1..Len(outbox)
    BY <2>2 DEF PipelineInv, PipelineTypes, Queues
  <2> QED
    BY <1>1, <2>1, <2>3 DEF Process
<1>2. CASE Handles(c)
  <2>1. UNCHANGED outboxVars
    BY <1>2 DEF Handles, SendCode, CreateNotification, GiveUp, NextRecipient, Skip, Deliver, MarkNotificationDeliveryComplete
  <2>2. GoesOn(c)
    BY <1>2, HandlesGoesOn DEF PipelineInv
  <2>3. PICK k : k = consumer[c].id
    OBVIOUS
  <2>4. k \in 1..Len(outbox)
    BY <2>2, <2>3 DEF GoesOn, PipelineInv, PipelineTypes, SecuredCopies, Attended, Queues
  <2> QED
    BY <2>1, <2>2, <2>3, <2>4 DEF GoesOn
<1> QED
  BY <1>1, <1>2

\* At first no event is committed.
LEMMA ChannelStart == PipelineInit => Channel!Init
<1> SUFFICES ASSUME PipelineInit PROVE Channel!Init
  OBVIOUS
<1>1. outbox = <<>> /\ handled = {} /\ Len(outbox) = 0
  BY DEF PipelineInit, OutboxInit
<1>2. \A i \in Ids : i > Len(outbox)
  BY <1>1, OutboxAssumption DEF Ids
<1> QED
  BY <1>1, <1>2 DEF Channel!Init

\* Every step of the pipeline is one of the channel.
LEMMA ChannelStep == PipelineInv /\ SecuredInbox /\ PipelineInv' /\ [PipelineNext]_pipelineVars => [Channel!Next]_(Channel!channelVars)
<1> SUFFICES ASSUME PipelineInv, SecuredInbox, PipelineInv', [PipelineNext]_pipelineVars PROVE Channel!Next \/ UNCHANGED Channel!channelVars
  OBVIOUS
<1>1. ASSUME NothingRevived PROVE Channel!Next
  BY <1>1, DropsForget DEF NothingRevived
<1>2. CASE Enqueue /\ UNCHANGED notificationVars
  BY <1>2, EnqueueSends
<1>3. ASSUME NEW p \in Publishers, LeaseOutbox(p) \/ Publish(p) \/ MarkOutboxPublished(p) \/ PublisherStops(p), UNCHANGED notificationVars
      PROVE  Channel!Next
  BY <1>1, <1>3, PublisherRevives
<1>4. ASSUME NEW i \in DOMAIN outbox, LeaseExpires(i), UNCHANGED notificationVars PROVE Channel!Next
  <2>1. SameRows(outbox, outbox')
    BY <1>4, ExpiryRows DEF PipelineInv
  <2>2. NothingRevived
    BY <1>4, <2>1 DEF LeaseExpires, notificationVars, NothingRevived, SameRows, Kept
  <2> QED
    BY <1>1, <2>2
<1>5. CASE \/ (\E i \in Ids : Route(i)) /\ UNCHANGED notificationVars
           \/ (RouteDelete \/ RouterStops) /\ UNCHANGED notificationVars
           \/ \E c \in Consumers : Delete(c) \/ ConsumerStops(c)
  BY <1>1, <1>5, QueueSteps
<1>6. ASSUME NEW c \in Consumers, Process(c) \/ Handles(c)
      PROVE  Channel!Next \/ UNCHANGED Channel!channelVars
  BY <1>6, WorkersTake, TakesReceive
<1>7. ASSUME NEW i \in DOMAIN produced, DepositWorker(i) PROVE Channel!Next \/ UNCHANGED Channel!channelVars
  <2>0. i \in 1..Len(outbox) /\ queue \in [Queues -> SUBSET (1..Len(outbox))] /\ "deposits" \in Queues
    BY <1>7 DEF DepositWorker, PipelineInv, PipelineTypes, Queues
  <2>1. CASE queue' = [queue EXCEPT !["deposits"] = @ \ {i}] /\ handled' = handled
    <3>1. \A q \in Queues : \A k \in queue'[q] : \E t \in Queues : k \in queue[t]
      BY <2>0, <2>1
    <3>2. NothingRevived
      BY <1>7, <2>1, <3>1, QueuesRevive DEF DepositWorker
    <3> QED
      BY <1>1, <3>2
  <2>2. CASE queue' = queue /\ handled' = handled \cup {i}
    <3>1. UNCHANGED outboxVars
      BY <1>7, <2>2 DEF DepositWorker, outboxVars
    <3> QED
      BY <2>0, <2>2, <3>1, TakesReceive
  <2> QED
    BY <1>7, <2>1, <2>2 DEF DepositWorker
<1>8. CASE Elsewhere
  <2>1. NothingRevived
    BY <1>8 DEF Elsewhere, NothingRevived
  <2> QED
    BY <1>1, <2>1
<1>9. ASSUME NEW c \in Consumers, Receive(c) \/ Refuse(c) PROVE Elsewhere
  BY <1>9, BatchesElsewhere
<1> QED
  BY <1>2, <1>3, <1>4, <1>5, <1>6, <1>7, <1>8, <1>9, PipelineCases

\* The pipeline implements AtLeastOnce: an event that was committed is in the
\* table, with a publisher or in a queue until a worker has finished with it,
\* wherever publishers, router and workers stop, leases expire and messages
\* are received again, for any number of processes and events.
THEOREM EventsKept == PipelineSpec => KeptUntilReceived
<1>1. PipelineInit => SecuredInbox
  BY DEF PipelineInit, SecuredInbox
<1>2. PipelineSpec => [](PipelineInv /\ SecuredInbox)
  BY <1>1, PipelineStart, PipelineStep, InboxKeeps, PTL DEF PipelineSpec
<1> QED
  BY <1>2, ChannelStart, ChannelStep, PTL DEF PipelineSpec, KeptUntilReceived, Channel!Spec
=============================================================================
