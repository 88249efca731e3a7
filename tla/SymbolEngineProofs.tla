------------------------- MODULE SymbolEngineProofs -------------------------
(***************************************************************************)
(* Proofs about the journal of a partition: a restart of SymbolEngine      *)
(* rebuilds the book and the replies of the worker, no answer that was     *)
(* given is lost, and the outside world sees one history, even after an    *)
(* append has failed.  restore() is a loop over the records of the file,   *)
(* and RestoreFrom a recursive function on their positions.  Its equation  *)
(* for one record more (RestoreAppend) is what everything rests on; it     *)
(* follows from the well-foundedness of < on the natural numbers, which    *)
(* takes the place of an induction.                                        *)
(***************************************************************************)
EXTENDS SymbolEngine, SumLemmas, TLAPS
-----------------------------------------------------------------------------
(* The loop of restore(). *)

\* The state restore() starts with.
Start == [ok |-> TRUE, book |-> EmptyBook, expect |-> <<>>, orders |-> {}, controls |-> {}]

\* g holds the states of the loop of restore() after each of the first n records of f.
Follows(g, f, n) == g = [i \in 0..n |-> IF i = 0 THEN Start ELSE RestoreStep(g[i - 1], f[i])]

\* Those states, one by one.
LEMMA FollowsAt ==
  ASSUME NEW f, NEW n \in Nat, NEW g, Follows(g, f, n)
  PROVE  /\ g[0] = Start
         /\ \A i \in 1..n : g[i] = RestoreStep(g[i - 1], f[i])
  <1> DEFINE R == [i \in 0..n |-> IF i = 0 THEN Start ELSE RestoreStep(g[i - 1], f[i])]
  <1>1. g = R
    BY DEF Follows
  <1>2. R[0] = Start /\ \A i \in 1..n : R[i] = RestoreStep(g[i - 1], f[i])
    OBVIOUS
  <1> HIDE DEF R
  <1>3. QED
    BY <1>1, <1>2

\* e and f have the same first n records.
SameStart(e, f, n) == \A i \in 1..n : e[i] = f[i]

\* Two such sequences of states agree.
LEMMA FollowsOnce ==
  ASSUME NEW f, NEW e, NEW n \in Nat, NEW m \in Nat, n <= m, NEW g, NEW h, Follows(g, f, n), Follows(h, e, m),
         SameStart(e, f, n)
  PROVE  g[n] = h[n]
  <1> DEFINE B == {i \in 0..n : g[i] # h[i]}
  <1> SUFFICES ASSUME B # {} PROVE FALSE
    OBVIOUS
  <1>0. B \in SUBSET Nat
    OBVIOUS
  <1> HIDE DEF B
  <1>1. PICK i \in B : \A j \in B : i <= j
    BY <1>0, LeastNat
  <1>2. i \in 0..n /\ i \in Nat /\ g[i] # h[i]
    BY <1>0, <1>1 DEF B
  <1>3. g[0] = Start /\ h[0] = Start
    BY FollowsAt
  <1>4. i # 0
    BY <1>2, <1>3
  <1>5. i - 1 \in 0..n /\ ~(i <= i - 1) /\ i \in 1..n /\ i \in 1..m
    BY <1>2, <1>4
  <1>6. g[i - 1] = h[i - 1]
    BY <1>1, <1>5 DEF B
  <1>7. g[i] = RestoreStep(g[i - 1], f[i])
    BY <1>5, FollowsAt
  <1>8. h[i] = RestoreStep(h[i - 1], e[i])
    BY <1>5, FollowsAt
  <1>9. e[i] = f[i]
    BY <1>5 DEF SameStart
  <1>10. QED
    BY <1>2, <1>6, <1>7, <1>8, <1>9

\* There is such a sequence of states.
LEMMA FollowsExists ==
  ASSUME NEW f, NEW n \in Nat
  PROVE  \E g : Follows(g, f, n)
  <1> DEFINE B == {k \in Nat : ~\E g : Follows(g, f, k)}
  <1> SUFFICES ASSUME B # {} PROVE FALSE
    OBVIOUS
  <1>0. B \in SUBSET Nat
    OBVIOUS
  <1> HIDE DEF B
  <1>1. PICK k \in B : \A j \in B : k <= j
    BY <1>0, LeastNat
  <1>2. k \in Nat /\ ~\E g : Follows(g, f, k)
    BY <1>1 DEF B
  <1>3. k # 0
    <2> DEFINE z == [i \in 0..0 |-> Start]
    <2>1. Follows(z, f, 0)
      BY DEF Follows
    <2> QED
      BY <1>2, <2>1
  <1>4. k - 1 \in Nat /\ ~(k <= k - 1)
    BY <1>2, <1>3
  <1>5. PICK g : Follows(g, f, k - 1)
    BY <1>1, <1>4 DEF B
  <1>6. g[0] = Start /\ \A i \in 1..(k - 1) : g[i] = RestoreStep(g[i - 1], f[i])
    BY <1>4, <1>5, FollowsAt
  <1> DEFINE h == [i \in 0..k |-> IF i = k THEN RestoreStep(g[k - 1], f[k]) ELSE g[i]]
  <1>7. \A i \in 0..k : h[i] = IF i = 0 THEN Start ELSE RestoreStep(h[i - 1], f[i])
    <2>1. h[0] = Start
      BY <1>2, <1>3, <1>6
    <2>2. ASSUME NEW i \in 1..k PROVE h[i - 1] = g[i - 1]
      BY <1>2
    <2>3. ASSUME NEW i \in 1..k, i # k PROVE h[i] = RestoreStep(g[i - 1], f[i])
      BY <1>2, <1>6, <2>3
    <2>4. h[k] = RestoreStep(g[k - 1], f[k])
      BY <1>2
    <2> HIDE DEF h
    <2>5. ASSUME NEW i \in 1..k PROVE h[i] = RestoreStep(h[i - 1], f[i])
      BY <2>2, <2>3, <2>4
    <2>6. QED
      BY <1>2, <2>1, <2>5
  <1>8. h = [i \in 0..k |-> h[i]]
    OBVIOUS
  <1> HIDE DEF h
  <1>9. h = [i \in 0..k |-> IF i = 0 THEN Start ELSE RestoreStep(h[i - 1], f[i])]
    BY <1>7, <1>8
  <1>10. Follows(h, f, k)
    BY <1>9 DEF Follows
  <1>11. QED
    BY <1>2, <1>10

\* RestoreFrom is the last state of the chosen one.
LEMMA RestoreUnfold ==
  ASSUME NEW f
  PROVE  RestoreFrom(f) = (CHOOSE g : Follows(g, f, Len(f)))[Len(f)]
  <1>1. ASSUME NEW g, NEW i PROVE (CHOOSE b \in {RestoreStep(a, f[i]) : a \in {g[i - 1]}} : TRUE) = RestoreStep(g[i - 1], f[i])
    <2>1. {RestoreStep(a, f[i]) : a \in {g[i - 1]}} = {RestoreStep(g[i - 1], f[i])}
      OBVIOUS
    <2>2. \A x : (CHOOSE b \in {x} : TRUE) = x
      OBVIOUS
    <2>3. QED
      BY <2>1, <2>2
  <1> DEFINE F(g) == g = [i \in 0..Len(f) |-> IF i = 0 THEN Start
                         ELSE CHOOSE b \in {RestoreStep(a, f[i]) : a \in {g[i - 1]}} : TRUE]
  <1>2. \A g : F(g) <=> Follows(g, f, Len(f))
    BY <1>1 DEF Follows
  <1>3. RestoreFrom(f) = (CHOOSE g : F(g))[Len(f)]
    BY DEF RestoreFrom, Start
  <1> HIDE DEF F
  <1>4. (CHOOSE g : F(g)) = (CHOOSE g : Follows(g, f, Len(f)))
    BY <1>2
  <1>5. QED
    BY <1>3, <1>4

\* Nothing is restored from an empty journal.
LEMMA RestoreEmpty == RestoreFrom(<<>>) = Start
  <1>1. Len(<<>>) = 0
    OBVIOUS
  <1>2. PICK c : c = (CHOOSE g : Follows(g, <<>>, 0))
    OBVIOUS
  <1>3. Follows(c, <<>>, 0)
    BY <1>2, FollowsExists
  <1>4. c[0] = Start
    BY <1>3, FollowsAt
  <1>5. QED
    BY <1>1, <1>2, <1>4, RestoreUnfold

\* A record more is a turn of the loop more.
LEMMA RestoreAppend ==
  ASSUME NEW S, NEW f \in Seq(S), NEW x \in S
  PROVE  RestoreFrom(Append(f, x)) = RestoreStep(RestoreFrom(f), x)
  <1>1. PICK e : e = Append(f, x)
    OBVIOUS
  <1>2. /\ Len(f) \in Nat /\ Len(e) = Len(f) + 1 /\ e[Len(f) + 1] = x
        /\ \A i \in 1..Len(f) : e[i] = f[i]
    BY <1>1
  <1>3. PICK c : c = (CHOOSE g : Follows(g, f, Len(f)))
    OBVIOUS
  <1>4. PICK d : d = (CHOOSE g : Follows(g, e, Len(e)))
    OBVIOUS
  <1>5. Follows(c, f, Len(f)) /\ Follows(d, e, Len(f) + 1)
    <2>1. Len(f) + 1 \in Nat
      BY <1>2
    <2>2. (\E g : Follows(g, f, Len(f))) /\ (\E g : Follows(g, e, Len(e)))
      BY <1>2, <2>1, FollowsExists
    <2>3. Follows(c, f, Len(f))
      BY <1>3, <2>2
    <2>4. Follows(d, e, Len(e))
      BY <1>4, <2>2
    <2>5. QED
      BY <1>2, <2>3, <2>4
  <1>6. c[Len(f)] = d[Len(f)]
    <2>1. PICK n, m : n = Len(f) /\ m = Len(f) + 1
      OBVIOUS
    <2>2. n \in Nat
      BY <1>2, <2>1
    <2>3. m \in Nat
      BY <1>2, <2>1
    <2>4. n <= m
      BY <1>2, <2>1
    <2>5. Follows(c, f, n)
      BY <1>5, <2>1
    <2>6. Follows(d, e, m)
      BY <1>5, <2>1
    <2>7. SameStart(e, f, n)
      BY <1>2, <2>1 DEF SameStart
    <2>8. c[n] = d[n]
      BY <2>2, <2>3, <2>4, <2>5, <2>6, <2>7, FollowsOnce
    <2>9. QED
      BY <2>1, <2>8
  <1>7. d[Len(f) + 1] = RestoreStep(d[Len(f)], x)
    <2>1. \A i \in 1..(Len(f) + 1) : d[i] = RestoreStep(d[i - 1], e[i])
      BY <1>2, <1>5, FollowsAt
    <2>2. Len(f) + 1 \in 1..(Len(f) + 1) /\ Len(f) + 1 - 1 = Len(f)
      BY <1>2
    <2>3. QED
      BY <1>2, <2>1, <2>2
  <1>8. RestoreFrom(f) = c[Len(f)]
    BY <1>3, RestoreUnfold
  <1>9. RestoreFrom(e) = d[Len(f) + 1]
    BY <1>2, <1>4, RestoreUnfold
  <1>10. QED
    BY <1>1, <1>6, <1>7, <1>8, <1>9
-----------------------------------------------------------------------------
(* Sequences of records. *)

IsSeq(s) == s \in Seq(Range(s))

\* A sequence is one of its own elements.
LEMMA OwnElements == ASSUME NEW S, NEW s \in Seq(S) PROVE IsSeq(s)
  <1>1. Len(s) \in Nat /\ DOMAIN s = 1..Len(s) /\ s = [i \in 1..Len(s) |-> s[i]]
    OBVIOUS
  <1>2. \A i \in 1..Len(s) : s[i] \in Range(s)
    BY <1>1 DEF Range
  <1>3. s \in [1..Len(s) -> Range(s)]
    BY <1>1, <1>2
  <1>4. QED
    BY <1>1, <1>3 DEF IsSeq

\* A sequence with one more element.
LEMMA OneMore ==
  ASSUME NEW s, IsSeq(s), NEW x
  PROVE  /\ IsSeq(Append(s, x)) /\ Len(s) \in Nat /\ DOMAIN s = 1..Len(s)
         /\ Len(Append(s, x)) = Len(s) + 1 /\ Append(s, x)[Len(s) + 1] = x
         /\ \A i \in 1..Len(s) : Append(s, x)[i] = s[i]
         /\ s \in Seq(Range(s) \cup {x}) /\ DOMAIN Append(s, x) = 1..(Len(s) + 1)
  <1>1. s \in Seq(Range(s) \cup {x})
    BY DEF IsSeq
  <1>2. Append(s, x) \in Seq(Range(s) \cup {x})
    BY <1>1
  <1>3. IsSeq(Append(s, x))
    BY <1>2, OwnElements
  <1>4. QED
    BY <1>1, <1>2, <1>3

\* The records that the commands put out.
IsOutputs(s) == IsSeq(s) /\ \A i \in 1..Len(s) : ~IsCommand(s[i])

\* What is left of the outputs after the first.
LEMMA RestOfOutputs ==
  ASSUME NEW s, IsOutputs(s), s # <<>>
  PROVE  IsOutputs(Tail(s)) /\ ~IsCommand(Head(s))
  <1>1. s \in Seq(Range(s)) /\ \A i \in 1..Len(s) : ~IsCommand(s[i])
    BY DEF IsOutputs, IsSeq
  <1>2. Len(s) \in Nat /\ Len(s) >= 1 /\ Head(s) = s[1]
    BY <1>1
  <1>3. Tail(s) \in Seq(Range(s)) /\ Len(Tail(s)) = Len(s) - 1 /\ \A i \in 1..(Len(s) - 1) : Tail(s)[i] = s[i + 1]
    BY <1>1, <1>2
  <1>4. IsSeq(Tail(s))
    BY <1>3, OwnElements
  <1>5. \A i \in 1..(Len(s) - 1) : i + 1 \in 1..Len(s)
    BY <1>2
  <1>6. QED
    BY <1>1, <1>2, <1>3, <1>4, <1>5 DEF IsOutputs

\* No outputs.
LEMMA NoOutputs == IsOutputs(<<>>)
  <1>1. <<>> \in Seq({}) /\ Len(<<>>) = 0 /\ 1..0 = {}
    OBVIOUS
  <1>2. IsSeq(<<>>)
    BY <1>1, OwnElements
  <1>3. QED
    BY <1>1, <1>2 DEF IsOutputs

\* One output more.
LEMMA MoreOutputs ==
  ASSUME NEW s, IsOutputs(s), NEW x, ~IsCommand(x)
  PROVE  IsOutputs(Append(s, x))
  <1>0. IsSeq(s)
    BY DEF IsOutputs
  <1>1. \A i \in 1..Len(s) : ~IsCommand(s[i])
    BY DEF IsOutputs
  <1>2. PICK t : t = Append(s, x)
    OBVIOUS
  <1>3. IsSeq(t) /\ Len(s) \in Nat /\ Len(t) = Len(s) + 1 /\ t[Len(s) + 1] = x
    BY <1>0, <1>2, OneMore
  <1>4. \A i \in 1..Len(s) : t[i] = s[i]
    BY <1>0, <1>2, OneMore
  <1>5. \A i \in 1..(Len(s) + 1) : i \in 1..Len(s) \/ i = Len(s) + 1
    BY <1>3
  <1>6. \A i \in 1..Len(t) : ~IsCommand(t[i])
    BY <1>1, <1>3, <1>4, <1>5
  <1>7. QED
    BY <1>2, <1>3, <1>6 DEF IsOutputs

\* A journal without a fragment is whole.
LEMMA WholeJournal ==
  ASSUME NEW g, IsSeq(g), recover(g)
  PROVE  Whole(g) = g
  <1>1. Len(g) \in Nat /\ g \in Seq(Range(g)) /\ \A i \in 1..Len(g) : g[i].ok
    BY DEF IsSeq, recover
  <1> DEFINE P(n) == (\A i \in 1..n : g[i].ok) /\ (n = Len(g) \/ ~g[n + 1].ok)
  <1>2. P(Len(g)) /\ Len(g) \in 0..Len(g)
    BY <1>1
  <1>3. ASSUME NEW n \in 0..Len(g), P(n) PROVE n = Len(g)
    <2>1. n # Len(g) => n + 1 \in 1..Len(g)
      BY <1>1
    <2>2. QED
      BY <1>1, <1>3, <2>1
  <1>4. Whole(g) = SubSeq(g, 1, CHOOSE n \in 0..Len(g) : P(n))
    BY DEF Whole
  <1> HIDE DEF P
  <1>5. (CHOOSE n \in 0..Len(g) : P(n)) = Len(g)
    BY <1>2, <1>3
  <1>6. SubSeq(g, 1, Len(g)) = g
    BY <1>1
  <1>7. QED
    BY <1>4, <1>5, <1>6

\* A fragment at the end is left out.
LEMMA WholeFragment ==
  ASSUME NEW g, IsSeq(g), recover(g), NEW x, ~x.ok
  PROVE  Whole(Append(g, x)) = g
  <1>0. PICK f : f = Append(g, x)
    OBVIOUS
  <1>1. Len(g) \in Nat /\ g \in Seq(Range(g)) /\ \A i \in 1..Len(g) : g[i].ok
    BY DEF IsSeq, recover
  <1>2. Len(f) = Len(g) + 1 /\ f[Len(g) + 1] = x /\ (\A i \in 1..Len(g) : f[i] = g[i])
    BY <1>0, OneMore
  <1> DEFINE P(n) == (\A i \in 1..n : f[i].ok) /\ (n = Len(f) \/ ~f[n + 1].ok)
  <1>3. P(Len(g)) /\ Len(g) \in 0..Len(f)
    BY <1>1, <1>2
  <1>4. ASSUME NEW n \in 0..Len(f), P(n) PROVE n = Len(g)
    <2>1. CASE n = Len(g) + 1
      <3>1. n \in 1..n
        BY <1>1, <2>1
      <3>2. QED
        BY <1>2, <1>4, <2>1, <3>1
    <2>2. CASE n \in 0..(Len(g) - 1)
      <3>1. n + 1 \in 1..Len(g) /\ n # Len(f)
        BY <1>1, <1>2, <2>2
      <3>2. f[n + 1].ok
        BY <1>1, <1>2, <3>1
      <3>3. QED
        BY <1>4, <3>1, <3>2
    <2>3. QED
      BY <1>1, <1>2, <2>1, <2>2
  <1>5. Whole(f) = SubSeq(f, 1, CHOOSE n \in 0..Len(f) : P(n))
    BY DEF Whole
  <1> HIDE DEF P
  <1>6. (CHOOSE n \in 0..Len(f) : P(n)) = Len(g)
    BY <1>3, <1>4
  <1>7. SubSeq(f, 1, Len(g)) = g
    <2>0. g \in Seq(Range(g) \cup {x})
      BY OneMore
    <2>1. SubSeq(f, 1, Len(g)) = [i \in 1..Len(g) |-> f[i]]
      BY <1>0, <1>1, <1>2, <2>0
    <2>2. g = [i \in 1..Len(g) |-> g[i]]
      BY <1>1
    <2>3. QED
      BY <1>2, <2>1, <2>2
  <1>8. QED
    BY <1>0, <1>5, <1>6, <1>7
-----------------------------------------------------------------------------
(* What the book makes of a command. *)

IsBook(b) ==
  b = [seen |-> b.seen, open |-> b.open, trades |-> b.trades, statuses |-> b.statuses, depth |-> b.depth]

\* A book by its fields.
LEMMA BookFields ==
  ASSUME NEW s, NEW o, NEW t, NEW n, NEW d
  PROVE  IsBook([seen |-> s, open |-> o, trades |-> t, statuses |-> n, depth |-> d])
  BY DEF IsBook

\* The last status of a list of events is one of its statuses.
LEMMA LastStatus ==
  ASSUME NEW events, NEW i \in DOMAIN events, IsStatus(events[i]),
         \A j \in DOMAIN events : j \in Int /\ (IsStatus(events[j]) => j <= i)
  PROVE  OrderReply(events) = events[i].data
  <1> DEFINE S == {j \in DOMAIN events : IsStatus(events[j])}
  <1>1. i \in S /\ S \subseteq Int /\ \A j \in S : j <= i
    OBVIOUS
  <1>2. OrderReply(events) = events[Max(S)].data
    BY DEF OrderReply
  <1> HIDE DEF S
  <1>3. Max(S) = i
    BY <1>1 DEF Max
  <1>4. QED
    BY <1>2, <1>3

\* A new order is taken by the book, which answers with at least one status.
LEMMA NewOrder ==
  ASSUME NEW b, IsBook(b), NEW id, id \notin b.seen, NEW r, r = BookSubmit(b, id)
  PROVE  /\ IsBook(r.book) /\ r.book.seen = b.seen \cup {id}
         /\ r.events # <<>> /\ IsOutputs(r.events) /\ OrderReply(r.events) # <<>>
  <1>0. PICK s, o, u, n, d : b = [seen |-> s, open |-> o, trades |-> u, statuses |-> n, depth |-> d]
    BY DEF IsBook
  <1>1. CASE id \in Refused
    <2>1. PICK x : x = StatusRecord(b.statuses + 1, id, "rejected")
      OBVIOUS
    <2>2. r = [book |-> [b EXCEPT !.seen = @ \cup {id}, !.statuses = @ + 1], events |-> <<x>>]
      BY <1>1, <2>1 DEF BookSubmit
    <2>3. IsStatus(x) /\ ~IsCommand(x) /\ x.data # <<>>
      BY <2>1 DEF StatusRecord, IsStatus, IsCommand
    <2>4. IsBook(r.book) /\ r.book.seen = b.seen \cup {id}
      <3>0. r.book = [b EXCEPT !.seen = @ \cup {id}, !.statuses = @ + 1]
        BY <2>2
      <3>1. r.book = [seen |-> s \cup {id}, open |-> o, trades |-> u, statuses |-> n + 1, depth |-> d]
        BY <1>0, <3>0
      <3>2. QED
        BY <1>0, <3>1, BookFields
    <2>5. r.events = <<x>>
      BY <2>2
    <2>6. IsOutputs(<<x>>)
      <3>1. <<x>> \in Seq({x}) /\ Len(<<x>>) = 1 /\ <<x>>[1] = x /\ \A i \in 1..1 : i = 1
        OBVIOUS
      <3>2. QED
        BY <2>3, <3>1, OwnElements DEF IsOutputs
    <2>7. OrderReply(<<x>>) = <<x>>[1].data
      <3>1. DOMAIN <<x>> = 1..1 /\ 1 \in DOMAIN <<x>> /\ <<x>>[1] = x
        OBVIOUS
      <3>2. QED
        BY <2>3, <3>1, LastStatus
    <2>8. QED
      BY <2>3, <2>4, <2>5, <2>6, <2>7
  <1>2. CASE id \notin Refused /\ b.open = <<>>
    <2>1. PICK x, y : x = StatusRecord(b.statuses + 1, id, "open") /\ y = BookSnapshot(b.depth + 1)
      OBVIOUS
    <2>2. r = [book |-> [b EXCEPT !.seen = @ \cup {id}, !.open = <<id>>, !.statuses = @ + 1, !.depth = @ + 1],
               events |-> <<x, y>>]
      BY <1>2, <2>1 DEF BookSubmit
    <2>3. IsStatus(x) /\ ~IsStatus(y) /\ ~IsCommand(x) /\ ~IsCommand(y) /\ x.data # <<>>
      BY <2>1 DEF StatusRecord, BookSnapshot, IsStatus, IsCommand
    <2>4. IsBook(r.book) /\ r.book.seen = b.seen \cup {id}
      <3>0. r.book = [b EXCEPT !.seen = @ \cup {id}, !.open = <<id>>, !.statuses = @ + 1, !.depth = @ + 1]
        BY <2>2
      <3>1. r.book = [seen |-> s \cup {id}, open |-> <<id>>, trades |-> u, statuses |-> n + 1, depth |-> d + 1]
        BY <1>0, <3>0
      <3>2. QED
        BY <1>0, <3>1, BookFields
    <2>5. r.events = <<x, y>>
      BY <2>2
    <2>6. IsOutputs(<<x, y>>)
      <3>1. <<x, y>> \in Seq({x, y}) /\ Len(<<x, y>>) = 2 /\ <<x, y>>[1] = x /\ <<x, y>>[2] = y
            /\ \A i \in 1..2 : i = 1 \/ i = 2
        OBVIOUS
      <3>2. QED
        BY <2>3, <3>1, OwnElements DEF IsOutputs
    <2>7. OrderReply(<<x, y>>) = <<x, y>>[1].data
      <3>1. DOMAIN <<x, y>> = 1..2 /\ <<x, y>>[1] = x /\ <<x, y>>[2] = y
        OBVIOUS
      <3>2. QED
        BY <2>3, <3>1, LastStatus
    <2>8. QED
      BY <2>3, <2>4, <2>5, <2>6, <2>7
  <1>3. CASE id \notin Refused /\ b.open # <<>>
    <2>1. PICK t, x, y, z : /\ t = TradeEvent(b.trades + 1, Head(b.open), id)
                            /\ x = StatusRecord(b.statuses + 1, Head(b.open), "filled")
                            /\ y = StatusRecord(b.statuses + 2, id, "filled")
                            /\ z = BookSnapshot(b.depth + 1)
      OBVIOUS
    <2>2. r = [book |-> [b EXCEPT !.seen = @ \cup {id}, !.open = Tail(@), !.trades = @ + 1,
                                  !.statuses = @ + 2, !.depth = @ + 1],
               events |-> <<t, x, y, z>>]
      BY <1>3, <2>1 DEF BookSubmit
    <2>3. /\ ~IsStatus(t) /\ IsStatus(x) /\ IsStatus(y) /\ ~IsStatus(z) /\ y.data # <<>>
          /\ ~IsCommand(t) /\ ~IsCommand(x) /\ ~IsCommand(y) /\ ~IsCommand(z)
      BY <2>1 DEF TradeEvent, StatusRecord, BookSnapshot, IsStatus, IsCommand
    <2>4. IsBook(r.book) /\ r.book.seen = b.seen \cup {id}
      <3>0. r.book = [b EXCEPT !.seen = @ \cup {id}, !.open = Tail(@), !.trades = @ + 1, !.statuses = @ + 2, !.depth = @ + 1]
        BY <2>2
      <3>1. r.book = [seen |-> s \cup {id}, open |-> Tail(o), trades |-> u + 1, statuses |-> n + 2, depth |-> d + 1]
        BY <1>0, <3>0
      <3>2. QED
        BY <1>0, <3>1, BookFields
    <2>5. r.events = <<t, x, y, z>>
      BY <2>2
    <2>6. /\ <<t, x, y, z>> \in Seq({t, x, y, z}) /\ Len(<<t, x, y, z>>) = 4 /\ DOMAIN <<t, x, y, z>> = 1..4
          /\ <<t, x, y, z>>[1] = t /\ <<t, x, y, z>>[2] = x /\ <<t, x, y, z>>[3] = y /\ <<t, x, y, z>>[4] = z
          /\ \A i \in 1..4 : i = 1 \/ i = 2 \/ i = 3 \/ i = 4
      OBVIOUS
    <2>7. IsOutputs(<<t, x, y, z>>)
      BY <2>3, <2>6, OwnElements DEF IsOutputs
    <2>8. OrderReply(<<t, x, y, z>>) = <<t, x, y, z>>[3].data
      BY <2>3, <2>6, LastStatus
    <2>9. QED
      BY <2>3, <2>4, <2>5, <2>6, <2>7, <2>8
  <1>4. QED
    BY <1>1, <1>2, <1>3

\* A cancel changes neither the orders seen nor what the outputs are.
LEMMA NewCancel ==
  ASSUME NEW b, IsBook(b), NEW k, k.kind = "cancel", NEW r, r = Apply(b, k)
  PROVE  /\ IsBook(r.book) /\ r.book.seen = b.seen
         /\ IsOutputs(Outputs(k, r)) /\ CancelAck(k, r).data # <<>>
  <1>0. r = BookCancel(b, k.order)
    BY DEF Apply
  <1>1. PICK a : a = CancelAck(k, r)
    OBVIOUS
  <1>2. a.data # <<>> /\ ~IsCommand(a)
    BY <1>1 DEF CancelAck, IsCommand
  <1>3. Outputs(k, r) = Append(r.events, a)
    BY <1>1 DEF Outputs
  <1>4. CASE k.order \in Range(b.open)
    <2>1. PICK x, y : x = StatusRecord(b.statuses + 1, k.order, "canceled") /\ y = BookSnapshot(b.depth + 1)
      OBVIOUS
    <2>2. r.book = [b EXCEPT !.open = SelectSeq(@, LAMBDA o : o # k.order), !.statuses = @ + 1, !.depth = @ + 1]
          /\ r.events = <<x, y>>
      BY <1>0, <1>4, <2>1 DEF BookCancel
    <2>3. ~IsCommand(x) /\ ~IsCommand(y)
      BY <2>1 DEF StatusRecord, BookSnapshot, IsCommand
    <2>4. PICK q : q = SelectSeq(b.open, LAMBDA o : o # k.order)
      OBVIOUS
    <2>5. r.book = [b EXCEPT !.open = q, !.statuses = @ + 1, !.depth = @ + 1]
      BY <2>2, <2>4
    <2>6. IsBook(r.book) /\ r.book.seen = b.seen
      <3>1. PICK s, o, u, n, d : b = [seen |-> s, open |-> o, trades |-> u, statuses |-> n, depth |-> d]
        BY DEF IsBook
      <3>2. r.book = [seen |-> s, open |-> q, trades |-> u, statuses |-> n + 1, depth |-> d + 1]
        BY <2>5, <3>1
      <3>3. QED
        BY <3>1, <3>2, BookFields
    <2>7. <<x, y>> \in Seq({x, y}) /\ Len(<<x, y>>) = 2 /\ <<x, y>>[1] = x /\ <<x, y>>[2] = y
          /\ \A i \in 1..2 : i = 1 \/ i = 2
      OBVIOUS
    <2>8. IsOutputs(<<x, y>>)
      BY <2>3, <2>7, OwnElements DEF IsOutputs
    <2>9. QED
      BY <1>1, <1>2, <1>3, <2>2, <2>6, <2>8, MoreOutputs
  <1>5. CASE k.order \notin Range(b.open)
    <2>1. r.book = b /\ r.events = <<>>
      BY <1>0, <1>5 DEF BookCancel
    <2>2. IsOutputs(<<>>)
      BY NoOutputs
    <2>3. QED
      BY <1>1, <1>2, <1>3, <2>1, <2>2, MoreOutputs
  <1>6. QED
    BY <1>4, <1>5
-----------------------------------------------------------------------------
(* What a journal rebuilds, and how a record changes it. *)

IsTable(t)   == \A x \in t : x = <<x[1], x[2]>>
Ids(t)       == {x[1] : x \in t}
OfCancels(t) == {x \in t : \E k \in Cancels : k.id = x[1]}

\* From the journal g restore() rebuilds the book b, the outputs e that the last
\* command still lacks, and the replies o to orders and c to cancels.
Rebuilds(g, b, e, o, c) ==
  /\ IsSeq(g) /\ recover(g)
  /\ RestoreFrom(g) = [ok |-> TRUE, book |-> b, expect |-> e, orders |-> o, controls |-> c]
  /\ IsBook(b) /\ IsOutputs(e)
  /\ IsTable(o) /\ IsTable(c) /\ b.seen = Ids(o) /\ OfCancels(c) = c

\* A complete record with the sequence n.
Written(rec, n) == [kind |-> rec.kind, seq |-> n, data |-> rec.data, ok |-> TRUE]

\* A journal with a complete record more.
LEMMA GrownJournal ==
  ASSUME NEW g, IsSeq(g), recover(g), NEW rec, NEW x, x = Written(rec, Len(g) + 1)
  PROVE  /\ IsSeq(Append(g, x)) /\ recover(Append(g, x))
         /\ RestoreFrom(Append(g, x)) = RestoreStep(RestoreFrom(g), x)
  <1>1. PICK f : f = Append(g, x)
    OBVIOUS
  <1>2. IsSeq(f) /\ Len(g) \in Nat /\ f[Len(g) + 1] = x /\ DOMAIN f = 1..(Len(g) + 1) /\ DOMAIN g = 1..Len(g)
    BY <1>1, OneMore
  <1>3. \A i \in 1..Len(g) : f[i] = g[i]
    BY <1>1, OneMore
  <1>4. g \in Seq(Range(g) \cup {x})
    BY OneMore
  <1>5. x.ok /\ x.seq = Len(g) + 1
    BY DEF Written
  <1>6. \A i \in 1..Len(g) : g[i].ok /\ g[i].seq = i
    BY <1>2 DEF recover
  <1>7. \A i \in 1..(Len(g) + 1) : i \in 1..Len(g) \/ i = Len(g) + 1
    BY <1>2
  <1>8. recover(f)
    BY <1>2, <1>3, <1>5, <1>6, <1>7 DEF recover
  <1>9. x \in Range(g) \cup {x}
    OBVIOUS
  <1>10. RestoreFrom(Append(g, x)) = RestoreStep(RestoreFrom(g), x)
    BY <1>4, <1>9, RestoreAppend
  <1>11. QED
    BY <1>1, <1>2, <1>8, <1>10

\* The next output of the last command follows: one output less is lacking.
LEMMA OutputWritten ==
  ASSUME NEW g, NEW b, NEW e, NEW o, NEW c, Rebuilds(g, b, e, o, c), e # <<>>,
         NEW x, x = Written(Head(e), Len(g) + 1)
  PROVE  Rebuilds(Append(g, x), b, Tail(e), o, c)
  <1>1. IsSeq(g) /\ recover(g) /\ IsOutputs(e)
    BY DEF Rebuilds
  <1>2. PICK f : f = Append(g, x)
    OBVIOUS
  <1>3. IsSeq(f) /\ recover(f) /\ RestoreFrom(f) = RestoreStep(RestoreFrom(g), x)
    BY <1>1, <1>2, GrownJournal
  <1>4. PICK a : a = RestoreFrom(g)
    OBVIOUS
  <1>5. a = [ok |-> TRUE, book |-> b, expect |-> e, orders |-> o, controls |-> c]
    BY <1>4 DEF Rebuilds
  <1>6. a.expect = e /\ a.ok = TRUE
    BY <1>5
  <1>7. x.kind = Head(e).kind /\ x.data = Head(e).data
    BY DEF Written
  <1>8. RestoreStep(a, x) = [a EXCEPT !.ok = TRUE, !.expect = Tail(e)]
    BY <1>6, <1>7 DEF RestoreStep
  <1>9. [a EXCEPT !.ok = TRUE, !.expect = Tail(e)] = [ok |-> TRUE, book |-> b, expect |-> Tail(e), orders |-> o, controls |-> c]
    <2>1. PICK t, y : t = Tail(e) /\ y = TRUE
      OBVIOUS
    <2>2. a = [ok |-> y, book |-> b, expect |-> e, orders |-> o, controls |-> c]
      BY <1>5, <2>1
    <2>3. PICK q : q = [a EXCEPT !.ok = y, !.expect = t]
      OBVIOUS
    <2>4. q.ok = y /\ q.expect = t /\ q.book = b /\ q.orders = o /\ q.controls = c
      BY <2>2, <2>3
    <2>5. q = [n \in {"ok", "book", "expect", "orders", "controls"} |-> q[n]]
      BY <2>2, <2>3
    <2>6. q = [ok |-> q.ok, book |-> q.book, expect |-> q.expect, orders |-> q.orders, controls |-> q.controls]
      BY <2>5
    <2>7. QED
      BY <2>1, <2>3, <2>4, <2>6
  <1>10. IsOutputs(Tail(e))
    BY <1>1, RestOfOutputs
  <1>11. RestoreFrom(f) = [ok |-> TRUE, book |-> b, expect |-> Tail(e), orders |-> o, controls |-> c]
    BY <1>3, <1>4, <1>5, <1>8, <1>9
  <1>12. IsBook(b) /\ IsTable(o) /\ IsTable(c) /\ b.seen = Ids(o) /\ OfCancels(c) = c
    BY DEF Rebuilds
  <1>13. QED
    BY <1>2, <1>3, <1>10, <1>11, <1>12 DEF Rebuilds

\* A reply to a new id is added.
LEMMA PutNew ==
  ASSUME NEW t, IsTable(t), NEW id, id \notin Ids(t), NEW v
  PROVE  Put(t, id, v) = t \cup {<<id, v>>} /\ IsTable(t \cup {<<id, v>>}) /\ Ids(t \cup {<<id, v>>}) = Ids(t) \cup {id}
  <1>1. \A x \in t : x[1] # id
    BY DEF Ids
  <1>2. Put(t, id, v) = t \cup {<<id, v>>}
    BY <1>1 DEF Put
  <1>3. <<id, v>>[1] = id /\ <<id, v>>[2] = v
    OBVIOUS
  <1>4. PICK p : p = <<id, v>> /\ p[1] = id
    BY <1>3
  <1>5. p = <<p[1], p[2]>>
    BY <1>3, <1>4
  <1>6. IsTable(t \cup {p})
    BY <1>5 DEF IsTable
  <1>7. Ids(t \cup {p}) = Ids(t) \cup {id}
    BY <1>4 DEF Ids
  <1>8. QED
    BY <1>2, <1>4, <1>6, <1>7

\* A new order follows a complete journal.
LEMMA OrderWritten ==
  ASSUME NEW g, NEW b, NEW o, NEW c, Rebuilds(g, b, <<>>, o, c),
         NEW k \in OrderRequests, k.id \notin Ids(o), NEW r, r = Apply(b, k),
         NEW x, x = Written(CommandRecord(k), Len(g) + 1)
  PROVE  /\ Rebuilds(Append(g, x), r.book, Outputs(k, r), o \cup {<<k.id, OrderReply(r.events)>>}, c)
         /\ OrderReply(r.events) # <<>> /\ r.events # <<>>
  <1>0. k.kind = "order"
    BY DEF OrderRequests
  <1>1. IsSeq(g) /\ recover(g)
    BY DEF Rebuilds
  <1>2. PICK f : f = Append(g, x)
    OBVIOUS
  <1>3. IsSeq(f) /\ recover(f) /\ RestoreFrom(f) = RestoreStep(RestoreFrom(g), x)
    BY <1>1, <1>2, GrownJournal
  <1>4. IsBook(b) /\ IsTable(o) /\ IsTable(c) /\ b.seen = Ids(o) /\ OfCancels(c) = c
    BY DEF Rebuilds
  <1>5. r = BookSubmit(b, k.id)
    BY <1>0 DEF Apply
  <1>6. /\ IsBook(r.book) /\ r.book.seen = b.seen \cup {k.id}
        /\ r.events # <<>> /\ IsOutputs(r.events) /\ OrderReply(r.events) # <<>>
    BY <1>4, <1>5, NewOrder
  <1>7. Outputs(k, r) = r.events
    BY <1>0 DEF Outputs
  <1>8. PICK v : v = OrderReply(r.events)
    OBVIOUS
  <1>9. /\ Put(o, k.id, v) = o \cup {<<k.id, v>>} /\ IsTable(o \cup {<<k.id, v>>})
        /\ Ids(o \cup {<<k.id, v>>}) = Ids(o) \cup {k.id}
    <2>1. PICK i : i = k.id
      OBVIOUS
    <2>2. i \notin Ids(o)
      BY <2>1
    <2>3. IsTable(o)
      BY <1>4
    <2>4. Put(o, i, v) = o \cup {<<i, v>>} /\ IsTable(o \cup {<<i, v>>}) /\ Ids(o \cup {<<i, v>>}) = Ids(o) \cup {i}
      BY <2>2, <2>3, PutNew
    <2>5. QED
      BY <2>1, <2>4
  <1>10. PICK a : a = RestoreFrom(g)
    OBVIOUS
  <1>11. a = [ok |-> TRUE, book |-> b, expect |-> <<>>, orders |-> o, controls |-> c]
    BY <1>10 DEF Rebuilds
  <1>12. a.ok = TRUE /\ a.book = b /\ a.expect = <<>> /\ a.orders = o /\ a.controls = c
    BY <1>11
  <1>13. x.data = k /\ IsCommand(x)
    BY <1>0 DEF Written, CommandRecord, IsCommand
  <1>14. RestoredOrder(a, k, r) = o \cup {<<k.id, v>>} /\ RestoredControl(a, k, r) = c
    BY <1>0, <1>6, <1>8, <1>9, <1>12 DEF RestoredOrder, RestoredControl
  <1>15. RestoreStep(a, x) = [ok |-> TRUE, book |-> r.book, expect |-> Outputs(k, r),
                              orders |-> RestoredOrder(a, k, r), controls |-> RestoredControl(a, k, r)]
    BY <1>6, <1>12, <1>13 DEF RestoreStep
  <1>16. RestoreFrom(f) = [ok |-> TRUE, book |-> r.book, expect |-> Outputs(k, r),
                           orders |-> o \cup {<<k.id, v>>}, controls |-> c]
    BY <1>3, <1>10, <1>14, <1>15
  <1>17. Rebuilds(f, r.book, Outputs(k, r), o \cup {<<k.id, v>>}, c)
    BY <1>3, <1>4, <1>6, <1>7, <1>9, <1>16 DEF Rebuilds
  <1>18. QED
    BY <1>2, <1>6, <1>8, <1>17

\* A new cancel follows a complete journal.
LEMMA CancelWritten ==
  ASSUME NEW g, NEW b, NEW o, NEW c, Rebuilds(g, b, <<>>, o, c),
         NEW k \in Cancels, k.id \notin Ids(c), NEW r, r = Apply(b, k),
         NEW x, x = Written(CommandRecord(k), Len(g) + 1)
  PROVE  /\ Rebuilds(Append(g, x), r.book, Outputs(k, r), o, c \cup {<<k.id, CancelAck(k, r).data>>})
         /\ CancelAck(k, r).data # <<>>
  <1>0. k.kind = "cancel"
    BY ControlsAssumption
  <1>1. IsSeq(g) /\ recover(g)
    BY DEF Rebuilds
  <1>2. PICK f : f = Append(g, x)
    OBVIOUS
  <1>3. IsSeq(f) /\ recover(f) /\ RestoreFrom(f) = RestoreStep(RestoreFrom(g), x)
    BY <1>1, <1>2, GrownJournal
  <1>4. IsBook(b) /\ IsTable(o) /\ IsTable(c) /\ b.seen = Ids(o) /\ OfCancels(c) = c
    BY DEF Rebuilds
  <1>5. /\ IsBook(r.book) /\ r.book.seen = b.seen
        /\ IsOutputs(Outputs(k, r)) /\ CancelAck(k, r).data # <<>>
    BY <1>0, <1>4, NewCancel
  <1>6. PICK v : v = CancelAck(k, r).data
    OBVIOUS
  <1>7. Put(c, k.id, v) = c \cup {<<k.id, v>>} /\ IsTable(c \cup {<<k.id, v>>})
    <2>1. PICK i : i = k.id
      OBVIOUS
    <2>2. i \notin Ids(c)
      BY <2>1
    <2>3. IsTable(c)
      BY <1>4
    <2>4. Put(c, i, v) = c \cup {<<i, v>>} /\ IsTable(c \cup {<<i, v>>}) /\ Ids(c \cup {<<i, v>>}) = Ids(c) \cup {i}
      BY <2>2, <2>3, PutNew
    <2>5. QED
      BY <2>1, <2>4
  <1>8. OfCancels(c \cup {<<k.id, v>>}) = c \cup {<<k.id, v>>}
    <2>0. PICK i : i = k.id
      OBVIOUS
    <2>1. PICK p : p = <<i, v>> /\ p[1] = i
      <3>1. <<i, v>>[1] = i
        OBVIOUS
      <3>2. QED
        BY <3>1
    <2>2. OfCancels(c \cup {p}) = c \cup {p}
      BY <1>4, <2>0, <2>1 DEF OfCancels
    <2>3. QED
      BY <2>0, <2>1, <2>2
  <1>9. PICK a : a = RestoreFrom(g)
    OBVIOUS
  <1>10. a = [ok |-> TRUE, book |-> b, expect |-> <<>>, orders |-> o, controls |-> c]
    BY <1>9 DEF Rebuilds
  <1>11. a.ok = TRUE /\ a.book = b /\ a.expect = <<>> /\ a.orders = o /\ a.controls = c
    BY <1>10
  <1>12. x.data = k /\ IsCommand(x)
    BY <1>0 DEF Written, CommandRecord, IsCommand
  <1>13. RestoredOrder(a, k, r) = o /\ RestoredControl(a, k, r) = c \cup {<<k.id, v>>}
    BY <1>0, <1>6, <1>7, <1>11 DEF RestoredOrder, RestoredControl
  <1>14. RestoreStep(a, x) = [ok |-> TRUE, book |-> r.book, expect |-> Outputs(k, r),
                              orders |-> RestoredOrder(a, k, r), controls |-> RestoredControl(a, k, r)]
    BY <1>0, <1>11, <1>12 DEF RestoreStep
  <1>15. RestoreFrom(f) = [ok |-> TRUE, book |-> r.book, expect |-> Outputs(k, r),
                           orders |-> o, controls |-> c \cup {<<k.id, v>>}]
    BY <1>3, <1>9, <1>13, <1>14
  <1>16. Rebuilds(f, r.book, Outputs(k, r), o, c \cup {<<k.id, v>>})
    BY <1>3, <1>4, <1>5, <1>7, <1>8, <1>15 DEF Rebuilds
  <1>17. QED
    BY <1>2, <1>5, <1>6, <1>16
-----------------------------------------------------------------------------
(* The inductive invariant. *)

\* The answers that were given are the ones the journal holds.
Kept(ans, o, c) ==
  \A a \in ans : /\ a[1].kind = "order"  => <<a[1].id, a[2]>> \in o
                 /\ a[1].kind = "cancel" => <<a[1].id, a[2]>> \in c

\* The command record is still to be written.
Accepted(e, o, c) ==
  /\ todo = <<CommandRecord(job)>> /\ e = <<>>
  /\ order_replies = o /\ OfCancels(control_replies) = c /\ ~Known(job)

\* The command record is written and the journal already holds the reply.
Working(e, o, c) ==
  /\ todo = e /\ reply # NoReply
  /\ job.kind = "order" => o = order_replies \cup {<<job.id, reply>>} /\ c = OfCancels(control_replies)
  /\ job.kind = "cancel" => o = order_replies /\ c = OfCancels(control_replies) \cup {<<job.id, reply>>}

\* The worker runs with what the journal g rebuilds.
Up(g, b, e, o, c) ==
  /\ file = g /\ journal_sequence = Len(g) /\ book = b
  /\ \/ /\ pc \in {"idle", "restore"} /\ (pc = "idle" => e = <<>>)
        /\ todo = e /\ order_replies = o /\ OfCancels(control_replies) = c
     \/ /\ pc = "work" /\ job \in OrderRequests \cup Cancels
        /\ Accepted(e, o, c) \/ Working(e, o, c)

\* The worker is down; the file is g, perhaps with a fragment after it.
Down(g) == pc = "down" /\ (file = g \/ \E x : ~x.ok /\ file = Append(g, x))

\* As long as no append has failed, the records before the first fragment always
\* rebuild the book and the replies of the running worker, up to the command in work.
JournalInv ==
  /\ errors \in Nat
  /\ errors = 0 =>
       \E g, b, e, o, c : /\ Rebuilds(g, b, e, o, c) /\ Kept(answers, o, c)
                          /\ Down(g) \/ Up(g, b, e, o, c)

\* A larger table keeps the answers.
LEMMA KeptMore ==
  ASSUME NEW ans, NEW o, NEW c, Kept(ans, o, c), NEW p, NEW d, o \subseteq p, c \subseteq d
  PROVE  Kept(ans, p, d)
  BY DEF Kept

\* The kinds of the commands.
LEMMA Kinds ==
  /\ \A k \in OrderRequests : k.kind = "order"
  /\ \A k \in Cancels : k.kind = "cancel"
  /\ \A k \in Requests : k.kind = "order" => k \in OrderRequests
  /\ \A k \in Requests : k.kind = "cancel" => k \in Cancels
  /\ \A k \in Controls : k.kind \notin {"order", "cancel"}
  <1>1. \A k \in OrderRequests : k.kind = "order"
    BY DEF OrderRequests
  <1>2. \A k \in Cancels : k.kind = "cancel"
    BY ControlsAssumption
  <1>3. \A k \in Controls : k.kind = "replay" \/ k.kind = "snapshot"
    BY ControlsAssumption
  <1>4. QED
    BY <1>1, <1>2, <1>3 DEF Requests

\* The three kinds of record: the next output of the last command, a new order and a
\* new cancel.  With x the journal rebuilds what the worker has after the record.
OutputNext(g, x, b, e, o, c) ==
  /\ ~IsCommand(Head(todo)) /\ e = todo /\ Rebuilds(Append(g, x), b, Tail(todo), o, c)
  /\ pc = "work" => Working(e, o, c)
OrderNext(g, x, r, o, c) ==
  /\ IsCommand(Head(todo)) /\ pc = "work" /\ job \in OrderRequests
  /\ order_replies = o /\ OfCancels(control_replies) = c
  /\ Rebuilds(Append(g, x), r.book, Outputs(job, r), o \cup {<<job.id, OrderReply(r.events)>>}, c)
  /\ OrderReply(r.events) # <<>> /\ r.events # <<>>
CancelNext(g, x, r, o, c) ==
  /\ IsCommand(Head(todo)) /\ pc = "work" /\ job \in Cancels
  /\ order_replies = o /\ OfCancels(control_replies) = c
  /\ Rebuilds(Append(g, x), r.book, Outputs(job, r), o, c \cup {<<job.id, CancelAck(job, r).data>>})
  /\ CancelAck(job, r).data # <<>>

\* The record being written takes the journal one step on, as it takes the worker.
LEMMA RecordWritten ==
  ASSUME NEW g, NEW b, NEW e, NEW o, NEW c, Rebuilds(g, b, e, o, c), Up(g, b, e, o, c),
         pc \in {"work", "restore"}, todo # <<>>,
         NEW x, x = Stored(Head(todo), TRUE), NEW r, r = Apply(book, job)
  PROVE  OutputNext(g, x, b, e, o, c) \/ OrderNext(g, x, r, o, c) \/ CancelNext(g, x, r, o, c)
  <1>1. x = Written(Head(todo), Len(g) + 1)
    BY DEF Stored, Written, Up
  <1>2. ASSUME e = todo, pc = "work" => Working(e, o, c)
        PROVE  ~IsCommand(Head(todo)) /\ Rebuilds(Append(g, x), b, Tail(todo), o, c)
    <2>1. IsOutputs(e)
      BY DEF Rebuilds
    <2>2. ~IsCommand(Head(e))
      BY <1>2, <2>1, RestOfOutputs
    <2>3. x = Written(Head(e), Len(g) + 1) /\ e # <<>>
      BY <1>1, <1>2
    <2>4. Rebuilds(Append(g, x), b, Tail(e), o, c)
      BY <2>3, OutputWritten
    <2>5. QED
      BY <1>2, <2>2, <2>4
  <1>3. CASE pc = "restore"
    <2>1. e = todo
      BY <1>3 DEF Up
    <2>2. QED
      BY <1>2, <1>3, <2>1 DEF OutputNext
  <1>4. CASE pc = "work" /\ Working(e, o, c)
    <2>1. e = todo
      BY <1>4 DEF Working
    <2>2. QED
      BY <1>2, <1>4, <2>1 DEF OutputNext
  <1>5. CASE pc = "work" /\ Accepted(e, o, c)
    <2>1. /\ todo = <<CommandRecord(job)>> /\ e = <<>> /\ order_replies = o
          /\ OfCancels(control_replies) = c /\ ~Known(job)
      BY <1>5 DEF Accepted
    <2>2. job \in OrderRequests \cup Cancels /\ book = b
      BY <1>5 DEF Up
    <2>3. Head(todo) = CommandRecord(job)
      BY <2>1
    <2>4. IsCommand(Head(todo))
      BY <2>3 DEF IsCommand, CommandRecord
    <2>5. x = Written(CommandRecord(job), Len(g) + 1) /\ r = Apply(b, job) /\ Rebuilds(g, b, <<>>, o, c)
      BY <1>1, <2>1, <2>2, <2>3
    <2>6. CASE job \in OrderRequests
      <3>1. job.id \notin Ids(o)
        BY <2>1, <2>6, Kinds DEF Known, Replies, Ids
      <3>2. /\ Rebuilds(Append(g, x), r.book, Outputs(job, r), o \cup {<<job.id, OrderReply(r.events)>>}, c)
            /\ OrderReply(r.events) # <<>> /\ r.events # <<>>
        <4>1. PICK k : k = job
          OBVIOUS
        <4>2. k \in OrderRequests /\ k.id \notin Ids(o) /\ r = Apply(b, k) /\ x = Written(CommandRecord(k), Len(g) + 1)
          BY <2>5, <2>6, <3>1, <4>1
        <4>3. /\ Rebuilds(Append(g, x), r.book, Outputs(k, r), o \cup {<<k.id, OrderReply(r.events)>>}, c)
              /\ OrderReply(r.events) # <<>> /\ r.events # <<>>
          BY <2>5, <4>2, OrderWritten
        <4>4. QED
          BY <4>1, <4>3
      <3>3. QED
        BY <1>5, <2>1, <2>4, <2>6, <3>2 DEF OrderNext
    <2>7. CASE job \in Cancels
      <3>1. job.id \notin Ids(c)
        BY <2>1, <2>7, Kinds DEF Known, Replies, Ids, OfCancels
      <3>2. /\ Rebuilds(Append(g, x), r.book, Outputs(job, r), o, c \cup {<<job.id, CancelAck(job, r).data>>})
            /\ CancelAck(job, r).data # <<>>
        <4>1. PICK k : k = job
          OBVIOUS
        <4>2. k \in Cancels /\ k.id \notin Ids(c) /\ r = Apply(b, k) /\ x = Written(CommandRecord(k), Len(g) + 1)
          BY <2>5, <2>7, <3>1, <4>1
        <4>3. /\ Rebuilds(Append(g, x), r.book, Outputs(k, r), o, c \cup {<<k.id, CancelAck(k, r).data>>})
              /\ CancelAck(k, r).data # <<>>
          BY <2>5, <4>2, CancelWritten
        <4>4. QED
          BY <4>1, <4>3
      <3>3. QED
        BY <1>5, <2>1, <2>4, <2>7, <3>2 DEF CancelNext
    <2>8. QED
      BY <2>2, <2>6, <2>7
  <1>6. QED
    BY <1>3, <1>4, <1>5 DEF Up

\* The engine starts with an empty journal.
LEMMA JournalInit == ASSUME Init PROVE JournalInv
  <1>1. /\ file = <<>> /\ pc = "down" /\ answers = {} /\ errors = 0
    BY DEF Init
  <1>2. PICK g, b, e, o, c : g = <<>> /\ b = EmptyBook /\ e = <<>> /\ o = {} /\ c = {}
    OBVIOUS
  <1>3. IsSeq(g) /\ IsOutputs(e)
    BY <1>2, NoOutputs DEF IsOutputs
  <1>4. recover(g)
    BY <1>2 DEF recover
  <1>5. RestoreFrom(g) = [ok |-> TRUE, book |-> b, expect |-> e, orders |-> o, controls |-> c]
    BY <1>2, RestoreEmpty DEF Start
  <1>6. IsBook(b) /\ b.seen = {}
    BY <1>2, BookFields DEF EmptyBook
  <1>7. IsTable(o) /\ IsTable(c) /\ Ids(o) = {} /\ OfCancels(c) = c
    BY <1>2 DEF IsTable, Ids, OfCancels
  <1>8. Rebuilds(g, b, e, o, c)
    BY <1>3, <1>4, <1>5, <1>6, <1>7 DEF Rebuilds
  <1>9. Kept(answers, o, c) /\ Down(g)
    BY <1>1, <1>2 DEF Kept, Down
  <1>10. QED
    BY <1>1, <1>8, <1>9 DEF JournalInv

\* A restart takes over what the journal rebuilds.
LEMMA RestartKeeps ==
  ASSUME NEW g, NEW b, NEW e, NEW o, NEW c, Rebuilds(g, b, e, o, c), Down(g), Restart
  PROVE  Up(g, b, e, o, c)'
  <1>1. pc = "down" /\ recover(file)
    BY DEF Restart, Restorable
  <1>2. IsSeq(g) /\ recover(g) /\ OfCancels(c) = c
    BY DEF Rebuilds
  <1>3. file = g
    <2>1. SUFFICES ASSUME NEW x, ~x.ok, file = Append(g, x) PROVE FALSE
      BY DEF Down
    <2>2. PICK f : f = Append(g, x)
      OBVIOUS
    <2>3. Len(g) \in Nat /\ f[Len(g) + 1] = x /\ DOMAIN f = 1..(Len(g) + 1)
      BY <1>2, <2>2, OneMore
    <2>4. Len(g) + 1 \in DOMAIN f
      BY <2>3
    <2>5. recover(f)
      BY <1>1, <2>1, <2>2
    <2>6. QED
      BY <2>1, <2>3, <2>4, <2>5 DEF recover
  <1>4. RestoreFrom(file) = [ok |-> TRUE, book |-> b, expect |-> e, orders |-> o, controls |-> c]
    BY <1>3 DEF Rebuilds
  <1>5. book' = b /\ order_replies' = o /\ control_replies' = c /\ todo' = e
    BY <1>4 DEF Restart
  <1>6. file' = g /\ journal_sequence' = Len(g) /\ pc' = "restore"
    BY <1>3 DEF Restart
  <1>7. OfCancels(control_replies') = c
    BY <1>2, <1>5
  <1>8. QED
    BY <1>5, <1>6, <1>7 DEF Up

\* An answer from the cache is in the journal.
LEMMA AgainKeeps ==
  ASSUME NEW g, NEW b, NEW e, NEW o, NEW c, Rebuilds(g, b, e, o, c), Kept(answers, o, c), Up(g, b, e, o, c),
         NEW k \in Requests, AnswerAgain(k)
  PROVE  Kept(answers', o, c) /\ Up(g, b, e, o, c)'
  <1>1. pc = "idle" /\ order_replies = o /\ OfCancels(control_replies) = c
    BY DEF Up, AnswerAgain
  <1>2. IsTable(o) /\ IsTable(c)
    BY DEF Rebuilds
  <1>3. PICK x \in Replies(k) : x[1] = k.id /\ answers' = answers \cup {<<k, x[2]>>}
    BY DEF AnswerAgain
  <1>4. ASSUME k.kind = "order" PROVE <<k.id, x[2]>> \in o
    <2>1. x \in o
      BY <1>1, <1>3, <1>4 DEF Replies
    <2>2. QED
      BY <1>2, <1>3, <2>1 DEF IsTable
  <1>5. ASSUME k.kind = "cancel" PROVE <<k.id, x[2]>> \in c
    <2>1. x \in control_replies /\ k \in Cancels
      BY <1>3, <1>5, Kinds DEF Replies
    <2>2. x \in c
      BY <1>1, <1>3, <2>1 DEF OfCancels
    <2>3. QED
      BY <1>2, <1>3, <2>2 DEF IsTable
  <1>6. PICK p : p = <<k, x[2]>> /\ p[1] = k /\ p[2] = x[2]
    <2>1. <<k, x[2]>>[1] = k /\ <<k, x[2]>>[2] = x[2]
      OBVIOUS
    <2>2. QED
      BY <2>1
  <1>7. Kept(answers', o, c)
    BY <1>3, <1>4, <1>5, <1>6 DEF Kept
  <1>8. Up(g, b, e, o, c)'
    BY DEF AnswerAgain, disk, volatile, Up, Accepted, Working, Known, Replies
  <1>9. QED
    BY <1>7, <1>8

\* A replay or snapshot command leaves the journal and what it rebuilds alone.
LEMMA ControlKeeps ==
  ASSUME NEW g, NEW b, NEW e, NEW o, NEW c, Kept(answers, o, c), Up(g, b, e, o, c),
         NEW k \in Requests, AnswerControl(k)
  PROVE  Kept(answers', o, c) /\ Up(g, b, e, o, c)'
  <1>1. pc = "idle" /\ order_replies = o /\ OfCancels(control_replies) = c /\ e = <<>> /\ todo = e
    BY DEF Up, AnswerControl
  <1>2. k \in Controls
    BY DEF AnswerControl
  <1>3. PICK v : control_replies' = control_replies \cup {<<k.id, v>>} /\ answers' = answers \cup {<<k, v>>}
    BY DEF AnswerControl
  <1>4. PICK p : p = <<k, v>> /\ p[1] = k
    <2>1. <<k, v>>[1] = k
      OBVIOUS
    <2>2. QED
      BY <2>1
  <1>5. k.kind # "order" /\ k.kind # "cancel"
    BY <1>2, Kinds
  <1>6. Kept(answers', o, c)
    BY <1>3, <1>4, <1>5 DEF Kept
  <1>7. PICK i : i = k.id
    OBVIOUS
  <1>8. PICK q : q = <<i, v>> /\ q[1] = i
    <2>1. <<i, v>>[1] = i
      OBVIOUS
    <2>2. QED
      BY <2>1
  <1>9. \A d \in Cancels : d.id # i
    BY <1>2, <1>7, ControlsAssumption
  <1>10. OfCancels(control_replies \cup {q}) = OfCancels(control_replies)
    BY <1>8, <1>9 DEF OfCancels
  <1>11. OfCancels(control_replies') = c
    BY <1>1, <1>3, <1>7, <1>8, <1>10
  <1>12. UNCHANGED <<file, journal_sequence, book, order_replies, pc, todo>>
    BY DEF AnswerControl
  <1>13. Up(g, b, e, o, c)'
    <2>1. file' = g /\ journal_sequence' = Len(g) /\ book' = b
      BY <1>12 DEF Up
    <2>2. QED
      BY <1>1, <1>11, <1>12, <2>1 DEF Up
  <1>14. QED
    BY <1>6, <1>13

\* Accepting a command changes nothing on disk.
LEMMA AcceptKeeps ==
  ASSUME NEW g, NEW b, NEW e, NEW o, NEW c, Up(g, b, e, o, c), NEW k \in Requests, Accept(k)
  PROVE  Up(g, b, e, o, c)'
  <1>1. pc = "idle" /\ e = <<>> /\ order_replies = o /\ OfCancels(control_replies) = c
    BY DEF Up, Accept
  <1>2. k.kind \in {"order", "cancel"} /\ ~Known(k) /\ job' = k /\ todo' = <<CommandRecord(k)>> /\ pc' = "work"
    BY DEF Accept
  <1>3. UNCHANGED <<file, journal_sequence, book, order_replies, control_replies>>
    BY DEF Accept
  <1>4. k \in OrderRequests \cup Cancels
    BY <1>2, Kinds
  <1>5. Accepted(e, o, c)'
    BY <1>1, <1>2, <1>3 DEF Accepted, Known, Replies
  <1>6. QED
    BY <1>2, <1>3, <1>4, <1>5 DEF Up

\* The reply of a finished command is the one in the journal.
LEMMA ReplyKeeps ==
  ASSUME NEW g, NEW b, NEW e, NEW o, NEW c, Kept(answers, o, c), Up(g, b, e, o, c), Reply
  PROVE  Kept(answers', o, c) /\ Up(g, b, e, o, c)'
  <1>1. pc = "work" /\ todo = <<>> /\ job \in OrderRequests \cup Cancels
    BY DEF Up, Reply
  <1>2. Working(e, o, c)
    <2>1. ~Accepted(e, o, c)
      BY <1>1 DEF Accepted
    <2>2. QED
      BY <1>1, <2>1 DEF Up
  <1>3. e = <<>> /\ todo' = <<>> /\ pc' = "idle"
    BY <1>1, <1>2 DEF Working, Reply
  <1>4. file' = g /\ journal_sequence' = Len(g) /\ book' = b
    BY DEF Up, Reply
  <1>5. PICK k, v : k = job /\ v = reply
    OBVIOUS
  <1>6. answers' = answers \cup {<<k, v>>}
    BY <1>5 DEF Reply
  <1>7. PICK p : p = <<k, v>> /\ p[1] = k /\ p[2] = v
    <2>1. <<k, v>>[1] = k /\ <<k, v>>[2] = v
      OBVIOUS
    <2>2. QED
      BY <2>1
  <1>8. PICK i : i = k.id
    OBVIOUS
  <1>9. PICK q : q = <<i, v>> /\ q[1] = i
    <2>1. <<i, v>>[1] = i
      OBVIOUS
    <2>2. QED
      BY <2>1
  <1>10. CASE k \in OrderRequests
    <2>1. k.kind = "order"
      BY <1>10, Kinds
    <2>2. o = order_replies \cup {q} /\ c = OfCancels(control_replies)
      BY <1>2, <1>5, <1>8, <1>9, <2>1 DEF Working
    <2>3. order_replies' = order_replies \cup {q} /\ control_replies' = control_replies
      BY <1>5, <1>8, <1>9, <2>1 DEF Reply
    <2>4. Kept(answers', o, c)
      <3>1. <<k.id, v>> \in o
        BY <1>8, <1>9, <2>2
      <3>2. QED
        BY <1>6, <1>7, <2>1, <3>1 DEF Kept
    <2>5. Up(g, b, e, o, c)'
      BY <1>3, <1>4, <2>2, <2>3 DEF Up
    <2>6. QED
      BY <2>4, <2>5
  <1>11. CASE k \in Cancels
    <2>1. k.kind = "cancel"
      BY <1>11, Kinds
    <2>2. o = order_replies /\ c = OfCancels(control_replies) \cup {q}
      BY <1>2, <1>5, <1>8, <1>9, <2>1 DEF Working
    <2>3. control_replies' = control_replies \cup {q} /\ order_replies' = order_replies
      BY <1>5, <1>8, <1>9, <2>1 DEF Reply
    <2>4. Kept(answers', o, c)
      <3>1. <<k.id, v>> \in c
        BY <1>8, <1>9, <2>2
      <3>2. QED
        BY <1>6, <1>7, <2>1, <3>1 DEF Kept
    <2>5. OfCancels(control_replies \cup {q}) = OfCancels(control_replies) \cup {q}
      BY <1>8, <1>9, <1>11 DEF OfCancels
    <2>6. Up(g, b, e, o, c)'
      BY <1>3, <1>4, <2>2, <2>3, <2>5 DEF Up
    <2>7. QED
      BY <2>4, <2>6
  <1>12. QED
    BY <1>1, <1>5, <1>10, <1>11

\* What the invariant says when no append has failed.
Intact == \E g, b, e, o, c : Rebuilds(g, b, e, o, c) /\ Kept(answers, o, c) /\ (Down(g) \/ Up(g, b, e, o, c))

\* A record is appended: journal and worker move together.
LEMMA AppendKeeps ==
  ASSUME NEW g, NEW b, NEW e, NEW o, NEW c, Rebuilds(g, b, e, o, c), Kept(answers, o, c), Up(g, b, e, o, c),
         AppendRecord
  PROVE  Intact'
  <1>1. pc \in {"work", "restore"} /\ todo # <<>>
    BY DEF AppendRecord
  <1>2. PICK x, r : x = Stored(Head(todo), TRUE) /\ r = Apply(book, job)
    OBVIOUS
  <1>3. PICK f : f = Append(g, x)
    OBVIOUS
  <1>4. Len(f) = Len(g) + 1
    BY <1>3, OneMore DEF Rebuilds
  <1>5. file' = f /\ journal_sequence' = Len(f)
    BY <1>2, <1>3, <1>4 DEF AppendRecord, Up
  <1>6. UNCHANGED <<order_replies, control_replies, pc, job, answers>>
    BY DEF AppendRecord
  <1>7. CASE OutputNext(g, x, b, e, o, c)
    <2>1. todo' = Tail(todo) /\ book' = book /\ reply' = reply
      BY <1>7 DEF AppendRecord, OutputNext
    <2>2. PICK t : t = Tail(todo)
      OBVIOUS
    <2>3. Rebuilds(f, b, t, o, c) /\ todo' = t
      BY <1>3, <1>7, <2>1, <2>2 DEF OutputNext
    <2>4. Kept(answers', o, c)
      BY <1>6
    <2>5. book' = b
      BY <2>1 DEF Up
    <2>6. CASE pc = "restore"
      <3>1. order_replies = o /\ OfCancels(control_replies) = c
        BY <2>6 DEF Up
      <3>2. Up(f, b, t, o, c)'
        BY <1>5, <1>6, <2>3, <2>5, <2>6, <3>1 DEF Up
      <3>3. QED
        BY <2>3, <2>4, <3>2 DEF Intact
    <2>7. CASE pc = "work"
      <3>1. Working(e, o, c) /\ job \in OrderRequests \cup Cancels
        BY <1>7, <2>7 DEF Up, OutputNext
      <3>2. Working(t, o, c)'
        BY <1>6, <2>1, <2>3, <3>1 DEF Working
      <3>3. Up(f, b, t, o, c)'
        BY <1>5, <1>6, <2>5, <2>7, <3>1, <3>2 DEF Up
      <3>4. QED
        BY <2>3, <2>4, <3>3 DEF Intact
    <2>8. QED
      BY <1>1, <2>6, <2>7
  <1>8. CASE OrderNext(g, x, r, o, c)
    <2>1. job.kind = "order"
      BY <1>8, Kinds DEF OrderNext
    <2>2. book' = r.book /\ todo' = Outputs(job, r) /\ reply' = OrderReply(r.events)
      BY <1>2, <1>8, <2>1 DEF AppendRecord, OrderNext
    <2>3. PICK d, t, p : d = r.book /\ t = Outputs(job, r) /\ p = o \cup {<<job.id, OrderReply(r.events)>>}
      OBVIOUS
    <2>4. Rebuilds(f, d, t, p, c)
      BY <1>3, <1>8, <2>3 DEF OrderNext
    <2>5. Kept(answers', p, c)
      BY <1>6, <2>3, KeptMore
    <2>6. Working(t, p, c)'
      BY <1>6, <1>8, <2>1, <2>2, <2>3 DEF Working, NoReply, OrderNext
    <2>7. Up(f, d, t, p, c)'
      BY <1>5, <1>6, <1>8, <2>2, <2>3, <2>6 DEF Up, OrderNext
    <2>8. QED
      BY <2>4, <2>5, <2>7 DEF Intact
  <1>9. CASE CancelNext(g, x, r, o, c)
    <2>1. job.kind = "cancel"
      BY <1>9, Kinds DEF CancelNext
    <2>2. book' = r.book /\ todo' = Outputs(job, r) /\ reply' = CancelAck(job, r).data
      BY <1>2, <1>9, <2>1 DEF AppendRecord, CancelNext
    <2>3. PICK d, t, p : d = r.book /\ t = Outputs(job, r) /\ p = c \cup {<<job.id, CancelAck(job, r).data>>}
      OBVIOUS
    <2>4. Rebuilds(f, d, t, o, p)
      BY <1>3, <1>9, <2>3 DEF CancelNext
    <2>5. Kept(answers', o, p)
      BY <1>6, <2>3, KeptMore
    <2>6. Working(t, o, p)'
      BY <1>6, <1>9, <2>1, <2>2, <2>3 DEF Working, NoReply, CancelNext
    <2>7. Up(f, d, t, o, p)'
      BY <1>5, <1>6, <1>9, <2>2, <2>3, <2>6 DEF Up, CancelNext
    <2>8. QED
      BY <2>4, <2>5, <2>7 DEF Intact
  <1>10. QED
    BY <1>1, <1>2, <1>7, <1>8, <1>9, RecordWritten

\* A crash leaves the journal, perhaps with the record being written or a fragment of it.
LEMMA CrashKeeps ==
  ASSUME NEW g, NEW b, NEW e, NEW o, NEW c, Rebuilds(g, b, e, o, c), Kept(answers, o, c), Up(g, b, e, o, c), Crash
  PROVE  Intact'
  <1>1. pc' = "down" /\ answers' = answers /\ file' \in CrashFiles
    BY DEF Crash, observed
  <1>2. file = g
    BY DEF Up
  <1>3. CASE file' = g
    <2>1. Down(g)'
      BY <1>1, <1>3 DEF Down
    <2>2. QED
      BY <1>1, <2>1 DEF Intact
  <1>4. CASE todo = <<>>
    BY <1>1, <1>2, <1>3, <1>4 DEF CrashFiles
  <1>5. CASE todo # <<>> /\ file' = Append(file, Stored(Head(todo), TRUE))
    <2>1. pc \in {"work", "restore"}
      BY <1>5 DEF Up
    <2>2. PICK x, r : x = Stored(Head(todo), TRUE) /\ r = Apply(book, job)
      OBVIOUS
    <2>3. PICK f : f = Append(g, x)
      OBVIOUS
    <2>4. \E d, t, p, q : Rebuilds(f, d, t, p, q) /\ o \subseteq p /\ c \subseteq q
      <3>1. \/ Rebuilds(Append(g, x), b, Tail(todo), o, c)
            \/ Rebuilds(Append(g, x), r.book, Outputs(job, r), o \cup {<<job.id, OrderReply(r.events)>>}, c)
            \/ Rebuilds(Append(g, x), r.book, Outputs(job, r), o, c \cup {<<job.id, CancelAck(job, r).data>>})
        BY <1>5, <2>1, <2>2, RecordWritten DEF OutputNext, OrderNext, CancelNext
      <3>2. QED
        BY <2>3, <3>1
    <2>5. PICK d, t, p, q : Rebuilds(f, d, t, p, q) /\ o \subseteq p /\ c \subseteq q
      BY <2>4
    <2>6. Kept(answers', p, q)
      BY <1>1, <2>5, KeptMore
    <2>7. Down(f)'
      BY <1>1, <1>2, <1>5, <2>2, <2>3 DEF Down
    <2>8. QED
      BY <2>5, <2>6, <2>7 DEF Intact
  <1>6. CASE file' = Append(file, Stored(Head(todo), FALSE))
    <2>1. PICK x : x = Stored(Head(todo), FALSE)
      OBVIOUS
    <2>2. ~x.ok
      BY <2>1 DEF Stored
    <2>3. file' = Append(g, x)
      BY <1>2, <1>6, <2>1
    <2>4. Down(g)'
      BY <1>1, <2>2, <2>3 DEF Down
    <2>5. QED
      BY <1>1, <2>4 DEF Intact
  <1>7. QED
    BY <1>1, <1>2, <1>3, <1>4, <1>5, <1>6 DEF CrashFiles, Unfinished

\* Every step keeps the invariant.
LEMMA JournalStep == ASSUME JournalInv, [Next]_vars PROVE JournalInv'
  <1>1. errors \in Nat /\ (errors = 0 => Intact)
    BY DEF JournalInv, Intact
  <1>2. errors' \in Nat /\ (errors' = 0 => errors = 0 /\ ~AppendError)
    <2>1. CASE AppendError
      BY <1>1, <2>1 DEF AppendError
    <2>2. CASE ~AppendError
      <3>1. errors' = errors
        BY <2>2 DEF Next, vars, Restart, RestartRefused, RestoreDone, AnswerAgain, Accept, AnswerControl,
                    AppendRecord, Reply, NoResponse, Crash, Wait
      <3>2. QED
        BY <1>1, <2>2, <3>1
    <2>3. QED
      BY <2>1, <2>2
  <1>3. ASSUME errors' = 0 PROVE Intact'
    <2>1. errors = 0 /\ ~AppendError
      BY <1>2, <1>3
    <2>2. PICK g, b, e, o, c : Rebuilds(g, b, e, o, c) /\ Kept(answers, o, c) /\ (Down(g) \/ Up(g, b, e, o, c))
      BY <1>1, <2>1 DEF Intact
    <2>3. pc # "down" => Up(g, b, e, o, c)
      BY <2>2 DEF Down
    <2>4. pc = "down" => Down(g)
      BY <2>2 DEF Up
    <2>5. ASSUME UNCHANGED vars PROVE Intact'
      <3>1. Kept(answers', o, c)
        BY <2>2, <2>5 DEF vars, observed
      <3>2. Down(g) => Down(g)'
        BY <2>5 DEF vars, volatile, disk, Down
      <3>3. Up(g, b, e, o, c) => Up(g, b, e, o, c)'
        BY <2>5 DEF vars, volatile, disk, Up, Accepted, Working, Known, Replies
      <3>4. QED
        BY <2>2, <3>1, <3>2, <3>3 DEF Intact
    <2>6. CASE Restart
      <3>1. Down(g)
        BY <2>4, <2>6 DEF Restart
      <3>2. Up(g, b, e, o, c)'
        BY <2>2, <2>6, <3>1, RestartKeeps
      <3>3. answers' = answers
        BY <2>6 DEF Restart, observed
      <3>4. QED
        BY <2>2, <3>2, <3>3 DEF Intact
    <2>7. CASE RestoreDone
      <3>1. Up(g, b, e, o, c)
        BY <2>3, <2>7 DEF RestoreDone
      <3>2. Up(g, b, e, o, c)'
        BY <2>7, <3>1 DEF RestoreDone, Up
      <3>3. answers' = answers
        BY <2>7 DEF RestoreDone, observed
      <3>4. QED
        BY <2>2, <3>2, <3>3 DEF Intact
    <2>8. ASSUME NEW k \in Requests, AnswerAgain(k) PROVE Intact'
      <3>1. Up(g, b, e, o, c)
        BY <2>3, <2>8 DEF AnswerAgain
      <3>2. QED
        BY <2>2, <2>8, <3>1, AgainKeeps DEF Intact
    <2>9. ASSUME NEW k \in Requests, Accept(k) PROVE Intact'
      <3>1. Up(g, b, e, o, c)
        BY <2>3, <2>9 DEF Accept
      <3>2. Up(g, b, e, o, c)'
        BY <2>9, <3>1, AcceptKeeps
      <3>3. answers' = answers
        BY <2>9 DEF Accept, observed
      <3>4. QED
        BY <2>2, <3>2, <3>3 DEF Intact
    <2>10. ASSUME NEW k \in Requests, AnswerControl(k) PROVE Intact'
      <3>1. Up(g, b, e, o, c)
        BY <2>3, <2>10 DEF AnswerControl
      <3>2. QED
        BY <2>2, <2>10, <3>1, ControlKeeps DEF Intact
    <2>11. CASE AppendRecord
      <3>1. Up(g, b, e, o, c)
        BY <2>3, <2>11 DEF AppendRecord
      <3>2. QED
        BY <2>2, <2>11, <3>1, AppendKeeps
    <2>12. CASE Reply
      <3>1. Up(g, b, e, o, c)
        BY <2>3, <2>12 DEF Reply
      <3>2. QED
        BY <2>2, <2>12, <3>1, ReplyKeeps DEF Intact
    <2>13. ~NoResponse
      <3>1. SUFFICES ASSUME pc = "work", todo = <<>>, reply = NoReply PROVE FALSE
        BY DEF NoResponse
      <3>2. Up(g, b, e, o, c)
        BY <2>3, <3>1
      <3>3. QED
        BY <3>1, <3>2 DEF Up, Accepted, Working
    <2>14. CASE Crash
      <3>1. Up(g, b, e, o, c)
        BY <2>3, <2>14 DEF Crash
      <3>2. QED
        BY <2>2, <2>14, <3>1, CrashKeeps
    <2>15. CASE RestartRefused \/ Wait
      BY <2>5, <2>15 DEF RestartRefused, Wait
    <2>16. QED
      BY <2>1, <2>5, <2>6, <2>7, <2>8, <2>9, <2>10, <2>11, <2>12, <2>13, <2>14, <2>15 DEF Next
  <1>4. QED
    BY <1>2, <1>3 DEF JournalInv, Intact

\* The journal of an engine whose appends never failed always rebuilds its book and its
\* replies, up to the command in work.
THEOREM Journaled == Spec => []JournalInv
  <1>1. Init => JournalInv
    BY JournalInit
  <1>2. JournalInv /\ [Next]_vars => JournalInv'
    BY JournalStep
  <1>3. QED
    BY <1>1, <1>2, PTL DEF Spec

\* Stopping an idle engine and starting it again gives the same book and the same
\* replies, for all orders, cancels and crashes.
THEOREM Rebuilt == Spec => []RestartRebuilds
  <1>1. JournalInv => RestartRebuilds
    <2> SUFFICES ASSUME JournalInv, pc = "idle", errors = 0
                 PROVE  /\ Restorable(file)
                        /\ RestoreFrom(file).book = book
                        /\ RestoreFrom(file).expect = <<>>
                        /\ RestoreFrom(file).orders = order_replies
                        /\ RestoreFrom(file).controls = OfCancels(control_replies)
      BY DEF RestartRebuilds, OfCancels
    <2>1. PICK g, b, e, o, c : Rebuilds(g, b, e, o, c) /\ (Down(g) \/ Up(g, b, e, o, c))
      BY DEF JournalInv
    <2>2. Up(g, b, e, o, c)
      BY <2>1 DEF Down
    <2>3. file = g /\ book = b /\ e = <<>> /\ order_replies = o /\ OfCancels(control_replies) = c
      BY <2>2 DEF Up
    <2>4. recover(g)
      BY <2>1 DEF Rebuilds
    <2>5. PICK a : a = RestoreFrom(g)
      OBVIOUS
    <2>6. a = [ok |-> TRUE, book |-> b, expect |-> e, orders |-> o, controls |-> c]
      BY <2>1, <2>5 DEF Rebuilds
    <2>7. a.ok /\ a.book = b /\ a.expect = e /\ a.orders = o /\ a.controls = c
      BY <2>6
    <2>8. QED
      BY <2>3, <2>4, <2>5, <2>7 DEF Restorable
  <1>2. QED
    BY <1>1, Journaled, PTL

\* No answer that was given is lost: the journal holds every one of them, also after
\* a crash that left a fragment.
THEOREM Answered == Spec => []AnswersInJournal
  <1>1. JournalInv => AnswersInJournal
    <2> SUFFICES ASSUME JournalInv, errors = 0, NEW x \in answers
                 PROVE  /\ x[1].kind \in {"order", "cancel"} => Restorable(Whole(file))
                        /\ x[1].kind = "order"  => <<x[1].id, x[2]>> \in RestoreFrom(Whole(file)).orders
                        /\ x[1].kind = "cancel" => <<x[1].id, x[2]>> \in RestoreFrom(Whole(file)).controls
      BY DEF AnswersInJournal
    <2>1. PICK g, b, e, o, c : /\ Rebuilds(g, b, e, o, c) /\ Kept(answers, o, c)
                               /\ Down(g) \/ Up(g, b, e, o, c)
      BY DEF JournalInv
    <2>2. IsSeq(g) /\ recover(g)
      BY <2>1 DEF Rebuilds
    <2>3. Whole(file) = g
      <3>1. CASE file = g
        BY <2>2, <3>1, WholeJournal
      <3>2. ASSUME NEW y, ~y.ok, file = Append(g, y) PROVE Whole(file) = g
        BY <2>2, <3>2, WholeFragment
      <3>3. QED
        BY <2>1, <3>1, <3>2 DEF Down, Up
    <2>4. PICK a : a = RestoreFrom(g)
      OBVIOUS
    <2>5. a = [ok |-> TRUE, book |-> b, expect |-> e, orders |-> o, controls |-> c]
      BY <2>1, <2>4 DEF Rebuilds
    <2>6. a.ok /\ a.orders = o /\ a.controls = c
      BY <2>5
    <2>7. Restorable(g)
      BY <2>2, <2>4, <2>6 DEF Restorable
    <2>8. (x[1].kind = "order" => <<x[1].id, x[2]>> \in o) /\ (x[1].kind = "cancel" => <<x[1].id, x[2]>> \in c)
      BY <2>1 DEF Kept
    <2>9. QED
      BY <2>3, <2>4, <2>6, <2>7, <2>8
  <1>2. QED
    BY <1>1, Journaled, PTL
-----------------------------------------------------------------------------
(* One history, after failed appends too. *)

\* A state of restore().
IsState(a) == a = [ok |-> a.ok, book |-> a.book, expect |-> a.expect, orders |-> a.orders, controls |-> a.controls]

\* A table with one entry per id.
OneEach(t) == \A x, y \in t : x[1] = y[1] => x = y

IsTrade(rec) == rec.kind = "trade_event"

\* Of the outputs e that follow in book b only the first may be a trade, and it is the last the book has counted.
Pending(b, e) ==
  /\ b.trades \in Nat
  /\ \A i \in 1..Len(e) : IsTrade(e[i]) => i = 1 /\ e[1].data[1] = b.trades

\* The trades in the journal f were counted by b, and come before the one in e.
Numbers(f, b, e) ==
  \A i \in 1..Len(f) : IsTrade(f[i]) =>
    /\ f[i].data[1] \in Nat /\ f[i].data[1] <= b.trades
    /\ \A j \in 1..Len(e) : IsTrade(e[j]) => f[i].data[1] < b.trades

\* A state of restore() that has found no fault.
Good(a, f) ==
  /\ IsBook(a.book) /\ IsOutputs(a.expect)
  /\ IsTable(a.orders) /\ IsTable(a.controls) /\ OneEach(a.orders) /\ OneEach(a.controls)
  /\ Ids(a.orders) \subseteq a.book.seen
  /\ Pending(a.book, a.expect) /\ Numbers(f, a.book, a.expect)

\* What is so of every file.
Sound(f) == IsSeq(f) /\ IsState(RestoreFrom(f)) /\ (RestoreFrom(f).ok => Good(RestoreFrom(f), f))

\* The record on disk says the same.
OnDisk(rec, f) == \E i \in 1..Len(f) : f[i].kind = rec.kind /\ f[i].data = rec.data

\* No two trades of the journal f share a number.
Distinct(f) ==
  \A i, j \in 1..Len(f) : IsTrade(f[i]) /\ IsTrade(f[j]) /\ f[i].data[1] = f[j].data[1] => f[i].data = f[j].data

\* Trades in the file and outside of it.
TradesTold ==
  /\ Distinct(file)
  /\ \A p \in published : p = [kind |-> p.kind, data |-> p.data] /\ (IsTrade(p) => OnDisk(p, file))
  /\ \A i \in 1..Len(records) : OnDisk(records[i], file)

\* What the worker is at.
Shape ==
  /\ IsSeq(records)
  /\ pc \in {"down", "restore", "idle", "work"}
  /\ pc = "idle" => todo = <<>>
  /\ pc = "restore" => IsOutputs(todo)
  /\ pc = "work" => /\ job \in OrderRequests \cup Cancels /\ ~Known(job)
                    /\ todo = <<CommandRecord(job)>> \/ IsOutputs(todo)
  /\ pc # "down" => /\ journal_sequence \in Nat /\ journal_sequence >= Len(file)
                    /\ IsBook(book) /\ Pending(book, todo) /\ Numbers(file, book, todo)
                    /\ IsTable(order_replies) /\ IsTable(control_replies)
                    /\ OneEach(order_replies) /\ OneEach(control_replies)

\* The worker has done what the file says.
InStep(a) ==
  /\ journal_sequence = Len(file) /\ book = a.book
  /\ a.expect = todo \/ (a.expect = <<>> /\ pc = "work" /\ todo = <<CommandRecord(job)>>)
  /\ pc = "work" /\ todo # <<CommandRecord(job)>> /\ reply # NoReply =>
       /\ job.kind = "order" => <<job.id, reply>> \in a.orders
       /\ job.kind = "cancel" => <<job.id, reply>> \in a.controls

\* The worker has done more: with the next record it writes the file is one that restore() refuses.
Ahead(a) ==
  /\ pc = "idle" \/ (pc = "work" /\ todo = <<CommandRecord(job)>>)
  /\ journal_sequence # Len(file) \/ a.expect # <<>>

\* The answers given, the replies in memory and what the file restores to, if restore() takes it.
AnswersTold ==
  /\ ReplyStable
  /\ \A x \in answers : x[1] \in Requests
  /\ pc # "down" => Kept(answers, order_replies, OfCancels(control_replies))
  /\ Restorable(file) => Kept(answers, RestoreFrom(file).orders, RestoreFrom(file).controls)
  /\ pc # "down" /\ Restorable(file) =>
       /\ order_replies \subseteq RestoreFrom(file).orders /\ OfCancels(control_replies) \subseteq RestoreFrom(file).controls
       /\ InStep(RestoreFrom(file)) \/ Ahead(RestoreFrom(file))

HistoryInv == Sound(file) /\ TradesTold /\ Shape /\ AnswersTold

\* The record x is the output that the state a of restore() waits for, and q the state after it.
OutStep(a, x, q) ==
  /\ a.expect # <<>> /\ x.kind = Head(a.expect).kind /\ x.data = Head(a.expect).data
  /\ q.book = a.book /\ q.expect = Tail(a.expect) /\ q.orders = a.orders /\ q.controls = a.controls

\* The record x is a command, which the book takes, and q the state after it.
ComStep(a, x, r, q) ==
  /\ a.expect = <<>> /\ IsCommand(x) /\ (x.data.kind = "order" => r.events # <<>>)
  /\ q.book = r.book /\ q.expect = Outputs(x.data, r)
  /\ q.orders = RestoredOrder(a, x.data, r) /\ q.controls = RestoredControl(a, x.data, r)

\* What a turn of the loop of restore() does unless it finds a fault.
LEMMA StateStep ==
  ASSUME NEW a, IsState(a), NEW x, NEW q, q = RestoreStep(a, x)
  PROVE  IsState(q) /\ (q.ok => a.ok /\ (OutStep(a, x, q) \/ ComStep(a, x, Apply(a.book, x.data), q)))
  <1>1. CASE a.expect # <<>>
    <2>1. PICK y, t : /\ y = (a.ok /\ x.kind = Head(a.expect).kind /\ x.data = Head(a.expect).data) /\ t = Tail(a.expect)
      OBVIOUS
    <2>2. q = [a EXCEPT !.ok = y, !.expect = t]
      BY <1>1, <2>1 DEF RestoreStep
    <2>3. PICK ok, b, e, o, c : a = [ok |-> ok, book |-> b, expect |-> e, orders |-> o, controls |-> c]
      BY DEF IsState
    <2>4. q = [ok |-> y, book |-> b, expect |-> t, orders |-> o, controls |-> c]
      <3>1. q.ok = y /\ q.expect = t /\ q.book = b /\ q.orders = o /\ q.controls = c
        BY <2>2, <2>3
      <3>2. q = [n \in {"ok", "book", "expect", "orders", "controls"} |-> q[n]]
        BY <2>2, <2>3
      <3>3. q = [ok |-> q.ok, book |-> q.book, expect |-> q.expect, orders |-> q.orders, controls |-> q.controls]
        BY <3>2
      <3> QED
        BY <3>1, <3>3
    <2>5. q.ok = y /\ q.expect = t /\ q.book = a.book /\ q.orders = a.orders /\ q.controls = a.controls
      BY <2>3, <2>4
    <2>6. IsState(q)
      BY <2>4 DEF IsState
    <2> QED
      BY <1>1, <2>1, <2>5, <2>6 DEF OutStep
  <1>2. CASE a.expect = <<>> /\ IsCommand(x)
    <2>1. PICK c, r : c = x.data /\ r = Apply(a.book, c)
      OBVIOUS
    <2>2. PICK y : y = (a.ok /\ (c.kind = "order" => r.events # <<>>))
      OBVIOUS
    <2>3. q = [ok |-> y, book |-> r.book, expect |-> Outputs(c, r),
               orders |-> RestoredOrder(a, c, r), controls |-> RestoredControl(a, c, r)]
      BY <1>2, <2>1, <2>2 DEF RestoreStep
    <2>4. /\ q.ok = y /\ q.book = r.book /\ q.expect = Outputs(c, r)
          /\ q.orders = RestoredOrder(a, c, r) /\ q.controls = RestoredControl(a, c, r) /\ IsState(q)
      BY <2>3 DEF IsState
    <2> QED
      BY <1>2, <2>1, <2>2, <2>4 DEF ComStep
  <1>3. CASE a.expect = <<>> /\ ~IsCommand(x)
    <2>1. q = [a EXCEPT !.ok = FALSE]
      BY <1>3 DEF RestoreStep
    <2>2. PICK ok, b, e, o, c : a = [ok |-> ok, book |-> b, expect |-> e, orders |-> o, controls |-> c]
      BY DEF IsState
    <2>3. q = [ok |-> FALSE, book |-> b, expect |-> e, orders |-> o, controls |-> c]
      BY <2>1, <2>2
    <2>4. q.ok = FALSE /\ IsState(q)
      BY <2>3 DEF IsState
    <2> QED
      BY <2>4
  <1> QED
    BY <1>1, <1>2, <1>3

\* The trades a command makes: at most one, put out first and counted.
LEMMA TradeOfOrder ==
  ASSUME NEW b, IsBook(b), b.trades \in Nat, NEW id, NEW r, r = BookSubmit(b, id)
  PROVE  /\ Pending(r.book, r.events) /\ r.book.trades >= b.trades
         /\ (\E i \in 1..Len(r.events) : IsTrade(r.events[i])) => r.book.trades > b.trades
  <1>0. PICK s, o, u, n, d : b = [seen |-> s, open |-> o, trades |-> u, statuses |-> n, depth |-> d]
    BY DEF IsBook
  <1>1. CASE id \in b.seen
    <2>1. r.book = b /\ r.events = <<>>
      BY <1>1 DEF BookSubmit
    <2>2. Len(<<>>) = 0 /\ 1..0 = {}
      OBVIOUS
    <2> QED
      BY <2>1, <2>2 DEF Pending
  <1>2. CASE id \notin b.seen /\ id \in Refused
    <2>1. PICK x : x = StatusRecord(b.statuses + 1, id, "rejected")
      OBVIOUS
    <2>2. r = [book |-> [b EXCEPT !.seen = @ \cup {id}, !.statuses = @ + 1], events |-> <<x>>]
      BY <1>2, <2>1 DEF BookSubmit
    <2>3. ~IsTrade(x)
      BY <2>1 DEF StatusRecord, IsTrade
    <2>4. r.book.trades = b.trades /\ r.events = <<x>>
      <3>1. r.book = [b EXCEPT !.seen = @ \cup {id}, !.statuses = @ + 1] /\ r.events = <<x>>
        BY <2>2
      <3>2. r.book = [seen |-> s \cup {id}, open |-> o, trades |-> u, statuses |-> n + 1, depth |-> d]
        BY <1>0, <3>1
      <3> QED
        BY <1>0, <3>1, <3>2
    <2>5. Len(<<x>>) = 1 /\ <<x>>[1] = x /\ \A i \in 1..1 : i = 1
      OBVIOUS
    <2> QED
      BY <2>3, <2>4, <2>5 DEF Pending
  <1>3. CASE id \notin b.seen /\ id \notin Refused /\ b.open = <<>>
    <2>1. PICK x, y : x = StatusRecord(b.statuses + 1, id, "open") /\ y = BookSnapshot(b.depth + 1)
      OBVIOUS
    <2>2. r = [book |-> [b EXCEPT !.seen = @ \cup {id}, !.open = <<id>>, !.statuses = @ + 1, !.depth = @ + 1],
               events |-> <<x, y>>]
      BY <1>3, <2>1 DEF BookSubmit
    <2>3. ~IsTrade(x) /\ ~IsTrade(y)
      BY <2>1 DEF StatusRecord, BookSnapshot, IsTrade
    <2>4. r.book.trades = b.trades /\ r.events = <<x, y>>
      <3>1. r.book = [b EXCEPT !.seen = @ \cup {id}, !.open = <<id>>, !.statuses = @ + 1, !.depth = @ + 1] /\ r.events = <<x, y>>
        BY <2>2
      <3>2. r.book = [seen |-> s \cup {id}, open |-> <<id>>, trades |-> u, statuses |-> n + 1, depth |-> d + 1]
        BY <1>0, <3>1
      <3> QED
        BY <1>0, <3>1, <3>2
    <2>5. Len(<<x, y>>) = 2 /\ <<x, y>>[1] = x /\ <<x, y>>[2] = y /\ \A i \in 1..2 : i = 1 \/ i = 2
      OBVIOUS
    <2>6. \A i \in 1..2 : ~IsTrade(<<x, y>>[i])
      BY <2>3, <2>5
    <2> QED
      BY <2>4, <2>5, <2>6 DEF Pending
  <1>4. CASE id \notin b.seen /\ id \notin Refused /\ b.open # <<>>
    <2>1. PICK t, x, y, z : /\ t = TradeEvent(b.trades + 1, Head(b.open), id)
                            /\ x = StatusRecord(b.statuses + 1, Head(b.open), "filled")
                            /\ y = StatusRecord(b.statuses + 2, id, "filled")
                            /\ z = BookSnapshot(b.depth + 1)
      OBVIOUS
    <2>2. r = [book |-> [b EXCEPT !.seen = @ \cup {id}, !.open = Tail(@), !.trades = @ + 1,
                                  !.statuses = @ + 2, !.depth = @ + 1],
               events |-> <<t, x, y, z>>]
      BY <1>4, <2>1 DEF BookSubmit
    <2>3. IsTrade(t) /\ ~IsTrade(x) /\ ~IsTrade(y) /\ ~IsTrade(z) /\ t.data[1] = b.trades + 1
      BY <2>1 DEF TradeEvent, StatusRecord, BookSnapshot, IsTrade
    <2>4. r.book.trades = b.trades + 1 /\ r.events = <<t, x, y, z>>
      <3>1. r.book = [b EXCEPT !.seen = @ \cup {id}, !.open = Tail(@), !.trades = @ + 1, !.statuses = @ + 2, !.depth = @ + 1]
            /\ r.events = <<t, x, y, z>>
        BY <2>2
      <3>2. r.book = [seen |-> s \cup {id}, open |-> Tail(o), trades |-> u + 1, statuses |-> n + 2, depth |-> d + 1]
        BY <1>0, <3>1
      <3> QED
        BY <1>0, <3>1, <3>2
    <2>5. /\ Len(<<t, x, y, z>>) = 4
          /\ <<t, x, y, z>>[1] = t /\ <<t, x, y, z>>[2] = x /\ <<t, x, y, z>>[3] = y /\ <<t, x, y, z>>[4] = z
          /\ \A i \in 1..4 : i = 1 \/ i = 2 \/ i = 3 \/ i = 4
      OBVIOUS
    <2>6. \A i \in 1..4 : IsTrade(<<t, x, y, z>>[i]) => i = 1
      BY <2>3, <2>5
    <2>7. Pending(r.book, r.events)
      BY <2>3, <2>4, <2>5, <2>6 DEF Pending
    <2> QED
      BY <2>4, <2>7
  <1> QED
    BY <1>1, <1>2, <1>3, <1>4

\* The same for any command.
LEMMA TradeOfCommand ==
  ASSUME NEW b, IsBook(b), b.trades \in Nat, NEW k \in OrderRequests \cup Cancels, NEW r, r = Apply(b, k)
  PROVE  /\ Pending(r.book, Outputs(k, r)) /\ r.book.trades >= b.trades
         /\ (\E i \in 1..Len(Outputs(k, r)) : IsTrade(Outputs(k, r)[i])) => r.book.trades > b.trades
  <1>1. CASE k \in OrderRequests
    <2>1. k.kind = "order"
      BY <1>1, Kinds
    <2>2. r = BookSubmit(b, k.id) /\ Outputs(k, r) = r.events
      BY <2>1 DEF Apply, Outputs
    <2> QED
      BY <2>2, TradeOfOrder
  <1>2. CASE k \in Cancels
    <2>1. k.kind = "cancel"
      BY <1>2, Kinds
    <2>2. r = BookCancel(b, k.order)
      BY <2>1 DEF Apply
    <2>3. PICK a : a = CancelAck(k, r)
      OBVIOUS
    <2>4. ~IsTrade(a)
      BY <2>3 DEF CancelAck, IsTrade
    <2>5. Outputs(k, r) = Append(r.events, a)
      BY <2>1, <2>3 DEF Outputs
    <2>6. CASE k.order \in Range(b.open)
      <3>1. PICK x, y, q : x = StatusRecord(b.statuses + 1, k.order, "canceled") /\ y = BookSnapshot(b.depth + 1)
                           /\ q = SelectSeq(b.open, LAMBDA o : o # k.order)
        OBVIOUS
      <3>2. r.book = [b EXCEPT !.open = q, !.statuses = @ + 1, !.depth = @ + 1] /\ r.events = <<x, y>>
        BY <2>2, <2>6, <3>1 DEF BookCancel
      <3>3. ~IsTrade(x) /\ ~IsTrade(y)
        BY <3>1 DEF StatusRecord, BookSnapshot, IsTrade
      <3>4. r.book.trades = b.trades
        <4>1. PICK s, o, u, n, d : b = [seen |-> s, open |-> o, trades |-> u, statuses |-> n, depth |-> d]
          BY DEF IsBook
        <4> QED
          BY <3>2, <4>1
      <3>5. PICK v : v = Append(<<x, y>>, a)
        OBVIOUS
      <3>6. Len(v) = 3 /\ v[1] = x /\ v[2] = y /\ v[3] = a /\ \A i \in 1..3 : i = 1 \/ i = 2 \/ i = 3
        <4>1. <<x, y>> \in Seq({x, y, a}) /\ Len(<<x, y>>) = 2 /\ <<x, y>>[1] = x /\ <<x, y>>[2] = y
          OBVIOUS
        <4> QED
          BY <3>5, <4>1
      <3>7. Outputs(k, r) = v /\ \A i \in 1..Len(v) : ~IsTrade(v[i])
        BY <2>4, <2>5, <3>2, <3>3, <3>5, <3>6
      <3> QED
        BY <3>4, <3>7 DEF Pending
    <2>7. CASE k.order \notin Range(b.open)
      <3>1. r.book = b /\ r.events = <<>>
        BY <2>2, <2>7 DEF BookCancel
      <3>2. PICK v : v = Append(<<>>, a)
        OBVIOUS
      <3>3. Len(v) = 1 /\ v[1] = a /\ \A i \in 1..1 : i = 1
        BY <3>2
      <3>4. Outputs(k, r) = v /\ \A i \in 1..Len(v) : ~IsTrade(v[i])
        BY <2>4, <2>5, <3>1, <3>2, <3>3
      <3> QED
        BY <3>1, <3>4 DEF Pending
    <2> QED
      BY <2>6, <2>7
  <1> QED
    BY <1>1, <1>2

\* The next output is written.
LEMMA OutputNumbers ==
  ASSUME NEW f, IsSeq(f), NEW b, NEW e, IsSeq(e), e # <<>>, Pending(b, e), Numbers(f, b, e),
         NEW x, x.kind = Head(e).kind, x.data = Head(e).data
  PROVE  /\ Pending(b, Tail(e)) /\ Numbers(Append(f, x), b, Tail(e))
         /\ Pending(b, <<>>) /\ Numbers(Append(f, x), b, <<>>)
         /\ Distinct(f) => Distinct(Append(f, x))
  <1>1. PICK g : g = Append(f, x)
    OBVIOUS
  <1>2. Len(f) \in Nat /\ Len(g) = Len(f) + 1 /\ g[Len(f) + 1] = x /\ \A i \in 1..Len(f) : g[i] = f[i]
    BY <1>1, OneMore
  <1>3. PICK t : t = Tail(e)
    OBVIOUS
  <1>4. Len(e) \in Nat /\ Len(e) >= 1 /\ Head(e) = e[1] /\ Len(t) = Len(e) - 1 /\ \A i \in 1..(Len(e) - 1) : t[i] = e[i + 1]
    BY <1>3 DEF IsSeq
  <1>5. b.trades \in Nat /\ \A i \in 1..Len(e) : IsTrade(e[i]) => i = 1 /\ e[1].data[1] = b.trades
    BY DEF Pending
  <1>6. \A i \in 1..Len(t) : i + 1 \in 1..Len(e) /\ i + 1 # 1
    BY <1>4
  <1>7. \A i \in 1..Len(t) : ~IsTrade(t[i])
    BY <1>4, <1>5, <1>6
  <1>8. Len(<<>>) = 0 /\ 1..0 = {}
    OBVIOUS
  <1>9. IsTrade(x) => x.data[1] = b.trades /\ \A i \in 1..Len(f) : IsTrade(f[i]) => f[i].data[1] < b.trades
    BY <1>4, <1>5 DEF IsTrade, Numbers
  <1>10. ASSUME NEW i \in 1..Len(g), IsTrade(g[i]) PROVE g[i].data[1] \in Nat /\ g[i].data[1] <= b.trades
    <2>1. CASE i \in 1..Len(f)
      BY <1>2, <1>10, <2>1 DEF Numbers
    <2>2. CASE i = Len(f) + 1
      BY <1>2, <1>5, <1>9, <1>10, <2>2
    <2> QED
      BY <1>2, <2>1, <2>2
  <1>11. Numbers(g, b, t) /\ Numbers(g, b, <<>>)
    BY <1>7, <1>8, <1>10 DEF Numbers
  <1>12. Pending(b, t) /\ Pending(b, <<>>)
    BY <1>5, <1>7, <1>8 DEF Pending
  <1>13. ASSUME Distinct(f), NEW i \in 1..Len(g), NEW j \in 1..Len(g), IsTrade(g[i]), IsTrade(g[j]), g[i].data[1] = g[j].data[1]
         PROVE  g[i].data = g[j].data
    <2>1. CASE i \in 1..Len(f) /\ j \in 1..Len(f)
      BY <1>2, <1>13, <2>1 DEF Distinct
    <2>2. CASE i = Len(f) + 1 /\ j = Len(f) + 1
      BY <2>2
    <2>3. CASE i \in 1..Len(f) /\ j = Len(f) + 1
      <3>1. g[i].data[1] < b.trades /\ g[j].data[1] = b.trades /\ g[i].data[1] \in Nat
        BY <1>2, <1>9, <1>10, <1>13, <2>3
      <3> QED
        BY <1>5, <1>13, <3>1
    <2>4. CASE i = Len(f) + 1 /\ j \in 1..Len(f)
      <3>1. g[j].data[1] < b.trades /\ g[i].data[1] = b.trades /\ g[j].data[1] \in Nat
        BY <1>2, <1>9, <1>10, <1>13, <2>4
      <3> QED
        BY <1>5, <1>13, <3>1
    <2>5. \A k \in 1..Len(g) : k \in 1..Len(f) \/ k = Len(f) + 1
      BY <1>2
    <2> QED
      BY <2>1, <2>2, <2>3, <2>4, <2>5
  <1>14. Distinct(f) => Distinct(g)
    BY <1>13 DEF Distinct
  <1> QED
    BY <1>1, <1>3, <1>11, <1>12, <1>14

\* A command is written, and taken by the book.
LEMMA CommandNumbers ==
  ASSUME NEW f, IsSeq(f), NEW b, IsBook(b), NEW e, Pending(b, e), Numbers(f, b, e), NEW x, IsCommand(x),
         NEW k \in OrderRequests \cup Cancels, NEW r, r = Apply(b, k)
  PROVE  /\ Pending(r.book, Outputs(k, r)) /\ Numbers(Append(f, x), r.book, Outputs(k, r))
         /\ Pending(b, <<>>) /\ Numbers(Append(f, x), b, <<>>)
         /\ Distinct(f) => Distinct(Append(f, x))
  <1>1. PICK g : g = Append(f, x)
    OBVIOUS
  <1>2. Len(f) \in Nat /\ Len(g) = Len(f) + 1 /\ g[Len(f) + 1] = x /\ \A i \in 1..Len(f) : g[i] = f[i]
    BY <1>1, OneMore
  <1>3. ~IsTrade(x)
    BY DEF IsTrade, IsCommand
  <1>4. \A i \in 1..Len(g) : IsTrade(g[i]) => i \in 1..Len(f) /\ g[i] = f[i]
    <2>1. \A i \in 1..Len(g) : i \in 1..Len(f) \/ i = Len(f) + 1
      BY <1>2
    <2> QED
      BY <1>2, <1>3, <2>1
  <1>5. PICK s : s = Outputs(k, r)
    OBVIOUS
  <1>6. b.trades \in Nat
    BY DEF Pending
  <1>7. /\ Pending(r.book, s) /\ r.book.trades >= b.trades
        /\ (\E i \in 1..Len(s) : IsTrade(s[i])) => r.book.trades > b.trades
    BY <1>5, <1>6, TradeOfCommand
  <1>8. r.book.trades \in Nat
    BY <1>7 DEF Pending
  <1>9. \A i \in 1..Len(f) : IsTrade(f[i]) => f[i].data[1] \in Nat /\ f[i].data[1] <= b.trades
    BY DEF Numbers
  <1>10. Numbers(g, r.book, s)
    BY <1>4, <1>6, <1>7, <1>8, <1>9 DEF Numbers
  <1>11. Len(<<>>) = 0 /\ 1..0 = {}
    OBVIOUS
  <1>12. Numbers(g, b, <<>>) /\ Pending(b, <<>>)
    BY <1>4, <1>6, <1>9, <1>11 DEF Numbers, Pending
  <1>13. Distinct(f) => Distinct(g)
    BY <1>4 DEF Distinct
  <1> QED
    BY <1>1, <1>5, <1>7, <1>10, <1>12, <1>13

\* A reply in a table.
LEMMA PutFacts ==
  ASSUME NEW t, IsTable(t), OneEach(t), NEW id, NEW v
  PROVE  /\ IsTable(Put(t, id, v)) /\ OneEach(Put(t, id, v)) /\ <<id, v>> \in Put(t, id, v)
         /\ Ids(Put(t, id, v)) \subseteq Ids(t) \cup {id}
         /\ \A y \in t : y[1] # id => y \in Put(t, id, v)
  <1>1. PICK p : p = <<id, v>> /\ p[1] = id /\ p[2] = v
    <2>1. <<id, v>>[1] = id /\ <<id, v>>[2] = v
      OBVIOUS
    <2> QED
      BY <2>1
  <1>2. PICK u : u = Put(t, id, v)
    OBVIOUS
  <1>3. \A y : y \in u <=> (y \in t /\ y[1] # id) \/ y = p
    BY <1>1, <1>2 DEF Put
  <1>4. IsTable(u)
    BY <1>1, <1>3 DEF IsTable
  <1>5. OneEach(u)
    BY <1>1, <1>3 DEF OneEach
  <1>6. Ids(u) \subseteq Ids(t) \cup {id}
    BY <1>1, <1>3 DEF Ids
  <1> QED
    BY <1>1, <1>2, <1>3, <1>4, <1>5, <1>6

\* One turn of the loop of restore() that finds no fault.
Turn(a, x, q) == OutStep(a, x, q) \/ ComStep(a, x, Apply(a.book, x.data), q)

\* A turn keeps the state good.
LEMMA GoodTurn ==
  ASSUME NEW f, IsSeq(f), NEW a, Good(a, f), NEW x, IsCommand(x) => x.data \in OrderRequests \cup Cancels,
         NEW q, Turn(a, x, q)
  PROVE  Good(q, Append(f, x))
  <1>1. /\ IsBook(a.book) /\ IsOutputs(a.expect) /\ IsTable(a.orders) /\ IsTable(a.controls)
        /\ OneEach(a.orders) /\ OneEach(a.controls) /\ Ids(a.orders) \subseteq a.book.seen
        /\ Pending(a.book, a.expect) /\ Numbers(f, a.book, a.expect)
    BY DEF Good
  <1>2. CASE OutStep(a, x, q)
    <2>1. PICK b, e : b = a.book /\ e = a.expect
      OBVIOUS
    <2>2. /\ e # <<>> /\ x.kind = Head(e).kind /\ x.data = Head(e).data
          /\ q.book = b /\ q.expect = Tail(e) /\ q.orders = a.orders /\ q.controls = a.controls
      BY <1>2, <2>1 DEF OutStep
    <2>3. IsOutputs(Tail(e)) /\ IsSeq(e)
      BY <1>1, <2>1, <2>2, RestOfOutputs DEF IsOutputs
    <2>4. Pending(b, e) /\ Numbers(f, b, e)
      BY <1>1, <2>1
    <2>5. Pending(b, Tail(e)) /\ Numbers(Append(f, x), b, Tail(e))
      BY <2>2, <2>3, <2>4, OutputNumbers
    <2> QED
      BY <1>1, <2>1, <2>2, <2>3, <2>5 DEF Good
  <1>3. CASE ComStep(a, x, Apply(a.book, x.data), q)
    <2>1. PICK b, e, k, r : b = a.book /\ e = a.expect /\ k = x.data /\ r = Apply(b, k)
      OBVIOUS
    <2>2. /\ IsCommand(x) /\ (k.kind = "order" => r.events # <<>>)
          /\ q.book = r.book /\ q.expect = Outputs(k, r)
          /\ q.orders = RestoredOrder(a, k, r) /\ q.controls = RestoredControl(a, k, r)
      BY <1>3, <2>1 DEF ComStep
    <2>3. k \in OrderRequests \cup Cancels
      BY <2>1, <2>2
    <2>4. IsBook(b) /\ Pending(b, e) /\ Numbers(f, b, e)
      BY <1>1, <2>1
    <2>5. Pending(r.book, Outputs(k, r)) /\ Numbers(Append(f, x), r.book, Outputs(k, r))
      BY <2>1, <2>2, <2>3, <2>4, CommandNumbers
    <2>6. CASE k \in OrderRequests
      <3>1. k.kind = "order" /\ r = BookSubmit(b, k.id) /\ Outputs(k, r) = r.events /\ r.events # <<>>
        BY <2>1, <2>2, <2>6, Kinds DEF Apply, Outputs
      <3>2. k.id \notin b.seen
        BY <3>1 DEF BookSubmit
      <3>3. IsBook(r.book) /\ r.book.seen = b.seen \cup {k.id} /\ IsOutputs(r.events)
        BY <2>4, <3>1, <3>2, NewOrder
      <3>4. PICK v : v = OrderReply(r.events)
        OBVIOUS
      <3>5. q.orders = Put(a.orders, k.id, v) /\ q.controls = a.controls
        BY <2>2, <3>1, <3>4 DEF RestoredOrder, RestoredControl
      <3>6. PICK o : o = Put(a.orders, k.id, v)
        OBVIOUS
      <3>7. IsTable(o) /\ OneEach(o) /\ Ids(o) \subseteq Ids(a.orders) \cup {k.id}
        BY <1>1, <3>6, PutFacts
      <3> QED
        BY <1>1, <2>1, <2>2, <2>5, <3>1, <3>3, <3>5, <3>6, <3>7 DEF Good
    <2>7. CASE k \in Cancels
      <3>1. k.kind = "cancel"
        BY <2>7, Kinds
      <3>2. IsBook(r.book) /\ r.book.seen = b.seen /\ IsOutputs(Outputs(k, r))
        BY <2>1, <2>4, <3>1, NewCancel
      <3>3. PICK v : v = CancelAck(k, r).data
        OBVIOUS
      <3>4. q.orders = a.orders /\ q.controls = Put(a.controls, k.id, v)
        BY <2>2, <3>1, <3>3 DEF RestoredOrder, RestoredControl
      <3>5. PICK c : c = Put(a.controls, k.id, v)
        OBVIOUS
      <3>6. IsTable(c) /\ OneEach(c)
        BY <1>1, <3>5, PutFacts
      <3> QED
        BY <1>1, <2>1, <2>2, <2>5, <3>2, <3>4, <3>5, <3>6 DEF Good
    <2> QED
      BY <2>3, <2>6, <2>7
  <1> QED
    BY <1>2, <1>3 DEF Turn

\* A record that is no command, or that of an order or a cancel.
Proper(x) == IsCommand(x) => x.data \in OrderRequests \cup Cancels

\* One record more in the file, complete or a fragment.
LEMMA SoundAppend ==
  ASSUME NEW f, Sound(f), NEW x, Proper(x), NEW g, g = Append(f, x)
  PROVE  /\ Sound(g)
         /\ RestoreFrom(g).ok => RestoreFrom(f).ok /\ Turn(RestoreFrom(f), x, RestoreFrom(g))
         /\ recover(g) => recover(f) /\ x.ok /\ x.seq = Len(f) + 1
         /\ Len(f) \in Nat /\ Len(g) = Len(f) + 1 /\ g[Len(f) + 1] = x /\ \A i \in 1..Len(f) : g[i] = f[i]
  <1>1. IsSeq(f) /\ IsState(RestoreFrom(f)) /\ (RestoreFrom(f).ok => Good(RestoreFrom(f), f))
    BY DEF Sound
  <1>2. /\ IsSeq(g) /\ Len(f) \in Nat /\ Len(g) = Len(f) + 1 /\ g[Len(f) + 1] = x
        /\ f \in Seq(Range(f) \cup {x}) /\ DOMAIN g = 1..(Len(f) + 1) /\ DOMAIN f = 1..Len(f)
    BY <1>1, OneMore
  <1>3. \A i \in 1..Len(f) : g[i] = f[i]
    BY <1>1, OneMore
  <1>4. RestoreFrom(g) = RestoreStep(RestoreFrom(f), x)
    <2>1. x \in Range(f) \cup {x}
      OBVIOUS
    <2> QED
      BY <1>2, <2>1, RestoreAppend
  <1>5. PICK a, q : a = RestoreFrom(f) /\ q = RestoreFrom(g)
    OBVIOUS
  <1>6. IsState(q) /\ (q.ok => a.ok /\ Turn(a, x, q))
    <2>1. IsState(a) /\ q = RestoreStep(a, x)
      BY <1>1, <1>4, <1>5
    <2> QED
      BY <2>1, StateStep DEF Turn
  <1>7. q.ok => Good(q, g)
    <2>1. IsCommand(x) => x.data \in OrderRequests \cup Cancels
      BY DEF Proper
    <2> QED
      BY <1>1, <1>5, <1>6, <2>1, GoodTurn
  <1>8. recover(g) => recover(f) /\ x.ok /\ x.seq = Len(f) + 1
    <2>1. Len(f) + 1 \in 1..(Len(f) + 1) /\ \A i \in 1..Len(f) : i \in 1..(Len(f) + 1)
      BY <1>2
    <2> QED
      BY <1>2, <1>3, <2>1 DEF recover
  <1> QED
    BY <1>2, <1>3, <1>5, <1>6, <1>7, <1>8 DEF Sound

\* The same, for every file and record.
LEMMA SoundMore == \A f, x : Sound(f) /\ Proper(x) => Sound(Append(f, x))
  <1>1. ASSUME NEW f, Sound(f), NEW x, Proper(x) PROVE Sound(Append(f, x))
    BY <1>1, SoundAppend
  <1> QED
    BY <1>1

\* The file f and the record rec that the worker writes, complete or not: what the book and the outputs
\* to come are to the file then.
LEMMA WriteFacts ==
  ASSUME HistoryInv, pc \in {"work", "restore"}, todo # <<>>, NEW ok, NEW x, x = Stored(Head(todo), ok),
         NEW g, g = Append(file, x)
  PROVE  /\ Sound(g) /\ Distinct(g) /\ Pending(book, <<>>) /\ Numbers(g, book, <<>>)
         /\ \A rec : OnDisk(rec, file) => OnDisk(rec, g)
         /\ OnDisk(x, g) /\ x.kind = Head(todo).kind /\ x.data = Head(todo).data
         /\ x.seq = journal_sequence + 1 /\ x.ok = ok /\ Len(g) = Len(file) + 1 /\ Len(file) \in Nat
         /\ IsCommand(Head(todo)) =>
              /\ pc = "work" /\ todo = <<CommandRecord(job)>> /\ Head(todo) = CommandRecord(job) /\ x.data = job
              /\ IsBook(Apply(book, job).book) /\ IsOutputs(Outputs(job, Apply(book, job)))
              /\ Pending(Apply(book, job).book, Outputs(job, Apply(book, job)))
              /\ Numbers(g, Apply(book, job).book, Outputs(job, Apply(book, job)))
         /\ ~IsCommand(Head(todo)) =>
              /\ IsOutputs(todo) /\ IsOutputs(Tail(todo)) /\ (pc = "work" => todo # <<CommandRecord(job)>>)
              /\ Pending(book, Tail(todo)) /\ Numbers(g, book, Tail(todo))
  <1>1. /\ Sound(file) /\ IsSeq(file) /\ Distinct(file) /\ IsBook(book) /\ Pending(book, todo) /\ Numbers(file, book, todo)
    BY DEF HistoryInv, Sound, TradesTold, Shape
  <1>2. pc = "work" => job \in OrderRequests \cup Cancels /\ (todo = <<CommandRecord(job)>> \/ IsOutputs(todo))
    BY DEF HistoryInv, Shape
  <1>3. pc = "restore" => IsOutputs(todo)
    BY DEF HistoryInv, Shape
  <1>4. x.kind = Head(todo).kind /\ x.data = Head(todo).data /\ x.seq = journal_sequence + 1 /\ x.ok = ok
    BY DEF Stored
  <1>5. IsCommand(x) <=> IsCommand(Head(todo))
    BY <1>4 DEF IsCommand
  <1>6. IsOutputs(todo) => ~IsCommand(Head(todo)) /\ IsOutputs(Tail(todo)) /\ IsSeq(todo)
    BY RestOfOutputs DEF IsOutputs
  <1>7. todo = <<CommandRecord(job)>> => Head(todo) = CommandRecord(job) /\ IsCommand(Head(todo)) /\ Head(todo).data = job
    <2>1. IsCommand(CommandRecord(job)) /\ CommandRecord(job).data = job
      BY DEF CommandRecord, IsCommand
    <2>2. \A y : Head(<<y>>) = y
      OBVIOUS
    <2> QED
      BY <2>1, <2>2
  <1>8. IsCommand(x) => pc = "work" /\ todo = <<CommandRecord(job)>> /\ x.data = job /\ job \in OrderRequests \cup Cancels
    BY <1>2, <1>3, <1>4, <1>5, <1>6, <1>7
  <1>9. /\ Sound(g) /\ Len(file) \in Nat /\ Len(g) = Len(file) + 1 /\ g[Len(file) + 1] = x
        /\ \A i \in 1..Len(file) : g[i] = file[i]
    <2>1. Proper(x)
      BY <1>8 DEF Proper
    <2>2. PICK f : f = file /\ Sound(f) /\ g = Append(f, x)
      BY <1>1
    <2>3. Sound(g)
      BY <2>1, <2>2, SoundMore, Zenon
    <2>4. IsSeq(f)
      BY <2>2 DEF Sound
    <2>5. /\ Len(f) \in Nat /\ Len(g) = Len(f) + 1 /\ g[Len(f) + 1] = x
          /\ \A i \in 1..Len(f) : g[i] = f[i]
      BY <2>2, <2>4, OneMore
    <2> QED
      BY <2>2, <2>3, <2>5
  <1>10. \A rec : OnDisk(rec, file) => OnDisk(rec, g)
    <2>1. \A i \in 1..Len(file) : i \in 1..Len(g)
      BY <1>9
    <2> QED
      BY <1>9, <2>1 DEF OnDisk
  <1>11. OnDisk(x, g)
    <2>1. Len(file) + 1 \in 1..Len(g)
      BY <1>9
    <2> QED
      BY <1>9, <2>1 DEF OnDisk
  <1>12. CASE IsCommand(Head(todo))
    <2>1. PICK r : r = Apply(book, job)
      OBVIOUS
    <2>2. job \in OrderRequests \cup Cancels /\ IsCommand(x)
      BY <1>5, <1>8, <1>12
    <2>3. /\ Pending(r.book, Outputs(job, r)) /\ Numbers(g, r.book, Outputs(job, r))
          /\ Pending(book, <<>>) /\ Numbers(g, book, <<>>) /\ Distinct(g)
      BY <1>1, <2>1, <2>2, CommandNumbers
    <2>4. IsBook(r.book) /\ IsOutputs(Outputs(job, r))
      <3>1. CASE job \in Cancels
        BY <1>1, <2>1, <3>1, NewCancel, Kinds
      <3>2. CASE job \in OrderRequests
        <4>1. job.kind = "order" /\ r = BookSubmit(book, job.id) /\ Outputs(job, r) = r.events
          BY <2>1, <3>2, Kinds DEF Apply, Outputs
        <4>2. CASE job.id \in book.seen
          <5>1. r.book = book /\ r.events = <<>>
            BY <4>1, <4>2 DEF BookSubmit
          <5> QED
            BY <1>1, <4>1, <5>1, NoOutputs
        <4>3. CASE job.id \notin book.seen
          BY <1>1, <4>1, <4>3, NewOrder
        <4> QED
          BY <4>2, <4>3
      <3> QED
        BY <2>2, <3>1, <3>2
    <2> QED
      BY <1>4, <1>5, <1>7, <1>8, <1>9, <1>10, <1>11, <1>12, <2>1, <2>3, <2>4
  <1>13. CASE ~IsCommand(Head(todo))
    <2>1. IsOutputs(todo) /\ IsOutputs(Tail(todo)) /\ IsSeq(todo) /\ todo # <<CommandRecord(job)>>
      BY <1>2, <1>3, <1>6, <1>7, <1>13
    <2>2. /\ Pending(book, Tail(todo)) /\ Numbers(g, book, Tail(todo))
          /\ Pending(book, <<>>) /\ Numbers(g, book, <<>>) /\ Distinct(g)
      BY <1>1, <1>4, <2>1, OutputNumbers
    <2> QED
      BY <1>4, <1>9, <1>10, <1>11, <1>13, <2>1, <2>2
  <1> QED
    BY <1>12, <1>13

\* Nothing that the worker knows is lost in what the file restores to.
Covers(q) ==
  /\ order_replies \subseteq q.orders /\ OfCancels(control_replies) \subseteq q.controls
  /\ Kept(answers, q.orders, q.controls)

\* If restore() takes the file with the record, the worker was in step, and the record takes both one step on.
LEMMA WriteRestores ==
  ASSUME HistoryInv, pc \in {"work", "restore"}, todo # <<>>, NEW ok, NEW x, x = Stored(Head(todo), ok),
         NEW g, g = Append(file, x), Restorable(g), NEW q, q = RestoreFrom(g)
  PROVE  /\ journal_sequence = Len(file) /\ Covers(q)
         /\ IsCommand(Head(todo)) =>
              /\ q.book = Apply(book, job).book /\ q.expect = Outputs(job, Apply(book, job)) /\ q.expect # <<>>
              /\ job.kind = "order" => /\ Apply(book, job).events # <<>>
                                       /\ <<job.id, OrderReply(Apply(book, job).events)>> \in q.orders
              /\ job.kind = "cancel" => <<job.id, CancelAck(job, Apply(book, job)).data>> \in q.controls
         /\ ~IsCommand(Head(todo)) =>
              /\ q.book = book /\ q.expect = Tail(todo)
              /\ pc = "work" /\ reply # NoReply => /\ job.kind = "order" => <<job.id, reply>> \in q.orders
                                                   /\ job.kind = "cancel" => <<job.id, reply>> \in q.controls
  <1>1. PICK a, k, r : a = RestoreFrom(file) /\ k = Head(todo) /\ r = Apply(book, job)
    OBVIOUS
  <1>2. /\ x.kind = k.kind /\ x.data = k.data /\ x.seq = journal_sequence + 1
        /\ IsCommand(k) => pc = "work" /\ todo = <<CommandRecord(job)>> /\ x.data = job
        /\ ~IsCommand(k) => IsOutputs(todo) /\ (pc = "work" => todo # <<CommandRecord(job)>>)
    BY <1>1, WriteFacts
  <1>3. pc = "work" => job \in OrderRequests \cup Cancels /\ ~Known(job)
    BY DEF HistoryInv, Shape
  <1>4. Sound(file) /\ journal_sequence \in Nat
    BY DEF HistoryInv, Shape
  <1>5. IsCommand(x) <=> IsCommand(k)
    BY <1>2 DEF IsCommand
  <1>6. recover(g) /\ q.ok
    BY DEF Restorable
  <1>7. recover(file) /\ x.seq = Len(file) + 1 /\ Len(file) \in Nat /\ a.ok /\ Turn(a, x, q)
    <2>1. Proper(x)
      BY <1>2, <1>3, <1>5 DEF Proper
    <2> QED
      BY <1>1, <1>4, <1>6, <2>1, SoundAppend
  <1>8. journal_sequence = Len(file) /\ Restorable(file)
    BY <1>1, <1>2, <1>4, <1>7 DEF Restorable
  <1>9. Good(a, file)
    BY <1>1, <1>4, <1>7 DEF Sound
  <1>10. IsOutputs(a.expect) /\ IsTable(a.orders) /\ IsTable(a.controls) /\ OneEach(a.orders) /\ OneEach(a.controls)
         /\ Ids(a.orders) \subseteq a.book.seen
    BY <1>9 DEF Good
  <1>11. pc # "down"
    OBVIOUS
  <1>12. /\ order_replies \subseteq a.orders /\ OfCancels(control_replies) \subseteq a.controls
         /\ Kept(answers, a.orders, a.controls) /\ (InStep(a) \/ Ahead(a))
         /\ Kept(answers, order_replies, OfCancels(control_replies))
    BY <1>1, <1>8, <1>11 DEF HistoryInv, AnswersTold
  <1>13. CASE ~IsCommand(k)
    <2>1. InStep(a)
      BY <1>2, <1>12, <1>13 DEF Ahead
    <2>2. a.expect = todo /\ a.book = book
      BY <1>2, <1>13, <2>1 DEF InStep
    <2>3. OutStep(a, x, q)
      BY <1>5, <1>7, <1>13 DEF Turn, ComStep
    <2>4. q.book = book /\ q.expect = Tail(todo) /\ q.orders = a.orders /\ q.controls = a.controls
      BY <2>2, <2>3 DEF OutStep
    <2>5. pc = "work" /\ reply # NoReply => /\ job.kind = "order" => <<job.id, reply>> \in q.orders
                                            /\ job.kind = "cancel" => <<job.id, reply>> \in q.controls
      BY <1>2, <1>13, <2>1, <2>4 DEF InStep
    <2> QED
      BY <1>1, <1>8, <1>12, <1>13, <2>4, <2>5 DEF Covers
  <1>14. CASE IsCommand(k)
    <2>1. ~OutStep(a, x, q)
      <3>1. ASSUME OutStep(a, x, q) PROVE FALSE
        <4>1. a.expect # <<>> /\ x.kind = Head(a.expect).kind
          BY <3>1 DEF OutStep
        <4>2. ~IsCommand(Head(a.expect))
          BY <1>10, <4>1, RestOfOutputs
        <4> QED
          BY <1>5, <1>14, <4>1, <4>2 DEF IsCommand
      <3> QED
        BY <3>1
    <2>2. ComStep(a, x, Apply(a.book, x.data), q)
      BY <1>7, <2>1 DEF Turn
    <2>3. a.expect = <<>>
      BY <2>2 DEF ComStep
    <2>4. InStep(a)
      BY <1>8, <1>12, <2>3 DEF Ahead
    <2>5. a.book = book /\ x.data = job /\ pc = "work" /\ job \in OrderRequests \cup Cancels /\ ~Known(job)
      BY <1>2, <1>3, <1>14, <2>4 DEF InStep
    <2>6. /\ (job.kind = "order" => r.events # <<>>) /\ q.book = r.book /\ q.expect = Outputs(job, r)
          /\ q.orders = RestoredOrder(a, job, r) /\ q.controls = RestoredControl(a, job, r)
      BY <1>1, <2>2, <2>5 DEF ComStep
    <2>7. CASE job \in OrderRequests
      <3>1. job.kind = "order" /\ r = BookSubmit(book, job.id) /\ Outputs(job, r) = r.events /\ r.events # <<>>
        BY <1>1, <2>6, <2>7, Kinds DEF Apply, Outputs
      <3>2. job.id \notin book.seen
        BY <3>1 DEF BookSubmit
      <3>3. PICK v, i, o : v = OrderReply(r.events) /\ i = job.id /\ o = Put(a.orders, i, v)
        OBVIOUS
      <3>4. q.orders = o /\ q.controls = a.controls
        BY <2>6, <3>1, <3>3 DEF RestoredOrder, RestoredControl
      <3>5. <<i, v>> \in o /\ \A y \in a.orders : y[1] # i => y \in o
        BY <1>10, <3>3, PutFacts
      <3>6. \A y \in a.orders : y[1] # i
        BY <1>10, <2>5, <3>2, <3>3 DEF Ids
      <3>7. a.orders \subseteq o
        BY <3>5, <3>6
      <3>8. Kept(answers, q.orders, q.controls)
        BY <1>12, <3>4, <3>7, KeptMore
      <3> QED
        BY <1>1, <1>8, <1>12, <1>14, <2>6, <3>1, <3>3, <3>4, <3>5, <3>7, <3>8 DEF Covers
    <2>8. CASE job \in Cancels
      <3>1. job.kind = "cancel"
        BY <2>8, Kinds
      <3>2. PICK v, i, c : v = CancelAck(job, r).data /\ i = job.id /\ c = Put(a.controls, i, v)
        OBVIOUS
      <3>3. q.orders = a.orders /\ q.controls = c
        BY <2>6, <3>1, <3>2 DEF RestoredOrder, RestoredControl
      <3>4. <<i, v>> \in c /\ \A y \in a.controls : y[1] # i => y \in c
        BY <1>10, <3>2, PutFacts
      <3>5. \A y \in control_replies : y[1] # i
        BY <2>5, <3>1, <3>2 DEF Known, Replies
      <3>6. OfCancels(control_replies) \subseteq c
        BY <1>12, <3>4, <3>5 DEF OfCancels
      <3>7. Kept(answers, q.orders, q.controls)
        BY <1>12, <3>3, <3>6, KeptMore
      <3>8. q.expect # <<>>
        <4>1. q.expect = Append(r.events, CancelAck(job, r))
          BY <2>6, <3>1 DEF Outputs
        <4>2. IsOutputs(Outputs(job, r))
          BY <1>1, WriteFacts, <1>14
        <4>3. r.events = <<>> \/ \E y, z : r.events = <<y, z>>
          <5>1. r = BookCancel(book, job.order)
            BY <1>1, <3>1 DEF Apply
          <5> QED
            BY <5>1 DEF BookCancel
        <4> QED
          BY <4>1, <4>3
      <3> QED
        BY <1>1, <1>8, <1>12, <1>14, <2>6, <3>1, <3>2, <3>3, <3>4, <3>6, <3>7, <3>8 DEF Covers
    <2> QED
      BY <2>5, <2>7, <2>8
  <1> QED
    BY <1>1, <1>13, <1>14

\* It holds at the start.
LEMMA HistoryInit == ASSUME Init PROVE HistoryInv
  <1>1. file = <<>> /\ records = <<>> /\ pc = "down" /\ published = {} /\ answers = {}
    BY DEF Init
  <1>2. PICK a, b : a = RestoreFrom(<<>>) /\ b = EmptyBook
    OBVIOUS
  <1>3. a = [ok |-> TRUE, book |-> b, expect |-> <<>>, orders |-> {}, controls |-> {}]
    BY <1>2, RestoreEmpty DEF Start
  <1>4. a.book = b /\ a.expect = <<>> /\ a.orders = {} /\ a.controls = {} /\ IsState(a)
    BY <1>3 DEF IsState
  <1>5. IsBook(b) /\ b.trades = 0
    BY <1>2, BookFields DEF EmptyBook
  <1>6. IsSeq(<<>>) /\ IsOutputs(<<>>) /\ Len(<<>>) = 0 /\ 1..0 = {}
    BY NoOutputs DEF IsOutputs
  <1>7. Pending(b, <<>>) /\ Numbers(<<>>, b, <<>>)
    BY <1>5, <1>6 DEF Pending, Numbers
  <1>8. IsTable({}) /\ OneEach({}) /\ Ids({}) = {}
    BY DEF IsTable, OneEach, Ids
  <1>9. Good(a, <<>>)
    BY <1>4, <1>5, <1>6, <1>7, <1>8 DEF Good
  <1>10. Sound(<<>>)
    BY <1>2, <1>4, <1>6, <1>9 DEF Sound
  <1>11. TradesTold
    BY <1>1, <1>6 DEF TradesTold, Distinct
  <1>12. Shape
    BY <1>1, <1>6 DEF Shape
  <1>13. AnswersTold
    BY <1>1 DEF AnswersTold, ReplyStable, Kept
  <1> QED
    BY <1>1, <1>10, <1>11, <1>12, <1>13 DEF HistoryInv

\* A step that changes nothing.
LEMMA HistoryStutter == ASSUME HistoryInv, UNCHANGED vars PROVE HistoryInv'
  <1>1. UNCHANGED <<file, records, journal_sequence, book, order_replies, control_replies, pc, job, todo, reply, published, answers>>
    BY DEF vars, disk, volatile, observed
  <1>2. Sound(file)' /\ TradesTold'
    BY <1>1 DEF HistoryInv, TradesTold
  <1>3. Shape'
    BY <1>1 DEF HistoryInv, Shape, Known, Replies
  <1>4. AnswersTold'
    BY <1>1 DEF HistoryInv, AnswersTold, ReplyStable, InStep, Ahead
  <1> QED
    BY <1>2, <1>3, <1>4 DEF HistoryInv

\* The answers to cancels are among the replies to cancels.
LEMMA KeptCancels ==
  ASSUME NEW ans, NEW o, NEW c, Kept(ans, o, c), \A x \in ans : x[1] \in Requests
  PROVE  Kept(ans, o, OfCancels(c))
  <1>1. ASSUME NEW x \in ans, x[1].kind = "cancel" PROVE <<x[1].id, x[2]>> \in OfCancels(c)
    <2>1. PICK k, v, p : k = x[1] /\ v = x[2] /\ p = <<k.id, v>>
      OBVIOUS
    <2>2. k \in Cancels /\ p \in c
      BY <1>1, <2>1, Kinds DEF Kept
    <2>3. p[1] = k.id
      BY <2>1
    <2> QED
      BY <2>1, <2>2, <2>3 DEF OfCancels
  <1> QED
    BY <1>1 DEF Kept

\* A restart takes over what the file says.
LEMMA RestartTells == ASSUME HistoryInv, Restart PROVE HistoryInv'
  <1>1. PICK f, a : f = file /\ a = RestoreFrom(f)
    OBVIOUS
  <1>2. Sound(f) /\ Restorable(f) /\ a.ok
    BY <1>1 DEF HistoryInv, Restart, Restorable
  <1>3. Good(a, f) /\ IsSeq(f)
    BY <1>1, <1>2 DEF Sound
  <1>4. /\ file' = f /\ records' = f /\ journal_sequence' = Len(f) /\ book' = a.book /\ order_replies' = a.orders
        /\ control_replies' = a.controls /\ todo' = a.expect /\ pc' = "restore"
        /\ published' = published /\ answers' = answers
    BY <1>1 DEF Restart, observed
  <1>5. Len(f) \in Nat
    BY <1>3 DEF IsSeq
  <1>6. TradesTold'
    <2>1. \A i \in 1..Len(f) : OnDisk(f[i], f)
      BY DEF OnDisk
    <2> QED
      BY <1>1, <1>4, <2>1 DEF HistoryInv, TradesTold
  <1>7. Shape'
    BY <1>3, <1>4, <1>5 DEF Shape, Good
  <1>8. AnswersTold'
    <2>1. ReplyStable' /\ \A x \in answers : x[1] \in Requests
      BY <1>4 DEF HistoryInv, AnswersTold, ReplyStable
    <2>2. Kept(answers, a.orders, a.controls)
      BY <1>1, <1>2 DEF HistoryInv, AnswersTold
    <2>3. Kept(answers, a.orders, OfCancels(a.controls))
      BY <2>1, <2>2, KeptCancels
    <2>4. OfCancels(a.controls) \subseteq a.controls
      BY DEF OfCancels
    <2>5. InStep(a)'
      BY <1>4 DEF InStep
    <2> QED
      BY <1>1, <1>4, <2>1, <2>2, <2>3, <2>4, <2>5 DEF AnswersTold
  <1> QED
    BY <1>1, <1>2, <1>4, <1>6, <1>7, <1>8 DEF HistoryInv

\* The worker has written what the last command lacked.
LEMMA RestoreDoneTells == ASSUME HistoryInv, RestoreDone PROVE HistoryInv'
  <1>1. /\ UNCHANGED <<file, records, journal_sequence, book, order_replies, control_replies, job, todo, reply, published, answers>>
        /\ pc = "restore" /\ todo = <<>> /\ pc' = "idle"
    BY DEF RestoreDone, observed
  <1>2. Sound(file)' /\ TradesTold'
    BY <1>1 DEF HistoryInv, TradesTold
  <1>3. Shape'
    BY <1>1 DEF HistoryInv, Shape
  <1>4. AnswersTold'
    BY <1>1 DEF HistoryInv, AnswersTold, ReplyStable, InStep, Ahead
  <1> QED
    BY <1>2, <1>3, <1>4 DEF HistoryInv

\* A command is accepted.
LEMMA AcceptTells == ASSUME HistoryInv, NEW k \in Requests, Accept(k) PROVE HistoryInv'
  <1>1. /\ UNCHANGED <<file, records, journal_sequence, book, order_replies, control_replies, reply, published, answers>>
        /\ pc = "idle" /\ todo = <<>> /\ pc' = "work" /\ job' = k /\ todo' = <<CommandRecord(k)>> /\ ~Known(k)
        /\ k.kind \in {"order", "cancel"}
    BY DEF HistoryInv, Shape, Accept, observed
  <1>2. k \in OrderRequests \cup Cancels
    BY <1>1, Kinds
  <1>3. Sound(file)' /\ TradesTold'
    BY <1>1 DEF HistoryInv, TradesTold
  <1>4. PICK x : x = CommandRecord(k)
    OBVIOUS
  <1>5. ~IsTrade(x)
    BY <1>4 DEF CommandRecord, IsTrade
  <1>6. Len(<<x>>) = 1 /\ <<x>>[1] = x /\ 1..1 = {1}
    OBVIOUS
  <1>7. IsBook(book) /\ Pending(book, <<>>) /\ Numbers(file, book, <<>>)
    BY <1>1 DEF HistoryInv, Shape
  <1>8. Pending(book, <<x>>) /\ Numbers(file, book, <<x>>)
    BY <1>5, <1>6, <1>7 DEF Pending, Numbers
  <1>9. (~Known(job))'
    BY <1>1 DEF Known, Replies
  <1>10. Shape'
    BY <1>1, <1>2, <1>4, <1>7, <1>8, <1>9 DEF HistoryInv, Shape
  <1>11. AnswersTold'
    BY <1>1 DEF HistoryInv, AnswersTold, ReplyStable, InStep, Ahead
  <1> QED
    BY <1>3, <1>10, <1>11 DEF HistoryInv

\* The book had taken the order before.
LEMMA NoResponseTells == ASSUME HistoryInv, NoResponse PROVE HistoryInv'
  <1>1. /\ UNCHANGED <<file, records, journal_sequence, book, order_replies, control_replies, todo, reply, published, answers>>
        /\ pc = "work" /\ todo = <<>> /\ pc' = "idle"
    BY DEF NoResponse, observed
  <1>2. Sound(file)' /\ TradesTold'
    BY <1>1 DEF HistoryInv, TradesTold
  <1>3. Shape'
    BY <1>1 DEF HistoryInv, Shape
  <1>4. AnswersTold'
    BY <1>1 DEF HistoryInv, AnswersTold, ReplyStable, InStep, Ahead
  <1> QED
    BY <1>2, <1>3, <1>4 DEF HistoryInv

\* A command has one answer.
Stable(ans) == \A x, y \in ans : x[1] = y[1] /\ x[1].kind \in {"order", "cancel"} => x[2] = y[2]

\* An answer that the replies hold may be given.
LEMMA AnswerHeld ==
  ASSUME NEW ans, \A x \in ans : x[1] \in Requests, Stable(ans), NEW o, NEW c, Kept(ans, o, c), OneEach(o), OneEach(c),
         NEW k \in Requests, NEW v, k.kind = "order" => <<k.id, v>> \in o, k.kind = "cancel" => <<k.id, v>> \in c,
         NEW m, m = ans \cup {<<k, v>>}
  PROVE  Stable(m) /\ Kept(m, o, c) /\ \A x \in m : x[1] \in Requests
  <1>1. PICK p : p = <<k, v>> /\ p[1] = k /\ p[2] = v
    <2>1. <<k, v>>[1] = k /\ <<k, v>>[2] = v
      OBVIOUS
    <2> QED
      BY <2>1
  <1>2. \A x : x \in m <=> x \in ans \/ x = p
    BY <1>1
  <1>3. Kept(m, o, c) /\ \A x \in m : x[1] \in Requests
    BY <1>1, <1>2 DEF Kept
  <1>4. ASSUME NEW x \in m, NEW y \in m, x[1] = y[1], x[1].kind \in {"order", "cancel"} PROVE x[2] = y[2]
    <2>1. PICK i, u, w : i = x[1].id /\ u = x[2] /\ w = y[2]
      OBVIOUS
    <2>2. PICK s, t : s = <<i, u>> /\ t = <<i, w>> /\ s[1] = t[1] /\ s[2] = u /\ t[2] = w
      <3>1. <<i, u>>[1] = i /\ <<i, w>>[1] = i /\ <<i, u>>[2] = u /\ <<i, w>>[2] = w
        OBVIOUS
      <3> QED
        BY <3>1
    <2>3. (s \in o /\ t \in o) \/ (s \in c /\ t \in c)
      BY <1>3, <1>4, <2>1, <2>2 DEF Kept
    <2>4. s = t
      BY <2>2, <2>3 DEF OneEach
    <2> QED
      BY <2>1, <2>2, <2>4
  <1>5. Stable(m)
    BY <1>4 DEF Stable
  <1> QED
    BY <1>3, <1>5

\* A reply under a new id.
LEMMA OneReplyMore ==
  ASSUME NEW t, IsTable(t), OneEach(t), NEW i, NEW v, \A y \in t : y[1] # i, NEW u, u = t \cup {<<i, v>>}
  PROVE  IsTable(u) /\ OneEach(u)
  <1>1. PICK p : p = <<i, v>> /\ p[1] = i /\ p[2] = v
    <2>1. <<i, v>>[1] = i /\ <<i, v>>[2] = v
      OBVIOUS
    <2> QED
      BY <2>1
  <1>2. \A y : y \in u <=> y \in t \/ y = p
    BY <1>1
  <1> QED
    BY <1>1, <1>2 DEF IsTable, OneEach

\* A reply from the cache.
LEMMA AgainTells == ASSUME HistoryInv, NEW k \in Requests, AnswerAgain(k) PROVE HistoryInv'
  <1>1. /\ UNCHANGED <<file, records, journal_sequence, book, order_replies, control_replies, pc, job, todo, reply, published>>
        /\ pc = "idle"
    BY DEF AnswerAgain, disk, volatile
  <1>2. PICK x \in Replies(k) : x[1] = k.id /\ answers' = answers \cup {<<k, x[2]>>}
    BY DEF AnswerAgain
  <1>3. Sound(file)' /\ TradesTold'
    BY <1>1 DEF HistoryInv, TradesTold
  <1>4. Shape'
    BY <1>1 DEF HistoryInv, Shape
  <1>5. PICK m, o, c, v : /\ m = answers' /\ o = order_replies /\ c = OfCancels(control_replies) /\ v = x[2]
                          /\ m = answers \cup {<<k, v>>}
    BY <1>2
  <1>6. IsTable(o) /\ OneEach(o) /\ IsTable(c) /\ OneEach(c)
    BY <1>1, <1>5 DEF HistoryInv, Shape, OfCancels, IsTable, OneEach
  <1>7. Kept(answers, o, c) /\ Stable(answers) /\ \A y \in answers : y[1] \in Requests
    BY <1>1, <1>5 DEF HistoryInv, AnswersTold, ReplyStable, Stable
  <1>8. ASSUME k.kind = "order" PROVE <<k.id, v>> \in o
    <2>1. x \in o
      BY <1>2, <1>5, <1>8 DEF Replies
    <2> QED
      BY <1>2, <1>5, <1>6, <2>1 DEF IsTable
  <1>9. ASSUME k.kind = "cancel" PROVE <<k.id, v>> \in c
    <2>1. x \in control_replies /\ k \in Cancels
      BY <1>2, <1>9, Kinds DEF Replies
    <2>2. x \in c
      BY <1>2, <1>5, <2>1 DEF OfCancels
    <2> QED
      BY <1>2, <1>5, <1>6, <2>2 DEF IsTable
  <1>10. Stable(m) /\ Kept(m, o, c) /\ \A y \in m : y[1] \in Requests
    BY <1>5, <1>6, <1>7, <1>8, <1>9, AnswerHeld
  <1>11. AnswersTold'
    <2>1. PICK a : a = RestoreFrom(file)
      OBVIOUS
    <2>2. Restorable(file) => o \subseteq a.orders /\ c \subseteq a.controls /\ (InStep(a) \/ Ahead(a))
      BY <1>1, <1>5, <2>1 DEF HistoryInv, AnswersTold
    <2>3. Restorable(file) => Kept(m, a.orders, a.controls)
      BY <1>10, <2>2, KeptMore
    <2>4. (InStep(a) \/ Ahead(a)) => (InStep(a) \/ Ahead(a))'
      BY <1>1 DEF InStep, Ahead
    <2> QED
      BY <1>1, <1>5, <1>10, <2>1, <2>2, <2>3, <2>4 DEF AnswersTold, ReplyStable, Stable
  <1> QED
    BY <1>3, <1>4, <1>11 DEF HistoryInv

\* A finished command is answered with what the file holds, if restore() takes it.
LEMMA ReplyTells == ASSUME HistoryInv, Reply PROVE HistoryInv'
  <1>1. /\ UNCHANGED <<file, records, journal_sequence, book, todo, published>>
        /\ pc = "work" /\ todo = <<>> /\ reply # NoReply /\ pc' = "idle"
    BY DEF Reply
  <1>2. Sound(file)' /\ TradesTold'
    BY <1>1 DEF HistoryInv, TradesTold
  <1>3. job \in OrderRequests \cup Cancels /\ ~Known(job)
    BY <1>1 DEF HistoryInv, Shape
  <1>4. PICK k, i, v : k = job /\ i = k.id /\ v = reply
    OBVIOUS
  <1>5. PICK o, c, m, p, d : /\ o = order_replies /\ c = control_replies /\ m = answers' /\ p = order_replies' /\ d = control_replies'
                             /\ m = answers \cup {<<k, v>>}
    BY <1>4 DEF Reply
  <1>6. /\ k.kind = "order" => p = o \cup {<<i, v>>} /\ d = c
        /\ k.kind # "order" => d = c \cup {<<i, v>>} /\ p = o
    BY <1>4, <1>5 DEF Reply
  <1>7. IsTable(o) /\ OneEach(o) /\ IsTable(c) /\ OneEach(c)
    BY <1>1, <1>5 DEF HistoryInv, Shape
  <1>8. Kept(answers, o, OfCancels(c)) /\ Stable(answers) /\ \A y \in answers : y[1] \in Requests
    BY <1>1, <1>5 DEF HistoryInv, AnswersTold, ReplyStable, Stable
  <1>9. k \in Requests
    BY <1>3, <1>4 DEF Requests
  <1>10. PICK a : a = RestoreFrom(file)
    OBVIOUS
  <1>11. ~Ahead(a)
    BY <1>1 DEF Ahead
  <1>12. ASSUME Restorable(file)
         PROVE  /\ o \subseteq a.orders /\ OfCancels(c) \subseteq a.controls /\ InStep(a)
                /\ k.kind = "order" => <<i, v>> \in a.orders
                /\ k.kind = "cancel" => <<i, v>> \in a.controls
    <2>1. o \subseteq a.orders /\ OfCancels(c) \subseteq a.controls /\ InStep(a)
      BY <1>1, <1>5, <1>10, <1>11, <1>12 DEF HistoryInv, AnswersTold
    <2>2. todo # <<CommandRecord(job)>>
      BY <1>1
    <2> QED
      BY <1>1, <1>4, <2>1, <2>2 DEF InStep
  <1>13. /\ IsTable(p) /\ OneEach(p) /\ IsTable(d) /\ OneEach(d)
         /\ o \subseteq p /\ OfCancels(c) \subseteq OfCancels(d)
         /\ k.kind = "order" => <<i, v>> \in p
         /\ k.kind = "cancel" => <<i, v>> \in OfCancels(d)
         /\ Restorable(file) => p \subseteq a.orders /\ OfCancels(d) \subseteq a.controls
    <2>1. CASE k \in OrderRequests
      <3>1. k.kind = "order" /\ p = o \cup {<<i, v>>} /\ d = c
        BY <1>6, <2>1, Kinds
      <3>2. \A y \in o : y[1] # i
        BY <1>3, <1>4, <1>5, <3>1 DEF Known, Replies
      <3>3. IsTable(p) /\ OneEach(p)
        BY <1>7, <3>1, <3>2, OneReplyMore
      <3> QED
        BY <1>7, <1>12, <3>1, <3>3
    <2>2. CASE k \in Cancels
      <3>1. k.kind = "cancel" /\ d = c \cup {<<i, v>>} /\ p = o
        BY <1>6, <2>2, Kinds
      <3>2. \A y \in c : y[1] # i
        BY <1>3, <1>4, <1>5, <3>1 DEF Known, Replies
      <3>3. IsTable(d) /\ OneEach(d)
        BY <1>7, <3>1, <3>2, OneReplyMore
      <3>4. PICK q : q = <<i, v>> /\ q[1] = i
        <4>1. <<i, v>>[1] = i
          OBVIOUS
        <4> QED
          BY <4>1
      <3>5. OfCancels(d) = OfCancels(c) \cup {q}
        BY <1>4, <2>2, <3>1, <3>4 DEF OfCancels
      <3> QED
        BY <1>7, <1>12, <3>1, <3>3, <3>4, <3>5
    <2> QED
      BY <1>3, <1>4, <2>1, <2>2
  <1>14. OneEach(OfCancels(d))
    BY <1>13 DEF OneEach, OfCancels
  <1>15. Kept(answers, p, OfCancels(d))
    BY <1>8, <1>13, KeptMore
  <1>16. Stable(m) /\ Kept(m, p, OfCancels(d)) /\ \A y \in m : y[1] \in Requests
    <2>1. (k.kind = "order" => <<k.id, v>> \in p) /\ (k.kind = "cancel" => <<k.id, v>> \in OfCancels(d))
      BY <1>4, <1>13
    <2> QED
      BY <1>5, <1>8, <1>9, <1>13, <1>14, <1>15, <2>1, AnswerHeld
  <1>17. Restorable(file) => Kept(m, a.orders, a.controls)
    BY <1>13, <1>16, KeptMore
  <1>18. Shape'
    BY <1>1, <1>5, <1>13 DEF HistoryInv, Shape
  <1>19. InStep(a) => InStep(a)'
    BY <1>1 DEF InStep
  <1>20. AnswersTold'
    BY <1>1, <1>5, <1>10, <1>12, <1>13, <1>16, <1>17, <1>19 DEF AnswersTold, ReplyStable, Stable
  <1> QED
    BY <1>2, <1>18, <1>20 DEF HistoryInv

\* A replay tells trades of the journal again.
LEMMA ControlTells == ASSUME HistoryInv, NEW k \in Requests, AnswerControl(k) PROVE HistoryInv'
  <1>1. /\ UNCHANGED <<file, records, journal_sequence, book, order_replies, pc, job, todo, reply>>
        /\ pc = "idle" /\ k \in Controls /\ ~Known(k)
    BY DEF AnswerControl
  <1>2. PICK v : control_replies' = control_replies \cup {<<k.id, v>>} /\ answers' = answers \cup {<<k, v>>}
    BY DEF AnswerControl
  <1>3. PICK i, o, c, d, m : i = k.id /\ o = order_replies /\ c = control_replies /\ d = control_replies' /\ m = answers'
                             /\ d = c \cup {<<i, v>>} /\ m = answers \cup {<<k, v>>}
    BY <1>2
  <1>4. k.kind # "order" /\ k.kind # "cancel"
    BY <1>1, Kinds
  <1>5. IsTable(o) /\ OneEach(o) /\ IsTable(c) /\ OneEach(c)
    BY <1>1, <1>3 DEF HistoryInv, Shape
  <1>6. \A y \in c : y[1] # i
    BY <1>1, <1>3, <1>4 DEF Known, Replies
  <1>7. IsTable(d) /\ OneEach(d)
    BY <1>3, <1>5, <1>6, OneReplyMore
  <1>8. OfCancels(d) = OfCancels(c)
    <2>1. PICK q : q = <<i, v>> /\ q[1] = i
      <3>1. <<i, v>>[1] = i
        OBVIOUS
      <3> QED
        BY <3>1
    <2>2. \A x \in Cancels : x.id # i
      BY <1>1, <1>3, ControlsAssumption
    <2> QED
      BY <1>3, <2>1, <2>2 DEF OfCancels
  <1>9. Kept(answers, o, OfCancels(c)) /\ Stable(answers) /\ \A y \in answers : y[1] \in Requests
    BY <1>1, <1>3 DEF HistoryInv, AnswersTold, ReplyStable, Stable
  <1>10. OneEach(OfCancels(c))
    BY <1>5 DEF OneEach, OfCancels
  <1>11. Stable(m) /\ Kept(m, o, OfCancels(c)) /\ \A y \in m : y[1] \in Requests
    BY <1>3, <1>4, <1>5, <1>9, <1>10, AnswerHeld
  <1>12. AnswersTold'
    <2>1. PICK a : a = RestoreFrom(file)
      OBVIOUS
    <2>2. Restorable(file) => o \subseteq a.orders /\ OfCancels(c) \subseteq a.controls /\ (InStep(a) \/ Ahead(a))
      BY <1>1, <1>3, <2>1 DEF HistoryInv, AnswersTold
    <2>3. Restorable(file) => Kept(m, a.orders, a.controls)
      BY <1>11, <2>2, KeptMore
    <2>4. (InStep(a) \/ Ahead(a)) => (InStep(a) \/ Ahead(a))'
      BY <1>1 DEF InStep, Ahead
    <2> QED
      BY <1>1, <1>3, <1>8, <1>11, <2>1, <2>2, <2>3, <2>4 DEF AnswersTold, ReplyStable, Stable
  <1>13. Shape'
    BY <1>1, <1>3, <1>7 DEF HistoryInv, Shape
  <1>14. TradesTold'
    <2>1. ASSUME NEW p \in published' PROVE p = [kind |-> p.kind, data |-> p.data] /\ (IsTrade(p) => OnDisk(p, file))
      <3>1. CASE p \in published
        BY <3>1 DEF HistoryInv, TradesTold
      <3>2. CASE p = BookSnapshot(book.depth)
        BY <3>2 DEF BookSnapshot, IsTrade
      <3>3. ASSUME NEW x \in ReplayedTrades(k.from), p = [kind |-> x.kind, data |-> x.data]
            PROVE  p = [kind |-> p.kind, data |-> p.data] /\ OnDisk(p, file)
        <4>1. p.kind = x.kind /\ p.data = x.data
          BY <3>3
        <4>2. PICK j \in DOMAIN records : x = records[j]
          BY DEF ReplayedTrades
        <4>3. j \in 1..Len(records)
          BY <4>2 DEF HistoryInv, Shape, IsSeq
        <4>4. OnDisk(x, file)
          BY <4>2, <4>3 DEF HistoryInv, TradesTold
        <4> QED
          BY <3>3, <4>1, <4>4 DEF OnDisk
      <3> QED
        BY <2>1, <3>1, <3>2, <3>3 DEF AnswerControl
    <2> QED
      BY <1>1, <2>1 DEF HistoryInv, TradesTold
  <1> QED
    BY <1>1, <1>12, <1>13, <1>14 DEF HistoryInv

\* A record is written: file and worker move together, if they were in step.
LEMMA AppendTells == ASSUME HistoryInv, AppendRecord PROVE HistoryInv'
  <1>1. pc \in {"work", "restore"} /\ todo # <<>>
    BY DEF AppendRecord
  <1>2. PICK k, r : k = Head(todo) /\ r = Apply(book, job)
    OBVIOUS
  <1>3. PICK x : x = Stored(k, TRUE)
    OBVIOUS
  <1>4. PICK g : g = Append(file, x)
    OBVIOUS
  <1>5. /\ UNCHANGED <<order_replies, control_replies, pc, job, answers>>
        /\ file' = g /\ journal_sequence' = journal_sequence + 1 /\ records' = Append(records, x)
        /\ published' = published \cup Publishable(k)
    BY <1>2, <1>3, <1>4 DEF AppendRecord
  <1>6. x = Stored(Head(todo), TRUE)
    BY <1>2, <1>3
  <1>7. /\ Sound(g) /\ Distinct(g)
        /\ \A rec : OnDisk(rec, file) => OnDisk(rec, g)
        /\ OnDisk(x, g) /\ x.kind = k.kind /\ x.data = k.data
        /\ Len(g) = Len(file) + 1 /\ Len(file) \in Nat
        /\ IsCommand(k) =>
             /\ pc = "work" /\ IsBook(r.book) /\ IsOutputs(Outputs(job, r))
             /\ Pending(r.book, Outputs(job, r)) /\ Numbers(g, r.book, Outputs(job, r))
        /\ ~IsCommand(k) =>
             /\ IsOutputs(Tail(todo)) /\ Pending(book, Tail(todo)) /\ Numbers(g, book, Tail(todo))
    BY <1>1, <1>2, <1>4, <1>6, WriteFacts
  <1>8. TradesTold'
    <2>1. ASSUME NEW p \in published' PROVE p = [kind |-> p.kind, data |-> p.data] /\ (IsTrade(p) => OnDisk(p, g))
      <3>1. CASE p \in published
        BY <1>7, <3>1 DEF HistoryInv, TradesTold
      <3>2. CASE p = [kind |-> k.kind, data |-> k.data]
        <4>1. p.kind = x.kind /\ p.data = x.data
          BY <1>7, <3>2
        <4> QED
          BY <1>7, <3>2, <4>1 DEF OnDisk
      <3> QED
        BY <1>5, <2>1, <3>1, <3>2 DEF Publishable
    <2>2. PICK s, t : s = records /\ t = Append(s, x)
      OBVIOUS
    <2>3. IsSeq(s)
      BY <2>2 DEF HistoryInv, Shape
    <2>4. Len(s) \in Nat /\ Len(t) = Len(s) + 1 /\ t[Len(s) + 1] = x /\ \A i \in 1..Len(s) : t[i] = s[i]
      BY <2>2, <2>3, OneMore
    <2>5. \A i \in 1..Len(s) : OnDisk(s[i], g)
      BY <1>7, <2>2 DEF HistoryInv, TradesTold
    <2>6. \A i \in 1..Len(t) : i \in 1..Len(s) \/ i = Len(s) + 1
      BY <2>4
    <2>7. \A i \in 1..Len(t) : OnDisk(t[i], g)
      BY <1>7, <2>4, <2>5, <2>6
    <2> QED
      BY <1>5, <1>7, <2>1, <2>2, <2>7 DEF TradesTold
  <1>9. IsCommand(k) => book' = r.book /\ todo' = Outputs(job, r)
    BY <1>2 DEF AppendRecord
  <1>10. ~IsCommand(k) => book' = book /\ todo' = Tail(todo) /\ reply' = reply
    BY <1>2 DEF AppendRecord
  <1>11. IsSeq(records')
    BY <1>5, OneMore DEF HistoryInv, Shape
  <1>12. IsBook(book') /\ Pending(book', todo') /\ Numbers(g, book', todo') /\ IsOutputs(todo')
    <2>1. IsBook(book)
      BY <1>1 DEF HistoryInv, Shape
    <2>2. CASE IsCommand(k)
      BY <1>7, <1>9, <2>2
    <2>3. CASE ~IsCommand(k)
      BY <1>7, <1>10, <2>1, <2>3
    <2> QED
      BY <2>2, <2>3
  <1>13. Shape'
    <2>1. pc = "work" => job \in OrderRequests \cup Cancels /\ (~Known(job))'
      BY <1>5 DEF HistoryInv, Shape, Known, Replies
    <2>2. journal_sequence' \in Nat /\ journal_sequence' >= Len(g)
      BY <1>1, <1>5, <1>7 DEF HistoryInv, Shape
    <2>3. /\ IsTable(order_replies) /\ IsTable(control_replies)
          /\ OneEach(order_replies) /\ OneEach(control_replies)
      BY <1>1 DEF HistoryInv, Shape
    <2> QED
      BY <1>1, <1>5, <1>11, <1>12, <2>1, <2>2, <2>3 DEF Shape
  <1>14. AnswersTold'
    <2>1. PICK q : q = RestoreFrom(g)
      OBVIOUS
    <2>2. /\ ReplyStable' /\ (\A y \in answers : y[1] \in Requests)
          /\ Kept(answers, order_replies, OfCancels(control_replies))
      BY <1>1, <1>5 DEF HistoryInv, AnswersTold, ReplyStable
    <2>3. ASSUME Restorable(g) PROVE Covers(q) /\ InStep(q)'
      <3>1. /\ journal_sequence = Len(file) /\ Covers(q)
            /\ IsCommand(k) =>
                 /\ q.book = r.book /\ q.expect = Outputs(job, r)
                 /\ job.kind = "order" => r.events # <<>> /\ <<job.id, OrderReply(r.events)>> \in q.orders
                 /\ job.kind = "cancel" => <<job.id, CancelAck(job, r).data>> \in q.controls
            /\ ~IsCommand(k) =>
                 /\ q.book = book /\ q.expect = Tail(todo)
                 /\ pc = "work" /\ reply # NoReply => /\ job.kind = "order" => <<job.id, reply>> \in q.orders
                                                      /\ job.kind = "cancel" => <<job.id, reply>> \in q.controls
        BY <1>1, <1>2, <1>4, <1>6, <2>1, <2>3, WriteRestores
      <3>2. journal_sequence' = Len(g)
        BY <1>5, <1>7, <3>1
      <3>3. CASE IsCommand(k)
        <4>1. /\ job.kind = "order" => reply' = OrderReply(r.events)
              /\ job.kind = "cancel" => reply' = CancelAck(job, r).data
          BY <1>2, <3>1, <3>3 DEF AppendRecord
        <4> QED
          BY <1>5, <1>9, <3>1, <3>2, <3>3, <4>1 DEF InStep
      <3>4. CASE ~IsCommand(k)
        BY <1>5, <1>10, <3>1, <3>2, <3>4 DEF InStep
      <3> QED
        BY <3>1, <3>3, <3>4
    <2> QED
      BY <1>5, <2>1, <2>2, <2>3 DEF AnswersTold, Covers
  <1> QED
    BY <1>5, <1>7, <1>8, <1>13, <1>14 DEF HistoryInv

\* What a write that does not end may leave in the file: nothing that was told is lost, and if restore() takes it
\* the worker has done what it says, or is ahead of it.
Remains(h) ==
  /\ Sound(h) /\ Distinct(h) /\ Pending(book, <<>>) /\ Numbers(h, book, <<>>)
  /\ \A rec : OnDisk(rec, file) => OnDisk(rec, h)
  /\ journal_sequence + 1 >= Len(h)
  /\ Restorable(h) =>
       /\ Covers(RestoreFrom(h))
       /\ \/ journal_sequence + 1 # Len(h) \/ RestoreFrom(h).expect # <<>> \/ RestoreFrom(h).book = book

\* It is so of every file that a write may leave.
LEMMA LeftInFile ==
  ASSUME HistoryInv, pc \in {"work", "restore"}, todo # <<>>, NEW h, h \in Unfinished
  PROVE  Remains(h)
  <1>1. journal_sequence \in Nat /\ journal_sequence >= Len(file)
    BY DEF HistoryInv, Shape
  <1>2. Sound(file) /\ Distinct(file) /\ Pending(book, todo) /\ Numbers(file, book, todo) /\ IsSeq(file)
    BY DEF HistoryInv, TradesTold, Shape, Sound
  <1>3. CASE h = file
    <2>1. Len(<<>>) = 0 /\ 1..0 = {} /\ Len(h) \in Nat
      BY <1>2, <1>3 DEF IsSeq
    <2>2. Pending(book, <<>>) /\ Numbers(h, book, <<>>)
      BY <1>2, <1>3, <2>1 DEF Pending, Numbers
    <2>3. journal_sequence + 1 >= Len(h) /\ journal_sequence + 1 # Len(h)
      BY <1>1, <1>3, <2>1
    <2>4. Restorable(h) => Covers(RestoreFrom(h))
      BY <1>3 DEF HistoryInv, AnswersTold, Covers
    <2> QED
      BY <1>2, <1>3, <2>2, <2>3, <2>4 DEF Remains
  <1>4. ASSUME NEW ok, h = Append(file, Stored(Head(todo), ok)) PROVE Remains(h)
    <2>1. PICK x : x = Stored(Head(todo), ok)
      OBVIOUS
    <2>2. h = Append(file, x)
      BY <1>4, <2>1
    <2>3. /\ Sound(h) /\ Distinct(h) /\ Pending(book, <<>>) /\ Numbers(h, book, <<>>)
          /\ \A rec : OnDisk(rec, file) => OnDisk(rec, h)
          /\ Len(h) = Len(file) + 1 /\ Len(file) \in Nat
      BY <2>1, <2>2, WriteFacts
    <2>4. journal_sequence + 1 >= Len(h)
      BY <1>1, <2>3
    <2>5. PICK q : q = RestoreFrom(h)
      OBVIOUS
    <2>6. ASSUME Restorable(h) PROVE Covers(q) /\ (q.expect # <<>> \/ q.book = book)
      BY <2>1, <2>2, <2>5, <2>6, WriteRestores
    <2> QED
      BY <2>3, <2>4, <2>5, <2>6 DEF Remains
  <1> QED
    BY <1>3, <1>4 DEF Unfinished

\* What was told is still in the file.
LEMMA TradesStay ==
  ASSUME TradesTold, NEW h, h = file', Distinct(h), \A rec : OnDisk(rec, file) => OnDisk(rec, h),
         published' = published, records' = records \/ records' = <<>>
  PROVE  TradesTold'
  <1>1. \A p \in published : p = [kind |-> p.kind, data |-> p.data] /\ (IsTrade(p) => OnDisk(p, h))
    BY DEF TradesTold
  <1>2. \A i \in 1..Len(records') : OnDisk(records'[i], h)
    <2>1. Len(<<>>) = 0 /\ 1..0 = {}
      OBVIOUS
    <2> QED
      BY <2>1 DEF TradesTold
  <1> QED
    BY <1>1, <1>2 DEF TradesTold

\* The worker goes on after a write that failed.
LEMMA ErrorTells == ASSUME HistoryInv, AppendError PROVE HistoryInv'
  <1>1. /\ UNCHANGED <<records, book, order_replies, control_replies, published, answers>>
        /\ pc \in {"work", "restore"} /\ todo # <<>> /\ journal_sequence' = journal_sequence + 1
        /\ pc' \in {"idle", "down"} /\ todo' = <<>> /\ file' \in Unfinished
    BY DEF AppendError, observed
  <1>2. PICK h : h = file'
    OBVIOUS
  <1>3. Remains(h)
    BY <1>1, <1>2, LeftInFile
  <1>4. TradesTold'
    <2>1. TradesTold /\ Distinct(h) /\ \A rec : OnDisk(rec, file) => OnDisk(rec, h)
      BY <1>3 DEF Remains, HistoryInv
    <2> QED
      BY <1>1, <1>2, <2>1, TradesStay
  <1>5. Shape'
    <2>1. journal_sequence' \in Nat /\ journal_sequence' >= Len(h) /\ Pending(book, <<>>) /\ Numbers(h, book, <<>>)
      BY <1>1, <1>3 DEF HistoryInv, Shape, Remains
    <2>2. /\ IsSeq(records) /\ IsBook(book) /\ IsTable(order_replies) /\ IsTable(control_replies)
          /\ OneEach(order_replies) /\ OneEach(control_replies)
      BY <1>1 DEF HistoryInv, Shape
    <2> QED
      BY <1>1, <1>2, <2>1, <2>2 DEF Shape
  <1>6. AnswersTold'
    <2>1. PICK q : q = RestoreFrom(h)
      OBVIOUS
    <2>2. /\ ReplyStable' /\ (\A y \in answers : y[1] \in Requests)
          /\ Kept(answers, order_replies, OfCancels(control_replies))
      BY <1>1 DEF HistoryInv, AnswersTold, ReplyStable
    <2>3. Restorable(h) => Covers(q) /\ (journal_sequence + 1 # Len(h) \/ q.expect # <<>> \/ q.book = book)
      BY <1>3, <2>1 DEF Remains
    <2>4. Restorable(h) /\ pc' # "down" => (InStep(q) \/ Ahead(q))'
      BY <1>1, <1>2, <2>3 DEF InStep, Ahead
    <2> QED
      BY <1>1, <1>2, <2>1, <2>2, <2>3, <2>4 DEF AnswersTold, Covers
  <1> QED
    BY <1>2, <1>3, <1>4, <1>5, <1>6 DEF HistoryInv, Remains

\* The file is what a crash leaves.
LEMMA CrashTells == ASSUME HistoryInv, Crash PROVE HistoryInv'
  <1>1. /\ UNCHANGED <<published, answers>>
        /\ pc # "down" /\ pc' = "down" /\ records' = <<>> /\ file' \in CrashFiles
    BY DEF Crash, observed
  <1>2. PICK h : h = file'
    OBVIOUS
  <1>3. /\ Sound(h) /\ Distinct(h) /\ (\A rec : OnDisk(rec, file) => OnDisk(rec, h))
        /\ Restorable(h) => Kept(answers, RestoreFrom(h).orders, RestoreFrom(h).controls)
    <2>1. CASE todo = <<>>
      <3>1. h = file
        BY <1>1, <1>2, <2>1 DEF CrashFiles
      <3> QED
        BY <3>1 DEF HistoryInv, TradesTold, AnswersTold
    <2>2. CASE todo # <<>>
      <3>1. pc \in {"work", "restore"}
        BY <1>1, <2>2 DEF HistoryInv, Shape
      <3>2. h \in Unfinished
        BY <1>1, <1>2, <2>2 DEF CrashFiles
      <3>3. Remains(h)
        BY <2>2, <3>1, <3>2, LeftInFile
      <3> QED
        BY <3>3 DEF Remains, Covers
    <2> QED
      BY <2>1, <2>2
  <1>4. TradesTold'
    <2>1. TradesTold
      BY DEF HistoryInv
    <2> QED
      BY <1>1, <1>2, <1>3, <2>1, TradesStay
  <1>5. Shape'
    <2>1. IsSeq(<<>>)
      BY NoOutputs DEF IsOutputs
    <2> QED
      BY <1>1, <2>1 DEF Shape
  <1>6. AnswersTold'
    <2>1. ReplyStable' /\ \A y \in answers : y[1] \in Requests
      BY <1>1 DEF HistoryInv, AnswersTold, ReplyStable
    <2> QED
      BY <1>1, <1>2, <1>3, <2>1 DEF AnswersTold
  <1> QED
    BY <1>2, <1>3, <1>4, <1>5, <1>6 DEF HistoryInv

\* Every step keeps the invariant.
LEMMA HistoryStep == ASSUME HistoryInv, [Next]_vars PROVE HistoryInv'
  <1>1. CASE UNCHANGED vars \/ RestartRefused \/ Wait
    BY <1>1, HistoryStutter DEF RestartRefused, Wait
  <1>2. CASE Restart
    BY <1>2, RestartTells
  <1>3. CASE RestoreDone
    BY <1>3, RestoreDoneTells
  <1>4. ASSUME NEW k \in Requests, AnswerAgain(k) PROVE HistoryInv'
    BY <1>4, AgainTells
  <1>5. ASSUME NEW k \in Requests, Accept(k) PROVE HistoryInv'
    BY <1>5, AcceptTells
  <1>6. ASSUME NEW k \in Requests, AnswerControl(k) PROVE HistoryInv'
    BY <1>6, ControlTells
  <1>7. CASE AppendRecord
    BY <1>7, AppendTells
  <1>8. CASE Reply
    BY <1>8, ReplyTells
  <1>9. CASE NoResponse
    BY <1>9, NoResponseTells
  <1>10. CASE AppendError
    BY <1>10, ErrorTells
  <1>11. CASE Crash
    BY <1>11, CrashTells
  <1> QED
    BY <1>1, <1>2, <1>3, <1>4, <1>5, <1>6, <1>7, <1>8, <1>9, <1>10, <1>11 DEF Next

\* Crashes and failed appends included, the file holds every trade that was told, and
\* either it restores to all the answers given or restore() refuses it.
THEOREM HistoryKept == Spec => []HistoryInv
  <1>1. Init => HistoryInv
    BY HistoryInit
  <1>2. HistoryInv /\ [Next]_vars => HistoryInv'
    BY HistoryStep
  <1> QED
    BY <1>1, <1>2, PTL DEF Spec

\* The outside world sees one history: one answer per command, one trade per sequence,
\* for all orders, cancels, crashes and failed appends.
THEOREM OneHistoryTold == Spec => []OneHistory
  <1>1. HistoryInv => OneHistory
    <2> SUFFICES ASSUME HistoryInv PROVE ReplyStable /\ OneTradePerSequence
      BY DEF OneHistory
    <2>1. ReplyStable
      BY DEF HistoryInv, AnswersTold
    <2>2. ASSUME NEW e \in published, NEW f \in published, IsTrade(e), IsTrade(f), e.data[1] = f.data[1] PROVE e = f
      <3>1. e = [kind |-> e.kind, data |-> e.data] /\ f = [kind |-> f.kind, data |-> f.data]
        BY DEF HistoryInv, TradesTold
      <3>2. PICK i, j \in 1..Len(file) : /\ file[i].kind = e.kind /\ file[i].data = e.data
                                         /\ file[j].kind = f.kind /\ file[j].data = f.data
        BY <2>2 DEF HistoryInv, TradesTold, OnDisk
      <3>3. Distinct(file)
        BY DEF HistoryInv, TradesTold
      <3>4. e.data = f.data
        BY <2>2, <3>2, <3>3 DEF Distinct, IsTrade
      <3> QED
        BY <2>2, <3>1, <3>4 DEF IsTrade
    <2>3. OneTradePerSequence
      BY <2>2 DEF OneTradePerSequence, IsTrade
    <2> QED
      BY <2>1, <2>3
  <1> QED
    BY <1>1, HistoryKept, PTL
=============================================================================
