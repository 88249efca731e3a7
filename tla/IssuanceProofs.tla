--------------------------- MODULE IssuanceProofs ---------------------------
(***************************************************************************)
(* Proofs about Issuance and Wallet for any number of calls, accounts,     *)
(* assets, members of staff and proposals: no balance is overdrawn, there  *)
(* is always an administrator, no conversion settles after the stop, and   *)
(* the limits of issuance hold.  Each of them follows from the same two    *)
(* facts: locks that conflict are never held at the same time              *)
(* (Exclusive), and what a call has verified under a lock stays true until *)
(* it commits (Checked), because whoever could make it false needs that    *)
(* lock.  Where circles of waiting calls close follows from the order in   *)
(* which each kind of call takes its locks (Orderly, Places).              *)
(***************************************************************************)
EXTENDS Issuance, SumLemmas, SequenceTheorems

Balances == (Accounts \cup System) \X Assets

-----------------------------------------------------------------------------
(* Lists of locks *)

\* A list.
IsList(L) == L \in Seq({L[i] : i \in DOMAIN L})

\* What has been taken of a list and what is left after i locks.
Taken(L, i) == {L[j] : j \in 1..i}
Left(L, i)  == [j \in 1..(Len(L) - i) |-> L[i + j]]

\* Sequences are functions.
LEMMA SeqIsFunction == ASSUME NEW X, NEW s \in Seq(X) PROVE s = [j \in 1..Len(s) |-> s[j]]
  OBVIOUS

\* Functions on 1..n are lists of length n.
LEMMA ListOf ==
  ASSUME NEW n \in Nat, NEW L, L = [i \in 1..n |-> L[i]]
  PROVE  IsList(L) /\ Len(L) = n /\ DOMAIN L = 1..n
<1>1. DOMAIN L = 1..n
  OBVIOUS
<1>2. L \in [1..n -> {L[i] : i \in DOMAIN L}]
  BY <1>1
<1> QED
  BY <1>1, <1>2 DEF IsList

\* What is left: its length, its first lock and its rest.
LEMMA LeftFacts ==
  ASSUME NEW L, IsList(L), NEW i \in 0..Len(L)
  PROVE  /\ Len(L) \in Nat /\ Len(Left(L, i)) = Len(L) - i
         /\ Left(L, i) = <<>> <=> i = Len(L)
         /\ i < Len(L) => Head(Left(L, i)) = L[i + 1] /\ Tail(Left(L, i)) = Left(L, i + 1)
<1>1. Len(L) \in Nat /\ DOMAIN L = 1..Len(L)
  BY DEF IsList
<1> DEFINE M == Left(L, i)
           n == Len(L) - i
<1>2. n \in Nat /\ M = [j \in 1..n |-> M[j]] /\ \A j \in 1..n : M[j] = L[i + j]
  BY <1>1 DEF Left
<1>3. IsList(M) /\ Len(M) = n
  <2> HIDE DEF M, n
  <2> QED
    BY <1>2, ListOf
<1>4. M = <<>> <=> n = 0
  <2>1. M \in Seq({M[j] : j \in DOMAIN M})
    BY <1>3 DEF IsList
  <2> HIDE DEF M, n
  <2> QED
    BY <1>3, <2>1
<1>5. ASSUME i < Len(L) PROVE Head(M) = L[i + 1] /\ Tail(M) = Left(L, i + 1)
  <2>1. n >= 1
    BY <1>1, <1>5
  <2>2. Head(M) = M[1] /\ Tail(M) = [j \in 1..(Len(M) - 1) |-> M[j + 1]]
    <3> HIDE DEF M, n
    <3>1. M \in Seq({M[j] : j \in DOMAIN M}) /\ M # <<>>
      BY <1>2, <1>3, <1>4, <2>1 DEF IsList
    <3>2. /\ Tail(M) \in Seq({M[j] : j \in DOMAIN M}) /\ Len(Tail(M)) = Len(M) - 1
          /\ \A j \in 1..(Len(M) - 1) : Tail(M)[j] = M[j + 1]
      <4> DEFINE Y == {M[j] : j \in DOMAIN M}
      <4>1. M \in Seq(Y) /\ M # <<>>
        BY <3>1
      <4> HIDE DEF Y
      <4>2. Tail(M) \in Seq(Y) /\ Len(Tail(M)) = Len(M) - 1 /\ \A j \in 1..Len(Tail(M)) : Tail(M)[j] = M[j + 1]
        BY <4>1, HeadTailProperties
      <4> QED
        BY <4>2 DEF Y
    <3>3. Tail(M) = [j \in 1..Len(Tail(M)) |-> Tail(M)[j]]
      BY <3>2, SeqIsFunction
    <3>4. Head(M) = M[1]
      BY <3>1
    <3> QED
      BY <3>2, <3>3, <3>4
  <2>3. Tail(M) = [j \in 1..(Len(L) - (i + 1)) |-> L[i + 1 + j]]
    <3>1. Len(M) - 1 = Len(L) - (i + 1)
      BY <1>1, <1>3
    <3>2. \A j \in 1..(Len(L) - (i + 1)) : M[j + 1] = L[i + 1 + j]
      BY <1>1, <1>2
    <3> QED
      BY <2>2, <3>1, <3>2
  <2> QED
    BY <1>2, <2>1, <2>2, <2>3 DEF Left
<1>6. n = 0 <=> i = Len(L)
  BY <1>1
<1> QED
  BY <1>1, <1>3, <1>4, <1>5, <1>6

\* Before a lock is taken, all of the list is left.
LEMMA LeftAll == ASSUME NEW L, IsList(L) PROVE Left(L, 0) = L /\ Taken(L, 0) = {}
<1>1. Len(L) \in Nat /\ L = [j \in 1..Len(L) |-> L[j]]
  BY DEF IsList
<1>2. Left(L, 0) = [j \in 1..Len(L) |-> L[j]]
  <2>1. Len(L) - 0 = Len(L) /\ \A j \in 1..Len(L) : 0 + j = j
    BY <1>1
  <2> QED
    BY <2>1 DEF Left
<1> QED
  BY <1>1, <1>2 DEF Taken

\* One lock more.
LEMMA TakenNext == ASSUME NEW L, NEW i \in Nat PROVE Taken(L, i + 1) = Taken(L, i) \cup {L[i + 1]}
  BY DEF Taken

\* Two lists, one after the other.
Cat(A, B) == A \o B

\* What stands where in them.
LEMMA ConcatList ==
  ASSUME NEW A, NEW B, IsList(A), IsList(B)
  PROVE  /\ IsList(Cat(A, B)) /\ Len(A) \in Nat /\ Len(B) \in Nat /\ Len(Cat(A, B)) = Len(A) + Len(B)
         /\ \A i \in 1..Len(A) : Cat(A, B)[i] = A[i]
         /\ \A i \in 1..Len(B) : Cat(A, B)[Len(A) + i] = B[i]
<1> DEFINE X == {A[i] : i \in DOMAIN A} \cup {B[i] : i \in DOMAIN B}
           C == Cat(A, B)
<1>1. A \in Seq(X) /\ B \in Seq(X)
  BY DEF IsList
<1> HIDE DEF X
<1>2. /\ Len(C) = Len(A) + Len(B) /\ C \in Seq(X)
      /\ \A i \in 1..(Len(A) + Len(B)) : C[i] = IF i <= Len(A) THEN A[i] ELSE B[i - Len(A)]
  BY <1>1, ConcatProperties DEF Cat
<1>3. Len(A) \in Nat /\ Len(B) \in Nat
  BY <1>1
<1>4. \A i \in 1..Len(A) : i \in 1..(Len(A) + Len(B)) /\ i <= Len(A)
  BY <1>3
<1>5. \A i \in 1..Len(B) : /\ Len(A) + i \in 1..(Len(A) + Len(B)) /\ ~(Len(A) + i <= Len(A))
                           /\ (Len(A) + i) - Len(A) = i
  BY <1>3
<1>6. Len(C) \in Nat /\ C = [i \in 1..Len(C) |-> C[i]]
  BY <1>2, SeqIsFunction
<1>7. IsList(C)
  BY <1>6, ListOf
<1>8. /\ \A i \in 1..Len(A) : C[i] = A[i]
      /\ \A i \in 1..Len(B) : C[Len(A) + i] = B[i]
  BY <1>2, <1>4, <1>5
<1> QED
  BY <1>2, <1>3, <1>7, <1>8

-----------------------------------------------------------------------------
(* Sorted locks of balances *)

\* A balance with a smaller key has fewer balances below it.
LEMMA SmallerClimbs ==
  ASSUME NEW S \in SUBSET Balances, IsFiniteSet(S), NEW b \in S, NEW c \in S
  PROVE  /\ Smaller(b, S) \in Nat /\ Smaller(b, S) < Cardinality(S) /\ Rank[b] \in Int
         /\ Rank[b] < Rank[c] => Smaller(b, S) < Smaller(c, S)
         /\ Smaller(b, S) = Smaller(c, S) => b = c
<1> DEFINE below(d) == {q \in S : Rank[q] < Rank[d]}
<1>1. \A d \in S : Rank[d] \in Int
  BY WalletAssumption DEF Balances
<1>2. Cardinality(S) \in Nat
  BY FS_CardinalityType
<1>3. \A d \in S : IsFiniteSet(below(d)) /\ Smaller(d, S) = Cardinality(below(d)) /\ Smaller(d, S) \in Nat
  <2>1. \A d \in S : below(d) \in SUBSET S /\ Smaller(d, S) = Cardinality(below(d))
    BY DEF Smaller
  <2> QED
    BY <2>1, FS_Subset, FS_CardinalityType
<1>4. ASSUME NEW d \in S, NEW e \in S, Rank[d] < Rank[e] PROVE Smaller(d, S) < Smaller(e, S)
  <2>1. below(d) \subseteq below(e) /\ d \in below(e) /\ d \notin below(d)
    BY <1>1, <1>4
  <2> HIDE DEF below
  <2>2. /\ Cardinality(below(d)) <= Cardinality(below(e))
        /\ Cardinality(below(e)) = Cardinality(below(d)) => below(e) = below(d)
    BY <1>3, <2>1, FS_Subset
  <2> QED
    BY <1>3, <2>1, <2>2
<1>5. Smaller(b, S) < Cardinality(S)
  <2>1. below(b) \subseteq S /\ b \notin below(b)
    BY <1>1
  <2> HIDE DEF below
  <2>2. Cardinality(below(b)) <= Cardinality(S) /\ (Cardinality(S) = Cardinality(below(b)) => S = below(b))
    BY <2>1, FS_Subset
  <2> QED
    BY <1>2, <1>3, <2>1, <2>2
<1>6. Smaller(b, S) = Smaller(c, S) => b = c
  <2> HIDE DEF below
  <2>1. ASSUME Smaller(b, S) = Smaller(c, S) PROVE Rank[b] = Rank[c]
    BY <1>1, <1>3, <1>4, <2>1
  <2> QED
    BY <2>1, WalletAssumption DEF Balances
<1> QED
  BY <1>1, <1>3, <1>4, <1>5, <1>6

\* The balances get the places 1 to their number, each one another.
LEMMA SortedLocks ==
  ASSUME NEW S \in SUBSET Balances, IsFiniteSet(S)
  PROVE  /\ IsList(Sorted(S)) /\ Cardinality(S) \in Nat /\ Len(Sorted(S)) = Cardinality(S)
         /\ \A b \in S : \E i \in 1..Cardinality(S) : Sorted(S)[i] = LockAccountAsset(b[1], b[2])
<1>1. Cardinality(S) \in Nat
  BY FS_CardinalityType
<1>2. IsList(Sorted(S)) /\ Len(Sorted(S)) = Cardinality(S)
  <2> DEFINE L == Sorted(S)
  <2>1. L = [i \in 1..Cardinality(S) |-> L[i]]
    BY DEF Sorted
  <2> HIDE DEF L
  <2>2. IsList(L) /\ Len(L) = Cardinality(S)
    BY <1>1, <2>1, ListOf
  <2> QED
    BY <2>2 DEF L
<1>3. \A b, c \in S : Smaller(b, S) = Smaller(c, S) => b = c
  BY SmallerClimbs
<1>4. ASSUME NEW b \in S PROVE \E i \in 1..Cardinality(S) : Sorted(S)[i] = LockAccountAsset(b[1], b[2])
  <2> DEFINE i == Smaller(b, S) + 1
  <2>1. i \in 1..Cardinality(S) /\ i - 1 = Smaller(b, S)
    BY <1>1, SmallerClimbs
  <2> HIDE DEF i
  <2>2. (CHOOSE c \in S : Smaller(c, S) = i - 1) = b
    BY <1>3, <2>1
  <2>3. Sorted(S)[i] = LockAccountAsset(b[1], b[2])
    BY <2>1, <2>2 DEF Sorted
  <2> QED
    BY <2>1, <2>3
<1> QED
  BY <1>1, <1>2, <1>4
-----------------------------------------------------------------------------
(* The locks of each kind of call *)

\* What a call may have been asked.
IsConfirm(op) == op.kind = "confirm" /\ op.quote \in Conversions /\ op.key \in ConfirmKeys
IsApprove(op) == op.kind = "approve" /\ op.p \in Proposals /\ \E t \in Tickers : op.prices = Observations(t)
IsPilot(op)   == op.kind = "pilot" /\ op.users \in Seq({Owner[a] : a \in Accounts}) /\ op.assets \in Seq(Assets)
IsPropose(op) == op.kind = "propose" /\ op.p \in Proposals /\ op.p.kind = "grant"
Asked(op) ==
  \/ op \in Transfers /\ op.from # op.to
  \/ IsConfirm(op)
  \/ op \in RoleChanges
  \/ op.kind = "switch"
  \/ IsPilot(op)
  \/ IsPropose(op)
  \/ IsApprove(op)

\* The locks a call takes, in their order.
LocksOf(op) ==
  IF op.kind = "transfer" THEN TransferLocks(op)
  ELSE IF op.kind = "confirm" THEN ConfirmLocks(op.quote)
  ELSE IF op.kind = "role" THEN RoleLocks(op)
  ELSE IF op.kind = "switch" THEN <<ForUpdate(<<"control">>)>>
  ELSE IF op.kind = "pilot" THEN PilotLocks(op)
  ELSE IF op.kind = "propose" THEN ProposeLocks(op.p)
  ELSE ApproveLocks(op.by, op.p)

\* The empty list.
LEMMA List0 == IsList(<<>>) /\ Len(<<>>) = 0
  BY DEF IsList
\* A list of one.
LEMMA List1 == ASSUME NEW a PROVE IsList(<<a>>) /\ Len(<<a>>) = 1 /\ <<a>>[1] = a
  BY DEF IsList
\* A list of two.
LEMMA List2 == ASSUME NEW a, NEW b PROVE IsList(<<a, b>>) /\ Len(<<a, b>>) = 2 /\ <<a, b>>[1] = a /\ <<a, b>>[2] = b
  BY DEF IsList
\* A list of three.
LEMMA List3 ==
  ASSUME NEW a, NEW b, NEW c
  PROVE  /\ IsList(<<a, b, c>>) /\ Len(<<a, b, c>>) = 3
         /\ <<a, b, c>>[1] = a /\ <<a, b, c>>[2] = b /\ <<a, b, c>>[3] = c
  BY DEF IsList
\* A list of five.
LEMMA List5 ==
  ASSUME NEW a, NEW b, NEW c, NEW d, NEW e
  PROVE  IsList(<<a, b, c, d, e>>) /\ Len(<<a, b, c, d, e>>) = 5 /\ <<a, b, c, d, e>>[1] = a
  BY DEF IsList

\* A transfer locks the balance it comes from.
LEMMA TransferLocksAre ==
  ASSUME NEW op \in Transfers
  PROVE  /\ LocksOf(op) = <<LockAccountAsset(op.from, op.asset)>>
         /\ IsList(LocksOf(op)) /\ Len(LocksOf(op)) = 1
         /\ LocksOf(op)[1] = LockAccountAsset(op.from, op.asset)
<1>1. LocksOf(op) = <<LockAccountAsset(op.from, op.asset)>>
  BY RequestAssumption DEF LocksOf, TransferLocks
<1> QED
  BY <1>1, List1

\* Two different things.
LEMMA Two == ASSUME NEW a, NEW b, a # b PROVE IsFiniteSet({a, b}) /\ Cardinality({a, b}) = 2
<1>1. IsFiniteSet({a}) /\ Cardinality({a}) = 1 /\ b \notin {a} /\ {a, b} = {a} \cup {b}
  BY FS_Singleton
<1>2. IsFiniteSet({a} \cup {b}) /\ Cardinality({a} \cup {b}) = Cardinality({a}) + 1
  BY <1>1, FS_AddElement
<1> QED
  BY <1>1, <1>2

\* Three different things.
LEMMA Three ==
  ASSUME NEW a, NEW b, NEW c, a # b, a # c, b # c
  PROVE  IsFiniteSet({a, b, c}) /\ Cardinality({a, b, c}) = 3
<1>1. IsFiniteSet({a, b}) /\ Cardinality({a, b}) = 2 /\ c \notin {a, b} /\ {a, b, c} = {a, b} \cup {c}
  BY Two
<1>2. IsFiniteSet({a, b} \cup {c}) /\ Cardinality({a, b} \cup {c}) = Cardinality({a, b}) + 1
  BY <1>1, FS_AddElement
<1> QED
  BY <1>1, <1>2

\* The locks of a list and those of sorted balances after them.
LEMMA ListThenSorted ==
  ASSUME NEW A, IsList(A), NEW S \in SUBSET Balances, IsFiniteSet(S), Len(A) > 0, NEW L, L = Cat(A, Sorted(S))
  PROVE  /\ IsList(L) /\ Len(L) = Len(A) + Cardinality(S) /\ L[1] = A[1]
         /\ \A b \in S : LockAccountAsset(b[1], b[2]) \in Taken(L, Len(L))
<1> DEFINE B == Sorted(S)
<1>1. /\ IsList(B) /\ Cardinality(S) \in Nat /\ Len(B) = Cardinality(S)
      /\ \A b \in S : \E i \in 1..Cardinality(S) : B[i] = LockAccountAsset(b[1], b[2])
  BY SortedLocks
<1>a. L = Cat(A, B)
  OBVIOUS
<1> HIDE DEF B
<1>2. /\ IsList(L) /\ Len(A) \in Nat /\ Len(L) = Len(A) + Len(B)
      /\ \A i \in 1..Len(A) : L[i] = A[i]
      /\ \A i \in 1..Len(B) : L[Len(A) + i] = B[i]
  BY <1>1, <1>a, ConcatList
<1>3. L[1] = A[1]
  BY <1>2
<1>4. ASSUME NEW b \in S PROVE LockAccountAsset(b[1], b[2]) \in Taken(L, Len(L))
  <2>1. PICK i \in 1..Cardinality(S) : B[i] = LockAccountAsset(b[1], b[2])
    BY <1>1
  <2>2. L[Len(A) + i] = LockAccountAsset(b[1], b[2]) /\ Len(A) + i \in 1..Len(L)
    BY <1>1, <1>2, <2>1
  <2> QED
    BY <2>2 DEF Taken
<1>5. IsList(L) /\ Len(L) = Len(A) + Cardinality(S)
  BY <1>1, <1>2
<1> QED
  BY <1>3, <1>4, <1>5
\* A confirmation takes the switch first and the two balances it pays from at last.
LEMMA ConfirmLocksAre ==
  ASSUME NEW op, IsConfirm(op)
  PROVE  /\ IsList(LocksOf(op)) /\ Len(LocksOf(op)) = 8 /\ LocksOf(op)[1] = ForShare(<<"control">>)
         /\ LockAccountAsset(op.quote.account, op.quote.from) \in Taken(LocksOf(op), 8)
         /\ LockAccountAsset("conversion-treasury", op.quote.to) \in Taken(LocksOf(op), 8)
<1> DEFINE q == op.quote
           S == {<<q.account, q.from>>, <<"conversion-treasury", q.from>>, <<"conversion-treasury", q.to>>}
           A == <<ForShare(<<"control">>), ForUpdate(<<"quote", q>>),
                  SystemAccount("conversion-treasury", q.from), SystemAccount("conversion-treasury", q.to),
                  SystemAccount("conversion-fees", q.to)>>
<1>1. q \in Conversions /\ op.kind = "confirm"
  BY DEF IsConfirm
<1> HIDE DEF q
<1>2. q.account \in Accounts /\ q.from \in Assets /\ q.to \in Assets /\ q.from # q.to
  BY <1>1, RequestAssumption
<1>3. "conversion-treasury" \in System /\ q.account # "conversion-treasury"
  BY <1>2, WalletAssumption DEF System
<1>4. S \in SUBSET Balances
  BY <1>2, <1>3 DEF Balances
<1>5. IsFiniteSet(S) /\ Cardinality(S) = 3
  BY <1>2, <1>3, Three
<1>6. IsList(A) /\ Len(A) = 5 /\ A[1] = ForShare(<<"control">>)
  BY List5
<1>7. LocksOf(op) = Cat(A, Sorted(S))
  BY <1>1 DEF LocksOf, ConfirmLocks, Cat, q
<1>8. <<q.account, q.from>> \in S /\ <<"conversion-treasury", q.to>> \in S
  OBVIOUS
<1> HIDE DEF S, A
<1> DEFINE L == LocksOf(op)
<1> HIDE DEF L
<1>9. /\ IsList(L) /\ Len(L) = Len(A) + Cardinality(S) /\ L[1] = A[1]
      /\ \A b \in S : LockAccountAsset(b[1], b[2]) \in Taken(L, Len(L))
  <2>1. L = Cat(A, Sorted(S)) /\ Len(A) > 0
    BY <1>6, <1>7 DEF L
  <2> QED
    BY <1>4, <1>5, <1>6, <2>1, ListThenSorted
<1>10. IsList(LocksOf(op)) /\ Len(LocksOf(op)) = 8 /\ LocksOf(op)[1] = ForShare(<<"control">>)
  BY <1>5, <1>6, <1>9 DEF L
<1>11. /\ LockAccountAsset(q.account, q.from) \in Taken(LocksOf(op), 8)
       /\ LockAccountAsset("conversion-treasury", q.to) \in Taken(LocksOf(op), 8)
  BY <1>8, <1>9, <1>10 DEF L
<1> QED
  BY <1>10, <1>11 DEF q

\* The removal of an administrator takes the advisory lock first.
LEMMA RoleLocksAre ==
  ASSUME NEW op \in RoleChanges
  PROVE  /\ IsList(LocksOf(op)) /\ Len(LocksOf(op)) \in {1, 2}
         /\ ~op.grant /\ op.role = Admin => Len(LocksOf(op)) = 2 /\ LocksOf(op)[1] = ForUpdate(<<"administrators">>)
         /\ Len(LocksOf(op)) = 2 => ~op.grant /\ op.role = Admin
<1> DEFINE A == IF ~op.grant /\ op.role = Admin THEN <<ForUpdate(<<"administrators">>)>> ELSE <<>>
           B == <<ForUpdate(<<"role", op.user, op.role>>)>>
           L == LocksOf(op)
<1>1. L = Cat(A, B)
  BY RequestAssumption DEF LocksOf, RoleLocks, Cat
<1> HIDE DEF L
<1>2. IsList(B) /\ Len(B) = 1
  BY List1
<1>3. CASE ~op.grant /\ op.role = Admin
  <2>1. IsList(A) /\ Len(A) = 1 /\ A[1] = ForUpdate(<<"administrators">>)
    BY <1>3, List1
  <2> HIDE DEF A, B
  <2>2. IsList(L) /\ Len(L) = 2 /\ L[1] = A[1]
    <3>1. IsList(L) /\ Len(L) = Len(A) + Len(B) /\ \A i \in 1..Len(A) : L[i] = A[i]
      BY <1>1, <1>2, <2>1, ConcatList
    <3>2. 1 \in 1..Len(A)
      BY <2>1
    <3> QED
      BY <1>2, <2>1, <3>1, <3>2
  <2> QED
    BY <1>3, <2>1, <2>2 DEF L
<1>4. CASE ~(~op.grant /\ op.role = Admin)
  <2>1. IsList(A) /\ Len(A) = 0
    BY <1>4, List0
  <2> HIDE DEF A, B
  <2>2. IsList(L) /\ Len(L) = 1
    BY <1>1, <1>2, <2>1, ConcatList
  <2> QED
    BY <1>4, <2>1, <2>2 DEF L
<1> QED
  BY <1>3, <1>4

\* The switch.
LEMMA SwitchLocksAre ==
  ASSUME NEW op, op.kind = "switch"
  PROVE  IsList(LocksOf(op)) /\ Len(LocksOf(op)) = 1 /\ LocksOf(op)[1] = ForUpdate(<<"control">>)
<1>1. LocksOf(op) = <<ForUpdate(<<"control">>)>>
  BY DEF LocksOf
<1> QED
  BY <1>1, List1

\* Rows that are updated one after the other.
LEMMA RowsAre ==
  ASSUME NEW X, NEW s \in Seq(X), NEW t, NEW L, L = Rows(t, s)
  PROVE  IsList(L) /\ Len(L) \in Nat /\ \A i \in 1..Len(L) : L[i].res[1] = t
<1>1. Len(s) \in Nat /\ L = [i \in 1..Len(s) |-> ForUpdate(<<t, s[i]>>)]
  BY DEF Rows
<1>2. Len(L) = Len(s) /\ L = [i \in 1..Len(L) |-> L[i]]
  BY <1>1
<1>3. IsList(L)
  BY <1>1, <1>2, ListOf
<1>4. ASSUME NEW i \in 1..Len(L) PROVE L[i].res[1] = t
  BY <1>1, <1>2 DEF ForUpdate
<1> QED
  BY <1>1, <1>2, <1>3, <1>4

\* What stands in one of two lists stands in both of them together.
LEMMA CatEntries ==
  ASSUME NEW A, NEW B, IsList(A), IsList(B), NEW C, C = Cat(A, B), NEW i \in 1..Len(C)
  PROVE  (i \in 1..Len(A) /\ C[i] = A[i]) \/ (i > Len(A) /\ i - Len(A) \in 1..Len(B) /\ C[i] = B[i - Len(A)])
<1>1. /\ Len(A) \in Nat /\ Len(B) \in Nat /\ Len(C) = Len(A) + Len(B)
      /\ \A k \in 1..Len(A) : C[k] = A[k]
      /\ \A k \in 1..Len(B) : C[Len(A) + k] = B[k]
  BY ConcatList
<1>2. CASE i \in 1..Len(A)
  BY <1>1, <1>2
<1>3. CASE ~(i \in 1..Len(A))
  <2>1. PICK k : k = i - Len(A)
    OBVIOUS
  <2>2. k \in 1..Len(B) /\ i = Len(A) + k /\ i > Len(A)
    BY <1>1, <1>3, <2>1
  <2> QED
    BY <1>1, <2>1, <2>2
<1> QED
  BY <1>2, <1>3

\* Rows that grants and configurations of the pilot lock in no common order.
PilotRows == {"test-money", "asset", "recipient"}

\* A configuration takes its advisory lock, two roles, and then only such rows.
LEMMA PilotLocksAre ==
  ASSUME NEW op, IsPilot(op), NEW L, L = LocksOf(op)
  PROVE  /\ IsList(L) /\ Len(L) \in Nat /\ Len(L) >= 4 /\ L[1] = ForUpdate(<<"pilot">>)
         /\ L[2] = role(op.operator, "treasury_operator") /\ L[3] = role(op.approver, "treasury_approver")
         /\ \A i \in 1..Len(L) : i > 3 => L[i].res[1] \in PilotRows
<1>1. PICK A : A = <<ForUpdate(<<"pilot">>), role(op.operator, "treasury_operator"), role(op.approver, "treasury_approver")>>
  OBVIOUS
<1>2. PICK B : B = Rows("asset", op.assets)
  OBVIOUS
<1>3. PICK C : C = Rows("recipient", op.users)
  OBVIOUS
<1>4. PICK D : D = <<loadPolicy>>
  OBVIOUS
<1>5. PICK AB : AB = Cat(A, B)
  OBVIOUS
<1>6. PICK ABC : ABC = Cat(AB, C)
  OBVIOUS
<1>7. L = Cat(ABC, D)
  BY <1>1, <1>2, <1>3, <1>4, <1>5, <1>6 DEF IsPilot, LocksOf, PilotLocks, Cat
<1>8. /\ IsList(A) /\ Len(A) = 3 /\ A[1] = ForUpdate(<<"pilot">>)
      /\ A[2] = role(op.operator, "treasury_operator") /\ A[3] = role(op.approver, "treasury_approver")
  BY <1>1, List3
<1>9. IsList(B) /\ Len(B) \in Nat /\ \A i \in 1..Len(B) : B[i].res[1] = "asset"
  BY <1>2, RowsAre DEF IsPilot
<1>10. IsList(C) /\ Len(C) \in Nat /\ \A i \in 1..Len(C) : C[i].res[1] = "recipient"
  BY <1>3, RowsAre DEF IsPilot
<1>11. IsList(D) /\ Len(D) = 1 /\ D[1].res[1] = "test-money"
  BY <1>4, List1 DEF loadPolicy, ForUpdate
<1>12. /\ IsList(AB) /\ Len(AB) = 3 + Len(B) /\ (\A i \in 1..3 : AB[i] = A[i])
       /\ \A i \in 1..Len(AB) : i > 3 => AB[i].res[1] \in PilotRows
  <2>1. IsList(AB) /\ Len(AB) = Len(A) + Len(B) /\ \A i \in 1..Len(A) : AB[i] = A[i]
    BY <1>5, <1>8, <1>9, ConcatList
  <2>2. ASSUME NEW i \in 1..Len(AB), i > 3 PROVE AB[i].res[1] \in PilotRows
    <3>1. i - 3 \in 1..Len(B) /\ AB[i] = B[i - 3]
      <4>1. IsList(A) /\ IsList(B)
        BY <1>8, <1>9
      <4>2. (i \in 1..Len(A) /\ AB[i] = A[i]) \/ (i > Len(A) /\ i - Len(A) \in 1..Len(B) /\ AB[i] = B[i - Len(A)])
        BY <1>5, <4>1, CatEntries
      <4>3. Len(A) = 3 /\ i > 3
        BY <1>8, <2>2
      <4> QED
        BY <4>2, <4>3
    <3> QED
      BY <1>9, <3>1 DEF PilotRows
  <2> QED
    BY <1>8, <2>1, <2>2
<1>13. /\ IsList(ABC) /\ Len(ABC) = 3 + Len(B) + Len(C) /\ (\A i \in 1..3 : ABC[i] = A[i])
       /\ \A i \in 1..Len(ABC) : i > 3 => ABC[i].res[1] \in PilotRows
  <2>1. IsList(ABC) /\ Len(ABC) = Len(AB) + Len(C) /\ \A i \in 1..Len(AB) : ABC[i] = AB[i]
    BY <1>6, <1>10, <1>12, ConcatList
  <2>2. ASSUME NEW i \in 1..Len(ABC), i > 3 PROVE ABC[i].res[1] \in PilotRows
    <3>1. \/ i \in 1..Len(AB) /\ ABC[i] = AB[i]
          \/ i - Len(AB) \in 1..Len(C) /\ ABC[i] = C[i - Len(AB)]
      BY <1>6, <1>10, <1>12, CatEntries
    <3> QED
      BY <1>10, <1>12, <2>2, <3>1 DEF PilotRows
  <2>3. \A i \in 1..3 : i \in 1..Len(AB)
    BY <1>9, <1>12
  <2> QED
    BY <1>12, <2>1, <2>2, <2>3
<1>14. IsList(L) /\ Len(L) = Len(ABC) + 1 /\ \A i \in 1..Len(ABC) : L[i] = ABC[i]
  BY <1>7, <1>11, <1>13, ConcatList
<1>15. ASSUME NEW i \in 1..Len(L), i > 3 PROVE L[i].res[1] \in PilotRows
  <2>1. \/ i \in 1..Len(ABC) /\ L[i] = ABC[i]
        \/ i - Len(ABC) \in 1..Len(D) /\ L[i] = D[i - Len(ABC)]
    <3>1. IsList(ABC) /\ IsList(D)
      BY <1>11, <1>13
    <3> QED
      BY <1>7, <3>1, CatEntries
  <2>2. \A k \in 1..Len(D) : k = 1
    BY <1>11
  <2> QED
    BY <1>11, <1>13, <1>15, <2>1, <2>2 DEF PilotRows
<1>16. \A i \in 1..3 : i \in 1..Len(ABC)
  BY <1>9, <1>10, <1>13
<1>17. \A i \in 1..3 : L[i] = A[i]
  BY <1>13, <1>14, <1>16
<1>18. Len(L) \in Nat /\ Len(L) >= 4
  BY <1>9, <1>10, <1>13, <1>14
<1> QED
  BY <1>8, <1>14, <1>15, <1>17, <1>18

\* A proposal takes the control row, a role and the rows that eligible reads.
LEMMA ProposeLocksAre ==
  ASSUME NEW op, IsPropose(op), NEW L, L = LocksOf(op)
  PROVE  /\ IsList(L) /\ Len(L) = 4 /\ L[1] = loadPolicy /\ L[2] = role(op.p.by, "treasury_operator")
         /\ L[3].res[1] = "recipient" /\ L[4].res[1] = "asset"
<1>1. PICK A : A = <<loadPolicy, role(op.p.by, "treasury_operator")>>
  OBVIOUS
<1>2. PICK B : B = EligibleRows(op.p)
  OBVIOUS
<1>3. L = Cat(A, B)
  BY <1>1, <1>2 DEF IsPropose, LocksOf, ProposeLocks, Cat
<1>4. IsList(A) /\ Len(A) = 2 /\ A[1] = loadPolicy /\ A[2] = role(op.p.by, "treasury_operator")
  BY <1>1, List2
<1>5. IsList(B) /\ Len(B) = 2 /\ B[1].res[1] = "recipient" /\ B[2].res[1] = "asset"
  BY <1>2, List2 DEF EligibleRows, ForShare
<1>6. /\ IsList(L) /\ Len(L) = Len(A) + Len(B)
      /\ (\A i \in 1..Len(A) : L[i] = A[i]) /\ \A i \in 1..Len(B) : L[Len(A) + i] = B[i]
  <2>1. IsList(A) /\ IsList(B)
    BY <1>4, <1>5
  <2> QED
    BY <1>3, <2>1, ConcatList
<1>7. 1 \in 1..Len(A) /\ 2 \in 1..Len(A) /\ 1 \in 1..Len(B) /\ 2 \in 1..Len(B) /\ Len(A) + 1 = 3 /\ Len(A) + 2 = 4
  BY <1>4, <1>5
<1> QED
  BY <1>4, <1>5, <1>6, <1>7

\* What a grant locks before the balances.
GrantRows(u, p) ==
  <<loadPolicy, role(u, "treasury_approver"), role(p.by, "treasury_operator")>> \o EligibleRows(p)

\* These are the control row, two roles and the rows that eligible reads.
LEMMA GrantRowsAre ==
  ASSUME NEW u, NEW p, NEW L, L = GrantRows(u, p)
  PROVE  /\ IsList(L) /\ Len(L) = 5 /\ L[1] = loadPolicy
         /\ L[2] = role(u, "treasury_approver") /\ L[3] = role(p.by, "treasury_operator")
         /\ L[4].res[1] = "recipient" /\ L[5].res[1] = "asset"
<1>1. PICK A : A = <<loadPolicy, role(u, "treasury_approver"), role(p.by, "treasury_operator")>>
  OBVIOUS
<1>2. PICK B : B = EligibleRows(p)
  OBVIOUS
<1>3. L = Cat(A, B)
  BY <1>1, <1>2 DEF GrantRows, Cat
<1>4. IsList(A) /\ Len(A) = 3 /\ A[1] = loadPolicy /\ A[2] = role(u, "treasury_approver") /\ A[3] = role(p.by, "treasury_operator")
  BY <1>1, List3
<1>5. IsList(B) /\ Len(B) = 2 /\ B[1].res[1] = "recipient" /\ B[2].res[1] = "asset"
  BY <1>2, List2 DEF EligibleRows, ForShare
<1>6. /\ IsList(L) /\ Len(L) = Len(A) + Len(B)
      /\ (\A i \in 1..Len(A) : L[i] = A[i]) /\ \A i \in 1..Len(B) : L[Len(A) + i] = B[i]
  <2>1. IsList(A) /\ IsList(B)
    BY <1>4, <1>5
  <2> QED
    BY <1>3, <2>1, ConcatList
<1>7. /\ 1 \in 1..Len(A) /\ 2 \in 1..Len(A) /\ 3 \in 1..Len(A)
      /\ 1 \in 1..Len(B) /\ 2 \in 1..Len(B) /\ Len(A) + 1 = 4 /\ Len(A) + 2 = 5
  BY <1>4, <1>5
<1> QED
  BY <1>4, <1>5, <1>6, <1>7

\* What inventory locks before the balances.
InventoryRows(p) == <<ForUpdate(<<"treasury">>), ForShare(<<"asset", p.asset>>), ForUpdate(<<"ceiling">>)>>

\* An approval takes the control row or the treasury first.
LEMMA ApproveLocksAre ==
  ASSUME NEW op, IsApprove(op)
  PROVE  /\ IsList(LocksOf(op))
         /\ op.p.kind = "grant" => Len(LocksOf(op)) = 7 /\ LocksOf(op)[1] = loadPolicy
         /\ op.p.kind = "inventory" => Len(LocksOf(op)) = 5 /\ LocksOf(op)[1] = ForUpdate(<<"treasury">>)
         /\ op.p.kind = "limit" => Len(LocksOf(op)) = 2 /\ LocksOf(op)[1] = ForUpdate(<<"treasury">>)
         /\ op.p.kind \in Kinds
<1> DEFINE p == op.p
           u == op.by
<1>1. op.kind = "approve" /\ p \in Proposals /\ p.kind \in Kinds
  BY IssuanceAssumption DEF IsApprove
<1>2. LocksOf(op) = ApproveLocks(u, p)
  BY <1>1 DEF LocksOf
<1> HIDE DEF p, u
<1>3. CASE p.kind = "grant"
  <2> DEFINE S == {<<"test-money-issuance", p.asset>>, <<p.account, p.asset>>}
             A == GrantRows(u, p)
  <2>1. LocksOf(op) = Cat(A, Sorted(S))
    BY <1>2, <1>3 DEF ApproveLocks, GrantLocks, GrantRows, Cat
  <2>2. p.account \in Accounts /\ p.asset \in Assets
    BY <1>1, <1>3, IssuanceAssumption
  <2>3. "test-money-issuance" \in System /\ p.account # "test-money-issuance"
    BY <2>2, WalletAssumption DEF System
  <2>4. S \in SUBSET Balances
    BY <2>2, <2>3 DEF Balances
  <2>5. IsFiniteSet(S) /\ Cardinality(S) = 2
    BY <2>3, Two
  <2>6. IsList(A) /\ Len(A) = 5 /\ A[1] = loadPolicy
    BY GrantRowsAre
  <2> HIDE DEF S, A
  <2>7. IsList(LocksOf(op)) /\ Len(LocksOf(op)) = 7 /\ LocksOf(op)[1] = loadPolicy
    <3> DEFINE L == LocksOf(op)
    <3>1. L = Cat(A, Sorted(S)) /\ Len(A) > 0
      BY <2>1, <2>6
    <3> HIDE DEF L
    <3>2. IsList(L) /\ Len(L) = Len(A) + Cardinality(S) /\ L[1] = A[1]
      BY <2>4, <2>5, <2>6, <3>1, ListThenSorted
    <3> QED
      BY <2>5, <2>6, <3>2 DEF L
  <2> QED
    BY <1>1, <1>3, <2>7 DEF p
<1>4. CASE p.kind = "inventory"
  <2> DEFINE S == {<<"staging-market-maker-treasury", p.asset>>, <<"staging-market-maker-issuance", p.asset>>}
             A == InventoryRows(p)
  <2>1. LocksOf(op) = Cat(A, Sorted(S))
    BY <1>2, <1>4 DEF ApproveLocks, InventoryLocks, InventoryRows, Cat
  <2>2. p.asset \in Assets
    BY <1>1, <1>4, IssuanceAssumption
  <2>4. S \in SUBSET Balances
    BY <2>2 DEF Balances, System
  <2>5. IsFiniteSet(S) /\ Cardinality(S) = 2
    BY Two
  <2>6. IsList(A) /\ Len(A) = 3 /\ A[1] = ForUpdate(<<"treasury">>)
    BY List3 DEF InventoryRows
  <2> HIDE DEF S, A
  <2>7. IsList(LocksOf(op)) /\ Len(LocksOf(op)) = 5 /\ LocksOf(op)[1] = ForUpdate(<<"treasury">>)
    <3> DEFINE L == LocksOf(op)
    <3>1. L = Cat(A, Sorted(S)) /\ Len(A) > 0
      BY <2>1, <2>6
    <3> HIDE DEF L
    <3>2. IsList(L) /\ Len(L) = Len(A) + Cardinality(S) /\ L[1] = A[1]
      BY <2>4, <2>5, <2>6, <3>1, ListThenSorted
    <3> QED
      BY <2>5, <2>6, <3>2 DEF L
  <2> QED
    BY <1>1, <1>4, <2>7 DEF p
<1>5. CASE p.kind = "limit"
  <2>1. LocksOf(op) = LimitLocks
    BY <1>2, <1>5 DEF ApproveLocks
  <2>2. IsList(LimitLocks) /\ Len(LimitLocks) = 2 /\ LimitLocks[1] = ForUpdate(<<"treasury">>)
    BY List2 DEF LimitLocks
  <2> QED
    BY <1>1, <1>5, <2>1, <2>2 DEF p
<1> QED
  BY <1>1, <1>3, <1>4, <1>5 DEF Kinds

\* Every call has a list of locks, and kinds are told apart.
LEMMA AskedLocks == ASSUME NEW op, Asked(op) PROVE IsList(LocksOf(op)) /\ Len(LocksOf(op)) \in Nat \ {0} /\ op.kind # "none"
<1>1. CASE IsPilot(op)
  <2>1. PICK L : L = LocksOf(op)
    OBVIOUS
  <2>2. IsList(L) /\ Len(L) \in Nat /\ Len(L) >= 4
    BY <1>1, <2>1, PilotLocksAre
  <2>3. Len(L) # 0
    BY <2>2
  <2> QED
    BY <1>1, <2>1, <2>2, <2>3 DEF IsPilot
<1>2. CASE IsPropose(op)
  BY <1>2, ProposeLocksAre DEF IsPropose
<1>3. CASE ~IsPilot(op) /\ ~IsPropose(op)
  BY <1>3, TransferLocksAre, ConfirmLocksAre, RoleLocksAre, SwitchLocksAre, ApproveLocksAre, RequestAssumption
  DEF Asked, IsConfirm, IsApprove, Kinds
<1> QED
  BY <1>1, <1>2, <1>3
-----------------------------------------------------------------------------
(* The inductive invariant *)

\* A running call has taken some of its locks, the first ones, and has the others to take.
Progress(c) ==
  LET L == LocksOf(call[c].op) IN
  /\ Asked(call[c].op) /\ call[c] = [op |-> call[c].op, held |-> call[c].held, todo |-> call[c].todo]
  /\ \E i \in 0..Len(L) : call[c].held = Taken(L, i) /\ call[c].todo = Left(L, i)

CallsOK == call = [c \in Calls |-> call[c]] /\ \A c \in Calls : call[c] = NoCall \/ Progress(c)

\* Locks that conflict are never held by two calls.
Exclusive == \A c, d \in Calls : c # d => \A l \in call[c].held, h \in call[d].held : ~Conflict(l, h)

\* The sum of what has been granted of the proposals P, by the table g.
GrantedIn(g, P) == SumFunctionOnSet(g, {p \in P : g[p] >= 0})

\* The balances that a transfer or a conversion takes money from.
Guarded(op) ==
  IF op.kind = "transfer" THEN {<<op.from, op.asset>>}
  ELSE IF op.kind = "confirm" THEN {<<op.quote.account, op.quote.from>>, <<"conversion-treasury", op.quote.to>>}
  ELSE {}

\* What a call that was asked op, with n locks still to take, has verified so far in the
\* tables of balances and quotes, the switch, the roles, and the grants with the ceiling.
MoneyOK(op, n, av, qu) ==
  /\ op.kind = "transfer" /\ n = 0 => av[op.from][op.asset] >= op.amount
  /\ op.kind = "confirm" =>
       /\ qu[op.quote].state # "none"
       /\ n = 0 => /\ av[op.quote.account][op.quote.from] >= op.quote.amount
                   /\ av["conversion-treasury"][op.quote.to] >= qu[op.quote].out + qu[op.quote].fee

SwitchOK(op, n, en) == op.kind = "confirm" /\ n <= 7 => en

RoleOK(op, n, ro) ==
  op.kind = "role" /\ n <= 1 => (~op.grant /\ op.role = Admin => Cardinality({e \in ro : e.role = Admin}) > 1)

GrantOK(op, n, g) ==
  op.kind = "approve" /\ n <= 2 =>
    (op.p.kind = "grant" =>
       /\ g[op.p] < 0 /\ DOMAIN op.prices = {1, 2}
       /\ GrantedIn(g, Grants(Owner[op.p.account])) + Value(op.p.amount, op.prices) <= TesterLimit)

InventoryOK(op, n, g, ce) ==
  op.kind = "approve" =>
    /\ op.p.kind = "inventory" =>
         /\ n <= 3 => g[op.p] < 0
         /\ n <= 2 => /\ op.p.asset # Dollar => DOMAIN op.prices = {1, 2}
                      /\ GrantedIn(g, Inventory) + InventoryValue(op.p, op.prices) <= ce
    /\ op.p.kind = "limit" => (n = 0 => op.p.limit >= GrantedIn(g, Inventory))

\* What all calls have verified so far.
MoneyChecked  == \A c \in Calls : MoneyOK(call[c].op, Len(call[c].todo), available, quotes)
SwitchChecked == \A c \in Calls : SwitchOK(call[c].op, Len(call[c].todo), enabled)
RolesChecked  == \A c \in Calls : RoleOK(call[c].op, Len(call[c].todo), roles)
IssueChecked  ==
  \A c \in Calls : /\ GrantOK(call[c].op, Len(call[c].todo), granted)
                   /\ InventoryOK(call[c].op, Len(call[c].todo), granted, ceiling)

\* The tables and their types.
Quotes == [state: {"none", "open", "expired", "confirmed"}, out: Nat, fee: Nat]
Ledger == [Accounts \cup System -> [Assets -> Int]]
MoneyTables == available \in Ledger /\ quotes \in [Conversions -> Quotes]
IssueTables == granted \in [Proposals -> Int] /\ ceiling \in Nat

\* The invariant, by the tables it is about.
CallsInv  == CallsOK /\ Exclusive
MoneyInv  == MoneyTables /\ MoneyChecked /\ NotOverdrawn
SwitchInv == enabled \in BOOLEAN /\ SwitchChecked
RolesInv  == IsFiniteSet(roles) /\ RolesChecked /\ AdministratorRemains
IssueInv  == IssueTables /\ IssueChecked /\ WithinLimits

\* The inductive invariant.
TreasuryInv == CallsInv /\ MoneyInv /\ SwitchInv /\ RolesInv /\ IssueInv
-----------------------------------------------------------------------------
(* Calls and their locks *)

\* Where a running call stands.
LEMMA ProgressFacts ==
  ASSUME NEW c, Progress(c), NEW L, L = LocksOf(call[c].op)
  PROVE  /\ Asked(call[c].op) /\ IsList(L) /\ Len(L) \in Nat \ {0} /\ Len(call[c].todo) \in 0..Len(L)
         /\ call[c].todo = <<>> <=> Len(call[c].todo) = 0
         /\ call[c].todo = <<>> => call[c].held = Taken(L, Len(L))
         /\ Len(call[c].todo) < Len(L) => L[1] \in call[c].held
         /\ call[c] # NoCall
<1>1. Asked(call[c].op)
  BY DEF Progress
<1>2. IsList(L) /\ Len(L) \in Nat \ {0} /\ call[c].op.kind # "none"
  BY <1>1, AskedLocks
<1>3. PICK i \in 0..Len(L) : call[c].held = Taken(L, i) /\ call[c].todo = Left(L, i)
  BY DEF Progress
<1>4. Len(call[c].todo) = Len(L) - i /\ (call[c].todo = <<>> <=> i = Len(L))
  BY <1>1, <1>2, <1>3, LeftFacts
<1>5. Len(call[c].todo) \in 0..Len(L) /\ (call[c].todo = <<>> <=> Len(call[c].todo) = 0)
  BY <1>1, <1>2, <1>4
<1>6. call[c].todo = <<>> => call[c].held = Taken(L, Len(L))
  BY <1>3, <1>4
<1>7. ASSUME Len(call[c].todo) < Len(L) PROVE L[1] \in call[c].held
  <2>1. 1 \in 1..i
    BY <1>1, <1>2, <1>4, <1>7
  <2> QED
    BY <1>3, <2>1 DEF Taken
<1>8. call[c] # NoCall
  BY <1>2 DEF NoCall
<1> QED
  BY <1>1, <1>2, <1>5, <1>6, <1>7, <1>8

\* Two calls do not both hold what one of them holds alone.
LEMMA Excluded ==
  ASSUME Exclusive, NEW c \in Calls, NEW d \in Calls, c # d, NEW r,
         NEW l \in call[c].held, NEW h \in call[d].held, l.res = r, h.res = r, ~l.share \/ ~h.share
  PROVE  FALSE
  BY DEF Exclusive, Conflict

\* A call begins: it has taken no lock.
LEMMA BeginStep ==
  ASSUME CallsOK, Exclusive, NEW c \in Calls, NEW op, Asked(op), Begin(c, op, LocksOf(op))
  PROVE  /\ CallsOK' /\ Exclusive'
         /\ call'[c] = [op |-> op, held |-> {}, todo |-> LocksOf(op)]
         /\ \A d \in Calls : d # c => call'[d] = call[d]
<1>1. /\ call'[c] = [op |-> op, held |-> {}, todo |-> LocksOf(op)]
      /\ \A d \in Calls : d # c => call'[d] = call[d]
      /\ call' = [d \in Calls |-> call'[d]]
  BY DEF Begin, CallsOK
<1>2. Progress(c)'
  <2> DEFINE L == LocksOf(op)
  <2>1. IsList(L) /\ Len(L) \in Nat
    BY AskedLocks
  <2>2. Left(L, 0) = L /\ Taken(L, 0) = {}
    BY <2>1, LeftAll
  <2>3. 0 \in 0..Len(L)
    BY <2>1
  <2>4. call'[c].op = op /\ call'[c].todo = Left(L, 0) /\ call'[c].held = Taken(L, 0)
    BY <1>1, <2>2
  <2>5. LocksOf(call'[c].op) = L
    BY <2>4
  <2>6. call'[c] = [op |-> call'[c].op, held |-> call'[c].held, todo |-> call'[c].todo]
    BY <1>1
  <2> HIDE DEF L
  <2> QED
    BY <2>3, <2>4, <2>5, <2>6 DEF Progress
<1>3. CallsOK'
  <2>1. \A d \in Calls : d # c => (call'[d] = NoCall \/ Progress(d)')
    BY <1>1 DEF CallsOK, Progress
  <2> QED
    BY <1>1, <1>2, <2>1 DEF CallsOK
<1>4. Exclusive'
  <2>1. call'[c].held = {}
    BY <1>1
  <2> QED
    BY <1>1, <2>1 DEF Exclusive
<1> QED
  BY <1>1, <1>3, <1>4

\* A call ends and gives its locks back.
LEMMA EndStep ==
  ASSUME CallsOK, Exclusive, NEW c \in Calls, End(c)
  PROVE  CallsOK' /\ Exclusive' /\ call'[c] = NoCall /\ \A d \in Calls : d # c => call'[d] = call[d]
<1>1. /\ call'[c] = NoCall
      /\ \A d \in Calls : d # c => call'[d] = call[d]
      /\ call' = [d \in Calls |-> call'[d]]
  BY DEF End, CallsOK
<1>2. CallsOK'
  <2>1. \A d \in Calls : d # c => (call'[d] = NoCall \/ Progress(d)')
    BY <1>1 DEF CallsOK, Progress
  <2> QED
    BY <1>1, <2>1 DEF CallsOK
<1>3. Exclusive'
  <2>1. call'[c].held = {}
    BY <1>1 DEF NoCall
  <2> QED
    BY <1>1, <2>1 DEF Exclusive
<1> QED
  BY <1>1, <1>2, <1>3

\* Steps that leave the calls alone.
LEMMA SameCalls == ASSUME CallsOK, Exclusive, call' = call PROVE CallsOK' /\ Exclusive'
  BY DEF CallsOK, Exclusive, Progress

\* A lock is taken, when nobody holds one that conflicts with it, or the call is refused.
LEMMA AcquireStep ==
  ASSUME CallsOK, Exclusive, NEW c \in Calls, NEW valid, Acquire(c, valid)
  PROVE  /\ CallsOK' /\ Exclusive' /\ Progress(c)
         /\ \A d \in Calls : d # c => call'[d] = call[d]
         /\ \/ call'[c] = NoCall
            \/ /\ valid /\ call'[c].op = call[c].op
               /\ Len(call[c].todo) \in Nat \ {0} /\ Len(call'[c].todo) = Len(call[c].todo) - 1
<1> DEFINE op == call[c].op
           L  == LocksOf(op)
<1>1. call[c].todo # <<>>
  BY DEF Acquire
<1>2. call[c] # NoCall /\ Progress(c)
  BY <1>1 DEF CallsOK, NoCall
<1>3. Asked(op) /\ IsList(L) /\ Len(L) \in Nat
  BY <1>2, AskedLocks DEF Progress
<1>4. PICK i \in 0..Len(L) : call[c].todo = Left(L, i) /\ call[c].held = Taken(L, i)
  BY <1>2 DEF Progress
<1>5. \A d \in Calls : d # c => call'[d] = call[d]
  BY DEF Acquire, CallsOK
<1>6. call' = [d \in Calls |-> call'[d]]
  BY DEF Acquire, CallsOK
<1>7. CASE ~valid
  <2>1. call'[c] = NoCall
    BY <1>7 DEF Acquire, CallsOK
  <2>2. CallsOK'
    <3>1. \A d \in Calls : d # c => (call'[d] = NoCall \/ Progress(d)')
      BY <1>5 DEF CallsOK, Progress
    <3> QED
      BY <1>6, <2>1, <3>1 DEF CallsOK
  <2>3. Exclusive'
    <3>1. call'[c].held = {}
      BY <2>1 DEF NoCall
    <3> QED
      BY <1>5, <3>1 DEF Exclusive
  <2> QED
    BY <1>2, <1>5, <2>1, <2>2, <2>3
<1>8. CASE valid
  <2> HIDE DEF L
  <2>1. i < Len(L)
    BY <1>1, <1>3, <1>4, LeftFacts
  <2>2. /\ Head(call[c].todo) = L[i + 1] /\ Tail(call[c].todo) = Left(L, i + 1)
        /\ Len(call[c].todo) = Len(L) - i /\ i + 1 \in 0..Len(L) /\ i \in Nat
    <3>1. /\ Head(Left(L, i)) = L[i + 1] /\ Tail(Left(L, i)) = Left(L, i + 1)
          /\ Len(Left(L, i)) = Len(L) - i
      BY <1>3, <2>1, LeftFacts
    <3> QED
      BY <1>3, <1>4, <2>1, <3>1
  <2>3. Len(Left(L, i + 1)) = Len(L) - (i + 1)
    BY <1>3, <2>2, LeftFacts
  <2>5. call[c] = [op |-> op, held |-> call[c].held, todo |-> call[c].todo]
    BY <1>2 DEF Progress
  <2>4. call'[c] = [op |-> op, held |-> call[c].held \cup {Head(call[c].todo)}, todo |-> Tail(call[c].todo)]
    <3> DEFINE h == call[c].held \cup {Head(call[c].todo)}
               t == Tail(call[c].todo)
               r == [call[c] EXCEPT !.held = h, !.todo = t]
    <3>1. call'[c] = r
      <4>1. call' = [call EXCEPT ![c] = IF valid THEN r ELSE NoCall]
        BY DEF Acquire
      <4> HIDE DEF r
      <4> QED
        BY <1>8, <4>1 DEF CallsOK
    <3> HIDE DEF h, t
    <3>2. r = [op |-> op, held |-> h, todo |-> t]
      <4> DEFINE k == call[c]
                 x == call[c].held
                 y == call[c].todo
      <4>1. k = [op |-> op, held |-> x, todo |-> y] /\ r = [k EXCEPT !.held = h, !.todo = t]
        BY <2>5
      <4> HIDE DEF k, x, y, op, r
      <4> QED
        BY <4>1
    <3> HIDE DEF r
    <3> QED
      BY <3>1, <3>2 DEF h, t
  <2>6. /\ call'[c].op = op /\ call'[c].held = call[c].held \cup {Head(call[c].todo)} /\ call'[c].todo = Left(L, i + 1)
        /\ call'[c] = [op |-> call'[c].op, held |-> call'[c].held, todo |-> call'[c].todo]
    BY <2>2, <2>4
  <2>7. Progress(c)'
    <3>1. Asked(call'[c].op) /\ LocksOf(call'[c].op) = L
      BY <1>3, <2>6 DEF L
    <3>2. call'[c].held = Taken(L, i + 1)
      <4>1. Taken(L, i + 1) = Taken(L, i) \cup {L[i + 1]}
        BY <2>2, TakenNext
      <4>2. call[c].held = Taken(L, i) /\ Head(call[c].todo) = L[i + 1]
        BY <1>4, <2>2
      <4> QED
        BY <2>6, <4>1, <4>2
    <3> QED
      BY <2>2, <2>6, <3>1, <3>2 DEF Progress
  <2>8. CallsOK'
    <3>1. \A d \in Calls : d # c => (call'[d] = NoCall \/ Progress(d)')
      BY <1>5 DEF CallsOK, Progress
    <3> QED
      BY <1>6, <2>7, <3>1 DEF CallsOK
  <2>9. Exclusive'
    <3>1. \A d \in Calls : d # c => \A h \in call[d].held : ~Conflict(Head(call[c].todo), h)
      BY <1>1 DEF Acquire, Waits
    <3>2. \A l, h : Conflict(l, h) <=> Conflict(h, l)
      BY DEF Conflict
    <3> QED
      BY <1>5, <2>6, <3>1, <3>2 DEF Exclusive
  <2>10. Len(call[c].todo) \in Nat \ {0} /\ Len(call'[c].todo) = Len(call[c].todo) - 1
    BY <1>3, <2>1, <2>2, <2>3, <2>6
  <2> QED
    BY <1>2, <1>5, <1>8, <2>6, <2>8, <2>9, <2>10
<1> QED
  BY <1>7, <1>8
-----------------------------------------------------------------------------
(* Amounts *)

\* What a posting does to the balances.
LEMMA PostAt ==
  ASSUME NEW bal \in Ledger, NEW from \in Accounts \cup System, NEW to \in Accounts \cup System, from # to,
         NEW x \in Assets, NEW n \in Int, NEW new, new = Post(bal, from, to, x, n)
  PROVE  /\ new \in Ledger
         /\ new[from][x] = bal[from][x] - n /\ new[to][x] = bal[to][x] + n
         /\ \A a \in Accounts \cup System, y \in Assets :
              (a # from /\ a # to) \/ y # x => new[a][y] = bal[a][y]
<1> DEFINE mid == [bal EXCEPT ![from][x] = @ - n]
<1>1. mid \in Ledger /\ mid[from][x] = bal[from][x] - n
  BY DEF Ledger
<1>2. \A a \in Accounts \cup System, y \in Assets : a # from \/ y # x => mid[a][y] = bal[a][y]
  BY DEF Ledger
<1>3. new = [mid EXCEPT ![to][x] = @ + n]
  BY DEF Post
<1> HIDE DEF mid
<1>4. new \in Ledger /\ new[to][x] = mid[to][x] + n
  BY <1>1, <1>3 DEF Ledger
<1>5. \A a \in Accounts \cup System, y \in Assets : a # to \/ y # x => new[a][y] = mid[a][y]
  BY <1>1, <1>3 DEF Ledger
<1> QED
  BY <1>1, <1>2, <1>4, <1>5

\* Prices that were observed at both venues are numbers, and so are values.
LEMMA ValueInt ==
  ASSUME NEW op, IsApprove(op), op.p.kind \in {"grant", "inventory"}
  PROVE  /\ DOMAIN op.prices = {1, 2} => Value(op.p.amount, op.prices) \in Int
         /\ (op.p.asset # Dollar => DOMAIN op.prices = {1, 2}) => InventoryValue(op.p, op.prices) \in Int
<1>1. op.p.amount \in Nat
  BY IssuanceAssumption DEF IsApprove
<1>2. PICK t \in Tickers : op.prices = Observations(t)
  BY DEF IsApprove
<1>3. ASSUME DOMAIN op.prices = {1, 2} PROVE Value(op.p.amount, op.prices) \in Int
  <2>1. \A n \in Int : n \div 2 \in Int
    OBVIOUS
  <2>2. \A v \in {1, 2} : t[v].bid \in Int /\ t[v].ask \in Int
    BY IssuanceAssumption
  <2>3. \A v \in {1, 2} : op.prices[v] = ceilDiv(t[v].bid + t[v].ask, 2)
    BY <1>2, <1>3 DEF Observations
  <2>4. \A v \in {1, 2} : op.prices[v] \in Int
    BY <2>1, <2>2, <2>3 DEF ceilDiv
  <2>5. ceilDiv(op.prices[1] + op.prices[2], 2) \in Int
    BY <2>1, <2>4 DEF ceilDiv
  <2> QED
    BY <1>1, <2>5 DEF Value
<1> QED
  BY <1>1, <1>3 DEF InventoryValue

\* Sums of grants are numbers.
LEMMA GrantedInt ==
  ASSUME NEW g \in [Proposals -> Int], NEW P \in SUBSET Proposals
  PROVE  GrantedIn(g, P) \in Int
<1> DEFINE S == {p \in P : g[p] >= 0}
<1>1. S \in SUBSET Proposals /\ IsFiniteSet(S)
  BY IssuanceAssumption, FS_Subset
<1> HIDE DEF S
<1>2. SumFunctionOnSet(g, S) \in Int
  BY <1>1, SumType
<1> QED
  BY <1>2 DEF S, GrantedIn

\* A grant of a proposal that is not among P does not change their sum.
LEMMA GrantedElsewhere ==
  ASSUME NEW g, NEW P \in SUBSET Proposals, NEW h, \A q \in P : h[q] = g[q]
  PROVE  GrantedIn(h, P) = GrantedIn(g, P)
<1> DEFINE S == {q \in P : g[q] >= 0}
<1>1. IsFiniteSet(S) /\ \A q \in S : h[q] = g[q]
  BY IssuanceAssumption, FS_Subset
<1>2. {q \in P : h[q] >= 0} = S
  OBVIOUS
<1> HIDE DEF S
<1>3. SumFunctionOnSet(h, S) = SumFunctionOnSet(g, S)
  BY <1>1, SumSame
<1> QED
  BY <1>2, <1>3 DEF S, GrantedIn

\* A first grant of one of P adds its value, or nothing when it has none.
LEMMA GrantedOne ==
  ASSUME NEW g \in [Proposals -> Int], NEW P \in SUBSET Proposals, NEW p \in P, g[p] < 0,
         NEW h \in [Proposals -> Int], \A q \in Proposals : q # p => h[q] = g[q]
  PROVE  GrantedIn(h, P) = GrantedIn(g, P) \/ GrantedIn(h, P) = GrantedIn(g, P) + h[p]
<1> DEFINE S == {q \in P : g[q] >= 0}
           T == {q \in P : h[q] >= 0}
<1>1. S \in SUBSET Proposals /\ IsFiniteSet(S) /\ p \notin S /\ p \in Proposals /\ (\A q \in S : h[q] = g[q])
  BY IssuanceAssumption, FS_Subset
<1>2. T = IF h[p] >= 0 THEN S \cup {p} ELSE S
  OBVIOUS
<1>3. GrantedIn(h, P) = SumFunctionOnSet(h, T) /\ GrantedIn(g, P) = SumFunctionOnSet(g, S)
  BY DEF GrantedIn
<1> HIDE DEF S, T
<1>4. SumFunctionOnSet(h, S) = SumFunctionOnSet(g, S) /\ SumFunctionOnSet(g, S) \in Int /\ h[p] \in Int
  BY <1>1, SumSame, SumType
<1>5. SumFunctionOnSet(h, S \cup {p}) = h[p] + SumFunctionOnSet(h, S)
  BY <1>1, SumAdd
<1> QED
  BY <1>2, <1>3, <1>4, <1>5

\* Amounts that are quoted are not negative.
LEMMA QuotedNat ==
  ASSUME NEW q \in Conversions, quotedAmounts(q).out > 0
  PROVE  quotedAmounts(q) \in Quotes /\ quotedAmounts(q).state = "open"
<1> DEFINE p == ConversionPair(q)
           m == conversionPrice(q)
           up == q.amount * m.price * (10000 - p.spread)
           down == m.price * (10000 + p.spread)
           gross == IF m.sell THEN up \div 10000 ELSE (q.amount * 10000) \div down
           fee == (gross * p.fee) \div 10000
<1>1. p.spread \in {50, 75} /\ p.fee \in {10, 20} /\ m.price \in Nat \ {0} /\ q.amount \in Nat
  BY WalletAssumption, RequestAssumption DEF ConversionPair, conversionPrice
<1>2. quotedAmounts(q) = [state |-> "open", out |-> gross - fee, fee |-> fee]
  BY DEF quotedAmounts
<1> HIDE DEF p, m
<1>3. \A n \in Nat, d \in Nat \ {0} : n \div d \in Nat
  OBVIOUS
<1>4. \A k, n \in Nat : k * n \in Nat
  OBVIOUS
<1>5. \A k, n \in Nat \ {0} : k * n \in Nat \ {0}
  OBVIOUS
<1>6. 10000 - p.spread \in Nat /\ 10000 + p.spread \in Nat \ {0} /\ p.fee \in Nat
  BY <1>1
<1>7. q.amount * m.price \in Nat
  BY <1>1, <1>4
<1>8. up \in Nat /\ down \in Nat \ {0} /\ q.amount * 10000 \in Nat
  BY <1>1, <1>4, <1>5, <1>6, <1>7
<1> HIDE DEF up, down
<1>9. gross \in Nat
  BY <1>3, <1>8
<1> HIDE DEF gross
<1>10. fee \in Nat
  <2>1. gross * p.fee \in Nat
    BY <1>4, <1>6, <1>9
  <2> QED
    BY <1>3, <2>1
<1> HIDE DEF fee
<1>11. gross - fee \in Int /\ quotedAmounts(q).out = gross - fee
  BY <1>2, <1>9, <1>10
<1> QED
  BY <1>2, <1>10, <1>11 DEF Quotes
-----------------------------------------------------------------------------
(* What a call has verified when it is idle, begins, or takes a lock *)

\* What the calls have verified in the tables as they are now.
CallOK(op, n) ==
  /\ MoneyOK(op, n, available, quotes) /\ SwitchOK(op, n, enabled) /\ RoleOK(op, n, roles)
  /\ GrantOK(op, n, granted) /\ InventoryOK(op, n, granted, ceiling)

\* All that was verified, call by call.
LEMMA CheckedByCall ==
  MoneyChecked /\ SwitchChecked /\ RolesChecked /\ IssueChecked <=>
    \A c \in Calls : CallOK(call[c].op, Len(call[c].todo))
  BY DEF MoneyChecked, SwitchChecked, RolesChecked, IssueChecked, CallOK

\* An idle call has verified nothing.
LEMMA IdleOK == ASSUME NEW n PROVE CallOK(NoCall.op, n)
  BY DEF CallOK, MoneyOK, SwitchOK, RoleOK, GrantOK, InventoryOK, NoCall

\* A call that begins has nothing to verify yet; a confirmation names a quote that exists.
LEMMA BegunOK ==
  ASSUME NEW op, Asked(op), op.kind = "confirm" => quotes[op.quote].state # "none"
  PROVE  CallOK(op, Len(LocksOf(op)))
<1>1. CASE op \in Transfers /\ op.from # op.to
  <2>1. op.kind = "transfer" /\ Len(LocksOf(op)) = 1
    BY <1>1, TransferLocksAre, RequestAssumption
  <2> QED
    BY <2>1 DEF CallOK, MoneyOK, SwitchOK, RoleOK, GrantOK, InventoryOK
<1>2. CASE IsConfirm(op)
  <2>1. op.kind = "confirm" /\ Len(LocksOf(op)) = 8
    BY <1>2, ConfirmLocksAre DEF IsConfirm
  <2> QED
    BY <2>1 DEF CallOK, MoneyOK, SwitchOK, RoleOK, GrantOK, InventoryOK
<1>3. CASE op \in RoleChanges
  <2>1. op.kind = "role" /\ (~op.grant /\ op.role = Admin => Len(LocksOf(op)) = 2)
    BY <1>3, RoleLocksAre, RequestAssumption
  <2> QED
    BY <2>1 DEF CallOK, MoneyOK, SwitchOK, RoleOK, GrantOK, InventoryOK
<1>4. CASE op.kind \in {"switch", "pilot", "propose"}
  BY <1>4 DEF CallOK, MoneyOK, SwitchOK, RoleOK, GrantOK, InventoryOK
<1>5. CASE IsApprove(op)
  <2>1. /\ op.kind = "approve"
        /\ op.p.kind = "grant" => Len(LocksOf(op)) = 7
        /\ op.p.kind = "inventory" => Len(LocksOf(op)) = 5
        /\ op.p.kind = "limit" => Len(LocksOf(op)) = 2
    BY <1>5, ApproveLocksAre DEF IsApprove
  <2> DEFINE n == Len(LocksOf(op))
  <2> HIDE DEF n
  <2>a. ~(7 <= 2) /\ ~(5 <= 3) /\ ~(5 <= 2)
    OBVIOUS
  <2>2. ASSUME op.p.kind = "grant" PROVE ~(n <= 2)
    <3>1. n = 7
      BY <2>1, <2>2 DEF n
    <3> QED
      BY <2>a, <3>1
  <2>3. ASSUME op.p.kind = "inventory" PROVE ~(n <= 3) /\ ~(n <= 2)
    <3>1. n = 5
      BY <2>1, <2>3 DEF n
    <3> QED
      BY <2>a, <3>1
  <2>4. ASSUME op.p.kind = "limit" PROVE n # 0
    <3>1. n = 2
      BY <2>1, <2>4 DEF n
    <3> QED
      BY <3>1
  <2>5. GrantOK(op, n, granted)
    BY <2>2 DEF GrantOK
  <2>6. InventoryOK(op, n, granted, ceiling)
    BY <2>3, <2>4 DEF InventoryOK
  <2> QED
    BY <2>1, <2>5, <2>6 DEF n, CallOK, MoneyOK, SwitchOK, RoleOK
<1> QED
  BY <1>1, <1>2, <1>3, <1>4, <1>5 DEF Asked, IsPilot, IsPropose

\* A call that takes a lock has verified what it had before and what is verified then.
LEMMA LockedOK ==
  ASSUME NEW op, Asked(op), NEW n \in Nat, CallOK(op, n + 1), IssuanceValid(op, n)
  PROVE  CallOK(op, n)
<1>1. CASE op \in Transfers /\ op.from # op.to
  <2>1. op.kind = "transfer"
    BY <1>1, RequestAssumption
  <2>2. n = 0 => available[op.from][op.asset] >= op.amount
    BY <2>1 DEF IssuanceValid, Valid
  <2> QED
    BY <2>1, <2>2 DEF CallOK, MoneyOK, SwitchOK, RoleOK, GrantOK, InventoryOK
<1>2. CASE IsConfirm(op)
  <2>1. op.kind = "confirm"
    BY <1>2 DEF IsConfirm
  <2>2. (n = 7 => enabled) /\ (n = 0 => Affordable(op.quote))
    BY <2>1 DEF IssuanceValid, Valid
  <2>3. quotes[op.quote].state # "none" /\ (n + 1 <= 7 => enabled)
    BY <2>1 DEF CallOK, MoneyOK, SwitchOK
  <2>4. n <= 7 => n = 7 \/ n + 1 <= 7
    OBVIOUS
  <2>5. MoneyOK(op, n, available, quotes) /\ SwitchOK(op, n, enabled)
    BY <2>1, <2>2, <2>3, <2>4 DEF MoneyOK, SwitchOK, Affordable, Gross
  <2> QED
    BY <2>1, <2>5 DEF CallOK, RoleOK, GrantOK, InventoryOK
<1>3. CASE op \in RoleChanges
  <2>1. op.kind = "role"
    BY <1>3, RequestAssumption
  <2>2. n = 1 => Cardinality({e \in roles : e.role = Admin}) > 1
    BY <2>1 DEF IssuanceValid, Valid, Administrators
  <2>3. n + 1 <= 1 => (~op.grant /\ op.role = Admin => Cardinality({e \in roles : e.role = Admin}) > 1)
    BY <2>1 DEF CallOK, RoleOK
  <2>4. n <= 1 => n = 1 \/ n + 1 <= 1
    OBVIOUS
  <2>5. RoleOK(op, n, roles)
    BY <2>2, <2>3, <2>4 DEF RoleOK
  <2> QED
    BY <2>1, <2>5 DEF CallOK, MoneyOK, SwitchOK, GrantOK, InventoryOK
<1>4. CASE op.kind \in {"switch", "pilot", "propose"}
  BY <1>4 DEF CallOK, MoneyOK, SwitchOK, RoleOK, GrantOK, InventoryOK
<1>5. CASE IsApprove(op)
  <2>1. op.kind = "approve"
    BY <1>5 DEF IsApprove
  <2>2. ApprovalValid(op.p, op, n)
    BY <2>1 DEF IssuanceValid
  <2>3. GrantOK(op, n, granted)
    <3> SUFFICES ASSUME n <= 2, op.p.kind = "grant"
                 PROVE  /\ granted[op.p] < 0 /\ DOMAIN op.prices = {1, 2}
                        /\ GrantedIn(granted, Grants(Owner[op.p.account])) + Value(op.p.amount, op.prices) <= TesterLimit
      BY DEF GrantOK
    <3>1. CASE n = 2
      <4>1. GrantValid(op.p, op)
        BY <2>2, <3>1 DEF ApprovalValid
      <4>2. granted[op.p] < 0 /\ DOMAIN op.prices = {1, 2}
        BY <4>1 DEF GrantValid, Approvable, Agree
      <4>3. Granted(Grants(Owner[op.p.account])) + Value(op.p.amount, op.prices) <= TesterLimit
        BY <4>1 DEF GrantValid, CheckQuota
      <4> QED
        BY <4>2, <4>3 DEF Granted, GrantedIn
    <3>2. CASE n # 2
      <4>1. n + 1 <= 2
        BY <3>2
      <4> QED
        BY <2>1, <4>1 DEF CallOK, GrantOK
    <3> QED
      BY <3>1, <3>2
  <2>4. ASSUME op.p.kind = "inventory", n <= 3 PROVE granted[op.p] < 0
    <3>1. n = 3 => Approvable(op.p)
      BY <2>2, <2>4 DEF ApprovalValid
    <3>2. n + 1 <= 3 => granted[op.p] < 0
      BY <2>1, <2>4 DEF CallOK, InventoryOK
    <3>3. n = 3 \/ n + 1 <= 3
      BY <2>4
    <3> QED
      BY <3>1, <3>2, <3>3 DEF Approvable
  <2>5. ASSUME op.p.kind = "inventory", n <= 2
        PROVE  /\ op.p.asset # Dollar => DOMAIN op.prices = {1, 2}
               /\ GrantedIn(granted, Inventory) + InventoryValue(op.p, op.prices) <= ceiling
    <3>1. n = 2 => InventoryValid(op.p, op)
      BY <2>2, <2>5 DEF ApprovalValid
    <3>2. n + 1 <= 2 => /\ op.p.asset # Dollar => DOMAIN op.prices = {1, 2}
                        /\ GrantedIn(granted, Inventory) + InventoryValue(op.p, op.prices) <= ceiling
      BY <2>1, <2>5 DEF CallOK, InventoryOK
    <3>3. n = 2 \/ n + 1 <= 2
      BY <2>5
    <3> QED
      BY <3>1, <3>2, <3>3 DEF InventoryValid, Agree, Granted, GrantedIn
  <2>6. ASSUME op.p.kind = "limit", n = 0 PROVE op.p.limit >= GrantedIn(granted, Inventory)
    BY <2>2, <2>6 DEF ApprovalValid, LimitValid, Granted, GrantedIn
  <2>7. InventoryOK(op, n, granted, ceiling)
    BY <2>4, <2>5, <2>6 DEF InventoryOK
  <2> QED
    BY <2>1, <2>3, <2>7 DEF CallOK, MoneyOK, SwitchOK, RoleOK
<1> QED
  BY <1>1, <1>2, <1>3, <1>4, <1>5 DEF Asked, IsPilot, IsPropose
-----------------------------------------------------------------------------
(* Steps of the transactions that leave the tables alone *)

tables == <<available, quotes, enabled, roles, granted, ceiling>>

\* A step of one call that leaves the tables alone.
LEMMA CallStep ==
  ASSUME TreasuryInv, NEW c \in Calls, UNCHANGED tables, CallsInv', \A d \in Calls : d # c => call'[d] = call[d],
         NEW k, call'[c] = k, CallOK(k.op, Len(k.todo))
  PROVE  TreasuryInv'
<1>1. UNCHANGED <<available, quotes, enabled, roles, granted, ceiling>>
  BY DEF tables
<1>2. \A d \in Calls : CallOK(call[d].op, Len(call[d].todo))
  BY CheckedByCall DEF TreasuryInv, MoneyInv, SwitchInv, RolesInv, IssueInv
<1>3. \A d \in Calls : CallOK(call'[d].op, Len(call'[d].todo))
  <2>1. TAKE d \in Calls
  <2>2. CASE d = c
    BY <2>2
  <2>3. CASE d # c
    BY <1>2, <2>3
  <2> QED
    BY <2>2, <2>3
<1>4. MoneyChecked' /\ SwitchChecked' /\ RolesChecked' /\ IssueChecked'
  BY <1>1, <1>3 DEF CallOK, MoneyChecked, SwitchChecked, RolesChecked, IssueChecked
<1>5. MoneyTables' /\ IssueTables' /\ enabled' \in BOOLEAN /\ IsFiniteSet(roles')
  BY <1>1 DEF TreasuryInv, MoneyInv, SwitchInv, RolesInv, IssueInv, MoneyTables, IssueTables
<1>6. NotOverdrawn' /\ AdministratorRemains' /\ WithinLimits'
  BY <1>1 DEF TreasuryInv, MoneyInv, RolesInv, IssueInv, NotOverdrawn, AdministratorRemains, Administrators, WithinLimits, Granted
<1> QED
  BY <1>4, <1>5, <1>6 DEF TreasuryInv, MoneyInv, SwitchInv, RolesInv, IssueInv

\* A call begins.
LEMMA BeginKeeps ==
  ASSUME TreasuryInv, NEW c \in Calls, NEW op, Asked(op), Begin(c, op, LocksOf(op)), UNCHANGED tables,
         op.kind = "confirm" => quotes[op.quote].state # "none"
  PROVE  TreasuryInv'
<1>1. CallsOK /\ Exclusive
  BY DEF TreasuryInv, CallsInv
<1> DEFINE k == [op |-> op, held |-> {}, todo |-> LocksOf(op)]
<1>2. CallsInv' /\ call'[c] = k /\ \A d \in Calls : d # c => call'[d] = call[d]
  BY <1>1, BeginStep DEF CallsInv
<1>3. CallOK(op, Len(LocksOf(op)))
  BY BegunOK
<1>4. k.op = op /\ k.todo = LocksOf(op)
  OBVIOUS
<1> HIDE DEF k
<1> QED
  BY <1>2, <1>3, <1>4, CallStep

\* A call is ended without any effect.
LEMMA EndKeeps ==
  ASSUME TreasuryInv, NEW c \in Calls, End(c), UNCHANGED tables
  PROVE  TreasuryInv'
<1>1. CallsOK /\ Exclusive
  BY DEF TreasuryInv, CallsInv
<1>2. CallsInv' /\ call'[c] = NoCall /\ \A d \in Calls : d # c => call'[d] = call[d]
  BY <1>1, EndStep DEF CallsInv
<1> DEFINE n == Len(NoCall.todo)
<1>3. CallOK(NoCall.op, n)
  <2> HIDE DEF n
  <2> QED
    BY IdleOK
<1> QED
  BY <1>2, <1>3, CallStep

\* A call takes its next lock, or is refused.
LEMMA LockKeeps ==
  ASSUME TreasuryInv, NEW c \in Calls, Lock(c)
  PROVE  TreasuryInv'
<1>1. CallsOK /\ Exclusive /\ UNCHANGED tables
  BY DEF TreasuryInv, CallsInv, Lock, tables, ledgerVars, adminVars, issuanceVars
<1>2. PICK op : op = call[c].op
  OBVIOUS
<1>3. PICK m : m = Len(call[c].todo)
  OBVIOUS
<1>4. PICK valid : valid = IssuanceValid(op, m - 1)
  OBVIOUS
<1>5. Acquire(c, valid)
  BY <1>2, <1>3, <1>4 DEF Lock, Acquire
<1>6. /\ CallsInv' /\ Progress(c) /\ \A d \in Calls : d # c => call'[d] = call[d]
      /\ \/ call'[c] = NoCall
         \/ /\ valid /\ call'[c].op = call[c].op
            /\ Len(call[c].todo) \in Nat \ {0} /\ Len(call'[c].todo) = Len(call[c].todo) - 1
  BY <1>1, <1>5, AcquireStep DEF CallsInv
<1>7. CASE call'[c] = NoCall
  <2> DEFINE n == Len(NoCall.todo)
  <2>1. CallOK(NoCall.op, n)
    <3> HIDE DEF n
    <3> QED
      BY IdleOK
  <2> QED
    BY <1>1, <1>6, <1>7, <2>1, CallStep
<1>8. CASE call'[c] # NoCall
  <2>1. valid /\ m \in Nat \ {0} /\ call'[c].op = op /\ Len(call'[c].todo) = m - 1 /\ Asked(op)
    BY <1>2, <1>3, <1>6, <1>8 DEF Progress
  <2>2. CallOK(op, m)
    BY <1>2, <1>3, CheckedByCall DEF TreasuryInv, MoneyInv, SwitchInv, RolesInv, IssueInv
  <2>3. PICK n : n = m - 1
    OBVIOUS
  <2>4. n \in Nat /\ n + 1 = m
    BY <2>1, <2>3
  <2>5. CallOK(op, n + 1) /\ IssuanceValid(op, n)
    BY <1>4, <2>1, <2>2, <2>3, <2>4
  <2>6. CallOK(op, n)
    BY <2>1, <2>4, <2>5, LockedOK
  <2>7. PICK k : k = call'[c]
    OBVIOUS
  <2>8. call'[c] = k /\ CallOK(k.op, Len(k.todo))
    BY <2>1, <2>3, <2>6, <2>7
  <2> QED
    BY <1>1, <1>6, <2>8, CallStep
<1> QED
  BY <1>7, <1>8
-----------------------------------------------------------------------------
(* What the locks exclude *)

\* Which kind of call each one is.
LEMMA KindOf ==
  ASSUME NEW op, Asked(op)
  PROVE  /\ op.kind = "transfer" => op \in Transfers /\ op.from # op.to
         /\ op.kind = "confirm" => IsConfirm(op)
         /\ op.kind = "role" => op \in RoleChanges
         /\ op.kind = "approve" => IsApprove(op)
         /\ op.kind = "pilot" => IsPilot(op)
         /\ op.kind = "propose" => IsPropose(op)
<1>1. op \in Transfers => op.kind = "transfer"
  BY RequestAssumption
<1>2. op \in RoleChanges => op.kind = "role"
  BY RequestAssumption
<1>3. IsConfirm(op) => op.kind = "confirm"
  BY DEF IsConfirm
<1>4. IsApprove(op) => op.kind = "approve"
  BY DEF IsApprove
<1>5. (IsPilot(op) => op.kind = "pilot") /\ (IsPropose(op) => op.kind = "propose")
  BY DEF IsPilot, IsPropose
<1> QED
  BY <1>1, <1>2, <1>3, <1>4, <1>5 DEF Asked

\* A call that does something is in progress.
LEMMA Running ==
  ASSUME CallsInv, NEW c \in Calls, call[c].op.kind # "none"
  PROVE  Progress(c)
  BY DEF CallsInv, CallsOK, NoCall

\* A call that has all its locks has those of the balances it takes money from.
LEMMA GuardedLocked ==
  ASSUME NEW d, Progress(d), call[d].todo = <<>>, NEW b \in Guarded(call[d].op)
  PROVE  LockAccountAsset(b[1], b[2]) \in call[d].held
<1>1. PICK op : op = call[d].op
  OBVIOUS
<1>2. PICK L : L = LocksOf(op)
  OBVIOUS
<1>3. Asked(op) /\ call[d].held = Taken(L, Len(L))
  BY <1>1, <1>2, ProgressFacts
<1>4. CASE op.kind = "transfer"
  <2>1. b[1] = op.from /\ b[2] = op.asset
    BY <1>1, <1>4 DEF Guarded
  <2>2. Len(L) = 1 /\ L[1] = LockAccountAsset(op.from, op.asset)
    BY <1>2, <1>3, <1>4, KindOf, TransferLocksAre
  <2>3. 1 \in 1..Len(L)
    BY <2>2
  <2> QED
    BY <1>3, <2>1, <2>2, <2>3 DEF Taken
<1>5. CASE op.kind = "confirm"
  <2>1. IsConfirm(op)
    BY <1>3, <1>5, KindOf
  <2>2. /\ Len(L) = 8
        /\ LockAccountAsset(op.quote.account, op.quote.from) \in Taken(L, 8)
        /\ LockAccountAsset("conversion-treasury", op.quote.to) \in Taken(L, 8)
    BY <1>2, <2>1, ConfirmLocksAre
  <2>3. b = <<op.quote.account, op.quote.from>> \/ b = <<"conversion-treasury", op.quote.to>>
    BY <1>1, <1>5 DEF Guarded
  <2>4. CASE b = <<op.quote.account, op.quote.from>>
    BY <1>3, <2>2, <2>4
  <2>5. CASE b = <<"conversion-treasury", op.quote.to>>
    BY <1>3, <2>2, <2>5
  <2> QED
    BY <2>3, <2>4, <2>5
<1> QED
  BY <1>1, <1>4, <1>5 DEF Guarded

\* Two calls that have all their locks do not take money from the same balance.
LEMMA GuardedApart ==
  ASSUME CallsInv, NEW c \in Calls, NEW d \in Calls, c # d, Progress(c), Progress(d),
         call[c].todo = <<>>, call[d].todo = <<>>, NEW b \in Guarded(call[c].op), b \in Guarded(call[d].op)
  PROVE  FALSE
<1> DEFINE l == LockAccountAsset(b[1], b[2])
<1>1. l \in call[c].held /\ l \in call[d].held
  BY GuardedLocked
<1>2. l.share = FALSE
  BY DEF LockAccountAsset
<1> HIDE DEF l
<1> QED
  BY <1>1, <1>2 DEF CallsInv, Exclusive, Conflict

\* The first lock of a call that has taken one.
LEMMA FirstLocked ==
  ASSUME NEW d, Progress(d), NEW op, op = call[d].op, NEW n, n = Len(call[d].todo)
  PROVE  /\ op.kind = "confirm" /\ n <= 7 => ForShare(<<"control">>) \in call[d].held
         /\ op.kind = "switch" /\ n = 0 => ForUpdate(<<"control">>) \in call[d].held
         /\ op.kind = "role" /\ ~op.grant /\ op.role = Admin /\ n <= 1 => ForUpdate(<<"administrators">>) \in call[d].held
         /\ op.kind = "approve" /\ op.p.kind = "grant" /\ n <= 2 => loadPolicy \in call[d].held
         /\ op.kind = "approve" /\ op.p.kind = "inventory" /\ n <= 3 => ForUpdate(<<"treasury">>) \in call[d].held
         /\ op.kind = "approve" /\ op.p.kind = "limit" /\ n = 0 => ForUpdate(<<"treasury">>) \in call[d].held
<1>1. PICK L : L = LocksOf(op)
  OBVIOUS
<1>2. Asked(op) /\ n \in Nat /\ Len(L) \in Nat /\ (n < Len(L) => L[1] \in call[d].held)
  BY <1>1, ProgressFacts
<1>3. op.kind = "confirm" => Len(L) = 8 /\ L[1] = ForShare(<<"control">>)
  BY <1>1, <1>2, KindOf, ConfirmLocksAre
<1>4. op.kind = "switch" => Len(L) = 1 /\ L[1] = ForUpdate(<<"control">>)
  BY <1>1, SwitchLocksAre
<1>5. op.kind = "role" /\ ~op.grant /\ op.role = Admin => Len(L) = 2 /\ L[1] = ForUpdate(<<"administrators">>)
  BY <1>1, <1>2, KindOf, RoleLocksAre
<1>6. /\ op.kind = "approve" /\ op.p.kind = "grant" => Len(L) = 7 /\ L[1] = loadPolicy
      /\ op.kind = "approve" /\ op.p.kind = "inventory" => Len(L) = 5 /\ L[1] = ForUpdate(<<"treasury">>)
      /\ op.kind = "approve" /\ op.p.kind = "limit" => Len(L) = 2 /\ L[1] = ForUpdate(<<"treasury">>)
  BY <1>1, <1>2, KindOf, ApproveLocksAre
<1>7. /\ n <= 7 => n < 8
      /\ n = 0 => n < 1 /\ n < 2
      /\ n <= 1 => n < 2
      /\ n <= 2 => n < 7
      /\ n <= 3 => n < 5
  BY <1>2
<1> QED
  BY <1>2, <1>3, <1>4, <1>5, <1>6, <1>7

\* Two calls do not hold the same lock for update, nor one of them for update and the other for share.
LEMMA HeldAlone ==
  ASSUME CallsInv, NEW c \in Calls, NEW d \in Calls, c # d, NEW row, ForUpdate(row) \in call[c].held
  PROVE  ForUpdate(row) \notin call[d].held /\ ForShare(row) \notin call[d].held
<1>1. /\ ForUpdate(row).res = row /\ ForUpdate(row).share = FALSE
      /\ ForShare(row).res = row
  BY DEF ForUpdate, ForShare
<1> QED
  BY <1>1 DEF CallsInv, Exclusive, Conflict
-----------------------------------------------------------------------------
(* What the other calls have verified stays true *)

\* The calls in D go on as they are, the others are idle after the step.
Stay(D) == /\ D \subseteq Calls /\ \A d \in D : call'[d] = call[d]
           /\ \A d \in Calls \ D : call'[d] = NoCall

\* Quotes that exist keep their amounts.
QuotesKept ==
  \A q \in Conversions : quotes[q].state # "none" =>
    quotes'[q].state # "none" /\ quotes'[q].out = quotes[q].out /\ quotes'[q].fee = quotes[q].fee

\* Money is taken from balances that exist, by calls that are in progress.
LEMMA GuardedBalances ==
  ASSUME NEW d, Progress(d), NEW b \in Guarded(call[d].op)
  PROVE  b[1] \in Accounts \cup {"conversion-treasury"} /\ b[2] \in Assets /\ b = <<b[1], b[2]>>
<1>1. PICK op : op = call[d].op
  OBVIOUS
<1>2. Asked(op)
  BY <1>1 DEF Progress
<1>3. CASE op.kind = "transfer"
  <2>1. op \in Transfers /\ b = <<op.from, op.asset>>
    BY <1>1, <1>2, <1>3, KindOf DEF Guarded
  <2> QED
    BY <2>1, RequestAssumption
<1>4. CASE op.kind = "confirm"
  <2>1. PICK q \in Conversions : q = op.quote
    BY <1>2, <1>4, KindOf DEF IsConfirm
  <2>2. b = <<q.account, q.from>> \/ b = <<"conversion-treasury", q.to>>
    BY <1>1, <1>4, <2>1 DEF Guarded
  <2>3. q.account \in Accounts /\ q.from \in Assets /\ q.to \in Assets
    BY RequestAssumption
  <2> QED
    BY <2>2, <2>3
<1> QED
  BY <1>1, <1>3, <1>4 DEF Guarded

\* An idle call takes no money.
LEMMA GuardedBusy ==
  ASSUME CallsInv, NEW d \in Calls, NEW b \in Guarded(call[d].op)
  PROVE  Progress(d)
  BY DEF CallsInv, CallsOK, NoCall, Guarded

\* Balances from which a call that has all its locks takes money do not fall.
LEMMA MoneyKeeps ==
  ASSUME CallsInv, MoneyInv, NEW D, Stay(D), MoneyTables', NotOverdrawn', QuotesKept,
         \A d \in D : call[d].todo = <<>> =>
           \A b \in Guarded(call[d].op) : available'[b[1]][b[2]] >= available[b[1]][b[2]]
  PROVE  MoneyInv'
<1> SUFFICES ASSUME NEW d \in Calls
             PROVE  MoneyOK(call'[d].op, Len(call'[d].todo), available', quotes')
  BY DEF MoneyInv, MoneyChecked
<1>1. CASE d \notin D \/ call[d] = NoCall
  <2>1. call'[d] = NoCall
    BY <1>1 DEF Stay
  <2> QED
    BY <2>1 DEF MoneyOK, NoCall
<1>2. CASE d \in D /\ call[d] # NoCall
  <2>1. PICK op : op = call[d].op
    OBVIOUS
  <2>2. PICK n : n = Len(call[d].todo)
    OBVIOUS
  <2>3. call'[d].op = op /\ Len(call'[d].todo) = n
    BY <1>2, <2>1, <2>2 DEF Stay
  <2>4. Progress(d) /\ Asked(op) /\ (n = 0 => call[d].todo = <<>>)
    <3>1. Progress(d)
      BY <1>2 DEF CallsInv, CallsOK
    <3>2. PICK L : L = LocksOf(call[d].op)
      OBVIOUS
    <3> QED
      BY <2>1, <2>2, <3>1, <3>2, ProgressFacts
  <2>5. MoneyOK(op, n, available, quotes)
    BY <2>1, <2>2 DEF MoneyInv, MoneyChecked
  <2>6. n = 0 => \A b \in Guarded(op) : available'[b[1]][b[2]] >= available[b[1]][b[2]]
    BY <1>2, <2>1, <2>4
  <2>7. MoneyTables
    BY DEF MoneyInv
  <2>8. CASE op.kind = "transfer"
    <3>1. op.from \in Accounts /\ op.asset \in Assets /\ op.amount \in Nat
      BY <2>4, <2>8, KindOf, RequestAssumption
    <3>2. available[op.from][op.asset] \in Int /\ available'[op.from][op.asset] \in Int
      BY <2>7, <3>1 DEF MoneyTables, Ledger
    <3>3. <<op.from, op.asset>> \in Guarded(op)
      BY <2>8 DEF Guarded
    <3>4. n = 0 => available'[op.from][op.asset] >= available[op.from][op.asset]
      BY <2>6, <3>3
    <3>5. n = 0 => available[op.from][op.asset] >= op.amount
      BY <2>5, <2>8 DEF MoneyOK
    <3>6. n = 0 => available'[op.from][op.asset] >= op.amount
      BY <3>1, <3>2, <3>4, <3>5
    <3> QED
      BY <2>3, <2>8, <3>6 DEF MoneyOK
  <2>9. CASE op.kind = "confirm"
    <3>1. op.quote \in Conversions
      BY <2>4, <2>9, KindOf DEF IsConfirm
    <3>2. PICK q \in Conversions : q = op.quote
      BY <3>1
    <3>3. q.account \in Accounts /\ q.from \in Assets /\ q.to \in Assets /\ q.amount \in Nat
      BY RequestAssumption
    <3>4. quotes[q].state # "none"
      BY <2>5, <2>9, <3>2 DEF MoneyOK
    <3>5. quotes'[q].state # "none" /\ quotes'[q].out = quotes[q].out /\ quotes'[q].fee = quotes[q].fee
      BY <3>4 DEF QuotesKept
    <3>6. quotes[q].out \in Nat /\ quotes[q].fee \in Nat
      BY <2>7 DEF MoneyTables, Quotes
    <3>7. /\ available[q.account][q.from] \in Int /\ available'[q.account][q.from] \in Int
          /\ available["conversion-treasury"][q.to] \in Int /\ available'["conversion-treasury"][q.to] \in Int
      BY <2>7, <3>3 DEF MoneyTables, Ledger, System
    <3>8. <<q.account, q.from>> \in Guarded(op) /\ <<"conversion-treasury", q.to>> \in Guarded(op)
      BY <2>9, <3>2 DEF Guarded
    <3>9. n = 0 => /\ available'[q.account][q.from] >= available[q.account][q.from]
                   /\ available'["conversion-treasury"][q.to] >= available["conversion-treasury"][q.to]
      BY <2>6, <3>8
    <3>10. n = 0 => /\ available[q.account][q.from] >= q.amount
                    /\ available["conversion-treasury"][q.to] >= quotes[q].out + quotes[q].fee
      BY <2>5, <2>9, <3>2 DEF MoneyOK
    <3>a. \A i, j, k \in Int : i >= j /\ j >= k => i >= k
      OBVIOUS
    <3>b. q.amount \in Int /\ quotes[q].out + quotes[q].fee \in Int
      BY <3>3, <3>6
    <3>11. n = 0 => /\ available'[q.account][q.from] >= q.amount
                    /\ available'["conversion-treasury"][q.to] >= quotes'[q].out + quotes'[q].fee
      BY <3>5, <3>7, <3>9, <3>10, <3>a, <3>b
    <3> QED
      BY <2>3, <2>9, <3>2, <3>5, <3>11 DEF MoneyOK
  <2>10. CASE op.kind \notin {"transfer", "confirm"}
    BY <2>3, <2>10 DEF MoneyOK
  <2> QED
    BY <2>8, <2>9, <2>10
<1> QED
  BY <1>1, <1>2

\* Steps that leave the balances and the quotes alone.
LEMMA MoneySame ==
  ASSUME CallsInv, MoneyInv, NEW D, Stay(D), UNCHANGED <<available, quotes>>
  PROVE  MoneyInv'
<1>1. MoneyTables' /\ NotOverdrawn' /\ QuotesKept
  BY DEF MoneyInv, MoneyTables, NotOverdrawn, QuotesKept
<1>2. ASSUME NEW d \in Calls, NEW b \in Guarded(call[d].op), Progress(d)
      PROVE  available'[b[1]][b[2]] >= available[b[1]][b[2]]
  <2>1. b[1] \in Accounts \cup System /\ b[2] \in Assets
    BY <1>2, GuardedBalances DEF System
  <2>2. available \in [Accounts \cup System -> [Assets -> Int]]
    BY DEF MoneyInv, MoneyTables, Ledger
  <2>3. available[b[1]][b[2]] \in Int
    BY <2>1, <2>2
  <2> QED
    BY <2>3
<1>3. \A d \in D : call[d].todo = <<>> =>
        \A b \in Guarded(call[d].op) : available'[b[1]][b[2]] >= available[b[1]][b[2]]
  BY <1>2, GuardedBusy DEF Stay
<1> QED
  BY <1>1, <1>3, MoneyKeeps

\* Steps that leave the switch alone.
LEMMA SwitchSame ==
  ASSUME SwitchInv, NEW D, Stay(D), enabled' = enabled
  PROVE  SwitchInv'
<1>1. \A d \in Calls : SwitchOK(call'[d].op, Len(call'[d].todo), enabled)
  BY DEF SwitchInv, SwitchChecked, Stay, SwitchOK, NoCall
<1> QED
  BY <1>1 DEF SwitchInv, SwitchChecked

\* Steps that leave the roles alone.
LEMMA RolesSame ==
  ASSUME RolesInv, NEW D, Stay(D), roles' = roles
  PROVE  RolesInv'
<1>1. \A d \in Calls : RoleOK(call'[d].op, Len(call'[d].todo), roles)
  BY DEF RolesInv, RolesChecked, Stay, RoleOK, NoCall
<1> QED
  BY <1>1 DEF RolesInv, RolesChecked, AdministratorRemains, Administrators

\* Steps that leave the grants and the ceiling alone.
LEMMA IssueSame ==
  ASSUME IssueInv, NEW D, Stay(D), UNCHANGED <<granted, ceiling>>
  PROVE  IssueInv'
<1>1. \A d \in Calls : /\ GrantOK(call'[d].op, Len(call'[d].todo), granted)
                       /\ InventoryOK(call'[d].op, Len(call'[d].todo), granted, ceiling)
  BY DEF IssueInv, IssueChecked, Stay, GrantOK, InventoryOK, NoCall
<1> QED
  BY <1>1 DEF IssueInv, IssueTables, IssueChecked, WithinLimits, Granted
-----------------------------------------------------------------------------
(* Commits of transfers and conversions *)

\* A commit ends its call and leaves the others alone.
LEMMA CommitStays ==
  ASSUME CallsInv, NEW c \in Calls, End(c)
  PROVE  CallsInv' /\ Stay(Calls \ {c})
<1>1. CallsOK /\ Exclusive
  BY DEF CallsInv
<1>2. CallsOK' /\ Exclusive' /\ call'[c] = NoCall /\ \A d \in Calls : d # c => call'[d] = call[d]
  BY <1>1, EndStep
<1> QED
  BY <1>2 DEF CallsInv, Stay

\* A commit takes money only from balances that its call has locked.
LEMMA MoneyCommit ==
  ASSUME CallsInv, MoneyInv, NEW c \in Calls, Progress(c), call[c].todo = <<>>, End(c),
         MoneyTables', NotOverdrawn', QuotesKept,
         \A a \in Accounts \cup {"conversion-treasury"}, x \in Assets :
           <<a, x>> \notin Guarded(call[c].op) => available'[a][x] >= available[a][x]
  PROVE  MoneyInv'
<1> DEFINE D == Calls \ {c}
<1>1. Stay(D)
  BY CommitStays
<1>2. ASSUME NEW d \in D, call[d].todo = <<>>, NEW b \in Guarded(call[d].op)
      PROVE  available'[b[1]][b[2]] >= available[b[1]][b[2]]
  <2>1. d \in Calls /\ d # c
    OBVIOUS
  <2>2. Progress(d)
    BY <1>2, <2>1, GuardedBusy
  <2>3. b[1] \in Accounts \cup {"conversion-treasury"} /\ b[2] \in Assets /\ b = <<b[1], b[2]>>
    BY <1>2, <2>2, GuardedBalances
  <2>4. b \notin Guarded(call[c].op)
    BY <1>2, <2>1, <2>2, GuardedApart
  <2> QED
    BY <2>3, <2>4
<1> HIDE DEF D
<1> QED
  BY <1>1, <1>2, MoneyKeeps

\* The balances after a conversion.
LEMMA SettleAt ==
  ASSUME MoneyTables, NEW q \in Conversions, NEW new, new = Settle(q)
  PROVE  LET T == "conversion-treasury"
             F == "conversion-fees" IN
         /\ new \in Ledger
         /\ new[q.account][q.from] = available[q.account][q.from] - q.amount
         /\ new[T][q.from] = available[T][q.from] + q.amount
         /\ new[T][q.to] = available[T][q.to] - quotes[q].out - quotes[q].fee
         /\ new[q.account][q.to] = available[q.account][q.to] + quotes[q].out
         /\ new[F][q.to] = available[F][q.to] + quotes[q].fee
         /\ \A a \in Accounts \cup System, x \in Assets :
              <<a, x>> \notin {<<q.account, q.from>>, <<T, q.from>>, <<T, q.to>>, <<q.account, q.to>>, <<F, q.to>>}
              => new[a][x] = available[a][x]
<1> DEFINE T == "conversion-treasury"
           F == "conversion-fees"
           b1 == Post(available, q.account, T, q.from, q.amount)
           b2 == Post(b1, T, q.account, q.to, quotes[q].out)
           b3 == Post(b2, T, F, q.to, quotes[q].fee)
<1>1. /\ q.account \in Accounts \cup System /\ T \in Accounts \cup System /\ F \in Accounts \cup System /\ q.account # T /\ q.account # F /\ T # F
      /\ q.from \in Assets /\ q.to \in Assets /\ q.from # q.to
      /\ q.amount \in Int /\ quotes[q].out \in Int /\ quotes[q].fee \in Int
  BY RequestAssumption, WalletAssumption DEF System, MoneyTables, Quotes
<1>2. new = b3
  BY DEF Settle
<1>3. available \in Ledger
  BY DEF MoneyTables
<1> HIDE DEF b1, b2, b3, T, F
<1>a. PICK a : a = q.account
  OBVIOUS
<1>b. PICK x : x = q.from
  OBVIOUS
<1>c. PICK y : y = q.to
  OBVIOUS
<1>d. PICK out : out = quotes[q].out
  OBVIOUS
<1>e. PICK fee : fee = quotes[q].fee
  OBVIOUS
<1>f. /\ a \in Accounts \cup System /\ T \in Accounts \cup System /\ F \in Accounts \cup System
      /\ a # T /\ a # F /\ T # F /\ x \in Assets /\ y \in Assets /\ x # y
      /\ q.amount \in Int /\ out \in Int /\ fee \in Int
  BY <1>1, <1>a, <1>b, <1>c, <1>d, <1>e
<1>4. /\ b1 \in Ledger
      /\ b1[a][x] = available[a][x] - q.amount /\ b1[T][x] = available[T][x] + q.amount
      /\ \A e \in Accounts \cup System, z \in Assets : (e # a /\ e # T) \/ z # x => b1[e][z] = available[e][z]
  <2>1. b1 = Post(available, a, T, x, q.amount)
    BY <1>a, <1>b, <1>c, <1>d, <1>e DEF b1
  <2>2. a \in Accounts \cup System
    BY <1>f
  <2>3. T \in Accounts \cup System
    BY <1>f
  <2>4. a # T /\ x \in Assets /\ q.amount \in Int
    BY <1>f
  <2> QED
    BY <1>3, <2>1, <2>2, <2>3, <2>4, PostAt
<1>5. /\ b2 \in Ledger
      /\ b2[T][y] = b1[T][y] - out /\ b2[a][y] = b1[a][y] + out
      /\ \A e \in Accounts \cup System, z \in Assets : (e # T /\ e # a) \/ z # y => b2[e][z] = b1[e][z]
  <2>1. b2 = Post(b1, T, a, y, out)
    BY <1>a, <1>b, <1>c, <1>d, <1>e DEF b2
  <2>2. T \in Accounts \cup System
    BY <1>f
  <2>3. a \in Accounts \cup System
    BY <1>f
  <2>4. T # a /\ y \in Assets /\ out \in Int
    BY <1>f
  <2> QED
    BY <1>4, <2>1, <2>2, <2>3, <2>4, PostAt
<1>6. /\ b3 \in Ledger
      /\ b3[T][y] = b2[T][y] - fee /\ b3[F][y] = b2[F][y] + fee
      /\ \A e \in Accounts \cup System, z \in Assets : (e # T /\ e # F) \/ z # y => b3[e][z] = b2[e][z]
  <2>1. b3 = Post(b2, T, F, y, fee)
    BY <1>a, <1>b, <1>c, <1>d, <1>e DEF b3
  <2>2. T \in Accounts \cup System
    BY <1>f
  <2>3. F \in Accounts \cup System
    BY <1>f
  <2>4. T # F /\ y \in Assets /\ fee \in Int
    BY <1>f
  <2> QED
    BY <1>5, <2>1, <2>2, <2>3, <2>4, PostAt
<1>7. b3[a][x] = available[a][x] - q.amount
  BY <1>f, <1>4, <1>5, <1>6
<1>8. b3[T][x] = available[T][x] + q.amount
  BY <1>f, <1>4, <1>5, <1>6
<1>9. b3[T][y] = available[T][y] - out - fee
  BY <1>f, <1>4, <1>5, <1>6
<1>10. b3[a][y] = available[a][y] + out
  BY <1>f, <1>4, <1>5, <1>6
<1>11. b3[F][y] = available[F][y] + fee
  BY <1>f, <1>4, <1>5, <1>6
<1>12. ASSUME NEW e \in Accounts \cup System, NEW z \in Assets,
              <<e, z>> \notin {<<a, x>>, <<T, x>>, <<T, y>>, <<a, y>>, <<F, y>>}
       PROVE  b3[e][z] = available[e][z]
  BY <1>4, <1>5, <1>6, <1>12
<1> QED
  BY <1>2, <1>6, <1>7, <1>8, <1>9, <1>10, <1>11, <1>12, <1>a, <1>b, <1>c, <1>d, <1>e DEF T, F

\* A transfer is posted, or its key was used.
LEMMA TransferCommits ==
  ASSUME CallsInv, MoneyInv, NEW c \in Calls, CreateInternalTransfer(c)
  PROVE  MoneyInv'
<1>1. PICK op : op = call[c].op
  OBVIOUS
<1>2. op.kind = "transfer" /\ call[c].todo = <<>> /\ End(c) /\ quotes' = quotes
  BY <1>1 DEF CreateInternalTransfer, adminVars
<1>3. Progress(c) /\ Asked(op)
  BY <1>1, <1>2, Running DEF Progress
<1>4. op \in Transfers /\ op.from # op.to
  BY <1>2, <1>3, KindOf
<1>5. op.from \in Accounts /\ op.to \in Accounts /\ op.asset \in Assets /\ op.amount \in Nat
  BY <1>4, RequestAssumption
<1>6. CASE available' = available
  <2>1. Stay(Calls \ {c})
    BY <1>2, CommitStays
  <2> QED
    BY <1>2, <1>6, <2>1, MoneySame
<1>7. CASE available' = Post(available, op.from, op.to, op.asset, op.amount)
  <2>1. /\ available' \in Ledger
        /\ available'[op.from][op.asset] = available[op.from][op.asset] - op.amount
        /\ available'[op.to][op.asset] = available[op.to][op.asset] + op.amount
        /\ \A a \in Accounts \cup System, y \in Assets :
             (a # op.from /\ a # op.to) \/ y # op.asset => available'[a][y] = available[a][y]
    <3>1. available \in Ledger
      BY DEF MoneyInv, MoneyTables
    <3>2. PICK new : new = available'
      OBVIOUS
    <3>3. op.from \in Accounts \cup System
      BY <1>5
    <3>4. op.to \in Accounts \cup System
      BY <1>5
    <3>5. op.from # op.to /\ op.asset \in Assets /\ op.amount \in Int
      BY <1>4, <1>5
    <3> QED
      BY <1>7, <3>1, <3>2, <3>3, <3>4, <3>5, PostAt
  <2>2. \A a \in Accounts \cup System, x \in Assets : available[a][x] \in Int
    BY DEF MoneyInv, MoneyTables, Ledger
  <2>3. available[op.from][op.asset] >= op.amount
    <3>1. MoneyOK(op, 0, available, quotes)
      <4>1. Len(call[c].todo) = 0
        BY <1>2
      <4> QED
        BY <1>1, <4>1 DEF MoneyInv, MoneyChecked
    <3> QED
      BY <1>2, <3>1 DEF MoneyOK
  <2>4. \A a \in Accounts \cup System, x \in Assets :
          <<a, x>> # <<op.from, op.asset>> => available'[a][x] >= available[a][x]
    BY <1>5, <2>1, <2>2
  <2>5. NotOverdrawn'
    <3> SUFFICES ASSUME NEW a \in Accounts \cup {"conversion-treasury", "conversion-fees"}, NEW x \in Assets
                 PROVE  available'[a][x] >= 0
      BY DEF NotOverdrawn
    <3>1. a \in Accounts \cup System /\ available[a][x] >= 0
      BY DEF MoneyInv, NotOverdrawn, System
    <3>2. available'[a][x] \in Int
      BY <2>1, <3>1 DEF Ledger
    <3>3. CASE <<a, x>> = <<op.from, op.asset>>
      BY <1>5, <2>1, <2>2, <2>3, <3>1, <3>3
    <3>4. CASE <<a, x>> # <<op.from, op.asset>>
      BY <2>2, <2>4, <3>1, <3>2, <3>4
    <3> QED
      BY <3>3, <3>4
  <2>6. MoneyTables' /\ QuotesKept
    BY <1>2, <2>1 DEF MoneyInv, MoneyTables, QuotesKept
  <2>7. Guarded(call[c].op) = {<<op.from, op.asset>>}
    BY <1>1, <1>2 DEF Guarded
  <2>8. \A a \in Accounts \cup {"conversion-treasury"}, x \in Assets :
          <<a, x>> \notin Guarded(call[c].op) => available'[a][x] >= available[a][x]
    BY <2>4, <2>7 DEF System
  <2> QED
    BY <1>2, <1>3, <2>5, <2>6, <2>8, MoneyCommit
<1> QED
  BY <1>1, <1>6, <1>7 DEF CreateInternalTransfer, ledgerVars

\* A conversion is settled, or its key was used.
LEMMA ConfirmCommits ==
  ASSUME CallsInv, MoneyInv, NEW c \in Calls, ConfirmConversion(c)
  PROVE  MoneyInv'
<1>1. PICK op : op = call[c].op
  OBVIOUS
<1>2. op.kind = "confirm" /\ call[c].todo = <<>> /\ End(c)
  BY <1>1 DEF ConfirmConversion
<1>3. Progress(c) /\ IsConfirm(op)
  <2>1. Progress(c)
    BY <1>1, <1>2, Running
  <2>2. Asked(op)
    BY <1>1, <2>1 DEF Progress
  <2> QED
    BY <1>2, <2>1, <2>2, KindOf
<1>4. PICK q \in Conversions : q = op.quote
  BY <1>3 DEF IsConfirm
<1>5. CASE UNCHANGED <<available, quotes>>
  <2>1. Stay(Calls \ {c})
    BY <1>2, CommitStays
  <2> QED
    BY <1>5, <2>1, MoneySame
<1>6. CASE available' = Settle(q) /\ quotes' = [quotes EXCEPT ![q].state = "confirmed"]
  <2>1. MoneyTables /\ quotes[q].out \in Nat /\ quotes[q].fee \in Nat
    BY DEF MoneyInv, MoneyTables, Quotes
  <2>2. /\ q.account \in Accounts /\ q.from \in Assets /\ q.to \in Assets /\ q.from # q.to /\ q.amount \in Nat
        /\ q.account # "conversion-treasury"
    BY RequestAssumption, WalletAssumption DEF System
  <2> DEFINE T == "conversion-treasury"
             F == "conversion-fees"
  <2>3. /\ available' \in Ledger
        /\ available'[q.account][q.from] = available[q.account][q.from] - q.amount
        /\ available'[T][q.from] = available[T][q.from] + q.amount
        /\ available'[T][q.to] = available[T][q.to] - quotes[q].out - quotes[q].fee
        /\ available'[q.account][q.to] = available[q.account][q.to] + quotes[q].out
        /\ available'[F][q.to] = available[F][q.to] + quotes[q].fee
        /\ \A a \in Accounts \cup System, x \in Assets :
             <<a, x>> \notin {<<q.account, q.from>>, <<T, q.from>>, <<T, q.to>>, <<q.account, q.to>>, <<F, q.to>>}
             => available'[a][x] = available[a][x]
    <3>1. PICK new : new = available'
      OBVIOUS
    <3> QED
      BY <1>6, <2>1, <3>1, SettleAt
  <2>4. \A a \in Accounts \cup System, x \in Assets : available[a][x] \in Int /\ available'[a][x] \in Int
    BY <2>1, <2>3 DEF MoneyTables, Ledger
  <2>5. T \in Accounts \cup System /\ F \in Accounts \cup System
    BY DEF System
  <2>6. available[q.account][q.from] >= q.amount /\ available[T][q.to] >= quotes[q].out + quotes[q].fee
    <3>1. Len(call[c].todo) = 0
      BY <1>2
    <3>2. MoneyOK(op, 0, available, quotes)
      BY <1>1, <3>1 DEF MoneyInv, MoneyChecked
    <3> QED
      BY <1>2, <1>4, <3>2 DEF MoneyOK
  <2> HIDE DEF T, F
  <2>7. ASSUME NEW a \in Accounts \cup System, NEW x \in Assets,
               <<a, x>> \notin {<<q.account, q.from>>, <<T, q.to>>}
        PROVE  available'[a][x] >= available[a][x]
    <3>1. available[a][x] \in Int
      BY <2>4
    <3>2. CASE <<a, x>> = <<T, q.from>>
      BY <2>2, <2>3, <3>1, <3>2
    <3>3. CASE <<a, x>> = <<q.account, q.to>>
      BY <2>1, <2>3, <3>1, <3>3
    <3>4. CASE <<a, x>> = <<F, q.to>>
      BY <2>1, <2>3, <3>1, <3>4
    <3>5. CASE <<a, x>> \notin {<<T, q.from>>, <<q.account, q.to>>, <<F, q.to>>}
      <4>1. available'[a][x] = available[a][x]
        BY <2>3, <2>7, <3>5
      <4> QED
        BY <3>1, <4>1
    <3> QED
      BY <3>2, <3>3, <3>4, <3>5
  <2>8. NotOverdrawn'
    <3> SUFFICES ASSUME NEW a \in Accounts \cup {"conversion-treasury", "conversion-fees"}, NEW x \in Assets
                 PROVE  available'[a][x] >= 0
      BY DEF NotOverdrawn
    <3>1. a \in Accounts \cup System /\ available[a][x] >= 0
      BY DEF MoneyInv, NotOverdrawn, System
    <3>2. available[a][x] \in Int /\ available'[a][x] \in Int
      BY <2>4, <3>1
    <3>3. CASE <<a, x>> = <<q.account, q.from>>
      BY <2>2, <2>3, <2>6, <3>2, <3>3
    <3>4. CASE <<a, x>> = <<T, q.to>>
      BY <2>1, <2>3, <2>6, <3>2, <3>4
    <3>5. CASE <<a, x>> \notin {<<q.account, q.from>>, <<T, q.to>>}
      <4>1. available'[a][x] >= available[a][x]
        BY <2>7, <3>1, <3>5
      <4> QED
        BY <3>1, <3>2, <4>1
    <3> QED
      BY <3>3, <3>4, <3>5
  <2>9. MoneyTables' /\ QuotesKept
    <3>1. quotes' \in [Conversions -> Quotes]
      BY <1>6, <2>1 DEF MoneyTables, Quotes
    <3>2. QuotesKept
      BY <1>6, <2>1 DEF MoneyTables, Quotes, QuotesKept
    <3> QED
      BY <2>3, <3>1, <3>2 DEF MoneyTables
  <2>10. Guarded(call[c].op) = {<<q.account, q.from>>, <<T, q.to>>}
    BY <1>1, <1>2, <1>4 DEF Guarded, T
  <2>11. \A a \in Accounts \cup {"conversion-treasury"}, x \in Assets :
           <<a, x>> \notin Guarded(call[c].op) => available'[a][x] >= available[a][x]
    BY <2>5, <2>7, <2>10 DEF T
  <2> QED
    BY <1>2, <1>3, <2>8, <2>9, <2>11, MoneyCommit
<1> QED
  BY <1>1, <1>4, <1>5, <1>6 DEF ConfirmConversion, ledgerVars
-----------------------------------------------------------------------------
(* Commits of the administration *)

\* Conversions that have found the switch on keep it where it is.
LEMMA SwitchCommits ==
  ASSUME CallsInv, SwitchInv, NEW c \in Calls, SetConversionsEnabled(c)
  PROVE  SwitchInv'
<1>1. call[c].op.kind = "switch" /\ call[c].todo = <<>> /\ End(c) /\ enabled' = ~enabled
  BY DEF SetConversionsEnabled
<1>2. Stay(Calls \ {c})
  BY <1>1, CommitStays
<1>3. ForUpdate(<<"control">>) \in call[c].held
  <2>1. Progress(c) /\ Len(call[c].todo) = 0
    BY <1>1, Running
  <2>2. PICK op : op = call[c].op
    OBVIOUS
  <2>3. PICK n : n = Len(call[c].todo)
    OBVIOUS
  <2> QED
    BY <1>1, <2>1, <2>2, <2>3, FirstLocked
<1>4. ASSUME NEW d \in Calls PROVE SwitchOK(call'[d].op, Len(call'[d].todo), enabled')
  <2>1. CASE d = c
    BY <1>2, <2>1 DEF Stay, NoCall, SwitchOK
  <2>2. CASE d # c
    <3>1. call'[d] = call[d]
      BY <1>2, <2>2 DEF Stay
    <3>2. PICK op : op = call[d].op
      OBVIOUS
    <3>3. PICK n : n = Len(call[d].todo)
      OBVIOUS
    <3>4. ForShare(<<"control">>) \notin call[d].held
      BY <1>3, <2>2, HeldAlone
    <3>5. op.kind = "confirm" => ~(n <= 7)
      <4> SUFFICES ASSUME op.kind = "confirm", n <= 7 PROVE FALSE
        OBVIOUS
      <4>1. Progress(d)
        BY <3>2, Running
      <4> QED
        BY <3>2, <3>3, <3>4, <4>1, FirstLocked
    <3> QED
      BY <3>1, <3>2, <3>3, <3>5 DEF SwitchOK
  <2> QED
    BY <2>1, <2>2
<1> QED
  BY <1>1, <1>4 DEF SwitchInv, SwitchChecked

\* A role is given or taken; an administrator is removed when there is another one.
LEMMA RoleCommits ==
  ASSUME CallsInv, RolesInv, NEW c \in Calls, SetUserRole(c)
  PROVE  RolesInv'
<1>1. PICK op : op = call[c].op
  OBVIOUS
<1> DEFINE e == [user |-> op.user, role |-> op.role]
           A == {r \in roles : r.role = Admin}
           B == {r \in roles' : r.role = Admin}
<1>2. /\ op.kind = "role" /\ call[c].todo = <<>> /\ End(c)
      /\ roles' = IF op.grant THEN roles \cup {e} ELSE roles \ {e}
  BY <1>1 DEF SetUserRole
<1>3. Progress(c) /\ Len(call[c].todo) = 0 /\ Stay(Calls \ {c})
  BY <1>1, <1>2, Running, CommitStays
<1>4. IsFiniteSet(roles) /\ IsFiniteSet(roles')
  <2>1. IsFiniteSet(roles)
    BY DEF RolesInv
  <2> HIDE DEF e
  <2> QED
    BY <1>2, <2>1, FS_AddElement, FS_RemoveElement
<1>5. /\ IsFiniteSet(A) /\ IsFiniteSet(B) /\ A # {}
      /\ Cardinality(A) \in Nat /\ Cardinality(B) \in Nat
  <2>1. A \in SUBSET roles /\ B \in SUBSET roles' /\ A # {}
    BY DEF RolesInv, AdministratorRemains, Administrators
  <2> HIDE DEF A, B
  <2> QED
    BY <1>4, <2>1, FS_Subset, FS_CardinalityType
<1>6. ASSUME op.grant \/ op.role # Admin
      PROVE  B # {} /\ (Cardinality(A) > 1 => Cardinality(B) > 1)
  <2>1. A \subseteq B
    BY <1>2, <1>6
  <2> HIDE DEF A, B
  <2>2. Cardinality(A) <= Cardinality(B)
    BY <1>5, <2>1, FS_Subset
  <2> QED
    BY <1>5, <2>1, <2>2
<1>7. ASSUME ~op.grant, op.role = Admin
      PROVE  B # {}
  <2>1. Cardinality(A) > 1
    <3>1. RoleOK(op, 0, roles)
      BY <1>1, <1>3 DEF RolesInv, RolesChecked
    <3> QED
      BY <1>2, <1>7, <3>1 DEF RoleOK
  <2>2. A \subseteq B \cup {e}
    BY <1>2
  <2>3. B = {} => Cardinality(A) <= 1
    <3> HIDE DEF A, B, e
    <3> SUFFICES ASSUME B = {} PROVE Cardinality(A) <= 1
      OBVIOUS
    <3>1. IsFiniteSet({e}) /\ Cardinality({e}) = 1 /\ A \subseteq {e}
      BY <2>2, FS_Singleton
    <3> QED
      BY <3>1, FS_Subset
  <2> QED
    BY <1>5, <2>1, <2>3
<1>8. ASSUME NEW d \in Calls PROVE RoleOK(call'[d].op, Len(call'[d].todo), roles')
  <2>1. CASE d = c
    BY <1>3, <2>1 DEF Stay, NoCall, RoleOK
  <2>2. CASE d # c
    <3>1. call'[d] = call[d]
      BY <1>3, <2>2 DEF Stay
    <3>2. PICK o : o = call[d].op
      OBVIOUS
    <3>3. PICK n : n = Len(call[d].todo)
      OBVIOUS
    <3>4. RoleOK(o, n, roles)
      BY <3>2, <3>3 DEF RolesInv, RolesChecked
    <3> SUFFICES ASSUME o.kind = "role", n <= 1, ~o.grant, o.role = Admin PROVE Cardinality(B) > 1
      BY <3>1, <3>2, <3>3 DEF RoleOK
    <3>5. Cardinality(A) > 1
      BY <3>4 DEF RoleOK
    <3>6. Progress(d)
      BY <3>2, Running
    <3>7. ForUpdate(<<"administrators">>) \in call[d].held
      BY <3>2, <3>3, <3>6, FirstLocked
    <3>8. ForUpdate(<<"administrators">>) \notin call[c].held
      BY <2>2, <3>7, HeldAlone
    <3>9. op.grant \/ op.role # Admin
      <4>1. PICK m : m = Len(call[c].todo)
        OBVIOUS
      <4>2. m <= 1
        BY <1>3, <4>1
      <4> QED
        BY <1>1, <1>2, <1>3, <3>8, <4>1, <4>2, FirstLocked
    <3> QED
      BY <1>6, <3>5, <3>9
  <2> QED
    BY <2>1, <2>2
<1>9. B # {}
  BY <1>6, <1>7
<1> QED
  BY <1>4, <1>8, <1>9 DEF RolesInv, RolesChecked, AdministratorRemains, Administrators
-----------------------------------------------------------------------------
(* Commits of issuance *)

\* Money that is created comes from an account of the system that may be overdrawn.
LEMMA IssuePosts ==
  ASSUME CallsInv, MoneyInv, NEW c \in Calls, call[c].op.kind = "approve", call[c].todo = <<>>, End(c),
         NEW from \in {"test-money-issuance", "staging-market-maker-issuance"},
         NEW to \in Accounts \cup {"staging-market-maker-treasury"},
         NEW x \in Assets, NEW n \in Nat, available' = Post(available, from, to, x, n), quotes' = quotes
  PROVE  MoneyInv'
<1>1. Progress(c) /\ Guarded(call[c].op) = {}
  BY Running DEF Guarded
<1>2. /\ from \in Accounts \cup System /\ from \notin Accounts /\ from # "conversion-treasury" /\ from # "conversion-fees"
      /\ to \in Accounts \cup System /\ from # to
  BY WalletAssumption DEF System
<1>3. available \in Ledger
  BY DEF MoneyInv, MoneyTables
<1>4. /\ available' \in Ledger
      /\ available'[to][x] = available[to][x] + n
      /\ \A a \in Accounts \cup System, y \in Assets :
           (a # from /\ a # to) \/ y # x => available'[a][y] = available[a][y]
  <2>1. PICK new : new = available'
    OBVIOUS
  <2>2. n \in Int
    OBVIOUS
  <2> QED
    BY <1>2, <1>3, <2>1, <2>2, PostAt
<1>5. ASSUME NEW a \in Accounts \cup System, NEW y \in Assets, a # from
      PROVE  available'[a][y] >= available[a][y] /\ available[a][y] \in Int /\ available'[a][y] \in Int
  <2>1. available[a][y] \in Int /\ available'[a][y] \in Int
    BY <1>3, <1>4 DEF Ledger
  <2>2. CASE a = to /\ y = x
    BY <1>4, <2>1, <2>2
  <2>3. CASE ~(a = to /\ y = x)
    <3>1. available'[a][y] = available[a][y]
      BY <1>4, <1>5, <2>3
    <3> QED
      BY <2>1, <3>1
  <2> QED
    BY <2>1, <2>2, <2>3
<1>6. NotOverdrawn'
  <2> SUFFICES ASSUME NEW a \in Accounts \cup {"conversion-treasury", "conversion-fees"}, NEW y \in Assets
               PROVE  available'[a][y] >= 0
    BY DEF NotOverdrawn
  <2>1. a \in Accounts \cup System /\ available[a][y] >= 0 /\ a # from
    BY <1>2 DEF MoneyInv, NotOverdrawn, System
  <2> QED
    BY <1>5, <2>1
<1>7. MoneyTables' /\ QuotesKept
  BY <1>4 DEF MoneyInv, MoneyTables, QuotesKept
<1>8. \A a \in Accounts \cup {"conversion-treasury"}, y \in Assets :
        <<a, y>> \notin Guarded(call[c].op) => available'[a][y] >= available[a][y]
  BY <1>2, <1>5 DEF System
<1> QED
  BY <1>1, <1>6, <1>7, <1>8, MoneyCommit

\* The sets of proposals that are summed up.
LEMMA SummedUp ==
  /\ \A u : Grants(u) \in SUBSET Proposals
  /\ Inventory \in SUBSET Proposals
  BY DEF Grants, Inventory

\* Limits are about sums over the table of grants.
LEMMA LimitsAre ==
  WithinLimits <=> /\ \A a \in Accounts : GrantedIn(granted, Grants(Owner[a])) <= TesterLimit
                   /\ GrantedIn(granted, Inventory) <= ceiling
  BY DEF WithinLimits, Granted, GrantedIn

\* A grant is posted: the control row keeps other grants away, and the inventory is not concerned.
LEMMA GrantCommits ==
  ASSUME CallsInv, IssueInv, NEW c \in Calls, postGrant(c)
  PROVE  IssueInv'
<1>1. PICK op : op = call[c].op
  OBVIOUS
<1>2. PICK p : p = op.p
  OBVIOUS
<1>3. PICK v : v = Value(p.amount, op.prices)
  OBVIOUS
<1>4. /\ op.kind = "approve" /\ p.kind = "grant" /\ call[c].todo = <<>> /\ End(c)
      /\ granted' = [granted EXCEPT ![p] = v] /\ ceiling' = ceiling
  BY <1>1, <1>2, <1>3 DEF postGrant
<1>5. Progress(c) /\ Len(call[c].todo) = 0 /\ Stay(Calls \ {c}) /\ IsApprove(op)
  <2>1. Progress(c) /\ Stay(Calls \ {c})
    BY <1>1, <1>4, Running, CommitStays
  <2>2. Asked(op)
    BY <1>1, <2>1 DEF Progress
  <2> QED
    BY <1>4, <2>1, <2>2, KindOf
<1>6. p \in Proposals /\ p.account \in Accounts
  BY <1>2, <1>4, <1>5, IssuanceAssumption DEF IsApprove
<1>7. granted \in [Proposals -> Int] /\ ceiling \in Nat
  BY DEF IssueInv, IssueTables
<1>8. /\ granted[p] < 0 /\ v \in Int
      /\ GrantedIn(granted, Grants(Owner[p.account])) + v <= TesterLimit
  <2>1. GrantOK(op, 0, granted)
    BY <1>1, <1>5 DEF IssueInv, IssueChecked
  <2>2. granted[p] < 0 /\ DOMAIN op.prices = {1, 2} /\ GrantedIn(granted, Grants(Owner[p.account])) + v <= TesterLimit
    BY <1>2, <1>3, <1>4, <2>1 DEF GrantOK
  <2>3. v \in Int
    BY <1>2, <1>3, <1>4, <1>5, <2>2, ValueInt
  <2> QED
    BY <2>2, <2>3
<1>9. granted' \in [Proposals -> Int] /\ granted'[p] = v /\ \A q \in Proposals : q # p => granted'[q] = granted[q]
  BY <1>4, <1>6, <1>7, <1>8
<1>10. PICK g : g = granted'
  OBVIOUS
<1>11. GrantedIn(g, Inventory) = GrantedIn(granted, Inventory)
  <2>1. \A q \in Inventory : g[q] = granted[q]
    BY <1>4, <1>9, <1>10 DEF Inventory
  <2> QED
    BY <2>1, SummedUp, GrantedElsewhere
<1>12. ASSUME NEW u, u # Owner[p.account] PROVE GrantedIn(g, Grants(u)) = GrantedIn(granted, Grants(u))
  <2>1. \A q \in Grants(u) : g[q] = granted[q]
    BY <1>9, <1>10, <1>12 DEF Grants
  <2> QED
    BY <2>1, SummedUp, GrantedElsewhere
<1>13. GrantedIn(g, Grants(Owner[p.account])) <= TesterLimit
  <2>1. PICK P : P = Grants(Owner[p.account])
    OBVIOUS
  <2>2. P \in SUBSET Proposals /\ p \in P
    BY <1>4, <1>6, <2>1 DEF Grants
  <2>3. GrantedIn(g, P) = GrantedIn(granted, P) \/ GrantedIn(g, P) = GrantedIn(granted, P) + g[p]
    <3>1. g \in [Proposals -> Int]
      BY <1>9, <1>10
    <3>2. \A q \in Proposals : q # p => g[q] = granted[q]
      BY <1>9, <1>10
    <3>3. granted[p] < 0
      BY <1>8
    <3> QED
      BY <1>7, <2>2, <3>1, <3>2, <3>3, GrantedOne
  <2>4. GrantedIn(granted, P) <= TesterLimit
    BY <1>6, <2>1, LimitsAre DEF IssueInv
  <2>5. g[p] = v
    BY <1>9, <1>10
  <2> QED
    BY <1>8, <2>1, <2>3, <2>4, <2>5
<1>14. WithinLimits'
  <2>1. \A a \in Accounts : GrantedIn(g, Grants(Owner[a])) <= TesterLimit
    <3>1. TAKE a \in Accounts
    <3>2. GrantedIn(granted, Grants(Owner[a])) <= TesterLimit
      BY LimitsAre DEF IssueInv
    <3> QED
      BY <1>12, <1>13, <3>2
  <2>2. GrantedIn(g, Inventory) <= ceiling
    BY <1>11, LimitsAre DEF IssueInv
  <2> QED
    BY <1>4, <1>10, <2>1, <2>2 DEF WithinLimits, Granted, GrantedIn
<1>15. ASSUME NEW d \in Calls PROVE GrantOK(call'[d].op, Len(call'[d].todo), g) /\ InventoryOK(call'[d].op, Len(call'[d].todo), g, ceiling)
  <2>1. CASE d = c
    BY <1>5, <2>1 DEF Stay, NoCall, GrantOK, InventoryOK
  <2>2. CASE d # c
    <3>1. call'[d] = call[d]
      BY <1>5, <2>2 DEF Stay
    <3>2. PICK o : o = call[d].op
      OBVIOUS
    <3>3. PICK n : n = Len(call[d].todo)
      OBVIOUS
    <3>4. InventoryOK(o, n, granted, ceiling)
      BY <3>2, <3>3 DEF IssueInv, IssueChecked
    <3>5. loadPolicy \notin call[d].held
      <4>1. PICK m : m = Len(call[c].todo)
        OBVIOUS
      <4>2. m <= 2
        BY <1>5, <4>1
      <4>3. loadPolicy \in call[c].held
        BY <1>1, <1>2, <1>4, <1>5, <4>1, <4>2, FirstLocked
      <4> QED
        BY <2>2, <4>3, HeldAlone DEF loadPolicy
    <3>6. o.kind # "none" => Progress(d)
      BY <3>2, Running
    <3>7. ~(o.kind = "approve" /\ o.p.kind = "grant" /\ n <= 2)
      BY <3>2, <3>3, <3>5, <3>6, FirstLocked
    <3>8. GrantOK(o, n, g)
      BY <3>7 DEF GrantOK
    <3>9. o.kind = "approve" => o.p \in Proposals
      <4>1. o.kind = "approve" => Asked(o)
        BY <3>2, <3>6 DEF Progress
      <4> QED
        BY <4>1, KindOf DEF IsApprove
    <3>10. o.kind = "approve" /\ o.p.kind = "inventory" => g[o.p] = granted[o.p]
      BY <1>4, <1>9, <1>10, <3>9
    <3>11. InventoryOK(o, n, g, ceiling)
      BY <1>11, <3>4, <3>10 DEF InventoryOK
    <3> QED
      BY <3>1, <3>2, <3>3, <3>8, <3>11
  <2> QED
    BY <2>1, <2>2
<1> QED
  BY <1>4, <1>7, <1>9, <1>10, <1>14, <1>15 DEF IssueInv, IssueTables, IssueChecked

\* While a call approves inventory or a limit nobody else has verified either.
LEMMA TreasuryAlone ==
  ASSUME CallsInv, NEW c \in Calls, NEW d \in Calls, c # d, ForUpdate(<<"treasury">>) \in call[c].held,
         NEW o, o = call[d].op, NEW n, n = Len(call[d].todo)
  PROVE  /\ o.kind = "approve" /\ o.p.kind = "inventory" => ~(n <= 3)
         /\ o.kind = "approve" /\ o.p.kind = "limit" => n # 0
         /\ o.kind = "approve" => n \in Nat /\ o.p \in Proposals
<1>1. ForUpdate(<<"treasury">>) \notin call[d].held
  BY HeldAlone
<1>2. o.kind # "none" => Progress(d)
  BY Running
<1>3. o.kind = "approve" => Asked(o) /\ n \in Nat
  <2>1. PICK L : L = LocksOf(call[d].op)
    OBVIOUS
  <2> QED
    BY <1>2, <2>1, ProgressFacts
<1> QED
  BY <1>1, <1>2, <1>3, FirstLocked, KindOf DEF IsApprove

\* Inventory is posted: the treasury's lock keeps other inventory and limits away.
LEMMA InventoryCommits ==
  ASSUME CallsInv, IssueInv, NEW c \in Calls, ApproveInventory(c)
  PROVE  IssueInv'
<1>1. PICK op : op = call[c].op
  OBVIOUS
<1>2. PICK p : p = op.p
  OBVIOUS
<1>3. PICK v : v = InventoryValue(p, op.prices)
  OBVIOUS
<1>4. /\ op.kind = "approve" /\ p.kind = "inventory" /\ call[c].todo = <<>> /\ End(c)
      /\ granted' = [granted EXCEPT ![p] = v] /\ ceiling' = ceiling
  BY <1>1, <1>2, <1>3 DEF ApproveInventory
<1>5. Progress(c) /\ Len(call[c].todo) = 0 /\ Stay(Calls \ {c}) /\ IsApprove(op)
  <2>1. Progress(c) /\ Stay(Calls \ {c})
    BY <1>1, <1>4, Running, CommitStays
  <2>2. Asked(op)
    BY <1>1, <2>1 DEF Progress
  <2> QED
    BY <1>4, <2>1, <2>2, KindOf
<1>6. p \in Proposals
  BY <1>2, <1>5 DEF IsApprove
<1>7. granted \in [Proposals -> Int] /\ ceiling \in Nat
  BY DEF IssueInv, IssueTables
<1>8. granted[p] < 0 /\ v \in Int /\ GrantedIn(granted, Inventory) + v <= ceiling
  <2>1. InventoryOK(op, 0, granted, ceiling)
    BY <1>1, <1>5 DEF IssueInv, IssueChecked
  <2>2. /\ granted[p] < 0 /\ (p.asset # Dollar => DOMAIN op.prices = {1, 2})
        /\ GrantedIn(granted, Inventory) + v <= ceiling
    BY <1>2, <1>3, <1>4, <2>1 DEF InventoryOK
  <2>3. v \in Int
    BY <1>2, <1>3, <1>4, <1>5, <2>2, ValueInt
  <2> QED
    BY <2>2, <2>3
<1>9. granted' \in [Proposals -> Int] /\ granted'[p] = v /\ \A q \in Proposals : q # p => granted'[q] = granted[q]
  BY <1>4, <1>6, <1>7, <1>8
<1>10. PICK g : g = granted'
  OBVIOUS
<1>11. \A u : GrantedIn(g, Grants(u)) = GrantedIn(granted, Grants(u))
  <2>1. TAKE u
  <2>2. \A q \in Grants(u) : g[q] = granted[q]
    BY <1>4, <1>9, <1>10 DEF Grants
  <2> QED
    BY <2>2, SummedUp, GrantedElsewhere
<1>12. GrantedIn(g, Inventory) <= ceiling
  <2>1. PICK P : P = Inventory
    OBVIOUS
  <2>2. P \in SUBSET Proposals /\ p \in P
    BY <1>4, <1>6, <2>1 DEF Inventory
  <2>3. GrantedIn(g, P) = GrantedIn(granted, P) \/ GrantedIn(g, P) = GrantedIn(granted, P) + g[p]
    <3>1. g \in [Proposals -> Int]
      BY <1>9, <1>10
    <3>2. \A q \in Proposals : q # p => g[q] = granted[q]
      BY <1>9, <1>10
    <3>3. granted[p] < 0
      BY <1>8
    <3> QED
      BY <1>7, <2>2, <3>1, <3>2, <3>3, GrantedOne
  <2>4. GrantedIn(granted, P) <= ceiling
    BY <2>1, LimitsAre DEF IssueInv
  <2>5. g[p] = v
    BY <1>9, <1>10
  <2> QED
    BY <1>8, <2>1, <2>3, <2>4, <2>5
<1>13. WithinLimits'
  <2>1. \A a \in Accounts : GrantedIn(g, Grants(Owner[a])) <= TesterLimit
    BY <1>11, LimitsAre DEF IssueInv
  <2> QED
    BY <1>4, <1>10, <1>12, <2>1 DEF WithinLimits, Granted, GrantedIn
<1>14. ASSUME NEW d \in Calls PROVE GrantOK(call'[d].op, Len(call'[d].todo), g) /\ InventoryOK(call'[d].op, Len(call'[d].todo), g, ceiling)
  <2>1. CASE d = c
    BY <1>5, <2>1 DEF Stay, NoCall, GrantOK, InventoryOK
  <2>2. CASE d # c
    <3>1. call'[d] = call[d]
      BY <1>5, <2>2 DEF Stay
    <3>2. PICK o : o = call[d].op
      OBVIOUS
    <3>3. PICK n : n = Len(call[d].todo)
      OBVIOUS
    <3>4. GrantOK(o, n, granted)
      BY <3>2, <3>3 DEF IssueInv, IssueChecked
    <3>5. ForUpdate(<<"treasury">>) \in call[c].held
      <4>1. PICK m : m = Len(call[c].todo)
        OBVIOUS
      <4>2. m <= 3
        BY <1>5, <4>1
      <4> QED
        BY <1>1, <1>2, <1>4, <1>5, <4>1, <4>2, FirstLocked
    <3>6. /\ o.kind = "approve" /\ o.p.kind = "inventory" => ~(n <= 3)
          /\ o.kind = "approve" /\ o.p.kind = "limit" => n # 0
          /\ o.kind = "approve" => n \in Nat /\ o.p \in Proposals
      BY <2>2, <3>2, <3>3, <3>5, TreasuryAlone
    <3>7. InventoryOK(o, n, g, ceiling)
      <4>1. o.kind = "approve" /\ o.p.kind = "inventory" => ~(n <= 2)
        BY <3>6
      <4> QED
        BY <3>6, <4>1 DEF InventoryOK
    <3>8. o.kind = "approve" /\ o.p.kind = "grant" => g[o.p] = granted[o.p]
      BY <1>4, <1>9, <1>10, <3>6
    <3>9. GrantOK(o, n, g)
      BY <1>11, <3>4, <3>8 DEF GrantOK
    <3> QED
      BY <3>1, <3>2, <3>3, <3>7, <3>9
  <2> QED
    BY <2>1, <2>2
<1> QED
  BY <1>4, <1>7, <1>9, <1>10, <1>13, <1>14 DEF IssueInv, IssueTables, IssueChecked

\* A new ceiling is not below what has been issued, which nobody changes meanwhile.
LEMMA LimitCommits ==
  ASSUME CallsInv, IssueInv, NEW c \in Calls, ApproveLimit(c)
  PROVE  IssueInv'
<1>1. PICK op : op = call[c].op
  OBVIOUS
<1>2. PICK p : p = op.p
  OBVIOUS
<1>3. /\ op.kind = "approve" /\ p.kind = "limit" /\ call[c].todo = <<>> /\ End(c)
      /\ granted' = [granted EXCEPT ![p] = 0] /\ ceiling' = p.limit
  BY <1>1, <1>2 DEF ApproveLimit
<1>4. Progress(c) /\ Len(call[c].todo) = 0 /\ Stay(Calls \ {c}) /\ IsApprove(op)
  <2>1. Progress(c) /\ Stay(Calls \ {c})
    BY <1>1, <1>3, Running, CommitStays
  <2>2. Asked(op)
    BY <1>1, <2>1 DEF Progress
  <2> QED
    BY <1>3, <2>1, <2>2, KindOf
<1>5. p \in Proposals /\ p.limit \in Nat
  BY <1>2, <1>3, <1>4, IssuanceAssumption DEF IsApprove
<1>6. granted \in [Proposals -> Int]
  BY DEF IssueInv, IssueTables
<1>7. granted' \in [Proposals -> Int] /\ \A q \in Proposals : q # p => granted'[q] = granted[q]
  BY <1>3, <1>5, <1>6
<1>8. PICK g : g = granted'
  OBVIOUS
<1>9. \A u : GrantedIn(g, Grants(u)) = GrantedIn(granted, Grants(u))
  <2>1. TAKE u
  <2>2. \A q \in Grants(u) : g[q] = granted[q]
    BY <1>3, <1>7, <1>8 DEF Grants
  <2> QED
    BY <2>2, SummedUp, GrantedElsewhere
<1>10. GrantedIn(g, Inventory) = GrantedIn(granted, Inventory) /\ GrantedIn(granted, Inventory) \in Int
  <2>1. \A q \in Inventory : g[q] = granted[q]
    BY <1>3, <1>7, <1>8 DEF Inventory
  <2> QED
    BY <1>6, <2>1, SummedUp, GrantedElsewhere, GrantedInt
<1>11. GrantedIn(g, Inventory) <= p.limit
  <2>1. InventoryOK(op, 0, granted, ceiling)
    BY <1>1, <1>4 DEF IssueInv, IssueChecked
  <2>2. p.limit >= GrantedIn(granted, Inventory)
    BY <1>2, <1>3, <2>1 DEF InventoryOK
  <2> QED
    BY <1>5, <1>10, <2>2
<1>12. WithinLimits'
  <2>1. \A a \in Accounts : GrantedIn(g, Grants(Owner[a])) <= TesterLimit
    BY <1>9, LimitsAre DEF IssueInv
  <2> QED
    BY <1>3, <1>8, <1>11, <2>1 DEF WithinLimits, Granted, GrantedIn
<1>13. ASSUME NEW d \in Calls PROVE GrantOK(call'[d].op, Len(call'[d].todo), g) /\ InventoryOK(call'[d].op, Len(call'[d].todo), g, p.limit)
  <2>1. CASE d = c
    BY <1>4, <2>1 DEF Stay, NoCall, GrantOK, InventoryOK
  <2>2. CASE d # c
    <3>1. call'[d] = call[d]
      BY <1>4, <2>2 DEF Stay
    <3>2. PICK o : o = call[d].op
      OBVIOUS
    <3>3. PICK n : n = Len(call[d].todo)
      OBVIOUS
    <3>4. GrantOK(o, n, granted)
      BY <3>2, <3>3 DEF IssueInv, IssueChecked
    <3>5. ForUpdate(<<"treasury">>) \in call[c].held
      <4>1. PICK m : m = Len(call[c].todo)
        OBVIOUS
      <4> QED
        BY <1>1, <1>2, <1>3, <1>4, <4>1, FirstLocked
    <3>6. /\ o.kind = "approve" /\ o.p.kind = "inventory" => ~(n <= 3)
          /\ o.kind = "approve" /\ o.p.kind = "limit" => n # 0
          /\ o.kind = "approve" => n \in Nat /\ o.p \in Proposals
      BY <2>2, <3>2, <3>3, <3>5, TreasuryAlone
    <3>7. InventoryOK(o, n, g, p.limit)
      <4>1. o.kind = "approve" /\ o.p.kind = "inventory" => ~(n <= 2)
        BY <3>6
      <4> QED
        BY <3>6, <4>1 DEF InventoryOK
    <3>8. o.kind = "approve" /\ o.p.kind = "grant" => g[o.p] = granted[o.p]
      BY <1>3, <1>7, <1>8, <3>6
    <3>9. GrantOK(o, n, g)
      BY <1>9, <3>4, <3>8 DEF GrantOK
    <3> QED
      BY <3>1, <3>2, <3>3, <3>7, <3>9
  <2> QED
    BY <2>1, <2>2
<1> QED
  BY <1>3, <1>5, <1>7, <1>8, <1>12, <1>13 DEF IssueInv, IssueTables, IssueChecked
-----------------------------------------------------------------------------
(* Steps outside the transactions *)

\* Steps that leave the calls alone.
LEMMA AllStay == ASSUME CallsInv, call' = call PROVE CallsInv' /\ Stay(Calls)
  BY SameCalls DEF CallsInv, Stay

\* Steps that change neither the calls nor the tables.
LEMMA NothingElse ==
  ASSUME TreasuryInv, call' = call, UNCHANGED tables
  PROVE  TreasuryInv'
<1>1. UNCHANGED <<available, quotes, enabled, roles, granted, ceiling>>
  BY DEF tables
<1>2. CallsInv' /\ Stay(Calls)
  BY AllStay DEF TreasuryInv
<1> QED
  BY <1>1, <1>2, MoneySame, SwitchSame, RolesSame, IssueSame DEF TreasuryInv

\* A quote is made, or expires.
LEMMA QuoteKeeps ==
  ASSUME TreasuryInv, NEW q \in Conversions, CreateConversionQuote(q) \/ QuoteExpires(q), UNCHANGED issuanceVars
  PROVE  TreasuryInv'
<1>1. UNCHANGED <<call, available, enabled, roles, granted, ceiling>>
  BY DEF CreateConversionQuote, QuoteExpires, ledgerVars, issuanceVars
<1>2. CallsInv' /\ Stay(Calls)
  BY <1>1, AllStay DEF TreasuryInv
<1>3. MoneyTables
  BY DEF TreasuryInv, MoneyInv
<1>4. MoneyTables' /\ QuotesKept
  <2>1. CASE CreateConversionQuote(q)
    <3>1. quotes[q].state = "none" /\ quotedAmounts(q) \in Quotes
      BY <2>1, QuotedNat DEF CreateConversionQuote
    <3>2. PICK r : r = quotedAmounts(q)
      OBVIOUS
    <3>3. quotes' = [quotes EXCEPT ![q] = r]
      BY <2>1, <3>2 DEF CreateConversionQuote
    <3> QED
      BY <1>1, <1>3, <3>1, <3>2, <3>3 DEF MoneyTables, QuotesKept
  <2>2. CASE QuoteExpires(q)
    <3>1. quotes' = [quotes EXCEPT ![q].state = "expired"]
      BY <2>2 DEF QuoteExpires
    <3> QED
      BY <1>1, <1>3, <3>1 DEF MoneyTables, Quotes, QuotesKept
  <2> QED
    BY <2>1, <2>2
<1>5. NotOverdrawn'
  BY <1>1 DEF TreasuryInv, MoneyInv, NotOverdrawn
<1>6. ASSUME NEW d \in Calls, NEW b \in Guarded(call[d].op)
      PROVE  available'[b[1]][b[2]] >= available[b[1]][b[2]]
  <2>1. Progress(d)
    BY <1>6, GuardedBusy DEF TreasuryInv
  <2>2. b[1] \in Accounts \cup System /\ b[2] \in Assets
    BY <1>6, <2>1, GuardedBalances DEF System
  <2>3. available[b[1]][b[2]] \in Int
    BY <1>3, <2>2 DEF MoneyTables, Ledger
  <2> QED
    BY <1>1, <2>3
<1>7. MoneyInv'
  BY <1>2, <1>4, <1>5, <1>6, MoneyKeeps DEF TreasuryInv
<1> QED
  BY <1>1, <1>2, <1>7, SwitchSame, RolesSame, IssueSame DEF TreasuryInv
-----------------------------------------------------------------------------
(* The induction *)

\* At first no call runs, nothing is granted and the opening balances are as assumed.
LEMMA Starts == Init => TreasuryInv
<1> SUFFICES ASSUME Init PROVE TreasuryInv
  OBVIOUS
<1>1. call = [c \in Calls |-> NoCall] /\ \A c \in Calls : call[c] = NoCall
  BY DEF Init, WalletInit
<1>2. CallsInv
  <2>1. CallsOK
    BY <1>1 DEF CallsOK
  <2>2. NoCall.held = {}
    BY DEF NoCall
  <2> QED
    BY <1>1, <2>1, <2>2 DEF CallsInv, Exclusive
<1>3. MoneyChecked /\ SwitchChecked /\ RolesChecked /\ IssueChecked
  <2>1. \A c \in Calls : CallOK(call[c].op, Len(call[c].todo))
    BY <1>1, IdleOK
  <2> QED
    BY <2>1, CheckedByCall
<1>4. MoneyInv
  <2>1. MoneyTables
    BY WalletAssumption DEF Init, WalletInit, MoneyTables, Ledger, Quotes
  <2>2. NotOverdrawn
    BY WalletAssumption DEF Init, WalletInit, NotOverdrawn
  <2> QED
    BY <1>3, <2>1, <2>2 DEF MoneyInv
<1>5. SwitchInv
  BY <1>3 DEF SwitchInv, Init, WalletInit
<1>6. RolesInv
  <2>1. IsFiniteSet(roles) /\ AdministratorRemains
    BY WalletAssumption DEF Init, WalletInit, AdministratorRemains, Administrators
  <2> QED
    BY <1>3, <2>1 DEF RolesInv
<1>7. IssueInv
  <2>1. granted = [p \in Proposals |-> -1] /\ ceiling = FirstLimit
    BY DEF Init
  <2>2. IssueTables
    BY <2>1, IssuanceAssumption DEF IssueTables
  <2>3. \A P \in SUBSET Proposals : GrantedIn(granted, P) = 0
    <3>1. TAKE P \in SUBSET Proposals
    <3>2. {p \in P : granted[p] >= 0} = {}
      BY <2>1
    <3> QED
      BY <3>2, SumEmpty DEF GrantedIn
  <2>4. WithinLimits
    BY <2>1, <2>3, SummedUp, LimitsAre, IssuanceAssumption
  <2> QED
    BY <1>3, <2>2, <2>4 DEF IssueInv
<1> QED
  BY <1>2, <1>4, <1>5, <1>6, <1>7 DEF TreasuryInv

\* Requests that start a transaction.
LEMMA RequestsKeep ==
  ASSUME TreasuryInv, NEW c \in Calls, UNCHANGED issuanceVars,
         \/ \E op \in Transfers : Transfer(c, op)
         \/ \E q \in Conversions, k \in ConfirmKeys : Confirm(c, q, k)
         \/ \E op \in RoleChanges : Role(c, op)
         \/ \E e \in Staff : Switch(c, e.user)
  PROVE  TreasuryInv'
<1>1. ASSUME NEW op \in Transfers, Transfer(c, op) PROVE TreasuryInv'
  <2>1. UNCHANGED tables /\ Asked(op) /\ op.kind = "transfer"
    BY <1>1, RequestAssumption DEF Transfer, Create, Asked, tables, ledgerVars, adminVars, issuanceVars
  <2>2. Begin(c, op, LocksOf(op))
    BY <1>1, <2>1 DEF Transfer, LocksOf
  <2> QED
    BY <2>1, <2>2, BeginKeeps
<1>2. ASSUME NEW q \in Conversions, NEW k \in ConfirmKeys, Confirm(c, q, k) PROVE TreasuryInv'
  <2>1. PICK op : op = [kind |-> "confirm", quote |-> q, key |-> k]
    OBVIOUS
  <2>2. op.kind = "confirm" /\ op.quote = q /\ op.key = k
    BY <2>1
  <2>3. UNCHANGED tables /\ quotes[op.quote].state # "none"
    BY <1>2, <2>2 DEF Confirm, tables, ledgerVars, adminVars, issuanceVars
  <2>4. Asked(op)
    BY <2>2 DEF Asked, IsConfirm
  <2>5. Begin(c, op, LocksOf(op))
    BY <1>2, <2>1, <2>2 DEF Confirm, LocksOf
  <2> QED
    BY <2>2, <2>3, <2>4, <2>5, BeginKeeps
<1>3. ASSUME NEW op \in RoleChanges, Role(c, op) PROVE TreasuryInv'
  <2>1. UNCHANGED tables /\ Asked(op) /\ op.kind = "role"
    BY <1>3, RequestAssumption DEF Role, Asked, tables, ledgerVars, adminVars, issuanceVars
  <2>2. Begin(c, op, LocksOf(op))
    BY <1>3, <2>1 DEF Role, LocksOf
  <2> QED
    BY <2>1, <2>2, BeginKeeps
<1>4. ASSUME NEW u, Switch(c, u) PROVE TreasuryInv'
  <2>1. PICK op : op = [kind |-> "switch"]
    OBVIOUS
  <2>2. op.kind = "switch" /\ Asked(op)
    BY <2>1 DEF Asked
  <2>3. UNCHANGED tables
    BY <1>4 DEF Switch, tables, ledgerVars, adminVars, issuanceVars
  <2>4. Begin(c, op, LocksOf(op))
    BY <1>4, <2>1, <2>2 DEF Switch, LocksOf
  <2> QED
    BY <2>2, <2>3, <2>4, BeginKeeps
<1> QED
  BY <1>1, <1>2, <1>3, <1>4

\* A configuration of the pilot is asked for.
LEMMA PilotKeeps ==
  ASSUME TreasuryInv, NEW c \in Calls, NEW pilot \in Pilots, Pilot(c, pilot)
  PROVE  TreasuryInv'
<1>1. UNCHANGED tables
  BY DEF Pilot, tables, ledgerVars, adminVars, issuanceVars
<1>2. PICK a, b, op :
        /\ op = [kind |-> "pilot", users |-> pilot.users, assets |-> pilot.assets, operator |-> a, approver |-> b]
        /\ Begin(c, op, PilotLocks(op))
  BY DEF Pilot
<1>3. op.kind = "pilot" /\ op.users = pilot.users /\ op.assets = pilot.assets
  BY <1>2
<1>4. Asked(op)
  BY <1>3, IssuanceAssumption DEF Asked, IsPilot
<1>5. Begin(c, op, LocksOf(op))
  BY <1>2, <1>3 DEF LocksOf
<1> QED
  BY <1>1, <1>3, <1>4, <1>5, BeginKeeps

\* A proposal of a grant is asked for.
LEMMA AskKeeps ==
  ASSUME TreasuryInv, NEW c \in Calls, NEW p \in Proposals, AskGrant(c, p)
  PROVE  TreasuryInv'
<1>1. PICK op : op = [kind |-> "propose", p |-> p]
  OBVIOUS
<1>2. op.kind = "propose" /\ op.p = p
  BY <1>1
<1>3. UNCHANGED tables /\ p.kind = "grant" /\ Begin(c, op, ProposeLocks(p))
  BY <1>1 DEF AskGrant, tables, ledgerVars, adminVars, issuanceVars
<1>4. Asked(op)
  BY <1>2, <1>3 DEF Asked, IsPropose
<1>5. Begin(c, op, LocksOf(op))
  BY <1>2, <1>3 DEF LocksOf
<1> QED
  BY <1>2, <1>3, <1>4, <1>5, BeginKeeps

\* An approval is asked for.
LEMMA ApproveKeeps ==
  ASSUME TreasuryInv, NEW c \in Calls, NEW u, NEW p \in Proposals, Approve(c, u, p)
  PROVE  TreasuryInv'
<1>1. PICK t \in Tickers : Begin(c, [kind |-> "approve", by |-> u, p |-> p, prices |-> Observations(t)], ApproveLocks(u, p))
  BY DEF Approve
<1>2. UNCHANGED tables
  BY DEF Approve, tables, ledgerVars, adminVars, issuanceVars
<1>3. PICK op : op = [kind |-> "approve", by |-> u, p |-> p, prices |-> Observations(t)]
  OBVIOUS
<1>4. op.kind = "approve" /\ op.by = u /\ op.p = p /\ op.prices = Observations(t)
  BY <1>3
<1>5. Asked(op)
  BY <1>4 DEF Asked, IsApprove
<1>6. Begin(c, op, LocksOf(op))
  BY <1>1, <1>3, <1>4 DEF LocksOf
<1> QED
  BY <1>2, <1>4, <1>5, <1>6, BeginKeeps

\* Commits of transfers, conversions, the switch and roles, and the end of a circle.
LEMMA WalletCommitsKeep ==
  ASSUME TreasuryInv, NEW c \in Calls, UNCHANGED issuanceVars,
         \/ CreateInternalTransfer(c) \/ ConfirmConversion(c) \/ SetConversionsEnabled(c) \/ SetUserRole(c)
         \/ Deadlock(c) /\ UNCHANGED <<ledgerVars, adminVars>>
  PROVE  TreasuryInv'
<1>1. End(c) /\ UNCHANGED <<granted, ceiling>>
  BY DEF CreateInternalTransfer, ConfirmConversion, SetConversionsEnabled, SetUserRole, Deadlock, issuanceVars
<1>2. CallsInv' /\ Stay(Calls \ {c}) /\ CallsInv
  BY <1>1, CommitStays DEF TreasuryInv
<1>3. IssueInv'
  BY <1>1, <1>2, IssueSame DEF TreasuryInv
<1>4. CASE CreateInternalTransfer(c)
  <2>1. UNCHANGED <<enabled, roles>>
    BY <1>4 DEF CreateInternalTransfer, adminVars
  <2> QED
    BY <1>2, <1>3, <1>4, <2>1, TransferCommits, SwitchSame, RolesSame DEF TreasuryInv
<1>5. CASE ConfirmConversion(c)
  <2>1. UNCHANGED <<enabled, roles>>
    BY <1>5 DEF ConfirmConversion
  <2> QED
    BY <1>2, <1>3, <1>5, <2>1, ConfirmCommits, SwitchSame, RolesSame DEF TreasuryInv
<1>6. CASE SetConversionsEnabled(c)
  <2>1. UNCHANGED <<available, quotes, roles>>
    BY <1>6 DEF SetConversionsEnabled, ledgerVars
  <2> QED
    BY <1>2, <1>3, <1>6, <2>1, SwitchCommits, MoneySame, RolesSame DEF TreasuryInv
<1>7. CASE SetUserRole(c)
  <2>1. UNCHANGED <<available, quotes, enabled>>
    BY <1>7 DEF SetUserRole, ledgerVars
  <2> QED
    BY <1>2, <1>3, <1>7, <2>1, RoleCommits, MoneySame, SwitchSame DEF TreasuryInv
<1>8. CASE UNCHANGED <<ledgerVars, adminVars>>
  <2>1. UNCHANGED tables
    BY <1>1, <1>8 DEF tables, ledgerVars, adminVars
  <2> QED
    BY <1>1, <2>1, EndKeeps
<1> QED
  BY <1>4, <1>5, <1>6, <1>7, <1>8

\* Commits of a proposal, a configuration, a grant, inventory and a limit.
LEMMA IssueCommitsKeep ==
  ASSUME TreasuryInv, NEW c \in Calls,
         Propose(c) \/ ConfigurePilot(c) \/ postGrant(c) \/ ApproveInventory(c) \/ ApproveLimit(c)
  PROVE  TreasuryInv'
<1>1. End(c) /\ UNCHANGED <<quotes, enabled, roles>>
  BY DEF Propose, ConfigurePilot, postGrant, ApproveInventory, ApproveLimit, adminVars
<1>2. CallsInv' /\ Stay(Calls \ {c}) /\ CallsInv
  BY <1>1, CommitStays DEF TreasuryInv
<1>3. SwitchInv' /\ RolesInv'
  BY <1>1, <1>2, SwitchSame, RolesSame DEF TreasuryInv
<1>4. PICK op : op = call[c].op
  OBVIOUS
<1>5. op.kind = "approve" => op.p \in Proposals
  <2>1. op.kind = "approve" => Asked(op)
    BY <1>2, <1>4, Running DEF Progress
  <2> QED
    BY <2>1, KindOf DEF IsApprove
<1>6. CASE Propose(c) \/ ConfigurePilot(c)
  <2>1. UNCHANGED tables
    BY <1>1, <1>6 DEF Propose, ConfigurePilot, tables, ledgerVars
  <2> QED
    BY <1>1, <2>1, EndKeeps
<1>7. CASE postGrant(c)
  <2>1. op.kind = "approve" /\ op.p.kind = "grant" /\ call[c].todo = <<>>
    BY <1>4, <1>7 DEF postGrant
  <2>2. op.p.asset \in Assets /\ op.p.amount \in Nat /\ op.p.account \in Accounts
    BY <1>5, <2>1, IssuanceAssumption
  <2>3. available' = Post(available, "test-money-issuance", op.p.account, op.p.asset, op.p.amount)
    BY <1>4, <1>7 DEF postGrant
  <2>4. MoneyInv'
    BY <1>1, <1>2, <1>4, <2>1, <2>2, <2>3, IssuePosts DEF TreasuryInv
  <2> QED
    BY <1>2, <1>3, <1>7, <2>4, GrantCommits DEF TreasuryInv
<1>8. CASE ApproveInventory(c)
  <2>1. op.kind = "approve" /\ op.p.kind = "inventory" /\ call[c].todo = <<>>
    BY <1>4, <1>8 DEF ApproveInventory
  <2>2. op.p.asset \in Assets /\ op.p.amount \in Nat
    BY <1>5, <2>1, IssuanceAssumption
  <2>3. available' = Post(available, "staging-market-maker-issuance", "staging-market-maker-treasury", op.p.asset, op.p.amount)
    BY <1>4, <1>8 DEF ApproveInventory
  <2>4. MoneyInv'
    BY <1>1, <1>2, <1>4, <2>1, <2>2, <2>3, IssuePosts DEF TreasuryInv
  <2> QED
    BY <1>2, <1>3, <1>8, <2>4, InventoryCommits DEF TreasuryInv
<1>9. CASE ApproveLimit(c)
  <2>1. UNCHANGED <<available, quotes>>
    BY <1>1, <1>9 DEF ApproveLimit, ledgerVars
  <2> QED
    BY <1>2, <1>3, <1>9, <2>1, MoneySame, LimitCommits DEF TreasuryInv
<1> QED
  BY <1>6, <1>7, <1>8, <1>9

\* Every step keeps the invariant.
LEMMA Inductive == TreasuryInv /\ [Next]_vars => TreasuryInv'
<1> SUFFICES ASSUME TreasuryInv, [Next]_vars PROVE TreasuryInv'
  OBVIOUS
<1>1. CASE UNCHANGED vars
  <2>1. call' = call /\ UNCHANGED tables
    BY <1>1 DEF vars, tables, ledgerVars, adminVars, issuanceVars
  <2> QED
    BY <2>1, NothingElse
<1>2. CASE WalletNext /\ UNCHANGED issuanceVars
  <2>1. ASSUME NEW q \in Conversions, CreateConversionQuote(q) \/ QuoteExpires(q) PROVE TreasuryInv'
    BY <1>2, <2>1, QuoteKeeps
  <2>2. ASSUME NEW u, NEW p, SetConversionPairPolicy(u, p) PROVE TreasuryInv'
    <3>1. call' = call /\ UNCHANGED tables
      BY <1>2, <2>2 DEF SetConversionPairPolicy, tables, ledgerVars, issuanceVars
    <3> QED
      BY <3>1, NothingElse
  <2>3. ASSUME NEW a, CreateSubaccount(a) \/ SetSubaccountStatus(a) PROVE TreasuryInv'
    <3>1. call' = call /\ UNCHANGED tables
      BY <1>2, <2>3 DEF CreateSubaccount, SetSubaccountStatus, tables, ledgerVars, issuanceVars
    <3> QED
      BY <3>1, NothingElse
  <2> QED
    BY <1>2, <2>1, <2>2, <2>3, RequestsKeep, WalletCommitsKeep DEF WalletNext
<1>3. ASSUME NEW p \in Proposals, ProposeInventory(p) \/ ProposeLimit(p) PROVE TreasuryInv'
  <2>1. call' = call /\ UNCHANGED tables
    BY <1>3 DEF ProposeInventory, ProposeLimit, NewProposal, tables, ledgerVars, adminVars
  <2> QED
    BY <2>1, NothingElse
<1> QED
  BY <1>1, <1>2, <1>3, LockKeeps, IssueCommitsKeep, PilotKeeps, AskKeeps, ApproveKeeps DEF Next

-----------------------------------------------------------------------------
(* The theorems *)

\* The tables keep their types, running calls have taken the first of their locks, and
\* what a call has verified under a lock stays true until it commits.
THEOREM Isolated == Spec => []TreasuryInv
  BY Starts, Inductive, PTL DEF Spec

\* No balance from which transfers or conversions take money is overdrawn, whatever is
\* served at the same time.
THEOREM Solvent == Spec => []NotOverdrawn
<1>1. TreasuryInv => NotOverdrawn
  BY DEF TreasuryInv, MoneyInv
<1> QED
  BY <1>1, Isolated, PTL

\* There is always an administrator.
THEOREM Governed == Spec => []AdministratorRemains
<1>1. TreasuryInv => AdministratorRemains
  BY DEF TreasuryInv, RolesInv
<1> QED
  BY <1>1, Isolated, PTL

\* Neither a tester's limit nor the ceiling of the inventory is exceeded.
THEOREM Limited == Spec => []WithinLimits
<1>1. TreasuryInv => WithinLimits
  BY DEF TreasuryInv, IssueInv
<1> QED
  BY <1>1, Isolated, PTL

\* No conversion is settled while conversions are switched off.
THEOREM Stopped == Spec => StopHolds
<1> DEFINE Stop == ~enabled => \A k \in ConfirmKeys : <<"conversion", k>> \in journals' => <<"conversion", k>> \in journals
<1>1. ASSUME TreasuryInv, [Next]_vars PROVE [Stop]_journals
  <2> SUFFICES ASSUME ~enabled, NEW k \in ConfirmKeys, <<"conversion", k>> \in journals', journals' # journals
               PROVE  <<"conversion", k>> \in journals
    OBVIOUS
  <2>1. ASSUME NEW c \in Calls, ConfirmConversion(c) PROVE FALSE
    <3>1. PICK op : op = call[c].op
      OBVIOUS
    <3>2. op.kind = "confirm" /\ Len(call[c].todo) = 0
      BY <2>1, <3>1 DEF ConfirmConversion
    <3>3. SwitchOK(op, 0, enabled)
      BY <1>1, <3>1, <3>2 DEF TreasuryInv, SwitchInv, SwitchChecked
    <3> QED
      BY <3>2, <3>3 DEF SwitchOK
  <2>2. ASSUME NEW c \in Calls, CreateInternalTransfer(c) PROVE <<"conversion", k>> \in journals
    <3>1. \A x : <<"conversion", k>> # <<"transfer", x>>
      OBVIOUS
    <3> QED
      BY <2>2, <3>1 DEF CreateInternalTransfer, ledgerVars
  <2>3. ASSUME NEW c \in Calls, postGrant(c) \/ ApproveInventory(c) PROVE <<"conversion", k>> \in journals
    <3>1. \A x : <<"conversion", k>> # <<"grant", x>>
      OBVIOUS
    <3> QED
      BY <2>3, <3>1 DEF postGrant, ApproveInventory
  <2>4. ASSUME NEW c \in Calls, SetConversionsEnabled(c) \/ SetUserRole(c) \/ Propose(c) \/ ConfigurePilot(c) \/ ApproveLimit(c) \/ Lock(c)
        PROVE  FALSE
    BY <2>4 DEF SetConversionsEnabled, SetUserRole, Propose, ConfigurePilot, ApproveLimit, Lock, ledgerVars
  <2>5. ASSUME WalletNext PROVE \E c \in Calls : CreateInternalTransfer(c) \/ ConfirmConversion(c)
    BY <2>4, <2>5 DEF WalletNext, Transfer, Confirm, Role, Switch, CreateConversionQuote, QuoteExpires,
       SetConversionPairPolicy, CreateSubaccount, SetSubaccountStatus, ledgerVars
  <2>6. ASSUME \E p \in Proposals : ProposeInventory(p) \/ ProposeLimit(p) PROVE FALSE
    BY <2>6 DEF ProposeInventory, ProposeLimit, NewProposal, ledgerVars
  <2>7. ASSUME NEW c \in Calls, \/ \E pilot \in Pilots : Pilot(c, pilot)
                                \/ \E p \in Proposals : AskGrant(c, p)
                                \/ \E e \in Staff, p \in Proposals : Approve(c, e.user, p)
        PROVE  FALSE
    BY <2>7 DEF Pilot, AskGrant, Approve, ledgerVars
  <2>8. ~UNCHANGED vars
    BY DEF vars, ledgerVars
  <2> QED
    BY <1>1, <2>1, <2>2, <2>3, <2>4, <2>5, <2>6, <2>7, <2>8 DEF Next
<1> QED
  BY <1>1, Isolated, PTL DEF Spec, StopHolds

-----------------------------------------------------------------------------
(* The order in which locks are taken *)

\* What kind of resource a lock is for, and how far up it stands.
Tag(l) == l.res[1]
Level(l) ==
  IF Tag(l) \in {"control", "administrators", "pilot", "treasury"} THEN 1
  ELSE IF Tag(l) \in {"quote", "role"} THEN 2
  ELSE IF Tag(l) \in PilotRows THEN 3
  ELSE IF Tag(l) = "ceiling" THEN 4 ELSE IF Tag(l) = "account" THEN 5 ELSE 6

\* The key of the balance that a lock is for.
KeyOf(l) == Rank[<<l.res[2], l.res[3]>>]

\* Locks that are taken one after the other; the rows of accounts are in no order, and
\* neither are those of the pilot.
Precedes(h, m) ==
  \/ Level(h) < Level(m)
  \/ Tag(h) = "account" /\ Tag(m) = "account"
  \/ Tag(h) \in PilotRows /\ Tag(m) \in PilotRows
  \/ Tag(h) = "balance" /\ Tag(m) = "balance" /\ KeyOf(h) < KeyOf(m)

\* A role that is only read stands in no order either; nobody who changes a role waits afterwards.
RoleRead(l) == Tag(l) = "role" /\ l.share

Climbs(L) == \A i, j \in 1..Len(L) : i < j => RoleRead(L[j]) \/ Precedes(L[i], L[j])
Keyed(L)  == \A i \in 1..Len(L) : Tag(L[i]) = "balance" => KeyOf(L[i]) \in Int
RoleLast(L) == \A i \in 1..Len(L) : Tag(L[i]) = "role" /\ ~L[i].share => i = Len(L)
Orderly(L)  == Climbs(L) /\ Keyed(L) /\ RoleLast(L)

\* The kinds of locks.
LEMMA Tags ==
  /\ \A a, x : Tag(LockAccountAsset(a, x)) = "balance" /\ KeyOf(LockAccountAsset(a, x)) = Rank[<<a, x>>]
  /\ \A n, x : Tag(SystemAccount(n, x)) = "account"
  /\ \A q : Tag(ForUpdate(<<"quote", q>>)) = "quote"
  /\ Tag(ForShare(<<"control">>)) = "control" /\ Tag(ForUpdate(<<"control">>)) = "control"
  /\ Tag(ForUpdate(<<"administrators">>)) = "administrators"
  /\ Tag(ForUpdate(<<"pilot">>)) = "pilot" /\ Tag(loadPolicy) = "test-money"
  /\ Tag(ForUpdate(<<"treasury">>)) = "treasury" /\ Tag(ForUpdate(<<"ceiling">>)) = "ceiling"
  /\ \A u, r : Tag(role(u, r)) = "role" /\ role(u, r).share
  /\ \A u, r : Tag(ForUpdate(<<"role", u, r>>)) = "role"
<1>1. \A a, x : Tag(LockAccountAsset(a, x)) = "balance" /\ KeyOf(LockAccountAsset(a, x)) = Rank[<<a, x>>]
  BY DEF Tag, KeyOf, LockAccountAsset
<1>2. \A n, x : Tag(SystemAccount(n, x)) = "account"
  BY DEF Tag, SystemAccount, ForUpdate
<1>3. /\ \A q : Tag(ForUpdate(<<"quote", q>>)) = "quote"
      /\ \A u, r : Tag(ForUpdate(<<"role", u, r>>)) = "role"
      /\ \A u, r : Tag(role(u, r)) = "role" /\ role(u, r).share
  BY DEF Tag, ForUpdate, ForShare, role
<1>4. /\ Tag(ForShare(<<"control">>)) = "control" /\ Tag(ForUpdate(<<"control">>)) = "control"
      /\ Tag(ForUpdate(<<"administrators">>)) = "administrators"
      /\ Tag(ForUpdate(<<"pilot">>)) = "pilot" /\ Tag(loadPolicy) = "test-money"
      /\ Tag(ForUpdate(<<"treasury">>)) = "treasury" /\ Tag(ForUpdate(<<"ceiling">>)) = "ceiling"
  BY DEF Tag, ForUpdate, ForShare, loadPolicy
<1> QED
  BY <1>1, <1>2, <1>3, <1>4

\* Every place of the sorted list is that of a balance, and keys grow along it.
LEMMA SortedClimbs ==
  ASSUME NEW S \in SUBSET Balances, IsFiniteSet(S)
  PROVE  /\ \A i \in 1..Cardinality(S) : Tag(Sorted(S)[i]) = "balance" /\ KeyOf(Sorted(S)[i]) \in Int
         /\ \A i, j \in 1..Cardinality(S) : i < j => KeyOf(Sorted(S)[i]) < KeyOf(Sorted(S)[j])
<1> DEFINE n == Cardinality(S)
           f == [b \in S |-> Smaller(b, S) + 1]
           at(i) == CHOOSE b \in S : Smaller(b, S) = i - 1
<1>1. n \in Nat /\ IsFiniteSet(1..n) /\ Cardinality(1..n) = n
  BY FS_CardinalityType, FS_Interval
<1>2. \A b \in S : /\ Smaller(b, S) \in Nat /\ Smaller(b, S) < n /\ Rank[b] \in Int
                   /\ \A c \in S : /\ Rank[b] < Rank[c] => Smaller(b, S) < Smaller(c, S)
                                   /\ Smaller(b, S) = Smaller(c, S) => b = c
  BY SmallerClimbs
<1>3. f \in Injection(S, 1..n)
  <2>1. \A b \in S : f[b] = Smaller(b, S) + 1 /\ f[b] \in 1..n
    <3> HIDE DEF n
    <3> QED
      BY <1>1, <1>2
  <2>2. \A b, c \in S : f[b] = f[c] => b = c
    BY <1>2, <2>1
  <2>3. f \in [S -> 1..n]
    BY <2>1
  <2> HIDE DEF f, n
  <2> QED
    BY <2>2, <2>3 DEF Injection, IsInjective
<1>4. f \in Surjection(S, 1..n)
  <2> HIDE DEF f
  <2> QED
    BY <1>1, <1>3, FS_Injection
<1>5. \A i \in 1..n : \E b \in S : Smaller(b, S) = i - 1
  <2>1. \A i \in 1..n : \E b \in S : f[b] = i
    <3> HIDE DEF f, n
    <3> QED
      BY <1>4 DEF Surjection
  <2>2. \A b \in S : f[b] = Smaller(b, S) + 1
    OBVIOUS
  <2>3. \A b \in S : Smaller(b, S) \in Int
    BY <1>2
  <2> HIDE DEF f, n
  <2>4. ASSUME NEW i \in 1..n PROVE \E b \in S : Smaller(b, S) = i - 1
    <3>1. PICK b \in S : f[b] = i
      BY <2>1
    <3>2. i = Smaller(b, S) + 1 /\ Smaller(b, S) \in Int
      BY <2>2, <2>3, <3>1
    <3>3. Smaller(b, S) = i - 1
      BY <3>2
    <3> QED
      BY <3>3
  <2> QED
    BY <2>4
<1>6. \A i \in 1..n : at(i) \in S /\ Smaller(at(i), S) = i - 1
  BY <1>5
<1>7. \A i \in 1..n : Sorted(S)[i] = LockAccountAsset(at(i)[1], at(i)[2])
  BY DEF Sorted
<1> HIDE DEF at, n, f
<1>8. \A b \in S : <<b[1], b[2]>> = b
  BY DEF Balances
<1>9. \A i \in 1..n : Tag(Sorted(S)[i]) = "balance" /\ KeyOf(Sorted(S)[i]) = Rank[at(i)]
  BY <1>6, <1>7, <1>8, Tags
<1>10. ASSUME NEW i \in 1..n, NEW j \in 1..n, i < j PROVE Rank[at(i)] < Rank[at(j)]
  <2>1. at(i) \in S /\ at(j) \in S /\ Smaller(at(i), S) < Smaller(at(j), S)
    BY <1>1, <1>6, <1>10
  <2>2. ~(Rank[at(j)] < Rank[at(i)]) /\ at(i) # at(j)
    BY <1>2, <2>1
  <2>3. Rank[at(i)] # Rank[at(j)]
    BY <2>1, <2>2, WalletAssumption DEF Balances
  <2> QED
    BY <1>2, <2>1, <2>2, <2>3
<1> QED
  BY <1>2, <1>6, <1>9, <1>10 DEF n

\* A list of locks that are not for balances, and those of balances after them.
LEMMA SortedAfter ==
  ASSUME NEW A, IsList(A), NEW S \in SUBSET Balances, IsFiniteSet(S), NEW L, L = Cat(A, Sorted(S)),
         Climbs(A), \A i \in 1..Len(A) : Level(A[i]) < 6 /\ (Tag(A[i]) = "role" => A[i].share)
  PROVE  Orderly(L) /\ \A i \in 1..Len(L) : (i \in 1..Len(A) /\ L[i] = A[i]) \/ Tag(L[i]) = "balance"
<1> DEFINE B == Sorted(S)
           m == Len(A)
           k == Cardinality(S)
<1>1. IsList(B) /\ k \in Nat /\ Len(B) = k
  BY SortedLocks
<1>2. /\ \A i \in 1..k : Tag(B[i]) = "balance" /\ KeyOf(B[i]) \in Int
      /\ \A i, j \in 1..k : i < j => KeyOf(B[i]) < KeyOf(B[j])
  BY SortedClimbs
<1>a. L = Cat(A, B)
  OBVIOUS
<1> HIDE DEF B
<1>3. /\ IsList(L) /\ m \in Nat /\ Len(L) = m + k
      /\ \A i \in 1..m : L[i] = A[i]
      /\ \A i \in 1..k : L[m + i] = B[i]
  BY <1>1, <1>a, ConcatList
<1> HIDE DEF m, k
<1>4. ASSUME NEW i \in 1..Len(L), ~(i \in 1..m) PROVE i - m \in 1..k /\ L[i] = B[i - m] /\ i = m + (i - m)
  <2>1. i - m \in 1..k /\ i = m + (i - m)
    BY <1>1, <1>3, <1>4
  <2> QED
    BY <1>3, <2>1
<1>5. \A i \in 1..m : Level(L[i]) < 6 /\ (Tag(L[i]) = "role" => L[i].share) /\ Tag(L[i]) # "balance"
  BY <1>3 DEF m, Level, PilotRows
<1>6. \A i \in 1..Len(L) : ~(i \in 1..m) => Tag(L[i]) = "balance" /\ KeyOf(L[i]) \in Int /\ Level(L[i]) = 6
  BY <1>2, <1>4 DEF Level, PilotRows
<1>7. ASSUME NEW i \in 1..Len(L), NEW j \in 1..Len(L), i < j PROVE RoleRead(L[j]) \/ Precedes(L[i], L[j])
  <2>1. CASE j \in 1..m
    <3>1. i \in 1..m
      BY <1>3, <1>7, <2>1
    <3> QED
      BY <1>3, <1>7, <2>1, <3>1 DEF Climbs, m
  <2>2. CASE ~(j \in 1..m) /\ i \in 1..m
    <3>1. Level(L[i]) < Level(L[j])
      BY <1>5, <1>6, <2>2
    <3> QED
      BY <3>1 DEF Precedes
  <2>3. CASE ~(j \in 1..m) /\ ~(i \in 1..m)
    <3>1. i - m \in 1..k /\ j - m \in 1..k /\ L[i] = B[i - m] /\ L[j] = B[j - m]
      BY <1>4, <2>3
    <3>2. i - m < j - m
      BY <1>1, <1>3, <1>7
    <3>3. KeyOf(L[i]) < KeyOf(L[j])
      BY <1>2, <3>1, <3>2
    <3> QED
      BY <1>6, <2>3, <3>3 DEF Precedes
  <2> QED
    BY <2>1, <2>2, <2>3
<1>8. Orderly(L)
  BY <1>5, <1>6, <1>7 DEF Orderly, Climbs, Keyed, RoleLast
<1> QED
  BY <1>3, <1>6, <1>8 DEF m

\* One lock.
LEMMA OneOrderly ==
  ASSUME NEW L, Len(L) = 1, Tag(L[1]) = "balance" => KeyOf(L[1]) \in Int
  PROVE  Orderly(L)
  BY DEF Orderly, Climbs, Keyed, RoleLast

\* Two locks that are not for balances.
LEMMA PairOrderly ==
  ASSUME NEW L, Len(L) = 2, Level(L[1]) < Level(L[2]), Level(L[2]) < 6, Tag(L[1]) # "role", Level(L[1]) < 6
  PROVE  Orderly(L)
<1>1. \A i \in 1..Len(L) : i = 1 \/ i = 2
  OBVIOUS
<1>2. \A i \in 1..Len(L) : Tag(L[i]) # "balance"
  BY <1>1 DEF Level, PilotRows
<1> QED
  BY <1>1, <1>2 DEF Orderly, Climbs, Keyed, RoleLast, Precedes

\* A transfer, a switch and a change of roles.
LEMMA ShortOrderly ==
  ASSUME NEW op, (op \in Transfers /\ op.from # op.to) \/ op \in RoleChanges \/ op.kind = "switch"
  PROVE  Orderly(LocksOf(op)) /\ \A i \in 1..Len(LocksOf(op)) : Tag(LocksOf(op)[i]) \in {"balance", "control", "administrators", "role"}
<1>1. CASE op \in Transfers
  <2>1. Len(LocksOf(op)) = 1 /\ LocksOf(op)[1] = LockAccountAsset(op.from, op.asset)
    BY <1>1, TransferLocksAre
  <2>2. <<op.from, op.asset>> \in (Accounts \cup System) \X Assets
    BY <1>1, RequestAssumption
  <2>3. Tag(LocksOf(op)[1]) = "balance" /\ KeyOf(LocksOf(op)[1]) \in Int
    BY <2>1, <2>2, Tags, WalletAssumption
  <2>4. Orderly(LocksOf(op))
    BY <2>1, <2>3, OneOrderly
  <2> QED
    BY <2>1, <2>3, <2>4
<1>2. CASE op.kind = "switch"
  <2>1. Len(LocksOf(op)) = 1 /\ LocksOf(op)[1] = ForUpdate(<<"control">>)
    BY <1>2, SwitchLocksAre
  <2>2. Tag(LocksOf(op)[1]) = "control"
    BY <2>1, Tags
  <2>3. Orderly(LocksOf(op))
    BY <2>1, <2>2, OneOrderly
  <2> QED
    BY <2>1, <2>2, <2>3
<1>3. CASE op \in RoleChanges
  <2> DEFINE A == IF ~op.grant /\ op.role = Admin THEN <<ForUpdate(<<"administrators">>)>> ELSE <<>>
             B == <<ForUpdate(<<"role", op.user, op.role>>)>>
             L == LocksOf(op)
  <2>1. L = Cat(A, B)
    BY <1>3, RequestAssumption DEF LocksOf, RoleLocks, Cat
  <2>2. IsList(B) /\ Len(B) = 1 /\ Tag(B[1]) = "role"
    BY List1, Tags
  <2>3. CASE ~op.grant /\ op.role = Admin
    <3>1. IsList(A) /\ Len(A) = 1 /\ Tag(A[1]) = "administrators"
      BY <2>3, List1, Tags
    <3> HIDE DEF A, B, L
    <3>2. Len(L) = 2 /\ L[1] = A[1] /\ L[2] = B[1]
      <4>1. Len(L) = Len(A) + Len(B) /\ \A i \in 1..Len(A) : L[i] = A[i]
        BY <2>1, <2>2, <3>1, ConcatList
      <4>2. \A i \in 1..Len(B) : L[Len(A) + i] = B[i]
        BY <2>1, <2>2, <3>1, ConcatList
      <4>3. 1 \in 1..Len(A) /\ 1 \in 1..Len(B) /\ Len(A) + 1 = 2
        BY <2>2, <3>1
      <4> QED
        BY <2>2, <3>1, <4>1, <4>2, <4>3
    <3>3. Level(L[1]) = 1 /\ Level(L[2]) = 2 /\ Tag(L[1]) = "administrators" /\ Tag(L[2]) = "role"
      BY <2>2, <3>1, <3>2 DEF Level
    <3>4. Orderly(L)
      BY <3>2, <3>3, PairOrderly
    <3>5. \A i \in 1..Len(L) : i = 1 \/ i = 2
      BY <3>2
    <3> QED
      BY <3>3, <3>4, <3>5 DEF L
  <2>4. CASE ~(~op.grant /\ op.role = Admin)
    <3>1. IsList(A) /\ Len(A) = 0
      BY <2>4, List0
    <3> HIDE DEF A, B, L
    <3>2. Len(L) = 1 /\ L[1] = B[1]
      <4>1. Len(L) = Len(A) + Len(B) /\ \A i \in 1..Len(B) : L[Len(A) + i] = B[i]
        BY <2>1, <2>2, <3>1, ConcatList
      <4> QED
        BY <2>2, <3>1, <4>1
    <3>3. Orderly(L)
      BY <2>2, <3>2, OneOrderly
    <3> QED
      BY <2>2, <3>2, <3>3 DEF L
  <2> QED
    BY <2>3, <2>4
<1> QED
  BY <1>1, <1>2, <1>3

\* Only conversions lock rows of accounts; and whoever comes to a row of the pilot with
\* another one in hand is a configuration, a grant or a proposal.
Places(op, L) ==
  \A i \in 1..Len(L) :
    /\ Tag(L[i]) = "account" => op.kind = "confirm"
    /\ Tag(L[i]) \in PilotRows =>
         op.kind = "pilot" \/ IssuesGrant(op) \/ \A j \in 1..Len(L) : j < i => Tag(L[j]) \notin PilotRows

\* A confirmation.
LEMMA ConfirmOrderly ==
  ASSUME NEW op, IsConfirm(op), NEW L, L = LocksOf(op)
  PROVE  Orderly(L) /\ Places(op, L)
<1> DEFINE q == op.quote
           S == {<<q.account, q.from>>, <<"conversion-treasury", q.from>>, <<"conversion-treasury", q.to>>}
           A == <<ForShare(<<"control">>), ForUpdate(<<"quote", q>>),
                  SystemAccount("conversion-treasury", q.from), SystemAccount("conversion-treasury", q.to),
                  SystemAccount("conversion-fees", q.to)>>
<1>1. q \in Conversions /\ op.kind = "confirm"
  BY DEF IsConfirm
<1>2. S \in SUBSET Balances /\ IsFiniteSet(S)
  <2> HIDE DEF q
  <2>1. q.account \in Accounts /\ q.from \in Assets /\ q.to \in Assets /\ q.from # q.to
    BY <1>1, RequestAssumption
  <2>2. "conversion-treasury" \in System /\ q.account # "conversion-treasury"
    BY <2>1, WalletAssumption DEF System
  <2>3. S \in SUBSET Balances
    BY <2>1, <2>2 DEF Balances
  <2>4. IsFiniteSet(S)
    BY <2>1, <2>2, Three
  <2> QED
    BY <2>3, <2>4
<1>3. L = Cat(A, Sorted(S))
  BY <1>1 DEF LocksOf, ConfirmLocks, Cat
<1>4. IsList(A) /\ Len(A) = 5
  BY List5
<1>5. Tag(A[1]) = "control" /\ Tag(A[2]) = "quote" /\ Tag(A[3]) = "account" /\ Tag(A[4]) = "account" /\ Tag(A[5]) = "account"
  BY Tags
<1> HIDE DEF A, S
<1>6. \A i \in 1..Len(A) : i \in {1, 2, 3, 4, 5}
  BY <1>4
<1>7. Level(A[1]) = 1 /\ Level(A[2]) = 2 /\ Level(A[3]) = 5 /\ Level(A[4]) = 5 /\ Level(A[5]) = 5
  BY <1>5 DEF Level, PilotRows
<1>8. Climbs(A)
  BY <1>5, <1>6, <1>7 DEF Climbs, Precedes
<1>9. \A i \in 1..Len(A) : Level(A[i]) < 6 /\ (Tag(A[i]) = "role" => A[i].share)
  BY <1>5, <1>6, <1>7
<1>10. Orderly(L) /\ \A i \in 1..Len(L) : (i \in 1..Len(A) /\ L[i] = A[i]) \/ Tag(L[i]) = "balance"
  BY <1>2, <1>3, <1>4, <1>8, <1>9, SortedAfter
<1>11. \A i \in 1..Len(L) : Tag(L[i]) \notin PilotRows
  BY <1>5, <1>6, <1>10 DEF PilotRows
<1> QED
  BY <1>1, <1>10, <1>11 DEF Places

\* A configuration of the pilot.
LEMMA PilotOrderly ==
  ASSUME NEW op, IsPilot(op), NEW L, L = LocksOf(op)
  PROVE  Orderly(L) /\ Places(op, L)
<1>1. /\ Len(L) \in Nat /\ Len(L) >= 4 /\ L[1] = ForUpdate(<<"pilot">>)
      /\ L[2] = role(op.operator, "treasury_operator") /\ L[3] = role(op.approver, "treasury_approver")
      /\ \A i \in 1..Len(L) : i > 3 => L[i].res[1] \in PilotRows
  BY PilotLocksAre
<1>2. Tag(L[1]) = "pilot" /\ Tag(L[2]) = "role" /\ L[2].share /\ Tag(L[3]) = "role" /\ L[3].share
  BY <1>1, Tags
<1>3. \A i \in 1..Len(L) : i = 1 \/ i = 2 \/ i = 3 \/ i > 3
  BY <1>1
<1>4. \A i \in 1..Len(L) : i > 3 => Tag(L[i]) \in PilotRows /\ Level(L[i]) = 3
  BY <1>1 DEF Tag, Level, PilotRows
<1>5. Level(L[1]) = 1 /\ Level(L[2]) = 2 /\ Level(L[3]) = 2 /\ RoleRead(L[2]) /\ RoleRead(L[3])
  BY <1>2 DEF Level, RoleRead
<1>6. ASSUME NEW i \in 1..Len(L), NEW j \in 1..Len(L), i < j PROVE RoleRead(L[j]) \/ Precedes(L[i], L[j])
  <2>1. CASE j <= 3
    <3>1. j = 2 \/ j = 3
      BY <1>6, <2>1
    <3> QED
      BY <1>5, <3>1
  <2>2. CASE j > 3 /\ i > 3
    BY <1>4, <2>2 DEF Precedes
  <2>3. CASE j > 3 /\ i <= 3
    <3>1. Level(L[j]) = 3 /\ (i = 1 \/ i = 2 \/ i = 3)
      BY <1>4, <2>3
    <3>2. Level(L[i]) < Level(L[j])
      BY <1>5, <3>1
    <3> QED
      BY <3>2 DEF Precedes
  <2> QED
    BY <2>1, <2>2, <2>3
<1>7. \A i \in 1..Len(L) : Tag(L[i]) # "balance" /\ Tag(L[i]) # "account" /\ (Tag(L[i]) = "role" => L[i].share)
  BY <1>2, <1>3, <1>4 DEF PilotRows
<1> QED
  BY <1>6, <1>7 DEF Orderly, Climbs, Keyed, RoleLast, Places, IsPilot

\* The locks with which proposals and grants begin.
LEMMA GrantClimbs ==
  ASSUME NEW A, NEW n \in {4, 5}, Len(A) = n, A[1] = loadPolicy, NEW u, NEW r, A[2] = role(u, r),
         n = 5 => \E v, x : A[3] = role(v, x),
         A[n - 1].res[1] = "recipient", A[n].res[1] = "asset"
  PROVE  Climbs(A) /\ \A i \in 1..Len(A) : Level(A[i]) < 6 /\ Tag(A[i]) \in {"role"} \cup PilotRows /\ (Tag(A[i]) = "role" => A[i].share)
<1>1. \A i \in 1..Len(A) : i \in {1, 2, 3, 4, 5}
  OBVIOUS
<1>2. \A i \in 1..Len(A) : RoleRead(A[i]) \/ Tag(A[i]) \in PilotRows
  <2>1. Tag(A[1]) \in PilotRows /\ RoleRead(A[2])
    BY Tags DEF PilotRows, RoleRead
  <2>2. CASE n = 4
    <3>1. Tag(A[3]) = "recipient" /\ Tag(A[4]) = "asset" /\ \A i \in 1..Len(A) : i \in {1, 2, 3, 4}
      BY <2>2 DEF Tag
    <3> QED
      BY <2>1, <3>1 DEF PilotRows
  <2>3. CASE n = 5
    <3>1. Tag(A[4]) = "recipient" /\ Tag(A[5]) = "asset" /\ RoleRead(A[3])
      <4>1. RoleRead(A[3])
        BY <2>3, Tags DEF RoleRead
      <4> QED
        BY <2>3, <4>1 DEF Tag
    <3> QED
      BY <1>1, <2>1, <3>1 DEF PilotRows
  <2> QED
    BY <2>2, <2>3
<1>3. ASSUME NEW i \in 1..Len(A), NEW j \in 1..Len(A), i < j PROVE RoleRead(A[j]) \/ Precedes(A[i], A[j])
  <2>1. CASE Tag(A[j]) \in PilotRows /\ Tag(A[i]) \in PilotRows
    BY <2>1 DEF Precedes
  <2>2. CASE Tag(A[j]) \in PilotRows /\ RoleRead(A[i])
    <3>1. Level(A[i]) = 2 /\ Level(A[j]) = 3
      BY <2>2 DEF Level, RoleRead, PilotRows
    <3> QED
      BY <3>1 DEF Precedes
  <2> QED
    BY <1>2, <2>1, <2>2
<1> QED
  BY <1>2, <1>3 DEF Climbs, Level, RoleRead, PilotRows

\* A proposal of a grant.
LEMMA ProposeOrderly ==
  ASSUME NEW op, IsPropose(op), NEW L, L = LocksOf(op)
  PROVE  Orderly(L) /\ Places(op, L)
<1>1. /\ Len(L) = 4 /\ L[1] = loadPolicy /\ L[2] = role(op.p.by, "treasury_operator")
      /\ L[3].res[1] = "recipient" /\ L[4].res[1] = "asset"
  BY ProposeLocksAre
<1>2. /\ Climbs(L)
      /\ \A i \in 1..Len(L) : Level(L[i]) < 6 /\ Tag(L[i]) \in {"role"} \cup PilotRows /\ (Tag(L[i]) = "role" => L[i].share)
  <2>1. PICK n : n = 4
    OBVIOUS
  <2>2. n \in {4, 5} /\ Len(L) = n /\ n # 5 /\ L[n - 1].res[1] = "recipient" /\ L[n].res[1] = "asset"
    BY <1>1, <2>1
  <2> QED
    BY <1>1, <2>2, GrantClimbs
<1>3. \A i \in 1..Len(L) : Tag(L[i]) # "balance" /\ Tag(L[i]) # "account"
  BY <1>2 DEF PilotRows
<1>4. IssuesGrant(op)
  BY DEF IssuesGrant, IsPropose
<1> QED
  BY <1>2, <1>3, <1>4 DEF Orderly, Keyed, RoleLast, Places

\* An approval.
LEMMA ApproveOrderly ==
  ASSUME NEW op, IsApprove(op), NEW L, L = LocksOf(op)
  PROVE  Orderly(L) /\ Places(op, L)
<1> DEFINE p == op.p
           u == op.by
<1>1. op.kind = "approve" /\ p \in Proposals /\ p.kind \in Kinds
  BY IssuanceAssumption DEF IsApprove
<1>2. L = ApproveLocks(u, p)
  BY <1>1 DEF LocksOf
<1>a. p.kind = "grant" => IssuesGrant(op)
  BY <1>1 DEF IssuesGrant
<1> HIDE DEF p, u
<1>4. CASE p.kind = "grant"
  <2> DEFINE S == {<<"test-money-issuance", p.asset>>, <<p.account, p.asset>>}
             A == GrantRows(u, p)
  <2>1. L = Cat(A, Sorted(S))
    BY <1>2, <1>4 DEF ApproveLocks, GrantLocks, GrantRows, Cat
  <2>2. p.account \in Accounts /\ p.asset \in Assets
    BY <1>1, <1>4, IssuanceAssumption
  <2>3. "test-money-issuance" \in System /\ p.account # "test-money-issuance"
    BY <2>2, WalletAssumption DEF System
  <2>4. S \in SUBSET Balances
    BY <2>2, <2>3 DEF Balances
  <2>5. IsFiniteSet(S)
    BY <2>3, Two
  <2> HIDE DEF S
  <2>6. /\ IsList(A) /\ Len(A) = 5 /\ A[1] = loadPolicy
        /\ A[2] = role(u, "treasury_approver") /\ A[3] = role(p.by, "treasury_operator")
        /\ A[4].res[1] = "recipient" /\ A[5].res[1] = "asset"
    <3>1. PICK B : B = A
      OBVIOUS
    <3> QED
      BY <3>1, GrantRowsAre
  <2> HIDE DEF A
  <2>7. /\ Climbs(A)
        /\ \A i \in 1..Len(A) : Level(A[i]) < 6 /\ Tag(A[i]) \in {"role"} \cup PilotRows /\ (Tag(A[i]) = "role" => A[i].share)
    <3>1. PICK n : n = 5
      OBVIOUS
    <3>2. n \in {4, 5} /\ Len(A) = n /\ A[n - 1].res[1] = "recipient" /\ A[n].res[1] = "asset"
      BY <2>6, <3>1
    <3>3. \E v, x : A[3] = role(v, x)
      BY <2>6
    <3> QED
      BY <2>6, <3>2, <3>3, GrantClimbs
  <2>8. Orderly(L) /\ \A i \in 1..Len(L) : (i \in 1..Len(A) /\ L[i] = A[i]) \/ Tag(L[i]) = "balance"
    BY <2>1, <2>4, <2>5, <2>6, <2>7, SortedAfter
  <2>9. \A i \in 1..Len(L) : Tag(L[i]) # "account"
    BY <2>7, <2>8 DEF PilotRows
  <2> QED
    BY <1>4, <1>a, <2>8, <2>9 DEF Places
<1>5. CASE p.kind = "inventory"
  <2> DEFINE S == {<<"staging-market-maker-treasury", p.asset>>, <<"staging-market-maker-issuance", p.asset>>}
             A == InventoryRows(p)
  <2>1. L = Cat(A, Sorted(S))
    BY <1>2, <1>5 DEF ApproveLocks, InventoryLocks, InventoryRows, Cat
  <2>2. p.asset \in Assets
    BY <1>1, <1>5, IssuanceAssumption
  <2>3. S \in SUBSET Balances
    BY <2>2 DEF Balances, System
  <2>4. IsFiniteSet(S)
    BY Two
  <2>5. IsList(A) /\ Len(A) = 3 /\ Tag(A[1]) = "treasury" /\ Tag(A[2]) = "asset" /\ Tag(A[3]) = "ceiling"
    BY List3, Tags DEF InventoryRows, Tag, ForShare
  <2> HIDE DEF S, A
  <2>6. Level(A[1]) = 1 /\ Level(A[2]) = 3 /\ Level(A[3]) = 4
    BY <2>5 DEF Level, PilotRows
  <2>7. \A i \in 1..Len(A) : i \in {1, 2, 3}
    BY <2>5
  <2>8. Climbs(A)
    BY <2>6, <2>7 DEF Climbs, Precedes
  <2>9. \A i \in 1..Len(A) : Level(A[i]) < 6 /\ Tag(A[i]) # "role"
    BY <2>5, <2>6, <2>7
  <2>10. Orderly(L) /\ \A i \in 1..Len(L) : (i \in 1..Len(A) /\ L[i] = A[i]) \/ Tag(L[i]) = "balance"
    BY <2>1, <2>3, <2>4, <2>5, <2>8, <2>9, SortedAfter
  <2>11. \A i \in 1..Len(L) : Tag(L[i]) # "account" /\ (Tag(L[i]) \in PilotRows => i = 2)
    BY <2>5, <2>7, <2>10 DEF PilotRows
  <2>12. ASSUME NEW i \in 1..Len(L), Tag(L[i]) \in PilotRows, NEW j \in 1..Len(L), j < i PROVE Tag(L[j]) \notin PilotRows
    BY <2>11, <2>12
  <2> QED
    BY <2>10, <2>11, <2>12 DEF Places
<1>6. CASE p.kind = "limit"
  <2>1. L = LimitLocks
    BY <1>2, <1>6 DEF ApproveLocks
  <2>2. Len(L) = 2 /\ Tag(L[1]) = "treasury" /\ Tag(L[2]) = "ceiling"
    BY <2>1, List2, Tags DEF LimitLocks
  <2>3. Level(L[1]) = 1 /\ Level(L[2]) = 4
    BY <2>2 DEF Level, PilotRows
  <2>4. Orderly(L)
    BY <2>2, <2>3, PairOrderly
  <2>5. \A i \in 1..Len(L) : i = 1 \/ i = 2
    BY <2>2
  <2> QED
    BY <2>2, <2>4, <2>5 DEF Places, PilotRows
<1> QED
  BY <1>1, <1>4, <1>5, <1>6 DEF Kinds

\* The order of every call.
LEMMA AllOrderly ==
  ASSUME NEW op, Asked(op), NEW L, L = LocksOf(op)
  PROVE  Orderly(L) /\ Places(op, L)
<1>1. CASE (op \in Transfers /\ op.from # op.to) \/ op \in RoleChanges \/ op.kind = "switch"
  <2>1. Orderly(L) /\ \A i \in 1..Len(L) : Tag(L[i]) \in {"balance", "control", "administrators", "role"}
    BY <1>1, ShortOrderly
  <2> QED
    BY <2>1 DEF Places, PilotRows
<1> QED
  BY <1>1, ConfirmOrderly, PilotOrderly, ProposeOrderly, ApproveOrderly DEF Asked

-----------------------------------------------------------------------------
(* Circles *)

\* The lock for which a call waits.
WaitsAt(c) == Head(call[c].todo)

\* It is the next of its list, and the call holds those before it.
LEMMA NextLock ==
  ASSUME CallsOK, NEW c \in Calls, call[c].todo # <<>>
  PROVE  LET L == LocksOf(call[c].op) IN
         /\ Asked(call[c].op)
         /\ \E i \in 1..Len(L) : WaitsAt(c) = L[i] /\ \A h \in call[c].held : \E j \in 1..Len(L) : j < i /\ h = L[j]
         /\ call[c].held # {} => L[1] \in call[c].held
<1> DEFINE L == LocksOf(call[c].op)
<1>1. Progress(c)
  BY DEF CallsOK, NoCall
<1>2. Asked(call[c].op) /\ IsList(L) /\ Len(L) \in Nat
  BY <1>1, ProgressFacts
<1>3. PICK k \in 0..Len(L) : call[c].held = Taken(L, k) /\ call[c].todo = Left(L, k)
  BY <1>1 DEF Progress
<1> HIDE DEF L
<1>4. Left(L, k) # <<>> => k < Len(L)
  BY <1>2, <1>3, LeftFacts
<1>5. k < Len(L) /\ WaitsAt(c) = L[k + 1] /\ k + 1 \in 1..Len(L)
  <2>1. k < Len(L)
    BY <1>3, <1>4
  <2>2. Head(Left(L, k)) = L[k + 1]
    BY <1>2, <2>1, LeftFacts
  <2> QED
    BY <1>2, <1>3, <2>1, <2>2 DEF WaitsAt
<1>6. ASSUME NEW h \in call[c].held PROVE \E j \in 1..Len(L) : j < k + 1 /\ h = L[j]
  <2>1. PICK j \in 1..k : h = L[j]
    BY <1>3, <1>6 DEF Taken
  <2> QED
    BY <1>2, <1>5, <2>1
<1>7. ASSUME call[c].held # {} PROVE L[1] \in call[c].held
  <2>1. PICK j \in 1..k : TRUE
    BY <1>3, <1>7 DEF Taken
  <2>2. 1 \in 1..k
    BY <1>2, <1>3, <2>1
  <2> QED
    BY <1>3, <2>2 DEF Taken
<1> QED
  BY <1>2, <1>5, <1>6, <1>7 DEF L

\* Whoever waits for a call that waits itself does not only read a role, and stands
\* before the other in the order unless that one only reads a role.
LEMMA WaitersClimb ==
  ASSUME CallsOK, NEW c \in Calls, NEW d \in Calls, Waits(c, d), call[d].todo # <<>>
  PROVE  ~RoleRead(WaitsAt(c)) /\ (RoleRead(WaitsAt(d)) \/ Precedes(WaitsAt(c), WaitsAt(d)))
<1> DEFINE L == LocksOf(call[d].op)
<1>1. PICK h \in call[d].held : Conflict(WaitsAt(c), h)
  BY DEF Waits, WaitsAt
<1>2. PICK i \in 1..Len(L) : WaitsAt(d) = L[i] /\ \A x \in call[d].held : \E j \in 1..Len(L) : j < i /\ x = L[j]
  BY NextLock
<1>3. PICK j \in 1..Len(L) : j < i /\ h = L[j]
  BY <1>2
<1>4. Orderly(L)
  BY NextLock, AllOrderly
<1> HIDE DEF L
<1>5. WaitsAt(c).res = h.res /\ ~(WaitsAt(c).share /\ h.share)
  BY <1>1 DEF Conflict
<1>6. Tag(WaitsAt(c)) = Tag(h) /\ Level(WaitsAt(c)) = Level(h) /\ KeyOf(WaitsAt(c)) = KeyOf(h)
  BY <1>5 DEF Tag, Level, KeyOf
<1>7. ~RoleRead(WaitsAt(c))
  <2>1. ASSUME RoleRead(WaitsAt(c)) PROVE FALSE
    <3>1. Tag(L[j]) = "role" /\ ~L[j].share
      BY <1>3, <1>5, <1>6, <2>1 DEF RoleRead
    <3>2. j = Len(L)
      BY <1>4, <3>1 DEF Orderly, RoleLast
    <3> QED
      BY <1>3, <3>2
  <2> QED
    BY <2>1
<1>8. RoleRead(L[i]) \/ Precedes(L[j], L[i])
  BY <1>3, <1>4 DEF Orderly, Climbs
<1> QED
  BY <1>2, <1>3, <1>6, <1>7, <1>8 DEF Precedes

\* A call that stands higher than c.
Higher(d, c) ==
  \/ Level(WaitsAt(c)) < Level(WaitsAt(d))
  \/ Tag(WaitsAt(c)) = "balance" /\ Tag(WaitsAt(d)) = "balance" /\ KeyOf(WaitsAt(c)) < KeyOf(WaitsAt(d))

\* A call that waits for a row of the pilot with another one in hand is the only
\* configuration, or the only grant or proposal, that has begun.
LEMMA RowInHand ==
  ASSUME CallsOK, NEW c \in Calls, call[c].todo # <<>>, Tag(WaitsAt(c)) \in PilotRows,
         NEW h \in call[c].held, Tag(h) \in PilotRows
  PROVE  \/ call[c].op.kind = "pilot" /\ ForUpdate(<<"pilot">>) \in call[c].held
         \/ IssuesGrant(call[c].op) /\ loadPolicy \in call[c].held
<1>1. PICK op : op = call[c].op
  OBVIOUS
<1>2. PICK L : L = LocksOf(op)
  OBVIOUS
<1>3. Asked(op) /\ L[1] \in call[c].held
  BY <1>1, <1>2, NextLock
<1>4. PICK i \in 1..Len(L) : WaitsAt(c) = L[i] /\ \A x \in call[c].held : \E j \in 1..Len(L) : j < i /\ x = L[j]
  BY <1>1, <1>2, NextLock
<1>5. PICK j \in 1..Len(L) : j < i /\ h = L[j]
  BY <1>4
<1>6. Places(op, L)
  BY <1>2, <1>3, AllOrderly
<1>7. op.kind = "pilot" \/ IssuesGrant(op)
  BY <1>4, <1>5, <1>6 DEF Places
<1>8. CASE op.kind = "pilot"
  <2>1. L[1] = ForUpdate(<<"pilot">>)
    BY <1>2, <1>3, <1>8, KindOf, PilotLocksAre
  <2> QED
    BY <1>1, <1>3, <1>8, <2>1
<1>9. CASE IssuesGrant(op)
  <2>1. CASE op.kind = "propose"
    <3>1. L[1] = loadPolicy
      BY <1>2, <1>3, <2>1, KindOf, ProposeLocksAre
    <3> QED
      BY <1>1, <1>3, <1>9, <3>1
  <2>2. CASE op.kind = "approve" /\ op.p.kind = "grant"
    <3>1. L[1] = loadPolicy
      BY <1>2, <1>3, <2>2, KindOf, ApproveLocksAre
    <3> QED
      BY <1>1, <1>3, <1>9, <3>1
  <2> QED
    BY <1>9, <2>1, <2>2 DEF IssuesGrant
<1> QED
  BY <1>7, <1>8, <1>9

\* In a circle everybody waits for a row of an account, or for a row of the pilot: from
\* any other lock the circle would only lead to calls that stand higher, and never come
\* back.  Everybody has what another waits for, so that there is one configuration and
\* one grant among those that wait for rows of the pilot.
LEMMA CirclesOnlyThere == CallsInv => KnownCircles
<1> SUFFICES ASSUME CallsInv, NEW S \in SUBSET Calls, InCircle(S)
             PROVE  \/ \A c \in S : call[c].op.kind = "confirm" /\ Tag(WaitsAt(c)) = "account"
                    \/ /\ \E c, d \in S : S = {c, d} /\ call[c].op.kind = "pilot" /\ IssuesGrant(call[d].op)
                       /\ \A c \in S : Tag(WaitsAt(c)) \in PilotRows
  BY DEF KnownCircles, Tag, WaitsAt, PilotRows
<1>a. CallsOK
  BY DEF CallsInv
<1>1. PICK next \in [S -> S] :
        /\ \A c \in S : Waits(c, next[c])
        /\ \A T \in SUBSET S : T # {} /\ (\A c \in T : next[c] \in T) => T = S
  BY DEF InCircle
<1>2. \A c \in S : call[c].todo # <<>>
  BY <1>1 DEF Waits
<1>3. \A c \in S : ~RoleRead(WaitsAt(c)) /\ (RoleRead(WaitsAt(next[c])) \/ Precedes(WaitsAt(c), WaitsAt(next[c])))
  BY <1>a, <1>1, <1>2, WaitersClimb
<1>4. \A c \in S : next[c] \in S /\ Precedes(WaitsAt(c), WaitsAt(next[c]))
  BY <1>1, <1>3
<1>5. \A c \in S : Tag(WaitsAt(c)) = "balance" => KeyOf(WaitsAt(c)) \in Int
  <2> SUFFICES ASSUME NEW c \in S, Tag(WaitsAt(c)) = "balance" PROVE KeyOf(WaitsAt(c)) \in Int
    OBVIOUS
  <2>1. PICK i \in 1..Len(LocksOf(call[c].op)) : WaitsAt(c) = LocksOf(call[c].op)[i]
    BY <1>a, <1>2, NextLock
  <2>2. Asked(call[c].op)
    BY <1>a, <1>2, NextLock
  <2>3. Keyed(LocksOf(call[c].op))
    BY <2>2, AllOrderly DEF Orderly
  <2> QED
    BY <2>1, <2>3 DEF Keyed
<1>6. \A c \in S : Level(WaitsAt(c)) \in 1..6 /\ (Tag(WaitsAt(c)) = "balance" => Level(WaitsAt(c)) = 6)
  BY DEF Level, PilotRows
<1>7. ASSUME NEW c0 \in S, Tag(WaitsAt(c0)) # "account", Tag(WaitsAt(c0)) \notin PilotRows PROVE FALSE
  <2>1. \A c \in S : Higher(c, c0) => Higher(next[c], c0)
    <3> SUFFICES ASSUME NEW c \in S, Higher(c, c0) PROVE Higher(next[c], c0)
      OBVIOUS
    <3>1. Precedes(WaitsAt(c), WaitsAt(next[c])) /\ next[c] \in S
      BY <1>4
    <3>2. CASE Level(WaitsAt(c)) < Level(WaitsAt(next[c]))
      BY <1>6, <3>1, <3>2 DEF Higher
    <3>3. CASE /\ \/ Tag(WaitsAt(c)) = Tag(WaitsAt(next[c]))
                  \/ Tag(WaitsAt(c)) \in PilotRows /\ Tag(WaitsAt(next[c])) \in PilotRows
               /\ Level(WaitsAt(c0)) < Level(WaitsAt(c))
      <4>1. Level(WaitsAt(c)) = Level(WaitsAt(next[c]))
        BY <3>3 DEF Level, PilotRows
      <4> QED
        BY <3>3, <4>1 DEF Higher
    <3>4. CASE /\ Tag(WaitsAt(c)) = "balance" /\ Tag(WaitsAt(next[c])) = "balance" /\ KeyOf(WaitsAt(c)) < KeyOf(WaitsAt(next[c]))
               /\ Tag(WaitsAt(c0)) = "balance" /\ KeyOf(WaitsAt(c0)) < KeyOf(WaitsAt(c))
      BY <1>5, <3>1, <3>4 DEF Higher
    <3>5. Tag(WaitsAt(c)) = "balance" => Tag(WaitsAt(c)) # "account" /\ Tag(WaitsAt(c)) \notin PilotRows
      BY DEF PilotRows
    <3> QED
      BY <3>1, <3>2, <3>3, <3>4, <3>5 DEF Higher, Precedes
  <2>2. Higher(next[c0], c0)
    BY <1>4, <1>7 DEF Higher, Precedes
  <2>3. PICK T \in SUBSET S : T = {c \in S : Higher(c, c0)}
    OBVIOUS
  <2>4. T # {} /\ \A c \in T : next[c] \in T
    BY <1>4, <2>1, <2>2, <2>3
  <2>5. T = S
    BY <1>1, <2>4
  <2>6. Higher(c0, c0)
    BY <2>3, <2>5
  <2> QED
    BY <1>5, <1>6, <2>6 DEF Higher
<1>8. CASE \E c \in S : Tag(WaitsAt(c)) = "account"
  <2>1. PICK T \in SUBSET S : T = {c \in S : Tag(WaitsAt(c)) = "account"}
    OBVIOUS
  <2>2. ASSUME NEW c \in S, Tag(WaitsAt(c)) = "account" PROVE Tag(WaitsAt(next[c])) = "account"
    <3>1. Precedes(WaitsAt(c), WaitsAt(next[c])) /\ next[c] \in S
      BY <1>4
    <3>2. Tag(WaitsAt(next[c])) = "account" \/ Tag(WaitsAt(next[c])) \in PilotRows
      BY <1>7, <3>1
    <3>3. Tag(WaitsAt(next[c])) \in PilotRows => Level(WaitsAt(next[c])) = 3
      BY DEF Level, PilotRows
    <3>4. Level(WaitsAt(c)) = 5 /\ Tag(WaitsAt(c)) \notin PilotRows /\ Tag(WaitsAt(c)) # "balance"
      BY <2>2 DEF Level, PilotRows
    <3>5. ~(5 < 3)
      OBVIOUS
    <3> QED
      BY <3>1, <3>2, <3>3, <3>4, <3>5 DEF Precedes
  <2>3. T # {} /\ \A c \in T : next[c] \in T
    BY <1>4, <1>8, <2>1, <2>2
  <2>4. \A c \in S : Tag(WaitsAt(c)) = "account"
    BY <1>1, <2>1, <2>3
  <2>5. ASSUME NEW c \in S PROVE call[c].op.kind = "confirm"
    <3>1. PICK L : L = LocksOf(call[c].op)
      OBVIOUS
    <3>2. PICK i \in 1..Len(L) : WaitsAt(c) = L[i]
      BY <1>a, <1>2, <3>1, NextLock
    <3>3. Asked(call[c].op)
      BY <1>a, <1>2, NextLock
    <3>4. Places(call[c].op, L)
      BY <3>1, <3>3, AllOrderly
    <3> QED
      BY <2>4, <3>2, <3>4 DEF Places
  <2> QED
    BY <2>4, <2>5
<1>9. CASE ~\E c \in S : Tag(WaitsAt(c)) = "account"
  <2>1. \A c \in S : Tag(WaitsAt(c)) \in PilotRows
    BY <1>7, <1>9
  <2>2. \A c \in S : \E b \in S : next[b] = c
    <3>1. PICK T \in SUBSET S : T = {next[b] : b \in S}
      BY <1>4
    <3>2. T # {} /\ \A c \in T : next[c] \in T
      BY <3>1 DEF InCircle
    <3>3. T = S
      BY <1>1, <3>2
    <3> QED
      BY <3>1, <3>3
  <2>3. ASSUME NEW c \in S
        PROVE  \/ call[c].op.kind = "pilot" /\ ForUpdate(<<"pilot">>) \in call[c].held
               \/ IssuesGrant(call[c].op) /\ loadPolicy \in call[c].held
    <3>1. PICK b \in S : next[b] = c
      BY <2>2
    <3>2. PICK h \in call[c].held : Conflict(WaitsAt(b), h)
      BY <1>1, <3>1 DEF Waits, WaitsAt
    <3>3. Tag(h) \in PilotRows
      BY <2>1, <3>2 DEF Conflict, Tag
    <3> QED
      BY <1>a, <1>2, <2>1, <3>3, RowInHand
  <2>4. \A c, d \in S : ForUpdate(<<"pilot">>) \in call[c].held /\ ForUpdate(<<"pilot">>) \in call[d].held => c = d
    BY HeldAlone
  <2>5. \A c, d \in S : loadPolicy \in call[c].held /\ loadPolicy \in call[d].held => c = d
    BY HeldAlone DEF loadPolicy
  <2>6. PICK c \in S : TRUE
    BY DEF InCircle
  <2>7. PICK d \in S : d = next[c]
    BY <1>4
  <2>8. c # d
    BY <1>1, <2>7 DEF Waits
  <2>9. S = {c, d}
    BY <2>3, <2>4, <2>5, <2>8
  <2>10. \/ call[c].op.kind = "pilot" /\ IssuesGrant(call[d].op)
         \/ call[d].op.kind = "pilot" /\ IssuesGrant(call[c].op)
    BY <2>3, <2>4, <2>5, <2>8
  <2> QED
    BY <2>1, <2>9, <2>10
<1> QED
  BY <1>8, <1>9

\* Calls of any kind and number wait for each other in a circle only as conversions at
\* the rows of the treasury's accounts, or as a configuration of the pilot and a grant.
THEOREM CirclesThere == Spec => []KnownCircles
<1>1. TreasuryInv => KnownCircles
  BY CirclesOnlyThere DEF TreasuryInv
<1> QED
  BY <1>1, Isolated, PTL
=============================================================================
