------------------------------ MODULE SumLemmas ------------------------------
(***************************************************************************)
(* Sums over finite sets.  The quantity on offer in a book, the holds of   *)
(* orders, the escrow of the market, the quotas of issuance and the        *)
(* deposits behind withdrawals are sums, taken with SumFunctionOnSet,      *)
(* which chooses a recursive function on the subsets of the set.  A        *)
(* smallest subset on which a claim about the sum fails does not exist,    *)
(* and that replaces an induction; so does the least number for which one  *)
(* about numbers fails.                                                    *)
(***************************************************************************)
EXTENDS Functions, FiniteSets, FiniteSetTheorems, WellFoundedInduction, TLAPS

\* A set of natural numbers has a least member.
LEMMA LeastNat ==
  ASSUME NEW B \in SUBSET Nat, B # {}
  PROVE  \E n \in B : \A m \in B : n <= m
<1> DEFINE R == {ss \in Nat \X Nat : ss[1] < ss[2]}
<1>1. IsWellFoundedOn(R, Nat)
  BY NatLessThanWellFounded DEF OpToRel
<1> HIDE DEF R
<1>2. PICK n \in B : \A m \in B : ~(<<m, n>> \in R)
  BY <1>1, WFMin
<1>3. ASSUME NEW m \in B PROVE n <= m
  <2>1. m \in Nat /\ n \in Nat
    OBVIOUS
  <2>2. ~(<<m, n>> \in R)
    BY <1>2
  <2>3. <<m, n>> \in Nat \X Nat /\ <<m, n>>[1] = m /\ <<m, n>>[2] = n
    BY <2>1
  <2>4. ~(m < n)
    BY <2>2, <2>3 DEF R
  <2> QED
    BY <2>1, <2>4
<1> QED
  BY <1>3

\* The element that is summed first.
FirstSummand(s) == CHOOSE x \in s : TRUE

\* g is a sum of f on every subset of S.
Defines(g, f, S) == g = [s \in SUBSET S |-> IF s = {} THEN 0 ELSE f[FirstSummand(s)] + g[s \ {FirstSummand(s)}]]

\* A set of subsets of a finite set has a smallest member: the strict subset order is
\* well founded there.  The induction of all lemmas below.
LEMMA SmallestSubset ==
  ASSUME NEW S, IsFiniteSet(S), NEW Bad \in SUBSET (SUBSET S), Bad # {}
  PROVE  \E T \in Bad : \A U \in SUBSET T : U \in Bad => U = T
  <1>1. FiniteSubsetsOf(S) = SUBSET S
    BY FS_FiniteSubsetsOfFinite
  <1>2. IsWellFoundedOn(StrictSubsetOrdering(S), SUBSET S)
    BY <1>1, FS_StrictSubsetOrderingWellFounded
  <1>3. PICK T \in Bad : \A U \in Bad : ~(<<U, T>> \in StrictSubsetOrdering(S))
    BY <1>2, WFMin
  <1>4. QED
    BY <1>3 DEF StrictSubsetOrdering

\* The element that is summed first is one of the set.
LEMMA FirstIn == ASSUME NEW s, s # {} PROVE FirstSummand(s) \in s
  BY DEF FirstSummand

\* A sum is the value of the function that the fold chooses.
LEMMA SumUnfold ==
  ASSUME NEW f, NEW S
  PROVE  SumFunctionOnSet(f, S) = (CHOOSE g : Defines(g, f, S))[S]
  BY DEF SumFunctionOnSet, FoldFunctionOnSet, MapThenFoldSet, Defines, FirstSummand

\* That function satisfies its equation at every subset.
LEMMA DefinesAt ==
  ASSUME NEW f, NEW S, NEW g, Defines(g, f, S), NEW t \in SUBSET S
  PROVE  g[t] = IF t = {} THEN 0 ELSE f[FirstSummand(t)] + g[t \ {FirstSummand(t)}]
  <1> DEFINE R == [s \in SUBSET S |-> IF s = {} THEN 0 ELSE f[FirstSummand(s)] + g[s \ {FirstSummand(s)}]]
  <1>1. g = R
    BY DEF Defines
  <1>2. R[t] = IF t = {} THEN 0 ELSE f[FirstSummand(t)] + g[t \ {FirstSummand(t)}]
    OBVIOUS
  <1> HIDE DEF R
  <1>3. QED
    BY <1>1, <1>2

\* Two functions with that equation agree on the subsets of a finite set.
LEMMA DefinesOnce ==
  ASSUME NEW f, NEW S, IsFiniteSet(S), NEW g, NEW h, Defines(g, f, S), Defines(h, f, S), NEW s \in SUBSET S
  PROVE  g[s] = h[s]
  <1> DEFINE Bad == {t \in SUBSET S : g[t] # h[t]}
  <1> SUFFICES ASSUME Bad # {} PROVE FALSE
    OBVIOUS
  <1>0. Bad \in SUBSET (SUBSET S)
    OBVIOUS
  <1> HIDE DEF Bad
  <1>1. PICK t \in Bad : \A u \in SUBSET t : u \in Bad => u = t
    BY <1>0, SmallestSubset
  <1>2. CASE t = {}
    BY <1>0, <1>1, <1>2, DefinesAt DEF Bad
  <1>3. CASE t # {}
    <2>1. FirstSummand(t) \in t
      BY <1>3, FirstIn
    <2>2. t \ {FirstSummand(t)} \in SUBSET S /\ t \ {FirstSummand(t)} # t
      BY <1>0, <1>1, <2>1
    <2>3. g[t \ {FirstSummand(t)}] = h[t \ {FirstSummand(t)}]
      BY <1>1, <2>2 DEF Bad
    <2>4. g[t] = f[FirstSummand(t)] + g[t \ {FirstSummand(t)}] /\ h[t] = f[FirstSummand(t)] + h[t \ {FirstSummand(t)}]
      BY <1>0, <1>1, <1>3, DefinesAt
    <2>5. QED
      BY <1>1, <2>3, <2>4 DEF Bad
  <1>4. QED
    BY <1>2, <1>3

\* The sum over a set, from that over a smaller one.
Equation(f, S) ==
  SumFunctionOnSet(f, S) = IF S = {} THEN 0 ELSE f[FirstSummand(S)] + SumFunctionOnSet(f, S \ {FirstSummand(S)})

\* A sum over a finite set is its first summand and the sum of the others.
LEMMA SumEquation ==
  ASSUME NEW f, NEW S, IsFiniteSet(S)
  PROVE  Equation(f, S)
  <1> DEFINE Bad == {t \in SUBSET S : ~Equation(f, t)}
  <1> SUFFICES ASSUME Bad # {} PROVE FALSE
    OBVIOUS
  <1>0. Bad \in SUBSET (SUBSET S)
    OBVIOUS
  <1> HIDE DEF Bad
  <1>1. PICK T \in Bad : \A u \in SUBSET T : u \in Bad => u = T
    BY <1>0, SmallestSubset
  <1>2. T \in SUBSET S /\ ~Equation(f, T) /\ \A u \in SUBSET T : u # T => Equation(f, u)
    BY <1>1 DEF Bad
  <1>3. IsFiniteSet(T)
    BY <1>2, FS_Subset
  <1> DEFINE G == [s \in SUBSET T |-> IF s = {} THEN 0 ELSE f[FirstSummand(s)] + SumFunctionOnSet(f, s \ {FirstSummand(s)})]
  <1>4. \A s \in SUBSET T : s # T => G[s] = SumFunctionOnSet(f, s)
    BY <1>2 DEF Equation
  <1>5. Defines(G, f, T)
    <2>1. ASSUME NEW s \in SUBSET T, s # {} PROVE SumFunctionOnSet(f, s \ {FirstSummand(s)}) = G[s \ {FirstSummand(s)}]
      <3>1. FirstSummand(s) \in s
        BY <2>1, FirstIn
      <3>2. s \ {FirstSummand(s)} \in SUBSET T /\ s \ {FirstSummand(s)} # T
        BY <3>1
      <3>3. QED
        BY <3>2, <1>4
    <2>2. QED
      BY <2>1 DEF Defines
  <1> HIDE DEF G
  <1>6. Defines(CHOOSE g : Defines(g, f, T), f, T)
    BY <1>5
  <1>7. (CHOOSE g : Defines(g, f, T))[T] = G[T]
    BY <1>3, <1>5, <1>6, DefinesOnce
  <1>8. SumFunctionOnSet(f, T) = G[T]
    BY <1>7, SumUnfold
  <1>9. QED
    BY <1>8, <1>2 DEF G, Equation

\* The sum of nothing is 0.
LEMMA SumEmpty == \A f : SumFunctionOnSet(f, {}) = 0
  BY SumEquation, FS_EmptySet DEF Equation

\* A sum of integers is an integer.
LEMMA SumType ==
  ASSUME NEW D, NEW f \in [D -> Int], NEW S \in SUBSET D, IsFiniteSet(S)
  PROVE  SumFunctionOnSet(f, S) \in Int
  <1> DEFINE Bad == {t \in SUBSET S : SumFunctionOnSet(f, t) \notin Int}
  <1> SUFFICES ASSUME Bad # {} PROVE FALSE
    OBVIOUS
  <1>0. Bad \in SUBSET (SUBSET S)
    OBVIOUS
  <1> HIDE DEF Bad
  <1>1. PICK T \in Bad : \A u \in SUBSET T : u \in Bad => u = T
    BY <1>0, SmallestSubset
  <1>2. T # {}
    <2>1. SumFunctionOnSet(f, T) \notin Int
      BY <1>1 DEF Bad
    <2>2. SumFunctionOnSet(f, {}) \in Int
      BY SumEmpty
    <2>3. QED
      BY <2>1, <2>2
  <1>3. FirstSummand(T) \in T
    BY <1>2, FirstIn
  <1>4. SumFunctionOnSet(f, T \ {FirstSummand(T)}) \in Int
    BY <1>0, <1>1, <1>3 DEF Bad
  <1>5. SumFunctionOnSet(f, T) = f[FirstSummand(T)] + SumFunctionOnSet(f, T \ {FirstSummand(T)})
    BY <1>0, <1>1, <1>2, SumEquation, FS_Subset DEF Equation
  <1>6. QED
    BY <1>0, <1>1, <1>3, <1>4, <1>5 DEF Bad

\* Any summand may be taken out first.
LEMMA SumTakeOut ==
  ASSUME NEW D, NEW f \in [D -> Int], NEW S \in SUBSET D, IsFiniteSet(S), NEW x \in S
  PROVE  SumFunctionOnSet(f, S) = f[x] + SumFunctionOnSet(f, S \ {x})
  <1> DEFINE Bad == {t \in SUBSET S : \E y \in t : SumFunctionOnSet(f, t) # f[y] + SumFunctionOnSet(f, t \ {y})}
  <1> SUFFICES ASSUME Bad # {} PROVE FALSE
    OBVIOUS
  <1>0. Bad \in SUBSET (SUBSET S)
    OBVIOUS
  <1> HIDE DEF Bad
  <1>1. PICK T \in Bad : \A u \in SUBSET T : u \in Bad => u = T
    BY <1>0, SmallestSubset
  <1>2. PICK y \in T : SumFunctionOnSet(f, T) # f[y] + SumFunctionOnSet(f, T \ {y})
    BY <1>1 DEF Bad
  <1>3. FirstSummand(T) \in T
    BY <1>2, FirstIn
  <1> DEFINE z == FirstSummand(T)
  <1>4. SumFunctionOnSet(f, T) = f[z] + SumFunctionOnSet(f, T \ {z})
    BY <1>0, <1>1, <1>2, SumEquation, FS_Subset DEF Equation
  <1> HIDE DEF z
  <1>5. z \in T /\ y # z
    BY <1>2, <1>3, <1>4 DEF z
  <1>6. /\ SumFunctionOnSet(f, T \ {z}) = f[y] + SumFunctionOnSet(f, (T \ {z}) \ {y})
        /\ SumFunctionOnSet(f, T \ {y}) = f[z] + SumFunctionOnSet(f, (T \ {y}) \ {z})
    <2>1. T \ {z} \in SUBSET S /\ T \ {y} \in SUBSET S /\ T \ {z} \notin Bad /\ T \ {y} \notin Bad
      BY <1>0, <1>1, <1>2, <1>5
    <2>2. \A t \in SUBSET S : t \notin Bad => \A v \in t : SumFunctionOnSet(f, t) = f[v] + SumFunctionOnSet(f, t \ {v})
      BY DEF Bad
    <2>3. QED
      BY <1>5, <2>1, <2>2
  <1>7. (T \ {z}) \ {y} = (T \ {y}) \ {z}
    OBVIOUS
  <1>8. SumFunctionOnSet(f, (T \ {y}) \ {z}) \in Int /\ f[y] \in Int /\ f[z] \in Int
    BY <1>0, <1>1, <1>5, SumType, FS_Subset
  <1>9. \A p, q, r \in Int : p + (q + r) = q + (p + r)
    OBVIOUS
  <1>10. SumFunctionOnSet(f, T) = f[z] + (f[y] + SumFunctionOnSet(f, (T \ {y}) \ {z}))
    BY <1>4, <1>6, <1>7
  <1>11. SumFunctionOnSet(f, T) = f[y] + (f[z] + SumFunctionOnSet(f, (T \ {y}) \ {z}))
    BY <1>8, <1>9, <1>10
  <1>12. QED
    BY <1>2, <1>6, <1>11

\* A sum depends on its summands only.
LEMMA SumSame ==
  ASSUME NEW S, IsFiniteSet(S), NEW f, NEW g, \A x \in S : f[x] = g[x]
  PROVE  SumFunctionOnSet(f, S) = SumFunctionOnSet(g, S)
  <1> DEFINE Bad == {t \in SUBSET S : SumFunctionOnSet(f, t) # SumFunctionOnSet(g, t)}
  <1> SUFFICES ASSUME Bad # {} PROVE FALSE
    OBVIOUS
  <1>0. Bad \in SUBSET (SUBSET S)
    OBVIOUS
  <1> HIDE DEF Bad
  <1>1. PICK T \in Bad : \A u \in SUBSET T : u \in Bad => u = T
    BY <1>0, SmallestSubset
  <1>2. SumFunctionOnSet(f, T) # SumFunctionOnSet(g, T)
    BY <1>1 DEF Bad
  <1>3. T # {}
    BY <1>2, SumEmpty
  <1>4. FirstSummand(T) \in T
    BY <1>3, FirstIn
  <1>5. SumFunctionOnSet(f, T \ {FirstSummand(T)}) = SumFunctionOnSet(g, T \ {FirstSummand(T)})
    BY <1>0, <1>1, <1>4 DEF Bad
  <1>6. IsFiniteSet(T)
    BY <1>0, <1>1, FS_Subset
  <1>7. /\ SumFunctionOnSet(f, T) = f[FirstSummand(T)] + SumFunctionOnSet(f, T \ {FirstSummand(T)})
        /\ SumFunctionOnSet(g, T) = g[FirstSummand(T)] + SumFunctionOnSet(g, T \ {FirstSummand(T)})
    BY <1>3, <1>6, SumEquation DEF Equation
  <1>8. f[FirstSummand(T)] = g[FirstSummand(T)]
    BY <1>0, <1>1, <1>4
  <1>9. QED
    BY <1>2, <1>5, <1>7, <1>8

\* A sum is the sum of two parts.
LEMMA SumSplit ==
  ASSUME NEW D, NEW f \in [D -> Int], NEW S \in SUBSET D, IsFiniteSet(S), NEW T \in SUBSET S
  PROVE  SumFunctionOnSet(f, S) = SumFunctionOnSet(f, T) + SumFunctionOnSet(f, S \ T)
  <1> DEFINE Bad == {t \in SUBSET S : SumFunctionOnSet(f, S) # SumFunctionOnSet(f, t) + SumFunctionOnSet(f, S \ t)}
  <1> SUFFICES ASSUME Bad # {} PROVE FALSE
    OBVIOUS
  <1>0. Bad \in SUBSET (SUBSET S)
    OBVIOUS
  <1> HIDE DEF Bad
  <1>1. PICK t \in Bad : \A u \in SUBSET t : u \in Bad => u = t
    BY <1>0, SmallestSubset
  <1>2. \A u \in SUBSET S : IsFiniteSet(u) /\ SumFunctionOnSet(f, u) \in Int
    BY FS_Subset, SumType
  <1>3. SumFunctionOnSet(f, S) # SumFunctionOnSet(f, t) + SumFunctionOnSet(f, S \ t)
    BY <1>1 DEF Bad
  <1>4. t # {}
    <2>1. S \ {} = S
      OBVIOUS
    <2>2. \A p \in Int : p = 0 + p
      OBVIOUS
    <2>3. SumFunctionOnSet(f, S) = SumFunctionOnSet(f, {}) + SumFunctionOnSet(f, S \ {})
      BY <1>2, <2>1, <2>2, SumEmpty
    <2>4. QED
      BY <1>3, <2>3
  <1>5. PICK x \in t : TRUE
    BY <1>4
  <1> DEFINE v == t \ {x}
  <1>6. /\ v \in SUBSET S /\ t \in SUBSET S /\ S \ v \in SUBSET S /\ S \ t \in SUBSET S /\ x \in S \ v
        /\ (S \ v) \ {x} = S \ t /\ v # t
    BY <1>0, <1>1, <1>5
  <1>7. SumFunctionOnSet(f, S) = SumFunctionOnSet(f, v) + SumFunctionOnSet(f, S \ v)
    BY <1>1, <1>6 DEF Bad
  <1>8. SumFunctionOnSet(f, t) = f[x] + SumFunctionOnSet(f, v)
    BY <1>2, <1>5, <1>6, SumTakeOut
  <1> HIDE DEF v
  <1>9. SumFunctionOnSet(f, S \ v) = f[x] + SumFunctionOnSet(f, S \ t)
    BY <1>2, <1>6, SumTakeOut
  <1>10. f[x] \in Int
    BY <1>6
  <1>11. \A p, q, r \in Int : q + (p + r) = (p + q) + r
    OBVIOUS
  <1>12. QED
    BY <1>2, <1>3, <1>6, <1>7, <1>8, <1>9, <1>10, <1>11

\* One more summand.
LEMMA SumAdd ==
  ASSUME NEW D, NEW f \in [D -> Int], NEW S \in SUBSET D, IsFiniteSet(S), NEW x \in D, x \notin S
  PROVE  SumFunctionOnSet(f, S \cup {x}) = f[x] + SumFunctionOnSet(f, S)
  <1>1. (S \cup {x}) \ {x} = S /\ S \cup {x} \in SUBSET D /\ x \in S \cup {x}
    OBVIOUS
  <1>2. IsFiniteSet(S \cup {x})
    BY FS_AddElement
  <1>3. SumFunctionOnSet(f, S \cup {x}) = f[x] + SumFunctionOnSet(f, (S \cup {x}) \ {x})
    BY <1>1, <1>2, SumTakeOut
  <1>4. QED
    BY <1>1, <1>3

\* Larger summands have a larger sum.
LEMMA SumLeq ==
  ASSUME NEW D, NEW f \in [D -> Int], NEW g \in [D -> Int], NEW S \in SUBSET D, IsFiniteSet(S),
         \A x \in S : f[x] <= g[x]
  PROVE  SumFunctionOnSet(f, S) <= SumFunctionOnSet(g, S)
  <1> DEFINE Bad == {t \in SUBSET S : ~(SumFunctionOnSet(f, t) <= SumFunctionOnSet(g, t))}
  <1> SUFFICES ASSUME Bad # {} PROVE FALSE
    OBVIOUS
  <1>0. Bad \in SUBSET (SUBSET S)
    OBVIOUS
  <1> HIDE DEF Bad
  <1>1. PICK T \in Bad : \A u \in SUBSET T : u \in Bad => u = T
    BY <1>0, SmallestSubset
  <1>2. ~(SumFunctionOnSet(f, T) <= SumFunctionOnSet(g, T))
    BY <1>1 DEF Bad
  <1>3. T # {}
    BY <1>2, SumEmpty
  <1>4. PICK x \in T : TRUE
    BY <1>3
  <1>5. SumFunctionOnSet(f, T \ {x}) <= SumFunctionOnSet(g, T \ {x})
    BY <1>0, <1>1, <1>4 DEF Bad
  <1>6. T \in SUBSET D /\ IsFiniteSet(T) /\ T \ {x} \in SUBSET D /\ IsFiniteSet(T \ {x})
    BY <1>0, <1>1, FS_Subset
  <1>7. /\ SumFunctionOnSet(f, T) = f[x] + SumFunctionOnSet(f, T \ {x})
        /\ SumFunctionOnSet(g, T) = g[x] + SumFunctionOnSet(g, T \ {x})
    BY <1>4, <1>6, SumTakeOut
  <1>8. f[x] <= g[x] /\ f[x] \in Int /\ g[x] \in Int
    BY <1>0, <1>1, <1>4
  <1>9. SumFunctionOnSet(f, T \ {x}) \in Int /\ SumFunctionOnSet(g, T \ {x}) \in Int
    BY <1>6, SumType
  <1>10. \A p, q, r, s \in Int : p <= q /\ r <= s => p + r <= q + s
    OBVIOUS
  <1>11. QED
    BY <1>2, <1>5, <1>7, <1>8, <1>9, <1>10

\* Zeros add up to zero.
LEMMA SumZero ==
  ASSUME NEW D, NEW f \in [D -> Int], NEW S \in SUBSET D, IsFiniteSet(S), \A x \in S : f[x] = 0
  PROVE  SumFunctionOnSet(f, S) = 0
  <1> DEFINE Bad == {t \in SUBSET S : SumFunctionOnSet(f, t) # 0}
  <1> SUFFICES ASSUME Bad # {} PROVE FALSE
    OBVIOUS
  <1>0. Bad \in SUBSET (SUBSET S)
    OBVIOUS
  <1> HIDE DEF Bad
  <1>1. PICK T \in Bad : \A u \in SUBSET T : u \in Bad => u = T
    BY <1>0, SmallestSubset
  <1>2. SumFunctionOnSet(f, T) # 0
    BY <1>1 DEF Bad
  <1>3. PICK x \in T : TRUE
    BY <1>2, SumEmpty
  <1>4. SumFunctionOnSet(f, T \ {x}) = 0
    BY <1>0, <1>1, <1>3 DEF Bad
  <1>5. T \in SUBSET D /\ IsFiniteSet(T) /\ f[x] = 0
    BY <1>0, <1>1, <1>3, FS_Subset
  <1>6. SumFunctionOnSet(f, T) = f[x] + SumFunctionOnSet(f, T \ {x})
    BY <1>3, <1>5, SumTakeOut
  <1>7. QED
    BY <1>2, <1>4, <1>5, <1>6

\* Summands that are not negative have a sum that is not negative.
LEMMA SumNat ==
  ASSUME NEW D, NEW f \in [D -> Int], NEW S \in SUBSET D, IsFiniteSet(S), \A x \in S : 0 <= f[x]
  PROVE  SumFunctionOnSet(f, S) \in Nat
  <1> DEFINE z == [x \in D |-> 0]
  <1>1. z \in [D -> Int] /\ (\A x \in S : z[x] = 0) /\ (\A x \in S : z[x] <= f[x])
    OBVIOUS
  <1> HIDE DEF z
  <1>2. SumFunctionOnSet(z, S) = 0
    BY <1>1, SumZero
  <1>3. SumFunctionOnSet(z, S) <= SumFunctionOnSet(f, S)
    BY <1>1, SumLeq
  <1>4. SumFunctionOnSet(f, S) \in Int
    BY SumType
  <1>5. QED
    BY <1>2, <1>3, <1>4

\* Fewer summands that are not negative have a smaller sum.
LEMMA SumSubset ==
  ASSUME NEW D, NEW f \in [D -> Int], NEW S \in SUBSET D, IsFiniteSet(S), NEW T \in SUBSET S,
         \A x \in S \ T : 0 <= f[x]
  PROVE  SumFunctionOnSet(f, T) <= SumFunctionOnSet(f, S)
  <1>1. SumFunctionOnSet(f, S) = SumFunctionOnSet(f, T) + SumFunctionOnSet(f, S \ T)
    BY SumSplit
  <1>2. IsFiniteSet(T) /\ IsFiniteSet(S \ T) /\ T \in SUBSET D /\ S \ T \in SUBSET D
    BY FS_Subset
  <1>3. SumFunctionOnSet(f, T) \in Int
    BY <1>2, SumType
  <1>4. SumFunctionOnSet(f, S \ T) \in Nat
    BY <1>2, SumNat
  <1>5. QED
    BY <1>1, <1>3, <1>4

\* A sum over one number more.
LEMMA SumOneMore ==
  ASSUME NEW k \in Nat, NEW m, m = k + 1, NEW f \in [1..k -> Int], NEW g \in [1..m -> Int],
         \A i \in 1..k : g[i] = f[i]
  PROVE  SumFunctionOnSet(g, 1..m) = SumFunctionOnSet(f, 1..k) + g[m]
<1>1. IsFiniteSet(1..k) /\ IsFiniteSet(1..m)
  BY FS_Interval
<1>2. (1..m) \ {m} = 1..k /\ m \in 1..m /\ 1..m \in SUBSET (1..m)
  OBVIOUS
<1>3. SumFunctionOnSet(g, 1..m) = g[m] + SumFunctionOnSet(g, 1..k)
  <2>1. SumFunctionOnSet(g, 1..m) = g[m] + SumFunctionOnSet(g, (1..m) \ {m})
    BY <1>1, <1>2, SumTakeOut
  <2> QED
    BY <1>2, <2>1
<1>4. SumFunctionOnSet(g, 1..k) = SumFunctionOnSet(f, 1..k)
  BY <1>1, SumSame
<1>5. SumFunctionOnSet(f, 1..k) \in Int /\ g[m] \in Int
  <2>1. 1..k \in SUBSET (1..k)
    OBVIOUS
  <2>2. SumFunctionOnSet(f, 1..k) \in Int
    BY <1>1, <2>1, SumType
  <2> QED
    BY <1>2, <2>2
<1> QED
  BY <1>2, <1>3, <1>4, <1>5

\* A sum in which one term changes.
LEMMA SumOneChanges ==
  ASSUME NEW S, IsFiniteSet(S), NEW f \in [S -> Int], NEW g \in [S -> Int], NEW p \in S,
         \A x \in S \ {p} : g[x] = f[x]
  PROVE  SumFunctionOnSet(g, S) = SumFunctionOnSet(f, S) - f[p] + g[p]
<1>1. IsFiniteSet(S \ {p})
  BY FS_RemoveElement
<1>2. SumFunctionOnSet(g, S) = g[p] + SumFunctionOnSet(g, S \ {p})
  BY SumTakeOut
<1>3. SumFunctionOnSet(f, S) = f[p] + SumFunctionOnSet(f, S \ {p})
  BY SumTakeOut
<1>4. SumFunctionOnSet(g, S \ {p}) = SumFunctionOnSet(f, S \ {p})
  BY <1>1, SumSame
<1>5. SumFunctionOnSet(f, S \ {p}) \in Int
  BY <1>1, SumType
<1> QED
  BY <1>2, <1>3, <1>4, <1>5

\* The last term of a sum over the numbers up to m.
LEMMA SumLast ==
  ASSUME NEW D, NEW f \in [D -> Int], NEW m \in Nat, m > 0, 1..m \subseteq D
  PROVE  SumFunctionOnSet(f, 1..m) = f[m] + SumFunctionOnSet(f, 1..(m - 1))
<1>1. PICK S \in SUBSET D : S = 1..m
  OBVIOUS
<1>2. IsFiniteSet(S)
  BY <1>1, FS_Interval
<1>3. PICK p \in S : p = m /\ S \ {p} = 1..(m - 1)
  BY <1>1
<1>4. SumFunctionOnSet(f, S) = f[p] + SumFunctionOnSet(f, S \ {p})
  BY <1>2, SumTakeOut
<1> QED
  BY <1>1, <1>3, <1>4

\* A sum of five terms.
LEMMA SumOfFive ==
  ASSUME NEW f \in [1..5 -> Int]
  PROVE  SumFunctionOnSet(f, 1..5) = f[1] + f[2] + f[3] + f[4] + f[5]
<1> DEFINE upTo(k) == SumFunctionOnSet(f, 1..k)
<1>1. \A m \in 1..5 : upTo(m) = f[m] + upTo(m - 1)
  <2>1. PICK D : D = 1..5 /\ f \in [D -> Int]
    OBVIOUS
  <2>2. \A m \in 1..5 : m \in Nat /\ m > 0 /\ 1..m \subseteq D
    BY <2>1
  <2> QED
    BY <2>1, <2>2, SumLast
<1>2. upTo(0) = 0
  <2>1. 1..0 = {}
    OBVIOUS
  <2> QED
    BY <2>1, SumEmpty
<1>3. f[1] \in Int /\ f[2] \in Int /\ f[3] \in Int /\ f[4] \in Int /\ f[5] \in Int
  OBVIOUS
<1> HIDE DEF upTo
<1>4. upTo(1) = f[1] + upTo(0) /\ upTo(2) = f[2] + upTo(1) /\ upTo(3) = f[3] + upTo(2)
      /\ upTo(4) = f[4] + upTo(3) /\ upTo(5) = f[5] + upTo(4)
  BY <1>1
<1>5. upTo(5) = f[1] + f[2] + f[3] + f[4] + f[5]
  BY <1>2, <1>3, <1>4
<1> QED
  BY <1>5 DEF upTo
=============================================================================
