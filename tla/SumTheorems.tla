---------------------------- MODULE SumTheorems ----------------------------
(***************************************************************************)
(* Sums over finite sets.  Induction is by the smallest counterexample,    *)
(* which a finite set of sets has.                                         *)
(***************************************************************************)
EXTENDS Integers, FiniteSetsExt, TLAPS, FiniteSetTheorems, WellFoundedInduction

\* The sum of the values of f on S, and the recursion that defines it.
SumOf(f, S) == MapThenSumSet(LAMBDA c : f[c], S)
Pick(s) == CHOOSE x \in s : TRUE
IsSum(g, f, S) ==
    g = [s \in SUBSET S |-> IF s = {} THEN 0 ELSE f[Pick(s)] + g[s \ {Pick(s)}]]

LEMMA PickIsMember == ASSUME NEW s, s # {} PROVE Pick(s) \in s
BY DEF Pick

\* Among finite sets of which something holds there is one of whose proper subsets
\* it does not hold.
LEMMA SmallestSet ==
    ASSUME NEW S, IsFiniteSet(S), NEW B \in SUBSET (SUBSET S), B # {}
    PROVE  \E T \in B : \A U \in B : U \subseteq T => U = T
<1>1. IsWellFoundedOn(StrictSubsetOrdering(S), FiniteSubsetsOf(S))
  BY FS_StrictSubsetOrderingWellFounded
<1>2. B \subseteq FiniteSubsetsOf(S)
  BY FS_Subset DEF FiniteSubsetsOf
<1>3. PICK T \in B : \A U \in B : ~(<<U, T>> \in StrictSubsetOrdering(S))
  BY <1>1, <1>2, WFMin
<1>4. ASSUME NEW U \in B, U \subseteq T PROVE U = T
  BY <1>3, <1>4 DEF StrictSubsetOrdering
<1> QED BY <1>4

\* The recursion has one solution, and the same one on every set.
LEMMA SumIsUnique ==
    ASSUME NEW S, IsFiniteSet(S), NEW f, NEW T1 \in SUBSET S, NEW T2 \in SUBSET S,
           NEW g1, IsSum(g1, f, T1), NEW g2, IsSum(g2, f, T2),
           NEW s \in SUBSET S, s \subseteq T1, s \subseteq T2
    PROVE  g1[s] = g2[s]
<1> DEFINE B == {u \in SUBSET S : u \subseteq T1 /\ u \subseteq T2 /\ g1[u] # g2[u]}
<1> SUFFICES ASSUME B # {} PROVE FALSE
  OBVIOUS
<1>0. B \in SUBSET (SUBSET S)
  OBVIOUS
<1> HIDE DEF B
<1>1. PICK u \in B : \A v \in B : v \subseteq u => v = u
  BY <1>0, SmallestSet
<1> USE DEF B
<1>2. /\ g1[u] = IF u = {} THEN 0 ELSE f[Pick(u)] + g1[u \ {Pick(u)}]
      /\ g2[u] = IF u = {} THEN 0 ELSE f[Pick(u)] + g2[u \ {Pick(u)}]
  BY DEF IsSum
<1>3. CASE u = {}
  BY <1>2, <1>3
<1>4. CASE u # {}
  <2>1. Pick(u) \in u
    BY <1>4, PickIsMember
  <2>2. g1[u \ {Pick(u)}] = g2[u \ {Pick(u)}]
    BY <1>1, <2>1
  <2> QED BY <1>2, <1>4, <2>2
<1> QED BY <1>3, <1>4

LEMMA SumExists ==
    ASSUME NEW S, IsFiniteSet(S), NEW f, \A x \in S : f[x] \in Nat, NEW T \in SUBSET S
    PROVE  \E g \in [SUBSET T -> Nat] : IsSum(g, f, T)
<1> DEFINE Has(U) == \E g \in [SUBSET U -> Nat] : IsSum(g, f, U)
           B == {U \in SUBSET S : ~Has(U)}
<1> SUFFICES ASSUME B # {} PROVE FALSE
  OBVIOUS
<1>0. B \in SUBSET (SUBSET S)
  OBVIOUS
<1> HIDE DEF B
<1>1. PICK M \in B : \A U \in B : U \subseteq M => U = M
  BY <1>0, SmallestSet
<1>m. M \in SUBSET S /\ ~Has(M)
  BY DEF B
<1>2. \A U \in SUBSET M : U # M => Has(U)
  BY <1>1, <1>m DEF B
<1> DEFINE Of(U) == CHOOSE g \in [SUBSET U -> Nat] : IsSum(g, f, U)
           Val(U) == Of(U)[U]
<1>3. ASSUME NEW U \in SUBSET M, U # M
      PROVE  /\ Of(U) \in [SUBSET U -> Nat] /\ IsSum(Of(U), f, U) /\ Val(U) \in Nat
             /\ Val(U) = IF U = {} THEN 0 ELSE f[Pick(U)] + Val(U \ {Pick(U)})
  <2>1. Of(U) \in [SUBSET U -> Nat] /\ IsSum(Of(U), f, U)
    BY <1>2, <1>3
  <2>2. Val(U) \in Nat
    BY <2>1
  <2>3. Val(U) = IF U = {} THEN 0 ELSE f[Pick(U)] + Of(U)[U \ {Pick(U)}]
    BY <2>1 DEF IsSum
  <2>4. CASE U = {}
    BY <2>1, <2>2, <2>3, <2>4
  <2>5. CASE U # {}
    <3> DEFINE V == U \ {Pick(U)}
    <3>1. V \in SUBSET M /\ V # M /\ V \in SUBSET S /\ U \in SUBSET S
      BY <1>m, <2>5, PickIsMember
    <3>2. Of(V) \in [SUBSET V -> Nat] /\ IsSum(Of(V), f, V)
      BY <1>2, <3>1
    <3> HIDE DEF Of, V
    <3>3. Of(U)[V] = Of(V)[V]
      BY <2>1, <3>1, <3>2, SumIsUnique DEF V
    <3> QED BY <2>1, <2>2, <2>3, <2>5, <3>3 DEF V
  <2> QED BY <2>4, <2>5
<1> HIDE DEF Val
<1> DEFINE Last == IF M = {} THEN 0 ELSE f[Pick(M)] + Val(M \ {Pick(M)})
           h == [s \in SUBSET M |-> IF s = M THEN Last ELSE Val(s)]
<1>4. M # {} => Pick(M) \in M /\ M \ {Pick(M)} # M /\ M \ {Pick(M)} \in SUBSET M
  BY PickIsMember
<1>5. Last \in Nat
  <2>1. CASE M = {}
    BY <2>1
  <2>2. CASE M # {}
    <3>1. f[Pick(M)] \in Nat /\ Val(M \ {Pick(M)}) \in Nat
      BY <1>m, <1>3, <1>4, <2>2
    <3> QED BY <2>2, <3>1
  <2> QED BY <2>1, <2>2
<1>6. h \in [SUBSET M -> Nat]
  BY <1>3, <1>5
<1>7. ASSUME NEW s \in SUBSET M
      PROVE  h[s] = IF s = {} THEN 0 ELSE f[Pick(s)] + h[s \ {Pick(s)}]
  <2>1. CASE s = {}
    <3>1. CASE s = M
      BY <2>1, <3>1
    <3>2. CASE s # M
      BY <1>3, <2>1, <3>2
    <3> QED BY <3>1, <3>2
  <2>2. CASE s # {}
    <3>0. Pick(s) \in s
      BY <2>2, PickIsMember
    <3>1. s \ {Pick(s)} \in SUBSET M /\ s \ {Pick(s)} # M
      BY <3>0
    <3>2. h[s \ {Pick(s)}] = Val(s \ {Pick(s)})
      BY <3>1
    <3>3. CASE s = M
      BY <2>2, <3>2, <3>3
    <3>4. CASE s # M
      BY <1>3, <2>2, <3>2, <3>4
    <3> QED BY <3>3, <3>4
  <2> QED BY <2>1, <2>2
<1> HIDE DEF h
<1>8. IsSum(h, f, M)
  <2>1. h = [s \in SUBSET M |-> h[s]]
    BY <1>6
  <2>2. \A s \in SUBSET M : h[s] = IF s = {} THEN 0 ELSE f[Pick(s)] + h[s \ {Pick(s)}]
    BY <1>7
  <2> QED BY <2>1, <2>2 DEF IsSum
<1> QED BY <1>m, <1>6, <1>8

LEMMA SumUnfolds ==
  ASSUME NEW S, NEW f, \E g : IsSum(g, f, S)
  PROVE \E g : IsSum(g, f, S) /\ SumOf(f, S) = g[S]
<1> DEFINE it == CHOOSE g : IsSum(g, f, S)
<1>1. IsSum(it, f, S)
  OBVIOUS
<1>2. SumOf(f,S) = it[S]
  BY DEF SumOf, MapThenSumSet, MapThenFoldSet, IsSum, Pick
<1> QED BY <1>1, <1>2

\* What a sum is: nothing for the empty set, and otherwise the value of any one
\* member and the sum of the rest.
LEMMA SumPicks ==
    ASSUME NEW S, IsFiniteSet(S), NEW f, \A x \in S : f[x] \in Nat
    PROVE  /\ SumOf(f, S) \in Nat
           /\ S = {} => SumOf(f, S) = 0
           /\ S # {} => SumOf(f, S) = f[Pick(S)] + SumOf(f, S \ {Pick(S)})
<1>0. \A T \in SUBSET S : \E h \in [SUBSET T -> Nat] : IsSum(h, f, T)
  BY SumExists, Zenon
<1>1. PICK g \in [SUBSET S -> Nat] : IsSum(g, f, S)
  BY <1>0
<1>2. ASSUME NEW T \in SUBSET S PROVE SumOf(f, T) = g[T]
  <2>1. \E h : IsSum(h, f, T)
    BY <1>0
  <2>2. PICK h : IsSum(h, f, T) /\ SumOf(f, T) = h[T]
    BY <2>1, SumUnfolds
  <2> QED BY <1>1, <2>2, SumIsUnique
<1>3. g[S] = IF S = {} THEN 0 ELSE f[Pick(S)] + g[S \ {Pick(S)}]
  BY <1>1 DEF IsSum
<1>4. SumOf(f, S) = g[S] /\ SumOf(f, S \ {Pick(S)}) = g[S \ {Pick(S)}]
  BY <1>2
<1> QED BY <1>1, <1>3, <1>4

LEMMA SumSplits ==
    ASSUME NEW S, IsFiniteSet(S), NEW f, \A x \in S : f[x] \in Nat, NEW c \in S
    PROVE  SumOf(f, S) = f[c] + SumOf(f, S \ {c})
<1> DEFINE Ok(T) == \A d \in T : SumOf(f, T) = f[d] + SumOf(f, T \ {d})
           B == {T \in SUBSET S : ~Ok(T)}
<1> SUFFICES ASSUME B # {} PROVE FALSE
  OBVIOUS
<1>0. B \in SUBSET (SUBSET S)
  OBVIOUS
<1> HIDE DEF B
<1>1. PICK T \in B : \A U \in B : U \subseteq T => U = T
  BY <1>0, SmallestSet
<1>2. T \in SUBSET S /\ ~Ok(T)
  BY DEF B
<1>3. \A U \in SUBSET T : U # T => Ok(U)
  BY <1>1, <1>2 DEF B
<1>4. ASSUME NEW U \in SUBSET S
      PROVE  /\ SumOf(f, U) \in Nat
             /\ U # {} => SumOf(f, U) = f[Pick(U)] + SumOf(f, U \ {Pick(U)})
  <2>1. IsFiniteSet(U) /\ \A x \in U : f[x] \in Nat
    BY FS_Subset
  <2> QED BY <2>1, SumPicks
<1>5. PICK d \in T : SumOf(f, T) # f[d] + SumOf(f, T \ {d})
  BY <1>2
<1>6. PICK p \in T : p = Pick(T)
  BY PickIsMember
<1>7. SumOf(f, T) = f[p] + SumOf(f, T \ {p})
  BY <1>2, <1>4, <1>6
<1>8. p # d
  BY <1>5, <1>7
<1>9. T \ {p} \in SUBSET T /\ T \ {p} # T /\ d \in T \ {p}
  BY <1>8
<1>10. T \ {d} \in SUBSET T /\ T \ {d} # T /\ p \in T \ {d}
  BY <1>8
<1>11. SumOf(f, T \ {p}) = f[d] + SumOf(f, (T \ {p}) \ {d})
  BY <1>3, <1>9
<1>12. SumOf(f, T \ {d}) = f[p] + SumOf(f, (T \ {d}) \ {p})
  BY <1>3, <1>10
<1>13. (T \ {d}) \ {p} = (T \ {p}) \ {d}
  OBVIOUS
<1>14. SumOf(f, (T \ {p}) \ {d}) \in Nat /\ f[p] \in Nat /\ f[d] \in Nat
  BY <1>2, <1>4
<1> QED BY <1>5, <1>7, <1>11, <1>12, <1>13, <1>14

LEMMA SumOfZeros ==
    ASSUME NEW S, IsFiniteSet(S), NEW f, \A x \in S : f[x] = 0
    PROVE  SumOf(f, S) = 0
<1> DEFINE B == {T \in SUBSET S : SumOf(f, T) # 0}
<1> SUFFICES ASSUME B # {} PROVE FALSE
  OBVIOUS
<1>0. B \in SUBSET (SUBSET S)
  OBVIOUS
<1> HIDE DEF B
<1>1. PICK T \in B : \A U \in B : U \subseteq T => U = T
  BY <1>0, SmallestSet
<1>2. T \in SUBSET S /\ SumOf(f, T) # 0
  BY DEF B
<1>3. IsFiniteSet(T) /\ \A x \in T : f[x] \in Nat
  BY <1>2, FS_Subset
<1>4. T # {}
  BY <1>2, <1>3, SumPicks
<1>5. PICK p \in T : p = Pick(T)
  BY <1>4, PickIsMember
<1>6. SumOf(f, T) = f[p] + SumOf(f, T \ {p})
  BY <1>3, SumSplits
<1>7. SumOf(f, T \ {p}) = 0
  <2>1. T \ {p} \in SUBSET S /\ T \ {p} \subseteq T /\ T \ {p} # T
    BY <1>2
  <2> QED BY <1>1, <2>1 DEF B
<1> QED BY <1>2, <1>6, <1>7

\* Only the values on the set matter.
LEMMA SumAgrees ==
    ASSUME NEW S, NEW f, NEW h, \A x \in S : f[x] = h[x]
    PROVE  SumOf(f, S) = SumOf(h, S)
<1>1. \A s \in SUBSET S : s # {} => f[Pick(s)] = h[Pick(s)]
  BY PickIsMember
<1>2. ASSUME NEW g PROVE IsSum(g, f, S) <=> IsSum(g, h, S)
  BY <1>1 DEF IsSum
<1>3. (CHOOSE g : IsSum(g, f, S)) = (CHOOSE g : IsSum(g, h, S))
  BY <1>2
<1>4. /\ SumOf(f, S) = (CHOOSE g : IsSum(g, f, S))[S]
      /\ SumOf(h, S) = (CHOOSE g : IsSum(g, h, S))[S]
  BY DEF SumOf, MapThenSumSet, MapThenFoldSet, IsSum, Pick
<1> QED BY <1>3, <1>4
=============================================================================
