------------------------------ MODULE SumLemmas ------------------------------
(***************************************************************************)
(* Sums over finite sets, for the ledgers of stock and money: what         *)
(* SumFunctionOnSet(f, S), the sum of f[x] for x in S, is when S gains an  *)
(* element, loses one, or f changes at one. The sum is a recursive         *)
(* function that takes the elements in an order CHOOSE fixes; that it is   *)
(* defined, and does not depend on that order, is proved by looking at a   *)
(* smallest set for which it would not be so.                              *)
(***************************************************************************)
EXTENDS Integers, FiniteSets, Functions, FiniteSetTheorems, TLAPS

First(S) == CHOOSE x \in S : TRUE

Rest(S) == S \ {First(S)}

\* a gives every subset of S its sum.
Tallies(f, S, a) ==
    a = [s \in SUBSET S |-> IF s = {} THEN 0 ELSE f[First(s)] + a[Rest(s)]]

-----------------------------------------------------------------------------

\* A nonempty set of subsets of a finite set has a smallest member.
LEMMA SmallestSubset ==
    ASSUME NEW U, IsFiniteSet(U), NEW Bad, Bad \subseteq SUBSET U, Bad # {}
    PROVE  \E m \in Bad : \A s \in Bad : s \subseteq m => s = m
<1>1. IsWellFoundedOn(StrictSubsetOrdering(U), SUBSET U)
  BY FS_StrictSubsetOrderingWellFounded, FS_FiniteSubsetsOfFinite
<1>2. PICK m \in Bad : \A s \in Bad : <<s, m>> \notin StrictSubsetOrdering(U)
  BY <1>1, WFMin
<1>3. ASSUME NEW s \in Bad, s \subseteq m PROVE s = m
  <2>1. <<s, m>> \in (SUBSET U) \X (SUBSET U)
    OBVIOUS
  <2> QED
    BY <1>2, <1>3, <2>1 DEF StrictSubsetOrdering
<1> QED
  BY <1>2, <1>3

\* The element a sum takes first is one of the set's.
LEMMA FirstIsIn ==
    ASSUME NEW S, S # {}
    PROVE  First(S) \in S /\ Rest(S) \subseteq S /\ Rest(S) # S
  BY DEF First, Rest

\* Two tallies agree on a set where the functions they tally agree.
LEMMA TalliesAgree ==
    ASSUME NEW f, NEW g, NEW S, NEW T, NEW a, NEW b, Tallies(f, S, a), Tallies(g, T, b),
           NEW U, IsFiniteSet(U), U \subseteq S, U \subseteq T, \A x \in U : f[x] = g[x]
    PROVE  a[U] = b[U]
<1> DEFINE Bad == {s \in SUBSET U : a[s] # b[s]}
<1>1. ASSUME Bad # {} PROVE FALSE
  <2> HIDE DEF Bad
  <2>1. Bad \subseteq SUBSET U
    BY DEF Bad
  <2>2. PICK m \in Bad : \A s \in Bad : s \subseteq m => s = m
    BY <1>1, <2>1, SmallestSubset
  <2>3. m \subseteq U /\ m \in SUBSET S /\ m \in SUBSET T /\ a[m] # b[m]
    BY <2>2 DEF Bad
  <2>4. CASE m = {}
    BY <2>3, <2>4 DEF Tallies
  <2>5. CASE m # {}
    <3>1. First(m) \in U /\ Rest(m) \subseteq U /\ Rest(m) \notin Bad
      BY <2>2, <2>3, <2>5, FirstIsIn
    <3>2. a[Rest(m)] = b[Rest(m)] /\ f[First(m)] = g[First(m)]
      BY <3>1 DEF Bad
    <3>3. a[m] = f[First(m)] + a[Rest(m)] /\ b[m] = g[First(m)] + b[Rest(m)]
      BY <2>3, <2>5 DEF Tallies
    <3> QED
      BY <2>3, <3>2, <3>3
  <2> QED
    BY <2>4, <2>5
<1> QED
  BY <1>1

\* Every finite set has a tally of its subsets.
LEMMA TalliesExist ==
    ASSUME NEW f, NEW S, IsFiniteSet(S)
    PROVE  \E a : Tallies(f, S, a)
<1> DEFINE Bad == {s \in SUBSET S : ~\E a : Tallies(f, s, a)}
<1>1. ASSUME Bad # {} PROVE FALSE
  <2> HIDE DEF Bad
  <2>1. Bad \subseteq SUBSET S
    BY DEF Bad
  <2>2. PICK m \in Bad : \A s \in Bad : s \subseteq m => s = m
    BY <1>1, <2>1, SmallestSubset
  <2>3. ~\E a : Tallies(f, m, a)
    BY <2>2 DEF Bad
  <2> DEFINE T(s) == CHOOSE a : Tallies(f, s, a)
             h == [s \in SUBSET m |-> IF s = {} THEN 0 ELSE f[First(s)] + T(Rest(s))[Rest(s)]]
  <2>4. ASSUME NEW s, s \subseteq m, s # m PROVE Tallies(f, s, T(s)) /\ IsFiniteSet(s)
    <3>1. s \notin Bad /\ s \in SUBSET S
      BY <2>1, <2>2, <2>4
    <3>2. \E a : Tallies(f, s, a)
      BY <3>1 DEF Bad
    <3>3. Tallies(f, s, T(s))
      BY <3>2
    <3> QED
      BY <3>1, <3>3, FS_Subset
  <2>5. ASSUME NEW s, s \subseteq m, s # m PROVE T(s)[s] = h[s]
    <3>1. Tallies(f, s, T(s))
      BY <2>4, <2>5
    <3>2. CASE s = {}
      BY <3>1, <3>2 DEF Tallies
    <3>3. CASE s # {}
      <4>1. Rest(s) \subseteq s /\ Rest(s) \subseteq m /\ Rest(s) # m
        BY <2>5, <3>3, FirstIsIn
      <4>2. Tallies(f, Rest(s), T(Rest(s))) /\ IsFiniteSet(Rest(s))
        BY <2>4, <4>1
      <4> HIDE DEF T
      <4>3. T(s)[Rest(s)] = T(Rest(s))[Rest(s)]
        BY <3>1, <4>1, <4>2, TalliesAgree
      <4>4. T(s)[s] = f[First(s)] + T(s)[Rest(s)]
        BY <3>1, <3>3 DEF Tallies
      <4>5. h[s] = f[First(s)] + T(Rest(s))[Rest(s)]
        BY <2>5, <3>3
      <4> QED
        BY <4>3, <4>4, <4>5
    <3> QED
      BY <3>2, <3>3
  <2>6. ASSUME NEW s \in SUBSET m, s # {} PROVE T(Rest(s))[Rest(s)] = h[Rest(s)]
    <3>1. Rest(s) \subseteq m /\ Rest(s) # m
      BY <2>6, FirstIsIn
    <3> HIDE DEF T, h
    <3> QED
      BY <2>5, <3>1
  <2> HIDE DEF T
  <2>7. h = [s \in SUBSET m |-> IF s = {} THEN 0 ELSE f[First(s)] + h[Rest(s)]]
    BY <2>6
  <2> HIDE DEF h
  <2>8. Tallies(f, m, h)
    BY <2>7 DEF Tallies
  <2> QED
    BY <2>3, <2>8
<1> QED
  BY <1>1

-----------------------------------------------------------------------------
(* The sum of the library's definition.                                    *)

LEMMA SumIsTally == \A f, S : SumFunctionOnSet(f, S) = (CHOOSE a : Tallies(f, S, a))[S]
  BY DEF SumFunctionOnSet, FoldFunctionOnSet, MapThenFoldSet, Tallies, First, Rest

\* Nothing sums to nothing; anything else to its first element and the rest.
LEMMA SumStep ==
    ASSUME NEW f, NEW S, IsFiniteSet(S)
    PROVE  /\ S = {} => SumFunctionOnSet(f, S) = 0
           /\ S # {} => SumFunctionOnSet(f, S) = f[First(S)] + SumFunctionOnSet(f, Rest(S))
<1> DEFINE T(s) == CHOOSE a : Tallies(f, s, a)
<1>1. Tallies(f, S, T(S))
  BY TalliesExist
<1>2. CASE S = {}
  BY <1>1, <1>2, SumIsTally DEF Tallies
<1>3. CASE S # {}
  <2>1. Rest(S) \subseteq S /\ IsFiniteSet(Rest(S))
    BY <1>3, FirstIsIn, FS_Subset
  <2>2. Tallies(f, Rest(S), T(Rest(S)))
    BY <2>1, TalliesExist
  <2>3. SumFunctionOnSet(f, S) = T(S)[S] /\ SumFunctionOnSet(f, Rest(S)) = T(Rest(S))[Rest(S)]
    BY SumIsTally
  <2> HIDE DEF T
  <2>4. T(S)[Rest(S)] = T(Rest(S))[Rest(S)]
    BY <1>1, <2>1, <2>2, TalliesAgree
  <2>5. T(S)[S] = f[First(S)] + T(S)[Rest(S)]
    BY <1>1, <1>3 DEF Tallies
  <2> QED
    BY <1>3, <2>3, <2>4, <2>5
<1> QED
  BY <1>2, <1>3

\* The sum depends on nothing but what it adds up.
LEMMA SumAgrees ==
    ASSUME NEW f, NEW g, NEW S, IsFiniteSet(S), \A x \in S : f[x] = g[x]
    PROVE  SumFunctionOnSet(f, S) = SumFunctionOnSet(g, S)
<1> DEFINE a == CHOOSE t : Tallies(f, S, t)
           b == CHOOSE t : Tallies(g, S, t)
<1>1. Tallies(f, S, a) /\ Tallies(g, S, b)
  BY TalliesExist
<1>2. SumFunctionOnSet(f, S) = a[S] /\ SumFunctionOnSet(g, S) = b[S]
  BY SumIsTally
<1> HIDE DEF a, b
<1> QED
  BY <1>1, <1>2, TalliesAgree

\* Natural numbers add up to a natural number.
LEMMA SumIsNat ==
    ASSUME NEW f, NEW S, IsFiniteSet(S), \A x \in S : f[x] \in Nat
    PROVE  SumFunctionOnSet(f, S) \in Nat
<1> DEFINE Bad == {s \in SUBSET S : SumFunctionOnSet(f, s) \notin Nat}
<1>1. ASSUME Bad # {} PROVE FALSE
  <2> HIDE DEF Bad
  <2>1. Bad \subseteq SUBSET S
    BY DEF Bad
  <2>2. PICK m \in Bad : \A s \in Bad : s \subseteq m => s = m
    BY <1>1, <2>1, SmallestSubset
  <2>3. m \subseteq S /\ IsFiniteSet(m) /\ SumFunctionOnSet(f, m) \notin Nat
    BY <2>2, FS_Subset DEF Bad
  <2>4. m # {}
    BY <2>3, SumStep
  <2>5. SumFunctionOnSet(f, m) = f[First(m)] + SumFunctionOnSet(f, Rest(m))
    BY <2>3, <2>4, SumStep
  <2>6. First(m) \in S /\ Rest(m) \in SUBSET S /\ Rest(m) \notin Bad
    BY <2>2, <2>3, <2>4, FirstIsIn
  <2>7. SumFunctionOnSet(f, Rest(m)) \in Nat
    BY <2>6 DEF Bad
  <2> QED
    BY <2>3, <2>5, <2>6, <2>7
<1> QED
  BY <1>1

\* Any element may be taken out first.
LEMMA SumElement ==
    ASSUME NEW f, NEW S, IsFiniteSet(S), \A x \in S : f[x] \in Nat, NEW e \in S
    PROVE  SumFunctionOnSet(f, S) = f[e] + SumFunctionOnSet(f, S \ {e})
<1> DEFINE Sum(s) == SumFunctionOnSet(f, s)
           Bad == {s \in SUBSET S : \E x \in s : Sum(s) # f[x] + Sum(s \ {x})}
<1>1. ASSUME Bad # {} PROVE FALSE
  <2> HIDE DEF Bad
  <2>1. Bad \subseteq SUBSET S
    BY DEF Bad
  <2>2. PICK m \in Bad : \A s \in Bad : s \subseteq m => s = m
    BY <1>1, <2>1, SmallestSubset
  <2>3. m \subseteq S /\ IsFiniteSet(m)
    BY <2>1, <2>2, FS_Subset
  <2>4. PICK x \in m : Sum(m) # f[x] + Sum(m \ {x})
    BY <2>2 DEF Bad
  <2>5. Sum(m) = f[First(m)] + Sum(Rest(m))
    BY <2>3, <2>4, SumStep
  <2>6. x # First(m) /\ First(m) \in m /\ Rest(m) \subseteq m /\ Rest(m) # m
    BY <2>4, <2>5, FirstIsIn DEF Rest
  <2>7. ASSUME NEW s, s \subseteq m, s # m, NEW y \in s PROVE Sum(s) = f[y] + Sum(s \ {y})
    <3>1. s \notin Bad /\ s \in SUBSET S
      BY <2>2, <2>3, <2>7
    <3> QED
      BY <2>7, <3>1 DEF Bad
  <2>8. Sum(Rest(m)) = f[x] + Sum(Rest(m) \ {x})
    <3>1. x \in Rest(m)
      BY <2>4, <2>6 DEF Rest
    <3> QED
      BY <2>6, <2>7, <3>1
  <2>9. Sum(m \ {x}) = f[First(m)] + Sum((m \ {x}) \ {First(m)})
    <3>1. First(m) \in m \ {x} /\ m \ {x} \subseteq m /\ m \ {x} # m
      BY <2>4, <2>6
    <3> QED
      BY <2>7, <3>1
  <2>10. Rest(m) \ {x} = (m \ {x}) \ {First(m)}
    BY DEF Rest
  <2>11. Sum(Rest(m) \ {x}) \in Nat
    <3>1. Rest(m) \ {x} \in SUBSET S
      BY <2>3, <2>6
    <3> HIDE DEF Sum
    <3>2. IsFiniteSet(Rest(m) \ {x})
      BY <3>1, FS_Subset
    <3> QED
      BY <3>1, <3>2, SumIsNat DEF Sum
  <2>12. f[x] \in Nat /\ f[First(m)] \in Nat
    BY <2>3, <2>4, <2>6
  <2> HIDE DEF Sum
  <2>13. Sum(m \ {x}) = f[First(m)] + Sum(Rest(m) \ {x})
    BY <2>9, <2>10, Zenon
  <2>14. ASSUME NEW a \in Nat, NEW b \in Nat, NEW c \in Nat PROVE a + (b + c) = b + (a + c)
    OBVIOUS
  <2> QED
    BY <2>4, <2>5, <2>8, <2>11, <2>12, <2>13, <2>14
<1> QED
  BY <1>1

-----------------------------------------------------------------------------
(* What the ledgers use.                                                   *)

\* One element more.
LEMMA SumGrows ==
    ASSUME NEW f, NEW g, NEW S, IsFiniteSet(S), NEW e, e \notin S,
           \A x \in S : g[x] = f[x] /\ f[x] \in Nat, g[e] \in Nat
    PROVE  /\ SumFunctionOnSet(f, S) \in Nat
           /\ SumFunctionOnSet(g, S \cup {e}) = SumFunctionOnSet(f, S) + g[e]
<1>1. IsFiniteSet(S \cup {e}) /\ (S \cup {e}) \ {e} = S
  BY FS_AddElement
<1>2. SumFunctionOnSet(g, S \cup {e}) = g[e] + SumFunctionOnSet(g, S)
  <2>1. SumFunctionOnSet(g, S \cup {e}) = g[e] + SumFunctionOnSet(g, (S \cup {e}) \ {e})
    BY <1>1, SumElement
  <2> QED
    BY <1>1, <2>1, Zenon
<1>3. SumFunctionOnSet(g, S) = SumFunctionOnSet(f, S)
  BY SumAgrees
<1>4. SumFunctionOnSet(f, S) \in Nat
  BY SumIsNat
<1>5. ASSUME NEW a, NEW b \in Nat, NEW c \in Nat, a = b + c PROVE a = c + b
  BY <1>5
<1> QED
  BY <1>2, <1>3, <1>4, <1>5
=============================================================================
