----------------------------- MODULE SumProofs ------------------------------
(* Facts about MapThenSumSet over finite sets: that the fold is defined,     *)
(* does not depend on the order in which it takes the elements, and how two  *)
(* sums compare.  Induction on the size of a set is done by looking at a     *)
(* smallest counterexample.                                                  *)
EXTENDS Integers, FiniteSetsExt, FiniteSetTheorems, TLAPS

\* The sum of a function over a finite part of its domain.
SumOver(f, S) == MapThenSumSet(LAMBDA x : f[x], S)

\* The element that the fold takes next, and the function that it defines.
Pick(s) == CHOOSE x \in s : TRUE

Iter(f, S) ==
    CHOOSE g : g = [s \in SUBSET S |-> IF s = {} THEN 0 ELSE f[Pick(s)] + g[s \ {Pick(s)}]]

\* The operators of the library, unfolded.
LEMMA SumOverIs == ASSUME NEW f, NEW S PROVE SumOver(f, S) = Iter(f, S)[S]
BY DEF SumOver, MapThenSumSet, MapThenFoldSet, Iter, Pick

\* A set of natural numbers has a least one.
LEMMA Least ==
    ASSUME NEW T \in SUBSET Nat, T # {}
    PROVE  \E n \in T : \A m \in T : n <= m
<1>1. PICK n \in T : \A m \in T : ~ (<<m, n>> \in OpToRel(<, Nat))
    BY WFMin, NatLessThanWellFounded
<1>2. \A m \in T : ~ (m < n)
    BY <1>1 DEF OpToRel
<1> QED BY <1>2

\* One unfolding of the recursion, and the functions that satisfy it.
Unfold(f, g, s) == IF s = {} THEN 0 ELSE f[Pick(s)] + g[s \ {Pick(s)}]

SumsOf(f, S, g) == DOMAIN g = SUBSET S /\ \A s \in SUBSET S : g[s] = Unfold(f, g, s)

\* A set without the element taken next is smaller by one.
LEMMA Picked ==
    ASSUME NEW s, s # {}, IsFiniteSet(s)
    PROVE  /\ Pick(s) \in s /\ IsFiniteSet(s \ {Pick(s)})
           /\ Cardinality(s \ {Pick(s)}) = Cardinality(s) - 1
           /\ Cardinality(s) \in Nat \ {0} /\ Cardinality(s \ {Pick(s)}) \in Nat
<1>1. Pick(s) \in s
    BY DEF Pick
<1> QED BY <1>1, FS_RemoveElement, FS_CardinalityType, FS_EmptySet

\* The recursion has a solution: on the sets of up to n elements for every n.
LEMMA SumsExist ==
    ASSUME NEW S, IsFiniteSet(S), NEW f, \A x \in S : f[x] \in Nat
    PROVE  \E g \in [SUBSET S -> Nat] : SumsOf(f, S, g)
<1> DEFINE Upto(g, n) == \A s \in SUBSET S : Cardinality(s) <= n => g[s] = Unfold(f, g, s)
           T == {n \in Nat : ~ \E g \in [SUBSET S -> Nat] : Upto(g, n)}
<1>1. \A s \in SUBSET S : /\ IsFiniteSet(s) /\ Cardinality(s) \in Nat
                          /\ Cardinality(s) <= Cardinality(S)
                          /\ Cardinality(s) = 0 => s = {}
    BY FS_Subset, FS_CardinalityType, FS_EmptySet
<1>2. T = {}
  <2> SUFFICES ASSUME T # {} PROVE FALSE
      OBVIOUS
  <2>1. PICK n \in T : \A m \in T : n <= m
      BY Least
  <2>2. n \in Nat /\ ~ \E g \in [SUBSET S -> Nat] : Upto(g, n)
      BY <2>1
  <2>3. CASE n = 0
    <3> DEFINE g == [s \in SUBSET S |-> 0]
    <3>1. g \in [SUBSET S -> Nat] /\ Upto(g, 0)
        BY <1>1 DEF Unfold
    <3> QED BY <2>2, <2>3, <3>1
  <2>4. CASE n # 0
    <3>1. n - 1 \in Nat /\ n - 1 \notin T
      <4> HIDE DEF T
      <4> QED BY <2>1, <2>2, <2>4
    <3>2. PICK g \in [SUBSET S -> Nat] : Upto(g, n - 1)
        BY <3>1
    <3> DEFINE h == [s \in SUBSET S |-> Unfold(f, g, s)]
    <3>3. ASSUME NEW s \in SUBSET S PROVE Unfold(f, g, s) \in Nat
      <4>1. CASE s = {}
          BY <4>1 DEF Unfold
      <4>2. CASE s # {}
        <5>1. Pick(s) \in s
            BY <4>2 DEF Pick
        <5>2. f[Pick(s)] \in Nat /\ g[s \ {Pick(s)}] \in Nat
            BY <5>1
        <5> QED BY <4>2, <5>2 DEF Unfold
      <4> QED BY <4>1, <4>2
    <3>4. h \in [SUBSET S -> Nat]
        BY <3>3
    <3>5. ASSUME NEW s \in SUBSET S, Cardinality(s) <= n
          PROVE  h[s] = Unfold(f, h, s)
      <4>1. CASE s = {}
          BY <4>1 DEF Unfold
      <4>2. CASE s # {}
        <5> DEFINE r == s \ {Pick(s)}
        <5>1. r \in SUBSET S /\ Cardinality(r) <= n - 1
            BY <1>1, <2>2, <3>5, <4>2, Picked
        <5>2. g[r] = Unfold(f, g, r)
            BY <3>2, <5>1
        <5>3. h[r] = g[r]
            BY <5>1, <5>2
        <5>4. h[s] = f[Pick(s)] + g[r]
            BY <4>2 DEF Unfold
        <5>5. Unfold(f, h, s) = f[Pick(s)] + h[r]
            BY <4>2 DEF Unfold
        <5> QED BY <5>3, <5>4, <5>5
      <4> QED BY <4>1, <4>2
    <3>6. Upto(h, n)
        BY <3>5
    <3> QED BY <2>2, <3>4, <3>6
  <2> QED BY <2>3, <2>4
<1>3. Cardinality(S) \in Nat
    BY FS_CardinalityType
<1>4. PICK g \in [SUBSET S -> Nat] : Upto(g, Cardinality(S))
    BY <1>2, <1>3
<1>5. SumsOf(f, S, g)
    BY <1>1, <1>4 DEF SumsOf
<1> QED BY <1>5

\* The recursion has one solution, whatever set it is defined on.
LEMMA SumsUnique ==
    ASSUME NEW A, IsFiniteSet(A), NEW B, IsFiniteSet(B), NEW e, NEW f, NEW g, NEW h,
           SumsOf(e, A, g), SumsOf(f, B, h), NEW C \in SUBSET (A \cap B),
           \A x \in C : e[x] = f[x]
    PROVE  g[C] = h[C]
<1> DEFINE T == {Cardinality(s) : s \in {s \in SUBSET C : g[s] # h[s]}}
<1>1. \A s \in SUBSET C : IsFiniteSet(s) /\ Cardinality(s) \in Nat
    BY FS_Subset, FS_CardinalityType
<1>2. T = {}
  <2> SUFFICES ASSUME T # {} PROVE FALSE
      OBVIOUS
  <2>0. T \in SUBSET Nat
      BY <1>1
  <2>1. PICK n \in T : \A m \in T : n <= m
      BY <2>0, Least
  <2>2. PICK s \in SUBSET C : g[s] # h[s] /\ Cardinality(s) = n
      BY <2>1
  <2>3. g[s] = Unfold(e, g, s) /\ h[s] = Unfold(f, h, s)
      BY DEF SumsOf
  <2>4. s # {}
      BY <2>2, <2>3 DEF Unfold
  <2> DEFINE r == s \ {Pick(s)}
  <2>5. r \in SUBSET C /\ Cardinality(r) < n /\ Pick(s) \in C
      BY <1>1, <2>2, <2>4, Picked
  <2>6. g[r] = h[r]
    <3> SUFFICES ASSUME g[r] # h[r] PROVE FALSE
        OBVIOUS
    <3>1. Cardinality(r) \in T
        BY <2>5
    <3>2. n <= Cardinality(r) /\ n \in Nat /\ Cardinality(r) \in Nat
        BY <1>1, <2>0, <2>1, <2>5, <3>1
    <3> QED BY <2>5, <3>2
  <2>7. Unfold(e, g, s) = Unfold(f, h, s)
      BY <2>4, <2>5, <2>6 DEF Unfold
  <2> QED BY <2>2, <2>3, <2>7
<1>3. C \in SUBSET C
    OBVIOUS
<1> QED BY <1>2, <1>3

\* MapThenSumSet satisfies the recursion.
LEMMA IterSums ==
    ASSUME NEW S, IsFiniteSet(S), NEW f, \A x \in S : f[x] \in Nat
    PROVE  SumsOf(f, S, Iter(f, S)) /\ Iter(f, S) \in [SUBSET S -> Nat]
<1>1. PICK g \in [SUBSET S -> Nat] : SumsOf(f, S, g)
    BY SumsExist
<1>2. g = [s \in SUBSET S |-> IF s = {} THEN 0 ELSE f[Pick(s)] + g[s \ {Pick(s)}]]
    BY <1>1 DEF SumsOf, Unfold
<1> DEFINE i == Iter(f, S)
<1>3. i = [s \in SUBSET S |-> IF s = {} THEN 0 ELSE f[Pick(s)] + i[s \ {Pick(s)}]]
    BY <1>2 DEF Iter
<1> HIDE DEF i
<1>4. SumsOf(f, S, i)
    BY <1>3 DEF SumsOf, Unfold
<1>5. ASSUME NEW s \in SUBSET S PROVE i[s] \in Nat
  <2>1. i[s] = g[s]
      BY <1>1, <1>4, SumsUnique
  <2> QED BY <2>1
<1>6. DOMAIN i = SUBSET S
    BY <1>4 DEF SumsOf
<1>7. i = [s \in SUBSET S |-> i[s]]
    BY <1>3
<1>8. i \in [SUBSET S -> Nat]
    BY <1>5, <1>7
<1> QED BY <1>4, <1>8 DEF i

-----------------------------------------------------------------------------
(* What the proofs use.                                                      *)

\* No summands.
LEMMA SumEmpty == ASSUME NEW f PROVE SumOver(f, {}) = 0
<1>1. IsFiniteSet({})
    BY FS_EmptySet
<1>2. SumsOf(f, {}, Iter(f, {}))
    BY <1>1, IterSums
<1>3. {} \in SUBSET {}
    OBVIOUS
<1>4. Iter(f, {})[{}] = Unfold(f, Iter(f, {}), {})
    BY <1>2, <1>3 DEF SumsOf
<1> QED BY <1>4, SumOverIs DEF Unfold

\* A sum of natural numbers is one.
LEMMA SumType ==
    ASSUME NEW S, IsFiniteSet(S), NEW f, \A x \in S : f[x] \in Nat
    PROVE  SumOver(f, S) \in Nat
<1>1. Iter(f, S) \in [SUBSET S -> Nat]
    BY IterSums
<1>2. S \in SUBSET S
    OBVIOUS
<1> QED BY <1>1, <1>2, SumOverIs

\* Equal summands.
LEMMA SumSame ==
    ASSUME NEW S, IsFiniteSet(S), NEW f, NEW g,
           \A x \in S : f[x] \in Nat /\ g[x] = f[x]
    PROVE  SumOver(f, S) = SumOver(g, S)
<1>1. SumsOf(f, S, Iter(f, S)) /\ SumsOf(g, S, Iter(g, S))
    BY IterSums
<1>2. Iter(f, S)[S] = Iter(g, S)[S]
    BY <1>1, SumsUnique
<1> QED BY <1>2, SumOverIs

\* The summand that the fold takes next.
LEMMA SumPicked ==
    ASSUME NEW S, IsFiniteSet(S), S # {}, NEW f, \A x \in S : f[x] \in Nat
    PROVE  SumOver(f, S) = f[Pick(S)] + SumOver(f, S \ {Pick(S)})
<1> DEFINE r == S \ {Pick(S)}
<1>1. IsFiniteSet(r) /\ r \in SUBSET (S \cap r) /\ r \in SUBSET S
    BY Picked
<1>2. SumsOf(f, S, Iter(f, S)) /\ SumsOf(f, r, Iter(f, r))
    BY <1>1, IterSums
<1>3. Iter(f, S)[r] = Iter(f, r)[r]
    BY <1>1, <1>2, SumsUnique
<1>4. Iter(f, S)[S] = f[Pick(S)] + Iter(f, S)[r]
  <2>1. S \in SUBSET S
      OBVIOUS
  <2>2. Iter(f, S)[S] = Unfold(f, Iter(f, S), S)
      BY <1>2, <2>1 DEF SumsOf
  <2> QED BY <2>2 DEF Unfold
<1> QED BY <1>3, <1>4, SumOverIs

\* Any summand: the sum does not depend on the order of the fold.
LEMMA SumRemove ==
    ASSUME NEW D, IsFiniteSet(D), NEW f, \A x \in D : f[x] \in Nat, NEW y \in D
    PROVE  SumOver(f, D) = f[y] + SumOver(f, D \ {y})
<1> DEFINE Odd == {s \in SUBSET D : \E x \in s : SumOver(f, s) # f[x] + SumOver(f, s \ {x})}
           T == {Cardinality(s) : s \in Odd}
<1>1. \A s \in SUBSET D : IsFiniteSet(s) /\ Cardinality(s) \in Nat
    BY FS_Subset, FS_CardinalityType
<1>2. \A s \in SUBSET D : SumOver(f, s) \in Nat
    BY <1>1, SumType
<1>3. Odd = {}
  <2> SUFFICES ASSUME Odd # {} PROVE FALSE
      OBVIOUS
  <2>0. T \in SUBSET Nat /\ T # {}
      BY <1>1
  <2>1. PICK n \in T : \A m \in T : n <= m
      BY <2>0, Least
  <2>2. PICK s \in Odd : Cardinality(s) = n
      BY <2>1
  <2>3. PICK x \in s : SumOver(f, s) # f[x] + SumOver(f, s \ {x})
      BY <2>2
  <2> DEFINE c == Pick(s)
             r == s \ {x}
             t == s \ {c}
             u == s \ {x, c}
  <2>4. s \in SUBSET D /\ s # {} /\ c \in s
      BY <2>2, <2>3 DEF Pick
  <2>5. SumOver(f, s) = f[c] + SumOver(f, t)
      BY <1>1, <2>4, SumPicked
  <2>6. x # c
      BY <2>3, <2>5
  <2>7. /\ r \in SUBSET D /\ t \in SUBSET D /\ u \in SUBSET D
        /\ Cardinality(r) = n - 1 /\ Cardinality(t) = n - 1 /\ n \in Nat
      BY <1>1, <2>2, <2>4, FS_RemoveElement
  <2>8. r \notin Odd /\ t \notin Odd
    <3>1. ASSUME NEW v \in Odd PROVE n <= Cardinality(v)
        BY <2>1
    <3> HIDE DEF Odd
    <3> QED BY <2>7, <3>1
  <2>9. SumOver(f, r) = f[c] + SumOver(f, u)
    <3>1. c \in r /\ r \ {c} = u
        BY <2>4, <2>6
    <3> QED BY <2>7, <2>8, <3>1
  <2>10. SumOver(f, t) = f[x] + SumOver(f, u)
    <3>1. x \in t /\ t \ {x} = u
        BY <2>3, <2>6
    <3> QED BY <2>7, <2>8, <3>1
  <2>11. f[x] \in Nat /\ f[c] \in Nat /\ SumOver(f, u) \in Nat
      BY <1>2, <2>3, <2>4, <2>7
  <2> QED BY <2>3, <2>5, <2>9, <2>10, <2>11
<1>4. D \in SUBSET D
    OBVIOUS
<1> QED BY <1>3, <1>4

\* A further summand.
LEMMA SumAdd ==
    ASSUME NEW D, IsFiniteSet(D), NEW y, y \notin D, NEW f, \A x \in D \cup {y} : f[x] \in Nat
    PROVE  SumOver(f, D \cup {y}) = f[y] + SumOver(f, D)
<1>1. IsFiniteSet(D \cup {y}) /\ (D \cup {y}) \ {y} = D
    BY FS_AddElement
<1>2. y \in D \cup {y}
    OBVIOUS
<1> QED BY <1>1, <1>2, SumRemove

\* One summand that is replaced.
LEMMA SumReplace ==
    ASSUME NEW D, IsFiniteSet(D), NEW y \in D, NEW f, NEW g,
           \A x \in D : f[x] \in Nat /\ g[x] \in Nat,
           \A x \in D \ {y} : g[x] = f[x]
    PROVE  SumOver(g, D) = SumOver(f, D) + g[y] - f[y]
<1>1. IsFiniteSet(D \ {y})
    BY FS_RemoveElement
<1>2. SumOver(f, D) = f[y] + SumOver(f, D \ {y})
    BY SumRemove
<1>3. SumOver(g, D) = g[y] + SumOver(g, D \ {y})
    BY SumRemove
<1>4. SumOver(f, D \ {y}) = SumOver(g, D \ {y}) /\ SumOver(f, D \ {y}) \in Nat
    BY <1>1, SumSame, SumType
<1>5. f[y] \in Nat /\ g[y] \in Nat
    OBVIOUS
<1> QED BY <1>2, <1>3, <1>4, <1>5

\* A sum is at most another when its summands are, one by one.
LEMMA SumMapped ==
    ASSUME NEW S, IsFiniteSet(S), NEW T, IsFiniteSet(T), NEW f, NEW g, NEW h,
           \A x \in S : f[x] \in Nat /\ h[x] \in T /\ f[x] <= g[h[x]],
           \A y \in T : g[y] \in Nat,
           \A x, z \in S : h[x] = h[z] => x = z
    PROVE  SumOver(f, S) <= SumOver(g, T)
<1> DEFINE Covers(s, t) == \A x \in s : h[x] \in t
           Odd == {s \in SUBSET S : \E t \in SUBSET T :
                     Covers(s, t) /\ ~ (SumOver(f, s) <= SumOver(g, t))}
           N == {Cardinality(s) : s \in Odd}
<1>1. \A s \in SUBSET S : IsFiniteSet(s) /\ Cardinality(s) \in Nat /\ SumOver(f, s) \in Nat
    BY FS_Subset, FS_CardinalityType, SumType
<1>2. \A t \in SUBSET T : IsFiniteSet(t) /\ SumOver(g, t) \in Nat
    BY FS_Subset, SumType
<1>3. Odd = {}
  <2> SUFFICES ASSUME Odd # {} PROVE FALSE
      OBVIOUS
  <2>1. N \in SUBSET Nat /\ N # {}
      BY <1>1
  <2>2. PICK n \in N : \A m \in N : n <= m
      BY <2>1, Least
  <2>3. PICK s \in Odd : Cardinality(s) = n
      BY <2>2
  <2>4. PICK t \in SUBSET T : Covers(s, t) /\ ~ (SumOver(f, s) <= SumOver(g, t))
      BY <2>3
  <2>5. s \in SUBSET S /\ s # {}
      BY <1>2, <2>3, <2>4, SumEmpty
  <2>6. PICK x \in s : TRUE
      BY <2>5
  <2> DEFINE r == s \ {x}
             u == t \ {h[x]}
  <2>7. r \in SUBSET S /\ u \in SUBSET T /\ Cardinality(r) = n - 1 /\ n \in Nat
      BY <1>1, <2>3, <2>5, <2>6, FS_RemoveElement
  <2>8. r \notin Odd
    <3>1. ASSUME NEW v \in Odd PROVE n <= Cardinality(v)
        BY <2>2
    <3> HIDE DEF Odd
    <3> QED BY <2>7, <3>1
  <2>9. Covers(r, u)
      BY <2>4, <2>5, <2>6
  <2>10. SumOver(f, r) <= SumOver(g, u)
      BY <2>7, <2>8, <2>9
  <2>11. SumOver(f, s) = f[x] + SumOver(f, r)
      BY <1>1, <2>5, <2>6, SumRemove
  <2>12. SumOver(g, t) = g[h[x]] + SumOver(g, u)
    <3>1. h[x] \in t
        BY <2>4, <2>6
    <3> QED BY <1>2, <3>1, SumRemove
  <2>13. /\ f[x] \in Nat /\ g[h[x]] \in Nat /\ f[x] <= g[h[x]]
         /\ SumOver(f, r) \in Nat /\ SumOver(g, u) \in Nat
      BY <1>1, <1>2, <2>5, <2>6, <2>7
  <2> HIDE DEF r, u
  <2> QED BY <2>4, <2>10, <2>11, <2>12, <2>13
<1>4. S \in SUBSET S /\ T \in SUBSET T /\ Covers(S, T)
    OBVIOUS
<1> QED BY <1>3, <1>4

\* Two sums are equal when their summands other than 0 are, one by one.
LEMMA SumMatched ==
    ASSUME NEW S, IsFiniteSet(S), NEW T, IsFiniteSet(T), NEW f, NEW g, NEW h, NEW k,
           \A x \in S : f[x] \in Nat /\ h[x] \in T /\ f[x] = g[h[x]] /\ k[h[x]] = x,
           \A y \in T : g[y] \in Nat,
           \A y \in T : g[y] # 0 => k[y] \in S /\ h[k[y]] = y
    PROVE  SumOver(f, S) = SumOver(g, T)
<1> DEFINE U == {y \in T : g[y] # 0}
<1>1. IsFiniteSet(U) /\ U \in SUBSET T
    BY FS_Subset
<1>2. SumOver(f, S) <= SumOver(g, T)
  <2>1. \A x \in S : f[x] \in Nat /\ h[x] \in T /\ f[x] <= g[h[x]]
      OBVIOUS
  <2>2. \A x, z \in S : h[x] = h[z] => x = z
      OBVIOUS
  <2> QED BY <2>1, <2>2, SumMapped
<1>3. SumOver(g, U) <= SumOver(f, S)
  <2>1. \A y \in U : g[y] \in Nat /\ k[y] \in S /\ g[y] <= f[k[y]]
      BY <1>1
  <2>2. \A x, z \in U : k[x] = k[z] => x = z
      OBVIOUS
  <2> QED BY <1>1, <2>1, <2>2, SumMapped
<1>4. SumOver(g, T) = SumOver(g, U)
  <2> DEFINE Odd == {t \in SUBSET T : U \subseteq t /\ SumOver(g, t) # SumOver(g, U)}
             N == {Cardinality(s) : s \in Odd}
  <2>1. \A t \in SUBSET T : IsFiniteSet(t) /\ Cardinality(t) \in Nat /\ SumOver(g, t) \in Nat
      BY FS_Subset, FS_CardinalityType, SumType
  <2>2. ASSUME Odd # {} PROVE FALSE
    <3>1. N \in SUBSET Nat /\ N # {}
        BY <2>1, <2>2
    <3>2. PICK n \in N : \A m \in N : n <= m
        BY <3>1, Least
    <3>3. PICK t \in Odd : Cardinality(t) = n
        BY <3>2
    <3>4. PICK y \in t : y \notin U
        BY <3>3
    <3> DEFINE r == t \ {y}
    <3>5. r \in SUBSET T /\ U \subseteq r /\ Cardinality(r) = n - 1 /\ n \in Nat
        BY <2>1, <3>3, <3>4, FS_RemoveElement
    <3>6. r \notin Odd
      <4>1. ASSUME NEW v \in Odd PROVE n <= Cardinality(v)
          BY <3>2
      <4> HIDE DEF Odd
      <4> QED BY <3>5, <4>1
    <3>7. SumOver(g, r) = SumOver(g, U)
        BY <3>5, <3>6
    <3>8. SumOver(g, t) = g[y] + SumOver(g, r)
        BY <2>1, <3>3, <3>4, SumRemove
    <3>9. g[y] = 0 /\ SumOver(g, r) \in Nat
        BY <2>1, <3>3, <3>4, <3>5
    <3> QED BY <3>3, <3>7, <3>8, <3>9
  <2>3. T \in SUBSET T /\ U \subseteq T
      OBVIOUS
  <2> QED BY <2>2, <2>3
<1>5. SumOver(f, S) \in Nat /\ SumOver(g, T) \in Nat
    BY SumType
<1> QED BY <1>2, <1>3, <1>4, <1>5

=============================================================================
