----------------------------- MODULE SumsProofs -----------------------------
(***************************************************************************)
(* What a sum over a finite set does when a term changes or the set grows. *)
(*                                                                         *)
(* The fold of the community modules is a function that recurses over the  *)
(* subsets of its set, and removes a chosen element each time.  That this  *)
(* function exists, and that the choices do not matter, is proved by       *)
(* induction over subsets: among the subsets of a finite set for which a   *)
(* claim fails there would be a smallest one.                              *)
(***************************************************************************)
EXTENDS Sums, Integers, FiniteSetTheorems, WellFoundedInduction, TLAPS

\* The element that the fold removes first.
First(s) == CHOOSE x \in s : TRUE

\* h is the function by which the fold over the subsets of S recurses.
Recurses(f, S, h) ==
  h = [s \in SUBSET S |-> IF s = {} THEN 0 ELSE f[First(s)] + h[s \ {First(s)}]]

\* Induction over finite sets: a nonempty set of subsets has a smallest element.
LEMMA SmallestSubset ==
  ASSUME NEW S, IsFiniteSet(S), NEW X \in SUBSET (SUBSET S), X # {}
  PROVE  \E s \in X : \A t \in X : t \subseteq s => t = s
<1>1. FiniteSubsetsOf(S) = SUBSET S
  BY FS_FiniteSubsetsOfFinite
<1>2. IsWellFoundedOn(StrictSubsetOrdering(S), SUBSET S)
  BY <1>1, FS_StrictSubsetOrderingWellFounded
<1>3. PICK s \in X : \A t \in X : ~ <<t, s>> \in StrictSubsetOrdering(S)
  BY <1>2, WFMin
<1> QED BY <1>3 DEF StrictSubsetOrdering

LEMMA FirstIsIn == ASSUME NEW s, s # {} PROVE First(s) \in s
BY DEF First

\* The fold takes the value at S of such a function.
LEMMA FoldValue ==
  ASSUME NEW f, NEW S
  PROVE  SumOver(f, S) = (CHOOSE h : Recurses(f, S, h))[S]
BY DEF SumOver, MapThenSumSet, MapThenFoldSet, Recurses, First

\* Two such functions agree where both are defined.
LEMMA RecursionAgrees ==
  ASSUME NEW f, NEW S, IsFiniteSet(S), NEW U, NEW V, S \subseteq U, S \subseteq V,
         NEW g, NEW h, Recurses(f, U, g), Recurses(f, V, h)
  PROVE  g[S] = h[S]
<1> DEFINE X == {s \in SUBSET S : g[s] # h[s]}
<1>1. SUFFICES ASSUME X # {} PROVE FALSE
  OBVIOUS
<1>2. PICK s \in X : \A t \in X : t \subseteq s => t = s
  <2>1. X \in SUBSET (SUBSET S)
    OBVIOUS
  <2> HIDE DEF X
  <2> QED BY <1>1, <2>1, SmallestSubset
<1>3. s \in SUBSET S /\ s \in SUBSET U /\ s \in SUBSET V
  OBVIOUS
<1>4. g[s] = IF s = {} THEN 0 ELSE f[First(s)] + g[s \ {First(s)}]
  BY <1>3 DEF Recurses
<1>5. h[s] = IF s = {} THEN 0 ELSE f[First(s)] + h[s \ {First(s)}]
  BY <1>3 DEF Recurses
<1>6. CASE s = {}
  BY <1>4, <1>5, <1>6
<1>7. CASE s # {}
  <2>1. First(s) \in s
    BY <1>7, FirstIsIn
  <2>2. g[s \ {First(s)}] = h[s \ {First(s)}]
    BY <1>2, <1>3, <2>1
  <2> QED BY <1>4, <1>5, <1>7, <2>2
<1> QED BY <1>6, <1>7

\* There is such a function, so the fold does recurse.
LEMMA RecursionExists ==
  ASSUME NEW f, NEW S, IsFiniteSet(S)
  PROVE  \E h : Recurses(f, S, h)
<1> DEFINE X == {s \in SUBSET S : ~ \E h : Recurses(f, s, h)}
<1>1. SUFFICES ASSUME X # {} PROVE FALSE
  OBVIOUS
<1>2. PICK T \in X : \A t \in X : t \subseteq T => t = T
  <2>1. X \in SUBSET (SUBSET S)
    OBVIOUS
  <2> HIDE DEF X
  <2> QED BY <1>1, <2>1, SmallestSubset
<1> DEFINE g(u) == CHOOSE h : Recurses(f, u, h)
           next(s) == s \ {First(s)}
           h == [s \in SUBSET T |-> IF s = {} THEN 0 ELSE f[First(s)] + SumOver(f, next(s))]
<1>3. ASSUME NEW u \in SUBSET T, u # T PROVE Recurses(f, u, g(u)) /\ SumOver(f, u) = g(u)[u]
  <2>1. \E e : Recurses(f, u, e)
    BY <1>2, <1>3
  <2> QED BY <2>1, FoldValue
<1>4. ASSUME NEW u \in SUBSET T, u # T PROVE h[u] = SumOver(f, u)
  <2>1. g(u)[u] = IF u = {} THEN 0 ELSE f[First(u)] + g(u)[next(u)]
    <3>1. Recurses(f, u, g(u))
      BY <1>3, <1>4
    <3> HIDE DEF g
    <3> QED BY <3>1 DEF Recurses
  <2>2. CASE u = {}
    BY <1>3, <1>4, <2>1, <2>2
  <2>3. CASE u # {}
    <3>1. next(u) \in SUBSET T /\ next(u) # T /\ next(u) \subseteq u
      BY <1>4, <2>3, FirstIsIn
    <3>2. IsFiniteSet(next(u))
      BY <3>1, FS_Subset
    <3>3. Recurses(f, next(u), g(next(u))) /\ SumOver(f, next(u)) = g(next(u))[next(u)]
      BY <1>3, <3>1
    <3>4. Recurses(f, u, g(u)) /\ SumOver(f, u) = g(u)[u]
      BY <1>3, <1>4
    <3> HIDE DEF g, next
    <3>5. g(u)[next(u)] = g(next(u))[next(u)]
      BY <3>1, <3>2, <3>3, <3>4, RecursionAgrees
    <3> QED BY <1>4, <2>1, <2>3, <3>3, <3>4, <3>5
  <2> QED BY <2>2, <2>3
<1>5. Recurses(f, T, h)
  <2>1. ASSUME NEW s \in SUBSET T, s # {} PROVE SumOver(f, next(s)) = h[next(s)]
    <3>1. next(s) \in SUBSET T /\ next(s) # T
      BY <2>1, FirstIsIn
    <3> HIDE DEF next, h
    <3> QED BY <1>4, <3>1
  <2>2. h = [s \in SUBSET T |-> IF s = {} THEN 0 ELSE f[First(s)] + h[next(s)]]
    BY <2>1
  <2> HIDE DEF h
  <2> QED BY <2>2 DEF Recurses
<1> QED BY <1>2, <1>5

\* The sum of nothing is zero; otherwise the chosen element is taken out first.
LEMMA SumRecursion ==
  ASSUME NEW f, NEW S, IsFiniteSet(S)
  PROVE  SumOver(f, S) = IF S = {} THEN 0 ELSE f[First(S)] + SumOver(f, S \ {First(S)})
<1> DEFINE g(u) == CHOOSE h : Recurses(f, u, h)
           T == S \ {First(S)}
<1>1. IsFiniteSet(T) /\ T \subseteq S
  BY FS_Subset
<1>2. Recurses(f, S, g(S)) /\ SumOver(f, S) = g(S)[S]
  BY RecursionExists, FoldValue
<1>3. Recurses(f, T, g(T)) /\ SumOver(f, T) = g(T)[T]
  BY <1>1, RecursionExists, FoldValue
<1> HIDE DEF g
<1>4. g(S)[S] = IF S = {} THEN 0 ELSE f[First(S)] + g(S)[T]
  BY <1>2 DEF Recurses
<1> HIDE DEF T
<1>5. g(S)[T] = g(T)[T]
  BY <1>1, <1>2, <1>3, RecursionAgrees
<1> QED BY <1>2, <1>3, <1>4, <1>5 DEF T

\* The choices do not matter: any element may be taken out first.
LEMMA SumTakesOut ==
  ASSUME NEW S, IsFiniteSet(S), NEW f, \A y \in S : f[y] \in Nat, NEW x \in S
  PROVE  /\ SumOver(f, S) \in Nat
         /\ SumOver(f, S) = f[x] + SumOver(f, S \ {x})
<1> DEFINE Out(s) == /\ SumOver(f, s) \in Nat
                     /\ \A y \in s : SumOver(f, s) = f[y] + SumOver(f, s \ {y})
           X == {s \in SUBSET S : ~Out(s)}
<1>1. SUFFICES ASSUME X # {} PROVE FALSE
  BY DEF Out
<1>2. PICK s \in X : \A t \in X : t \subseteq s => t = s
  <2>1. X \in SUBSET (SUBSET S)
    OBVIOUS
  <2> HIDE DEF X
  <2> QED BY <1>1, <2>1, SmallestSubset
<1>3. s \subseteq S /\ ~Out(s)
  OBVIOUS
<1>4. \A t \in SUBSET s : t # s => Out(t)
  BY <1>2, <1>3
<1> HIDE DEF X
<1>5. IsFiniteSet(s)
  BY <1>3, FS_Subset
<1>6. CASE s = {}
  <2>1. SumOver(f, s) = 0
    BY <1>5, <1>6, SumRecursion
  <2> QED BY <1>3, <1>6, <2>1 DEF Out
<1>7. CASE s # {}
  <2> DEFINE c == First(s)
  <2>1. c \in s /\ f[c] \in Nat
    BY <1>3, <1>7, FirstIsIn
  <2>2. SumOver(f, s) = f[c] + SumOver(f, s \ {c})
    BY <1>5, <1>7, SumRecursion
  <2> HIDE DEF c
  <2>3. Out(s \ {c})
    BY <1>4, <2>1
  <2>4. SumOver(f, s) \in Nat
    BY <2>1, <2>2, <2>3 DEF Out
  <2>5. ASSUME NEW y \in s, y # c PROVE SumOver(f, s) = f[y] + SumOver(f, s \ {y})
    <3>1. Out(s \ {y})
      BY <1>4
    <3>2. SumOver(f, s \ {y}) = f[c] + SumOver(f, (s \ {y}) \ {c})
      BY <2>1, <2>5, <3>1 DEF Out
    <3>3. SumOver(f, s \ {c}) = f[y] + SumOver(f, (s \ {c}) \ {y})
      BY <2>3, <2>5 DEF Out
    <3>4. (s \ {c}) \ {y} = (s \ {y}) \ {c} /\ (s \ {y}) \ {c} \in SUBSET s /\ (s \ {y}) \ {c} # s
      BY <2>1
    <3>5. SumOver(f, (s \ {y}) \ {c}) \in Nat
      BY <1>4, <3>4 DEF Out
    <3>6. f[y] \in Nat /\ SumOver(f, s \ {c}) = f[y] + SumOver(f, (s \ {y}) \ {c})
      BY <1>3, <3>3, <3>4
    <3> HIDE DEF Out
    <3> QED BY <2>1, <2>2, <3>2, <3>5, <3>6
  <2> QED BY <1>3, <2>2, <2>4, <2>5 DEF Out
<1> QED BY <1>6, <1>7

\* A sum of natural numbers is one, also over the empty set.
LEMMA SumType ==
  ASSUME NEW S, IsFiniteSet(S), NEW f, \A y \in S : f[y] \in Nat
  PROVE  SumOver(f, S) \in Nat
<1>1. S = {} => SumOver(f, S) = 0
  BY SumRecursion
<1>2. ASSUME NEW x \in S PROVE SumOver(f, S) \in Nat
  BY SumTakesOut
<1> QED BY <1>1, <1>2

\* A sum does not exceed that of terms that are nowhere smaller.
LEMMA SumGrows ==
  ASSUME NEW S, IsFiniteSet(S), NEW f, NEW g,
         \A y \in S : f[y] \in Nat /\ g[y] \in Nat /\ f[y] <= g[y]
  PROVE  SumOver(f, S) <= SumOver(g, S)
<1> DEFINE X == {s \in SUBSET S : ~ SumOver(f, s) <= SumOver(g, s)}
<1>1. SUFFICES ASSUME X # {} PROVE FALSE
  OBVIOUS
<1>2. PICK s \in X : \A t \in X : t \subseteq s => t = s
  <2>1. X \in SUBSET (SUBSET S)
    OBVIOUS
  <2> HIDE DEF X
  <2> QED BY <1>1, <2>1, SmallestSubset
<1>3. s \subseteq S /\ ~ SumOver(f, s) <= SumOver(g, s)
  OBVIOUS
<1>4. IsFiniteSet(s)
  BY <1>3, FS_Subset
<1>5. CASE s = {}
  <2>1. SumOver(f, s) = 0 /\ SumOver(g, s) = 0
    BY <1>4, <1>5, SumRecursion
  <2> QED BY <1>3, <2>1
<1>6. CASE s # {}
  <2>1. PICK x : x \in s
    BY <1>6
  <2>2. SumOver(f, s \ {x}) <= SumOver(g, s \ {x})
    BY <1>2, <1>3, <2>1
  <2>3. SumOver(f, s) = f[x] + SumOver(f, s \ {x}) /\ SumOver(g, s) = g[x] + SumOver(g, s \ {x})
    BY <1>3, <1>4, <2>1, SumTakesOut
  <2>4. IsFiniteSet(s \ {x})
    BY <1>4, FS_RemoveElement
  <2>5. SumOver(f, s \ {x}) \in Nat /\ SumOver(g, s \ {x}) \in Nat
    BY <1>3, <2>4, SumType
  <2>6. f[x] \in Nat /\ g[x] \in Nat /\ f[x] <= g[x]
    BY <1>3, <2>1
  <2> HIDE DEF X
  <2> QED BY <1>3, <2>2, <2>3, <2>5, <2>6
<1> QED BY <1>5, <1>6

\* A sum depends on the terms of its set only.
LEMMA SumSame ==
  ASSUME NEW S, IsFiniteSet(S), NEW f, NEW g, \A y \in S : f[y] \in Nat /\ g[y] = f[y]
  PROVE  SumOver(g, S) = SumOver(f, S)
<1>1. SumOver(f, S) <= SumOver(g, S) /\ SumOver(g, S) <= SumOver(f, S)
  BY SumGrows
<1>2. SumOver(f, S) \in Nat /\ SumOver(g, S) \in Nat
  BY SumType
<1> QED BY <1>1, <1>2

\* What changes with one term is that term.
LEMMA SumUpdate ==
  ASSUME NEW S, IsFiniteSet(S), NEW f, NEW g, NEW x \in S,
         \A y \in S : f[y] \in Nat /\ g[y] \in Nat,
         \A y \in S \ {x} : g[y] = f[y]
  PROVE  SumOver(g, S) + f[x] = SumOver(f, S) + g[x]
<1>1. IsFiniteSet(S \ {x})
  BY FS_RemoveElement
<1>2. SumOver(g, S \ {x}) = SumOver(f, S \ {x}) /\ SumOver(f, S \ {x}) \in Nat
  BY <1>1, SumSame, SumType
<1>3. SumOver(f, S) = f[x] + SumOver(f, S \ {x}) /\ SumOver(g, S) = g[x] + SumOver(g, S \ {x})
  BY SumTakesOut
<1> QED BY <1>2, <1>3
\* A sum of zeros is zero.
LEMMA SumZero ==
  ASSUME NEW S, IsFiniteSet(S), NEW f, \A y \in S : f[y] = 0
  PROVE  SumOver(f, S) = 0
<1> DEFINE X == {s \in SUBSET S : SumOver(f, s) # 0}
<1>1. SUFFICES ASSUME X # {} PROVE FALSE
  OBVIOUS
<1>2. PICK s \in X : \A t \in X : t \subseteq s => t = s
  <2>1. X \in SUBSET (SUBSET S)
    OBVIOUS
  <2> HIDE DEF X
  <2> QED BY <1>1, <2>1, SmallestSubset
<1>3. s \subseteq S /\ SumOver(f, s) # 0 /\ IsFiniteSet(s)
  BY FS_Subset
<1>4. PICK x : x \in s
  BY <1>3, SumRecursion
<1>5. SumOver(f, s \ {x}) = 0
  BY <1>2, <1>3, <1>4
<1>6. SumOver(f, s) = f[x] + SumOver(f, s \ {x})
  BY <1>3, <1>4, SumTakesOut
<1> QED BY <1>3, <1>4, <1>5, <1>6

=============================================================================
