----------------------------- MODULE TotalsProofs -----------------------------
(* Proofs about Totals: what a total is, for any finite set of figures.  With  *)
(* them the two forms of induction that the proofs use, over the subsets of a  *)
(* finite set and over the numbers up to one, and recursive functions.         *)
EXTENDS Totals, FiniteSetTheorems, TLAPS

-----------------------------------------------------------------------------
(* Induction over the subsets of a finite set, as a fact about a set of them. *)

LEMMA SubsetInduction ==
  ASSUME NEW D, IsFiniteSet(D), NEW Good, {} \in Good,
         \A s \in SUBSET D : s # {} /\ (\A x \in s : s \ {x} \in Good) => s \in Good
  PROVE  SUBSET D \subseteq Good
<1> DEFINE Bad == (SUBSET D) \ Good
<1>1. SUFFICES ASSUME Bad # {} PROVE FALSE
  OBVIOUS
<1>2. IsWellFoundedOn(StrictSubsetOrdering(D), SUBSET D)
  BY FS_StrictSubsetOrderingWellFounded, FS_FiniteSubsetsOfFinite
<1>3. PICK s \in Bad : \A u \in Bad : <<u, s>> \notin StrictSubsetOrdering(D)
  <2>1. Bad \subseteq SUBSET D
    OBVIOUS
  <2> HIDE DEF Bad
  <2>2. QED
    BY <1>1, <1>2, <2>1, WFMin
<1>4. \A x \in s : s \ {x} \in Good
  <2>1. SUFFICES ASSUME NEW x \in s, s \ {x} \notin Good PROVE FALSE
    OBVIOUS
  <2>2. s \ {x} \in Bad /\ s \ {x} \subseteq s /\ s \ {x} # s
    BY <2>1
  <2>3. <<s \ {x}, s>> \in StrictSubsetOrdering(D)
    BY <2>2 DEF StrictSubsetOrdering
  <2>4. QED
    BY <1>3, <2>2, <2>3
<1>5. s \in SUBSET D /\ s \notin Good
  BY <1>3
<1> HIDE DEF Bad
<1>6. QED
  BY <1>4, <1>5

-----------------------------------------------------------------------------
(* Induction over numbers, and functions that are recursive over them.       *)

\* Induction up to n, as a fact about a set of numbers.
LEMMA UpToInduction ==
  ASSUME NEW n \in Nat, NEW Good, 0 \in Good, \A i \in 1 .. n : i - 1 \in Good => i \in Good
  PROVE  0 .. n \subseteq Good
<1> DEFINE Bad == (0 .. n) \ Good
           Segments == {0 .. i : i \in Bad}
<1>1. SUFFICES ASSUME Bad # {} PROVE FALSE
  OBVIOUS
<1>2. PICK s \in Segments : \A u \in Segments : <<u, s>> \notin StrictSubsetOrdering(0 .. n)
  <2>1. Segments \subseteq SUBSET (0 .. n) /\ Segments # {}
    BY <1>1
  <2> DEFINE D == 0 .. n
  <2>2. IsWellFoundedOn(StrictSubsetOrdering(D), SUBSET D)
    <3>1. IsFiniteSet(D)
      BY FS_Interval
    <3> HIDE DEF D
    <3> QED
      BY <3>1, FS_StrictSubsetOrderingWellFounded, FS_FiniteSubsetsOfFinite
  <2> HIDE DEF Segments
  <2> QED
    BY <2>1, <2>2, WFMin
<1>3. PICK i \in Bad : s = 0 .. i
  OBVIOUS
<1>4. i \in 1 .. n /\ i - 1 \notin Good
  OBVIOUS
<1>5. i - 1 \in Bad /\ 0 .. (i - 1) \in Segments
  BY <1>4
<1>6. <<0 .. (i - 1), 0 .. i>> \in StrictSubsetOrdering(0 .. n)
  <2>1. 0 .. (i - 1) \subseteq 0 .. n /\ 0 .. i \subseteq 0 .. n
        /\ 0 .. (i - 1) \subseteq 0 .. i /\ i \in 0 .. i /\ i \notin 0 .. (i - 1)
    BY <1>4
  <2> QED
    BY <2>1 DEF StrictSubsetOrdering
<1> QED
  BY <1>2, <1>3, <1>5, <1>6

StepFunctions(n, V) == [1 .. n -> [V -> V]]
Iterates(f, n, V, start, step) ==
  f \in [0 .. n -> V] /\ f[0] = start /\ \A i \in 1 .. n : f[i] = step[i][f[i - 1]]

\* A recursive function on 0 .. n, whose steps are a function, exists.
LEMMA Recursion ==
  ASSUME NEW n \in Nat, NEW V, NEW start \in V, NEW step \in StepFunctions(n, V)
  PROVE  \E f : Iterates(f, n, V, start, step)
<1> DEFINE Good == {m \in 0 .. n : \E f \in [0 .. m -> V] :
                      f[0] = start /\ \A i \in 1 .. m : f[i] = step[i][f[i - 1]]}
<1>1. 0 \in Good
  <2> DEFINE f == [i \in 0 .. 0 |-> start]
  <2>1. f \in [0 .. 0 -> V] /\ f[0] = start /\ \A i \in 1 .. 0 : f[i] = step[i][f[i - 1]]
    OBVIOUS
  <2>2. 0 \in 0 .. n
    OBVIOUS
  <2> HIDE DEF f
  <2> QED
    BY <2>1, <2>2
<1>2. ASSUME NEW m \in 1 .. n, m - 1 \in Good PROVE m \in Good
  <2>1. PICK f \in [0 .. (m - 1) -> V] :
          f[0] = start /\ \A i \in 1 .. (m - 1) : f[i] = step[i][f[i - 1]]
    BY <1>2
  <2> DEFINE g == [i \in 0 .. m |-> IF i = m THEN step[m][f[m - 1]] ELSE f[i]]
  <2>2. step[m][f[m - 1]] \in V
    BY DEF StepFunctions
  <2>3. g \in [0 .. m -> V]
    BY <2>2
  <2>4. g[0] = start
    BY <2>1
  <2>5. ASSUME NEW i \in 1 .. m PROVE g[i] = step[i][g[i - 1]]
    <3>1. g[i - 1] = f[i - 1]
      OBVIOUS
    <3>2. CASE i = m
      BY <3>1, <3>2
    <3>3. CASE i # m
      BY <2>1, <3>1, <3>3
    <3> QED
      BY <3>2, <3>3
  <2>6. m \in 0 .. n
    OBVIOUS
  <2> HIDE DEF g
  <2> QED
    BY <2>3, <2>4, <2>5, <2>6
<1> HIDE DEF Good
<1>3. n \in Good
  <2>1. 0 .. n \subseteq Good
    BY <1>1, <1>2, UpToInduction
  <2>2. n \in 0 .. n
    OBVIOUS
  <2> QED
    BY <2>1, <2>2
<1> QED
  BY <1>3 DEF Good, Iterates

-----------------------------------------------------------------------------
(* A total, one element after the other.                                     *)

Pick(s) == CHOOSE x \in s : TRUE

Step(f, g, s) == IF s = {} THEN 0 ELSE f[Pick(s)] + g[s \ {Pick(s)}]

SumsOver(f, g) == g = [s \in SUBSET DOMAIN f |-> IF s = {} THEN 0 ELSE f[Pick(s)] + g[s \ {Pick(s)}]]

LEMMA SumUnfold ==
  ASSUME NEW f
  PROVE  TotalOf(f) = (CHOOSE g : SumsOver(f, g))[DOMAIN f]
BY DEF TotalOf, MapThenSumSet, MapThenFoldSet, SumsOver, Pick

\* The sets of at most n elements.
UpTo(D, n) == {s \in SUBSET D : Cardinality(s) <= n}

LEMMA SumsExist ==
  ASSUME NEW f, IsFiniteSet(DOMAIN f)
  PROVE  \E g : SumsOver(f, g)
<1> DEFINE D == DOMAIN f
           Part(n, g) == g = [s \in UpTo(D, n) |-> Step(f, g, s)]
           Good == {s \in SUBSET D : \E g : Part(Cardinality(s), g)}
<1>1. \A s \in SUBSET D : IsFiniteSet(s) /\ Cardinality(s) \in Nat /\ Cardinality(s) <= Cardinality(D)
  BY FS_Subset, FS_CardinalityType
<1>2. {} \in Good
  <2>1. \A s \in UpTo(D, 0) : s = {}
    BY <1>1, FS_EmptySet DEF UpTo
  <2> DEFINE g == [s \in UpTo(D, 0) |-> 0]
  <2>2. g = [s \in UpTo(D, 0) |-> Step(f, g, s)]
    <3>1. \A s \in UpTo(D, 0) : Step(f, g, s) = 0
      BY <2>1 DEF Step
    <3>2. QED
      BY <3>1
  <2>3. Cardinality({}) = 0
    BY FS_EmptySet
  <2>4. QED
    BY <2>2, <2>3
<1>3. ASSUME NEW s \in SUBSET D, s # {}, \A x \in s : s \ {x} \in Good
      PROVE  s \in Good
  <2>1. PICK x \in s : TRUE
    BY <1>3
  <2> DEFINE n == Cardinality(s \ {x})
  <2>2. Cardinality(s) = n + 1 /\ n \in Nat
    BY <1>1, FS_RemoveElement
  <2>3. PICK g : Part(n, g)
    BY <1>3
  <2> DEFINE h == [u \in UpTo(D, n + 1) |-> Step(f, g, u)]
  <2>4. ASSUME NEW u \in UpTo(D, n + 1), u # {}
        PROVE  u \ {Pick(u)} \in UpTo(D, n)
    <3>1. Pick(u) \in u
      BY <2>4 DEF Pick
    <3>2. u \in SUBSET D /\ Cardinality(u) <= n + 1
      BY <2>4 DEF UpTo
    <3>3. Cardinality(u \ {Pick(u)}) = Cardinality(u) - 1
      BY <3>1, <3>2, <1>1, FS_RemoveElement
    <3>4. u \ {Pick(u)} \in SUBSET D
      BY <3>2
    <3>5. Cardinality(u) \in Nat
      BY <1>1, <3>2
    <3> HIDE DEF n
    <3>6. QED
      BY <3>2, <3>3, <3>4, <3>5, <2>2 DEF UpTo
  <2>5. ASSUME NEW u \in UpTo(D, n)
        PROVE  h[u] = g[u]
    <3>1. u \in UpTo(D, n + 1)
      BY <2>2, <1>1 DEF UpTo
    <3>2. h[u] = Step(f, g, u)
      BY <3>1
    <3>3. g[u] = Step(f, g, u)
      BY <2>3, <2>5
    <3>4. QED
      BY <3>2, <3>3
  <2>6. ASSUME NEW u \in UpTo(D, n + 1)
        PROVE  Step(f, g, u) = Step(f, h, u)
    BY <2>4, <2>5, <2>6 DEF Step
  <2>7. h = [u \in UpTo(D, n + 1) |-> Step(f, h, u)]
    BY <2>6
  <2>8. Part(Cardinality(s), h)
    BY <2>2, <2>7
  <2>9. QED
    BY <2>8
<1>4. D \in Good
  <2> HIDE DEF Good
  <2>1. \A s \in SUBSET D : s # {} /\ (\A x \in s : s \ {x} \in Good) => s \in Good
    BY <1>3
  <2> HIDE DEF D
  <2>2. SUBSET D \subseteq Good
    BY <1>2, <2>1, SubsetInduction DEF D
  <2>3. QED
    BY <2>2
<1>5. PICK g : Part(Cardinality(D), g)
  BY <1>4
<1>6. UpTo(D, Cardinality(D)) = SUBSET D
  BY <1>1 DEF UpTo
<1>7. QED
  BY <1>5, <1>6 DEF SumsOver, Step

LEMMA SumsInt ==
  ASSUME NEW f, IsFiniteSet(DOMAIN f), NEW g, SumsOver(f, g),
         \A x \in DOMAIN f : f[x] \in Int
  PROVE  \A s \in SUBSET DOMAIN f : g[s] \in Int
<1> DEFINE Good == {s \in SUBSET DOMAIN f : g[s] \in Int}
<1>1. {} \in Good
  BY DEF SumsOver
<1>2. \A s \in SUBSET DOMAIN f : s # {} /\ (\A x \in s : s \ {x} \in Good) => s \in Good
  BY DEF SumsOver, Pick
<1> HIDE DEF Good
<1>3. SUBSET DOMAIN f \subseteq Good
  BY <1>1, <1>2, SubsetInduction
<1>4. QED
  BY <1>3 DEF Good

\* A total can be taken from any element first.
LEMMA SumsRemove ==
  ASSUME NEW f, IsFiniteSet(DOMAIN f), NEW g, SumsOver(f, g),
         \A x \in DOMAIN f : f[x] \in Int
  PROVE  \A s \in SUBSET DOMAIN f : \A x \in s : g[s] = f[x] + g[s \ {x}]
<1> DEFINE D == DOMAIN f
           Good == {s \in SUBSET D : \A x \in s : g[s] = f[x] + g[s \ {x}]}
<1>1. \A s \in SUBSET D : g[s] \in Int
  BY SumsInt
<1>2. \A s \in SUBSET D : s # {} => Pick(s) \in s /\ g[s] = f[Pick(s)] + g[s \ {Pick(s)}]
  BY DEF SumsOver, Pick
<1>3. {} \in Good
  OBVIOUS
<1>4. ASSUME NEW s \in SUBSET D, s # {}, \A x \in s : s \ {x} \in Good
      PROVE  s \in Good
  <2> DEFINE p == Pick(s)
  <2>1. p \in s /\ g[s] = f[p] + g[s \ {p}] /\ f[p] \in Int
    BY <1>2, <1>4
  <2>2. ASSUME NEW x \in s
        PROVE  g[s] = f[x] + g[s \ {x}]
    <3>1. CASE x = p
      BY <2>1, <3>1
    <3>2. CASE x # p
      <4>1. g[s \ {p}] = f[x] + g[(s \ {p}) \ {x}]
        BY <1>4, <2>1, <3>2
      <4>2. g[s \ {x}] = f[p] + g[(s \ {x}) \ {p}]
        BY <1>4, <2>1, <3>2
      <4>3. (s \ {p}) \ {x} = (s \ {x}) \ {p}
        OBVIOUS
      <4>4. g[(s \ {x}) \ {p}] \in Int /\ f[x] \in Int
        BY <1>1
      <4>5. \A i, j, k \in Int : i + (j + k) = j + (i + k)
        OBVIOUS
      <4> DEFINE q == g[(s \ {x}) \ {p}]
      <4>6. g[s] = f[p] + (f[x] + q) /\ f[x] + g[s \ {x}] = f[x] + (f[p] + q)
        BY <2>1, <4>1, <4>2, <4>3
      <4> HIDE DEF p, q
      <4>7. q \in Int
        BY <4>4 DEF q
      <4>8. QED
        BY <2>1, <4>4, <4>5, <4>6, <4>7
    <3>3. QED
      BY <3>1, <3>2
  <2>3. QED
    BY <2>2
<1>5. \A s \in SUBSET D : s # {} /\ (\A x \in s : s \ {x} \in Good) => s \in Good
  BY <1>4
<1> HIDE DEF Good
<1>6. SUBSET D \subseteq Good
  BY <1>3, <1>5, SubsetInduction
<1>7. QED
  BY <1>6 DEF Good

-----------------------------------------------------------------------------
(* What a total is: nothing of nothing, and an element and the total of the   *)
(* others.                                                                   *)

Only(f, s) == [x \in s |-> f[x]]

LEMMA SumEmpty == ASSUME NEW f, DOMAIN f = {} PROVE TotalOf(f) = 0
<1>1. IsFiniteSet(DOMAIN f)
  BY FS_EmptySet
<1> DEFINE g == CHOOSE h : SumsOver(f, h)
<1>2. SumsOver(f, g)
  BY <1>1, SumsExist
<1>3. g[{}] = 0
  BY <1>2 DEF SumsOver
<1>4. QED
  BY <1>3, SumUnfold

\* The sums over the subsets are the totals of the restrictions.
LEMMA SumsAgree ==
  ASSUME NEW f, IsFiniteSet(DOMAIN f), NEW g, SumsOver(f, g),
         \A x \in DOMAIN f : f[x] \in Int,
         NEW u \in SUBSET DOMAIN f
  PROVE  g[u] = TotalOf(Only(f, u))
<1> DEFINE k == Only(f, u)
           h == CHOOSE i : SumsOver(k, i)
           Good == {s \in SUBSET u : g[s] = h[s]}
<1>1. DOMAIN k = u /\ \A x \in u : k[x] = f[x] /\ k[x] \in Int
  BY DEF Only
<1>2. IsFiniteSet(u)
  BY FS_Subset
<1> HIDE DEF k
<1>3. SumsOver(k, h)
  BY <1>1, <1>2, SumsExist
<1> HIDE DEF h
<1>4. \A s \in SUBSET u : s # {} => Pick(s) \in s /\ g[s] = f[Pick(s)] + g[s \ {Pick(s)}]
  BY DEF SumsOver, Pick
<1>5. \A s \in SUBSET u : s # {} => h[s] = k[Pick(s)] + h[s \ {Pick(s)}]
  BY <1>1, <1>3 DEF SumsOver
<1>6. {} \in Good
  <2>1. g[{}] = 0
    BY DEF SumsOver
  <2>2. h[{}] = 0
    BY <1>3 DEF SumsOver
  <2>3. QED
    BY <2>1, <2>2
<1>7. \A s \in SUBSET u : s # {} /\ (\A x \in s : s \ {x} \in Good) => s \in Good
  <2>1. SUFFICES ASSUME NEW s \in SUBSET u, s # {}, \A x \in s : s \ {x} \in Good
                 PROVE  g[s] = h[s]
    OBVIOUS
  <2>2. Pick(s) \in s /\ k[Pick(s)] = f[Pick(s)]
    BY <1>1, <1>4, <2>1
  <2>3. g[s \ {Pick(s)}] = h[s \ {Pick(s)}]
    BY <2>1, <2>2
  <2>4. QED
    BY <1>4, <1>5, <2>1, <2>2, <2>3
<1> HIDE DEF Good
<1>8. SUBSET u \subseteq Good
  BY <1>2, <1>6, <1>7, SubsetInduction
<1>9. g[u] = h[u]
  BY <1>8 DEF Good
<1>10. QED
  BY <1>1, <1>9, SumUnfold DEF k, h

LEMMA SumRemove ==
  ASSUME NEW f, IsFiniteSet(DOMAIN f), \A x \in DOMAIN f : f[x] \in Int,
         NEW s \in SUBSET DOMAIN f
  PROVE  /\ TotalOf(Only(f, s)) \in Int
         /\ \A x \in s : TotalOf(Only(f, s)) = f[x] + TotalOf(Only(f, s \ {x}))
<1> DEFINE g == CHOOSE h : SumsOver(f, h)
<1>1. SumsOver(f, g)
  BY SumsExist
<1> HIDE DEF g
<1>2. \A u \in SUBSET DOMAIN f : g[u] = TotalOf(Only(f, u))
  BY <1>1, SumsAgree
<1>3. g[s] \in Int /\ \A x \in s : g[s] = f[x] + g[s \ {x}]
  BY <1>1, SumsInt, SumsRemove
<1>4. QED
  BY <1>2, <1>3

-----------------------------------------------------------------------------
(* Totals of functions on a finite set.                                      *)

LEMMA OnlyAll == ASSUME NEW D, NEW f, f = [x \in D |-> f[x]] PROVE Only(f, D) = f /\ DOMAIN f = D
BY DEF Only

LEMMA SumInt ==
  ASSUME NEW D, IsFiniteSet(D), NEW f \in [D -> Int]
  PROVE  /\ TotalOf(f) \in Int
         /\ \A x \in D : TotalOf(f) = f[x] + TotalOf(Only(f, D \ {x}))
<1>1. Only(f, D) = f /\ DOMAIN f = D /\ \A x \in DOMAIN f : f[x] \in Int
  BY OnlyAll
<1>2. QED
  BY <1>1, SumRemove

\* A total of naturals is one, and is zero only of zeros.
LEMMA SumNat ==
  ASSUME NEW D, IsFiniteSet(D), NEW f \in [D -> Nat]
  PROVE  /\ TotalOf(f) \in Nat
         /\ \A x \in D : f[x] <= TotalOf(f)
         /\ (\A x \in D : f[x] = 0) => TotalOf(f) = 0
<1> DEFINE T(s) == TotalOf(Only(f, s))
           Good == {s \in SUBSET D : T(s) \in Nat /\ ((\A x \in D : f[x] = 0) => T(s) = 0)}
<1>1. DOMAIN f = D /\ (\A x \in D : f[x] \in Nat /\ f[x] \in Int) /\ Only(f, D) = f
  BY OnlyAll
<1>2. \A s \in SUBSET D : \A x \in s : T(s) = f[x] + T(s \ {x})
  BY <1>1, SumRemove, ZenonT(40)
<1>3. T({}) = 0
  BY SumEmpty DEF Only
<1> HIDE DEF T
<1>4. {} \in Good
  BY <1>3
<1>5. \A s \in SUBSET D : s # {} /\ (\A x \in s : s \ {x} \in Good) => s \in Good
  <2>1. SUFFICES ASSUME NEW s \in SUBSET D, NEW x \in s, s \ {x} \in Good PROVE s \in Good
    OBVIOUS
  <2>2. T(s) = f[x] + T(s \ {x})
    BY <1>2
  <2>3. QED
    BY <1>1, <2>1, <2>2
<1>6. \A s \in SUBSET D : s \in Good
  <2> HIDE DEF Good
  <2>1. QED
    BY <1>4, <1>5, SubsetInduction
<1>7. T(D) \in Nat /\ ((\A x \in D : f[x] = 0) => T(D) = 0) /\ T(D) = TotalOf(f)
  BY <1>1, <1>6 DEF T
<1>8. ASSUME NEW x \in D
      PROVE  f[x] <= T(D)
  <2>1. T(D) = f[x] + T(D \ {x}) /\ T(D \ {x}) \in Nat /\ f[x] \in Nat
    BY <1>1, <1>2, <1>6
  <2>2. QED
    BY <2>1
<1>9. QED
  BY <1>7, <1>8

\* A total of sums is the sum of the totals.
LEMMA SumAdd ==
  ASSUME NEW D, IsFiniteSet(D), NEW f \in [D -> Int], NEW g \in [D -> Int]
  PROVE  TotalOf([x \in D |-> f[x] + g[x]]) = TotalOf(f) + TotalOf(g)
<1> DEFINE h == [x \in D |-> f[x] + g[x]]
           F(s) == TotalOf(Only(f, s))
           G(s) == TotalOf(Only(g, s))
           H(s) == TotalOf(Only(h, s))
           Good == {s \in SUBSET D : H(s) = F(s) + G(s)}
<1>1. /\ DOMAIN f = D /\ DOMAIN g = D /\ DOMAIN h = D
      /\ \A x \in D : f[x] \in Int /\ g[x] \in Int /\ h[x] \in Int /\ h[x] = f[x] + g[x]
      /\ Only(f, D) = f /\ Only(g, D) = g /\ Only(h, D) = h
  BY OnlyAll
<1> HIDE DEF h
<1>2. \A s \in SUBSET D : F(s) \in Int /\ \A x \in s : F(s) = f[x] + F(s \ {x})
  BY <1>1, SumRemove
<1>3. \A s \in SUBSET D : G(s) \in Int /\ \A x \in s : G(s) = g[x] + G(s \ {x})
  BY <1>1, SumRemove
<1>4. \A s \in SUBSET D : H(s) \in Int /\ \A x \in s : H(s) = h[x] + H(s \ {x})
  BY <1>1, SumRemove
<1>5. F({}) = 0 /\ G({}) = 0 /\ H({}) = 0
  BY SumEmpty DEF Only
<1> HIDE DEF F, G, H
<1>6. {} \in Good
  BY <1>5
<1>7. \A s \in SUBSET D : s # {} /\ (\A x \in s : s \ {x} \in Good) => s \in Good
  <2>1. SUFFICES ASSUME NEW s \in SUBSET D, NEW x \in s, s \ {x} \in Good PROVE s \in Good
    OBVIOUS
  <2> DEFINE t == s \ {x}
  <2>2. t \in SUBSET D /\ H(t) = F(t) + G(t)
    BY <2>1
  <2>3. F(s) = f[x] + F(t) /\ G(s) = g[x] + G(t) /\ H(s) = (f[x] + g[x]) + H(t)
    BY <1>1, <1>2, <1>3, <1>4
  <2>4. F(t) \in Int /\ G(t) \in Int /\ f[x] \in Int /\ g[x] \in Int
    BY <1>1, <1>2, <1>3, <2>2
  <2> HIDE DEF t
  <2>5. H(s) = F(s) + G(s)
    BY <2>2, <2>3, <2>4
  <2>6. QED
    BY <2>5
<1>8. D \in Good
  <2> HIDE DEF Good
  <2>1. QED
    BY <1>6, <1>7, SubsetInduction
<1>9. QED
  BY <1>1, <1>8 DEF F, G, H, h

\* A total is scaled with its elements.
LEMMA SumScale ==
  ASSUME NEW D, IsFiniteSet(D), NEW f \in [D -> Int], NEW c \in Int
  PROVE  TotalOf([x \in D |-> c * f[x]]) = c * TotalOf(f)
<1> DEFINE h == [x \in D |-> c * f[x]]
           F(s) == TotalOf(Only(f, s))
           H(s) == TotalOf(Only(h, s))
           Good == {s \in SUBSET D : H(s) = c * F(s)}
<1>1. /\ DOMAIN f = D /\ DOMAIN h = D
      /\ \A x \in D : f[x] \in Int /\ h[x] \in Int /\ h[x] = c * f[x]
      /\ Only(f, D) = f /\ Only(h, D) = h
  BY OnlyAll
<1> HIDE DEF h
<1>2. \A s \in SUBSET D : F(s) \in Int /\ \A x \in s : F(s) = f[x] + F(s \ {x})
  BY <1>1, SumRemove
<1>3. \A s \in SUBSET D : H(s) \in Int /\ \A x \in s : H(s) = h[x] + H(s \ {x})
  BY <1>1, SumRemove
<1>4. F({}) = 0 /\ H({}) = 0
  BY SumEmpty DEF Only
<1> HIDE DEF F, H
<1>5. {} \in Good
  BY <1>4
<1>6. \A s \in SUBSET D : s # {} /\ (\A x \in s : s \ {x} \in Good) => s \in Good
  <2>1. SUFFICES ASSUME NEW s \in SUBSET D, NEW x \in s, s \ {x} \in Good PROVE s \in Good
    OBVIOUS
  <2> DEFINE t == s \ {x}
  <2>2. t \in SUBSET D /\ H(t) = c * F(t)
    BY <2>1
  <2>3. F(s) = f[x] + F(t) /\ H(s) = c * f[x] + H(t)
    BY <1>1, <1>2, <1>3
  <2>4. F(t) \in Int /\ f[x] \in Int
    BY <1>1, <1>2, <2>2
  <2> HIDE DEF t
  <2>5. \A i, j \in Int : c * (i + j) = c * i + c * j
    OBVIOUS
  <2>6. H(s) = c * F(s)
    BY <2>2, <2>3, <2>4, <2>5
  <2>7. QED
    BY <2>6
<1>7. D \in Good
  <2> HIDE DEF Good
  <2>1. QED
    BY <1>5, <1>6, SubsetInduction
<1>8. QED
  BY <1>1, <1>7 DEF F, H, h

\* A total is at most that of larger elements, and less when one is less.
LEMMA SumMonotone ==
  ASSUME NEW D, IsFiniteSet(D), NEW f \in [D -> Int], NEW g \in [D -> Int],
         \A x \in D : f[x] <= g[x]
  PROVE  /\ TotalOf(f) <= TotalOf(g)
         /\ (\E x \in D : f[x] < g[x]) => TotalOf(f) < TotalOf(g)
<1> DEFINE d == [x \in D |-> g[x] - f[x]]
<1>1. d \in [D -> Nat] /\ d \in [D -> Int]
  OBVIOUS
<1>2. g = [x \in D |-> f[x] + d[x]]
  OBVIOUS
<1>3. \A x \in D : f[x] < g[x] => d[x] > 0
  OBVIOUS
<1> HIDE DEF d
<1>4. TotalOf(g) = TotalOf(f) + TotalOf(d)
  BY <1>1, <1>2, SumAdd
<1>5. TotalOf(d) \in Nat /\ \A x \in D : d[x] <= TotalOf(d)
  BY <1>1, SumNat
<1>6. TotalOf(f) \in Int
  BY SumInt
<1>7. \A x \in D : d[x] \in Nat
  BY <1>1
<1>8. QED
  BY <1>3, <1>4, <1>5, <1>6, <1>7

\* The elements of g are those of f, numbered by m.
Renumbers(m, D, f, E, g) ==
  /\ f \in [D -> Int] /\ g \in [E -> Int] /\ m \in [D -> E]
  /\ \A x, y \in D : m[x] = m[y] => x = y
  /\ \A z \in E : \E x \in D : m[x] = z
  /\ \A x \in D : g[m[x]] = f[x]

\* A total does not depend on how its elements are numbered.
LEMMA SumRenumbered ==
  ASSUME NEW D, IsFiniteSet(D), NEW f, NEW E, NEW g, NEW m, Renumbers(m, D, f, E, g)
  PROVE  IsFiniteSet(E) /\ TotalOf(g) = TotalOf(f)
<1> DEFINE Im(s) == {m[x] : x \in s}
           F(s) == TotalOf(Only(f, s))
           G(s) == TotalOf(Only(g, s))
           Good == {s \in SUBSET D : F(s) = G(Im(s))}
<1> USE DEF Renumbers
<1>1. E = Im(D) /\ IsFiniteSet(E)
  <2>1. E = Im(D) /\ m \in Surjection(D, E)
    BY DEF Surjection
  <2> QED
    BY <2>1, FS_Surjection
<1>2. /\ DOMAIN f = D /\ DOMAIN g = E
      /\ \A x \in D : f[x] \in Int
      /\ \A z \in E : g[z] \in Int
      /\ Only(f, D) = f /\ Only(g, E) = g
  BY OnlyAll
<1>3. \A s \in SUBSET D : F(s) \in Int /\ \A x \in s : F(s) = f[x] + F(s \ {x})
  BY <1>2, SumRemove
<1>4. \A s \in SUBSET E : G(s) \in Int /\ \A z \in s : G(s) = g[z] + G(s \ {z})
  <2> HIDE DEF Im
  <2> QED
    BY <1>1, <1>2, SumRemove
<1>5. F({}) = 0 /\ G({}) = 0 /\ Im({}) = {}
  BY SumEmpty DEF Only
<1> HIDE DEF F, G
<1>6. {} \in Good
  BY <1>5
<1>7. \A s \in SUBSET D : s # {} /\ (\A x \in s : s \ {x} \in Good) => s \in Good
  <2>1. SUFFICES ASSUME NEW s \in SUBSET D, NEW x \in s, s \ {x} \in Good PROVE s \in Good
    OBVIOUS
  <2>2. Im(s \ {x}) = Im(s) \ {m[x]} /\ m[x] \in Im(s) /\ Im(s) \in SUBSET E
    OBVIOUS
  <2>3. F(s) = f[x] + F(s \ {x}) /\ G(Im(s)) = g[m[x]] + G(Im(s) \ {m[x]})
    <3> HIDE DEF Im
    <3> QED
      BY <1>3, <1>4, <2>2
  <2>4. F(s \ {x}) = G(Im(s) \ {m[x]})
    BY <2>1, <2>2
  <2> HIDE DEF Im
  <2> QED
    BY <2>3, <2>4
<1>8. D \in Good
  <2> HIDE DEF Good
  <2> QED
    BY <1>6, <1>7, SubsetInduction
<1> QED
  BY <1>1, <1>2, <1>8 DEF F, G

\* What is zero adds nothing.
LEMMA SumZeros ==
  ASSUME NEW D, IsFiniteSet(D), NEW f \in [D -> Int], NEW S \in SUBSET D,
         \A x \in D \ S : f[x] = 0
  PROVE  TotalOf(f) = TotalOf(Only(f, S))
<1> DEFINE F(s) == TotalOf(Only(f, s))
           Good == {s \in SUBSET D : F(s) = F(s \cap S)}
<1>1. DOMAIN f = D /\ (\A x \in D : f[x] \in Int) /\ Only(f, D) = f
  BY OnlyAll
<1>2. \A s \in SUBSET D : F(s) \in Int /\ \A x \in s : F(s) = f[x] + F(s \ {x})
  BY <1>1, SumRemove
<1> HIDE DEF F
<1>3. {} \in Good
  OBVIOUS
<1>4. \A s \in SUBSET D : s # {} /\ (\A x \in s : s \ {x} \in Good) => s \in Good
  <2>1. SUFFICES ASSUME NEW s \in SUBSET D, NEW x \in s, s \ {x} \in Good PROVE s \in Good
    OBVIOUS
  <2>2. F(s) = f[x] + F((s \ {x}) \cap S) /\ F((s \ {x}) \cap S) \in Int
    BY <1>2, <2>1
  <2>3. CASE x \in S
    <3>1. (s \cap S) \ {x} = (s \ {x}) \cap S /\ x \in s \cap S /\ s \cap S \in SUBSET D
      BY <2>3
    <3>2. F(s \cap S) = f[x] + F((s \cap S) \ {x})
      BY <1>2, <3>1
    <3> QED
      BY <2>2, <3>1, <3>2
  <2>4. CASE x \notin S
    <3>1. s \cap S = (s \ {x}) \cap S
      BY <2>4
    <3>2. f[x] = 0
      BY <2>4
    <3>3. F(s) = F((s \ {x}) \cap S)
      BY <2>2, <3>2
    <3>4. F(s) = F(s \cap S)
      BY <3>1, <3>3
    <3> QED
      BY <3>4
  <2> QED
    BY <2>3, <2>4
<1>5. D \in Good
  <2> HIDE DEF Good
  <2> QED
    BY <1>3, <1>4, SubsetInduction
<1>6. D \cap S = S
  OBVIOUS
<1> QED
  BY <1>1, <1>5, <1>6 DEF F

\* A total of ones is a number of elements.
LEMMA SumOnes ==
  ASSUME NEW D, IsFiniteSet(D), NEW f \in [D -> Int], \A x \in D : f[x] = 1
  PROVE  TotalOf(f) = Cardinality(D)
<1> DEFINE F(s) == TotalOf(Only(f, s))
           Good == {s \in SUBSET D : F(s) = Cardinality(s)}
<1>1. DOMAIN f = D /\ (\A x \in D : f[x] \in Int) /\ Only(f, D) = f
  BY OnlyAll
<1>2. \A s \in SUBSET D : F(s) \in Int /\ \A x \in s : F(s) = f[x] + F(s \ {x})
  BY <1>1, SumRemove
<1>3. F({}) = 0 /\ Cardinality({}) = 0
  BY SumEmpty, FS_EmptySet DEF Only
<1> HIDE DEF F
<1>4. {} \in Good
  BY <1>3
<1>5. \A s \in SUBSET D : s # {} /\ (\A x \in s : s \ {x} \in Good) => s \in Good
  <2>1. SUFFICES ASSUME NEW s \in SUBSET D, NEW x \in s, s \ {x} \in Good PROVE s \in Good
    OBVIOUS
  <2>2. F(s) = f[x] + F(s \ {x}) /\ f[x] = 1 /\ F(s \ {x}) = Cardinality(s \ {x})
    BY <1>2, <2>1
  <2>3. Cardinality(s \ {x}) = Cardinality(s) - 1 /\ Cardinality(s) \in Nat
    BY FS_Subset, FS_RemoveElement, FS_CardinalityType
  <2> QED
    BY <2>2, <2>3
<1>6. D \in Good
  <2> HIDE DEF Good
  <2> QED
    BY <1>4, <1>5, SubsetInduction
<1> QED
  BY <1>1, <1>6 DEF F

\* An element more, after the last one.
LEMMA SumAtEnd ==
  ASSUME NEW n \in Nat, NEW f \in [1 .. n -> Int], NEW g \in [1 .. n + 1 -> Int],
         \A i \in 1 .. n : g[i] = f[i]
  PROVE  TotalOf(f) \in Int /\ TotalOf(g) = TotalOf(f) + g[n + 1]
<1>1. IsFiniteSet(1 .. n) /\ IsFiniteSet(1 .. n + 1)
  BY FS_Interval
<1>2. (1 .. n + 1) \ {n + 1} = 1 .. n /\ n + 1 \in 1 .. n + 1
  OBVIOUS
<1>3. Only(g, 1 .. n) = f
  BY DEF Only
<1>4. TotalOf(g) = g[n + 1] + TotalOf(Only(g, (1 .. n + 1) \ {n + 1}))
  BY <1>1, <1>2, SumInt
<1>5. TotalOf(f) \in Int /\ g[n + 1] \in Int
  BY <1>1, <1>2, SumInt
<1>6. TotalOf(g) = g[n + 1] + TotalOf(f)
  BY <1>2, <1>3, <1>4
<1> HIDE DEF TotalOf
<1> QED
  BY <1>5, <1>6

\* An element more, before the first one.
LEMMA SumAtHead ==
  ASSUME NEW n \in Nat, NEW f \in [1 .. n -> Int], NEW g \in [1 .. n + 1 -> Int],
         \A i \in 1 .. n : g[i + 1] = f[i]
  PROVE  TotalOf(f) \in Int /\ TotalOf(g) = g[1] + TotalOf(f)
<1> DEFINE R == (1 .. n + 1) \ {1}
           h == Only(g, R)
           m == [i \in 1 .. n |-> i + 1]
<1>1. IsFiniteSet(1 .. n) /\ IsFiniteSet(1 .. n + 1)
  BY FS_Interval
<1>2. 1 \in 1 .. n + 1 /\ \A i \in 1 .. n : i + 1 \in R
  OBVIOUS
<1>3. h \in [R -> Int] /\ m \in [1 .. n -> R] /\ \A i \in 1 .. n : h[m[i]] = f[i]
  BY <1>2 DEF Only
<1>4. (\A i, j \in 1 .. n : m[i] = m[j] => i = j) /\ \A z \in R : \E i \in 1 .. n : m[i] = z
  <2>1. \A z \in R : z - 1 \in 1 .. n /\ m[z - 1] = z
    OBVIOUS
  <2> QED
    BY <2>1
<1>5. TotalOf(g) = g[1] + TotalOf(Only(g, (1 .. n + 1) \ {1}))
  BY <1>1, <1>2, SumInt
<1>6. TotalOf(f) \in Int
  BY <1>1, SumInt
<1>7. TotalOf(h) = TotalOf(f)
  <2> DEFINE D == 1 .. n
  <2>1. IsFiniteSet(D)
    BY <1>1
  <2>2. Renumbers(m, D, f, R, h)
    BY <1>3, <1>4 DEF Renumbers
  <2> HIDE DEF h, m, R, D
  <2> QED
    BY <2>1, <2>2, SumRenumbered
<1> HIDE DEF h, m, R
<1> QED
  BY <1>5, <1>6, <1>7 DEF h, R
=============================================================================
