------------------------------ MODULE SumLemmas ------------------------------
(***************************************************************************)
(* Facts about sums of a function's values over a finite set, as the       *)
(* ledger's balances, histories and standing bids are stated with them.    *)
(* The sum is a recursive function on the subsets; what is proved of it    *)
(* here is by a least counterexample, since the finite subsets of a set    *)
(* are well founded; recursions over sequences go by a least number.       *)
(***************************************************************************)
EXTENDS Integers, FiniteSets, Functions, FiniteSetTheorems,
        WellFoundedInduction, TLAPS

\* Among subsets of a finite set there is one that contains no other.
LEMMA LeastSubset ==
  ASSUME NEW S, IsFiniteSet(S), NEW B \in SUBSET (SUBSET S), B # {}
  PROVE  \E T \in B : \A U \in B : U \subseteq T => U = T
<1>1. IsWellFoundedOn(StrictSubsetOrdering(S), SUBSET S)
  BY FS_StrictSubsetOrderingWellFounded, FS_FiniteSubsetsOfFinite
<1>2. \E T \in B : \A U \in B : ~ (<<U, T>> \in StrictSubsetOrdering(S))
  BY <1>1, WFMin
<1> QED
  BY <1>2 DEF StrictSubsetOrdering

\* A set of natural numbers that is not empty has a least.
LEMMA LeastNumber ==
  ASSUME NEW B \in SUBSET Nat, B # {}
  PROVE  \E m \in B : \A k \in B : m <= k
<1>1. PICK m \in B : \A k \in B : ~ (<<k, m>> \in OpToRel(<, Nat))
  BY NatLessThanWellFounded, WFMin
<1>2. ASSUME NEW k \in B PROVE m <= k
  <2>1. ~ (k < m)
    BY <1>1 DEF OpToRel
  <2> QED
    BY <2>1
<1> QED
  BY <1>2

-----------------------------------------------------------------------------
(* The recursion *)

PickOne(s) == CHOOSE x \in s : TRUE

\* g has the partial sums of f over the subsets of S.
PartialSums(g, f, S) ==
  g = [s \in SUBSET S |-> IF s = {} THEN 0 ELSE f[PickOne(s)] + g[s \ {PickOne(s)}]]

\* The sum of the library is the last of the partial sums.
LEMMA SumByPartialSums ==
  ASSUME NEW f, NEW S
  PROVE  SumFunctionOnSet(f, S) = (CHOOSE g : PartialSums(g, f, S))[S]
BY DEF SumFunctionOnSet, FoldFunctionOnSet, MapThenFoldSet, PartialSums, PickOne

\* What an element of the recursion says, without the function around it.
LEMMA PartialSumsAt ==
  ASSUME NEW f, NEW S, NEW g, PartialSums(g, f, S), NEW s \in SUBSET S
  PROVE  /\ s = {} => g[s] = 0
         /\ s # {} => /\ g[s] = f[PickOne(s)] + g[s \ {PickOne(s)}]
                      /\ PickOne(s) \in s
<1>1. g[s] = IF s = {} THEN 0 ELSE f[PickOne(s)] + g[s \ {PickOne(s)}]
  BY DEF PartialSums
<1>2. s # {} => PickOne(s) \in s
  BY DEF PickOne
<1> QED
  BY <1>1, <1>2

\* The partial sums over a set and over a part of it agree on the part.
LEMMA PartialSumsAgree ==
  ASSUME NEW f, NEW S, IsFiniteSet(S), NEW T \in SUBSET S,
         NEW g, PartialSums(g, f, S), NEW h, PartialSums(h, f, T)
  PROVE  \A s \in SUBSET T : g[s] = h[s]
<1> DEFINE B == {s \in SUBSET T : g[s] # h[s]}
<1>1. SUFFICES ASSUME B # {} PROVE FALSE
  OBVIOUS
<1>2. IsFiniteSet(T)
  BY FS_Subset
<1>3. PICK s \in B : \A u \in B : u \subseteq s => u = s
  <2>1. B \in SUBSET (SUBSET T)
    OBVIOUS
  <2> HIDE DEF B
  <2> QED
    BY <1>1, <1>2, <2>1, LeastSubset
<1>4. s # {}
  BY PartialSumsAt
<1>5. PickOne(s) \in s /\ g[s] = f[PickOne(s)] + g[s \ {PickOne(s)}]
                    /\ h[s] = f[PickOne(s)] + h[s \ {PickOne(s)}]
  BY <1>4, PartialSumsAt
<1>6. s \ {PickOne(s)} \notin B
  BY <1>3, <1>5
<1> QED
  BY <1>3, <1>5, <1>6

\* Every finite set has its partial sums.
LEMMA PartialSumsExist ==
  ASSUME NEW f, NEW S, IsFiniteSet(S)
  PROVE  \E g : PartialSums(g, f, S)
<1> DEFINE B == {s \in SUBSET S : ~ \E g : PartialSums(g, f, s)}
<1>1. SUFFICES ASSUME B # {} PROVE FALSE
  OBVIOUS
<1>2. PICK s \in B : \A u \in B : u \subseteq s => u = s
  <2>1. B \in SUBSET (SUBSET S)
    OBVIOUS
  <2> HIDE DEF B
  <2> QED
    BY <1>1, <2>1, LeastSubset
<1> DEFINE Of(u) == CHOOSE g : PartialSums(g, f, u)
           Val(u) == Of(u)[u]
           G == [u \in SUBSET s |->
                   IF u = {} THEN 0 ELSE f[PickOne(u)] + Val(u \ {PickOne(u)})]
<1>3. ASSUME NEW u \in SUBSET s, u # s
      PROVE  PartialSums(Of(u), f, u) /\ IsFiniteSet(u)
  <2>1. \E g : PartialSums(g, f, u)
    BY <1>2, <1>3
  <2> QED
    BY <2>1, FS_Subset
<1>4. ASSUME NEW u \in SUBSET s, u # s
      PROVE  G[u] = Val(u)
  <2>1. CASE u = {}
    BY <2>1, <1>3, <1>4, PartialSumsAt
  <2>2. CASE u # {}
    <3> DEFINE v == u \ {PickOne(u)}
    <3>1. PickOne(u) \in u
      BY <2>2 DEF PickOne
    <3>2. v \in SUBSET u /\ v \in SUBSET s /\ v # s
      BY <3>1
    <3>3. PartialSums(Of(u), f, u) /\ PartialSums(Of(v), f, v) /\ IsFiniteSet(u)
      BY <1>3, <1>4, <3>2
    <3>4. Of(u)[v] = Val(v)
      <4> HIDE DEF v, Of
      <4> QED
        BY <3>2, <3>3, PartialSumsAgree
    <3>5. Val(u) = f[PickOne(u)] + Of(u)[v]
      BY <3>3, <2>2, PartialSumsAt
    <3> QED
      BY <3>4, <3>5, <2>2
  <2> QED
    BY <2>1, <2>2
<1>5. PartialSums(G, f, s)
  <2>1. ASSUME NEW u \in SUBSET s, u # {}
        PROVE  Val(u \ {PickOne(u)}) = G[u \ {PickOne(u)}]
    <3>1. PickOne(u) \in u
      BY <2>1 DEF PickOne
    <3>2. u \ {PickOne(u)} \in SUBSET s /\ u \ {PickOne(u)} # s
      BY <3>1
    <3> HIDE DEF G, Val
    <3> QED
      BY <3>2, <1>4
  <2>2. G = [u \in SUBSET s |->
               IF u = {} THEN 0 ELSE f[PickOne(u)] + G[u \ {PickOne(u)}]]
    <3> HIDE DEF Val
    <3> QED
      BY <2>1
  <2> QED
    BY <2>2 DEF PartialSums
<1> QED
  BY <1>2, <1>5

\* The sum over a finite set, one element at a time.
LEMMA SumStep ==
  ASSUME NEW f, NEW S, IsFiniteSet(S)
  PROVE  SumFunctionOnSet(f, S) =
           IF S = {} THEN 0
           ELSE f[PickOne(S)] + SumFunctionOnSet(f, S \ {PickOne(S)})
<1> DEFINE g == CHOOSE g : PartialSums(g, f, S)
           T == S \ {PickOne(S)}
           h == CHOOSE h : PartialSums(h, f, T)
<1>1. IsFiniteSet(T) /\ T \in SUBSET S
  BY FS_Subset
<1>2. PartialSums(g, f, S) /\ PartialSums(h, f, T)
  <2>1. (\E k : PartialSums(k, f, S)) /\ \E k : PartialSums(k, f, T)
    BY <1>1, PartialSumsExist
  <2> QED
    BY <2>1
<1>3. SumFunctionOnSet(f, S) = g[S] /\ SumFunctionOnSet(f, T) = h[T]
  BY SumByPartialSums
<1>4. g[T] = h[T]
  <2> HIDE DEF g, h, T
  <2> QED
    BY <1>1, <1>2, PartialSumsAgree
<1>5. g[S] = IF S = {} THEN 0 ELSE f[PickOne(S)] + g[T]
  <2> HIDE DEF g
  <2> QED
    BY <1>2, PartialSumsAt
<1> QED
  BY <1>3, <1>4, <1>5

-----------------------------------------------------------------------------
(* What a sum is *)

\* The sum depends on the values over the set only.
LEMMA SumSame ==
  ASSUME NEW S, IsFiniteSet(S), NEW f, NEW g, \A x \in S : f[x] = g[x]
  PROVE  SumFunctionOnSet(f, S) = SumFunctionOnSet(g, S)
<1> DEFINE B == {s \in SUBSET S : SumFunctionOnSet(f, s) # SumFunctionOnSet(g, s)}
<1>1. SUFFICES ASSUME B # {} PROVE FALSE
  OBVIOUS
<1>2. PICK s \in B : \A u \in B : u \subseteq s => u = s
  <2>1. B \in SUBSET (SUBSET S)
    OBVIOUS
  <2> HIDE DEF B
  <2> QED
    BY <1>1, <2>1, LeastSubset
<1>3. IsFiniteSet(s)
  BY FS_Subset
<1>4. s # {}
  BY SumStep, FS_EmptySet
<1>5. PickOne(s) \in s
  BY <1>4 DEF PickOne
<1>6. s \ {PickOne(s)} \notin B
  BY <1>2, <1>5
<1> QED
  BY <1>2, <1>3, <1>4, <1>5, <1>6, SumStep

\* Nothing adds up to nothing, and integers to an integer.
LEMMA SumEmpty ==
  ASSUME NEW f
  PROVE  SumFunctionOnSet(f, {}) = 0
BY SumStep, FS_EmptySet

\* A finite sum of integers is one.
LEMMA SumInt ==
  ASSUME NEW S, IsFiniteSet(S), NEW f, \A x \in S : f[x] \in Int
  PROVE  SumFunctionOnSet(f, S) \in Int
<1> DEFINE B == {s \in SUBSET S : SumFunctionOnSet(f, s) \notin Int}
<1>1. SUFFICES ASSUME B # {} PROVE FALSE
  OBVIOUS
<1>2. PICK s \in B : \A u \in B : u \subseteq s => u = s
  <2>1. B \in SUBSET (SUBSET S)
    OBVIOUS
  <2> HIDE DEF B
  <2> QED
    BY <1>1, <2>1, LeastSubset
<1>3. IsFiniteSet(s)
  BY FS_Subset
<1>4. s # {}
  BY SumEmpty
<1>5. PickOne(s) \in s
  BY <1>4 DEF PickOne
<1>6. s \ {PickOne(s)} \notin B
  BY <1>2, <1>5
<1>7. SumFunctionOnSet(f, s \ {PickOne(s)}) \in Int /\ f[PickOne(s)] \in Int
  BY <1>5, <1>6
<1>8. SumFunctionOnSet(f, s) = f[PickOne(s)] + SumFunctionOnSet(f, s \ {PickOne(s)})
  BY <1>3, <1>4, SumStep
<1> QED
  BY <1>2, <1>7, <1>8

\* Zeros add up to zero.
LEMMA SumZero ==
  ASSUME NEW S, IsFiniteSet(S), NEW f, \A x \in S : f[x] = 0
  PROVE  SumFunctionOnSet(f, S) = 0
<1> DEFINE B == {s \in SUBSET S : SumFunctionOnSet(f, s) # 0}
<1>1. SUFFICES ASSUME B # {} PROVE FALSE
  OBVIOUS
<1>2. PICK s \in B : \A u \in B : u \subseteq s => u = s
  <2>1. B \in SUBSET (SUBSET S)
    OBVIOUS
  <2> HIDE DEF B
  <2> QED
    BY <1>1, <2>1, LeastSubset
<1>3. IsFiniteSet(s)
  BY FS_Subset
<1>4. s # {}
  BY SumEmpty
<1>5. PickOne(s) \in s
  BY <1>4 DEF PickOne
<1>6. s \ {PickOne(s)} \notin B
  BY <1>2, <1>5
<1>7. SumFunctionOnSet(f, s \ {PickOne(s)}) = 0 /\ f[PickOne(s)] = 0
  BY <1>5, <1>6
<1>8. SumFunctionOnSet(f, s) = f[PickOne(s)] + SumFunctionOnSet(f, s \ {PickOne(s)})
  BY <1>3, <1>4, SumStep
<1> QED
  BY <1>2, <1>7, <1>8

-----------------------------------------------------------------------------
(* How a sum changes *)

\* Any element may be taken out first.
LEMMA SumRemove ==
  ASSUME NEW S, IsFiniteSet(S), NEW f, \A x \in S : f[x] \in Int, NEW y \in S
  PROVE  SumFunctionOnSet(f, S) = f[y] + SumFunctionOnSet(f, S \ {y})
<1> DEFINE sum(s) == SumFunctionOnSet(f, s)
           B == {s \in SUBSET S : \E x \in s : sum(s) # f[x] + sum(s \ {x})}
<1>1. SUFFICES ASSUME B # {} PROVE FALSE
  OBVIOUS
<1>2. PICK s \in B : \A u \in B : u \subseteq s => u = s
  <2>1. B \in SUBSET (SUBSET S)
    OBVIOUS
  <2> HIDE DEF B
  <2> QED
    BY <1>1, <2>1, LeastSubset
<1>3. PICK x \in s : sum(s) # f[x] + sum(s \ {x})
  OBVIOUS
<1> DEFINE p == PickOne(s)
<1>4. p \in s
  BY <1>3 DEF PickOne
<1>5. /\ IsFiniteSet(s) /\ IsFiniteSet((s \ {p}) \ {x})
      /\ s \ {p} \notin B /\ s \ {x} \notin B
  BY <1>2, <1>3, <1>4, FS_Subset
<1>6. sum(s) = f[p] + sum(s \ {p})
  BY <1>4, <1>5, SumStep
<1>7. x # p
  BY <1>3, <1>6
<1>8. (s \ {p}) \ {x} = (s \ {x}) \ {p}
  OBVIOUS
<1>9. /\ sum(s \ {p}) = f[x] + sum((s \ {p}) \ {x})
      /\ sum(s \ {x}) = f[p] + sum((s \ {p}) \ {x})
  <2> HIDE DEF p, sum
  <2> QED
    BY <1>3, <1>4, <1>5, <1>7, <1>8
<1>10. f[x] \in Int /\ f[p] \in Int /\ sum((s \ {p}) \ {x}) \in Int
  BY <1>3, <1>4, <1>5, SumInt
<1> QED
  <2> HIDE DEF p, sum
  <2> QED
    BY <1>3, <1>6, <1>9, <1>10

\* One element more.
LEMMA SumInsert ==
  ASSUME NEW S, IsFiniteSet(S), NEW y, y \notin S,
         NEW f, \A x \in S \cup {y} : f[x] \in Int
  PROVE  SumFunctionOnSet(f, S \cup {y}) = SumFunctionOnSet(f, S) + f[y]
<1>1. IsFiniteSet(S \cup {y}) /\ (S \cup {y}) \ {y} = S
  BY FS_AddElement
<1>2. SumFunctionOnSet(f, S \cup {y}) = f[y] + SumFunctionOnSet(f, S)
  BY <1>1, SumRemove
<1> QED
  BY <1>2, SumInt

\* One value changed.
LEMMA SumChange ==
  ASSUME NEW S, IsFiniteSet(S), NEW f, NEW g, NEW y \in S,
         \A x \in S : f[x] \in Int /\ g[x] \in Int,
         \A x \in S \ {y} : f[x] = g[x]
  PROVE  SumFunctionOnSet(g, S) = SumFunctionOnSet(f, S) + (g[y] - f[y])
<1> DEFINE T == S \ {y}
<1>1. IsFiniteSet(T)
  BY FS_Subset
<1>2. SumFunctionOnSet(f, T) = SumFunctionOnSet(g, T)
  BY <1>1, SumSame
<1>3. SumFunctionOnSet(f, T) \in Int
  BY <1>1, SumInt
<1>4. /\ SumFunctionOnSet(f, S) = f[y] + SumFunctionOnSet(f, T)
      /\ SumFunctionOnSet(g, S) = g[y] + SumFunctionOnSet(g, T)
  BY SumRemove
<1> HIDE DEF T
<1> QED
  BY <1>2, <1>3, <1>4

\* What one value loses another gains.
LEMMA SumTransfer ==
  ASSUME NEW S, IsFiniteSet(S), NEW f, NEW g, NEW y \in S, NEW z \in S \ {y},
         \A x \in S : f[x] \in Int /\ g[x] \in Int,
         \A x \in S \ {y, z} : f[x] = g[x],
         f[y] + f[z] = g[y] + g[z]
  PROVE  SumFunctionOnSet(g, S) = SumFunctionOnSet(f, S)
<1> DEFINE T == S \ {y}
           s == SumFunctionOnSet(f, T)
           t == SumFunctionOnSet(g, T)
<1>1. IsFiniteSet(T) /\ z \in T /\ \A x \in T \ {z} : f[x] = g[x]
  BY FS_Subset
<1>2. t = s + (g[z] - f[z]) /\ s \in Int
  BY <1>1, SumChange, SumInt
<1>3. SumFunctionOnSet(f, S) = f[y] + s /\ SumFunctionOnSet(g, S) = g[y] + t
  BY SumRemove
<1> HIDE DEF s, t
<1> QED
  BY <1>2, <1>3

\* Two parts that share nothing.
LEMMA SumDisjoint ==
  ASSUME NEW S, IsFiniteSet(S), NEW T, IsFiniteSet(T), S \cap T = {},
         NEW f, \A x \in S \cup T : f[x] \in Int
  PROVE  SumFunctionOnSet(f, S \cup T) =
           SumFunctionOnSet(f, S) + SumFunctionOnSet(f, T)
<1> DEFINE sum(s) == SumFunctionOnSet(f, s)
           B == {s \in SUBSET T : sum(S \cup s) # sum(S) + sum(s)}
<1>1. SUFFICES ASSUME B # {} PROVE FALSE
  OBVIOUS
<1>2. PICK s \in B : \A u \in B : u \subseteq s => u = s
  <2>1. B \in SUBSET (SUBSET T)
    OBVIOUS
  <2> HIDE DEF B
  <2> QED
    BY <1>1, <2>1, LeastSubset
<1>3. sum(S) \in Int
  BY SumInt
<1>4. s # {}
  <2>1. sum(S \cup {}) = sum(S) + sum({})
    <3>1. sum({}) = 0
      BY SumEmpty
    <3>2. sum(S \cup {}) = sum(S)
      OBVIOUS
    <3> HIDE DEF sum
    <3> QED
      BY <1>3, <3>1, <3>2
  <2>2. {} \notin B
    BY <2>1
  <2> QED
    BY <2>2
<1>5. PICK y : y \in s
  BY <1>4
<1> DEFINE u == s \ {y}
<1>6. u \notin B /\ IsFiniteSet(u) /\ y \notin u /\ u \cup {y} = s
  BY <1>2, <1>5, FS_Subset
<1>7. sum(S \cup u) = sum(S) + sum(u) /\ sum(u) \in Int
  BY <1>6, SumInt
<1>8. sum(s) = sum(u) + f[y]
  BY <1>5, <1>6, SumInsert
<1>9. sum(S \cup s) = sum(S \cup u) + f[y]
  <2>1. /\ IsFiniteSet(S \cup u) /\ y \notin S \cup u
        /\ (S \cup u) \cup {y} = S \cup s
    BY <1>5, <1>6, FS_Union
  <2> QED
    BY <2>1, <1>5, SumInsert
<1>10. f[y] \in Int
  BY <1>5
<1> QED
  <2> HIDE DEF u, sum
  <2> QED
    BY <1>2, <1>3, <1>7, <1>8, <1>9, <1>10

\* Values of at least zero add up to at least zero, and a part of them to no
\* more than the whole.
LEMMA SumNonNegative ==
  ASSUME NEW S, IsFiniteSet(S), NEW f, \A x \in S : f[x] \in Nat
  PROVE  SumFunctionOnSet(f, S) \in Nat
<1> DEFINE B == {s \in SUBSET S : SumFunctionOnSet(f, s) \notin Nat}
<1>1. SUFFICES ASSUME B # {} PROVE FALSE
  OBVIOUS
<1>2. PICK s \in B : \A u \in B : u \subseteq s => u = s
  <2>1. B \in SUBSET (SUBSET S)
    OBVIOUS
  <2> HIDE DEF B
  <2> QED
    BY <1>1, <2>1, LeastSubset
<1>3. IsFiniteSet(s)
  BY FS_Subset
<1>4. s # {}
  BY SumEmpty
<1>5. PickOne(s) \in s
  BY <1>4 DEF PickOne
<1>6. s \ {PickOne(s)} \notin B
  BY <1>2, <1>5
<1>7. SumFunctionOnSet(f, s \ {PickOne(s)}) \in Nat /\ f[PickOne(s)] \in Nat
  BY <1>5, <1>6
<1>8. SumFunctionOnSet(f, s) = f[PickOne(s)] + SumFunctionOnSet(f, s \ {PickOne(s)})
  BY <1>3, <1>4, SumStep
<1> QED
  BY <1>2, <1>7, <1>8

\* Part of a sum of naturals is no larger than all of it.
LEMMA SumOfPart ==
  ASSUME NEW S, IsFiniteSet(S), NEW f, \A x \in S : f[x] \in Nat,
         NEW T \in SUBSET S
  PROVE  SumFunctionOnSet(f, T) <= SumFunctionOnSet(f, S)
<1> DEFINE R == S \ T
<1>1. /\ IsFiniteSet(T) /\ IsFiniteSet(R) /\ T \cap R = {} /\ T \cup R = S
      /\ \A x \in T \cup R : f[x] \in Int
  BY FS_Subset
<1>2. (\A x \in T : f[x] \in Nat) /\ \A x \in R : f[x] \in Nat
  OBVIOUS
<1> HIDE DEF R
<1>3. SumFunctionOnSet(f, T \cup R) = SumFunctionOnSet(f, T) + SumFunctionOnSet(f, R)
  BY <1>1, SumDisjoint
<1>4. SumFunctionOnSet(f, T) \in Nat
  BY <1>1, <1>2, SumNonNegative
<1>5. SumFunctionOnSet(f, R) \in Nat
  BY <1>1, <1>2, SumNonNegative
<1>6. SumFunctionOnSet(f, S) = SumFunctionOnSet(f, T) + SumFunctionOnSet(f, R)
  BY <1>1, <1>3
<1> QED
  BY <1>4, <1>5, <1>6
=============================================================================
