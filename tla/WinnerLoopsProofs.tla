-------------------------- MODULE WinnerLoopsProofs --------------------------
(***************************************************************************)
(* Proofs about the loops that pick winners: however ties fall and however *)
(* many rounds are rolled off, the loops end with winners that the sets of *)
(* module Winners allow, no more of them than there are items, and nobody  *)
(* loses to a bidder it stands before.                                     *)
(***************************************************************************)
EXTENDS WinnerLoops, SumLemmas, SequenceTheorems

-----------------------------------------------------------------------------
(* Counting *)

\* The first k of s.
FirstOf(s, k) == {s[j] : j \in 1 .. k}

\* The first elements of a sequence, up to all of it.
LEMMA FirstOfSeq ==
  ASSUME NEW X, NEW s \in Seq(X)
  PROVE  /\ Len(s) \in Nat /\ DOMAIN s = 1 .. Len(s)
         /\ Range(s) = FirstOf(s, Len(s))
         /\ \A k \in 0 .. Len(s) : FirstOf(s, k) \subseteq X
<1>1. Len(s) \in Nat /\ DOMAIN s = 1 .. Len(s) /\ \A j \in 1 .. Len(s) : s[j] \in X
  OBVIOUS
<1>2. Range(s) = FirstOf(s, Len(s))
  BY <1>1 DEF Range, FirstOf
<1> HIDE DEF Range
<1>3. \A k \in 0 .. Len(s) : \A j \in 1 .. k : j \in 1 .. Len(s)
  BY <1>1
<1> QED
  BY <1>1, <1>2, <1>3 DEF FirstOf

\* One more at the end.
LEMMA FirstOfAppend ==
  ASSUME NEW X, NEW s \in Seq(X), NEW x \in X
  PROVE  LET t == Append(s, x) IN
         /\ t \in Seq(X) /\ Len(t) = Len(s) + 1
         /\ \A k \in 0 .. Len(s) : FirstOf(t, k) = FirstOf(s, k)
         /\ \A j \in 1 .. Len(s) : t[j] = s[j]
         /\ t[Len(s) + 1] = x
         /\ FirstOf(t, Len(s) + 1) = FirstOf(s, Len(s)) \cup {x}
<1> DEFINE t == Append(s, x)
           m == Len(s)
<1>1. /\ t \in Seq(X) /\ Len(t) = m + 1 /\ m \in Nat
      /\ \A j \in 1 .. m : t[j] = s[j]
      /\ t[m + 1] = x
  BY AppendProperties
<1> HIDE DEF t, m
<1>2. ASSUME NEW k \in 0 .. m
      PROVE  FirstOf(t, k) = FirstOf(s, k)
  <2>1. \A j \in 1 .. k : j \in 1 .. m
    BY <1>1
  <2> QED
    BY <1>1, <2>1 DEF FirstOf
<1>3. FirstOf(t, m + 1) = FirstOf(s, m) \cup {x}
  <2>1. 1 .. m + 1 = (1 .. m) \cup {m + 1}
    BY <1>1
  <2> QED
    BY <1>1, <2>1 DEF FirstOf
<1> QED
  BY <1>1, <1>2, <1>3 DEF t, m

-----------------------------------------------------------------------------
(* The pool *)

Scored(S) == \A p \in S : bids[p].amount \in Int /\ bids[p].attendance \in Int

Richer(S, p) == {q \in S : bids[q].amount > bids[p].amount}

\* The pool of a field larger than the items holds as many as there are items.
LEMMA PoolEnough ==
  ASSUME NEW S, IsFiniteSet(S), Scored(S), NEW k \in Nat, Cardinality(S) > k
  PROVE  Cardinality(Pool(S, k)) >= k
<1> DEFINE P == Pool(S, k)
           out == S \ P
           c(p) == Cardinality(Richer(S, p))
<1>1. /\ P \subseteq S /\ IsFiniteSet(P) /\ Cardinality(P) \in Nat
      /\ \A p \in S : c(p) < k => p \in P
  BY FS_Subset, FS_CardinalityType DEF Pool, Richer
<1>2. \A p \in S : IsFiniteSet(Richer(S, p)) /\ c(p) \in Nat
  <2>1. \A p \in S : Richer(S, p) \in SUBSET S
    BY DEF Richer
  <2> QED
    BY <2>1, FS_Subset, FS_CardinalityType
<1> HIDE DEF P
<1>3. SUFFICES ASSUME Cardinality(P) < k PROVE FALSE
  BY <1>1 DEF P
<1>4. out # {}
  BY <1>1, <1>3
<1>5. PICK q \in out : \A x \in out : c(q) <= c(x)
  <2> DEFINE B == {c(x) : x \in out}
  <2>1. B \in SUBSET Nat /\ B # {}
    BY <1>2, <1>4
  <2> HIDE DEF B
  <2>2. PICK m \in B : \A x \in B : m <= x
    BY <2>1, LeastNumber
  <2> QED
    BY <2>2 DEF B
<1>6. Richer(S, q) \subseteq P
  <2>1. SUFFICES ASSUME NEW x \in Richer(S, q), x \notin P PROVE FALSE
    OBVIOUS
  <2>2. x \in S /\ q \in S /\ x \in out /\ bids[x].amount > bids[q].amount
    BY <2>1 DEF Richer
  <2>3. Richer(S, x) \subseteq Richer(S, q) \ {x}
    BY <2>2 DEF Richer, Scored
  <2>4. Richer(S, x) \subseteq Richer(S, q) /\ x \in Richer(S, q) /\ x \notin Richer(S, x)
    BY <2>1, <2>3
  <2>5. c(x) <= c(q) /\ c(x) # c(q)
    BY <1>2, <2>2, <2>4, FS_Subset
  <2> QED
    BY <1>2, <1>5, <2>2, <2>5
<1>7. c(q) <= Cardinality(P)
  BY <1>1, <1>6, FS_Subset
<1>8. c(q) < k /\ q \in S
  BY <1>1, <1>2, <1>3, <1>5, <1>7
<1> QED
  BY <1>1, <1>5, <1>8

\* Nobody outside the pool bids as much as somebody in it.
LEMMA PoolAbove ==
  ASSUME NEW S, IsFiniteSet(S), Scored(S), NEW k \in Nat,
         NEW p \in Pool(S, k), NEW q \in S \ Pool(S, k)
  PROVE  bids[q].amount < bids[p].amount
<1>1. p \in S /\ Cardinality(S) \in Nat
  BY FS_CardinalityType DEF Pool
<1>2. ~ (Cardinality(S) <= k) /\ ~ (Cardinality(Richer(S, q)) < k)
  BY DEF Pool, Richer
<1>3. Cardinality(Richer(S, p)) < k
  BY <1>2 DEF Pool, Richer
<1>4. SUFFICES ASSUME bids[q].amount >= bids[p].amount PROVE FALSE
  BY <1>1 DEF Scored
<1>5. Richer(S, q) \subseteq Richer(S, p)
  BY <1>1, <1>4 DEF Richer, Scored
<1>6. Richer(S, p) \subseteq S
  BY DEF Richer
<1>7. /\ IsFiniteSet(Richer(S, p)) /\ Cardinality(Richer(S, p)) \in Nat
      /\ Cardinality(Richer(S, q)) <= Cardinality(Richer(S, p))
      /\ Cardinality(Richer(S, q)) \in Nat
  BY <1>5, <1>6, FS_Subset, FS_CardinalityType
<1> QED
  BY <1>2, <1>3, <1>7

-----------------------------------------------------------------------------
(* top_bids *)

\* What the loop over the bidders S has done when it picked t and P is left of
\* its pool: nobody twice, and each before all that come after it.
LoopAt(S, t, P) ==
  /\ t \in Seq(S) /\ Len(t) <= n
  /\ P = Pool(S, n) \ Range(t)
  /\ \A k \in 0 .. Len(t) : /\ IsFiniteSet(FirstOf(t, k))
                            /\ Cardinality(FirstOf(t, k)) = k
  /\ \A i \in 1 .. Len(t) : \A q \in S \ FirstOf(t, i) :
       ~ Outranks(bids[q], bids[t[i]])

\* Before the first round of a pool nobody is picked.
LEMMA LoopStarts ==
  ASSUME NEW S, n \in Nat
  PROVE  LoopAt(S, <<>>, Pool(S, n))
<1> DEFINE t == <<>>
<1>1. t \in Seq(S) /\ Len(t) = 0
  BY EmptySeq
<1> HIDE DEF t
<1>2. Range(t) = {} /\ FirstOf(t, 0) = {}
  <2>1. Range(t) = FirstOf(t, Len(t))
    BY <1>1, FirstOfSeq
  <2>2. FirstOf(t, 0) = {}
    BY DEF FirstOf
  <2> QED
    BY <1>1, <2>1, <2>2
<1>3. \A k \in 0 .. Len(t) : k = 0
  BY <1>1
<1>4. \A i \in 1 .. Len(t) : FALSE
  BY <1>1
<1>5. LoopAt(S, t, Pool(S, n))
  BY <1>1, <1>2, <1>3, <1>4, FS_EmptySet DEF LoopAt
<1> QED
  BY <1>5 DEF t

\* One round keeps this.
LEMMA LoopPicks ==
  ASSUME NEW S, IsFiniteSet(S), Scored(S), n \in Nat, LoopAt(S, top, pool), Pick
  PROVE  LoopAt(S, top', pool')
<1>1. PICK p \in IF Cardinality(Tied) = 1 THEN Tied ELSE Candidates :
        top' = Append(top, p) /\ pool' = pool \ {p}
  BY DEF Pick
<1>2. /\ Len(top) < n /\ p \in Tied /\ p \in pool
      /\ Cardinality(Tied) # 1 => p \in Candidates
  BY <1>1 DEF Pick, Picking, Candidates, Tied
<1>3. /\ top \in Seq(S) /\ pool = Pool(S, n) \ Range(top) /\ p \in S
      /\ p \in Pool(S, n) /\ p \notin Range(top) /\ Pool(S, n) \subseteq S
  BY <1>2 DEF LoopAt, Pool
<1> DEFINE t == top'
           m == Len(top)
<1>4. /\ t \in Seq(S) /\ Len(t) = m + 1 /\ m \in Nat
      /\ \A k \in 0 .. m : FirstOf(t, k) = FirstOf(top, k)
      /\ \A j \in 1 .. m : t[j] = top[j]
      /\ t[m + 1] = p
      /\ FirstOf(t, m + 1) = FirstOf(top, m) \cup {p}
      /\ Range(top) = FirstOf(top, m) /\ Range(t) = FirstOf(t, m + 1)
  <2>1. t = Append(top, p)
    BY <1>1
  <2>2. /\ t \in Seq(S) /\ Len(t) = m + 1
        /\ \A k \in 0 .. m : FirstOf(t, k) = FirstOf(top, k)
        /\ \A j \in 1 .. m : t[j] = top[j]
        /\ t[m + 1] = p
        /\ FirstOf(t, m + 1) = FirstOf(top, m) \cup {p}
    BY <1>3, <2>1, FirstOfAppend
  <2>3. m \in Nat /\ Range(top) = FirstOf(top, m)
    BY <1>3, FirstOfSeq
  <2> HIDE DEF t, m
  <2>4. Range(t) = FirstOf(t, m + 1)
    BY <2>2, FirstOfSeq
  <2> QED
    BY <2>2, <2>3, <2>4
<1> HIDE DEF t, m
<1>5. pool' = Pool(S, n) \ Range(t)
  BY <1>1, <1>3, <1>4
<1>6. \A k \in 0 .. m : IsFiniteSet(FirstOf(t, k)) /\ Cardinality(FirstOf(t, k)) = k
  BY <1>4 DEF LoopAt, m
<1>7. IsFiniteSet(FirstOf(t, m + 1)) /\ Cardinality(FirstOf(t, m + 1)) = m + 1
  <2>1. m \in 0 .. m
    BY <1>4
  <2>2. IsFiniteSet(FirstOf(top, m)) /\ Cardinality(FirstOf(top, m)) = m
    BY <1>4, <1>6, <2>1
  <2> DEFINE F == FirstOf(top, m)
  <2>3. p \notin F /\ FirstOf(t, m + 1) = F \cup {p}
    BY <1>3, <1>4
  <2> HIDE DEF F
  <2>4. IsFiniteSet(F \cup {p}) /\ Cardinality(F \cup {p}) = Cardinality(F) + 1
    BY <2>2, <2>3, FS_AddElement DEF F
  <2> QED
    BY <2>2, <2>3, <2>4 DEF F
<1>8. \A i \in 1 .. m : \A q \in S \ FirstOf(t, i) : ~ Outranks(bids[q], bids[t[i]])
  <2>1. \A i \in 1 .. m : i \in 0 .. m
    BY <1>4
  <2>2. \A i \in 1 .. m : \A q \in S \ FirstOf(top, i) : ~ Outranks(bids[q], bids[top[i]])
    BY DEF LoopAt, m
  <2> QED
    BY <1>4, <2>1, <2>2
<1>9. ASSUME NEW q \in S \ FirstOf(t, m + 1)
      PROVE  ~ Outranks(bids[q], bids[p])
  <2>1. q # p /\ q \notin Range(top) /\ q \in S
    BY <1>4, <1>9
  <2>2. /\ bids[q].amount \in Int /\ bids[q].attendance \in Int
        /\ bids[p].amount \in Int /\ bids[p].attendance \in Int
    BY <1>3, <2>1 DEF Scored
  <2>3. CASE q \notin Pool(S, n)
    <3>1. bids[q].amount < bids[p].amount
      BY <1>3, <2>1, <2>3, PoolAbove
    <3> QED
      BY <2>2, <3>1 DEF Outranks
  <2>4. CASE q \in Pool(S, n)
    <3>1. q \in pool
      BY <1>3, <2>1, <2>4
    <3>2. bids[p].amount >= bids[q].amount
      BY <1>2, <3>1 DEF Tied
    <3>3. CASE bids[p].amount = bids[q].amount
      <4>1. q \in Tied
        BY <1>2, <3>1, <3>3 DEF Tied
      <4>2. Cardinality(Tied) # 1
        <5>1. IsFiniteSet(Tied)
          <6>1. Tied \subseteq S
            BY <1>3 DEF Tied
          <6> QED
            BY <6>1, FS_Subset
        <5>2. \A x : Tied # {x}
          BY <1>2, <2>1, <4>1
        <5> QED
          BY <5>1, <5>2, FS_Singleton
      <4>3. bids[p].attendance >= bids[q].attendance
        BY <1>2, <4>1, <4>2 DEF Candidates
      <4> QED
        BY <2>2, <3>3, <4>3 DEF Outranks
    <3>4. CASE bids[p].amount # bids[q].amount
      BY <2>2, <3>2, <3>4 DEF Outranks
    <3> QED
      BY <3>3, <3>4
  <2> QED
    BY <2>3, <2>4
<1>10. /\ Len(t) <= n
       /\ \A k \in 0 .. Len(t) : k \in 0 .. m \/ k = m + 1
       /\ \A i \in 1 .. Len(t) : i \in 1 .. m \/ i = m + 1
  BY <1>2, <1>4 DEF m
<1>11. LoopAt(S, t, pool')
  BY <1>4, <1>5, <1>6, <1>7, <1>8, <1>9, <1>10 DEF LoopAt
<1> QED
  BY <1>11 DEF t

\* V is what S has best: k of them, or all, and nobody left out stands before
\* one of them.
Best(V, S, k) ==
  /\ V \subseteq S
  /\ Cardinality(V) = IF Cardinality(S) < k THEN Cardinality(S) ELSE k
  /\ \A v \in V : \A q \in S \ V : ~ Outranks(bids[q], bids[v])

\* The first k picks of a loop that ended are the best k.
LEMMA LoopEnds ==
  ASSUME NEW S, IsFiniteSet(S), Scored(S), n \in Nat, LoopAt(S, top, pool),
         ~ (Len(top) < n /\ pool # {})
  PROVE  /\ Len(top) = IF Cardinality(S) < n THEN Cardinality(S) ELSE n
         /\ \A k \in 0 .. n :
              Best(FirstOf(top, IF k < Len(top) THEN k ELSE Len(top)), S, k)
<1> DEFINE m == Len(top)
           c == Cardinality(S)
<1>1. /\ m \in Nat /\ m <= n /\ Range(top) = FirstOf(top, m) /\ c \in Nat
      /\ pool = Pool(S, n) \ Range(top)
      /\ \A k \in 0 .. m : /\ IsFiniteSet(FirstOf(top, k)) /\ FirstOf(top, k) \subseteq S
                           /\ Cardinality(FirstOf(top, k)) = k
      /\ \A i \in 1 .. m : \A q \in S \ FirstOf(top, i) :
           ~ Outranks(bids[q], bids[top[i]])
      /\ m \in 0 .. m
  BY FirstOfSeq, FS_CardinalityType DEF LoopAt
<1> HIDE DEF m, c
<1>2. m <= c
  BY <1>1, FS_Subset DEF c
<1>3. m = IF c < n THEN c ELSE n
  <2>1. CASE m = n
    BY <1>1, <1>2, <2>1
  <2>2. CASE m # n
    <3>1. pool = {} /\ m < n
      BY <1>1, <2>2 DEF m
    <3>2. Pool(S, n) \subseteq FirstOf(top, m)
      BY <1>1, <3>1
    <3>3. Cardinality(Pool(S, n)) <= m /\ Cardinality(Pool(S, n)) \in Nat
      BY <1>1, <3>2, FS_Subset, FS_CardinalityType
    <3>4. c <= n
      <4>1. c > n => Cardinality(Pool(S, n)) >= n
        BY PoolEnough DEF c
      <4> QED
        BY <1>1, <3>1, <3>3, <4>1
    <3>5. Pool(S, n) = S
      BY <3>4 DEF Pool, c
    <3>6. FirstOf(top, m) = S
      BY <1>1, <3>2, <3>5
    <3>7. m = c
      BY <1>1, <3>6 DEF c
    <3> QED
      BY <1>1, <3>1, <3>7
  <2> QED
    BY <2>1, <2>2
<1>4. ASSUME NEW k \in 0 .. n
      PROVE  Best(FirstOf(top, IF k < m THEN k ELSE m), S, k)
  <2> DEFINE j == IF k < m THEN k ELSE m
             V == FirstOf(top, j)
  <2>1. j \in 0 .. m /\ j = IF c < k THEN c ELSE k
    BY <1>1, <1>2, <1>3
  <2> HIDE DEF j
  <2>2. V \subseteq S /\ Cardinality(V) = j
    BY <1>1, <2>1
  <2>3. ASSUME NEW v \in V, NEW q \in S \ V
        PROVE  ~ Outranks(bids[q], bids[v])
    <3>1. PICK i \in 1 .. j : v = top[i]
      BY DEF FirstOf
    <3>2. i \in 1 .. m /\ \A x \in 1 .. i : x \in 1 .. j
      BY <1>1, <2>1
    <3>3. FirstOf(top, i) \subseteq V
      BY <3>2 DEF FirstOf
    <3> QED
      BY <1>1, <3>1, <3>2, <3>3
  <2> HIDE DEF V
  <2>4. Best(V, S, k)
    BY <2>1, <2>2, <2>3 DEF Best, c
  <2> QED
    BY <2>4 DEF V, j
<1> QED
  BY <1>3, <1>4 DEF m, c

\* The draw that favours W leaves of T the members of W.
LEMMA FavouringPicks ==
  ASSUME NEW W, NEW S, NEW T \in SUBSET S, NEW c \in 1 .. Cardinality(S)
  PROVE  Favouring(W, S)[<<T, c>>] = W \cap T
<1> DEFINE Dom == {<<U, x>> : U \in SUBSET S, x \in 1 .. Cardinality(S)}
           at == <<T, c>>
           f == Favouring(W, S)
<1>1. f = [t \in Dom |-> W \cap t[1]]
  BY DEF Favouring
<1>2. at \in Dom /\ at[1] = T
  OBVIOUS
<1> HIDE DEF Dom, at, f
<1>3. f[at] = W \cap at[1]
  BY <1>1, <1>2
<1>4. f[at] = W \cap T
  BY <1>2, <1>3
<1>5. f[<<T, c>>] = W \cap T
  BY <1>4 DEF at
<1> QED
  BY <1>5 DEF f

\* So does drawing fewer than there are.
LEMMA DrawFavours ==
  ASSUME NEW W, NEW S, IsFiniteSet(S), NEW T \in SUBSET S, NEW c \in Int, c > 0,
         ~ (Cardinality(T) <= c)
  PROVE  Draw(Favouring(W, S), T, c) = W \cap T
<1>1. Cardinality(T) <= Cardinality(S) /\ Cardinality(S) \in Nat /\ Cardinality(T) \in Nat
  BY FS_Subset, FS_CardinalityType
<1>2. c \in 1 .. Cardinality(S)
  BY <1>1
<1>3. Favouring(W, S)[<<T, c>>] = W \cap T
  BY <1>2, FavouringPicks
<1> QED
  BY <1>3, Zenon DEF Draw

\* When the ties fall for W, the set of Winners is the one the picks make.
LEMMA TopIsBest ==
  ASSUME NEW S, IsFiniteSet(S), S \subseteq Bidders, IsFiniteSet(Bidders),
         Scored(S), NEW k \in Nat,
         NEW W, NEW V, V = W \cap S, Best(V, S, k)
  PROVE  TopBids(bids, S, k, Favouring(W, Bidders)) = V
<1> DEFINE A(p) == Ahead(bids, S, p)
           L(p) == Level(bids, S, p)
           left(p) == k - Cardinality(A(p))
           seed == Favouring(W, Bidders)
<1>1. TopBids(bids, S, k, seed) =
        {p \in S : left(p) > 0 /\ p \in Draw(seed, L(p), left(p))}
  BY DEF TopBids
<1>2. ASSUME NEW p \in S
      PROVE  /\ A(p) \subseteq S /\ L(p) \subseteq S /\ A(p) \cap L(p) = {}
             /\ p \in L(p) /\ p \notin A(p)
             /\ IsFiniteSet(A(p)) /\ IsFiniteSet(L(p))
             /\ Cardinality(A(p)) \in Nat /\ Cardinality(L(p)) \in Nat
  <2>1. /\ A(p) \subseteq S /\ L(p) \subseteq S /\ A(p) \cap L(p) = {}
    BY DEF Ahead, Level
  <2>2. ~ Outranks(bids[p], bids[p])
    BY DEF Outranks, Scored
  <2>3. p \in L(p) /\ p \notin A(p)
    BY <2>2 DEF Ahead, Level
  <2> QED
    BY <2>1, <2>3, FS_Subset, FS_CardinalityType
<1>3. /\ V \subseteq S /\ IsFiniteSet(V)
      /\ Cardinality(V) \in Nat /\ Cardinality(S) \in Nat
      /\ Cardinality(V) = IF Cardinality(S) < k THEN Cardinality(S) ELSE k
      /\ \A v \in V : \A q \in S \ V : ~ Outranks(bids[q], bids[v])
  BY FS_Subset, FS_CardinalityType DEF Best
<1>4. ASSUME NEW p \in S, left(p) > 0, ~ (Cardinality(L(p)) <= left(p))
      PROVE  Draw(seed, L(p), left(p)) = V \cap L(p)
  <2> DEFINE c == left(p)
             T == L(p)
  <2>1. T \subseteq S /\ Cardinality(T) \in Nat /\ c \in Int /\ c > 0
        /\ ~ (Cardinality(T) <= c)
    BY <1>2, <1>4
  <2>2. T \in SUBSET Bidders
    BY <2>1
  <2> HIDE DEF c, T
  <2>3. Draw(seed, T, c) = W \cap T
    BY <2>1, <2>2, DrawFavours
  <2>4. W \cap T = V \cap T
    BY <2>1
  <2> QED
    BY <2>3, <2>4 DEF c, T
<1> HIDE DEF seed, A, L, left
<1>5. ASSUME NEW p \in V
      PROVE  left(p) > 0 /\ p \in Draw(seed, L(p), left(p))
  <2>1. p \in S /\ A(p) \subseteq V \ {p}
    BY <1>2, <1>3, <1>5 DEF A, Ahead
  <2>2. Cardinality(A(p)) <= Cardinality(V \ {p})
        /\ Cardinality(V \ {p}) = Cardinality(V) - 1
    BY <1>3, <2>1, FS_Subset, FS_RemoveElement
  <2>3. left(p) > 0
    BY <1>2, <1>3, <2>1, <2>2 DEF left
  <2>4. CASE Cardinality(L(p)) <= left(p)
    BY <1>2, <2>1, <2>3, <2>4 DEF Draw
  <2>5. CASE ~ (Cardinality(L(p)) <= left(p))
    BY <1>2, <1>4, <1>5, <2>1, <2>3, <2>5
  <2> QED
    BY <2>3, <2>4, <2>5
<1>6. ASSUME NEW p \in S, left(p) > 0, p \in Draw(seed, L(p), left(p)), p \notin V
      PROVE  FALSE
  <2>1. V \subseteq A(p) \cup L(p)
    BY <1>3, <1>6 DEF A, L, Ahead, Level
  <2>2. Cardinality(L(p)) <= left(p)
    BY <1>4, <1>6
  <2>3. Cardinality(A(p) \cup L(p)) = Cardinality(A(p)) + Cardinality(L(p))
        /\ IsFiniteSet(A(p) \cup L(p))
    <3>1. /\ A(p) \cap L(p) = {} /\ IsFiniteSet(A(p)) /\ IsFiniteSet(L(p))
          /\ Cardinality({}) = 0
          /\ Cardinality(A(p)) \in Nat /\ Cardinality(L(p)) \in Nat
      BY <1>2, <1>6, FS_EmptySet
    <3> DEFINE X == A(p)
               Y == L(p)
    <3> HIDE DEF X, Y
    <3>2. /\ IsFiniteSet(X \cup Y)
          /\ Cardinality(X \cup Y) = Cardinality(X) + Cardinality(Y) - Cardinality(X \cap Y)
      BY <3>1, FS_Union DEF X, Y
    <3> QED
      BY <3>1, <3>2 DEF X, Y
  <2>4. V \subseteq (A(p) \cup L(p)) \ {p}
    BY <1>6, <2>1
  <2>5. Cardinality(V) <= Cardinality((A(p) \cup L(p)) \ {p})
        /\ Cardinality((A(p) \cup L(p)) \ {p}) = Cardinality(A(p) \cup L(p)) - 1
    BY <1>2, <1>6, <2>3, <2>4, FS_Subset, FS_RemoveElement
  <2>6. Cardinality(V) < k
    BY <1>2, <1>3, <1>6, <2>2, <2>3, <2>5 DEF left
  <2>7. Cardinality(V) = Cardinality(S)
    BY <1>3, <2>6
  <2>8. V = S
    BY <1>3, <2>7, FS_Subset
  <2> QED
    BY <1>6, <2>8
<1>7. {p \in S : left(p) > 0 /\ p \in Draw(seed, L(p), left(p))} = V
  BY <1>3, <1>5, <1>6
<1> QED
  BY <1>1, <1>7 DEF seed, A, L, left

-----------------------------------------------------------------------------
(* A bid auction *)

IsBid(b) == b.amount \in Int /\ b.attendance \in Int

\* W are n winners, the best that both sides have.
BestWinners(W) ==
  /\ Cardinality(W) = n /\ W \subseteq DOMAIN bids
  /\ Best(W \cap Mains, Mains, n)
  /\ Best(W \ Mains, DOMAIN bids \ Mains, n - Cardinality(W \cap Mains))

\* What holds of a bid auction: which call runs and how far it got, that the
\* mains are all in when the alts are picked, and at the end that both sides
\* gave their best.
BidInv ==
  bids # NoBids =>
    /\ DOMAIN bids \subseteq Bidders /\ \A p \in DOMAIN bids : IsBid(bids[p])
    /\ n \in Nat /\ n >= 1 /\ n <= Cardinality(DOMAIN bids)
    /\ phase \in {"main", "alt", "done"}
    /\ phase = "main" => LoopAt(Mains, top, pool)
    /\ phase = "alt" =>
         /\ LoopAt(DOMAIN bids \ Mains, top, pool)
         /\ result \in Seq(Mains) /\ Range(result) = Mains
         /\ Len(result) = Cardinality(Mains) /\ Len(result) < n
    /\ phase = "done" => Len(result) = n /\ BestWinners(Range(result))

-----------------------------------------------------------------------------
(* A roll *)

\* The state of a roll between two rounds: nobody left out rolled higher than
\* a winner, nor than somebody who still rolls, and after the first round only
\* equals roll.
RollInv ==
  bids = NoBids =>
    /\ DOMAIN rolls \subseteq Rollers /\ rolls \in [DOMAIN rolls -> Int]
    /\ n \in Nat /\ n >= 1
    /\ phase \in {"loop", "draw", "done"}
    /\ winners \subseteq DOMAIN rolls
    /\ \A w \in winners : \A q \in DOMAIN rolls \ winners : rolls[q] <= rolls[w]
    /\ phase = "done" =>
         \/ Cardinality(winners) = n
         \/ winners = DOMAIN rolls /\ Cardinality(winners) < n
    /\ phase # "done" =>
         /\ open \in Nat /\ open >= 1 /\ Cardinality(winners) + open = n
         /\ DOMAIN field \subseteq DOMAIN rolls \ winners
         /\ Cardinality(DOMAIN field) > open
         /\ \A p \in DOMAIN field : field[p] \in 1 .. MaxRoll
         /\ \A p \in DOMAIN field : \A q \in DOMAIN rolls \ (winners \cup DOMAIN field) :
              rolls[q] <= rolls[p]
         /\ \/ phase = "loop" /\ field = rolls
            \/ \A p, q \in DOMAIN field : rolls[p] = rolls[q]

\* The cut: those over it are fewer than the slots, with those at it they are
\* enough, and those at it rolled the same.
LEMMA TheCut ==
  ASSUME IsFiniteSet(DOMAIN field), \A p \in DOMAIN field : field[p] \in 1 .. MaxRoll,
         open \in Nat, open >= 1, Cardinality(DOMAIN field) > open, MaxRoll \in Nat
  PROVE  /\ OverCut \subseteq DOMAIN field /\ AtCut \subseteq DOMAIN field
         /\ OverCut \cap AtCut = {}
         /\ IsFiniteSet(OverCut) /\ IsFiniteSet(AtCut)
         /\ Cardinality(OverCut) \in Nat /\ Cardinality(AtCut) \in Nat
         /\ Cardinality(OverCut) < open
         /\ Cardinality(OverCut) + Cardinality(AtCut) >= open
         /\ \A p, q \in AtCut : field[p] = field[q]
         /\ \A p \in OverCut \cup AtCut : \A q \in DOMAIN field :
              field[q] > field[p] => q \in OverCut
<1> DEFINE D == DOMAIN field
           A(p) == Above(field, p)
           B(p) == Above(field, p) \cup SameRolls(field, p)
<1>1. \A p \in D : A(p) = {q \in D : field[q] > field[p]}
                   /\ B(p) = {q \in D : field[q] >= field[p]}
  BY DEF Above, HigherRolls, SameRolls
<1>2. /\ OverCut = {p \in D : Cardinality(B(p)) < open}
      /\ AtCut = {p \in D : Cardinality(A(p)) < open /\ Cardinality(B(p)) >= open}
      /\ IsFiniteSet(D) /\ Cardinality(D) > open
      /\ \A p \in D : field[p] \in 1 .. MaxRoll
  BY DEF OverCut, AtCut
<1> HIDE DEF D, A, B
<1>3. \A p \in D : /\ A(p) \subseteq D /\ B(p) \subseteq D
                   /\ IsFiniteSet(A(p)) /\ IsFiniteSet(B(p))
                   /\ Cardinality(A(p)) \in Nat /\ Cardinality(B(p)) \in Nat
  <2>1. \A p \in D : A(p) \in SUBSET D /\ B(p) \in SUBSET D
    BY <1>1
  <2> QED
    BY <1>2, <2>1, FS_Subset, FS_CardinalityType
<1>4. /\ OverCut \subseteq D /\ AtCut \subseteq D /\ OverCut \cap AtCut = {}
      /\ IsFiniteSet(OverCut) /\ IsFiniteSet(AtCut)
      /\ Cardinality(OverCut) \in Nat /\ Cardinality(AtCut) \in Nat
  <2>1. OverCut \in SUBSET D /\ AtCut \in SUBSET D
    BY <1>2
  <2>2. OverCut \cap AtCut = {}
    BY <1>2, <1>3
  <2> QED
    BY <1>2, <2>1, <2>2, FS_Subset, FS_CardinalityType
<1>5. ASSUME NEW p \in OverCut \cup AtCut, NEW q \in D, field[q] > field[p]
      PROVE  q \in OverCut
  <2>1. p \in D /\ Cardinality(A(p)) < open
    <3>1. CASE p \in AtCut
      BY <1>2, <3>1
    <3>2. CASE p \in OverCut
      <4>1. p \in D /\ A(p) \subseteq B(p) /\ Cardinality(B(p)) < open
        BY <1>1, <1>2, <3>2
      <4>2. Cardinality(A(p)) <= Cardinality(B(p))
        BY <1>3, <4>1, FS_Subset
      <4> QED
        BY <1>3, <4>1, <4>2
    <3> QED
      BY <1>5, <3>1, <3>2
  <2>2. B(q) \subseteq A(p)
    BY <1>1, <1>2, <1>5, <2>1
  <2>3. Cardinality(B(q)) <= Cardinality(A(p))
    BY <1>3, <2>1, <2>2, FS_Subset
  <2> QED
    BY <1>2, <1>3, <1>5, <2>1, <2>3
<1>6. ASSUME NEW p \in AtCut, NEW q \in AtCut PROVE field[p] = field[q]
  <2>1. ~ (field[q] > field[p]) /\ ~ (field[p] > field[q])
    BY <1>4, <1>5
  <2> QED
    BY <1>2, <1>4, <2>1
<1>7. Cardinality(OverCut) < open
  <2>1. CASE OverCut = {}
    BY <2>1, FS_EmptySet
  <2>2. CASE OverCut # {}
    <3> DEFINE V == {field[p] : p \in OverCut}
    <3>1. V \in SUBSET Nat /\ V # {}
      BY <1>2, <1>4, <2>2
    <3> HIDE DEF V
    <3>2. PICK m \in V : \A k \in V : m <= k
      BY <3>1, LeastNumber
    <3>3. PICK p \in OverCut : \A q \in OverCut : field[p] <= field[q]
      BY <3>2 DEF V
    <3>4. OverCut \subseteq B(p) /\ p \in D
      BY <1>1, <1>2, <1>4, <3>3
    <3>5. Cardinality(OverCut) <= Cardinality(B(p))
      BY <1>3, <3>4, FS_Subset
    <3> QED
      BY <1>2, <1>3, <1>4, <3>3, <3>4, <3>5
  <2> QED
    BY <2>1, <2>2
<1>8. PICK p \in D \ OverCut : \A q \in D \ OverCut : field[q] <= field[p]
  <2> DEFINE V == {MaxRoll - field[x] : x \in D \ OverCut}
  <2>1. D \ OverCut # {}
    <3>1. D # OverCut
      BY <1>2, <1>4, <1>7
    <3> QED
      BY <1>4, <3>1
  <2>2. V \in SUBSET Nat /\ V # {}
    BY <1>2, <2>1
  <2> HIDE DEF V
  <2>3. PICK m \in V : \A k \in V : m <= k
    BY <2>2, LeastNumber
  <2>4. PICK x \in D \ OverCut : m = MaxRoll - field[x]
    BY <2>3 DEF V
  <2>5. ASSUME NEW y \in D \ OverCut PROVE field[y] <= field[x]
    <3>1. m <= MaxRoll - field[y]
      BY <2>3 DEF V
    <3>2. field[x] \in Int /\ field[y] \in Int
      BY <1>2
    <3> QED
      BY <2>4, <3>1, <3>2
  <2> QED
    BY <2>5
<1>9. Cardinality(B(p)) >= open
  BY <1>2, <1>3, <1>8
<1>10. B(p) \subseteq OverCut \cup AtCut
  <2>1. A(p) \subseteq OverCut
    BY <1>1, <1>2, <1>8
  <2>2. Cardinality(A(p)) <= Cardinality(OverCut)
    BY <1>4, <2>1, FS_Subset
  <2>3. p \in AtCut
    BY <1>2, <1>3, <1>4, <1>7, <1>8, <1>9, <2>2
  <2>4. ASSUME NEW q \in B(p), ~ (field[q] > field[p]) PROVE q \in AtCut
    <3>1. q \in D /\ field[q] = field[p]
      BY <1>1, <1>2, <1>8, <2>4
    <3>2. A(q) = A(p) /\ B(q) = B(p)
      BY <1>1, <1>8, <3>1
    <3> QED
      BY <1>2, <2>3, <3>1, <3>2
  <2> QED
    BY <1>1, <1>8, <2>1, <2>4
<1>11. Cardinality(OverCut) + Cardinality(AtCut) >= open
  <2>1. /\ Cardinality(OverCut \cap AtCut) = 0
        /\ IsFiniteSet(OverCut \cup AtCut)
        /\ Cardinality(OverCut \cup AtCut)
             = Cardinality(OverCut) + Cardinality(AtCut) - Cardinality(OverCut \cap AtCut)
    BY <1>4, FS_EmptySet, FS_Union
  <2>2. Cardinality(B(p)) <= Cardinality(OverCut \cup AtCut)
    BY <1>10, <2>1, FS_Subset
  <2> QED
    BY <1>3, <1>4, <1>8, <1>9, <2>1, <2>2
<1> QED
  BY <1>4, <1>5, <1>6, <1>7, <1>11 DEF D

\* When the ties fall for the winners, the set of Winners is the one the
\* rounds leave.
LEMMA RollIsBest ==
  ASSUME NEW W, NEW D, NEW f \in [D -> Int], IsFiniteSet(D), D \subseteq Rollers,
         IsFiniteSet(Rollers), NEW k \in Nat,
         W \subseteq D,
         \A w \in W : \A q \in D \ W : f[q] <= f[w],
         Cardinality(W) = k \/ (W = D /\ Cardinality(W) < k)
  PROVE  RollWinners(f, k, Favouring(W, Rollers)) = W
<1> DEFINE A(p) == HigherRolls(f, p)
           L(p) == SameRolls(f, p)
           left(p) == k - Cardinality(A(p))
           seed == Favouring(W, Rollers)
<1>1. RollWinners(f, k, seed) = {p \in D : left(p) > 0 /\ p \in Draw(seed, L(p), left(p))}
  BY DEF RollWinners
<1>2. ASSUME NEW p \in D
      PROVE  /\ A(p) \subseteq D /\ L(p) \subseteq D /\ A(p) \cap L(p) = {}
             /\ p \in L(p) /\ p \notin A(p)
             /\ IsFiniteSet(A(p)) /\ IsFiniteSet(L(p))
             /\ Cardinality(A(p)) \in Nat /\ Cardinality(L(p)) \in Nat
  <2>1. /\ A(p) \subseteq D /\ L(p) \subseteq D /\ A(p) \cap L(p) = {}
        /\ p \in L(p) /\ p \notin A(p)
    BY DEF HigherRolls, SameRolls
  <2> QED
    BY <2>1, FS_Subset, FS_CardinalityType
<1>3. IsFiniteSet(W) /\ Cardinality(W) \in Nat /\ Cardinality(W) <= k
  BY FS_Subset, FS_CardinalityType
<1>4. ASSUME NEW p \in D, left(p) > 0, ~ (Cardinality(L(p)) <= left(p))
      PROVE  Draw(seed, L(p), left(p)) = W \cap L(p)
  <2> DEFINE c == left(p)
             T == L(p)
  <2>1. T \subseteq D /\ Cardinality(T) \in Nat /\ c \in Int /\ c > 0
        /\ ~ (Cardinality(T) <= c)
    BY <1>2, <1>4
  <2>2. T \in SUBSET Rollers
    BY <2>1
  <2> HIDE DEF c, T
  <2>3. Draw(seed, T, c) = W \cap T
    BY <2>1, <2>2, DrawFavours
  <2> QED
    BY <2>3 DEF c, T
<1>5. \A p \in D : A(p) = {q \in D : f[q] > f[p]} /\ L(p) = {q \in D : f[q] = f[p]}
  BY DEF HigherRolls, SameRolls
<1> HIDE DEF seed, A, L
<1>6. ASSUME NEW p \in W
      PROVE  left(p) > 0 /\ p \in Draw(seed, L(p), left(p))
  <2>1. p \in D /\ A(p) \subseteq W \ {p}
    BY <1>5, <1>6
  <2>2. Cardinality(A(p)) <= Cardinality(W \ {p})
        /\ Cardinality(W \ {p}) = Cardinality(W) - 1
    BY <1>3, <2>1, FS_Subset, FS_RemoveElement
  <2>3. left(p) > 0
    BY <1>2, <1>3, <2>1, <2>2
  <2> HIDE DEF left
  <2>4. CASE Cardinality(L(p)) <= left(p)
    BY <1>2, <2>1, <2>3, <2>4 DEF Draw
  <2>5. CASE ~ (Cardinality(L(p)) <= left(p))
    BY <1>2, <1>4, <1>6, <2>1, <2>3, <2>5
  <2> QED
    BY <2>3, <2>4, <2>5
<1>7. ASSUME NEW p \in D, left(p) > 0, p \in Draw(seed, L(p), left(p)), p \notin W
      PROVE  FALSE
  <2>1. W \subseteq A(p) \cup L(p)
    BY <1>5, <1>7
  <2>2. Cardinality(L(p)) <= left(p)
    BY <1>4, <1>7
  <2> DEFINE X == A(p)
             Y == L(p)
  <2>3. /\ IsFiniteSet(X) /\ IsFiniteSet(Y) /\ Cardinality(X \cap Y) = 0
        /\ Cardinality(X) \in Nat /\ Cardinality(Y) \in Nat /\ p \in Y
        /\ W \subseteq (X \cup Y) \ {p}
        /\ Cardinality(Y) <= k - Cardinality(X)
    BY <1>2, <1>7, <2>1, <2>2, FS_EmptySet
  <2> HIDE DEF X, Y
  <2>4. IsFiniteSet(X \cup Y) /\ Cardinality(X \cup Y) = Cardinality(X) + Cardinality(Y)
    <3>1. /\ IsFiniteSet(X \cup Y)
          /\ Cardinality(X \cup Y) = Cardinality(X) + Cardinality(Y) - Cardinality(X \cap Y)
      BY <2>3, FS_Union
    <3> QED
      BY <2>3, <3>1
  <2>5. Cardinality(W) <= Cardinality((X \cup Y) \ {p})
        /\ Cardinality((X \cup Y) \ {p}) = Cardinality(X \cup Y) - 1
    BY <2>3, <2>4, FS_Subset, FS_RemoveElement
  <2>6. Cardinality(W) < k
    BY <1>3, <2>3, <2>4, <2>5
  <2> QED
    BY <1>3, <1>7, <2>6
<1> HIDE DEF left
<1>8. {p \in D : left(p) > 0 /\ p \in Draw(seed, L(p), left(p))} = W
  BY <1>6, <1>7
<1> QED
  BY <1>1, <1>8 DEF seed, A, L, left

-----------------------------------------------------------------------------
(* The invariant of a bid auction *)

\* Both sides of the field are finite and every bid in them can be compared.
LEMMA BidFacts ==
  ASSUME BidInv, bids # NoBids
  PROVE  /\ Cardinality(DOMAIN bids) \in Nat /\ Mains \subseteq DOMAIN bids
         /\ IsFiniteSet(Mains) /\ IsFiniteSet(DOMAIN bids \ Mains)
         /\ Scored(Mains) /\ Scored(DOMAIN bids \ Mains) /\ Scored(DOMAIN bids)
         /\ Cardinality(Mains) \in Nat /\ Cardinality(DOMAIN bids \ Mains) \in Nat
         /\ Cardinality(DOMAIN bids) = Cardinality(Mains) + Cardinality(DOMAIN bids \ Mains)
         /\ n \in Nat /\ n >= 1 /\ n <= Cardinality(DOMAIN bids)
<1> DEFINE D == DOMAIN bids
           M == Mains
<1>1. /\ D \subseteq Bidders /\ M \subseteq D
      /\ \A p \in D : IsBid(bids[p])
      /\ n \in Nat /\ n >= 1 /\ n <= Cardinality(D)
  BY DEF BidInv, Mains, MainBidders
<1> HIDE DEF D, M
<1>2. IsFiniteSet(D) /\ IsFiniteSet(M)
  BY <1>1, BidsAssumption, FS_Subset
<1>3. /\ IsFiniteSet(D \ M)
      /\ Cardinality(D \ M) = Cardinality(D) - Cardinality(D \cap M)
      /\ D \cap M = M
  BY <1>1, <1>2, FS_Difference
<1>4. Cardinality(D) \in Nat /\ Cardinality(M) \in Nat /\ Cardinality(D \ M) \in Nat
  BY <1>2, <1>3, FS_CardinalityType
<1>5. Cardinality(D) = Cardinality(M) + Cardinality(D \ M)
  <2>1. Cardinality(D \cap M) = Cardinality(M)
    BY <1>3
  <2> QED
    BY <1>3, <1>4, <2>1
<1>6. Scored(M) /\ Scored(D \ M) /\ Scored(D)
  BY <1>1 DEF Scored, IsBid
<1>7. M \subseteq D /\ n \in Nat /\ n >= 1 /\ n <= Cardinality(D)
  BY <1>1
<1>8. IsFiniteSet(M) /\ IsFiniteSet(D \ M)
  BY <1>2, <1>3
<1> QED
  BY <1>4, <1>5, <1>6, <1>7, <1>8 DEF D, M

\* Initially the loop over the mains has not begun.
LEMMA BidStarts == Init => BidInv
<1> SUFFICES ASSUME Init, bids # NoBids PROVE BidInv
  BY DEF BidInv
<1>1. BidInit
  BY DEF Init, RollInit
<1>2. PICK S \in (SUBSET Bidders) \ {{}} :
        bids \in [S -> [amount : Amounts, main : BOOLEAN, attendance : Attendances]]
  BY <1>1 DEF BidInit
<1>3. DOMAIN bids \subseteq Bidders /\ \A p \in DOMAIN bids : IsBid(bids[p])
  BY <1>2, BidsAssumption DEF IsBid
<1>4. n \in Nat /\ n >= 1 /\ n <= Cardinality(DOMAIN bids) /\ phase = "main"
  BY <1>1, RollsAssumption DEF BidInit
<1>5. LoopAt(Mains, top, pool)
  <2>1. LoopAt(Mains, <<>>, Pool(Mains, n))
    BY <1>4, LoopStarts
  <2> QED
    BY <1>1, <2>1 DEF BidInit
<1> QED
  BY <1>3, <1>4, <1>5 DEF BidInv

\* Each pick of the loop that runs.
LEMMA BidPick ==
  ASSUME BidInv, bids # NoBids, Pick
  PROVE  BidInv'
<1>1. /\ n' = n /\ phase' = phase /\ bids' = bids /\ lock' = lock /\ over' = over
      /\ result' = result
      /\ phase \in {"main", "alt"}
  BY DEF Pick, Picking, bidArgs
<1>2. Mains' = Mains
  BY <1>1 DEF Mains
<1>3. /\ IsFiniteSet(Mains) /\ IsFiniteSet(DOMAIN bids \ Mains)
      /\ Scored(Mains) /\ Scored(DOMAIN bids \ Mains)
      /\ n \in Nat /\ n >= 1 /\ n <= Cardinality(DOMAIN bids)
  BY BidFacts
<1>4. /\ DOMAIN bids \subseteq Bidders /\ \A p \in DOMAIN bids : IsBid(bids[p])
      /\ phase = "main" => LoopAt(Mains, top, pool)
      /\ phase = "alt" =>
           /\ LoopAt(DOMAIN bids \ Mains, top, pool)
           /\ result \in Seq(Mains) /\ Range(result) = Mains
           /\ Len(result) = Cardinality(Mains) /\ Len(result) < n
  BY DEF BidInv
<1>5. ASSUME NEW S, IsFiniteSet(S), Scored(S), LoopAt(S, top, pool)
      PROVE  LoopAt(S, top', pool')
  BY <1>3, <1>5, LoopPicks
<1>6. phase' = "main" => LoopAt(Mains, top, pool)'
  <2>1. phase' = "main" => LoopAt(Mains, top', pool')
    BY <1>1, <1>3, <1>4, <1>5
  <2> QED
    BY <1>1, <1>2, <2>1 DEF LoopAt, Pool
<1>7. phase' = "alt" => LoopAt(DOMAIN bids \ Mains, top, pool)'
  <2>1. phase' = "alt" => LoopAt(DOMAIN bids \ Mains, top', pool')
    BY <1>1, <1>3, <1>4, <1>5
  <2> QED
    BY <1>1, <1>2, <2>1 DEF LoopAt, Pool
<1> QED
  BY <1>1, <1>2, <1>3, <1>4, <1>6, <1>7 DEF BidInv, IsBid

\* The loop over the mains ends: they are all in, or they take everything.
LEMMA BidFill ==
  ASSUME BidInv, bids # NoBids, Fill
  PROVE  BidInv'
<1> DEFINE D == DOMAIN bids
           M == Mains
           m == Len(top)
           O == D \ M
<1>1. /\ n' = n /\ bids' = bids /\ lock' = lock /\ over' = over
      /\ result' = top /\ top' = <<>>
      /\ phase = "main" /\ ~ (m < n /\ pool # {})
      /\ m < n => phase' = "alt" /\ pool' = Pool(O, n)
      /\ ~ (m < n) => phase' = "done"
      /\ LoopAt(M, top, pool)
      /\ D \subseteq Bidders /\ \A p \in D : IsBid(bids[p])
  BY DEF Fill, Picking, bidArgs, BidInv
<1>2. M' = M /\ D' = D /\ O' = O
  BY <1>1 DEF Mains
<1>3. /\ IsFiniteSet(M) /\ Scored(M) /\ M \subseteq D
      /\ n \in Nat /\ n >= 1 /\ n <= Cardinality(D) /\ Cardinality(M) \in Nat
      /\ IsFiniteSet(O) /\ Cardinality(O) \in Nat
  BY BidFacts
<1>4. /\ m = IF Cardinality(M) < n THEN Cardinality(M) ELSE n
      /\ \A k \in 0 .. n : Best(FirstOf(top, IF k < m THEN k ELSE m), M, k)
  BY <1>1, <1>3, LoopEnds
<1>5. top \in Seq(M) /\ Range(top) = FirstOf(top, m) /\ m \in Nat
  BY <1>1, FirstOfSeq DEF LoopAt
<1>6. /\ FirstOf(top, m) \subseteq M /\ IsFiniteSet(FirstOf(top, m))
      /\ Cardinality(FirstOf(top, m)) = m
  <2>1. m \in 0 .. m
    BY <1>5
  <2> QED
    BY <1>1, <1>5, <2>1, FirstOfSeq DEF LoopAt
<1> HIDE DEF M, D, O
<1>7. CASE m < n
  <2>1. m = Cardinality(M)
    BY <1>3, <1>4, <1>7
  <2>2. Range(top) = M
    BY <1>3, <1>5, <1>6, <2>1, FS_Subset
  <2>3. LoopAt(O, <<>>, Pool(O, n))
    BY <1>3, LoopStarts
  <2>4. LoopAt(O, <<>>, pool')
    BY <1>1, <1>7, <2>3
  <2>5. LoopAt(O, top, pool)'
    BY <1>1, <1>2, <2>4 DEF LoopAt, Pool
  <2>6. /\ result' \in Seq(M) /\ Range(result') = M
        /\ Len(result') = Cardinality(M) /\ Len(result') < n
    BY <1>1, <1>5, <1>7, <2>1, <2>2
  <2>7. phase' = "alt"
    BY <1>1, <1>7
  <2> QED
    BY <1>1, <1>2, <1>3, <2>5, <2>6, <2>7 DEF BidInv, IsBid, D, M, O
<1>8. CASE ~ (m < n)
  <2> DEFINE W == FirstOf(top, m)
  <2>1. m = n
    BY <1>3, <1>4, <1>8
  <2>2. n \in 0 .. n /\ (IF n < m THEN n ELSE m) = m
    BY <1>3, <2>1
  <2>3. Best(W, M, n)
    BY <1>4, <2>2
  <2>4. W \subseteq M /\ Cardinality(W) = n /\ W = Range(top)
    BY <1>5, <1>6, <2>1
  <2> HIDE DEF W, m
  <2>5. W \cap M = W /\ W \ M = {}
    BY <2>4
  <2>6. Cardinality(W \cap M) = n
    BY <2>4, <2>5
  <2>7. n - Cardinality(W \cap M) = 0
    BY <1>3, <2>6
  <2>8. Best(W \ M, O, n - Cardinality(W \cap M))
    <3>1. Cardinality({}) = 0
      BY FS_EmptySet
    <3> QED
      BY <1>3, <2>5, <2>7, <3>1 DEF Best
  <2>9. Best(W \cap M, M, n)
    BY <2>3, <2>5
  <2>10. BestWinners(W)
    BY <1>3, <2>4, <2>8, <2>9 DEF BestWinners, D, M, O
  <2>11. W = Range(result') /\ Len(result') = n
    BY <1>1, <2>1, <2>4 DEF m
  <2>12. BestWinners(Range(result'))
    BY <2>10, <2>11
  <2>13. BestWinners(Range(result))'
    BY <1>1, <1>2, <2>12 DEF BestWinners, Best, M
  <2>14. phase' = "done"
    BY <1>1, <1>8 DEF m
  <2> QED
    BY <1>1, <1>2, <1>3, <2>11, <2>13, <2>14 DEF BidInv, IsBid, D, M, O
<1> QED
  BY <1>7, <1>8

\* The loop over the alts ends: as many of its picks as there are slots left.
LEMMA BidReturn ==
  ASSUME BidInv, bids # NoBids, Return
  PROVE  BidInv'
<1> DEFINE D == DOMAIN bids
           M == Mains
           m == Len(top)
           O == D \ M
           j == IF n - Len(result) < m THEN n - Len(result) ELSE m
           V == FirstOf(top, j)
           r == result \o SubSeq(top, 1, j)
<1>1. /\ n' = n /\ bids' = bids /\ lock' = lock /\ over' = over
      /\ result' = r /\ phase' = "done"
      /\ phase = "alt" /\ ~ (m < n /\ pool # {})
      /\ LoopAt(O, top, pool)
      /\ result \in Seq(M) /\ Range(result) = M
      /\ Len(result) = Cardinality(M) /\ Len(result) < n
      /\ D \subseteq Bidders /\ \A p \in D : IsBid(bids[p])
  BY DEF Return, Picking, bidArgs, BidInv
<1>2. M' = M /\ D' = D /\ O' = O
  BY <1>1 DEF Mains
<1>3. /\ IsFiniteSet(M) /\ M \subseteq D /\ Scored(O)
      /\ n \in Nat /\ n >= 1 /\ n <= Cardinality(D) /\ Cardinality(M) \in Nat
      /\ IsFiniteSet(O) /\ Cardinality(O) \in Nat
      /\ Cardinality(D) = Cardinality(M) + Cardinality(O)
  BY BidFacts
<1>4. /\ m = IF Cardinality(O) < n THEN Cardinality(O) ELSE n
      /\ \A k \in 0 .. n : Best(FirstOf(top, IF k < m THEN k ELSE m), O, k)
  BY <1>1, <1>3, LoopEnds
<1>5. top \in Seq(O) /\ m \in Nat
      /\ \A k \in 0 .. m : IsFiniteSet(FirstOf(top, k)) /\ Cardinality(FirstOf(top, k)) = k
  BY <1>1, FirstOfSeq DEF LoopAt
<1> HIDE DEF M, D, O, m
<1>6. j = n - Cardinality(M) /\ j \in 0 .. m /\ j \in 0 .. n
      /\ (IF j < m THEN j ELSE m) = j
  BY <1>1, <1>3, <1>4
<1> HIDE DEF j
<1>7. /\ V \subseteq O /\ IsFiniteSet(V) /\ Cardinality(V) = j
      /\ Best(V, O, j)
  BY <1>4, <1>5, <1>6, FirstOfSeq DEF m
<1>8. /\ Len(r) = Cardinality(M) + j
      /\ Range(r) = M \cup V
  <2> DEFINE s == SubSeq(top, 1, j)
             a == Len(result)
  <2>1. s \in Seq(O) /\ Len(s) = j /\ \A i \in 1 .. j : s[i] = top[i]
    <3>1. j \in Nat /\ \A i \in 1 .. j : top[i] \in O
      BY <1>5, <1>6 DEF m
    <3>2. /\ s \in Seq(O) /\ Len(s) = IF 1 <= j THEN j - 1 + 1 ELSE 0
          /\ \A i \in 1 .. j - 1 + 1 : s[i] = top[1 + i - 1]
      BY <3>1, SubSeqProperties
    <3>3. \A i \in 1 .. j : i \in 1 .. j - 1 + 1 /\ 1 + i - 1 = i
      BY <3>1
    <3> HIDE DEF s
    <3> QED
      BY <3>1, <3>2, <3>3
  <2> HIDE DEF s, a
  <2>2. result \in Seq(M \cup O) /\ s \in Seq(M \cup O) /\ r = result \o s
        /\ Len(result) = a /\ a \in Nat /\ Len(s) = j
    BY <1>1, <1>3, <2>1 DEF a, s
  <2> HIDE DEF r
  <2>3. /\ r \in Seq(M \cup O) /\ Len(r) = a + j
        /\ \A i \in 1 .. a + j : r[i] = IF i <= a THEN result[i] ELSE s[i - a]
    BY <2>2, ConcatProperties
  <2>4. /\ \A i \in 1 .. a : i \in 1 .. a + j /\ r[i] = result[i]
        /\ \A i \in 1 .. j : a + i \in 1 .. a + j /\ r[a + i] = top[i]
        /\ \A i \in 1 .. a + j : i \in 1 .. a \/ (i - a \in 1 .. j /\ r[i] = top[i - a])
    BY <1>6, <2>1, <2>2, <2>3
  <2>5. Range(result) = FirstOf(result, a) /\ Range(r) = FirstOf(r, a + j)
    BY <2>2, <2>3, FirstOfSeq
  <2>6. FirstOf(r, a + j) = FirstOf(result, a) \cup FirstOf(top, j)
    BY <2>4 DEF FirstOf
  <2> QED
    BY <1>1, <2>2, <2>3, <2>5, <2>6
<1> HIDE DEF V, r
<1>9. BestWinners(Range(result'))
  <2> DEFINE W == M \cup V
  <2>1. W \cap M = M /\ W \ M = V /\ W \subseteq D /\ M \cap V = {}
    BY <1>3, <1>7 DEF O
  <2>2. Cardinality(W) = n
    <3>1. Cardinality(M \cap V) = 0
      BY <2>1, FS_EmptySet
    <3>2. Cardinality(W) = Cardinality(M) + Cardinality(V) - Cardinality(M \cap V)
      BY <1>3, <1>7, FS_Union
    <3> QED
      BY <1>3, <1>6, <1>7, <3>1, <3>2
  <2>3. Best(M, M, n)
    BY <1>1, <1>3 DEF Best
  <2> HIDE DEF W
  <2>4. Best(W \cap M, M, n)
    BY <2>1, <2>3
  <2>5. n - Cardinality(W \cap M) = j
    BY <1>6, <2>1
  <2>6. Best(W \ M, O, n - Cardinality(W \cap M))
    BY <1>7, <2>1, <2>5
  <2>7. BestWinners(W)
    BY <2>1, <2>2, <2>4, <2>6 DEF BestWinners, D, M, O
  <2> QED
    BY <1>1, <1>8, <2>7 DEF W
<1>10. BestWinners(Range(result))'
  BY <1>1, <1>2, <1>9 DEF BestWinners, Best, M
<1>11. Len(result') = n
  BY <1>1, <1>3, <1>6, <1>8
<1> QED
  BY <1>1, <1>2, <1>3, <1>10, <1>11 DEF BidInv, IsBid, D

\* Every step keeps it.
LEMMA BidNext == BidInv /\ [Next]_vars => BidInv'
<1> SUFFICES ASSUME BidInv, [Next]_vars PROVE BidInv'
  OBVIOUS
<1>1. bids' = bids
  BY DEF Next, Pick, Fill, Return, Settle, RollOff, GiveUp, DrawOne, vars,
         bidVars, bidArgs
<1>2. CASE bids = NoBids
  <2>1. bids' = NoBids'
    BY <1>1, <1>2 DEF NoBids
  <2> QED
    BY <2>1 DEF BidInv
<1>3. CASE bids # NoBids
  <2>1. phase \in {"main", "alt", "done"}
    BY <1>3 DEF BidInv
  <2>2. CASE Pick
    BY <1>3, <2>2, BidPick
  <2>3. CASE Fill
    BY <1>3, <2>3, BidFill
  <2>4. CASE Return
    BY <1>3, <2>4, BidReturn
  <2>5. CASE Settle \/ RollOff \/ GiveUp \/ DrawOne
    BY <2>1, <2>5 DEF Settle, RollOff, GiveUp, DrawOne
  <2>6. CASE UNCHANGED vars
    <3>1. /\ n' = n /\ phase' = phase /\ lock' = lock /\ over' = over /\ bids' = bids
          /\ pool' = pool /\ top' = top /\ result' = result
      BY <2>6 DEF vars, bidVars, bidArgs
    <3>2. Mains' = Mains
      BY <3>1 DEF Mains
    <3>3. /\ LoopAt(Mains, top, pool)' <=> LoopAt(Mains, top, pool)
          /\ LoopAt(DOMAIN bids \ Mains, top, pool)' <=> LoopAt(DOMAIN bids \ Mains, top, pool)
      BY <3>1, <3>2 DEF LoopAt, Pool
    <3>4. BestWinners(Range(result))' <=> BestWinners(Range(result))
      BY <3>1, <3>2 DEF BestWinners, Best
    <3> QED
      BY <1>3, <3>1, <3>2, <3>3, <3>4 DEF BidInv, IsBid
  <2> QED
    BY <2>2, <2>3, <2>4, <2>5, <2>6 DEF Next
<1> QED
  BY <1>2, <1>3

-----------------------------------------------------------------------------
(* What a bid auction comes to *)

\* Auctions by bid, whatever the bids: the loop over the pool ends with n
\* different winners, and they are the winners the sets of module Winners give
\* when the ties fall the same way (winners and top_bids).
THEOREM LoopPicksTheWinners == Spec => []PicksAreWinners
<1>1. BidInv => PicksAreWinners
  <2> SUFFICES ASSUME BidInv, Chosen
               PROVE  /\ BidWinners(bids, n, lock, over, Favouring(Range(result), Bidders))
                           = Range(result)
                      /\ Cardinality(Range(result)) = Len(result)
    BY DEF PicksAreWinners
  <2> DEFINE W == Range(result)
             D == DOMAIN bids
             M == Mains
             O == D \ M
             A == W \cap M
             B == W \ M
             c == Cardinality(A)
             seed == Favouring(W, Bidders)
  <2>1. /\ bids # NoBids /\ Len(result) = n /\ Cardinality(W) = n /\ W \subseteq D
        /\ Best(A, M, n) /\ Best(B, O, n - c) /\ D \subseteq Bidders
    BY DEF Chosen, BidInv, BestWinners
  <2>2. /\ M \subseteq D /\ IsFiniteSet(M) /\ IsFiniteSet(O)
        /\ Scored(M) /\ Scored(O) /\ n \in Nat
    BY <2>1, BidFacts
  <2> HIDE DEF W, D, M, O
  <2>3. IsFiniteSet(Bidders) /\ IsFiniteSet(W)
    BY <2>1, BidsAssumption, FS_Subset
  <2>4. c \in Nat /\ c <= n /\ (c = n => A = W)
    <3>1. A \in SUBSET W
      OBVIOUS
    <3> QED
      BY <2>1, <2>3, <3>1, FS_Subset, FS_CardinalityType
  <2>5. M \subseteq Bidders /\ O \subseteq Bidders /\ A = W \cap M /\ B = W \cap O
        /\ W = A \cup B
    BY <2>1, <2>2 DEF O
  <2> HIDE DEF A, B
  <2>6. TopBids(bids, M, n, seed) = A
    BY <2>1, <2>2, <2>3, <2>5, TopIsBest
  <2>7. TopBids(bids, O, n - c, seed) = B
    <3>1. n - c \in Nat
      BY <2>2, <2>4
    <3> QED
      BY <2>1, <2>2, <2>3, <2>5, <3>1, TopIsBest
  <2>8. BidWinners(bids, n, lock, over, seed) =
          IF c >= n THEN A ELSE A \cup B
    BY <2>6, <2>7 DEF BidWinners, Mains, M, D, O
  <2>9. BidWinners(bids, n, lock, over, seed) = W
    BY <2>2, <2>4, <2>5, <2>8
  <2> QED
    BY <2>1, <2>9 DEF W
<1> QED
  BY <1>1, BidStarts, BidNext, PTL DEF Spec

\* Every item goes to somebody, and nobody who loses stands before somebody
\* who wins: no main behind an alt, and between equals the amount decides,
\* then attendance.
THEOREM LosersAlwaysTreatedFairly == Spec => []FairToLosers
<1>1. BidInv => FairToLosers
  <2> SUFFICES ASSUME BidInv, Chosen
               PROVE  /\ Len(result) = n
                      /\ \A w \in Range(result), l \in DOMAIN bids \ Range(result) :
                           ~ Beats(l, w)
    BY DEF FairToLosers
  <2> DEFINE W == Range(result)
             D == DOMAIN bids
             M == Mains
             O == D \ M
             A == W \cap M
             B == W \ M
  <2>1. /\ bids # NoBids /\ Len(result) = n /\ Cardinality(W) = n /\ W \subseteq D
        /\ Best(A, M, n) /\ Best(B, O, n - Cardinality(A)) /\ D \subseteq Bidders
    BY DEF Chosen, BidInv, BestWinners
  <2>2. /\ M \subseteq D /\ IsFiniteSet(M) /\ n \in Nat /\ Cardinality(M) \in Nat
    BY <2>1, BidFacts
  <2>3. IsFiniteSet(W)
    <3> HIDE DEF W, D
    <3> QED
      BY <2>1, BidsAssumption, FS_Subset
  <2> HIDE DEF W, D, M
  <2>4. ASSUME NEW w \in W, NEW l \in D \ W PROVE ~ Beats(l, w)
    <3>1. CASE l \in M /\ w \notin M
      <4>1. A # M /\ A \in SUBSET M /\ A \in SUBSET W
        BY <3>1, <2>4
      <4>2. Cardinality(A) # Cardinality(M)
        BY <2>2, <4>1, FS_Subset
      <4>3. Cardinality(A) = n
        BY <2>1, <4>2 DEF Best
      <4>4. A = W
        BY <2>1, <2>3, <4>1, <4>3, FS_Subset
      <4> QED
        BY <2>4, <3>1, <4>4
    <3>2. CASE l \in M /\ w \in M
      <4>1. ~ Outranks(bids[l], bids[w])
        BY <2>1, <2>4, <3>2 DEF Best
      <4> QED
        BY <3>2, <4>1 DEF Beats, M
    <3>3. CASE l \notin M /\ w \notin M
      <4>1. ~ Outranks(bids[l], bids[w])
        BY <2>1, <2>4, <3>3 DEF Best
      <4> QED
        BY <3>3, <4>1 DEF Beats, M
    <3>4. CASE l \notin M /\ w \in M
      BY <3>4 DEF Beats, M
    <3> QED
      BY <3>1, <3>2, <3>3, <3>4
  <2> QED
    BY <2>1, <2>4 DEF W, D
<1> QED
  BY <1>1, BidStarts, BidNext, PTL DEF Spec

-----------------------------------------------------------------------------
(* The invariant of a roll *)

\* The players and the counts of a roll that goes on.
LEMMA RollFacts ==
  ASSUME RollInv, bids = NoBids
  PROVE  /\ IsFiniteSet(DOMAIN rolls) /\ IsFiniteSet(winners)
         /\ Cardinality(winners) \in Nat
         /\ phase # "done" => IsFiniteSet(DOMAIN field)
<1>1. /\ DOMAIN rolls \in SUBSET Rollers /\ winners \in SUBSET DOMAIN rolls
      /\ phase # "done" => DOMAIN field \in SUBSET DOMAIN rolls
  BY DEF RollInv
<1>2. IsFiniteSet(DOMAIN rolls)
  BY <1>1, RollsAssumption, FS_Subset
<1>3. IsFiniteSet(winners) /\ (phase # "done" => IsFiniteSet(DOMAIN field))
  BY <1>1, <1>2, FS_Subset
<1> QED
  BY <1>2, <1>3, FS_CardinalityType

\* Initially everybody rolls, or everybody wins.
LEMMA RollStarts == Init => RollInv
<1> SUFFICES ASSUME Init, bids = NoBids PROVE RollInv
  BY DEF RollInv
<1>1. RollInit
  <2>1. ASSUME BidInit PROVE FALSE
    <3>1. PICK S \in (SUBSET Bidders) \ {{}} :
            bids \in [S -> [amount : Amounts, main : BOOLEAN, attendance : Attendances]]
      BY <2>1 DEF BidInit
    <3>2. DOMAIN bids # {}
      BY <3>1
    <3> QED
      BY <3>2 DEF NoBids
  <2> QED
    BY <2>1 DEF Init
<1>2. PICK S \in SUBSET Rollers : rolls \in [S -> 1 .. MaxRoll]
  BY <1>1 DEF RollInit, Rolled
<1> DEFINE D == DOMAIN rolls
<1>3. D \subseteq Rollers /\ \A p \in D : rolls[p] \in 1 .. MaxRoll
  BY <1>2
<1>4. n \in Nat /\ n >= 1 /\ field = rolls /\ open = n
  BY <1>1, RollsAssumption DEF RollInit
<1>5. rolls \in [D -> Int] /\ \A p \in D : rolls[p] \in Int
  BY <1>2, <1>3, RollsAssumption
<1>6. IsFiniteSet(D) /\ Cardinality(D) \in Nat
  BY <1>3, RollsAssumption, FS_Subset, FS_CardinalityType
<1>7. CASE Cardinality(D) <= n
  <2>1. winners = D /\ phase = "done"
    BY <1>1, <1>7 DEF RollInit
  <2>2. Cardinality(winners) = n \/ (winners = D /\ Cardinality(winners) < n)
    BY <1>4, <1>6, <1>7, <2>1
  <2> QED
    BY <1>3, <1>4, <1>5, <2>1, <2>2 DEF RollInv
<1>8. CASE ~ (Cardinality(D) <= n)
  <2>1. winners = {} /\ phase = "loop"
    BY <1>1, <1>8 DEF RollInit
  <2>2. Cardinality({}) = 0 /\ Cardinality(winners) + open = n
    <3>1. Cardinality({}) = 0
      BY FS_EmptySet
    <3> QED
      BY <1>4, <2>1, <3>1
  <2>3. Cardinality(DOMAIN field) > open
    BY <1>4, <1>6, <1>8
  <2> QED
    BY <1>3, <1>4, <1>5, <2>1, <2>2, <2>3 DEF RollInv
<1> QED
  BY <1>7, <1>8

\* What a round does to those who still roll: those over the cut stand behind
\* nobody, those at it behind nobody else, and all of those rolled the same.
LEMMA TheRound ==
  ASSUME RollInv, bids = NoBids, phase = "loop"
  PROVE  LET D == DOMAIN rolls
             W == winners \cup OverCut
             o == open - Cardinality(OverCut)
         IN  /\ W \subseteq D /\ IsFiniteSet(W) /\ IsFiniteSet(AtCut)
             /\ AtCut \subseteq D \ W /\ AtCut \subseteq DOMAIN field
             /\ o \in Nat /\ o >= 1 /\ Cardinality(W) + o = n
             /\ Cardinality(AtCut) \in Nat /\ Cardinality(AtCut) >= o
             /\ \A w \in W : \A q \in D \ W : rolls[q] <= rolls[w]
             /\ \A p \in AtCut : \A q \in D \ (W \cup AtCut) : rolls[q] <= rolls[p]
             /\ \A p, q \in AtCut : rolls[p] = rolls[q]
<1> DEFINE D == DOMAIN rolls
           F == DOMAIN field
           O == OverCut
           C == AtCut
           W == winners \cup O
           o == open - Cardinality(O)
<1>1. /\ \A p \in D : rolls[p] \in Int
      /\ n \in Nat /\ winners \subseteq D
      /\ \A w \in winners : \A q \in D \ winners : rolls[q] <= rolls[w]
      /\ open \in Nat /\ open >= 1 /\ Cardinality(winners) + open = n
      /\ F \subseteq D \ winners
      /\ Cardinality(F) > open
      /\ \A p \in F : field[p] \in 1 .. MaxRoll
      /\ \A p \in F : \A q \in D \ (winners \cup F) : rolls[q] <= rolls[p]
      /\ field = rolls \/ \A p, q \in F : rolls[p] = rolls[q]
  BY DEF RollInv
<1>2. /\ IsFiniteSet(winners) /\ IsFiniteSet(F) /\ Cardinality(winners) \in Nat
      /\ MaxRoll \in Nat
  BY RollFacts, RollsAssumption
<1>3. /\ O \subseteq F /\ C \subseteq F /\ O \cap C = {}
      /\ IsFiniteSet(O) /\ IsFiniteSet(C)
      /\ Cardinality(O) \in Nat /\ Cardinality(C) \in Nat
      /\ Cardinality(O) < open
      /\ Cardinality(O) + Cardinality(C) >= open
      /\ \A p, q \in C : field[p] = field[q]
      /\ \A p \in O \cup C : \A q \in F : field[q] > field[p] => q \in O
  BY <1>1, <1>2, TheCut
<1> HIDE DEF D, F, O, C
<1>4. IsFiniteSet(W) /\ Cardinality(W) = Cardinality(winners) + Cardinality(O)
  <2>1. Cardinality(winners \cap O) = 0
    <3>1. winners \cap O = {} /\ Cardinality({}) = 0
      BY <1>1, <1>3, FS_EmptySet
    <3> QED
      BY <3>1
  <2>2. IsFiniteSet(W)
        /\ Cardinality(W) = Cardinality(winners) + Cardinality(O) - Cardinality(winners \cap O)
    BY <1>2, <1>3, FS_Union
  <2> QED
    BY <1>2, <1>3, <2>1, <2>2
<1>5. /\ o \in Nat /\ o >= 1 /\ Cardinality(W) + o = n /\ Cardinality(C) >= o
      /\ W \subseteq D /\ C \subseteq D \ W
  BY <1>1, <1>2, <1>3, <1>4
<1>6. ASSUME NEW p \in O \cup C, NEW q \in F \ O PROVE rolls[q] <= rolls[p]
  <2>1. p \in F /\ q \in F /\ rolls[q] \in Int /\ rolls[p] \in Int
    BY <1>1, <1>3, <1>6
  <2>2. CASE field = rolls
    <3>1. ~ (field[q] > field[p])
      BY <1>3, <1>6
    <3> QED
      BY <2>1, <2>2, <3>1
  <2>3. CASE rolls[p] = rolls[q]
    BY <2>1, <2>3
  <2> QED
    BY <1>1, <2>1, <2>2, <2>3
<1>7. ASSUME NEW w \in W, NEW q \in D \ W PROVE rolls[q] <= rolls[w]
  <2>1. CASE w \in winners
    BY <1>1, <1>7, <2>1
  <2>2. CASE w \in O /\ q \in F
    BY <1>6, <1>7, <2>2
  <2>3. CASE w \in O /\ q \notin F
    BY <1>1, <1>3, <1>7, <2>3
  <2> QED
    BY <1>7, <2>1, <2>2, <2>3
<1>8. ASSUME NEW p \in C, NEW q \in D \ (W \cup C) PROVE rolls[q] <= rolls[p]
  <2>1. CASE q \in F
    BY <1>6, <1>8, <2>1
  <2>2. CASE q \notin F
    BY <1>1, <1>3, <1>8, <2>2
  <2> QED
    BY <2>1, <2>2
<1>9. ASSUME NEW p \in C, NEW q \in C PROVE rolls[p] = rolls[q]
  BY <1>1, <1>3, <1>9
<1> QED
  BY <1>3, <1>4, <1>5, <1>7, <1>8, <1>9 DEF D, O, C, F

\* The roll ends in a round: those at the cut fit into the slots.
LEMMA RollSettle ==
  ASSUME RollInv, bids = NoBids, Settle
  PROVE  RollInv'
<1> DEFINE D == DOMAIN rolls
           C == AtCut
           W == winners \cup OverCut
           o == open - Cardinality(OverCut)
<1>1. /\ phase = "loop" /\ phase' = "done" /\ winners' = W \cup C
      /\ n' = n /\ rolls' = rolls /\ Cardinality(C) <= o
  BY DEF Settle, bidVars, bidArgs
<1>2. /\ D \subseteq Rollers /\ n \in Nat /\ n >= 1
      /\ rolls \in [D -> Int]
  BY DEF RollInv
<1>3. /\ W \subseteq D /\ IsFiniteSet(W) /\ IsFiniteSet(C) /\ C \subseteq D \ W
      /\ o \in Nat /\ Cardinality(W) + o = n
      /\ Cardinality(C) \in Nat /\ Cardinality(C) >= o
      /\ \A w \in W : \A q \in D \ W : rolls[q] <= rolls[w]
      /\ \A p \in C : \A q \in D \ (W \cup C) : rolls[q] <= rolls[p]
  BY <1>1, TheRound
<1> HIDE DEF D, C, W, o
<1>4. Cardinality(W \cup C) = n
  <2>1. Cardinality(W \cap C) = 0
    <3>1. W \cap C = {} /\ Cardinality({}) = 0
      BY <1>3, FS_EmptySet
    <3> QED
      BY <3>1
  <2>2. Cardinality(W \cup C) = Cardinality(W) + Cardinality(C) - Cardinality(W \cap C)
        /\ Cardinality(W) \in Nat
    BY <1>3, FS_Union, FS_CardinalityType
  <2> QED
    BY <1>1, <1>3, <2>1, <2>2
<1>5. W \cup C \subseteq D
      /\ \A w \in W \cup C : \A q \in D \ (W \cup C) : rolls[q] <= rolls[w]
  BY <1>3
<1> QED
  BY <1>1, <1>2, <1>4, <1>5 DEF RollInv, D

\* The tied go on: to another round, or to the draw.
LEMMA RollGoesOn ==
  ASSUME RollInv, bids = NoBids, RollOff \/ GiveUp
  PROVE  RollInv'
<1> DEFINE D == DOMAIN rolls
           C == AtCut
           W == winners \cup OverCut
           o == open - Cardinality(OverCut)
<1>1. /\ phase = "loop" /\ phase' \in {"loop", "draw"} /\ winners' = W /\ open' = o
      /\ n' = n /\ rolls' = rolls /\ Cardinality(C) > o
  BY DEF RollOff, GiveUp, bidVars, bidArgs
<1>2. /\ D \subseteq Rollers /\ n \in Nat /\ n >= 1
      /\ rolls \in [D -> Int]
      /\ \A p \in DOMAIN field : field[p] \in 1 .. MaxRoll
  BY <1>1 DEF RollInv
<1>3. /\ W \subseteq D /\ C \subseteq D \ W /\ C \subseteq DOMAIN field
      /\ o \in Nat /\ o >= 1 /\ Cardinality(W) + o = n
      /\ \A w \in W : \A q \in D \ W : rolls[q] <= rolls[w]
      /\ \A p \in C : \A q \in D \ (W \cup C) : rolls[q] <= rolls[p]
      /\ \A p, q \in C : rolls[p] = rolls[q]
  BY <1>1, TheRound
<1>4. DOMAIN field' = C /\ \A p \in C : field'[p] \in 1 .. MaxRoll
  <2>1. CASE RollOff
    BY <2>1 DEF RollOff, Rolled
  <2>2. CASE GiveUp
    BY <1>2, <1>3, <2>2 DEF GiveUp
  <2> QED
    BY <2>1, <2>2
<1> HIDE DEF D, C, W, o
<1> QED
  BY <1>1, <1>2, <1>3, <1>4 DEF RollInv, D

\* One of the tied is drawn.
LEMMA RollDraw ==
  ASSUME RollInv, bids = NoBids, DrawOne
  PROVE  RollInv'
<1> DEFINE D == DOMAIN rolls
           F == DOMAIN field
<1>1. PICK p \in F : winners' = winners \cup {p} /\ field' = [q \in F \ {p} |-> field[q]]
  BY DEF DrawOne
<1>2. /\ phase = "draw" /\ n' = n /\ rolls' = rolls /\ open' = open - 1
      /\ phase' = IF open = 1 THEN "done" ELSE "draw"
  BY DEF DrawOne, bidVars, bidArgs
<1>3. /\ D \subseteq Rollers /\ n \in Nat /\ n >= 1 /\ winners \subseteq D
      /\ rolls \in [D -> Int]
      /\ \A w \in winners : \A q \in D \ winners : rolls[q] <= rolls[w]
      /\ open \in Nat /\ open >= 1 /\ Cardinality(winners) + open = n
      /\ F \subseteq D \ winners
      /\ Cardinality(F) > open
      /\ \A q \in F : field[q] \in 1 .. MaxRoll
      /\ \A x \in F : \A q \in D \ (winners \cup F) : rolls[q] <= rolls[x]
      /\ \A x, q \in F : rolls[x] = rolls[q]
  BY <1>2 DEF RollInv
<1>4. IsFiniteSet(winners) /\ IsFiniteSet(F) /\ Cardinality(winners) \in Nat
      /\ Cardinality(F) \in Nat
  BY <1>2, RollFacts, FS_CardinalityType
<1> HIDE DEF D, F
<1>5. Cardinality(winners') = Cardinality(winners) + 1
  <2>1. p \notin winners
    BY <1>3
  <2> QED
    BY <1>1, <1>4, <2>1, FS_AddElement
<1>6. DOMAIN field' = F \ {p} /\ Cardinality(F \ {p}) = Cardinality(F) - 1
  BY <1>1, <1>4, FS_RemoveElement
<1>7. /\ winners' \subseteq D
      /\ \A w \in winners' : \A q \in D \ winners' : rolls[q] <= rolls[w]
  <2>1. ASSUME NEW q \in D \ winners' PROVE rolls[q] <= rolls[p]
    <3>1. CASE q \in F
      BY <1>3, <2>1, <3>1
    <3>2. CASE q \notin F
      BY <1>1, <1>3, <2>1, <3>2
    <3> QED
      BY <3>1, <3>2
  <2> QED
    BY <1>1, <1>3, <2>1
<1>8. CASE open = 1
  BY <1>2, <1>3, <1>4, <1>5, <1>7, <1>8 DEF RollInv, D
<1>9. CASE open # 1
  <2>1. /\ phase' = "draw" /\ open' \in Nat /\ open' >= 1
        /\ Cardinality(winners') + open' = n
        /\ Cardinality(DOMAIN field') > open'
    BY <1>2, <1>3, <1>4, <1>5, <1>6, <1>9
  <2>2. /\ DOMAIN field' \subseteq D \ winners'
        /\ \A x \in DOMAIN field' : field'[x] \in 1 .. MaxRoll
        /\ \A x, q \in DOMAIN field' : rolls[x] = rolls[q]
    BY <1>1, <1>3, <1>6
  <2>3. \A x \in DOMAIN field' : \A q \in D \ (winners' \cup DOMAIN field') :
          rolls[q] <= rolls[x]
    BY <1>1, <1>3, <1>6
  <2> QED
    BY <1>2, <1>3, <1>7, <2>1, <2>2, <2>3 DEF RollInv, D
<1> QED
  BY <1>8, <1>9

\* Every step keeps it.
LEMMA RollNext == BidInv /\ RollInv /\ [Next]_vars => RollInv'
<1> SUFFICES ASSUME BidInv, RollInv, [Next]_vars PROVE RollInv'
  OBVIOUS
<1>1. bids' = bids
  BY DEF Next, Pick, Fill, Return, Settle, RollOff, GiveUp, DrawOne, vars,
         bidVars, bidArgs
<1>2. CASE bids # NoBids
  <2>1. bids' # NoBids'
    BY <1>1, <1>2 DEF NoBids
  <2> QED
    BY <2>1 DEF RollInv
<1>3. CASE bids = NoBids
  <2>1. phase \in {"loop", "draw", "done"}
    BY <1>3 DEF RollInv
  <2>2. CASE Pick \/ Fill \/ Return
    BY <2>1, <2>2 DEF Pick, Picking, Fill, Return
  <2>3. CASE Settle
    BY <1>3, <2>3, RollSettle
  <2>4. CASE RollOff \/ GiveUp
    BY <1>3, <2>4, RollGoesOn
  <2>5. CASE DrawOne
    BY <1>3, <2>5, RollDraw
  <2>6. CASE UNCHANGED vars
    BY <1>3, <2>6 DEF vars, bidVars, bidArgs, rollVars, RollInv
  <2> QED
    BY <2>2, <2>3, <2>4, <2>5, <2>6 DEF Next
<1> QED
  BY <1>2, <1>3

-----------------------------------------------------------------------------
(* What a roll comes to *)

\* Every round of roll_winners begins with at least one slot and more rolls
\* than slots, so that the roll it cuts at exists: the invariant its comment
\* names.
THEOREM FieldAlwaysExceedsSlots == Spec => []FieldExceedsSlots
<1>1. BidInv /\ RollInv => FieldExceedsSlots
  <2> SUFFICES ASSUME BidInv, RollInv, phase \in {"loop", "draw"} PROVE FieldExceedsSlots
    BY DEF FieldExceedsSlots
  <2>1. bids = NoBids
    BY DEF BidInv
  <2> QED
    BY <2>1 DEF RollInv, FieldExceedsSlots
<1> QED
  BY <1>1, BidStarts, BidNext, RollStarts, RollNext, PTL DEF Spec

\* However many rounds are rolled off, and also when the slots are drawn in
\* the end, as many win as there are items (or rolls), and they are the
\* winners the sets of module Winners give when the ties fall the same way.
THEOREM RollsPickTheWinners == Spec => []RollsAreWinners
<1>1. RollInv => RollsAreWinners
  <2> SUFFICES ASSUME RollInv, Settled PROVE RollsAreWinners
    BY DEF RollsAreWinners
  <2>1. /\ DOMAIN rolls \subseteq Rollers /\ n \in Nat
        /\ rolls \in [DOMAIN rolls -> Int]
        /\ winners \subseteq DOMAIN rolls
        /\ \A w \in winners : \A q \in DOMAIN rolls \ winners : rolls[q] <= rolls[w]
        /\ \/ Cardinality(winners) = n
           \/ winners = DOMAIN rolls /\ Cardinality(winners) < n
    BY DEF RollInv, Settled
  <2>2. IsFiniteSet(DOMAIN rolls) /\ IsFiniteSet(Rollers)
    BY RollFacts, RollsAssumption DEF Settled
  <2>3. RollWinners(rolls, n, Favouring(winners, Rollers)) = winners
    BY <2>1, <2>2, RollIsBest
  <2> QED
    BY <2>1, <2>3 DEF RollsAreWinners
<1> QED
  BY <1>1, BidStarts, BidNext, RollStarts, RollNext, PTL DEF Spec
=============================================================================
