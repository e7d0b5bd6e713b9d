---------------------------- MODULE StoreProofs ----------------------------
(***************************************************************************)
(* Proofs about the event store: what the ledger has applied is a chain    *)
(* without a gap whatever I/O fails; as long as no write stops half way,   *)
(* what was acknowledged survives, and the log continues where the ledger  *)
(* ends; and unless the clock is set back as well, every boot replays      *)
(* partitions and log to the very ledger, so that the store is the one     *)
(* durable log of module DurableLog.                                       *)
(***************************************************************************)
EXTENDS Store, SumLemmas, SequenceTheorems

-----------------------------------------------------------------------------
(* Segments, read one after the other *)

\* g joins ever more of the sequences in ss, up to the n-th.
Joins(g, ss, n) ==
  g = [i \in 1 .. n |-> IF i = 1 THEN ss[i] ELSE g[i - 1] \o ss[i]]

\* FlattenSeq takes the last of them.
LEMMA FlattenByJoins ==
  ASSUME NEW ss, Len(ss) # 0
  PROVE  FlattenSeq(ss) = (CHOOSE g : Joins(g, ss, Len(ss)))[Len(ss)]
BY DEF FlattenSeq, Joins

\* What the recursion says of each element.
LEMMA JoinsAt ==
  ASSUME NEW ss, NEW n, NEW g, Joins(g, ss, n)
  PROVE  \A i \in 1 .. n : g[i] = IF i = 1 THEN ss[i] ELSE g[i - 1] \o ss[i]
BY Zenon DEF Joins

\* The recursion has a solution.
LEMMA JoinsExist ==
  ASSUME NEW ss, NEW n \in Nat
  PROVE  \E g : Joins(g, ss, n)
<1> DEFINE B == {k \in Nat : ~ \E g : Joins(g, ss, k)}
<1>1. SUFFICES ASSUME B # {} PROVE FALSE
  OBVIOUS
<1>2. PICK k \in B : \A j \in B : k <= j
  <2> HIDE DEF B
  <2>1. B \in SUBSET Nat
    BY DEF B
  <2> QED
    BY <1>1, <2>1, LeastNumber
<1>3. Joins([i \in 1 .. 0 |-> <<>>], ss, 0)
  BY DEF Joins
<1>4. k # 0
  BY <1>3
<1>5. k - 1 \in Nat /\ k - 1 \notin B
  BY <1>2, <1>4
<1>6. PICK g : Joins(g, ss, k - 1)
  BY <1>5
<1> DEFINE h == [i \in 1 .. k |->
                   IF i = k THEN (IF k = 1 THEN ss[k] ELSE g[k - 1] \o ss[k])
                   ELSE g[i]]
<1>7. ASSUME NEW i \in 1 .. k
      PROVE  h[i] = IF i = 1 THEN ss[i] ELSE h[i - 1] \o ss[i]
  <2>1. CASE i = k
    BY <2>1, <1>4
  <2>2. CASE i # k
    <3>1. i \in 1 .. k - 1 /\ h[i] = g[i]
      BY <2>2
    <3>2. i # 1 => i - 1 \in 1 .. k - 1 /\ h[i - 1] = g[i - 1]
      BY <3>1
    <3>3. \A j \in 1 .. k - 1 : g[j] = IF j = 1 THEN ss[j] ELSE g[j - 1] \o ss[j]
      BY <1>6, JoinsAt
    <3> QED
      BY <3>1, <3>2, <3>3
  <2> QED
    BY <2>1, <2>2
<1>8. Joins(h, ss, k)
  BY <1>7, Zenon DEF Joins
<1> QED
  BY <1>2, <1>8

\* Joining sequences in turn gives a sequence of their elements.
LEMMA JoinsRange ==
  ASSUME NEW X, NEW ss \in Seq(Seq(X)), NEW g, Joins(g, ss, Len(ss))
  PROVE  \A n \in 1 .. Len(ss) :
           g[n] \in Seq(X) /\ Range(g[n]) = UNION {Range(ss[i]) : i \in 1 .. n}
<1> DEFINE U(k) == UNION {Range(ss[i]) : i \in 1 .. k}
           B == {k \in 1 .. Len(ss) : ~ (g[k] \in Seq(X) /\ Range(g[k]) = U(k))}
<1>1. SUFFICES ASSUME B # {} PROVE FALSE
  OBVIOUS
<1>2. PICK k \in B : \A j \in B : k <= j
  <2> HIDE DEF B
  <2>1. B \in SUBSET Nat
    BY DEF B
  <2> QED
    BY <1>1, <2>1, LeastNumber
<1>3. k \in 1 .. Len(ss) /\ ss[k] \in Seq(X) /\ Len(ss) \in Nat
  OBVIOUS
<1>6. \A i \in 1 .. Len(ss) : g[i] = IF i = 1 THEN ss[i] ELSE g[i - 1] \o ss[i]
  BY JoinsAt
<1>4. CASE k = 1
  <2>1. g[k] = ss[k]
    BY <1>4, <1>6
  <2>2. U(k) = Range(ss[k])
    BY <1>4
  <2> QED
    BY <1>2, <1>3, <2>1, <2>2
<1>5. CASE k # 1
  <2>1. k - 1 \in 1 .. Len(ss) /\ g[k] = g[k - 1] \o ss[k]
    <3>1. k - 1 \in 1 .. Len(ss)
      BY <1>3, <1>5
    <3>2. g[k] = IF k = 1 THEN ss[k] ELSE g[k - 1] \o ss[k]
      <4> HIDE DEF B
      <4> QED
        BY <1>3, <1>6
    <3> QED
      BY <1>5, <3>1, <3>2
  <2>2. k - 1 \notin B
    <3>1. k \in Nat /\ ~ (k <= k - 1)
      BY <1>3
    <3> HIDE DEF B
    <3> QED
      BY <1>2, <3>1
  <2>6. g[k - 1] \in Seq(X) /\ Range(g[k - 1]) = U(k - 1)
    BY <2>1, <2>2
  <2>3. g[k] \in Seq(X) /\ Range(g[k]) = U(k - 1) \cup Range(ss[k])
    BY <2>1, <2>6, <1>3, ConcatProperties, RangeConcatenation
  <2>4. 1 .. k = (1 .. k - 1) \cup {k}
    BY <1>3
  <2>5. U(k) = U(k - 1) \cup Range(ss[k])
    BY <2>4
  <2> QED
    BY <1>2, <2>3, <2>5
<1> QED
  BY <1>4, <1>5

\* Flattening gives the elements of the sequences, and no others.
LEMMA FlattenRange ==
  ASSUME NEW X, NEW ss \in Seq(Seq(X))
  PROVE  /\ FlattenSeq(ss) \in Seq(X)
         /\ Range(FlattenSeq(ss)) = UNION {Range(ss[i]) : i \in 1 .. Len(ss)}
<1>1. CASE ss = <<>>
  <2>1. FlattenSeq(ss) = <<>>
    BY <1>1 DEF FlattenSeq
  <2>2. Range(FlattenSeq(ss)) = {} /\ FlattenSeq(ss) \in Seq(X)
    BY <2>1 DEF Range
  <2>3. Len(ss) = 0
    BY <1>1
  <2>4. UNION {Range(ss[i]) : i \in 1 .. Len(ss)} = {}
    BY <2>3
  <2> QED
    BY <2>2, <2>4
<1>2. CASE ss # <<>>
  <2> DEFINE g == CHOOSE g : Joins(g, ss, Len(ss))
  <2>1. Len(ss) \in 1 .. Len(ss) /\ Len(ss) \in Nat
    BY <1>2
  <2>2. Joins(g, ss, Len(ss))
    BY <2>1, JoinsExist
  <2>3. FlattenSeq(ss) = g[Len(ss)]
    BY <2>1, FlattenByJoins
  <2> HIDE DEF g
  <2>4. \A n \in 1 .. Len(ss) :
          g[n] \in Seq(X) /\ Range(g[n]) = UNION {Range(ss[i]) : i \in 1 .. n}
    BY <2>2, JoinsRange
  <2> QED
    BY <2>1, <2>3, <2>4
<1> QED
  BY <1>1, <1>2

-----------------------------------------------------------------------------
(* Archived records, by number *)

\* Records numbered without a gap from 0 are listed by number, each once.
LEMMA InOrderList ==
  ASSUME NEW A \in SUBSET Record, IsFiniteSet(A), Contiguous(A, 0)
  PROVE  /\ Cardinality(A) \in Nat
         /\ InOrder(A) \in Seq(A) /\ Len(InOrder(A)) = Cardinality(A)
         /\ \A i \in 1 .. Cardinality(A) : InOrder(A)[i].seq = i - 1
         /\ \A r, s \in A : r.seq = s.seq => r = s
         /\ Range(InOrder(A)) = A
<1> DEFINE n == Cardinality(A)
           N == 0 .. n - 1
           f == [r \in A |-> r.seq]
           Below(r) == {s \in A : s.seq < r.seq}
<1>1. n \in Nat
  BY FS_CardinalityType
<1>2. /\ \A r \in A : r.seq \in N
      /\ \A k \in N : \E r \in A : r.seq = k
  BY <1>1 DEF Contiguous
<1>3. f \in Surjection(A, N)
  BY <1>2 DEF Surjection
<1>4. IsFiniteSet(N) /\ Cardinality(N) = n
  BY <1>1, FS_Interval
<1>5. f \in Injection(A, N)
  <2> HIDE DEF f, N
  <2> QED
    BY <1>3, <1>4, FS_Surjection
<1>6. \A r, s \in A : r.seq = s.seq => r = s
  BY <1>5 DEF Injection, IsInjective
<1>7. ASSUME NEW r \in A
      PROVE  Cardinality(Below(r)) = r.seq
  <2> DEFINE B == Below(r)
             K == 0 .. r.seq - 1
             g == [s \in B |-> s.seq]
  <2>1. r.seq \in Nat /\ r.seq <= n - 1 /\ \A s \in A : s.seq \in Nat
    BY <1>1, <1>2
  <2>2. \A s \in B : s.seq \in K
    BY <2>1
  <2>3. \A k \in K : \E s \in B : s.seq = k
    BY <2>1, <1>1, <1>2
  <2>4. g \in Bijection(B, K)
    <3>1. g \in Surjection(B, K)
      BY <2>2, <2>3 DEF Surjection
    <3>2. \A s, t \in B : g[s] = g[t] => s = t
      BY <1>6
    <3>3. g \in Injection(B, K)
      <4> HIDE DEF g, B, K
      <4> QED
        BY <3>1, <3>2 DEF Injection, Surjection, IsInjective
    <3> QED
      BY <3>1, <3>3 DEF Bijection
  <2>5. ExistsBijection(B, K)
    BY <2>4 DEF ExistsBijection
  <2>6. IsFiniteSet(B)
    BY FS_Subset
  <2>7. Cardinality(K) = r.seq
    BY <2>1, FS_Interval
  <2> QED
    <3> HIDE DEF B, K
    <3>1. Cardinality(B) = r.seq
      BY <2>5, <2>6, <2>7, FS_Bijection
    <3> QED
      BY <3>1 DEF B
<1>8. ASSUME NEW i \in 1 .. n
      PROVE  InOrder(A)[i] \in A /\ InOrder(A)[i].seq = i - 1
  <2>1. PICK r \in A : r.seq = i - 1
    BY <1>1, <1>2
  <2>2. InOrder(A)[i] = CHOOSE x \in A : Cardinality(Below(x)) = i - 1
    BY DEF InOrder
  <2>3. \E x \in A : Cardinality(Below(x)) = i - 1
    BY <2>1, <1>7
  <2> HIDE DEF Below
  <2>4. InOrder(A)[i] \in A /\ Cardinality(Below(InOrder(A)[i])) = i - 1
    BY <2>2, <2>3
  <2> QED
    BY <2>4, <1>7
<1>9. InOrder(A) \in [1 .. n -> A]
  <2> DEFINE at(i) == CHOOSE r \in A : Cardinality({s \in A : s.seq < r.seq}) = i - 1
  <2>2. InOrder(A) = [i \in 1 .. n |-> at(i)]
    BY DEF InOrder
  <2> HIDE DEF n, at
  <2>1. InOrder(A) = [i \in 1 .. n |-> InOrder(A)[i]]
    BY <2>2
  <2> QED
    BY <2>1, <1>8
<1>10. InOrder(A) \in Seq(A) /\ Len(InOrder(A)) = n
  BY <1>1, <1>9
<1>11. ASSUME NEW r \in A
       PROVE  r \in Range(InOrder(A))
  <2>1. r.seq + 1 \in 1 .. n
    BY <1>1, <1>2
  <2>2. InOrder(A)[r.seq + 1].seq = r.seq /\ InOrder(A)[r.seq + 1] \in A
    BY <2>1, <1>8, <1>1, <1>2
  <2>3. InOrder(A)[r.seq + 1] = r
    BY <2>2, <1>6
  <2>4. DOMAIN InOrder(A) = 1 .. n
    BY <1>9
  <2> HIDE DEF n
  <2> QED
    BY <2>1, <2>3, <2>4 DEF Range
<1>12. Range(InOrder(A)) \subseteq A
  BY <1>9 DEF Range
<1> QED
  BY <1>1, <1>6, <1>8, <1>10, <1>11, <1>12

-----------------------------------------------------------------------------
(* Types *)

Line    == Record \cup {Half, Bad}
Working == pc \in {"write", "commit"}

\* What every variable is, and what the steps rely on when they pick a segment,
\* a record or a month.
TypeInv ==
  /\ segs \in Seq(Seq(Line))
  /\ synced \in Nat /\ bytes \in Nat /\ walSeq \in Nat /\ cmds \in 0 .. MaxCmds
  /\ parquet \in [Months -> SUBSET Record]
  /\ \A m \in Months : \A r \in parquet[m] : r.month = m
  /\ IsFiniteSet(Archived)
  /\ ledger \in Seq(Record) /\ batch \in Seq(Record) /\ left \in Seq(Record)
  /\ todo \subseteq Months /\ month \in Months
  /\ acked \subseteq Nat /\ failed \subseteq Nat
  /\ pc \in {"down", "refused", "idle", "write", "commit", "compact"}
  /\ Up => segs # <<>>
  /\ Working => batch # <<>>
  /\ pc = "compact" => Len(segs) > 1 /\ \A l \in Moving : Good(l)

\* The elements of a sequence, by place.
LEMMA InRange ==
  ASSUME NEW X, NEW s \in Seq(X)
  PROVE  /\ \A x : x \in Range(s) <=> \E j \in 1 .. Len(s) : s[j] = x
         /\ \A x \in Range(s) : x \in X
BY RangeEquality, RangeOfSeq

\* A line added at the end is one line more.
LEMMA RangeAppend ==
  ASSUME NEW X, NEW s \in Seq(X), NEW x \in X
  PROVE  Range(Append(s, x)) = Range(s) \cup {x}
<1>1. Append(s, x) \in Seq(X) /\ Len(Append(s, x)) = Len(s) + 1
      /\ \A i \in 1 .. Len(s) : Append(s, x)[i] = s[i]
      /\ Append(s, x)[Len(s) + 1] = x /\ Len(s) \in Nat
  BY AppendProperties
<1>2. /\ Range(s) = {s[i] : i \in 1 .. Len(s)}
      /\ Range(Append(s, x)) = {Append(s, x)[i] : i \in 1 .. Len(s) + 1}
  BY <1>1, RangeEquality
<1>3. ASSUME NEW y \in Range(Append(s, x))
      PROVE  y \in Range(s) \cup {x}
  <2>1. PICK i \in 1 .. Len(s) + 1 : y = Append(s, x)[i]
    BY <1>2
  <2> QED
    BY <1>1, <1>2, <2>1
<1>4. ASSUME NEW y \in Range(s) \cup {x}
      PROVE  y \in Range(Append(s, x))
  BY <1>1, <1>2
<1> QED
  BY <1>3, <1>4

\* A part of a sequence has some of its elements.
LEMMA RangeOfPart ==
  ASSUME NEW X, NEW s \in Seq(X), NEW k \in 0 .. Len(s)
  PROVE  /\ SubSeq(s, 1, k) \in Seq(X) /\ Len(SubSeq(s, 1, k)) = k
         /\ \A i \in 1 .. k : SubSeq(s, 1, k)[i] = s[i]
         /\ Range(SubSeq(s, 1, k)) \subseteq Range(s)
<1>1. /\ SubSeq(s, 1, k) \in Seq(X) /\ Len(SubSeq(s, 1, k)) = k
      /\ \A i \in 1 .. k : SubSeq(s, 1, k)[i] = s[i]
  BY SubSeqProperties
<1>2. /\ Range(s) = {s[i] : i \in 1 .. Len(s)}
      /\ Range(SubSeq(s, 1, k)) = {SubSeq(s, 1, k)[i] : i \in 1 .. k}
  BY <1>1, RangeEquality
<1> QED
  BY <1>1, <1>2

\* A sequence has no element, one or more.
LEMMA JustOne ==
  ASSUME NEW X, NEW s \in Seq(X), s # <<>>, ~ (Len(s) > 1)
  PROVE  Len(s) = 1
<1> DEFINE n == Len(s)
<1>1. n \in Nat /\ n # 0 /\ ~ (n > 1)
  OBVIOUS
<1> HIDE DEF n
<1>2. \A k \in Nat : k # 0 /\ ~ (k > 1) => k = 1
  OBVIOUS
<1>3. n = 1
  BY <1>1, <1>2, Zenon
<1> QED
  BY <1>3 DEF n

\* Of two or more elements the tail has all but the first.
LEMMA TailLonger ==
  ASSUME NEW X, NEW s \in Seq(X), Len(s) > 1
  PROVE  /\ Tail(s) \in Seq(X) /\ Tail(s) # <<>>
         /\ Len(s) \in Nat /\ Len(Tail(s)) = Len(s) - 1
         /\ \A i \in 1 .. Len(s) - 1 : Tail(s)[i] = s[i + 1]
<1>1. s # <<>> /\ Len(s) \in Nat
  OBVIOUS
<1>2. /\ Tail(s) \in Seq(X) /\ Len(Tail(s)) = Len(s) - 1
      /\ \A i \in 1 .. Len(Tail(s)) : Tail(s)[i] = s[i + 1]
  BY <1>1, HeadTailProperties
<1>3. Len(Tail(s)) # 0
  BY <1>1, <1>2
<1>4. Tail(s) # <<>>
  <2> DEFINE t == Tail(s)
  <2>1. Len(t) # 0
    BY <1>3
  <2> HIDE DEF t
  <2>2. t # <<>>
    BY <2>1
  <2> QED
    BY <2>2 DEF t
<1> QED
  BY <1>1, <1>2, <1>4

\* The lines of the segments before the last.
LEMMA LinesBefore ==
  ASSUME NEW ss \in Seq(Seq(Line))
  PROVE  \A l : l \in UNION {Range(s) : s \in Range(Front(ss))}
                <=> \E i \in 1 .. Len(ss) - 1 : l \in Range(ss[i])
<1>1. CASE ss = <<>>
  <2>1. Front(ss) = <<>> /\ Len(ss) = 0
    BY <1>1, SubSeqEmpty DEF Front
  <2>2. Range(Front(ss)) = {}
    BY <2>1 DEF Range
  <2> QED
    BY <2>1, <2>2
<1>2. CASE ss # <<>>
  <2> DEFINE k == Len(ss) - 1
  <2>1. k \in 0 .. Len(ss) /\ Front(ss) = SubSeq(ss, 1, k)
    BY <1>2 DEF Front
  <2>2. /\ Front(ss) \in Seq(Seq(Line)) /\ Len(Front(ss)) = k
        /\ \A i \in 1 .. k : Front(ss)[i] = ss[i]
    <3> HIDE DEF k
    <3> QED
      BY <2>1, RangeOfPart
  <2>3. Range(Front(ss)) = {Front(ss)[i] : i \in 1 .. k}
    BY <2>2, RangeEquality
  <2> HIDE DEF k
  <2>4. Range(Front(ss)) = {ss[i] : i \in 1 .. k}
    BY <2>2, <2>3
  <2> QED
    BY <2>4 DEF k
<1> QED
  BY <1>1, <1>2

\* The records a compaction moves are the lines of the sealed segments.
LEMMA MovingLines ==
  ASSUME segs \in Seq(Seq(Line))
  PROVE  \A l : l \in Moving <=> \E i \in 1 .. Len(segs) - 1 : l \in Range(segs[i])
BY LinesBefore DEF Moving, Sealed

\* What a boot reads of a segment.
LEMMA ReadableLines ==
  ASSUME segs \in Seq(Seq(Line)), NEW i \in 1 .. Len(segs)
  PROVE  /\ Readable(i) \in Seq(Line)
         /\ Range(Readable(i)) \subseteq Range(segs[i])
         /\ ~ TornTail(i) => Readable(i) = segs[i]
         /\ TornTail(i) => /\ i = Len(segs) /\ Len(segs[i]) > 0
                           /\ Readable(i) = SubSeq(segs[i], 1, Len(segs[i]) - 1)
<1>1. segs[i] \in Seq(Line)
  BY ElementOfSeq
<1>2. CASE TornTail(i)
  <2>1. i = Len(segs) /\ segs[i] # <<>> /\ Readable(i) = SubSeq(segs[i], 1, Len(segs[i]) - 1)
    BY <1>2 DEF TornTail, Readable, Front
  <2>2. Len(segs[i]) > 0 /\ Len(segs[i]) - 1 \in 0 .. Len(segs[i])
    BY <1>1, <2>1
  <2> QED
    BY <1>1, <1>2, <2>1, <2>2, RangeOfPart
<1>3. CASE ~ TornTail(i)
  BY <1>1, <1>3 DEF Readable
<1> QED
  BY <1>2, <1>3

\* A log that can be read is read as records, segment after segment.
LEMMA TailReads ==
  ASSUME TypeInv, WalReads
  PROVE  /\ Tail0 \in Seq(Record)
         /\ Range(Tail0) = UNION {Range(Readable(i)) : i \in 1 .. Len(segs)}
         /\ \A i \in 1 .. Len(segs) : Readable(i) \in Seq(Record)
         /\ \E ss \in Seq(Seq(Record)) :
              /\ Tail0 = FlattenSeq(ss) /\ Len(ss) = Len(segs)
              /\ \A i \in 1 .. Len(segs) : ss[i] = Readable(i)
<1> DEFINE n == Len(segs)
           ss == [i \in DOMAIN segs |-> Readable(i)]
<1>1. /\ segs \in Seq(Seq(Line)) /\ n \in Nat /\ DOMAIN segs = 1 .. n
      /\ Archived \in SUBSET Record /\ IsFiniteSet(Archived)
  BY DEF TypeInv, Archived
<1>2. ASSUME NEW i \in 1 .. n
      PROVE  Readable(i) \in Seq(Record)
  <2>1. Readable(i) \in Seq(Line)
    BY <1>1, ReadableLines
  <2>2. \A l \in Range(Readable(i)) : Good(l)
    BY <1>1 DEF WalReads
  <2>3. \A j \in 1 .. Len(Readable(i)) : Readable(i)[j] \in Record
    BY <2>1, <2>2, InRange DEF Line, Good
  <2>4. Len(Readable(i)) \in Nat /\ Readable(i) \in [1 .. Len(Readable(i)) -> Line]
    BY <2>1
  <2> QED
    BY <2>3, <2>4
<1>3. /\ ss \in Seq(Seq(Record)) /\ Len(ss) = n
      /\ \A i \in 1 .. n : ss[i] = Readable(i)
  <2>1. ss \in [1 .. n -> Seq(Record)]
    BY <1>1, <1>2
  <2> QED
    BY <1>1, <2>1
<1>4. /\ Tail0 \in Seq(Record)
      /\ Range(Tail0) = UNION {Range(Readable(i)) : i \in 1 .. n}
  <2>1. Tail0 = FlattenSeq(ss)
    BY DEF Tail0
  <2> HIDE DEF ss, n
  <2>2. Range(FlattenSeq(ss)) = UNION {Range(ss[i]) : i \in 1 .. n}
    BY <1>3, FlattenRange
  <2> QED
    BY <1>3, <2>1, <2>2, FlattenRange
<1>5. Tail0 = FlattenSeq(ss)
  BY DEF Tail0
<1> HIDE DEF ss
<1> QED
  BY <1>2, <1>3, <1>4, <1>5

\* Two chains, the second starting where the first ends, are one.
LEMMA ChainJoined ==
  ASSUME NEW s \in Seq(Record), NEW t \in Seq(Record),
         NoGap(s, 0), NoGap(t, Len(s))
  PROVE  NoGap(s \o t, 0)
<1>1. /\ s \o t \in Seq(Record) /\ Len(s \o t) = Len(s) + Len(t)
      /\ \A i \in 1 .. Len(s) + Len(t) :
           (s \o t)[i] = IF i <= Len(s) THEN s[i] ELSE t[i - Len(s)]
      /\ Len(s) \in Nat /\ Len(t) \in Nat
  BY ConcatProperties
<1>2. /\ \A i \in 1 .. Len(s) : s[i].seq = i - 1
      /\ \A i \in 1 .. Len(t) : t[i].seq = Len(s) + i - 1
  BY DEF NoGap
<1>3. ASSUME NEW i \in 1 .. Len(s) + Len(t)
      PROVE  (s \o t)[i].seq = 0 + i - 1
  <2>1. CASE i <= Len(s)
    BY <1>1, <1>2, <2>1
  <2>2. CASE ~ (i <= Len(s))
    <3>1. i - Len(s) \in 1 .. Len(t)
      BY <1>1, <2>2
    <3>2. (s \o t)[i] = t[i - Len(s)]
      BY <1>1, <2>2
    <3>3. t[i - Len(s)].seq = Len(s) + (i - Len(s)) - 1
      BY <1>2, <3>1
    <3> QED
      BY <1>1, <3>2, <3>3
  <2> QED
    BY <2>1, <2>2
<1>4. DOMAIN (s \o t) = 1 .. Len(s) + Len(t)
  BY <1>1
<1> QED
  BY <1>3, <1>4 DEF NoGap

\* What a chain holds from c on is a chain from c.
LEMMA BeyondChain ==
  ASSUME NEW s \in Seq(Record), NEW c \in Nat,
         s # <<>> => NoGap(s, s[1].seq) /\ s[1].seq <= c
  PROVE  NoGap(Beyond(s, c), c)
<1>1. CASE s = <<>>
  BY <1>1 DEF Beyond, NoGap
<1>2. CASE s # <<>> /\ ~ (s[1].seq < c)
  <2>1. s[1] \in Record
    BY <1>2
  <2>2. s[1].seq = c
    BY <1>2, <2>1 DEF Record
  <2> QED
    BY <1>2, <2>2 DEF Beyond
<1>3. CASE s # <<>> /\ s[1].seq < c
  <2> DEFINE n == Len(s)
             a == c - s[1].seq + 1
             b == SubSeq(s, a, n)
             s1 == s[1].seq
  <2>1. n \in Nat /\ n > 0 /\ s[1] \in Record
    BY <1>3
  <2>2. s1 \in Nat /\ a \in Nat /\ a >= 1 /\ a = c - s1 + 1
    <3>1. s1 \in Nat
      BY <2>1 DEF Record
    <3> QED
      BY <1>3, <3>1
  <2>3. Beyond(s, c) = b
    BY <1>3 DEF Beyond
  <2>4. \A i \in 1 .. n : s[i].seq = s1 + i - 1
    BY <1>3 DEF NoGap
  <2> HIDE DEF s1, a
  <2>5. \A i \in a .. n : i \in 1 .. n /\ s[i] \in Record
    BY <2>1, <2>2
  <2>6. /\ b \in Seq(Record)
        /\ Len(b) = IF a <= n THEN n - a + 1 ELSE 0
        /\ \A i \in 1 .. n - a + 1 : b[i] = s[a + i - 1]
    <3>1. \A i \in a .. n : s[i] \in Record
      BY <2>5
    <3> QED
      BY <2>1, <2>2, <3>1, SubSeqProperties
  <2> HIDE DEF b
  <2>7. ASSUME NEW i \in DOMAIN b
        PROVE  b[i].seq = c + i - 1
    <3>1. i \in 1 .. Len(b)
      BY <2>6
    <3> HIDE DEF n
    <3>2. i \in 1 .. n - a + 1 /\ a + i - 1 \in 1 .. n /\ i \in Nat
      BY <2>1, <2>2, <2>6, <3>1
    <3>3. b[i] = s[a + i - 1]
      BY <2>6, <3>2
    <3>4. s[a + i - 1].seq = s1 + (a + i - 1) - 1
      BY <2>4, <3>2
    <3> QED
      BY <2>2, <3>2, <3>3, <3>4
  <2> QED
    BY <2>3, <2>7 DEF NoGap
<1> QED
  BY <1>1, <1>2, <1>3

\* What a boot that accepts the disk reads: the log as whole records, and with
\* the partitions a list of records without a gap.
LEMMA BootReads ==
  ASSUME TypeInv, BootAccepts
  PROVE  /\ Tail0 \in Seq(Record)
         /\ Range(Tail0) = UNION {Range(Readable(i)) : i \in 1 .. Len(segs)}
         /\ Archived \in SUBSET Record
         /\ Replayable \in Seq(Record)
         /\ NoGap(Replayable, 0)
<1>1. Archived \in SUBSET Record /\ IsFiniteSet(Archived)
  BY DEF TypeInv, Archived
<1>4. /\ Tail0 \in Seq(Record)
      /\ Range(Tail0) = UNION {Range(Readable(i)) : i \in 1 .. Len(segs)}
  BY TailReads DEF BootAccepts
<1>5. InOrder(Archived) \in Seq(Record)
  <2>1. InOrder(Archived) \in Seq(Archived)
    BY <1>1, InOrderList DEF BootAccepts
  <2> QED
    BY <1>1, <2>1, SeqMonotonic
<1>6. Beyond(Tail0, Cardinality(Archived)) \in Seq(Record)
  <2> DEFINE c == Cardinality(Archived)
             a == c - Tail0[1].seq + 1
  <2>1. CASE ~ (Tail0 # <<>> /\ Tail0[1].seq < c)
    BY <1>4, <2>1 DEF Beyond
  <2>2. CASE Tail0 # <<>> /\ Tail0[1].seq < c
    <3>1. c \in Nat /\ Tail0[1] \in Record
      BY <1>1, <1>4, <2>2, FS_CardinalityType
    <3>2. a \in Int /\ a >= 1 /\ Len(Tail0) \in Int
      BY <1>4, <2>2, <3>1 DEF Record
    <3>3. \A i \in a .. Len(Tail0) : Tail0[i] \in Record
      BY <1>4, <3>2
    <3>4. Beyond(Tail0, c) = SubSeq(Tail0, a, Len(Tail0))
      BY <2>2 DEF Beyond
    <3> HIDE DEF a, c
    <3> QED
      BY <3>2, <3>3, <3>4, SubSeqProperties DEF c
  <2> QED
    BY <2>1, <2>2
<1>7. NoGap(InOrder(Archived), 0) /\ Len(InOrder(Archived)) = Cardinality(Archived)
  <2> DEFINE c == Cardinality(Archived)
             a == InOrder(Archived)
  <2>1. /\ c \in Nat /\ Len(a) = c
        /\ \A i \in 1 .. c : a[i].seq = i - 1
    BY <1>1, InOrderList DEF BootAccepts
  <2> HIDE DEF c, a
  <2>2. DOMAIN a = 1 .. c
    BY <1>5, <2>1 DEF a
  <2>3. NoGap(a, 0)
    BY <2>1, <2>2 DEF NoGap
  <2> QED
    BY <2>1, <2>3 DEF a, c
<1>8. NoGap(Beyond(Tail0, Cardinality(Archived)), Cardinality(Archived))
  <2> DEFINE c == Cardinality(Archived)
  <2>1. c \in Nat
    BY <1>1, FS_CardinalityType
  <2>2. Tail0 # <<>> => NoGap(Tail0, Tail0[1].seq) /\ Tail0[1].seq <= c
    BY DEF BootAccepts
  <2> HIDE DEF c
  <2>3. NoGap(Beyond(Tail0, c), c)
    BY <1>4, <2>1, <2>2, BeyondChain
  <2> QED
    BY <2>3 DEF c
<1>9. NoGap(Replayable, 0)
  BY <1>5, <1>6, <1>7, <1>8, ChainJoined DEF Replayable
<1> QED
  BY <1>1, <1>4, <1>5, <1>6, <1>9, ConcatProperties DEF Replayable

\* Writing to the last segment, rotated or not, leaves segments of lines.
LEMMA WriteType ==
  ASSUME segs \in Seq(Seq(Line)), segs # <<>>, NEW x \in Line, NEW y \in Line
  PROVE  /\ [Target EXCEPT ![Len(Target)] = Written(@, <<x, y>>)] \in Seq(Seq(Line))
         /\ [Target EXCEPT ![Len(Target)] = Written(@, <<x, y>>)] # <<>>
<1>1. <<>> \in Seq(Line)
  OBVIOUS
<1>2. Target \in Seq(Seq(Line)) /\ Len(Target) \in 1 .. Len(Target)
  BY <1>1, AppendProperties DEF Target
<1>3. Target[Len(Target)] \in Seq(Line)
  BY <1>2
<1>4. ASSUME NEW lines \in Seq(Line)
      PROVE  Written(lines, <<x, y>>) \in Seq(Line)
  <2>1. CASE lines # <<>> /\ Last(lines) = Half
    <3>1. Len(lines) - 1 \in 0 .. Len(lines)
      BY <2>1
    <3>2. Front(lines) \in Seq(Line)
      BY <3>1, RangeOfPart DEF Front
    <3> QED
      BY <2>1, <3>2, AppendProperties DEF Written
  <2>2. CASE ~ (lines # <<>> /\ Last(lines) = Half)
    BY <2>2, AppendProperties DEF Written
  <2> QED
    BY <2>1, <2>2
<1>5. Written(Target[Len(Target)], <<x, y>>) \in Seq(Line)
  BY <1>3, <1>4
<1> QED
  BY <1>2, <1>5, ExceptSeq

\* The records of one decision.
LEMMA ProposedBatch ==
  ASSUME TypeInv, NEW n \in BatchSizes, Propose(n)
  PROVE  /\ n \in Nat \ {0} /\ cmds \in Nat
         /\ batch' \in Seq(Record) /\ Len(batch') = n
         /\ \A i \in 1 .. n : /\ batch'[i].seq = Len(ledger) + i - 1
                              /\ batch'[i].cmd = cmds
                              /\ batch'[i].last = (i = n)
                              /\ batch'[i].month = month
<1> DEFINE rec(i) == [seq |-> Len(ledger) + i - 1, cmd |-> cmds, last |-> i = n,
                      month |-> month]
<1>1. n \in Nat \ {0} /\ cmds \in Nat /\ Len(ledger) \in Nat /\ month \in Months
  BY BatchAssumption DEF TypeInv
<1>2. ASSUME NEW i \in 1 .. n
      PROVE  rec(i) \in Record
  BY <1>1 DEF Record
<1>3. batch' = [i \in 1 .. n |-> rec(i)]
  BY DEF Propose
<1>4. batch' \in [1 .. n -> Record]
  <2> HIDE DEF rec
  <2> QED
    BY <1>2, <1>3
<1>5. batch' \in Seq(Record) /\ Len(batch') = n
  BY <1>1, <1>4
<1> QED
  BY <1>1, <1>3, <1>5

\* The month a compaction writes next is one of its list.
LEMMA NextMonth ==
  ASSUME TypeInv, todo # {}
  PROVE  (CHOOSE m \in todo : \A k \in todo : m <= k) \in todo
<1>1. todo \in SUBSET Nat
  BY MonthsAssumption DEF TypeInv
<1>2. \E m \in todo : \A k \in todo : m <= k
  BY <1>1, LeastNumber
<1> QED
  BY <1>2

\* A compaction moves finitely many records.
LEMMA MovingFinite ==
  ASSUME segs \in Seq(Seq(Line))
  PROVE  IsFiniteSet(Moving)
<1> DEFINE M(k) == UNION {Range(segs[i]) : i \in 1 .. k}
           B == {k \in 0 .. Len(segs) : ~ IsFiniteSet(M(k))}
<1>1. ASSUME B # {}
      PROVE  FALSE
  <2>1. PICK k \in B : \A j \in B : k <= j
    <3>1. B \in SUBSET Nat
      OBVIOUS
    <3> HIDE DEF B
    <3> QED
      BY <1>1, <3>1, LeastNumber
  <2>2. k # 0
    <3>1. M(0) = {}
      OBVIOUS
    <3> QED
      BY <2>1, <3>1, FS_EmptySet
  <2>3. k - 1 \in 0 .. Len(segs) /\ k \in 1 .. Len(segs) /\ ~ (k <= k - 1)
    BY <2>2
  <2>4. IsFiniteSet(M(k - 1))
    BY <2>1, <2>3
  <2>5. M(k) = M(k - 1) \cup Range(segs[k])
    <3>1. 1 .. k = (1 .. k - 1) \cup {k}
      BY <2>3
    <3> QED
      BY <3>1
  <2>6. IsFiniteSet(Range(segs[k]))
    <3>1. segs[k] \in Seq(Line)
      BY <2>3
    <3> DEFINE D == 1 .. Len(segs[k])
               R == Range(segs[k])
    <3>2. IsFiniteSet(D)
      BY <3>1, FS_Interval
    <3>3. DOMAIN segs[k] = D /\ segs[k] = [j \in D |-> segs[k][j]]
      BY <3>1
    <3>4. segs[k] \in Surjection(D, R)
      <4> HIDE DEF D
      <4> QED
        BY <3>3 DEF Surjection, Range
    <3> HIDE DEF D, R
    <3>5. IsFiniteSet(R)
      BY <3>2, <3>4, FS_Surjection
    <3> QED
      BY <3>5 DEF R
  <2>7. IsFiniteSet(M(k))
    <3> HIDE DEF M
    <3> QED
      BY <2>4, <2>5, <2>6, FS_Union
  <2> QED
    BY <2>7
<1>2. IsFiniteSet(M(Len(segs)))
  <2>1. Len(segs) \in 0 .. Len(segs)
    OBVIOUS
  <2> QED
    BY <1>1, <2>1
<1>3. Moving \in SUBSET M(Len(segs))
  BY MovingLines
<1> QED
  <2> HIDE DEF M
  <2> QED
    BY <1>2, <1>3, FS_Subset

\* The types of an empty disk.
LEMMA TypeInit == Init => TypeInv
<1> SUFFICES ASSUME Init PROVE TypeInv
  OBVIOUS
<1>1. Archived = {}
  BY DEF Init, Archived
<1> QED
  BY <1>1, FS_EmptySet, BatchAssumption
     DEF Init, TypeInv, Line, Up, Working

\* A partition written is the old one with the month's moving records.
LEMMA PartitionType ==
  ASSUME TypeInv, WritePartition
  PROVE  /\ parquet' \in [Months -> SUBSET Record]
         /\ \A m \in Months : \A r \in parquet'[m] : r.month = m
         /\ IsFiniteSet(Archived') /\ todo' \subseteq Months
         /\ Archived' \subseteq Archived \cup Moving
<1> DEFINE m == CHOOSE m \in todo : \A k \in todo : m <= k
           new == {r \in Moving : r.month = m}
           merged == new \cup {r \in parquet[m] : \A s \in new : s.seq # r.seq}
<1>1. m \in todo /\ m \in Months /\ pc = "compact"
  BY NextMonth DEF WritePartition, TypeInv
<1>2. /\ parquet \in [Months -> SUBSET Record]
      /\ \A k \in Months : \A r \in parquet[k] : r.month = k
      /\ IsFiniteSet(Archived) /\ todo \subseteq Months
      /\ segs \in Seq(Seq(Line)) /\ \A l \in Moving : Good(l)
  BY <1>1 DEF TypeInv
<1>3. Moving \subseteq Record
  <2>1. ASSUME NEW l \in Moving
        PROVE  l \in Line
    <3>1. PICK i \in 1 .. Len(segs) - 1 : l \in Range(segs[i])
      BY <1>2, MovingLines
    <3>2. segs[i] \in Seq(Line)
      BY <1>2
    <3> QED
      BY <3>1, <3>2, InRange
  <2> QED
    BY <1>2, <2>1 DEF Line, Good
<1>4. parquet' = [parquet EXCEPT ![m] = merged] /\ todo' = todo \ {m}
  BY DEF WritePartition
<1>5. merged \in SUBSET Record /\ \A r \in merged : r.month = m
  BY <1>1, <1>2, <1>3
<1>6. Archived' \subseteq Archived \cup Moving
  <2> HIDE DEF m
  <2> QED
    BY <1>1, <1>2, <1>4 DEF Archived
<1>7. IsFiniteSet(Archived')
  BY <1>2, <1>6, MovingFinite, FS_Union, FS_Subset
<1> HIDE DEF m, merged
<1> QED
  BY <1>1, <1>2, <1>4, <1>5, <1>6, <1>7

\* Every step of the store keeps the types.
LEMMA TypeNext == TypeInv /\ [Next]_vars => TypeInv'
<1> SUFFICES ASSUME TypeInv, [Next]_vars PROVE TypeInv'
  OBVIOUS
<1> USE DEF vars, disk, memory, answers
<1>0. /\ segs \in Seq(Seq(Line)) /\ <<>> \in Seq(Line)
      /\ UNCHANGED <<parquet>> => UNCHANGED Archived
      /\ UNCHANGED <<segs>> => UNCHANGED Moving
  BY DEF TypeInv, Archived, Moving, Sealed
<1>1. CASE Boot
  <2>1. BootAccepts /\ pc' = "idle" /\ UNCHANGED parquet
    BY <1>1 DEF Boot
  <2>2. /\ ledger' \in Seq(Record)
        /\ Tail0 \in Seq(Record)
    BY <1>1, <2>1, BootReads DEF Boot
  <2>3. segs' \in Seq(Seq(Line)) /\ segs' # <<>> /\ bytes' \in Nat /\ synced' \in Nat
    <3>1. CASE segs = <<>>
      BY <1>0, <1>1, <3>1 DEF Boot, TypeInv
    <3>2. CASE segs # <<>>
      <4>1. Len(segs) \in 1 .. Len(segs)
        BY <1>0, <3>2
      <4>2. Readable(Len(segs)) \in Seq(Line)
        BY <1>0, <4>1, ReadableLines
      <4>3. segs' = [segs EXCEPT ![Len(segs)] = Readable(Len(segs))]
        BY <1>1, <3>2 DEF Boot
      <4>4. segs' \in Seq(Seq(Line)) /\ Len(segs') = Len(segs)
        BY <1>0, <4>1, <4>2, <4>3, ExceptSeq
      <4>5. bytes' = Len(Readable(Len(segs))) /\ bytes' \in Nat
        BY <1>1, <3>2, <4>2, LenProperties DEF Boot
      <4>6. synced' = bytes' \/ synced' = synced
        BY <1>1 DEF Boot
      <4> QED
        BY <4>1, <4>4, <4>5, <4>6 DEF TypeInv
    <3> QED
      BY <3>1, <3>2
  <2>4. walSeq' \in Nat
    <3>1. CASE Tail0 = <<>>
      BY <1>1, <3>1, FS_CardinalityType DEF Boot, TypeInv
    <3>2. CASE Tail0 # <<>>
      <4>1. Last(Tail0) \in Record
        BY <2>2, <3>2 DEF Last
      <4> QED
        BY <1>1, <3>2, <4>1 DEF Boot, Record
    <3> QED
      BY <3>1, <3>2
  <2> QED
    BY <1>0, <1>1, <2>1, <2>2, <2>3, <2>4 DEF Boot, TypeInv, Working
<1>2. CASE RefuseBoot
  BY <1>0, <1>2 DEF RefuseBoot, TypeInv, Up, Working
<1>3. ASSUME NEW n \in BatchSizes, Propose(n)
      PROVE  TypeInv'
  <2>1. n \in Nat \ {0} /\ batch' \in Seq(Record) /\ Len(batch') = n
    BY <1>3, ProposedBatch
  <2>2. batch' # <<>>
    BY <2>1
  <2>3. cmds' \in 0 .. MaxCmds
    BY <1>3, BatchAssumption DEF Propose, TypeInv
  <2>4. left' = batch'
    BY <1>3 DEF Propose
  <2> QED
    BY <1>0, <1>3, <2>1, <2>2, <2>3, <2>4 DEF Propose, TypeInv, Up, Working
<1>4. ASSUME WriteRecord
      PROVE  TypeInv'
  <2>1. Head(left) \in Record /\ Tail(left) \in Seq(Record)
    BY <1>4 DEF WriteRecord, TypeInv
  <2>2. segs' \in Seq(Seq(Line)) /\ segs' # <<>>
    BY <1>4, <2>1, WriteType DEF WriteRecord, TypeInv, Line, Up
  <2> QED
    BY <1>0, <1>4, <2>1, <2>2 DEF WriteRecord, TypeInv, Up, Working
<1>5. ASSUME Fail, Working
      PROVE  /\ failed' \subseteq Nat /\ pc' = "idle"
             /\ batch' \in Seq(Record) /\ left' \in Seq(Record)
  <2>1. batch[1] \in Record
    BY <1>5 DEF TypeInv
  <2>2. batch[1].cmd \in Nat
    BY <2>1 DEF Record
  <2>3. <<>> \in Seq(Record)
    OBVIOUS
  <2> QED
    BY <1>5, <2>2, <2>3 DEF Fail, TypeInv
<1>6. CASE WriteFails
  <2>1. segs' \in Seq(Seq(Line)) /\ segs' # <<>>
    BY <1>6, WriteType DEF WriteFails, TypeInv, Line, Up
  <2>2. synced' \in Nat /\ bytes' \in Nat
    BY <1>6 DEF WriteFails, TypeInv
  <2>3. Fail /\ Working
    BY <1>6 DEF WriteFails, Working
  <2> QED
    BY <1>0, <1>5, <1>6, <2>1, <2>2, <2>3 DEF WriteFails, TypeInv, Up, Working
<1>7. CASE AppendRefused \/ SyncFails
  <2>1. Fail /\ Working /\ UNCHANGED <<disk, bytes, walSeq, ledger, todo, month, cmds, acked>>
    BY <1>7 DEF AppendRefused, SyncFails, Working
  <2> QED
    BY <1>0, <1>5, <2>1 DEF TypeInv, Up, Working
<1>8. CASE Sync
  <2>1. Last(segs) \in Seq(Line)
    BY <1>8 DEF Sync, TypeInv, Last, Up
  <2>2. synced' \in Nat
    BY <1>8, <2>1, LenProperties DEF Sync
  <2> QED
    BY <1>0, <1>8, <2>2 DEF Sync, TypeInv, Up, Working
<1>9. CASE Commit
  <2>1. batch[1] \in Record
    BY <1>9 DEF Commit, TypeInv, Working
  <2>2. acked' \subseteq Nat
    BY <1>9, <2>1 DEF Commit, TypeInv, Record
  <2>3. ledger' \in Seq(Record) /\ batch' \in Seq(Record)
    BY <1>9, ConcatProperties DEF Commit, TypeInv
  <2> QED
    BY <1>0, <1>9, <2>2, <2>3 DEF Commit, TypeInv, Up, Working
<1>10. CASE SealAndPlan
  <2> DEFINE lines == UNION {Range(s) : s \in Range(segs)}
  <2>1. /\ segs' = Append(segs, <<>>) /\ segs # <<>> /\ pc = "idle"
        /\ UNCHANGED <<parquet, walSeq, ledger, batch, left, month, answers>>
        /\ synced' = 0 /\ bytes' = 0
    BY <1>10 DEF SealAndPlan, TypeInv, Up
  <2>2. /\ segs' \in Seq(Seq(Line)) /\ Len(segs') = Len(segs) + 1 /\ Len(segs) > 0
        /\ \A i \in 1 .. Len(segs) : segs'[i] = segs[i]
    BY <1>0, <2>1, AppendProperties
  <2>3. \A l \in lines : l \in Line
    <3>1. \A s \in Range(segs) : s \in Seq(Line)
      BY <1>0, InRange
    <3> QED
      BY <3>1, InRange
  <2>4. ASSUME \A l \in lines : Good(l)
        PROVE  /\ {l.month : l \in lines} \subseteq Months
               /\ \A l \in Moving' : Good(l)
    <3>1. \A l \in lines : l \in Record
      BY <2>3, <2>4 DEF Line, Good
    <3>2. \A l : l \in Moving' <=> \E i \in 1 .. Len(segs') - 1 : l \in Range(segs'[i])
      BY <2>2, LinesBefore DEF Moving, Sealed
    <3>3. \A i \in 1 .. Len(segs) : segs[i] \in Range(segs)
      BY <1>0, InRange
    <3>4. \A l \in Moving' : l \in lines
      BY <2>2, <3>2, <3>3
    <3> QED
      BY <2>4, <3>1, <3>4 DEF Record, Good
  <2>5. CASE \A l \in lines : Good(l)
    <3>1. pc' = "compact" /\ todo' = {l.month : l \in lines}
      BY <1>10, <2>5 DEF SealAndPlan
    <3>2. todo' \subseteq Months /\ \A l \in Moving' : Good(l)
      BY <2>4, <2>5, <3>1
    <3>3. segs' # <<>> /\ Len(segs') > 1
      BY <2>2
    <3> HIDE DEF lines
    <3> QED
      BY <1>0, <2>1, <2>2, <3>1, <3>2, <3>3 DEF TypeInv, Up, Working, Good
  <2>6. CASE ~ \A l \in lines : Good(l)
    <3>1. UNCHANGED <<pc, todo>>
      BY <1>10, <2>6 DEF SealAndPlan
    <3>3. segs' # <<>>
      BY <2>2
    <3> HIDE DEF lines
    <3> QED
      BY <1>0, <2>1, <2>2, <3>1, <3>3 DEF TypeInv, Up, Working
  <2> QED
    BY <2>5, <2>6
<1>11. CASE Plan
  <2>1. todo' \subseteq Months
    <3>1. ASSUME NEW l \in Moving
          PROVE  l \in Record
      <4>1. PICK i \in 1 .. Len(segs) - 1 : l \in Range(segs[i])
        BY <1>0, MovingLines
      <4>2. segs[i] \in Seq(Line)
        BY <1>0
      <4>3. l \in Line /\ Good(l)
        BY <1>11, <4>1, <4>2, InRange DEF Plan
      <4> QED
        BY <4>3 DEF Line, Good
    <3>2. todo' = {l.month : l \in Moving}
      BY <1>11 DEF Plan
    <3> QED
      BY <3>1, <3>2 DEF Record
  <2>2. Moving' = Moving /\ \A l \in Moving : Good(l)
    BY <1>11, <1>0 DEF Plan
  <2> QED
    BY <1>0, <1>11, <2>1, <2>2 DEF Plan, TypeInv, Up, Working, Good
<1>12. CASE WritePartition
  <2>1. UNCHANGED <<segs, synced, bytes, walSeq, ledger, batch, left, pc, month, answers>>
    BY <1>12 DEF WritePartition
  <2> QED
    BY <1>0, <1>12, <2>1, PartitionType DEF TypeInv, Up, Working, Good
<1>13. CASE CompactionFails
  BY <1>0, <1>13 DEF CompactionFails, TypeInv, Up, Working
<1>14. CASE RemoveSegment
  <2>1. /\ pc = "compact" /\ segs' = Tail(segs)
        /\ pc' = IF Len(segs) = 2 THEN "idle" ELSE "compact"
        /\ UNCHANGED <<synced, parquet, memory, month, answers>>
        /\ Len(segs) > 1 /\ \A l \in Moving : Good(l)
    BY <1>14 DEF RemoveSegment, TypeInv
  <2>2. segs \in Seq(Seq(Line)) /\ segs' = Tail(segs) /\ Len(segs) > 1
    BY <1>0, <2>1
  <2>3. \A l \in Moving' : l \in Moving
    <3>1. ASSUME NEW l \in Moving'
          PROVE  \E i \in 1 .. Len(segs') - 1 : l \in Range(segs'[i])
      BY <2>2, TailLonger, LinesBefore DEF Moving, Sealed
    <3>2. ASSUME NEW l, NEW i \in 1 .. Len(segs') - 1, l \in Range(segs'[i])
          PROVE  l \in Moving
      <4>1. /\ i + 1 \in 1 .. Len(segs) - 1 /\ i \in 1 .. Len(segs) - 1
            /\ segs'[i] = segs[i + 1]
        BY <2>2, TailLonger
      <4>2. l \in Range(segs[i + 1])
        BY <3>2, <4>1
      <4> QED
        BY <2>2, <4>1, <4>2, MovingLines
    <3> QED
      BY <3>1, <3>2
  <2>4. pc' = "compact" => Len(segs') > 1 /\ \A l \in Moving' : Good(l)
    <3>1. \A l \in Moving' : Good(l)
      BY <2>1, <2>3
    <3>2. pc' = "compact" => Len(segs') > 1
      <4>1. Len(segs) \in Nat /\ Len(segs) > 1 /\ Len(segs') = Len(segs) - 1
        BY <2>2, TailLonger
      <4>2. pc' = "compact" => Len(segs) # 2
        BY <2>1
      <4> QED
        BY <4>1, <4>2
    <3> QED
      BY <3>1, <3>2
  <2>6. segs' \in Seq(Seq(Line)) /\ segs' # <<>>
    BY <2>2, TailLonger
  <2>5. pc' \in {"idle", "compact"}
    BY <2>1
  <2> QED
    BY <1>0, <2>1, <2>4, <2>5, <2>6 DEF TypeInv, Up, Working, Good
<1>15. CASE PowerLoss
  <2>1. segs # <<>> /\ Len(segs) \in 1 .. Len(segs)
    BY <1>0, <1>15 DEF PowerLoss, TypeInv
  <2>2. segs[Len(segs)] \in Seq(Line)
    BY <1>0, <2>1
  <2>3. PICK k \in synced .. Len(Last(segs)), torn \in BOOLEAN :
          /\ segs' = [segs EXCEPT ![Len(segs)] =
               IF torn THEN Append(SubSeq(@, 1, k), Half) ELSE SubSeq(@, 1, k)]
          /\ synced' = IF torn THEN k + 1 ELSE k
    BY <1>15 DEF PowerLoss
  <2>4. k \in 0 .. Len(segs[Len(segs)]) /\ k \in Nat
    BY <2>2, <2>3 DEF TypeInv, Last
  <2>5. SubSeq(segs[Len(segs)], 1, k) \in Seq(Line)
    BY <2>2, <2>4, RangeOfPart
  <2>6. Append(SubSeq(segs[Len(segs)], 1, k), Half) \in Seq(Line)
    BY <2>5, AppendProperties DEF Line
  <2>7. segs' \in Seq(Seq(Line))
    BY <1>0, <2>1, <2>3, <2>5, <2>6, ExceptSeq
  <2>8. synced' \in Nat
    BY <2>3, <2>4
  <2>9. pc' = "down" /\ UNCHANGED <<parquet, memory, month, answers>>
    BY <1>15 DEF PowerLoss
  <2> QED
    BY <1>0, <2>7, <2>8, <2>9 DEF TypeInv, Up, Working
<1>16. CASE Kill
  <2>1. segs' \in Seq(Seq(Line))
    <3>1. CASE segs' = segs
      BY <1>0, <3>1
    <3>2. CASE segs' = [Target EXCEPT ![Len(Target)] = Written(@, <<Half, Half>>)]
      BY <1>16, <3>2, WriteType DEF Kill, TypeInv, Line, Up
    <3> QED
      BY <1>16, <3>1, <3>2 DEF Kill
  <2>2. synced' \in Nat /\ pc' = "down" /\ UNCHANGED <<parquet, memory, month, answers>>
    BY <1>16 DEF Kill, TypeInv
  <2> QED
    BY <1>0, <2>1, <2>2 DEF TypeInv, Up, Working
<1>17. CASE Clock
  BY <1>0, <1>17 DEF Clock, TypeInv, Up, Working, Good
<1>18. CASE UNCHANGED vars
  BY <1>0, <1>18 DEF TypeInv, Up, Working, Good
<1> QED
  BY <1>1, <1>2, <1>3, <1>4, <1>6, <1>7, <1>8, <1>9, <1>10, <1>11, <1>12, <1>13,
     <1>14, <1>15, <1>16, <1>17, <1>18 DEF Next

\* The types of the store, at every step of the writer, the compaction and the
\* host.
THEOREM StoreTypeCorrect == Spec => []StoreTypeOK
<1>1. TypeInv => StoreTypeOK
  <2> SUFFICES ASSUME TypeInv PROVE StoreTypeOK
    OBVIOUS
  <2>1. ASSUME NEW i \in DOMAIN segs, NEW l \in Range(segs[i])
        PROVE  l \in {Half, Bad} \/ l \in Record
    <3>1. segs[i] \in Seq(Line)
      BY DEF TypeInv
    <3> QED
      BY <3>1, InRange DEF Line
  <2>2. \A r \in Range(ledger) \cup Range(batch) \cup Range(left) : r \in Record
    BY InRange DEF TypeInv
  <2> QED
    BY <2>1, <2>2 DEF TypeInv, StoreTypeOK
<1> QED
  BY <1>1, TypeInit, TypeNext, PTL DEF Spec

-----------------------------------------------------------------------------
(* The ledger has no gap *)

\* What the writer holds continues where the ledger ends.
ChainInv ==
  /\ TypeInv
  /\ NoGap(ledger, 0)
  /\ Working => NoGap(batch, Len(ledger))

\* Every step keeps the chain.
LEMMA ChainNext == ChainInv /\ [Next]_vars => ChainInv'
<1> SUFFICES ASSUME ChainInv, [Next]_vars PROVE ChainInv'
  OBVIOUS
<1>0. TypeInv /\ TypeInv'
  BY TypeNext DEF ChainInv
<1>1. CASE Boot
  <2>1. NoGap(Replayable, 0) /\ ledger' = Replayable /\ pc' = "idle"
    BY <1>0, <1>1, BootReads DEF Boot
  <2> QED
    BY <1>0, <2>1 DEF ChainInv, Working, NoGap
<1>2. ASSUME NEW n \in BatchSizes, Propose(n)
      PROVE  ChainInv'
  <2>1. /\ batch' \in Seq(Record) /\ Len(batch') = n
        /\ \A i \in 1 .. n : batch'[i].seq = Len(ledger) + i - 1
    BY <1>0, <1>2, ProposedBatch
  <2>2. DOMAIN batch' = 1 .. n
    BY <2>1
  <2>3. ledger' = ledger
    BY <1>2 DEF Propose
  <2> QED
    BY <1>0, <2>1, <2>2, <2>3 DEF ChainInv, NoGap
<1>3. CASE Commit
  <2>1. NoGap(ledger, 0) /\ NoGap(batch, Len(ledger))
    BY <1>3 DEF ChainInv, Commit, Working
  <2>2. NoGap(ledger \o batch, 0)
    BY <1>0, <2>1, ChainJoined DEF TypeInv
  <2>3. ledger' = ledger \o batch /\ pc' = "idle"
    BY <1>3 DEF Commit
  <2> QED
    BY <1>0, <2>2, <2>3 DEF ChainInv, Working, NoGap
<1>4. ASSUME UNCHANGED ledger, ~ Working' \/ (Working /\ UNCHANGED batch)
      PROVE  ChainInv'
  BY <1>0, <1>4 DEF ChainInv, NoGap
<1> USE DEF Working, vars, disk, memory, answers
<1>5. CASE RefuseBoot
  BY <1>4, <1>5 DEF RefuseBoot
<1>6. CASE WriteRecord
  BY <1>4, <1>6 DEF WriteRecord
<1>7. CASE WriteFails \/ AppendRefused \/ SyncFails
  BY <1>4, <1>7 DEF WriteFails, AppendRefused, SyncFails, Fail
<1>8. CASE Sync
  BY <1>4, <1>8 DEF Sync
<1>9. CASE SealAndPlan \/ Plan
  BY <1>4, <1>9 DEF SealAndPlan, Plan
<1>10. CASE WritePartition
  BY <1>4, <1>10 DEF WritePartition
<1>11. CASE CompactionFails \/ RemoveSegment
  BY <1>4, <1>11 DEF CompactionFails, RemoveSegment
<1>12. CASE PowerLoss \/ Kill
  BY <1>4, <1>12 DEF PowerLoss, Kill
<1>13. CASE Clock
  BY <1>4, <1>13 DEF Clock
<1>14. CASE UNCHANGED vars
  BY <1>4, <1>14
<1> QED
  BY <1>1, <1>2, <1>3, <1>5, <1>6, <1>7, <1>8, <1>9, <1>10, <1>11, <1>12, <1>13,
     <1>14 DEF Next

\* The initial ledger is the empty chain.
LEMMA ChainInit == Init => ChainInv
BY TypeInit DEF Init, ChainInv, NoGap, Working

-----------------------------------------------------------------------------
(* Lines, segments and their order *)

\* The lines of all segments, and of those before the last.
Lines(ss)  == UNION {Range(ss[i]) : i \in 1 .. Len(ss)}
Sooner(ss) == UNION {Range(ss[i]) : i \in 1 .. Len(ss) - 1}

\* Each record of A is numbered below each of B.
Under(A, B) == \A a \in A, b \in B : a \in Record /\ b \in Record => a.seq < b.seq

\* A segment's records are in order, and segments follow each other.
Rising(s) ==
  \A i, j \in 1 .. Len(s) : i < j => Under({s[i]}, {s[j]})
Ordered(ss) ==
  /\ \A i \in 1 .. Len(ss) : Rising(ss[i])
  /\ \A i, k \in 1 .. Len(ss) : i < k => Under(Range(ss[i]), Range(ss[k]))

\* The last segment's lines come after the others.
LEMMA LinesSplit ==
  ASSUME NEW ss \in Seq(Seq(Line)), ss # <<>>
  PROVE  /\ Len(ss) \in 1 .. Len(ss) /\ ss[Len(ss)] \in Seq(Line)
         /\ Lines(ss) = Sooner(ss) \cup Range(ss[Len(ss)])
         /\ Ordered(ss) => Under(Sooner(ss), Range(ss[Len(ss)]))
<1>1. Len(ss) \in 1 .. Len(ss) /\ Len(ss) \in Nat
  OBVIOUS
<1>2. 1 .. Len(ss) = (1 .. Len(ss) - 1) \cup {Len(ss)}
  BY <1>1
<1>3. Lines(ss) = Sooner(ss) \cup Range(ss[Len(ss)])
  BY <1>2 DEF Lines, Sooner
<1>4. ASSUME Ordered(ss), NEW a \in Sooner(ss), NEW b \in Range(ss[Len(ss)]),
             a \in Record, b \in Record
      PROVE  a.seq < b.seq
  <2>1. PICK i \in 1 .. Len(ss) - 1 : a \in Range(ss[i])
    BY DEF Sooner
  <2>2. i \in 1 .. Len(ss) /\ i < Len(ss)
    BY <1>1
  <2>3. Under(Range(ss[i]), Range(ss[Len(ss)]))
    BY <1>1, <1>4, <2>2 DEF Ordered
  <2> QED
    BY <1>4, <2>1, <2>3 DEF Under
<1> QED
  BY <1>1, <1>3, <1>4 DEF Under

\* A new segment: the last one is now among the others.
LEMMA SegmentAdded ==
  ASSUME NEW ss \in Seq(Seq(Line)), NEW tt, tt = Append(ss, <<>>)
  PROVE  /\ tt \in Seq(Seq(Line)) /\ tt # <<>>
         /\ Len(tt) = Len(ss) + 1 /\ tt[Len(tt)] = <<>>
         /\ Sooner(tt) = Lines(ss) /\ Lines(tt) = Lines(ss)
         /\ Ordered(ss) => Ordered(tt)
<1>1. /\ tt \in Seq(Seq(Line)) /\ Len(tt) = Len(ss) + 1 /\ Len(ss) \in Nat
      /\ \A i \in 1 .. Len(ss) : tt[i] = ss[i]
      /\ tt[Len(ss) + 1] = <<>>
  BY AppendProperties
<1>2. Sooner(tt) = Lines(ss)
  BY <1>1 DEF Sooner, Lines
<1>3. tt # <<>> /\ Range(tt[Len(tt)]) = {}
  BY <1>1 DEF Range
<1>4. Lines(tt) = Lines(ss)
  BY <1>1, <1>2, <1>3, LinesSplit
<1>5. ASSUME Ordered(ss)
      PROVE  Ordered(tt)
  <2>1. ASSUME NEW i \in 1 .. Len(tt)
        PROVE  Rising(tt[i])
    <3>1. CASE i = Len(tt)
      BY <1>1, <3>1 DEF Rising
    <3>2. CASE i # Len(tt)
      <4>1. i \in 1 .. Len(ss)
        BY <1>1, <3>2
      <4> QED
        BY <1>1, <1>5, <4>1 DEF Ordered
    <3> QED
      BY <3>1, <3>2
  <2>2. ASSUME NEW i \in 1 .. Len(tt), NEW k \in 1 .. Len(tt), i < k
        PROVE  Under(Range(tt[i]), Range(tt[k]))
    <3>1. CASE k = Len(tt)
      BY <1>3, <3>1 DEF Under
    <3>2. CASE k # Len(tt)
      <4>1. k \in 1 .. Len(ss)
        BY <1>1, <3>2
      <4>2. i \in 1 .. Len(ss)
        BY <2>2, <4>1
      <4> QED
        BY <1>1, <1>5, <2>2, <4>1, <4>2 DEF Ordered
    <3> QED
      BY <3>1, <3>2
  <2> QED
    BY <2>1, <2>2 DEF Ordered
<1> QED
  BY <1>1, <1>2, <1>3, <1>4, <1>5

\* Segments that differ only in the last.
LEMMA LastDiffers ==
  ASSUME NEW ss \in Seq(Seq(Line)), ss # <<>>, NEW t \in Seq(Line),
         NEW tt \in Seq(Seq(Line)), Len(tt) = Len(ss), tt[Len(ss)] = t,
         \A i \in 1 .. Len(ss) - 1 : tt[i] = ss[i]
  PROVE  /\ tt # <<>> /\ tt[Len(tt)] = t
         /\ Sooner(tt) = Sooner(ss) /\ Lines(tt) = Sooner(ss) \cup Range(t)
         /\ Ordered(ss) /\ Rising(t) /\ Under(Sooner(ss), Range(t)) => Ordered(tt)
<1>1. Len(ss) \in 1 .. Len(ss) /\ Len(ss) \in Nat
  OBVIOUS
<1>2. Len(tt) = Len(ss) /\ tt[Len(tt)] = t /\ tt[Len(ss)] = t
  OBVIOUS
<1>3. tt # <<>>
  BY <1>1
<1>4. \A i \in 1 .. Len(ss) - 1 : tt[i] = ss[i]
  OBVIOUS
<1>5. Sooner(tt) = Sooner(ss)
  BY <1>2, <1>4 DEF Sooner
<1>6. Lines(tt) = Sooner(ss) \cup Range(t)
  BY <1>2, <1>3, <1>5, LinesSplit
<1>7. ASSUME Ordered(ss), Rising(t), Under(Sooner(ss), Range(t))
      PROVE  Ordered(tt)
  <2>1. ASSUME NEW i \in 1 .. Len(tt)
        PROVE  Rising(tt[i])
    BY <1>2, <1>7 DEF Ordered
  <2>2. ASSUME NEW i \in 1 .. Len(tt), NEW k \in 1 .. Len(tt), i < k
        PROVE  Under(Range(tt[i]), Range(tt[k]))
    <3>0. i \in 1 .. Len(ss) - 1 /\ tt[i] = ss[i]
      BY <1>1, <1>2, <1>4, <2>2
    <3>1. CASE k = Len(tt)
      <4>1. Range(ss[i]) \subseteq Sooner(ss)
        BY <3>0 DEF Sooner
      <4> QED
        BY <1>2, <1>7, <3>0, <3>1, <4>1 DEF Under
    <3>2. CASE k # Len(tt)
      <4>1. i \in 1 .. Len(ss) /\ k \in 1 .. Len(ss) /\ tt[k] = ss[k]
        BY <1>1, <1>2, <3>0, <3>2
      <4> QED
        BY <1>7, <2>2, <3>0, <4>1 DEF Ordered
    <3> QED
      BY <3>1, <3>2
  <2> QED
    BY <2>1, <2>2 DEF Ordered
<1> QED
  BY <1>2, <1>3, <1>5, <1>6, <1>7

\* The last segment replaced.
LEMMA LastReplaced ==
  ASSUME NEW ss \in Seq(Seq(Line)), ss # <<>>, NEW t \in Seq(Line)
  PROVE  LET tt == [ss EXCEPT ![Len(ss)] = t] IN
         /\ tt \in Seq(Seq(Line)) /\ tt # <<>> /\ Len(tt) = Len(ss)
         /\ tt[Len(tt)] = t
         /\ Sooner(tt) = Sooner(ss) /\ Lines(tt) = Sooner(ss) \cup Range(t)
         /\ Ordered(ss) /\ Rising(t) /\ Under(Sooner(ss), Range(t)) => Ordered(tt)
<1> DEFINE tt == [ss EXCEPT ![Len(ss)] = t]
<1>1. Len(ss) \in 1 .. Len(ss) /\ Len(ss) \in Nat
  OBVIOUS
<1>2. tt \in Seq(Seq(Line)) /\ Len(tt) = Len(ss) /\ tt[Len(ss)] = t
      /\ \A i \in 1 .. Len(ss) : i # Len(ss) => tt[i] = ss[i]
  BY <1>1, ExceptSeq
<1> HIDE DEF tt
<1>3. \A i \in 1 .. Len(ss) - 1 : i \in 1 .. Len(ss) /\ i # Len(ss)
  BY <1>1
<1>4. \A i \in 1 .. Len(ss) - 1 : tt[i] = ss[i]
  BY <1>2, <1>3
<1>5. /\ tt # <<>> /\ tt[Len(tt)] = t
      /\ Sooner(tt) = Sooner(ss) /\ Lines(tt) = Sooner(ss) \cup Range(t)
      /\ Ordered(ss) /\ Rising(t) /\ Under(Sooner(ss), Range(t)) => Ordered(tt)
  BY <1>2, <1>4, LastDiffers
<1> QED
  BY <1>2, <1>5 DEF tt

\* The first of several segments gone.
LEMMA FirstGone ==
  ASSUME NEW ss \in Seq(Seq(Line)), Len(ss) > 1, NEW tt, tt = Tail(ss)
  PROVE  /\ tt \in Seq(Seq(Line)) /\ tt # <<>>
         /\ tt[Len(tt)] = ss[Len(ss)]
         /\ Sooner(ss) = Range(ss[1]) \cup Sooner(tt)
         /\ Lines(ss) = Range(ss[1]) \cup Lines(tt)
         /\ Ordered(ss) => Ordered(tt) /\ Under(Range(ss[1]), Lines(tt))
<1>1. /\ tt \in Seq(Seq(Line)) /\ tt # <<>>
      /\ Len(ss) \in Nat /\ Len(tt) = Len(ss) - 1
      /\ \A i \in 1 .. Len(ss) - 1 : tt[i] = ss[i + 1]
  BY TailLonger
<1>2. tt[Len(tt)] = ss[Len(ss)]
  BY <1>1
<1>3. ss # <<>>
  OBVIOUS
<1>4. Sooner(ss) = Range(ss[1]) \cup Sooner(tt)
  <2>1. ASSUME NEW l \in Sooner(ss)
        PROVE  l \in Range(ss[1]) \cup Sooner(tt)
    <3>1. PICK i \in 1 .. Len(ss) - 1 : l \in Range(ss[i])
      BY DEF Sooner
    <3>2. CASE i = 1
      BY <3>1, <3>2
    <3>3. CASE i # 1
      <4>1. i - 1 \in 1 .. Len(tt) - 1 /\ i - 1 \in 1 .. Len(ss) - 1
        BY <1>1, <3>3
      <4>2. tt[i - 1] = ss[(i - 1) + 1] /\ (i - 1) + 1 = i
        BY <1>1, <4>1
      <4> QED
        BY <3>1, <4>1, <4>2 DEF Sooner
    <3> QED
      BY <3>2, <3>3
  <2>2. Range(ss[1]) \subseteq Sooner(ss)
    <3>1. 1 \in 1 .. Len(ss) - 1
      BY <1>1
    <3> QED
      BY <3>1 DEF Sooner
  <2>3. ASSUME NEW l \in Sooner(tt)
        PROVE  l \in Sooner(ss)
    <3>1. PICK i \in 1 .. Len(tt) - 1 : l \in Range(tt[i])
      BY DEF Sooner
    <3>2. i \in 1 .. Len(ss) - 1 /\ i + 1 \in 1 .. Len(ss) - 1
      BY <1>1
    <3> QED
      BY <1>1, <3>1, <3>2 DEF Sooner
  <2> QED
    BY <2>1, <2>2, <2>3
<1>5. Lines(ss) = Range(ss[1]) \cup Lines(tt)
  BY <1>1, <1>2, <1>3, <1>4, LinesSplit
<1>6. ASSUME Ordered(ss)
      PROVE  Ordered(tt)
  <2>1. ASSUME NEW i \in 1 .. Len(tt)
        PROVE  i + 1 \in 1 .. Len(ss) /\ tt[i] = ss[i + 1]
    BY <1>1
  <2>2. \A i \in 1 .. Len(tt) : Rising(tt[i])
    BY <1>6, <2>1 DEF Ordered
  <2>3. ASSUME NEW i \in 1 .. Len(tt), NEW k \in 1 .. Len(tt), i < k
        PROVE  Under(Range(tt[i]), Range(tt[k]))
    <3>1. i + 1 \in 1 .. Len(ss) /\ k + 1 \in 1 .. Len(ss) /\ i + 1 < k + 1
      BY <2>1, <2>3
    <3>2. Under(Range(ss[i + 1]), Range(ss[k + 1]))
      BY <1>6, <3>1 DEF Ordered
    <3> QED
      BY <2>1, <3>2
  <2> QED
    BY <2>2, <2>3 DEF Ordered
<1>7. ASSUME Ordered(ss), NEW l \in Lines(tt)
      PROVE  Under(Range(ss[1]), {l})
  <2>1. PICK i \in 1 .. Len(tt) : l \in Range(tt[i])
    BY DEF Lines
  <2>2. /\ i + 1 \in 1 .. Len(ss) /\ 1 \in 1 .. Len(ss) /\ 1 < i + 1
        /\ tt[i] = ss[i + 1]
    BY <1>1
  <2>3. Under(Range(ss[1]), Range(ss[i + 1]))
    BY <1>7, <2>2 DEF Ordered
  <2> QED
    BY <2>1, <2>2, <2>3 DEF Under
<1> QED
  BY <1>1, <1>2, <1>4, <1>5, <1>6, <1>7 DEF Under

\* A line added to a segment.
LEMMA LineAdded ==
  ASSUME NEW t \in Seq(Line), NEW x \in Line
  PROVE  LET u == Append(t, x) IN
         /\ u \in Seq(Line) /\ Len(u) = Len(t) + 1 /\ Len(t) \in Nat
         /\ \A i \in 1 .. Len(t) : u[i] = t[i]
         /\ u[Len(u)] = x
         /\ Range(u) = Range(t) \cup {x}
         /\ Rising(t) /\ Under(Range(t), {x}) => Rising(u)
<1> DEFINE u == Append(t, x)
<1>1. /\ u \in Seq(Line) /\ Len(u) = Len(t) + 1 /\ Len(t) \in Nat
      /\ \A i \in 1 .. Len(t) : u[i] = t[i]
      /\ u[Len(t) + 1] = x
  BY AppendProperties
<1>2. Range(u) = Range(t) \cup {x}
  BY RangeAppend
<1> HIDE DEF u
<1>3. ASSUME Rising(t), Under(Range(t), {x}),
             NEW i \in 1 .. Len(u), NEW j \in 1 .. Len(u), i < j
      PROVE  Under({u[i]}, {u[j]})
  <2>1. i \in 1 .. Len(t) /\ u[i] = t[i]
    BY <1>1, <1>3
  <2>2. t[i] \in Range(t)
    BY <2>1, InRange
  <2>3. CASE j = Len(u)
    BY <1>1, <1>3, <2>1, <2>2, <2>3 DEF Under
  <2>4. CASE j # Len(u)
    <3>1. j \in 1 .. Len(t) /\ u[j] = t[j]
      BY <1>1, <2>4
    <3> QED
      BY <1>3, <2>1, <3>1 DEF Rising
  <2> QED
    BY <2>3, <2>4
<1> QED
  BY <1>1, <1>2, <1>3 DEF Rising, u

\* A segment that is the first k lines of another.
LEMMA LinesKept ==
  ASSUME NEW t \in Seq(Line), NEW k \in 0 .. Len(t), NEW u \in Seq(Line),
         Len(u) = k, \A i \in 1 .. k : u[i] = t[i]
  PROVE  /\ \A i \in 1 .. k : i \in 1 .. Len(t) /\ u[i] = t[i]
         /\ Rising(t) => Rising(u) /\ Under(Range(u), Range(t) \ Range(u))
<1>0. \A x : x \in Range(u) <=> \E i \in 1 .. Len(u) : u[i] = x
  BY InRange
<1>1. \A i \in 1 .. k : u[i] = t[i]
  OBVIOUS
<1>2. \A i \in 1 .. k : i \in 1 .. Len(t)
  OBVIOUS
<1>3. Rising(t) => Rising(u)
  BY <1>1, <1>2 DEF Rising
<1>4. ASSUME Rising(t), NEW a \in Range(u), NEW b \in Range(t) \ Range(u)
      PROVE  Under({a}, {b})
  <2>1. PICK i \in 1 .. k : a = u[i]
    BY <1>0
  <2>2. PICK j \in 1 .. Len(t) : b = t[j]
    BY InRange
  <2>3. ~ (j <= k)
    <3>1. SUFFICES ASSUME j <= k PROVE FALSE
      OBVIOUS
    <3>2. j \in 1 .. k /\ u[j] = b
      BY <1>1, <2>2, <3>1
    <3>3. b \in Range(u)
      BY <1>0, <3>2
    <3> QED
      BY <3>3
  <2>4. i \in 1 .. Len(t) /\ i < j /\ a = t[i]
    BY <1>1, <1>2, <2>1, <2>3
  <2> QED
    BY <1>4, <2>2, <2>4 DEF Rising
<1> QED
  BY <1>1, <1>2, <1>3, <1>4 DEF Under

\* The first k lines of a segment: what is cut off is numbered above them.
LEMMA LinesCut ==
  ASSUME NEW t \in Seq(Line), NEW k \in 0 .. Len(t)
  PROVE  LET u == SubSeq(t, 1, k) IN
         /\ u \in Seq(Line) /\ Len(u) = k
         /\ \A i \in 1 .. k : i \in 1 .. Len(t) /\ u[i] = t[i]
         /\ Range(u) \subseteq Range(t)
         /\ Rising(t) => Rising(u) /\ Under(Range(u), Range(t) \ Range(u))
<1> DEFINE u == SubSeq(t, 1, k)
<1>1. /\ u \in Seq(Line) /\ Len(u) = k /\ Range(u) \subseteq Range(t)
      /\ \A i \in 1 .. k : u[i] = t[i]
  BY RangeOfPart
<1> HIDE DEF u
<1>2. /\ \A i \in 1 .. k : i \in 1 .. Len(t) /\ u[i] = t[i]
      /\ Rising(t) => Rising(u) /\ Under(Range(u), Range(t) \ Range(u))
  BY <1>1, LinesKept
<1> QED
  BY <1>1, <1>2 DEF u

-----------------------------------------------------------------------------
(* What each step does to the log *)

\* The lines of a segment that an fsync has reached.
FirstLines(t, k) == {t[i] : i \in {j \in 1 .. Len(t) : j <= k}}

\* The records in the log, all that are stored, and those a crash leaves.
Logged  == Lines(segs) \cap Record
Stored  == Archived \cup Logged
Flushed == IF segs = <<>> THEN {} ELSE FirstLines(segs[Len(segs)], synced)
Safe    == Archived \cup ((Sooner(segs) \cup Flushed) \cap Record)

\* While the writer runs, every line is a record.
WholeLines == Up => Lines(segs) \subseteq Record

\* Every line but the very last is a record.
FullDisk(ss) ==
  /\ Sooner(ss) \subseteq Record
  /\ ss # <<>> => \A j \in 1 .. Len(ss[Len(ss)]) - 1 : ss[Len(ss)][j] \in Record

\* More lines, or more of them fsynced, and none is lost.
LEMMA FirstLinesGrow ==
  ASSUME NEW t \in Seq(Line), NEW u \in Seq(Line), NEW k \in Nat, NEW m \in Nat,
         \A i \in 1 .. Len(t) : i <= k => i <= m /\ i <= Len(u) /\ u[i] = t[i]
  PROVE  FirstLines(t, k) \subseteq FirstLines(u, m)
<1>1. ASSUME NEW i \in 1 .. Len(t), i <= k
      PROVE  i \in 1 .. Len(u) /\ i <= m /\ u[i] = t[i]
  <2>1. i <= Len(u) /\ i <= m /\ u[i] = t[i]
    BY <1>1
  <2> QED
    BY <2>1
<1> QED
  BY <1>1 DEF FirstLines

\* What is fsynced of a segment is of the segment.
LEMMA FirstLinesIn ==
  ASSUME NEW t \in Seq(Line), NEW k
  PROVE  FirstLines(t, k) \subseteq Range(t)
BY InRange DEF FirstLines

\* A line written to the end of the log, in a segment of its own when the last
\* one is full.
LEMMA LineWritten ==
  ASSUME TypeInv, Up, Lines(segs) \subseteq Record, NEW x \in Line, NEW y,
         segs' = [Target EXCEPT ![Len(Target)] = Written(@, <<x, y>>)],
         synced' = IF Full THEN 0 ELSE synced
  PROVE  /\ segs' \in Seq(Seq(Line)) /\ segs' # <<>>
         /\ Lines(segs') = Lines(segs) \cup {x}
         /\ Sooner(segs) \subseteq Sooner(segs') /\ Sooner(segs') \subseteq Lines(segs)
         /\ Sooner(segs) \cup Flushed \subseteq Sooner(segs') \cup Flushed'
         /\ Ordered(segs) /\ Under(Lines(segs), {x}) => Ordered(segs')
         /\ FullDisk(segs')
<1> DEFINE last == Target[Len(Target)]
<1>0. segs \in Seq(Seq(Line)) /\ segs # <<>> /\ synced \in Nat
  BY DEF TypeInv
<1>1. /\ Target \in Seq(Seq(Line)) /\ Target # <<>>
      /\ Lines(Target) = Lines(segs)
      /\ Sooner(segs) \subseteq Sooner(Target) /\ Sooner(Target) \subseteq Lines(segs)
      /\ Ordered(segs) => Ordered(Target)
      /\ Len(Target) = IF Full THEN Len(segs) + 1 ELSE Len(segs)
  <2>1. CASE Full
    <3>1. Target = Append(segs, <<>>)
      BY <2>1 DEF Target
    <3>2. Sooner(segs) \subseteq Lines(segs)
      BY <1>0, LinesSplit
    <3> QED
      BY <1>0, <2>1, <3>1, <3>2, SegmentAdded
  <2>2. CASE ~ Full
    <3>1. Target = segs
      BY <2>2 DEF Target
    <3> QED
      BY <1>0, <2>2, <3>1, LinesSplit
  <2> QED
    BY <2>1, <2>2
<1>2. /\ last \in Seq(Line) /\ Lines(segs) = Sooner(Target) \cup Range(last)
      /\ Ordered(Target) => Rising(last)
  <2>1. Ordered(Target) => Rising(Target[Len(Target)])
    BY <1>1, LinesSplit DEF Ordered
  <2> QED
    BY <1>1, <2>1, LinesSplit
<1>3. Written(last, <<x, y>>) = Append(last, x)
  <2>1. CASE last = <<>>
    BY <2>1 DEF Written
  <2>2. CASE last # <<>>
    <3>1. Len(last) \in 1 .. Len(last)
      BY <1>2, <2>2
    <3>2. last[Len(last)] \in Range(last)
      BY <1>2, <3>1, InRange
    <3>3. last[Len(last)] \in Record
      BY <1>2, <3>2
    <3>4. Last(last) # Half
      BY <3>3, LinesAssumption DEF Last
    <3> QED
      BY <3>4 DEF Written
  <2> QED
    BY <2>1, <2>2
<1> DEFINE u == Append(last, x)
<1>4. segs' = [Target EXCEPT ![Len(Target)] = u]
  BY <1>3
<1>5. /\ u \in Seq(Line) /\ Range(u) = Range(last) \cup {x}
      /\ Len(u) = Len(last) + 1 /\ Len(last) \in Nat
      /\ \A i \in 1 .. Len(last) : u[i] = last[i]
      /\ Rising(last) /\ Under(Range(last), {x}) => Rising(u)
  <2>1. last \in Seq(Line)
    BY <1>2
  <2> HIDE DEF last
  <2> QED
    BY <2>1, LineAdded
<1> HIDE DEF u, last
<1>6. /\ segs' \in Seq(Seq(Line)) /\ segs' # <<>> /\ Len(segs') = Len(Target)
      /\ segs'[Len(segs')] = u
      /\ Sooner(segs') = Sooner(Target)
      /\ Lines(segs') = Sooner(Target) \cup Range(u)
      /\ Ordered(Target) /\ Rising(u) /\ Under(Sooner(Target), Range(u))
           => Ordered(segs')
  BY <1>1, <1>4, <1>5, LastReplaced
<1>7. Lines(segs') = Lines(segs) \cup {x}
  BY <1>2, <1>5, <1>6
<1>8. ASSUME Ordered(segs), Under(Lines(segs), {x})
      PROVE  Ordered(segs')
  <2>1. Ordered(Target) /\ Rising(last)
    BY <1>1, <1>2, <1>8
  <2>2. Under(Sooner(Target), Range(last))
    BY <1>1, <2>1, LinesSplit DEF last
  <2>3. Rising(u)
    BY <1>2, <1>5, <1>8, <2>1 DEF Under
  <2>4. Under(Sooner(Target), Range(u))
    BY <1>2, <1>5, <1>8, <2>2 DEF Under
  <2> QED
    BY <1>6, <2>1, <2>3, <2>4
<1>9. Sooner(segs) \cup Flushed \subseteq Sooner(segs') \cup Flushed'
  <2>1. CASE Full
    <3>1. Target = Append(segs, <<>>)
      BY <2>1 DEF Target
    <3>2. Sooner(segs') = Lines(segs)
      BY <1>0, <1>6, <3>1, SegmentAdded
    <3>3. Flushed \subseteq Range(segs[Len(segs)])
      BY <1>0, LinesSplit, FirstLinesIn DEF Flushed
    <3> QED
      BY <1>0, <3>2, <3>3, LinesSplit
  <2>2. CASE ~ Full
    <3>1. Target = segs /\ last = segs[Len(segs)] /\ synced' = synced
      BY <2>2 DEF Target, last
    <3>2. FirstLines(last, synced) \subseteq FirstLines(u, synced)
      <4>1. ASSUME NEW i \in 1 .. Len(last), i <= synced
            PROVE  i <= Len(u) /\ u[i] = last[i]
        BY <1>5
      <4> QED
        BY <1>0, <1>2, <1>5, <4>1, FirstLinesGrow
    <3>3. Flushed = FirstLines(last, synced) /\ Flushed' = FirstLines(u, synced)
      BY <1>0, <1>6, <3>1 DEF Flushed
    <3> QED
      BY <1>6, <3>1, <3>2, <3>3
  <2> QED
    BY <2>1, <2>2
<1>10. FullDisk(segs')
  <2>1. Sooner(segs') \subseteq Record
    BY <1>1, <1>6
  <2>2. ASSUME NEW j \in 1 .. Len(u) - 1
        PROVE  u[j] \in Record
    <3>1. j \in 1 .. Len(last)
      BY <1>5
    <3>2. u[j] = last[j] /\ last[j] \in Range(last)
      BY <1>2, <1>5, <3>1, InRange
    <3> QED
      BY <1>2, <3>2
  <2> QED
    BY <1>6, <2>1, <2>2 DEF FullDisk
<1> QED
  BY <1>1, <1>6, <1>7, <1>8, <1>9, <1>10

\* A crash in the middle of a write leaves half a line.
LEMMA KillWrites ==
  ASSUME TypeInv, Kill, Lines(segs) \subseteq Record,
         segs' = [Target EXCEPT ![Len(Target)] = Written(@, <<Half, Half>>)]
  PROVE  /\ segs' \in Seq(Seq(Line)) /\ segs' # <<>>
         /\ Lines(segs') = Lines(segs) \cup {Half}
         /\ Sooner(segs) \subseteq Sooner(segs') /\ Sooner(segs') \subseteq Lines(segs)
         /\ Sooner(segs) \cup Flushed \subseteq Sooner(segs') \cup Flushed'
         /\ Ordered(segs) /\ Under(Lines(segs), {Half}) => Ordered(segs')
         /\ FullDisk(segs')
<1>1. Up /\ segs \in Seq(Seq(Line)) /\ segs # <<>> /\ Half \in Line
  BY DEF TypeInv, Kill, Line
<1>2. Target \in Seq(Seq(Line)) /\ Target # <<>>
      /\ Len(Target) = IF Full THEN Len(segs) + 1 ELSE Len(segs)
  BY <1>1, SegmentAdded DEF Target
<1>3. Len(segs') = Len(Target) /\ Len(segs) \in Nat
  BY <1>1, <1>2
<1>4. synced' = IF Full THEN 0 ELSE synced
  BY <1>2, <1>3 DEF Kill
<1> QED
  BY <1>1, <1>4, LineWritten

\* A segment opened: nothing else changes.
LEMMA Sealed1 ==
  ASSUME TypeInv, segs # <<>>, segs' = Append(segs, <<>>)
  PROVE  /\ segs' \in Seq(Seq(Line)) /\ segs' # <<>>
         /\ Lines(segs') = Lines(segs) /\ Sooner(segs') = Lines(segs)
         /\ Sooner(segs) \cup Flushed \subseteq Sooner(segs')
         /\ Ordered(segs) => Ordered(segs')
<1>1. segs \in Seq(Seq(Line))
  BY DEF TypeInv
<1>2. Flushed \subseteq Range(segs[Len(segs)])
  BY <1>1, LinesSplit, FirstLinesIn DEF Flushed
<1>3. /\ segs' \in Seq(Seq(Line)) /\ segs' # <<>>
      /\ Lines(segs') = Lines(segs) /\ Sooner(segs') = Lines(segs)
      /\ Ordered(segs) => Ordered(segs')
  BY <1>1, SegmentAdded
<1>4. Lines(segs) = Sooner(segs) \cup Range(segs[Len(segs)])
  BY <1>1, LinesSplit
<1> QED
  BY <1>2, <1>3, <1>4

\* The oldest segment removed.
LEMMA Removed ==
  ASSUME TypeInv, Len(segs) > 1, segs' = Tail(segs), synced' = synced
  PROVE  /\ segs' \in Seq(Seq(Line)) /\ segs' # <<>>
         /\ Sooner(segs) = Range(segs[1]) \cup Sooner(segs')
         /\ Lines(segs) = Range(segs[1]) \cup Lines(segs')
         /\ Flushed' = Flushed
         /\ Ordered(segs) => Ordered(segs') /\ Under(Range(segs[1]), Lines(segs'))
<1>1. segs \in Seq(Seq(Line)) /\ segs # <<>>
  BY DEF TypeInv
<1>2. /\ segs' \in Seq(Seq(Line)) /\ segs' # <<>>
      /\ segs'[Len(segs')] = segs[Len(segs)]
      /\ Sooner(segs) = Range(segs[1]) \cup Sooner(segs')
      /\ Lines(segs) = Range(segs[1]) \cup Lines(segs')
      /\ Ordered(segs) => Ordered(segs') /\ Under(Range(segs[1]), Lines(segs'))
  BY <1>1, FirstGone
<1>3. Flushed' = Flushed
  BY <1>1, <1>2 DEF Flushed
<1> QED
  BY <1>2, <1>3

\* Power lost: what is left of the log is numbered below what is gone, and
\* what was fsynced is left.
LEMMA PowerLog ==
  ASSUME TypeInv, PowerLoss, Ordered(segs)
  PROVE  /\ segs' \in Seq(Seq(Line)) /\ segs' # <<>>
         /\ Sooner(segs') = Sooner(segs)
         /\ Logged' \subseteq Logged /\ Under(Logged', Logged \ Logged')
         /\ Flushed \subseteq Flushed'
         /\ Ordered(segs')
         /\ WholeLines => FullDisk(segs')
<1> DEFINE t == segs[Len(segs)]
<1>0. segs \in Seq(Seq(Line)) /\ segs # <<>> /\ synced \in Nat
  BY DEF TypeInv, PowerLoss
<1>1. PICK k \in synced .. Len(t), torn \in BOOLEAN :
        /\ segs' = [segs EXCEPT ![Len(segs)] =
             IF torn THEN Append(SubSeq(@, 1, k), Half) ELSE SubSeq(@, 1, k)]
        /\ synced' = IF torn THEN k + 1 ELSE k
  BY DEF PowerLoss, Last
<1> DEFINE v == SubSeq(t, 1, k)
           u == IF torn THEN Append(v, Half) ELSE v
<1>2. t \in Seq(Line) /\ Lines(segs) = Sooner(segs) \cup Range(t)
      /\ Under(Sooner(segs), Range(t)) /\ Rising(t)
  BY <1>0, LinesSplit DEF Ordered
<1>3. segs' = [segs EXCEPT ![Len(segs)] = u]
  BY <1>1
<1> HIDE DEF t
<1>4. Len(t) \in Nat /\ k \in 0 .. Len(t) /\ k \in Nat /\ synced <= k
  BY <1>0, <1>1, <1>2
<1>5. /\ v \in Seq(Line) /\ Len(v) = k /\ \A i \in 1 .. k : v[i] = t[i]
      /\ Range(v) \subseteq Range(t)
      /\ Rising(v) /\ Under(Range(v), Range(t) \ Range(v))
  BY <1>2, <1>4, LinesCut
<1> HIDE DEF v
<1>6. Half \in Line /\ Half \notin Record
  BY LinesAssumption DEF Line
<1>7. /\ Append(v, Half) \in Seq(Line) /\ Len(Append(v, Half)) = k + 1
      /\ \A i \in 1 .. k : Append(v, Half)[i] = v[i]
      /\ Range(Append(v, Half)) = Range(v) \cup {Half}
      /\ Rising(Append(v, Half))
  <2>1. Under(Range(v), {Half})
    BY <1>6 DEF Under
  <2> QED
    BY <1>5, <1>6, <2>1, LineAdded
<1>8. /\ u \in Seq(Line) /\ Rising(u) /\ Len(u) \in Nat /\ k <= Len(u)
      /\ \A i \in 1 .. k : u[i] = t[i]
      /\ Range(u) \cap Record = Range(v) \cap Record
      /\ synced' \in Nat /\ k <= synced' /\ Len(u) <= k + 1
  <2>1. CASE torn
    BY <1>1, <1>4, <1>5, <1>6, <1>7, <2>1
  <2>2. CASE ~ torn
    BY <1>1, <1>4, <1>5, <2>2
  <2> QED
    BY <2>1, <2>2
<1> HIDE DEF u
<1>9. Under(Sooner(segs), Range(u))
  BY <1>2, <1>5, <1>8 DEF Under
<1>10. /\ segs' \in Seq(Seq(Line)) /\ segs' # <<>> /\ segs'[Len(segs')] = u
       /\ Sooner(segs') = Sooner(segs)
       /\ Lines(segs') = Sooner(segs) \cup Range(u)
       /\ Ordered(segs')
  <2> DEFINE tt == [segs EXCEPT ![Len(segs)] = u]
  <2>1. /\ tt \in Seq(Seq(Line)) /\ tt # <<>> /\ tt[Len(tt)] = u
        /\ Sooner(tt) = Sooner(segs)
        /\ Lines(tt) = Sooner(segs) \cup Range(u)
        /\ Ordered(tt)
    BY <1>0, <1>8, <1>9, LastReplaced
  <2>2. segs' = tt
    BY <1>3
  <2> QED
    BY <2>1, <2>2
<1>11. Logged' = (Sooner(segs) \cup Range(v)) \cap Record
  BY <1>8, <1>10 DEF Logged
<1>12. Logged = (Sooner(segs) \cup Range(t)) \cap Record
  BY <1>2 DEF Logged
<1>13. Logged' \subseteq Logged
  BY <1>5, <1>11, <1>12
<1>14. Under(Logged', Logged \ Logged')
  BY <1>2, <1>5, <1>11, <1>12 DEF Under
<1>15. Flushed \subseteq Flushed'
  <2>1. Flushed = FirstLines(t, synced) /\ Flushed' = FirstLines(u, synced')
    BY <1>0, <1>10 DEF Flushed, t
  <2>2. ASSUME NEW i \in 1 .. Len(t), i <= synced
        PROVE  i <= synced' /\ i <= Len(u) /\ u[i] = t[i]
    <3>1. i \in 1 .. k
      BY <1>0, <1>4, <2>2
    <3> QED
      BY <1>4, <1>8, <3>1
  <2>3. FirstLines(t, synced) \subseteq FirstLines(u, synced')
    BY <1>0, <1>2, <1>8, <2>2, FirstLinesGrow
  <2> QED
    BY <2>1, <2>3
<1>16. ASSUME WholeLines
       PROVE  FullDisk(segs')
  <2>1. Lines(segs) \subseteq Record
    BY <1>16 DEF WholeLines, PowerLoss
  <2>2. ASSUME NEW j \in 1 .. Len(u) - 1
        PROVE  u[j] \in Record
    <3>1. j \in 1 .. k /\ j \in 1 .. Len(t)
      BY <1>4, <1>8
    <3>2. u[j] = t[j] /\ t[j] \in Range(t)
      BY <1>2, <1>8, <3>1, InRange
    <3> QED
      BY <1>2, <2>1, <3>2
  <2> QED
    BY <1>2, <1>10, <2>1, <2>2 DEF FullDisk
<1> QED
  BY <1>10, <1>13, <1>14, <1>15, <1>16

\* A boot cuts off a torn line, which is no record, and leaves the rest.
LEMMA BootLog ==
  ASSUME TypeInv, Boot, Ordered(segs)
  PROVE  /\ segs' \in Seq(Seq(Line)) /\ segs' # <<>>
         /\ Sooner(segs') = Sooner(segs)
         /\ Lines(segs') = Logged /\ Logged' = Logged
         /\ Lines(segs') = UNION {Range(Readable(i)) : i \in 1 .. Len(segs)}
         /\ Flushed \cap Record \subseteq Flushed'
         /\ Ordered(segs')
<1>0. segs \in Seq(Seq(Line)) /\ synced \in Nat /\ BootAccepts
  BY DEF TypeInv, Boot
<1>1. CASE segs = <<>>
  <2>1. segs' = << <<>> >> /\ Len(segs) = 0
    BY <1>1 DEF Boot
  <2>2. Len(segs') = 1 /\ segs'[1] = <<>> /\ segs' \in Seq(Seq(Line)) /\ segs' # <<>>
    BY <2>1
  <2>3. Lines(segs) = {} /\ Sooner(segs) = {}
    BY <2>1 DEF Lines, Sooner
  <2>4. Lines(segs') = {} /\ Sooner(segs') = {}
    BY <2>2 DEF Lines, Sooner, Range
  <2>5. Flushed = {}
    BY <1>1 DEF Flushed
  <2>6. Ordered(segs')
    <3>1. \A i \in 1 .. Len(segs') : i = 1 /\ segs'[i] = <<>>
      BY <2>2
    <3> HIDE <2>1
    <3> QED
      BY <3>1 DEF Ordered, Rising
  <2>7. UNION {Range(Readable(i)) : i \in 1 .. Len(segs)} = {}
    BY <2>1
  <2> QED
    BY <2>2, <2>3, <2>4, <2>5, <2>6, <2>7 DEF Logged
<1>2. CASE segs # <<>>
  <2> DEFINE n == Len(segs)
             t == segs[n]
             u == Readable(n)
  <2>1. /\ n \in 1 .. n /\ n \in Nat /\ t \in Seq(Line) /\ Len(t) \in Nat
        /\ Lines(segs) = Sooner(segs) \cup Range(t)
        /\ Under(Sooner(segs), Range(t)) /\ Rising(t)
    BY <1>0, <1>2, LinesSplit DEF Ordered
  <2>2. segs' = [segs EXCEPT ![n] = u] /\ bytes' = Len(u)
        /\ synced' = IF TornTail(n) THEN Len(u) ELSE synced
    BY <1>2 DEF Boot
  <2>3. \A i \in 1 .. n - 1 : i \in 1 .. n /\ Readable(i) = segs[i]
    <3>1. \A i \in 1 .. n - 1 : i \in 1 .. n /\ i # n
      BY <2>1
    <3> QED
      BY <3>1 DEF Readable, TornTail
  <2>4. \A i \in 1 .. n : \A l \in Range(Readable(i)) : Good(l)
    <3>1. DOMAIN segs = 1 .. n
      BY <1>0
    <3> HIDE DEF n
    <3> QED
      BY <1>0, <3>1 DEF BootAccepts, WalReads
  <2>5. /\ u \in Seq(Line) /\ Rising(u) /\ Len(u) \in Nat
        /\ Range(u) \subseteq Range(t)
        /\ \A i \in 1 .. Len(t) : t[i] \in Record => i <= Len(u) /\ u[i] = t[i]
        /\ \A i \in 1 .. Len(t) :
             t[i] \in Record /\ i <= synced => i <= synced'
        /\ synced' \in Nat
    <3>1. CASE TornTail(n)
      <4>1. u = SubSeq(t, 1, Len(t) - 1) /\ Len(t) > 0
        BY <1>0, <2>1, <3>1, ReadableLines
      <4>2. ~ Good(t[Len(t)])
        BY <3>1 DEF TornTail, Last
      <4>3. t[Len(t)] \notin Record
        BY <4>2, LinesAssumption DEF Good
      <4> DEFINE k == Len(t) - 1
      <4>4. k \in 0 .. Len(t) /\ k \in Nat /\ u = SubSeq(t, 1, k)
        BY <2>1, <4>1
      <4>10. synced' = Len(u)
        BY <2>2, <3>1
      <4>11. \A i \in 1 .. Len(t) : t[i] \in Record => i \in 1 .. k
        <5>1. \A i \in 1 .. Len(t) : t[i] \in Record => i # Len(t)
          BY <4>3
        <5> QED
          BY <2>1, <5>1
      <4> HIDE DEF t, u, n, k
      <4>5. /\ u \in Seq(Line) /\ Len(u) = k /\ Range(u) \subseteq Range(t)
            /\ \A i \in 1 .. k : u[i] = t[i]
            /\ Rising(u)
        BY <2>1, <4>4, LinesCut
      <4>6. \A i \in 1 .. k : i <= k
        BY <4>4
      <4> QED
        BY <4>4, <4>5, <4>6, <4>10, <4>11
    <3>2. CASE ~ TornTail(n)
      <4>1. u = t
        BY <3>2 DEF Readable
      <4> QED
        BY <1>0, <2>1, <2>2, <3>2, <4>1
    <3> QED
      BY <3>1, <3>2
  <2> HIDE DEF u
  <2>6. Under(Sooner(segs), Range(u))
    BY <2>1, <2>5 DEF Under
  <2>7. /\ segs' \in Seq(Seq(Line)) /\ segs' # <<>> /\ segs'[Len(segs')] = u
        /\ Sooner(segs') = Sooner(segs)
        /\ Lines(segs') = Sooner(segs) \cup Range(u)
        /\ Ordered(segs')
    <3> DEFINE tt == [segs EXCEPT ![Len(segs)] = u]
    <3>1. /\ tt \in Seq(Seq(Line)) /\ tt # <<>> /\ tt[Len(tt)] = u
          /\ Sooner(tt) = Sooner(segs)
          /\ Lines(tt) = Sooner(segs) \cup Range(u)
          /\ Ordered(tt)
      BY <1>0, <1>2, <2>5, <2>6, LastReplaced
    <3>2. segs' = tt
      BY <2>2
    <3> QED
      BY <3>1, <3>2
  <2>8. Lines(segs') = UNION {Range(Readable(i)) : i \in 1 .. n}
    <3> HIDE DEF n
    <3>1. 1 .. n = (1 .. n - 1) \cup {n}
      BY <2>1
    <3>2. Sooner(segs) = UNION {Range(Readable(i)) : i \in 1 .. n - 1}
      BY <2>3 DEF Sooner, n
    <3> QED
      BY <2>7, <3>1, <3>2 DEF u
  <2>9. Lines(segs') \subseteq Record
    <3>1. \A l \in Lines(segs') : Good(l)
      BY <2>4, <2>8
    <3>2. \A l \in Lines(segs') : l \in Line
      BY <2>7, InRange DEF Lines
    <3> QED
      BY <3>1, <3>2 DEF Good, Line
  <2>10. Range(t) \cap Record \subseteq Range(u)
    <3>1. ASSUME NEW l \in Range(t), l \in Record
          PROVE  l \in Range(u)
      <4>1. PICK i \in 1 .. Len(t) : l = t[i]
        BY <2>1, InRange
      <4>2. i \in 1 .. Len(u) /\ u[i] = l
        BY <2>5, <3>1, <4>1
      <4> QED
        BY <2>5, <4>2, InRange
    <3> QED
      BY <3>1
  <2>11. Lines(segs') = Logged /\ Logged' = Logged
    <3>1. Logged' = Lines(segs')
      BY <2>9 DEF Logged
    <3>2. Lines(segs') = Logged
      BY <2>1, <2>5, <2>7, <2>9, <2>10 DEF Logged
    <3> QED
      BY <3>1, <3>2
  <2>12. Flushed \cap Record \subseteq Flushed'
    <3>1. Flushed = FirstLines(t, synced) /\ Flushed' = FirstLines(u, synced')
      BY <1>2, <2>7 DEF Flushed
    <3>2. ASSUME NEW i \in 1 .. Len(t), i <= synced, t[i] \in Record
          PROVE  t[i] \in FirstLines(u, synced')
      <4>1. i \in 1 .. Len(u) /\ i <= synced' /\ u[i] = t[i]
        BY <2>5, <3>2
      <4> QED
        BY <4>1 DEF FirstLines
    <3> QED
      BY <3>1, <3>2 DEF FirstLines
  <2> QED
    BY <2>7, <2>8, <2>11, <2>12
<1> QED
  BY <1>1, <1>2

-----------------------------------------------------------------------------
(* What is stored *)

OneRecord == \A r, s \in Stored : r.seq = s.seq => r = s
BelowNext == Up => \A r \in Stored : r.seq < walSeq

\* A record the partitions hold is still in a sealed segment, or it is older
\* than the log.
ArchiveOlder == \A r \in Archived : r \in Sooner(segs) \/ Under({r}, Logged)

\* A running compaction has written what is not on its list.
WrittenMonths ==
  pc = "compact" =>
    \A l \in Sooner(segs) : l \in Record => l.month \in todo \/ l \in Archived

\* The disk, while no write stops half way.
DiskInv ==
  /\ ChainInv
  /\ WholeLines /\ Ordered(segs)
  /\ OneRecord /\ BelowNext /\ ArchiveOlder /\ WrittenMonths

\* Of a chain, what is numbered below c is its beginning.
LEMMA BeyondKeeps ==
  ASSUME NEW s \in Seq(Record), NEW c \in Nat,
         s # <<>> => NoGap(s, s[1].seq)
  PROVE  /\ Beyond(s, c) \in Seq(Record)
         /\ Range(Beyond(s, c)) \subseteq Range(s)
         /\ \A r \in Range(s) : r.seq >= c => r \in Range(Beyond(s, c))
<1>1. CASE ~ (s # <<>> /\ s[1].seq < c)
  <2>1. Beyond(s, c) = s
    BY <1>1 DEF Beyond
  <2> QED
    BY <2>1
<1>2. CASE s # <<>> /\ s[1].seq < c
  <2> DEFINE n == Len(s)
             a == c - s[1].seq + 1
             b == SubSeq(s, a, n)
  <2>1. n \in Nat /\ n > 0 /\ s[1] \in Record
    BY <1>2
  <2>2. s[1].seq \in Nat /\ a \in Nat /\ a >= 1
    <3>1. s[1].seq \in Nat
      BY <2>1 DEF Record
    <3> QED
      BY <1>2, <3>1
  <2>3. Beyond(s, c) = b
    BY <1>2 DEF Beyond
  <2>4. \A i \in 1 .. n : s[i].seq = s[1].seq + i - 1
    BY <1>2 DEF NoGap
  <2>5. \A i \in a .. n : i \in 1 .. n /\ s[i] \in Record
    BY <2>1, <2>2
  <2>6. /\ b \in Seq(Record)
        /\ Len(b) = IF a <= n THEN n - a + 1 ELSE 0
        /\ \A i \in 1 .. n - a + 1 : b[i] = s[a + i - 1]
    <3> HIDE DEF a
    <3>1. \A i \in a .. n : s[i] \in Record
      BY <2>5
    <3> QED
      BY <2>1, <2>2, <3>1, SubSeqProperties
  <2> HIDE DEF b
  <2>7. ASSUME NEW r \in Range(b)
        PROVE  r \in Range(s)
    <3>1. PICK i \in 1 .. Len(b) : r = b[i]
      BY <2>6, InRange
    <3>2. i \in 1 .. n - a + 1 /\ a + i - 1 \in a .. n
      <4> HIDE DEF a
      <4> QED
        BY <2>1, <2>2, <2>6
    <3>3. r = s[a + i - 1] /\ a + i - 1 \in 1 .. n
      <4> HIDE DEF a
      <4> QED
        BY <2>5, <2>6, <3>1, <3>2
    <3> QED
      BY <3>3, InRange
  <2>8. ASSUME NEW r \in Range(s), r.seq >= c
        PROVE  r \in Range(b)
    <3>1. PICK i \in 1 .. n : r = s[i]
      BY InRange
    <3>2. r.seq = s[1].seq + i - 1
      BY <2>4, <3>1
    <3>3. i >= a
      BY <2>1, <2>2, <2>8, <3>2
    <3> HIDE DEF a
    <3>4. i - a + 1 \in 1 .. n - a + 1 /\ a + (i - a + 1) - 1 = i /\ a <= n
      BY <2>1, <2>2, <3>3
    <3>5. b[i - a + 1] = s[i] /\ i - a + 1 \in 1 .. Len(b)
      BY <2>6, <3>4
    <3> QED
      BY <2>6, <3>1, <3>5, InRange
  <2> QED
    BY <2>3, <2>6, <2>7, <2>8
<1> QED
  BY <1>1, <1>2

\* The log is read whole: what is skipped is no record.
LEMMA TailIsLogged ==
  ASSUME TypeInv, WalReads
  PROVE  Tail0 \in Seq(Record) /\ Range(Tail0) = Logged
<1>1. /\ segs \in Seq(Seq(Line)) /\ Tail0 \in Seq(Record)
      /\ Range(Tail0) = UNION {Range(Readable(i)) : i \in 1 .. Len(segs)}
      /\ \A i \in 1 .. Len(segs) : Readable(i) \in Seq(Record)
  BY TailReads DEF TypeInv
<1>2. ASSUME NEW l \in Range(Tail0)
      PROVE  l \in Logged
  <2>1. PICK i \in 1 .. Len(segs) : l \in Range(Readable(i))
    BY <1>1
  <2>2. Readable(i) \in Seq(Record) /\ Range(Readable(i)) \subseteq Range(segs[i])
    BY <1>1, ReadableLines
  <2>3. l \in Record
    BY <2>1, <2>2, InRange
  <2> QED
    BY <2>1, <2>2, <2>3 DEF Logged, Lines
<1>3. ASSUME NEW l \in Logged
      PROVE  l \in Range(Tail0)
  <2>1. PICK i \in 1 .. Len(segs) : l \in Range(segs[i]) /\ l \in Record
    BY DEF Logged, Lines
  <2> DEFINE t == segs[i]
             u == Readable(i)
  <2>2. t \in Seq(Line) /\ Len(t) \in Nat
    BY <1>1
  <2>3. PICK j \in 1 .. Len(t) : t[j] = l
    BY <2>1, <2>2, InRange
  <2>4. l \in Range(u)
    <3>1. CASE TornTail(i)
      <4>1. u = SubSeq(t, 1, Len(t) - 1) /\ Len(t) > 0
        BY <1>1, <3>1, ReadableLines
      <4>2. t[Len(t)] \notin Record
        BY <3>1, LinesAssumption DEF TornTail, Last, Good
      <4>3. j # Len(t)
        BY <2>1, <2>3, <4>2
      <4> DEFINE k == Len(t) - 1
      <4>4. k \in 0 .. Len(t) /\ j \in 1 .. k /\ u = SubSeq(t, 1, k)
        BY <2>2, <4>1, <4>3
      <4> HIDE DEF k, t, u
      <4>5. u \in Seq(Line) /\ Len(u) = k /\ u[j] = t[j]
        BY <2>2, <4>4, LinesCut
      <4>6. \A x : x \in Range(u) <=> \E m \in 1 .. Len(u) : u[m] = x
        BY <4>5, InRange
      <4> QED
        BY <2>3, <4>4, <4>5, <4>6
    <3>2. CASE ~ TornTail(i)
      BY <2>1, <3>2 DEF Readable
    <3> QED
      BY <3>1, <3>2
  <2> QED
    BY <1>1, <2>4
<1> QED
  BY <1>1, <1>2, <1>3

\* The replay of a disk that boots is all that is stored.
LEMMA ReplayIsStored ==
  ASSUME TypeInv, BootAccepts, OneRecord
  PROVE  /\ Replayable \in Seq(Record) /\ NoGap(Replayable, 0)
         /\ Range(Replayable) = Stored
<1> DEFINE c == Cardinality(Archived)
           s == Tail0
           b == Beyond(s, c)
<1>1. /\ BootAccepts /\ s \in Seq(Record) /\ Range(s) = Logged
      /\ Archived \in SUBSET Record /\ IsFiniteSet(Archived)
      /\ Replayable \in Seq(Record) /\ NoGap(Replayable, 0)
  <2>1. IsFiniteSet(Archived) /\ WalReads
    BY DEF TypeInv, BootAccepts
  <2> QED
    BY <2>1, BootReads, TailIsLogged
<1>2. /\ c \in Nat /\ InOrder(Archived) \in Seq(Archived)
      /\ Len(InOrder(Archived)) = c /\ Range(InOrder(Archived)) = Archived
  BY <1>1, InOrderList DEF BootAccepts
<1>3. s # <<>> => NoGap(s, s[1].seq)
  BY <1>1 DEF BootAccepts
<1>4. /\ b \in Seq(Record) /\ Range(b) \subseteq Range(s)
      /\ \A r \in Range(s) : r.seq >= c => r \in Range(b)
  <2> HIDE DEF c, s
  <2> QED
    BY <1>1, <1>2, <1>3, BeyondKeeps
<1>5. /\ \A r \in Archived : r.seq \in 0 .. c - 1
      /\ \A k \in 0 .. c - 1 : \E r \in Archived : r.seq = k
  <2>1. {r.seq : r \in Archived} = 0 .. 0 + c - 1
    BY <1>1 DEF BootAccepts, Contiguous
  <2> HIDE DEF c
  <2>2. 0 .. 0 + c - 1 = 0 .. c - 1
    BY <1>2
  <2>3. {r.seq : r \in Archived} = 0 .. c - 1
    BY <2>1, <2>2
  <2> QED
    BY <2>3
<1>6. Range(Replayable) = Archived \cup Range(b)
  <2>1. InOrder(Archived) \in Seq(Record)
    BY <1>1, <1>2, SeqMonotonic
  <2>2. Replayable = InOrder(Archived) \o b
    BY DEF Replayable
  <2> HIDE DEF b
  <2> QED
    BY <1>2, <1>4, <2>1, <2>2, RangeConcatenation
<1>7. ASSUME NEW r \in Logged, ~ (r.seq >= c)
      PROVE  r \in Archived
  <2>1. r \in Record /\ r.seq \in Nat /\ r \in Stored
    BY <1>1 DEF Logged, Record, Stored
  <2>2. r.seq \in 0 .. c - 1
    BY <1>2, <1>7, <2>1
  <2>3. PICK a \in Archived : a.seq = r.seq
    BY <1>5, <2>2
  <2> QED
    BY <2>1, <2>3 DEF OneRecord, Stored
<1>8. Range(Replayable) = Stored
  BY <1>1, <1>4, <1>6, <1>7 DEF Stored
<1> QED
  BY <1>1, <1>8

\* A boot replays all that is stored, and the log continues after it.
LEMMA BootReplays ==
  ASSUME TypeInv, Boot, Ordered(segs), OneRecord, ArchiveOlder
  PROVE  /\ Replayable \in Seq(Record) /\ NoGap(Replayable, 0)
         /\ Range(Replayable) = Stored
         /\ walSeq' \in Nat /\ walSeq' = Len(Replayable)
         /\ \A r \in Stored : r.seq < walSeq'
<1> DEFINE c == Cardinality(Archived)
           s == Tail0
<1>1. /\ BootAccepts /\ s \in Seq(Record) /\ Range(s) = Logged
      /\ Archived \in SUBSET Record /\ IsFiniteSet(Archived)
      /\ Replayable \in Seq(Record) /\ NoGap(Replayable, 0)
  <2>1. BootAccepts /\ IsFiniteSet(Archived) /\ WalReads
    BY DEF Boot, TypeInv, BootAccepts
  <2> QED
    BY <2>1, BootReads, TailIsLogged
<1>2. c \in Nat
  BY <1>1, FS_CardinalityType
<1>3. s # <<>> => NoGap(s, s[1].seq)
  BY <1>1 DEF BootAccepts
<1>5. /\ \A r \in Archived : r.seq \in 0 .. c - 1
      /\ \A k \in 0 .. c - 1 : \E r \in Archived : r.seq = k
  <2>1. {r.seq : r \in Archived} = 0 .. 0 + c - 1
    BY <1>1 DEF BootAccepts, Contiguous
  <2> HIDE DEF c
  <2>2. 0 .. 0 + c - 1 = 0 .. c - 1
    BY <1>2
  <2>3. {r.seq : r \in Archived} = 0 .. c - 1
    BY <2>1, <2>2
  <2> QED
    BY <2>3
<1>8. Range(Replayable) = Stored
  BY <1>1, ReplayIsStored
<1> DEFINE n == Len(Replayable)
<1>9. /\ n \in Nat /\ \A i \in 1 .. n : Replayable[i].seq = i - 1
      /\ \A r : r \in Stored <=> \E i \in 1 .. n : Replayable[i] = r
  <2>1. \A r : r \in Range(Replayable) <=> \E i \in 1 .. n : Replayable[i] = r
    BY <1>1, InRange
  <2>2. n \in Nat /\ DOMAIN Replayable = 1 .. n
    BY <1>1
  <2>3. \A i \in 1 .. n : Replayable[i].seq = 0 + i - 1
    BY <1>1, <2>2 DEF NoGap
  <2> QED
    BY <1>8, <2>1, <2>2, <2>3
<1>10. walSeq' \in Nat /\ \A r \in Stored : r.seq < walSeq'
  <2>1. CASE s = <<>>
    <3>1. walSeq' = c /\ Logged = {}
      BY <1>1, <2>1 DEF Boot, Range
    <3> QED
      BY <1>2, <1>5, <3>1 DEF Stored
  <2>2. CASE s # <<>>
    <3> DEFINE k == Len(s)
    <3>1. k \in Nat /\ k >= 1 /\ s[k] \in Record /\ s[1] \in Record
      BY <1>1, <2>2
    <3>2. \A i \in 1 .. k : s[i].seq = s[1].seq + i - 1
      BY <1>3, <2>2 DEF NoGap
    <3>3. s[1].seq \in Nat /\ s[k].seq \in Nat /\ s[k] \in Logged
      <4>1. k \in 1 .. Len(s)
        BY <3>1
      <4>2. s[k] \in Range(s)
        BY <1>1, <4>1, InRange
      <4> QED
        BY <1>1, <3>1, <4>2 DEF Record
    <3>4. walSeq' = s[k].seq + 1
      BY <2>2 DEF Boot, Last
    <3>5. ASSUME NEW r \in Logged
          PROVE  r.seq < walSeq'
      <4>1. PICK i \in 1 .. k : r = s[i]
        BY <1>1, InRange
      <4>2. r.seq = s[1].seq + i - 1 /\ s[k].seq = s[1].seq + k - 1
        <5>1. k \in 1 .. k
          BY <3>1
        <5> HIDE DEF k
        <5> QED
          BY <3>2, <4>1, <5>1
      <4> HIDE DEF k, s
      <4> QED
        BY <3>1, <3>3, <3>4, <4>1, <4>2
    <3>6. ASSUME NEW r \in Archived
          PROVE  r.seq < walSeq'
      <4>1. r \in Record /\ r.seq \in Nat
        BY <1>1 DEF Record
      <4>2. CASE r \in Sooner(segs)
        <5>1. r \in Logged
          <6>1. segs # <<>>
            <7>1. SUFFICES ASSUME segs = <<>> PROVE FALSE
              OBVIOUS
            <7>2. Len(segs) = 0
              BY <7>1
            <7> QED
              BY <4>2, <7>2 DEF Sooner
          <6>2. segs \in Seq(Seq(Line))
            BY DEF TypeInv
          <6> QED
            BY <4>1, <4>2, <6>1, <6>2, LinesSplit DEF Logged
        <5> QED
          BY <3>5, <5>1
      <4>3. CASE Under({r}, Logged)
        <5>1. r.seq < s[k].seq
          BY <3>1, <3>3, <4>1, <4>3 DEF Under
        <5> QED
          BY <3>3, <3>4, <4>1, <5>1
      <4> QED
        BY <4>2, <4>3 DEF ArchiveOlder
    <3> QED
      BY <3>3, <3>4, <3>5, <3>6 DEF Stored
  <2> QED
    BY <2>1, <2>2
<1>11. walSeq' = n
  <2>1. walSeq' <= n
    <3>1. CASE walSeq' = 0
      BY <1>9, <3>1
    <3>2. CASE s # <<>>
      <4>1. s[Len(s)] \in Logged
        <5>1. Len(s) \in 1 .. Len(s)
          BY <1>1, <3>2
        <5> QED
          BY <1>1, <5>1, InRange
      <4>2. walSeq' = s[Len(s)].seq + 1
        BY <3>2 DEF Boot, Last
      <4>3. PICK i \in 1 .. n : Replayable[i] = s[Len(s)]
        BY <1>9, <4>1 DEF Stored
      <4>4. s[Len(s)].seq = i - 1
        BY <1>9, <4>3
      <4> HIDE DEF n, s
      <4> QED
        BY <1>9, <4>2, <4>3, <4>4
    <3>3. CASE s = <<>> /\ walSeq' # 0
      <4>1. walSeq' = c /\ c - 1 \in 0 .. c - 1
        BY <1>2, <3>3 DEF Boot
      <4>2. PICK r \in Archived : r.seq = c - 1
        BY <1>5, <4>1
      <4>3. PICK i \in 1 .. n : Replayable[i] = r
        BY <1>9 DEF Stored
      <4>4. c - 1 = i - 1
        BY <1>9, <4>2, <4>3
      <4> HIDE DEF n, c
      <4> QED
        BY <1>2, <1>9, <4>1, <4>3, <4>4
    <3> QED
      BY <3>1, <3>2, <3>3
  <2>2. n <= walSeq'
    <3>1. CASE n = 0
      BY <1>10, <3>1
    <3>2. CASE n # 0
      <4>1. n \in 1 .. n
        BY <1>9, <3>2
      <4>2. Replayable[n] \in Stored /\ Replayable[n].seq = n - 1
        BY <1>9, <4>1
      <4>3. n - 1 < walSeq'
        BY <1>10, <4>2
      <4> HIDE DEF n
      <4> QED
        BY <1>9, <1>10, <4>3
    <3> QED
      BY <3>1, <3>2
  <2> HIDE DEF n
  <2> QED
    BY <1>9, <1>10, <2>1, <2>2
<1> QED
  BY <1>1, <1>8, <1>10, <1>11

\* No write stops half way.
WholeWrites == "write" \notin Faults

\* What a compaction moves is what the sealed segments hold.
LEMMA MovingSooner ==
  ASSUME segs \in Seq(Seq(Line))
  PROVE  Moving = Sooner(segs)
BY MovingLines DEF Sooner

\* A partition written loses nothing it held, and holds all the month moves.
LEMMA PartitionKeeps ==
  ASSUME TypeInv, WritePartition, OneRecord, WrittenMonths
  PROVE  /\ Archived \subseteq Archived'
         /\ Archived' \subseteq Archived \cup (Sooner(segs) \cap Record)
         /\ \A l \in Sooner(segs) : l \in Record => l.month \in todo' \/ l \in Archived'
         /\ \E m \in todo :
              /\ \A k \in todo : m <= k
              /\ Archived' = Archived \cup {l \in Sooner(segs) : l.month = m}
<1> DEFINE m == CHOOSE m \in todo : \A k \in todo : m <= k
           new == {r \in Moving : r.month = m}
           merged == new \cup {r \in parquet[m] : \A s \in new : s.seq # r.seq}
<1>1. m \in todo /\ m \in Months /\ pc = "compact"
  BY NextMonth DEF WritePartition, TypeInv
<1>2. /\ parquet \in [Months -> SUBSET Record]
      /\ segs \in Seq(Seq(Line)) /\ \A l \in Moving : Good(l)
  BY <1>1 DEF TypeInv
<1>3. Moving = Sooner(segs) /\ segs # <<>>
  BY <1>1, <1>2, MovingSooner DEF TypeInv, Up
<1>4. Moving \subseteq Logged
  <2>1. Moving \subseteq Lines(segs)
    BY <1>2, <1>3, LinesSplit
  <2>2. \A l \in Lines(segs) : l \in Line
    BY <1>2, InRange DEF Lines
  <2> QED
    BY <1>2, <2>1, <2>2 DEF Logged, Good, Line
<1>5. parquet' = [parquet EXCEPT ![m] = merged] /\ todo' = todo \ {m}
  BY DEF WritePartition
<1>6. parquet[m] \subseteq merged
  <2>1. ASSUME NEW r \in parquet[m], NEW s \in new, s.seq = r.seq
        PROVE  r = s
    <3>1. r \in Stored /\ s \in Stored
      BY <1>1, <1>4 DEF Stored, Archived
    <3> QED
      BY <2>1, <3>1 DEF OneRecord
  <2> QED
    BY <2>1
<1>7. Archived' \subseteq Archived \cup Moving
  BY PartitionType
<1>m. \A k \in todo : m <= k
  <2>1. todo \in SUBSET Nat /\ todo # {}
    BY <1>1, MonthsAssumption DEF TypeInv
  <2>2. \E x \in todo : \A k \in todo : x <= k
    BY <2>1, LeastNumber
  <2> QED
    BY <2>2
<1> HIDE DEF m, merged
<1>8. Archived \subseteq Archived' /\ merged \subseteq Archived'
  BY <1>1, <1>2, <1>5, <1>6 DEF Archived
<1>9. ASSUME NEW l \in Sooner(segs), l \in Record
      PROVE  l.month \in todo' \/ l \in Archived'
  <2>1. CASE l.month = m
    <3>1. l \in merged
      BY <1>3, <2>1 DEF merged
    <3> QED
      BY <1>8, <3>1
  <2>2. CASE l.month # m
    BY <1>1, <1>5, <1>8, <1>9, <2>2 DEF WrittenMonths
  <2> QED
    BY <2>1, <2>2
<1>10. Archived' = Archived \cup {l \in Sooner(segs) : l.month = m}
  <2>1. Archived' \subseteq Archived \cup merged
    BY <1>1, <1>2, <1>5 DEF Archived
  <2>2. merged \subseteq new \cup Archived
    BY <1>1 DEF merged, Archived
  <2>3. new \subseteq merged
    BY DEF merged
  <2> QED
    BY <1>3, <1>8, <2>1, <2>2, <2>3
<1> QED
  BY <1>1, <1>3, <1>4, <1>7, <1>8, <1>9, <1>10, <1>m DEF Logged

\* An empty disk is in order.
LEMMA DiskInit == Init => DiskInv
<1> SUFFICES ASSUME Init PROVE DiskInv
  OBVIOUS
<1>1. segs = <<>> /\ Len(segs) = 0
  BY DEF Init
<1>2. Lines(segs) = {} /\ Sooner(segs) = {} /\ Ordered(segs)
  BY <1>1 DEF Lines, Sooner, Ordered
<1>3. Archived = {} /\ Stored = {}
  BY <1>2 DEF Init, Archived, Stored, Logged
<1> QED
  BY <1>2, <1>3, ChainInit
     DEF Init, DiskInv, WholeLines, OneRecord, BelowNext, ArchiveOlder, WrittenMonths

\* The disk invariant is kept by every step that writes lines whole.
LEMMA DiskNext == WholeWrites /\ DiskInv /\ [Next]_vars => DiskInv'
<1> SUFFICES ASSUME WholeWrites, DiskInv, [Next]_vars PROVE DiskInv'
  OBVIOUS
<1>0. /\ TypeInv /\ ChainInv' /\ TypeInv' /\ segs \in Seq(Seq(Line))
      /\ WholeLines /\ Ordered(segs) /\ OneRecord /\ BelowNext /\ ArchiveOlder
      /\ WrittenMonths
      /\ Up => segs # <<>>
  BY ChainNext DEF DiskInv, ChainInv, TypeInv
<1>a. UNCHANGED parquet => Archived' = Archived
  BY DEF Archived
<1>b. \A r \in Stored : r \in Record /\ r.seq \in Nat
  BY <1>0 DEF Stored, Archived, Logged, TypeInv, Record
<1>c. Up => Sooner(segs) \subseteq Lines(segs) /\ Lines(segs) \subseteq Record
  BY <1>0, LinesSplit DEF WholeLines
<1>1. CASE Boot
  <2>1. /\ Sooner(segs') = Sooner(segs) /\ Lines(segs') = Logged /\ Logged' = Logged
        /\ Ordered(segs')
    BY <1>0, <1>1, BootLog
  <2>2. \A r \in Stored : r.seq < walSeq'
    BY <1>0, <1>1, BootReplays
  <2>3. pc' = "idle" /\ Archived' = Archived
    BY <1>1, <1>a DEF Boot
  <2>4. Stored' = Stored
    BY <2>1, <2>3 DEF Stored
  <2>5. WholeLines' /\ WrittenMonths'
    BY <2>1, <2>3 DEF WholeLines, WrittenMonths, Logged
  <2>6. OneRecord' /\ BelowNext' /\ ArchiveOlder'
    BY <1>0, <2>1, <2>2, <2>3, <2>4 DEF OneRecord, BelowNext, ArchiveOlder
  <2> QED
    BY <1>0, <2>1, <2>5, <2>6 DEF DiskInv
<1>2. CASE WriteRecord
  <2> DEFINE r == Head(left)
  <2>1. /\ pc = "write" /\ pc' = "write" /\ r \in Record /\ r.seq = walSeq
        /\ walSeq \in Nat /\ walSeq' = walSeq + 1 /\ Archived' = Archived /\ Up
        /\ segs' = [Target EXCEPT ![Len(Target)] = Written(@, <<r, Bad>>)]
        /\ synced' = IF Full THEN 0 ELSE synced
    BY <1>0, <1>2, <1>a DEF WriteRecord, TypeInv, Up
  <2> HIDE DEF r
  <2>2. /\ Lines(segs') = Lines(segs) \cup {r}
        /\ Sooner(segs) \subseteq Sooner(segs')
        /\ Ordered(segs) /\ Under(Lines(segs), {r}) => Ordered(segs')
    BY <1>0, <1>c, <2>1, LineWritten DEF Line
  <2>3. Logged' = Logged \cup {r} /\ Lines(segs) = Logged
    BY <1>c, <2>1, <2>2 DEF Logged
  <2>4. Stored' = Stored \cup {r} /\ \A s \in Stored : s.seq < walSeq
    BY <1>0, <2>1, <2>3 DEF Stored, BelowNext
  <2>5. OneRecord' /\ BelowNext'
    BY <1>0, <1>b, <2>1, <2>4 DEF OneRecord, BelowNext
  <2>6. Ordered(segs')
    BY <1>0, <2>1, <2>2, <2>3, <2>4 DEF Under, Stored
  <2>7. ArchiveOlder'
    BY <1>0, <2>1, <2>2, <2>3, <2>4 DEF ArchiveOlder, Under, Stored
  <2>8. WholeLines' /\ WrittenMonths'
    BY <1>c, <2>1, <2>2 DEF WholeLines, WrittenMonths
  <2> QED
    BY <1>0, <2>5, <2>6, <2>7, <2>8 DEF DiskInv
<1>3. ASSUME UNCHANGED <<segs, parquet>>,
             Up' => Up /\ walSeq' = walSeq,
             pc' = "compact" => pc = "compact" /\ todo' = todo
      PROVE  DiskInv'
  <2>1. Archived' = Archived /\ Logged' = Logged /\ Stored' = Stored
    BY <1>3, <1>a DEF Logged, Stored
  <2>2. WholeLines' /\ Ordered(segs') /\ WrittenMonths'
    BY <1>0, <1>3, <2>1 DEF WholeLines, WrittenMonths
  <2>3. OneRecord' /\ BelowNext' /\ ArchiveOlder'
    BY <1>0, <1>3, <2>1 DEF OneRecord, BelowNext, ArchiveOlder
  <2> QED
    BY <1>0, <1>3, <2>2, <2>3 DEF DiskInv
<1>4. CASE Kill
  <2>1. CASE segs' = segs
    BY <1>3, <1>4, <2>1 DEF Kill, Up
  <2>2. CASE /\ pc = "write"
             /\ segs' = [Target EXCEPT ![Len(Target)] = Written(@, <<Half, Half>>)]
    <3>1. Up /\ Half \in Line /\ Half \notin Record /\ pc' = "down" /\ Archived' = Archived
      BY <1>4, <1>a, <2>2, LinesAssumption DEF Kill, Up, Line
    <3>2. /\ Lines(segs') = Lines(segs) \cup {Half}
          /\ Sooner(segs) \subseteq Sooner(segs')
          /\ Ordered(segs) /\ Under(Lines(segs), {Half}) => Ordered(segs')
      BY <1>0, <1>4, <1>c, <2>2, <3>1, KillWrites
    <3>3. Logged' = Logged /\ Stored' = Stored
      BY <3>1, <3>2 DEF Logged, Stored
    <3>4. Ordered(segs')
      BY <1>0, <3>1, <3>2 DEF Under
    <3>5. OneRecord' /\ BelowNext' /\ ArchiveOlder'
      BY <1>0, <3>1, <3>2, <3>3 DEF OneRecord, BelowNext, ArchiveOlder, Up
    <3>6. WholeLines' /\ WrittenMonths'
      BY <3>1 DEF WholeLines, WrittenMonths, Up
    <3> QED
      BY <1>0, <3>4, <3>5, <3>6 DEF DiskInv
  <2> QED
    BY <1>4, <2>1, <2>2 DEF Kill
<1>5. CASE PowerLoss
  <2>1. /\ Sooner(segs') = Sooner(segs) /\ Logged' \subseteq Logged
        /\ Ordered(segs')
    BY <1>0, <1>5, PowerLog
  <2>2. pc' = "down" /\ Archived' = Archived
    BY <1>5, <1>a DEF PowerLoss
  <2>3. Stored' \subseteq Stored
    BY <2>1, <2>2 DEF Stored
  <2>4. OneRecord' /\ BelowNext' /\ WholeLines' /\ WrittenMonths'
    BY <1>0, <2>2, <2>3 DEF OneRecord, BelowNext, WholeLines, WrittenMonths, Up
  <2>5. ArchiveOlder'
    BY <1>0, <2>1, <2>2 DEF ArchiveOlder, Under
  <2> QED
    BY <1>0, <2>1, <2>4, <2>5 DEF DiskInv
<1>6. CASE SealAndPlan
  <2>1. /\ segs' = Append(segs, <<>>) /\ pc = "idle" /\ Up /\ walSeq' = walSeq
        /\ Archived' = Archived
    BY <1>6, <1>a DEF SealAndPlan, Up
  <2>2. /\ Lines(segs') = Lines(segs) /\ Sooner(segs') = Lines(segs)
        /\ Ordered(segs')
    BY <1>0, <2>1, Sealed1
  <2>3. Logged' = Logged /\ Stored' = Stored
    BY <2>1, <2>2 DEF Logged, Stored
  <2>4. Up' /\ (pc' = "compact" => \A l \in Lines(segs) : l.month \in todo')
    <3> DEFINE lines == UNION {Range(s) : s \in Range(segs)}
    <3>1. \A i \in 1 .. Len(segs) : segs[i] \in Range(segs)
      BY <1>0, InRange
    <3>2. Lines(segs) \subseteq lines
      BY <3>1 DEF Lines
    <3>3. CASE \A l \in lines : Good(l)
      <4>1. pc' = "compact" /\ todo' = {l.month : l \in lines}
        BY <1>6, <3>3 DEF SealAndPlan
      <4> QED
        BY <3>2, <4>1 DEF Up
    <3>4. CASE ~ \A l \in lines : Good(l)
      <4>1. pc' = pc
        BY <1>6, <3>4 DEF SealAndPlan
      <4> QED
        BY <2>1, <4>1 DEF Up
    <3> QED
      BY <3>3, <3>4
  <2>5. OneRecord' /\ BelowNext' /\ WholeLines' /\ WrittenMonths'
    BY <1>0, <2>1, <2>2, <2>3, <2>4
       DEF OneRecord, BelowNext, WholeLines, WrittenMonths
  <2>6. ArchiveOlder'
    BY <1>0, <1>c, <2>1, <2>2, <2>3 DEF ArchiveOlder
  <2> QED
    BY <1>0, <2>2, <2>5, <2>6 DEF DiskInv
<1>7. CASE Plan
  <2>1. /\ UNCHANGED <<segs, parquet, walSeq>> /\ pc = "idle" /\ pc' = "compact"
        /\ todo' = {l.month : l \in Moving}
    BY <1>7 DEF Plan, disk
  <2>2. Archived' = Archived /\ Logged' = Logged /\ Stored' = Stored
    BY <1>a, <2>1 DEF Logged, Stored
  <2>3. WrittenMonths'
    BY <1>0, <2>1, MovingSooner DEF WrittenMonths
  <2>4. OneRecord' /\ BelowNext' /\ ArchiveOlder' /\ WholeLines'
    BY <1>0, <2>1, <2>2 DEF OneRecord, BelowNext, ArchiveOlder, WholeLines, Up
  <2> QED
    BY <1>0, <2>1, <2>3, <2>4 DEF DiskInv
<1>8. CASE WritePartition
  <2>1. UNCHANGED <<segs, walSeq, pc>> /\ pc = "compact" /\ Up
    BY <1>8 DEF WritePartition, Up
  <2>2. /\ Archived \subseteq Archived'
        /\ Archived' \subseteq Archived \cup (Sooner(segs) \cap Record)
        /\ \A l \in Sooner(segs) : l \in Record => l.month \in todo' \/ l \in Archived'
    BY <1>0, <1>8, PartitionKeeps
  <2>3. Logged' = Logged /\ Sooner(segs) \subseteq Logged
    BY <1>c, <2>1 DEF Logged
  <2>4. Stored' = Stored
    BY <2>2, <2>3 DEF Stored
  <2>5. OneRecord' /\ BelowNext' /\ WholeLines' /\ WrittenMonths'
    BY <1>0, <2>1, <2>2, <2>4 DEF OneRecord, BelowNext, WholeLines, WrittenMonths
  <2>6. ArchiveOlder'
    BY <1>0, <2>1, <2>2, <2>3 DEF ArchiveOlder
  <2> QED
    BY <1>0, <2>1, <2>5, <2>6 DEF DiskInv
<1>9. CASE RemoveSegment
  <2>1. /\ pc = "compact" /\ Up /\ Len(segs) > 1 /\ segs' = Tail(segs)
        /\ synced' = synced /\ walSeq' = walSeq /\ Archived' = Archived
        /\ pc' = "compact" => todo' = todo
    BY <1>0, <1>9, <1>a DEF RemoveSegment, TypeInv, memory, Up
  <2>2. /\ Sooner(segs) = Range(segs[1]) \cup Sooner(segs')
        /\ Lines(segs) = Range(segs[1]) \cup Lines(segs')
        /\ Ordered(segs') /\ Under(Range(segs[1]), Lines(segs'))
    BY <1>0, <2>1, Removed
  <2>3. Logged' \subseteq Logged /\ Stored' \subseteq Stored /\ Logged' \subseteq Lines(segs')
    BY <2>1, <2>2 DEF Logged, Stored
  <2>4. OneRecord' /\ BelowNext' /\ WholeLines' /\ WrittenMonths'
    BY <1>0, <1>c, <2>1, <2>2, <2>3 DEF OneRecord, BelowNext, WholeLines, WrittenMonths
  <2>5. ArchiveOlder'
    BY <1>0, <2>1, <2>2, <2>3 DEF ArchiveOlder, Under
  <2> QED
    BY <1>0, <2>2, <2>4, <2>5 DEF DiskInv
<1>10. ASSUME NEW n \in BatchSizes, Propose(n)
       PROVE  DiskInv'
  BY <1>3, <1>10 DEF Propose, disk, Up
<1>11. CASE AppendRefused \/ SyncFails
  BY <1>3, <1>11 DEF AppendRefused, SyncFails, Fail, disk, Up
<1>12. CASE Sync
  BY <1>3, <1>12 DEF Sync, memory, Up
<1>13. CASE Commit
  BY <1>3, <1>13 DEF Commit, disk, Up
<1>14. CASE CompactionFails \/ RefuseBoot
  BY <1>3, <1>14 DEF CompactionFails, RefuseBoot, disk, memory, Up
<1>15. CASE Clock \/ UNCHANGED vars
  BY <1>3, <1>15 DEF Clock, vars, disk, memory, Up
<1>16. ~ WriteFails
  BY DEF WholeWrites, WriteFails
<1> QED
  BY <1>1, <1>2, <1>4, <1>5, <1>6, <1>7, <1>8, <1>9, <1>10, <1>11, <1>12, <1>13,
     <1>14, <1>15, <1>16 DEF Next

-----------------------------------------------------------------------------
(* No event takes another's place, writes that stop half way included      *)

\* The stored records the ledger has not applied.
Newer == {r \in Stored : ~ (r.seq < Len(ledger))}

\* Of the command being executed nothing else is stored beyond the ledger once
\* its first record is written; before that the log is where the ledger ends.
CommandShape ==
  /\ Up /\ ~ Working => batch = <<>>
  /\ \A r \in Range(batch) : r.cmd = batch[1].cmd
  /\ Working => Range(left) \subseteq Range(batch)
  /\ pc = "commit" => left = <<>>
  /\ Working /\ left # batch => Newer \subseteq Range(batch)

\* What is stored is what the ledger has applied, of a failed command or of the
\* one being executed, and the log's next number is above what is beyond the
\* ledger.
Agreed ==
  /\ OneRecord
  /\ \A r \in Stored : r.seq < Len(ledger) => r = ledger[r.seq + 1]
  /\ \A r \in Newer : r.cmd \in failed \/ r \in Range(batch)
  /\ Up => \A r \in Newer : r.seq < walSeq

AgreeInv == ChainInv /\ CommandShape /\ Agreed

\* A line written, or half of it, adds that line and what becomes of half a one.
LEMMA WrittenLines ==
  ASSUME segs \in Seq(Seq(Line)), segs # <<>>, NEW x \in Line, NEW y \in Line,
         segs' = [Target EXCEPT ![Len(Target)] = Written(@, <<x, y>>)]
  PROVE  Lines(segs') \subseteq Lines(segs) \cup {x, y}
<1>1. /\ Target \in Seq(Seq(Line)) /\ Target # <<>> /\ Lines(Target) = Lines(segs)
  BY SegmentAdded DEF Target
<1> DEFINE t == Target[Len(Target)]
           u == Written(t, <<x, y>>)
<1>2. t \in Seq(Line) /\ Range(t) \subseteq Lines(segs) /\ Sooner(Target) \subseteq Lines(segs)
  BY <1>1, LinesSplit
<1>3. u \in Seq(Line) /\ Range(u) \subseteq Range(t) \cup {x, y}
  <2> HIDE DEF t
  <2>1. CASE t # <<>> /\ Last(t) = Half
    <3>1. Len(t) - 1 \in 0 .. Len(t)
      BY <1>2, <2>1
    <3>2. Front(t) \in Seq(Line) /\ Range(Front(t)) \subseteq Range(t)
      BY <1>2, <3>1, RangeOfPart DEF Front
    <3>3. u = Append(Front(t), y)
      BY <2>1 DEF Written
    <3> HIDE DEF u
    <3> QED
      BY <3>2, <3>3, RangeAppend, AppendProperties
  <2>2. CASE ~ (t # <<>> /\ Last(t) = Half)
    <3>1. u = Append(t, x)
      BY <2>2 DEF Written
    <3> HIDE DEF u
    <3> QED
      BY <1>2, <3>1, RangeAppend, AppendProperties
  <2> QED
    BY <2>1, <2>2
<1>4. segs' = [Target EXCEPT ![Len(Target)] = u]
  OBVIOUS
<1> HIDE DEF u, t
<1>5. Lines(segs') = Sooner(Target) \cup Range(u)
  BY <1>1, <1>3, <1>4, LastReplaced
<1> QED
  BY <1>2, <1>3, <1>5

\* No step stores a record but the one that writes it.
LEMMA StoredAdds ==
  ASSUME TypeInv, [Next]_vars
  PROVE  /\ ~ WriteRecord => Stored' \subseteq Stored
         /\ WriteRecord => Stored' \subseteq Stored \cup {Head(left)}
<1>0. /\ segs \in Seq(Seq(Line)) /\ (Up => segs # <<>>)
      /\ Half \in Line /\ Bad \in Line /\ Half \notin Record /\ Bad \notin Record
  BY LinesAssumption DEF TypeInv, Line
<1>a. UNCHANGED parquet => Archived' = Archived
  BY DEF Archived
<1>b. ASSUME UNCHANGED parquet, Lines(segs') \cap Record \subseteq Lines(segs)
      PROVE  Stored' \subseteq Stored
  BY <1>a, <1>b DEF Stored, Logged
<1>1. CASE Boot
  <2>1. CASE segs = <<>>
    <3>1. Len(segs') = 1 /\ segs'[1] = <<>>
      BY <1>1, <2>1 DEF Boot
    <3>2. Lines(segs') = {}
      BY <3>1 DEF Lines, Range
    <3> QED
      BY <1>1, <1>b, <3>2 DEF Boot, WriteRecord
  <2>2. CASE segs # <<>>
    <3> DEFINE n == Len(segs)
               u == Readable(n)
    <3>1. segs' = [segs EXCEPT ![n] = u] /\ n \in 1 .. Len(segs)
      BY <1>0, <1>1, <2>2 DEF Boot
    <3>2. u \in Seq(Line) /\ Range(u) \subseteq Range(segs[n])
      BY <1>0, <3>1, ReadableLines
    <3>3. Lines(segs) = Sooner(segs) \cup Range(segs[n])
      BY <1>0, <2>2, LinesSplit
    <3> HIDE DEF u
    <3>4. Lines(segs') = Sooner(segs) \cup Range(u)
      BY <1>0, <2>2, <3>1, <3>2, LastReplaced
    <3> QED
      BY <1>1, <1>b, <3>2, <3>3, <3>4 DEF Boot, WriteRecord
  <2> QED
    BY <2>1, <2>2
<1>2. CASE WriteRecord
  <2> DEFINE r == Head(left)
  <2>1. /\ r \in Record /\ Archived' = Archived /\ Up
        /\ segs' = [Target EXCEPT ![Len(Target)] = Written(@, <<r, Bad>>)]
    BY <1>2, <1>a DEF WriteRecord, TypeInv, Up
  <2> HIDE DEF r
  <2>2. Lines(segs') \subseteq Lines(segs) \cup {r, Bad}
    BY <1>0, <2>1, WrittenLines DEF Line
  <2>3. Stored' \subseteq Stored \cup {r}
    BY <1>0, <2>1, <2>2 DEF Stored, Logged
  <2> QED
    BY <1>2, <2>3 DEF r
<1>3. ASSUME UNCHANGED <<segs, parquet>>
      PROVE  Stored' \subseteq Stored
  BY <1>3, <1>a DEF Stored, Logged
<1>4. CASE WriteFails \/ Kill
  <2>1. Up /\ UNCHANGED parquet /\ ~ WriteRecord
    BY <1>4 DEF WriteFails, Kill, Up, WriteRecord, Fail
  <2>2. CASE segs' = segs
    BY <1>3, <2>1, <2>2
  <2>3. CASE segs' = [Target EXCEPT ![Len(Target)] = Written(@, <<Half, Half>>)]
    <3>1. Lines(segs') \subseteq Lines(segs) \cup {Half, Half}
      BY <1>0, <2>1, <2>3, WrittenLines
    <3> QED
      BY <1>0, <1>b, <2>1, <3>1
  <2> QED
    BY <1>4, <2>1, <2>2, <2>3 DEF WriteFails, Kill
<1>5. CASE PowerLoss
  <2> DEFINE n == Len(segs)
             t == segs[n]
  <2>1. Up /\ UNCHANGED parquet /\ ~ WriteRecord /\ segs # <<>> /\ synced \in Nat
    BY <1>0, <1>5 DEF PowerLoss, WriteRecord, TypeInv
  <2>2. /\ n \in 1 .. n /\ t \in Seq(Line) /\ Lines(segs) = Sooner(segs) \cup Range(t)
    BY <1>0, <2>1, LinesSplit
  <2>3. PICK k \in synced .. Len(t), torn \in BOOLEAN :
          segs' = [segs EXCEPT ![n] =
            IF torn THEN Append(SubSeq(@, 1, k), Half) ELSE SubSeq(@, 1, k)]
    BY <1>5 DEF PowerLoss, Last
  <2> DEFINE b == SubSeq(t, 1, k)
             u == IF torn THEN Append(b, Half) ELSE b
  <2>4. k \in 0 .. Len(t)
    BY <2>1, <2>2, <2>3
  <2> HIDE DEF n
  <2>5. segs' = [segs EXCEPT ![n] = u]
    BY <2>3
  <2> HIDE DEF t
  <2>6. b \in Seq(Line) /\ Range(b) \subseteq Range(t)
    BY <2>2, <2>4, RangeOfPart
  <2> HIDE DEF b
  <2>7. u \in Seq(Line) /\ Range(u) \subseteq Range(t) \cup {Half}
    BY <1>0, <2>6, RangeAppend, AppendProperties
  <2> HIDE DEF u
  <2>8. Lines(segs') = Sooner(segs) \cup Range(u)
    BY <1>0, <2>1, <2>5, <2>7, LastReplaced DEF n
  <2> QED
    BY <1>0, <1>b, <2>1, <2>2, <2>7, <2>8
<1>6. CASE SealAndPlan
  <2>1. segs' = Append(segs, <<>>) /\ segs # <<>> /\ UNCHANGED parquet /\ ~ WriteRecord
    BY <1>0, <1>6 DEF SealAndPlan, Up, WriteRecord
  <2>2. Lines(segs') = Lines(segs)
    BY <2>1, Sealed1
  <2> QED
    BY <1>b, <2>1, <2>2
<1>7. CASE WritePartition
  <2>1. segs' = segs /\ ~ WriteRecord /\ segs # <<>>
    BY <1>0, <1>7 DEF WritePartition, WriteRecord, Up
  <2>2. Moving \subseteq Lines(segs)
    BY <1>0, <2>1, MovingLines, LinesSplit DEF Sooner
  <2>3. Archived' \subseteq Archived \cup Moving /\ Archived' \subseteq Record
    <3>1. parquet' \in [Months -> SUBSET Record] /\ Archived' \subseteq Archived \cup Moving
      BY <1>7, PartitionType
    <3> QED
      BY <3>1 DEF Archived
  <2> QED
    BY <2>1, <2>2, <2>3 DEF Stored, Logged
<1>8. CASE RemoveSegment
  <2>1. /\ Len(segs) > 1 /\ segs' = Tail(segs) /\ synced' = synced
        /\ UNCHANGED parquet /\ ~ WriteRecord
    BY <1>8 DEF RemoveSegment, TypeInv, memory, WriteRecord
  <2>2. Lines(segs') \subseteq Lines(segs)
    BY <2>1, Removed
  <2> QED
    BY <1>b, <2>1, <2>2
<1> USE DEF disk, vars, WriteRecord
<1>9. CASE \E n \in BatchSizes : Propose(n)
  BY <1>3, <1>9 DEF Propose
<1>10. CASE AppendRefused \/ SyncFails
  BY <1>3, <1>10 DEF AppendRefused, SyncFails, Fail
<1>11. CASE Commit \/ CompactionFails \/ RefuseBoot
  BY <1>3, <1>11 DEF Commit, CompactionFails, RefuseBoot
<1>12. CASE Plan \/ Sync
  BY <1>3, <1>12 DEF Plan, Sync
<1>13. CASE Clock \/ UNCHANGED vars
  BY <1>3, <1>13 DEF Clock
<1> QED
  BY <1>1, <1>2, <1>4, <1>5, <1>6, <1>7, <1>8, <1>9, <1>10, <1>11, <1>12, <1>13
     DEF Next

\* Every step keeps the command's shape, and what is stored in agreement.
LEMMA AgreeNext == AgreeInv /\ [Next]_vars => AgreeInv'
<1> SUFFICES ASSUME AgreeInv, [Next]_vars PROVE AgreeInv'
  OBVIOUS
<1>0. /\ TypeInv /\ ChainInv /\ CommandShape /\ Agreed /\ OneRecord
      /\ TypeInv' /\ ChainInv'
      /\ ledger \in Seq(Record) /\ batch \in Seq(Record) /\ left \in Seq(Record)
      /\ walSeq \in Nat /\ Len(ledger) \in Nat
  <2>1. ChainInv /\ CommandShape /\ Agreed /\ ChainInv'
    BY ChainNext DEF AgreeInv
  <2>2. TypeInv /\ TypeInv' /\ OneRecord
    BY <2>1 DEF ChainInv, Agreed
  <2>3. ledger \in Seq(Record) /\ batch \in Seq(Record) /\ left \in Seq(Record) /\ walSeq \in Nat
    BY <2>2 DEF TypeInv
  <2> QED
    BY <2>1, <2>2, <2>3
<1>a. \A r \in Stored : r \in Record /\ r.seq \in Nat
  <2>1. Archived \subseteq Record
    BY <1>0 DEF TypeInv, Archived
  <2> QED
    BY <2>1 DEF Stored, Logged, Record
<1>b. /\ ~ WriteRecord => Stored' \subseteq Stored
      /\ WriteRecord => Stored' \subseteq Stored \cup {Head(left)}
  BY <1>0, StoredAdds
<1>c. Newer \subseteq Stored /\ \A r \in Stored : r \in Newer <=> ~ (r.seq < Len(ledger))
  BY DEF Newer
<1>d. Newer' \subseteq Stored' /\ \A r \in Stored' : r \in Newer' <=> ~ (r.seq < Len(ledger'))
  BY DEF Newer
<1>2. ASSUME Stored' \subseteq Stored, UNCHANGED <<ledger, batch, failed>>,
             Up' => Up /\ walSeq' = walSeq,
             Up' /\ ~ Working' => batch = <<>>,
             Working' => Working /\ left' = left,
             pc' = "commit" => left = <<>>
      PROVE  AgreeInv'
  <2>1. Newer' \subseteq Newer
    BY <1>2, <1>c, <1>d
  <2>2. Agreed'
    BY <1>0, <1>2, <1>c, <2>1 DEF Agreed, OneRecord
  <2>3. CommandShape'
    BY <1>0, <1>2, <2>1 DEF CommandShape, Working
  <2> QED
    BY <1>0, <2>2, <2>3 DEF AgreeInv
<1>3. CASE Boot
  <2>1. /\ NoGap(Replayable, 0) /\ Range(Replayable) = Stored
        /\ Replayable \in Seq(Record)
    BY <1>0, <1>3, ReplayIsStored DEF Boot
  <2>2. /\ ledger' = Replayable /\ batch' = <<>> /\ left' = <<>> /\ pc' = "idle"
        /\ Stored' \subseteq Stored
    BY <1>3, <1>b DEF Boot, WriteRecord
  <2>3. ASSUME NEW r \in Stored'
        PROVE  r.seq < Len(ledger') /\ r = ledger'[r.seq + 1]
    <3>1. PICK i \in 1 .. Len(Replayable) : r = Replayable[i]
      BY <2>1, <2>2, InRange
    <3>2. r.seq = i - 1
      BY <2>1, <3>1 DEF NoGap
    <3> QED
      BY <2>1, <2>2, <3>1, <3>2
  <2>4. Newer' = {}
    BY <1>d, <2>3
  <2>5. Agreed'
    BY <1>0, <2>2, <2>3, <2>4 DEF Agreed, OneRecord
  <2>6. CommandShape'
    BY <2>2 DEF CommandShape, Working, Range
  <2> QED
    BY <1>0, <2>5, <2>6 DEF AgreeInv
<1>4. ASSUME NEW n \in BatchSizes, Propose(n)
      PROVE  AgreeInv'
  <2>1. /\ Stored' \subseteq Stored /\ ledger' = ledger /\ walSeq' = walSeq
        /\ failed' = failed /\ left' = batch' /\ pc = "idle" /\ pc' = "write" /\ Up
    BY <1>4, <1>b DEF Propose, WriteRecord, Up
  <2>2. batch = <<>>
    BY <1>0, <2>1 DEF CommandShape, Working
  <2>3. Range(batch) = {}
    BY <2>2 DEF Range
  <2>4. /\ batch' \in Seq(Record) /\ Len(batch') = n /\ n \in Nat \ {0}
        /\ \A i \in 1 .. n : batch'[i].cmd = cmds
    BY <1>0, <1>4, ProposedBatch
  <2>5. ASSUME NEW r \in Range(batch')
        PROVE  r.cmd = batch'[1].cmd
    <3>1. PICK i \in 1 .. n : r = batch'[i]
      BY <2>4, InRange
    <3>2. 1 \in 1 .. n
      BY <2>4
    <3> QED
      BY <2>4, <3>1, <3>2
  <2>6. Newer' \subseteq Newer
    BY <1>c, <1>d, <2>1
  <2>7. Agreed'
    BY <1>0, <1>c, <2>1, <2>3, <2>6 DEF Agreed, OneRecord
  <2>8. CommandShape'
    BY <2>1, <2>5 DEF CommandShape, Working
  <2> QED
    BY <1>0, <2>7, <2>8 DEF AgreeInv
<1>5. CASE WriteRecord
  <2> DEFINE w == Head(left)
  <2>1. /\ pc = "write" /\ pc' = "write" /\ Up /\ Working /\ left # <<>>
        /\ w.seq = walSeq /\ walSeq' = walSeq + 1 /\ left' = Tail(left)
        /\ ledger' = ledger /\ batch' = batch /\ failed' = failed
        /\ Stored' \subseteq Stored \cup {w}
    BY <1>5, <1>b DEF WriteRecord, Up, Working, answers
  <2>2. /\ w \in Range(left) /\ Range(Tail(left)) \subseteq Range(left)
        /\ Len(left) \in Nat /\ Len(left) > 0
        /\ left[1] = w
    <3>1. /\ Tail(left) \in Seq(Record) /\ Len(Tail(left)) = Len(left) - 1
          /\ \A i \in 1 .. Len(Tail(left)) : Tail(left)[i] = left[i + 1]
          /\ Len(left) \in Nat /\ Len(left) > 0 /\ w = left[1]
      BY <1>0, <2>1, HeadTailProperties
    <3>2. 1 \in 1 .. Len(left) /\ \A i \in 1 .. Len(left) - 1 : i + 1 \in 1 .. Len(left)
      BY <3>1
    <3> HIDE DEF w
    <3>3. w \in Range(left)
      BY <1>0, <3>1, <3>2, InRange
    <3>4. ASSUME NEW x \in Range(Tail(left))
          PROVE  x \in Range(left)
      <4> DEFINE u == Tail(left)
      <4>1. u \in Seq(Record) /\ Len(u) = Len(left) - 1
            /\ \A i \in 1 .. Len(u) : u[i] = left[i + 1]
        BY <3>1
      <4>2. x \in Range(u)
        BY <3>4
      <4> HIDE DEF u
      <4>3. PICK i \in 1 .. Len(u) : x = u[i]
        BY <4>1, <4>2, InRange
      <4>4. i + 1 \in 1 .. Len(left) /\ x = left[i + 1]
        BY <3>1, <3>2, <4>1, <4>3
      <4> QED
        BY <1>0, <4>4, InRange
    <3> QED
      BY <3>1, <3>3, <3>4
  <2>3. w \in Range(batch) /\ NoGap(batch, Len(ledger)) /\ Range(left') \subseteq Range(batch)
    BY <1>0, <2>1, <2>2 DEF CommandShape, ChainInv
  <2>4. w.seq >= Len(ledger)
    <3> HIDE DEF w
    <3>1. PICK i \in 1 .. Len(batch) : w = batch[i]
      BY <1>0, <2>3, InRange
    <3>2. w.seq = Len(ledger) + i - 1
      BY <2>3, <3>1 DEF NoGap
    <3> QED
      BY <1>0, <3>2
  <2> HIDE DEF w
  <2>5. \A r \in Stored : r.seq < walSeq
    BY <1>0, <1>a, <1>c, <2>1, <2>4 DEF Agreed
  <2>6. Newer \subseteq Range(batch)
    <3>1. CASE left # batch
      BY <1>0, <2>1, <3>1 DEF CommandShape
    <3>2. CASE left = batch
      <4>1. w.seq = Len(ledger)
        BY <1>0, <2>1, <2>2, <2>3, <3>2 DEF NoGap
      <4> QED
        BY <1>c, <2>1, <2>5, <4>1
    <3> QED
      BY <3>1, <3>2
  <2>7. Newer' \subseteq Newer \cup {w}
    BY <1>c, <1>d, <2>1
  <2>8. ASSUME NEW r \in Stored', NEW s \in Stored', r.seq = s.seq
        PROVE  r = s
    <3>1. ASSUME NEW x \in Stored
          PROVE  x.seq # w.seq
      BY <1>0, <1>a, <2>1, <2>5
    <3> QED
      BY <1>0, <2>1, <2>8, <3>1 DEF OneRecord
  <2>9. ASSUME NEW r \in Stored', r.seq < Len(ledger')
        PROVE  r = ledger'[r.seq + 1]
    <3>1. r # w
      BY <1>0, <2>1, <2>4, <2>9
    <3> QED
      BY <1>0, <2>1, <2>9, <3>1 DEF Agreed
  <2>10. \A r \in Newer' : r \in Range(batch') /\ r.seq < walSeq'
    BY <1>0, <1>a, <1>c, <2>1, <2>3, <2>5, <2>6, <2>7
  <2>11. Agreed'
    BY <2>8, <2>9, <2>10 DEF Agreed, OneRecord
  <2>12. CommandShape'
    BY <1>0, <2>1, <2>3, <2>10 DEF CommandShape, Working
  <2> QED
    BY <1>0, <2>11, <2>12 DEF AgreeInv
<1>6. CASE WriteFails \/ AppendRefused \/ SyncFails
  <2>1. /\ Stored' \subseteq Stored /\ ledger' = ledger /\ walSeq' = walSeq
        /\ failed' = failed \cup {batch[1].cmd} /\ pc' = "idle" /\ Up /\ Working
        /\ batch' = <<>> /\ left' = <<>>
    <3>1. ~ WriteRecord
      BY <1>6 DEF WriteFails, AppendRefused, SyncFails, Fail, WriteRecord
    <3> QED
      BY <1>6, <1>b, <3>1 DEF WriteFails, AppendRefused, SyncFails, Fail, Up, Working
  <2>2. Newer' \subseteq Newer
    BY <1>c, <1>d, <2>1
  <2>3. \A r \in Newer' : r.cmd \in failed'
    BY <1>0, <2>1, <2>2 DEF Agreed, CommandShape
  <2>4. Agreed'
    BY <1>0, <2>1, <2>2, <2>3 DEF Agreed, OneRecord
  <2>5. CommandShape'
    BY <2>1 DEF CommandShape, Working, Range
  <2> QED
    BY <1>0, <2>4, <2>5 DEF AgreeInv
<1>7. CASE Commit
  <2>1. /\ Stored' \subseteq Stored /\ ledger' = ledger \o batch /\ walSeq' = walSeq
        /\ failed' = failed /\ pc = "commit" /\ pc' = "idle" /\ Up /\ Working
        /\ batch' = <<>> /\ left' = left
    BY <1>7, <1>b DEF Commit, WriteRecord, Up, Working
  <2>2. Newer \subseteq Range(batch) /\ NoGap(batch, Len(ledger)) /\ Len(batch) \in Nat
    <3>1. left = <<>> /\ batch # <<>>
      BY <1>0, <2>1 DEF CommandShape, TypeInv
    <3> QED
      BY <1>0, <2>1, <3>1 DEF CommandShape, ChainInv
  <2>3. /\ Len(ledger') = Len(ledger) + Len(batch)
        /\ \A i \in 1 .. Len(ledger) : ledger'[i] = ledger[i]
        /\ \A i \in 1 .. Len(batch) : ledger'[Len(ledger) + i] = batch[i]
    BY <1>0, <2>1, ConcatProperties
  <2>4. ASSUME NEW r \in Stored
        PROVE  r.seq < Len(ledger') /\ r = ledger'[r.seq + 1]
    <3>1. CASE r.seq < Len(ledger)
      <4>1. r.seq + 1 \in 1 .. Len(ledger) /\ r = ledger[r.seq + 1]
        BY <1>0, <1>a, <3>1 DEF Agreed
      <4> QED
        BY <1>0, <1>a, <2>2, <2>3, <3>1, <4>1
    <3>2. CASE ~ (r.seq < Len(ledger))
      <4>1. PICK i \in 1 .. Len(batch) : r = batch[i]
        BY <1>0, <1>c, <2>2, <3>2, InRange
      <4>2. r.seq = Len(ledger) + i - 1
        BY <2>2, <4>1 DEF NoGap
      <4>3. r.seq + 1 = Len(ledger) + i
        BY <1>0, <4>2
      <4> QED
        BY <1>0, <2>2, <2>3, <4>1, <4>2, <4>3
    <3> QED
      BY <3>1, <3>2
  <2>5. Newer' = {}
    BY <1>d, <2>1, <2>4
  <2>6. Agreed'
    BY <1>0, <2>1, <2>4, <2>5 DEF Agreed, OneRecord
  <2>7. CommandShape'
    BY <2>1 DEF CommandShape, Working, Range
  <2> QED
    BY <1>0, <2>6, <2>7 DEF AgreeInv
<1>e. Up /\ ~ Working => batch = <<>>
  BY <1>0 DEF CommandShape
<1> USE DEF Working, Up, vars, disk, memory, answers, WriteRecord
<1>8. CASE RefuseBoot
  BY <1>2, <1>8, <1>b DEF RefuseBoot
<1>9. CASE Sync
  BY <1>2, <1>9, <1>b DEF Sync
<1>10. CASE SealAndPlan
  BY <1>2, <1>10, <1>b, <1>e DEF SealAndPlan
<1>11. CASE Plan
  BY <1>2, <1>11, <1>b, <1>e DEF Plan
<1>12. CASE WritePartition \/ CompactionFails
  BY <1>2, <1>12, <1>b, <1>e DEF WritePartition, CompactionFails
<1>13. CASE RemoveSegment
  BY <1>0, <1>2, <1>13, <1>b, <1>e DEF RemoveSegment, TypeInv
<1>14. CASE PowerLoss \/ Kill
  BY <1>2, <1>14, <1>b DEF PowerLoss, Kill
<1>15. CASE Clock \/ UNCHANGED vars
  <2>1. Stored' \subseteq Stored
    BY <1>15 DEF Clock, Stored, Archived, Logged
  <2>2. pc' = pc /\ UNCHANGED <<memory, failed>>
    BY <1>15 DEF Clock
  <2>3. pc = "commit" => left = <<>>
    BY <1>0 DEF CommandShape
  <2> QED
    BY <1>2, <1>e, <2>1, <2>2, <2>3
<1> QED
  BY <1>3, <1>4, <1>5, <1>6, <1>7, <1>8, <1>9, <1>10, <1>11, <1>12, <1>13, <1>14,
     <1>15 DEF Next

\* Initially nothing is stored and nothing was answered.
LEMMA AgreeInit == Init => AgreeInv
<1> SUFFICES ASSUME Init PROVE AgreeInv
  OBVIOUS
<1>1. segs = <<>> /\ \A m \in Months : parquet[m] = {}
  BY DEF Init
<1>2. Lines(segs) = {} /\ Archived = {}
  <2>1. Len(segs) = 0
    BY <1>1
  <2> QED
    BY <1>1, <2>1 DEF Lines, Archived
<1>3. Stored = {} /\ Newer = {}
  BY <1>2 DEF Stored, Logged, Newer
<1>4. batch = <<>> /\ ~ Working /\ pc = "down"
  BY DEF Init, Working
<1>5. CommandShape
  BY <1>3, <1>4 DEF CommandShape, Range
<1> QED
  BY <1>3, <1>5, ChainInit DEF AgreeInv, Agreed, OneRecord

\* What a boot would replay is what is stored, so it agrees as that does.
LEMMA AgreedReplay == AgreeInv => ReplayAgrees
<1> SUFFICES ASSUME AgreeInv, BootAccepts PROVE ReplayAgrees
  BY DEF ReplayAgrees
<1>1. /\ TypeInv /\ Agreed /\ OneRecord /\ ledger \in Seq(Record)
  BY DEF AgreeInv, ChainInv, TypeInv, Agreed
<1>2. /\ Replayable \in Seq(Record) /\ NoGap(Replayable, 0)
      /\ Range(Replayable) = Stored
  BY <1>1, ReplayIsStored
<1>3. ASSUME NEW i \in DOMAIN Replayable
      PROVE  /\ Replayable[i] \in Stored /\ Replayable[i].seq = i - 1 /\ i \in Nat /\ i >= 1
             /\ i \in DOMAIN ledger <=> Replayable[i].seq < Len(ledger)
  <2>1. i \in 1 .. Len(Replayable) /\ DOMAIN ledger = 1 .. Len(ledger) /\ Len(ledger) \in Nat
    BY <1>1, <1>2
  <2>2. Replayable[i] \in Stored /\ Replayable[i].seq = i - 1
    BY <1>2, <2>1, InRange DEF NoGap
  <2> QED
    BY <2>1, <2>2
<1>4. \A i \in DOMAIN Replayable \cap DOMAIN ledger : Replayable[i] = ledger[i]
  <2> SUFFICES ASSUME NEW i \in DOMAIN Replayable \cap DOMAIN ledger
               PROVE  Replayable[i] = ledger[i]
    OBVIOUS
  <2>1. Replayable[i] = ledger[(i - 1) + 1] /\ (i - 1) + 1 = i
    BY <1>1, <1>3 DEF Agreed
  <2> QED
    BY <2>1
<1>5. \A i \in DOMAIN Replayable \ DOMAIN ledger :
        Replayable[i].cmd \in failed \/ Replayable[i] \in Range(batch)
  BY <1>1, <1>3 DEF Agreed, Newer
<1> QED
  BY <1>2, <1>4, <1>5 DEF ReplayAgrees

\* Whatever fails, writes that stop half way included, and however the clock is
\* set: a boot replays no gap, no event in the place of another, and beyond
\* what was applied only events of commands that failed or were under way.
THEOREM ReplayNeverReplaces == Spec => []ReplayAgrees
BY AgreeInit, AgreeNext, AgreedReplay, PTL DEF Spec

-----------------------------------------------------------------------------
(* What was acknowledged survives *)

\* The command being executed: its last event is marked, is the last to be
\* written, and once all are written it is in the log, once fsynced safe.
BatchShape ==
  Working =>
    /\ \A i \in 1 .. Len(batch) : batch[i].cmd = batch[1].cmd
    /\ batch[Len(batch)].last
    /\ left # <<>> => left[Len(left)] = batch[Len(batch)]
    /\ left = <<>> => batch[Len(batch)] \in Logged
    /\ pc = "commit" => batch[Len(batch)] \in Safe

\* The last event of an acknowledged command is where no crash reaches it.
AckedSafe == \A c \in acked : \E r \in Safe : r.cmd = c /\ r.last

AckInv == DiskInv /\ BatchShape /\ AckedSafe /\ AckedSurvive

\* What is safe stays safe, and an fsync makes the whole log safe.
LEMMA SafeKept ==
  ASSUME WholeWrites, DiskInv, [Next]_vars
  PROVE  Safe \subseteq Safe' /\ (Sync => Logged \subseteq Safe')
<1>0. /\ TypeInv /\ segs \in Seq(Seq(Line))
      /\ WholeLines /\ Ordered(segs) /\ OneRecord /\ WrittenMonths
      /\ Up => segs # <<>>
  BY DEF DiskInv, ChainInv, TypeInv
<1>a. UNCHANGED parquet => Archived' = Archived
  BY DEF Archived
<1>b. Archived \subseteq Record
  BY <1>0 DEF TypeInv, Archived
<1>c. Up => Lines(segs) \subseteq Record
  BY <1>0 DEF WholeLines
<1>d. ASSUME Archived' = Archived, Sooner(segs) \cup Flushed \subseteq Sooner(segs') \cup Flushed'
      PROVE  Safe \subseteq Safe'
  BY <1>d DEF Safe
<1>1. CASE Boot
  <2>1. Sooner(segs') = Sooner(segs) /\ Flushed \cap Record \subseteq Flushed'
    BY <1>0, <1>1, BootLog
  <2>2. Archived' = Archived /\ ~ Sync
    BY <1>1, <1>a DEF Boot, Sync
  <2> QED
    BY <2>1, <2>2 DEF Safe
<1>2. CASE WriteRecord
  <2> DEFINE r == Head(left)
  <2>1. /\ r \in Record /\ Archived' = Archived /\ Up
        /\ segs' = [Target EXCEPT ![Len(Target)] = Written(@, <<r, Bad>>)]
        /\ synced' = IF Full THEN 0 ELSE synced
    BY <1>0, <1>2, <1>a DEF WriteRecord, TypeInv, Up
  <2> HIDE DEF r
  <2>2. Sooner(segs) \cup Flushed \subseteq Sooner(segs') \cup Flushed'
    BY <1>0, <1>c, <2>1, LineWritten DEF Line
  <2> QED
    BY <1>2, <1>d, <2>1, <2>2 DEF WriteRecord, Sync
<1>3. ASSUME UNCHANGED <<segs, synced, parquet>>
      PROVE  Safe \subseteq Safe'
  BY <1>3, <1>a DEF Safe, Flushed
<1>4. CASE Kill
  <2>0. Up /\ Archived' = Archived
    BY <1>4, <1>a DEF Kill
  <2>1. CASE segs' = segs
    <3>1. synced' = synced /\ parquet' = parquet
      BY <1>0, <1>4, <2>1 DEF Kill
    <3> QED
      BY <1>3, <1>4, <2>1, <3>1 DEF Kill, Sync
  <2>2. CASE segs' = [Target EXCEPT ![Len(Target)] = Written(@, <<Half, Half>>)]
    <3>1. Sooner(segs) \cup Flushed \subseteq Sooner(segs') \cup Flushed'
      BY <1>0, <1>4, <1>c, <2>0, <2>2, KillWrites
    <3> QED
      BY <1>4, <1>d, <2>0, <3>1 DEF Kill, Sync
  <2> QED
    BY <1>4, <2>1, <2>2 DEF Kill
<1>5. CASE PowerLoss
  <2>1. Sooner(segs') = Sooner(segs) /\ Flushed \subseteq Flushed'
    BY <1>0, <1>5, PowerLog
  <2> QED
    BY <1>5, <1>a, <1>d, <2>1 DEF PowerLoss, Sync
<1>6. CASE SealAndPlan
  <2>1. segs' = Append(segs, <<>>) /\ segs # <<>> /\ Archived' = Archived
    BY <1>0, <1>6, <1>a DEF SealAndPlan, Up
  <2>2. Sooner(segs) \cup Flushed \subseteq Sooner(segs')
    BY <1>0, <2>1, Sealed1
  <2> QED
    BY <1>6, <1>d, <2>1, <2>2 DEF SealAndPlan, Sync
<1>7. CASE WritePartition
  <2>1. UNCHANGED <<segs, synced>> /\ pc = "compact"
    BY <1>7 DEF WritePartition
  <2>2. Archived \subseteq Archived'
    BY <1>0, <1>7, PartitionKeeps
  <2>3. Flushed' = Flushed
    BY <2>1 DEF Flushed
  <2> QED
    BY <2>1, <2>2, <2>3 DEF Safe, Sync
<1>8. CASE RemoveSegment
  <2>1. /\ pc = "compact" /\ Len(segs) > 1 /\ segs' = Tail(segs) /\ todo = {}
        /\ synced' = synced /\ Archived' = Archived
    BY <1>0, <1>8, <1>a DEF RemoveSegment, TypeInv, memory
  <2>2. /\ Sooner(segs) = Range(segs[1]) \cup Sooner(segs')
        /\ Flushed' = Flushed
    BY <1>0, <2>1, Removed
  <2>3. \A l \in Sooner(segs) : l \in Record => l \in Archived
    BY <1>0, <2>1 DEF WrittenMonths
  <2> QED
    BY <2>1, <2>2, <2>3 DEF Safe, Sync
<1>9. CASE Sync
  <2>1. /\ synced' = Len(Last(segs)) /\ Up /\ segs' = segs /\ Archived' = Archived
    BY <1>9, <1>a DEF Sync, Up
  <2> DEFINE t == segs[Len(segs)]
  <2>2. /\ segs # <<>> /\ t \in Seq(Line)
        /\ Lines(segs) = Sooner(segs) \cup Range(t)
    BY <1>0, <2>1, LinesSplit
  <2>3. Flushed' = FirstLines(t, Len(t)) /\ Flushed = FirstLines(t, synced)
    BY <2>1, <2>2 DEF Flushed, Last
  <2>4. Range(t) \subseteq FirstLines(t, Len(t))
    <3> HIDE DEF t
    <3>1. \A i \in 1 .. Len(t) : i <= Len(t)
      BY <2>2
    <3> QED
      BY <2>2, <3>1, InRange DEF FirstLines
  <2>5. Flushed \subseteq Range(t)
    BY <2>2, <2>3, FirstLinesIn
  <2> HIDE DEF t
  <2> QED
    BY <2>1, <2>2, <2>3, <2>4, <2>5 DEF Safe, Logged
<1> USE DEF disk, vars
<1>10. CASE \E n \in BatchSizes : Propose(n)
  BY <1>3, <1>10 DEF Propose, Sync
<1>11. CASE AppendRefused \/ SyncFails
  BY <1>3, <1>11 DEF AppendRefused, SyncFails, Fail, Sync
<1>12. CASE Commit \/ CompactionFails \/ RefuseBoot
  BY <1>3, <1>12 DEF Commit, CompactionFails, RefuseBoot, Sync
<1>13. CASE Plan
  BY <1>3, <1>13 DEF Plan, Sync
<1>14. CASE Clock
  BY <1>3, <1>9, <1>14 DEF Clock
<1>15. CASE UNCHANGED vars
  BY <1>3, <1>9, <1>15
<1>16. ~ WriteFails
  BY DEF WholeWrites, WriteFails
<1> QED
  BY <1>1, <1>2, <1>4, <1>5, <1>6, <1>7, <1>8, <1>9, <1>10, <1>11, <1>12, <1>13,
     <1>14, <1>15, <1>16 DEF Next

\* Initially nothing was promised.
LEMMA AckInit == Init => AckInv
BY DiskInit DEF Init, AckInv, BatchShape, AckedSafe, AckedSurvive, Working

\* The command being executed keeps its shape.
LEMMA BatchShapeStep ==
  ASSUME WholeWrites, AckInv, [Next]_vars
  PROVE  BatchShape'
<1>0. TypeInv /\ BatchShape /\ DiskInv /\ Safe \subseteq Safe'
  BY SafeKept DEF AckInv, DiskInv, ChainInv
<1>1. ASSUME NEW n \in BatchSizes, Propose(n)
      PROVE  BatchShape'
  <2>1. /\ n \in Nat \ {0} /\ Len(batch') = n
        /\ \A i \in 1 .. n : batch'[i].cmd = cmds /\ batch'[i].last = (i = n)
    BY <1>0, <1>1, ProposedBatch
  <2>2. 1 \in 1 .. n /\ n \in 1 .. n
    BY <2>1
  <2>3. left' = batch' /\ pc' = "write" /\ left' # <<>>
    BY <1>1, <2>1 DEF Propose
  <2> QED
    BY <2>1, <2>2, <2>3 DEF BatchShape
<1>2. CASE WriteRecord
  <2> DEFINE r == Head(left)
  <2>1. /\ pc = "write" /\ pc' = "write" /\ r \in Record /\ Up /\ left # <<>>
        /\ left \in Seq(Record) /\ batch' = batch /\ left' = Tail(left)
        /\ segs' = [Target EXCEPT ![Len(Target)] = Written(@, <<r, Bad>>)]
        /\ synced' = IF Full THEN 0 ELSE synced
    BY <1>0, <1>2 DEF WriteRecord, TypeInv, Up
  <2>2. left[Len(left)] = batch[Len(batch)]
    BY <1>0, <2>1 DEF BatchShape, Working
  <2>3. Lines(segs') = Lines(segs) \cup {r}
    <3> HIDE DEF r
    <3>1. Lines(segs) \subseteq Record
      BY <1>0, <2>1 DEF DiskInv, WholeLines
    <3> QED
      BY <1>0, <2>1, <3>1, LineWritten DEF Line
  <2>4. r \in Logged'
    BY <2>1, <2>3 DEF Logged
  <2>5. CASE Len(left) > 1
    <3>1. /\ Tail(left) # <<>> /\ Len(Tail(left)) = Len(left) - 1 /\ Len(left) \in Nat
          /\ \A i \in 1 .. Len(left) - 1 : Tail(left)[i] = left[i + 1]
      BY <2>1, <2>5, TailLonger
    <3>2. Len(left) - 1 \in 1 .. Len(left) - 1 /\ (Len(left) - 1) + 1 = Len(left)
      BY <2>5, <3>1
    <3>3. left'[Len(left')] = left[Len(left)] /\ left' # <<>>
      BY <2>1, <3>1, <3>2
    <3> QED
      BY <1>0, <2>1, <2>2, <3>3 DEF BatchShape, Working
  <2>6. CASE ~ (Len(left) > 1)
    <3>0. left \in Seq(Record) /\ left # <<>>
      BY <2>1
    <3>1. Len(left) = 1
      BY <2>6, <3>0, JustOne
    <3>2. r = batch[Len(batch)]
      BY <2>1, <2>2, <3>1
    <3>3. left' = <<>>
      BY <2>1, <3>1
    <3> QED
      BY <1>0, <2>1, <2>4, <3>2, <3>3 DEF BatchShape, Working
  <2> QED
    BY <2>5, <2>6
<1>3. CASE Sync
  <2>1. /\ pc = "write" /\ left = <<>> /\ pc' = "commit" /\ segs' = segs
        /\ batch' = batch /\ left' = left
    BY <1>3 DEF Sync, memory
  <2>2. Logged \subseteq Safe' /\ Logged' = Logged
    BY <1>0, <1>3, <2>1, SafeKept DEF Logged
  <2> QED
    BY <1>0, <2>1, <2>2 DEF BatchShape, Working
<1>4. ASSUME ~ Working' \/ (pc' = pc /\ UNCHANGED <<batch, left, segs>>)
      PROVE  BatchShape'
  <2>1. CASE ~ Working'
    BY <2>1 DEF BatchShape
  <2>2. CASE Working' /\ pc' = pc /\ UNCHANGED <<batch, left, segs>>
    <3>1. Logged' = Logged /\ Working
      BY <2>2 DEF Logged, Working
    <3> QED
      BY <1>0, <2>2, <3>1 DEF BatchShape
  <2> QED
    BY <1>4, <2>1, <2>2
<1> USE DEF Working, vars, disk, memory, answers
<1>5. CASE Boot \/ RefuseBoot
  BY <1>4, <1>5 DEF Boot, RefuseBoot
<1>6. CASE AppendRefused \/ SyncFails
  BY <1>4, <1>6 DEF AppendRefused, SyncFails, Fail
<1>7. CASE Commit
  BY <1>4, <1>7 DEF Commit
<1>8. CASE SealAndPlan
  BY <1>4, <1>8 DEF SealAndPlan
<1>9. CASE Plan \/ WritePartition
  BY <1>4, <1>9 DEF Plan, WritePartition
<1>10. CASE CompactionFails \/ RemoveSegment
  BY <1>4, <1>10 DEF CompactionFails, RemoveSegment
<1>11. CASE PowerLoss \/ Kill
  BY <1>4, <1>11 DEF PowerLoss, Kill
<1>12. CASE Clock \/ UNCHANGED vars
  BY <1>4, <1>12 DEF Clock
<1>13. ~ WriteFails
  BY DEF WholeWrites, WriteFails
<1> QED
  BY <1>1, <1>2, <1>3, <1>5, <1>6, <1>7, <1>8, <1>9, <1>10, <1>11, <1>12, <1>13
     DEF Next

\* What was acknowledged stays safe, and while the writer runs in the ledger.
LEMMA AckedStep ==
  ASSUME WholeWrites, AckInv, [Next]_vars
  PROVE  AckedSafe' /\ AckedSurvive'
<1>0. /\ TypeInv /\ BatchShape /\ DiskInv /\ Safe \subseteq Safe'
      /\ AckedSafe /\ AckedSurvive
  BY SafeKept DEF AckInv, DiskInv, ChainInv
<1>1. CASE Boot
  <2>1. Range(Replayable) = Stored
    BY <1>0, <1>1, BootReplays DEF DiskInv
  <2>2. Safe \subseteq Stored
    <3>1. segs \in Seq(Seq(Line))
      BY <1>0 DEF TypeInv
    <3>2. CASE segs = <<>>
      <4>1. Len(segs) = 0
        BY <3>2
      <4>2. Sooner(segs) = {} /\ Flushed = {}
        BY <3>2, <4>1 DEF Sooner, Flushed
      <4> QED
        BY <4>2 DEF Safe, Stored
    <3>3. CASE segs # <<>>
      <4>1. Flushed \subseteq Range(segs[Len(segs)])
        BY <3>1, <3>3, LinesSplit, FirstLinesIn DEF Flushed
      <4>2. Lines(segs) = Sooner(segs) \cup Range(segs[Len(segs)])
        BY <3>1, <3>3, LinesSplit
      <4> QED
        BY <4>1, <4>2 DEF Safe, Stored, Logged
    <3> QED
      BY <3>2, <3>3
  <2>3. ledger' = Replayable /\ acked' = acked
    BY <1>1 DEF Boot, answers
  <2>4. AckedSafe'
    BY <1>0, <2>3 DEF AckedSafe
  <2>5. AckedSurvive'
    BY <1>0, <2>1, <2>2, <2>3 DEF AckedSafe, AckedSurvive, Applied
  <2> QED
    BY <2>4, <2>5
<1>2. CASE Commit
  <2> DEFINE z == batch[Len(batch)]
  <2>1. /\ pc = "commit" /\ Up /\ Working /\ ledger' = ledger \o batch
        /\ acked' = acked \cup {batch[1].cmd}
    BY <1>2 DEF Commit, Up, Working
  <2>2. z \in Safe /\ z.last
    BY <1>0, <2>1 DEF BatchShape
  <2>3. /\ batch \in Seq(Record) /\ ledger \in Seq(Record)
        /\ Len(batch) \in 1 .. Len(batch)
    <3>1. batch \in Seq(Record) /\ ledger \in Seq(Record) /\ batch # <<>>
      BY <1>0, <2>1 DEF TypeInv
    <3> QED
      BY <3>1
  <2>4. z.cmd = batch[1].cmd
    BY <1>0, <2>1, <2>3 DEF BatchShape
  <2>5. z \in Range(batch)
    BY <2>3, InRange
  <2>6. Range(ledger') = Range(ledger) \cup Range(batch)
    BY <2>1, <2>3, RangeConcatenation
  <2> HIDE DEF z
  <2>7. AckedSafe'
    BY <1>0, <2>1, <2>2, <2>4 DEF AckedSafe
  <2>8. AckedSurvive'
    BY <1>0, <2>1, <2>2, <2>4, <2>5, <2>6 DEF AckedSurvive, Applied
  <2> QED
    BY <2>7, <2>8
<1>3. ASSUME UNCHANGED <<ledger, acked>>, Up' => Up
      PROVE  AckedSafe' /\ AckedSurvive'
  BY <1>0, <1>3 DEF AckedSafe, AckedSurvive, Applied
<1> USE DEF Up, vars, disk, memory, answers
<1>4. CASE RefuseBoot
  BY <1>3, <1>4 DEF RefuseBoot
<1>5. CASE \E n \in BatchSizes : Propose(n)
  BY <1>3, <1>5 DEF Propose
<1>6. CASE AppendRefused \/ SyncFails
  BY <1>3, <1>6 DEF AppendRefused, SyncFails, Fail
<1>7. CASE WriteRecord \/ Sync
  BY <1>3, <1>7 DEF WriteRecord, Sync
<1>8. CASE SealAndPlan
  BY <1>3, <1>8 DEF SealAndPlan
<1>9. CASE Plan \/ WritePartition
  BY <1>3, <1>9 DEF Plan, WritePartition
<1>10. CASE CompactionFails \/ RemoveSegment
  BY <1>3, <1>10 DEF CompactionFails, RemoveSegment
<1>11. CASE PowerLoss \/ Kill
  BY <1>3, <1>11 DEF PowerLoss, Kill
<1>12. CASE Clock \/ UNCHANGED vars
  BY <1>3, <1>12 DEF Clock
<1>13. ~ WriteFails
  BY DEF WholeWrites, WriteFails
<1> QED
  BY <1>1, <1>2, <1>4, <1>5, <1>6, <1>7, <1>8, <1>9, <1>10, <1>11, <1>12, <1>13
     DEF Next

\* An acknowledged command is in every ledger the bot runs with, however the
\* clock is set and whatever crash or fault comes between, if it does not stop
\* a write half way.
THEOREM AcknowledgedSurvive ==
  ASSUME WholeWrites
  PROVE  Spec => []AckedSurvive
<1>1. AckInv /\ [Next]_vars => AckInv'
  <2> SUFFICES ASSUME AckInv, [Next]_vars PROVE AckInv'
    OBVIOUS
  <2>1. DiskInv'
    BY DiskNext DEF AckInv
  <2> QED
    BY <2>1, BatchShapeStep, AckedStep DEF AckInv
<1>2. AckInv => AckedSurvive
  BY DEF AckInv
<1> QED
  BY <1>1, <1>2, AckInit, PTL DEF Spec

-----------------------------------------------------------------------------
(* The log continues where the ledger ends *)

Follows ==
  /\ Up => walSeq >= Len(ledger)
  /\ pc \in {"idle", "compact"} /\ failed = {} => walSeq = Len(ledger)
  /\ Working => /\ Len(left) <= Len(batch)
                /\ Len(left) = Len(batch) => left = batch
                /\ failed = {} \/ Len(left) < Len(batch) =>
                     walSeq = Len(ledger) + Len(batch) - Len(left)
  /\ pc = "commit" => left = <<>>

\* A sequence without its first element is one shorter.
LEMMA TailShorter ==
  ASSUME NEW X, NEW s \in Seq(X), s # <<>>
  PROVE  /\ Tail(s) \in Seq(X) /\ Len(s) \in Nat /\ Len(s) > 0
         /\ Len(Tail(s)) = Len(s) - 1
BY HeadTailProperties

\* No step leaves the log behind the ledger.
LEMMA FollowsNext == WholeWrites /\ DiskInv /\ Follows /\ [Next]_vars => Follows'
<1> SUFFICES ASSUME WholeWrites, DiskInv, Follows, [Next]_vars PROVE Follows'
  OBVIOUS
<1>0. /\ TypeInv /\ ChainInv /\ Ordered(segs) /\ OneRecord /\ ArchiveOlder
      /\ ledger \in Seq(Record) /\ batch \in Seq(Record) /\ left \in Seq(Record)
      /\ walSeq \in Nat
  BY DEF DiskInv, ChainInv, TypeInv
<1>a. Len(ledger) \in Nat /\ Len(batch) \in Nat /\ Len(left) \in Nat
  BY <1>0
<1>1. CASE Boot
  <2>1. walSeq' \in Nat /\ walSeq' = Len(Replayable)
    BY <1>0, <1>1, BootReplays
  <2>2. ledger' = Replayable /\ pc' = "idle"
    BY <1>1 DEF Boot
  <2> QED
    BY <2>1, <2>2 DEF Follows, Working
<1>2. ASSUME NEW n \in BatchSizes, Propose(n)
      PROVE  Follows'
  <2>1. left' = batch' /\ Len(batch') = n /\ n \in Nat
    BY <1>0, <1>2, ProposedBatch DEF Propose
  <2>2. UNCHANGED <<walSeq, ledger, failed>> /\ pc = "idle" /\ pc' = "write"
    BY <1>2 DEF Propose
  <2>3. walSeq >= Len(ledger) /\ (failed = {} => walSeq = Len(ledger))
    BY <2>2 DEF Follows, Up
  <2> DEFINE k == Len(batch')
  <2>4. Len(left') = k /\ k \in Nat
    BY <2>1
  <2>5. failed = {} \/ Len(left') < k => walSeq = Len(ledger) + k - Len(left')
    <3> HIDE DEF k
    <3> QED
      BY <1>0, <1>a, <2>3, <2>4
  <2>6. Len(left') <= k
    <3> HIDE DEF k
    <3> QED
      BY <2>4
  <2> QED
    BY <2>1, <2>2, <2>3, <2>5, <2>6 DEF Follows, Working, Up
<1>3. CASE WriteRecord
  <2>1. /\ pc = "write" /\ pc' = "write" /\ left # <<>> /\ left' = Tail(left)
        /\ Head(left).seq = walSeq /\ walSeq' = walSeq + 1
        /\ UNCHANGED <<ledger, batch, failed>>
    BY <1>3 DEF WriteRecord, answers
  <2>2. Len(left') = Len(left) - 1 /\ Len(left) > 0
    BY <1>0, <2>1, TailShorter
  <2>3. /\ walSeq >= Len(ledger) /\ Len(left) <= Len(batch)
        /\ Len(left) = Len(batch) => left = batch
        /\ Len(left) < Len(batch) => walSeq = Len(ledger) + Len(batch) - Len(left)
    BY <2>1 DEF Follows, Up, Working
  <2>4. walSeq = Len(ledger) + Len(batch) - Len(left)
    <3>1. CASE Len(left) < Len(batch)
      BY <2>3, <3>1
    <3>2. CASE Len(left) = Len(batch)
      <4>1. left = batch /\ NoGap(batch, Len(ledger))
        BY <1>0, <2>1, <2>3, <3>2 DEF ChainInv, Working
      <4>2. 1 \in DOMAIN batch /\ Head(batch) = batch[1]
        BY <1>0, <2>1, <4>1
      <4>3. batch[1].seq = Len(ledger) + 1 - 1
        BY <4>1, <4>2 DEF NoGap
      <4>4. walSeq = Len(ledger) + 1 - 1
        BY <2>1, <4>1, <4>2, <4>3
      <4> QED
        BY <1>0, <1>a, <3>2, <4>4
    <3> QED
      BY <1>a, <2>3, <3>1, <3>2
  <2>5. /\ walSeq' >= Len(ledger') /\ Len(left') <= Len(batch')
        /\ Len(left') # Len(batch')
        /\ walSeq' = Len(ledger') + Len(batch') - Len(left')
    <3>1. \A w, g, b, f \in Nat :
            /\ w >= g /\ f <= b /\ f > 0 /\ w = g + b - f
            => /\ w + 1 >= g /\ f - 1 <= b /\ f - 1 # b
               /\ w + 1 = g + b - (f - 1)
      OBVIOUS
    <3> DEFINE g == Len(ledger)
               b == Len(batch)
               f == Len(left)
    <3>2. /\ walSeq \in Nat /\ g \in Nat /\ b \in Nat /\ f \in Nat
          /\ walSeq >= g /\ f <= b /\ f > 0 /\ walSeq = g + b - f
      BY <1>0, <1>a, <2>2, <2>3, <2>4
    <3>3. /\ Len(ledger') = g /\ Len(batch') = b /\ Len(left') = f - 1
          /\ walSeq' = walSeq + 1
      BY <2>1, <2>2
    <3> HIDE DEF g, b, f
    <3>4. /\ walSeq + 1 >= g /\ f - 1 <= b /\ f - 1 # b
          /\ walSeq + 1 = g + b - (f - 1)
      BY <3>1, <3>2
    <3> QED
      BY <3>3, <3>4, Zenon
  <2> QED
    BY <2>1, <2>5 DEF Follows, Working
<1>4. CASE AppendRefused \/ SyncFails
  <2>1. /\ pc = "write" /\ pc' = "idle" /\ failed' # {}
        /\ UNCHANGED <<walSeq, ledger>>
    BY <1>4 DEF AppendRefused, SyncFails, Fail
  <2> QED
    BY <2>1 DEF Follows, Up, Working
<1>5. CASE Sync
  <2>1. /\ pc = "write" /\ pc' = "commit" /\ left = <<>>
        /\ UNCHANGED <<walSeq, ledger, batch, left, failed>>
    BY <1>5 DEF Sync, memory, answers
  <2> QED
    BY <2>1 DEF Follows, Up, Working
<1>6. CASE Commit
  <2>1. /\ pc = "commit" /\ pc' = "idle" /\ ledger' = ledger \o batch
        /\ UNCHANGED <<walSeq, failed>>
    BY <1>6 DEF Commit
  <2>2. left = <<>> /\ batch # <<>>
    BY <1>0, <2>1 DEF Follows, TypeInv, Working
  <2>3. Len(left) = 0 /\ Len(batch) > 0
    BY <1>0, <1>a, <2>2, EmptySeq
  <2>4. walSeq = Len(ledger) + Len(batch) - Len(left)
    BY <2>1, <2>3 DEF Follows, Working
  <2>5. Len(ledger') = Len(ledger) + Len(batch)
    BY <1>0, <2>1
  <2>6. walSeq' = Len(ledger') /\ Len(ledger') \in Nat
    BY <1>a, <1>0, <2>1, <2>3, <2>4, <2>5
  <2> QED
    BY <2>1, <2>6 DEF Follows, Working
<1>7. ASSUME UNCHANGED <<walSeq, ledger, batch, left, failed>>,
             \/ pc' = pc \/ pc' \in {"down", "refused"}
             \/ {pc, pc'} \subseteq {"idle", "compact"}
      PROVE  Follows'
  BY <1>7 DEF Follows, Up, Working
<1> USE DEF vars, disk, memory, answers
<1>8. CASE RefuseBoot
  BY <1>7, <1>8 DEF RefuseBoot
<1>9. CASE SealAndPlan
  BY <1>7, <1>9 DEF SealAndPlan
<1>10. CASE Plan \/ WritePartition
  BY <1>7, <1>10 DEF Plan, WritePartition
<1>11. CASE CompactionFails \/ RemoveSegment
  BY <1>7, <1>11 DEF CompactionFails, RemoveSegment
<1>12. CASE PowerLoss \/ Kill
  BY <1>7, <1>12 DEF PowerLoss, Kill
<1>13. CASE Clock \/ UNCHANGED vars
  BY <1>7, <1>13 DEF Clock
<1>14. ~ WriteFails
  BY DEF WholeWrites, WriteFails
<1> QED
  BY <1>1, <1>2, <1>3, <1>4, <1>5, <1>6, <1>8, <1>9, <1>10, <1>11, <1>12, <1>13,
     <1>14 DEF Next

\* If no write stops half way, the next append at rest is not refused: the log
\* continues where the ledger ends, and is never behind it.
THEOREM LogNeverBehind ==
  ASSUME WholeWrites
  PROVE  Spec => []LogFollowsLedger
<1>1. Init => DiskInv /\ Follows
  BY DiskInit DEF Init, Follows, Up, Working
<1>2. DiskInv /\ Follows /\ [Next]_vars => (DiskInv /\ Follows)'
  BY DiskNext, FollowsNext
<1>3. DiskInv /\ Follows => LogFollowsLedger
  BY DEF Follows, LogFollowsLedger, Up
<1> QED
  BY <1>1, <1>2, <1>3, PTL DEF Spec

-----------------------------------------------------------------------------
(* Nothing is missing *)

\* With a record every earlier one is in S.
Closed(S) == \A r \in S : \A k \in 0 .. r.seq - 1 : \E s \in S : s.seq = k

\* Finitely many records, none of whose predecessors is missing, are numbered
\* from 0 without a gap.
LEMMA ClosedContiguous ==
  ASSUME NEW A \in SUBSET Record, IsFiniteSet(A), Closed(A),
         \A r, s \in A : r.seq = s.seq => r = s
  PROVE  Contiguous(A, 0)
<1> DEFINE n == Cardinality(A)
           D == {r.seq : r \in A}
           f == [r \in A |-> r.seq]
           B == {k \in 0 .. n : k \notin D}
<1>1. n \in Nat /\ \A r \in A : r.seq \in Nat
  BY FS_CardinalityType DEF Record
<1>2. f \in Surjection(A, D) /\ f \in Injection(A, D)
  <2>1. f \in [A -> D] /\ \A k \in D : \E r \in A : f[r] = k
    OBVIOUS
  <2>2. \A r, s \in A : f[r] = f[s] => r = s
    OBVIOUS
  <2> HIDE DEF f, D
  <2> QED
    BY <2>1, <2>2 DEF Surjection, Injection, IsInjective
<1>3. IsFiniteSet(D) /\ Cardinality(D) <= n /\ Cardinality(D) \in Nat
  <2> HIDE DEF f, D
  <2> QED
    BY <1>2, FS_Surjection, FS_CardinalityType
<1>4. B # {}
  <2>1. SUFFICES ASSUME 0 .. n \subseteq D PROVE FALSE
    OBVIOUS
  <2>2. Cardinality(0 .. n) = n + 1
    BY <1>1, FS_Interval
  <2>3. Cardinality(0 .. n) <= Cardinality(D)
    <3> HIDE DEF D
    <3> QED
      BY <1>3, <2>1, FS_Subset
  <2> HIDE DEF D, n
  <2> QED
    BY <1>1, <1>3, <2>2, <2>3
<1>5. PICK m \in B : \A k \in B : m <= k
  <2>1. B \in SUBSET Nat
    OBVIOUS
  <2> HIDE DEF B
  <2> QED
    BY <1>4, <2>1, LeastNumber
<1>6. m \in Nat /\ m <= n /\ m \notin D
  BY <1>1, <1>5
<1>7. ASSUME NEW k \in 0 .. m - 1
      PROVE  k \in D
  <2>1. k \in 0 .. n /\ ~ (m <= k)
    <3> HIDE DEF n
    <3> QED
      BY <1>1, <1>6
  <2> QED
    BY <1>5, <2>1
<1>8. ASSUME NEW k \in D
      PROVE  k \in 0 .. m - 1
  <2>1. PICK r \in A : r.seq = k
    OBVIOUS
  <2>2. k \in Nat
    BY <1>1, <2>1
  <2>3. ~ (m <= k)
    <3>1. SUFFICES ASSUME m <= k PROVE FALSE
      OBVIOUS
    <3>2. m # k
      BY <1>6
    <3>3. m \in 0 .. r.seq - 1
      BY <1>6, <2>1, <2>2, <3>1, <3>2
    <3>4. \E s \in A : s.seq = m
      BY <3>3 DEF Closed
    <3> QED
      BY <1>6, <3>4
  <2> QED
    BY <1>6, <2>2, <2>3
<1>9. D = 0 .. m - 1
  BY <1>7, <1>8
<1>10. n = m
  <2>1. f \in Bijection(A, D)
    BY <1>2 DEF Bijection
  <2>2. Cardinality(D) = n
    <3>1. ExistsBijection(A, D)
      BY <2>1 DEF ExistsBijection
    <3> HIDE DEF D, f
    <3> QED
      BY <3>1, <1>3, FS_Bijection
  <2>3. Cardinality(0 .. m - 1) = m
    BY <1>6, FS_Interval
  <2> QED
    BY <1>9, <2>2, <2>3
<1>11. D = 0 .. 0 + n - 1
  <2> HIDE DEF n, D
  <2> QED
    BY <1>6, <1>9, <1>10
<1> QED
  BY <1>11 DEF Contiguous

\* Records in order, none missing between the first and another, are a chain.
LEMMA RisingChain ==
  ASSUME NEW s \in Seq(Record), s # <<>>, Rising(s),
         \A r \in Range(s) : \A k \in s[1].seq .. r.seq :
            \E q \in Range(s) : q.seq = k
  PROVE  NoGap(s, s[1].seq)
<1> DEFINE n == Len(s)
           at(i) == s[i].seq
           B == {i \in 1 .. n : at(i) # at(1) + i - 1}
<1>1. n \in Nat /\ \A i \in 1 .. n : s[i] \in Record /\ at(i) \in Nat
  <2>1. n \in Nat /\ \A i \in 1 .. n : s[i] \in Record
    OBVIOUS
  <2>2. \A r \in Record : r.seq \in Nat
    BY DEF Record
  <2> QED
    BY <2>1, <2>2
<1>2. \A i, j \in 1 .. n : i < j => at(i) < at(j)
  BY <1>1 DEF Rising, Under
<1>3. \A i \in 1 .. n : \A k \in at(1) .. at(i) : \E p \in 1 .. n : at(p) = k
  <2>1. ASSUME NEW i \in 1 .. n, NEW k \in at(1) .. at(i)
        PROVE  \E p \in 1 .. n : at(p) = k
    <3>1. s[i] \in Range(s)
      BY InRange
    <3>2. PICK q \in Range(s) : q.seq = k
      BY <3>1
    <3> QED
      BY <3>2, InRange
  <2> QED
    BY <2>1
<1>4. ASSUME B # {}
      PROVE  FALSE
  <2>1. PICK i \in B : \A j \in B : i <= j
    <3>1. B \in SUBSET Nat
      BY <1>1
    <3> HIDE DEF B
    <3> QED
      BY <1>4, <3>1, LeastNumber
  <2>2. i \in 1 .. n /\ at(i) # at(1) + i - 1 /\ i \in Nat
    BY <1>1, <2>1
  <2> HIDE DEF B, at, n
  <2>3. i # 1 /\ 1 \in 1 .. n
    BY <1>1, <2>2
  <2>4. i - 1 \in 1 .. n /\ i - 1 < i /\ ~ (i <= i - 1)
    BY <1>1, <2>2, <2>3
  <2>5. at(i - 1) = at(1) + (i - 1) - 1
    BY <2>1, <2>4 DEF B
  <2>6. at(i - 1) < at(i) /\ at(1) \in Nat /\ at(i) \in Nat
    BY <1>1, <1>2, <2>2, <2>3, <2>4
  <2> DEFINE k == at(1) + i - 1
  <2>7. k \in at(1) .. at(i) /\ k < at(i) /\ at(i - 1) < k /\ k \in Nat
    BY <1>1, <2>2, <2>3, <2>4, <2>5, <2>6
  <2> HIDE DEF k
  <2>8. PICK p \in 1 .. n : at(p) = k
    BY <1>3, <2>2, <2>7
  <2>9. CASE p > i
    <3>1. at(i) < at(p)
      BY <1>2, <2>2, <2>9
    <3> QED
      BY <2>6, <2>7, <2>8, <3>1
  <2>10. CASE p < i - 1
    <3>1. at(p) < at(i - 1)
      BY <1>2, <2>4, <2>10
    <3>2. at(i - 1) \in Nat
      BY <1>1, <2>4
    <3> QED
      BY <2>7, <2>8, <3>1, <3>2
  <2>11. CASE p = i \/ p = i - 1
    <3>1. at(i - 1) \in Nat
      BY <1>1, <2>4
    <3> QED
      BY <2>6, <2>7, <2>8, <2>11, <3>1
  <2> QED
    BY <1>1, <2>2, <2>9, <2>10, <2>11
<1>5. DOMAIN s = 1 .. n
  OBVIOUS
<1> QED
  BY <1>4, <1>5 DEF NoGap

\* Two sequences in order, the second above the first, are in order.
LEMMA RisingJoined ==
  ASSUME NEW s \in Seq(Record), NEW t \in Seq(Record),
         Rising(s), Rising(t), Under(Range(s), Range(t))
  PROVE  Rising(s \o t)
<1> DEFINE u == s \o t
           m == Len(s)
           n == Len(t)
<1>1. /\ u \in Seq(Record) /\ Len(u) = m + n /\ m \in Nat /\ n \in Nat
      /\ \A i \in 1 .. m + n : u[i] = IF i <= m THEN s[i] ELSE t[i - m]
  BY ConcatProperties
<1>2. \A i \in 1 .. m : s[i] \in Range(s)
  BY InRange
<1>3. \A i \in 1 .. n : t[i] \in Range(t)
  BY InRange
<1> HIDE DEF u
<1>4. ASSUME NEW i \in 1 .. Len(u), NEW j \in 1 .. Len(u), i < j
      PROVE  Under({u[i]}, {u[j]})
  <2>1. CASE j <= m
    <3>1. i \in 1 .. m /\ j \in 1 .. m /\ u[i] = s[i] /\ u[j] = s[j]
      BY <1>1, <1>4, <2>1
    <3> QED
      BY <1>4, <3>1 DEF Rising
  <2>2. CASE i <= m /\ ~ (j <= m)
    <3>1. i \in 1 .. m /\ j - m \in 1 .. n /\ u[i] = s[i] /\ u[j] = t[j - m]
      BY <1>1, <1>4, <2>2
    <3> QED
      BY <1>2, <1>3, <3>1 DEF Under
  <2>3. CASE ~ (i <= m)
    <3>1. /\ i - m \in 1 .. n /\ j - m \in 1 .. n /\ i - m < j - m
          /\ u[i] = t[i - m] /\ u[j] = t[j - m]
      BY <1>1, <1>4, <2>3
    <3> QED
      BY <3>1 DEF Rising
  <2> QED
    BY <1>1, <2>1, <2>2, <2>3
<1> QED
  BY <1>4 DEF Rising, u

\* Segments in order are read in order.
LEMMA JoinsRising ==
  ASSUME NEW ss \in Seq(Seq(Record)), NEW g, Joins(g, ss, Len(ss)), Ordered(ss)
  PROVE  \A n \in 1 .. Len(ss) : Rising(g[n])
<1> DEFINE B == {k \in 1 .. Len(ss) : ~ Rising(g[k])}
           U(k) == UNION {Range(ss[i]) : i \in 1 .. k}
<1>1. SUFFICES ASSUME B # {} PROVE FALSE
  OBVIOUS
<1>2. PICK k \in B : \A j \in B : k <= j
  <2> HIDE DEF B
  <2>1. B \in SUBSET Nat
    BY DEF B
  <2> QED
    BY <1>1, <2>1, LeastNumber
<1>3. k \in 1 .. Len(ss) /\ ss[k] \in Seq(Record) /\ Len(ss) \in Nat /\ k \in Nat
  OBVIOUS
<1>4. \A i \in 1 .. Len(ss) : g[i] = IF i = 1 THEN ss[i] ELSE g[i - 1] \o ss[i]
  BY JoinsAt
<1>5. \A n \in 1 .. Len(ss) : g[n] \in Seq(Record) /\ Range(g[n]) = U(n)
  BY JoinsRange
<1>6. Rising(ss[k])
  BY <1>3 DEF Ordered
<1>7. k # 1
  BY <1>2, <1>4, <1>6
<1>8. k - 1 \in 1 .. Len(ss) /\ ~ (k <= k - 1)
  BY <1>3, <1>7
<1>9. Rising(g[k - 1]) /\ g[k - 1] \in Seq(Record) /\ Range(g[k - 1]) = U(k - 1)
  <2>1. k - 1 \notin B
    <3> HIDE DEF B
    <3> QED
      BY <1>2, <1>8
  <2> QED
    BY <1>5, <1>8, <2>1
<1> DEFINE s == g[k - 1]
           t == ss[k]
<1>10. Under(Range(s), Range(t))
  <2>1. ASSUME NEW a \in Range(s)
        PROVE  Under({a}, Range(t))
    <3>1. PICK i \in 1 .. k - 1 : a \in Range(ss[i])
      BY <1>9
    <3>2. i \in 1 .. Len(ss) /\ i < k
      BY <1>3
    <3>3. Under(Range(ss[i]), Range(ss[k]))
      BY <1>3, <3>2 DEF Ordered
    <3> QED
      BY <3>1, <3>3 DEF Under
  <2> QED
    BY <2>1 DEF Under
<1>11. g[k] = s \o t
  BY <1>3, <1>4, <1>7
<1>12. s \in Seq(Record) /\ t \in Seq(Record) /\ Rising(s) /\ Rising(t)
  BY <1>3, <1>6, <1>9
<1> HIDE DEF s, t, U, B
<1>13. Rising(s \o t)
  BY <1>10, <1>12, RisingJoined
<1> QED
  BY <1>2, <1>11, <1>13 DEF B

\* Reading segments that are in order, one after the other.
LEMMA FlattenRising ==
  ASSUME NEW ss \in Seq(Seq(Record)), Ordered(ss)
  PROVE  Rising(FlattenSeq(ss))
<1>1. CASE ss = <<>>
  <2>1. FlattenSeq(ss) = <<>>
    BY <1>1 DEF FlattenSeq
  <2>2. Len(FlattenSeq(ss)) = 0
    BY <2>1
  <2> QED
    BY <2>2 DEF Rising
<1>2. CASE ss # <<>>
  <2> DEFINE g == CHOOSE g : Joins(g, ss, Len(ss))
  <2>1. Len(ss) \in 1 .. Len(ss) /\ Len(ss) \in Nat
    BY <1>2
  <2>2. Joins(g, ss, Len(ss))
    BY <2>1, JoinsExist
  <2>3. FlattenSeq(ss) = g[Len(ss)]
    BY <2>1, FlattenByJoins
  <2> HIDE DEF g
  <2>4. \A n \in 1 .. Len(ss) : Rising(g[n])
    BY <2>2, JoinsRising
  <2> QED
    BY <2>1, <2>3, <2>4
<1> QED
  BY <1>1, <1>2

\* What is stored changes only by a record written, numbered as the log says,
\* and by a power loss, which takes the newest of what was not safe.
LEMMA StoredStep ==
  ASSUME WholeWrites, DiskInv, [Next]_vars
  PROVE  \/ Stored' = Stored /\ ~ WriteRecord
         \/ /\ WriteRecord /\ Head(left) \in Record
            /\ Stored' = Stored \cup {Head(left)}
         \/ /\ PowerLoss
            /\ Stored' \subseteq Stored /\ Under(Stored', Stored \ Stored')
            /\ Safe \subseteq Stored'
<1>0. /\ TypeInv /\ segs \in Seq(Seq(Line))
      /\ WholeLines /\ Ordered(segs) /\ OneRecord /\ ArchiveOlder /\ WrittenMonths
      /\ Up => segs # <<>>
  BY DEF DiskInv, ChainInv, TypeInv
<1>a. UNCHANGED parquet => Archived' = Archived
  BY DEF Archived
<1>b. Archived \subseteq Record
  BY <1>0 DEF TypeInv, Archived
<1>c. Up => Lines(segs) \subseteq Record /\ Sooner(segs) \subseteq Lines(segs)
  BY <1>0, LinesSplit DEF WholeLines
<1>d. UNCHANGED segs => Logged' = Logged
  BY DEF Logged
<1>1. CASE Boot
  <2>1. Logged' = Logged
    BY <1>0, <1>1, BootLog
  <2> QED
    BY <1>1, <1>a, <2>1 DEF Boot, WriteRecord, Stored
<1>2. CASE WriteRecord
  <2> DEFINE r == Head(left)
  <2>1. /\ r \in Record /\ Archived' = Archived /\ Up
        /\ segs' = [Target EXCEPT ![Len(Target)] = Written(@, <<r, Bad>>)]
        /\ synced' = IF Full THEN 0 ELSE synced
    BY <1>0, <1>2, <1>a DEF WriteRecord, TypeInv, Up
  <2> HIDE DEF r
  <2>2. Lines(segs') = Lines(segs) \cup {r}
    BY <1>0, <1>c, <2>1, LineWritten DEF Line
  <2>3. Stored' = Stored \cup {r}
    BY <2>1, <2>2 DEF Stored, Logged
  <2> QED
    BY <1>2, <2>1, <2>3 DEF r
<1>3. ASSUME UNCHANGED <<segs, parquet>>
      PROVE  Stored' = Stored
  BY <1>3, <1>a, <1>d DEF Stored
<1>4. CASE Kill
  <2>0. Up /\ Archived' = Archived /\ ~ WriteRecord
    BY <1>4, <1>a DEF Kill, WriteRecord
  <2>1. CASE segs' = segs
    BY <1>d, <2>0, <2>1 DEF Stored
  <2>2. CASE segs' = [Target EXCEPT ![Len(Target)] = Written(@, <<Half, Half>>)]
    <3>1. Lines(segs') = Lines(segs) \cup {Half}
      BY <1>0, <1>4, <1>c, <2>0, <2>2, KillWrites
    <3> QED
      BY <2>0, <3>1, LinesAssumption DEF Stored, Logged
  <2> QED
    BY <1>4, <2>1, <2>2 DEF Kill
<1>5. CASE PowerLoss
  <2>1. /\ Sooner(segs') = Sooner(segs) /\ Flushed \subseteq Flushed'
        /\ segs' \in Seq(Seq(Line)) /\ segs' # <<>>
        /\ Logged' \subseteq Logged /\ Under(Logged', Logged \ Logged')
    BY <1>0, <1>5, PowerLog
  <2>2. Archived' = Archived /\ Up
    BY <1>5, <1>a DEF PowerLoss
  <2>3. Sooner(segs) \cap Record \subseteq Logged'
    BY <2>1, LinesSplit DEF Logged
  <2>4. Flushed' \cap Record \subseteq Logged'
    <3>1. Flushed' \subseteq Range(segs'[Len(segs')])
      BY <2>1, LinesSplit, FirstLinesIn DEF Flushed
    <3>2. Lines(segs') = Sooner(segs') \cup Range(segs'[Len(segs')])
      BY <2>1, LinesSplit
    <3> QED
      BY <3>1, <3>2 DEF Logged
  <2>5. Safe \subseteq Stored'
    BY <2>1, <2>2, <2>3, <2>4 DEF Safe, Stored
  <2>6. Stored' \subseteq Stored
    BY <2>1, <2>2 DEF Stored
  <2>7. Under(Stored', Stored \ Stored')
    <3>1. ASSUME NEW a \in Stored', NEW b \in Stored \ Stored'
          PROVE  Under({a}, {b})
      <4>1. b \in Logged \ Logged'
        BY <2>2 DEF Stored
      <4>2. CASE a \in Logged'
        BY <2>1, <4>1, <4>2 DEF Under
      <4>3. CASE a \in Archived
        <5>1. CASE a \in Sooner(segs)
          <6>1. a \in Logged'
            BY <1>b, <2>3, <4>3, <5>1
          <6> QED
            BY <4>2, <6>1
        <5>2. CASE Under({a}, Logged)
          BY <4>1, <5>2 DEF Under
        <5> QED
          BY <1>0, <4>3, <5>1, <5>2 DEF ArchiveOlder
      <4> QED
        BY <2>2, <4>2, <4>3 DEF Stored
    <3> QED
      BY <3>1 DEF Under
  <2> QED
    BY <1>5, <2>5, <2>6, <2>7
<1>6. CASE SealAndPlan
  <2>1. segs' = Append(segs, <<>>) /\ segs # <<>> /\ Archived' = Archived /\ ~ WriteRecord
    BY <1>0, <1>6, <1>a DEF SealAndPlan, Up, WriteRecord
  <2>2. Lines(segs') = Lines(segs)
    BY <1>0, <2>1, Sealed1
  <2> QED
    BY <2>1, <2>2 DEF Stored, Logged
<1>7. CASE WritePartition
  <2>1. UNCHANGED segs /\ pc = "compact" /\ ~ WriteRecord
    BY <1>7 DEF WritePartition, WriteRecord
  <2>2. /\ Archived \subseteq Archived'
        /\ Archived' \subseteq Archived \cup (Sooner(segs) \cap Record)
    BY <1>0, <1>7, PartitionKeeps
  <2> QED
    BY <1>c, <1>d, <2>1, <2>2 DEF Stored, Logged, Up
<1>8. CASE RemoveSegment
  <2>1. /\ pc = "compact" /\ Len(segs) > 1 /\ segs' = Tail(segs) /\ todo = {}
        /\ synced' = synced /\ Archived' = Archived /\ ~ WriteRecord
    BY <1>0, <1>8, <1>a DEF RemoveSegment, TypeInv, memory, WriteRecord
  <2>2. /\ Sooner(segs) = Range(segs[1]) \cup Sooner(segs')
        /\ Lines(segs) = Range(segs[1]) \cup Lines(segs')
    BY <1>0, <2>1, Removed
  <2>3. \A l \in Sooner(segs) : l \in Record => l \in Archived
    BY <1>0, <2>1 DEF WrittenMonths
  <2> QED
    BY <2>1, <2>2, <2>3 DEF Stored, Logged
<1> USE DEF disk, vars, WriteRecord
<1>10. CASE \E n \in BatchSizes : Propose(n)
  BY <1>3, <1>10 DEF Propose
<1>11. CASE AppendRefused \/ SyncFails
  BY <1>3, <1>11 DEF AppendRefused, SyncFails, Fail
<1>12. CASE Commit \/ CompactionFails \/ RefuseBoot
  BY <1>3, <1>12 DEF Commit, CompactionFails, RefuseBoot
<1>13. CASE Plan \/ Sync
  BY <1>3, <1>13 DEF Plan, Sync
<1>14. CASE Clock \/ UNCHANGED vars
  <2>1. left' = left
    BY <1>14 DEF Clock, memory
  <2>2. Stored' = Stored
    BY <1>3, <1>14 DEF Clock
  <2> QED
    BY <1>2, <2>2
<1>16. ~ WriteFails
  BY DEF WholeWrites, WriteFails
<1> QED
  BY <1>1, <1>2, <1>4, <1>5, <1>6, <1>7, <1>8, <1>10, <1>11, <1>12, <1>13,
     <1>14, <1>16 DEF Next

\* The months of the records are in the order of their numbers, and none is
\* ahead of the clock.
MonthOrder ==
  /\ \A r, s \in Stored : r.seq < s.seq => r.month <= s.month
  /\ \A r \in Stored : r.month <= month
  /\ Working => \A s \in Range(batch) :
                  s.month <= month /\ \A r \in Stored \cup Range(batch) : r.month <= s.month

\* What is not left to write of a command is stored.
BatchKnown ==
  Working => Range(left) \subseteq Range(batch)
             /\ Range(batch) \subseteq Stored \cup Range(left)

LedgerStored == Up => Range(ledger) \subseteq Stored

\* No number below the log's next is missing.
NextFull == Up => \A k \in 0 .. walSeq - 1 : \E s \in Stored : s.seq = k

\* The disk, while the clock does not go back either.
FullInv ==
  /\ DiskInv /\ Follows
  /\ Closed(Stored) /\ Closed(Archived) /\ NextFull
  /\ pc # "refused" /\ FullDisk(segs)
  /\ MonthOrder /\ BatchKnown /\ LedgerStored

\* Numbers of events and of commands are natural.
LEMMA RecordNumber == \A r \in Record : r.seq \in Nat /\ r.cmd \in Nat
BY DEF Record

\* Such a disk boots.
LEMMA FullBoots == FullInv => BootAccepts
<1> SUFFICES ASSUME FullInv PROVE BootAccepts
  OBVIOUS
<1> DEFINE c == Cardinality(Archived)
           s == Tail0
<1>0. /\ TypeInv /\ segs \in Seq(Seq(Line)) /\ Archived \in SUBSET Record
      /\ IsFiniteSet(Archived) /\ Ordered(segs) /\ OneRecord /\ ArchiveOlder
      /\ Closed(Stored) /\ Closed(Archived) /\ FullDisk(segs)
  BY DEF FullInv, DiskInv, ChainInv, TypeInv, Archived
<1>1. Contiguous(Archived, 0)
  <2>1. \A r, q \in Archived : r.seq = q.seq => r = q
    BY <1>0 DEF OneRecord, Stored
  <2> QED
    BY <1>0, <2>1, ClosedContiguous
<1>2. ASSUME NEW i \in 1 .. Len(segs)
      PROVE  \A l \in Range(Readable(i)) : l \in Record
  <2> DEFINE t == segs[i]
  <2>1. t \in Seq(Line) /\ Len(t) \in Nat
    BY <1>0
  <2>2. CASE i # Len(segs)
    <3>1. i \in 1 .. Len(segs) - 1
      BY <1>0, <2>2
    <3>2. Range(segs[i]) \subseteq Sooner(segs)
      BY <3>1 DEF Sooner
    <3> QED
      BY <1>0, <2>2, <3>2 DEF FullDisk, Readable, TornTail
  <2>3. CASE i = Len(segs)
    <3>1. \A j \in 1 .. Len(t) - 1 : t[j] \in Record
      <4>1. segs # <<>>
        <5>1. SUFFICES ASSUME segs = <<>> PROVE FALSE
          OBVIOUS
        <5>2. Len(segs) = 0
          BY <5>1
        <5> QED
          BY <5>2
      <4> QED
        BY <1>0, <2>3, <4>1 DEF FullDisk
    <3>2. CASE TornTail(i)
      <4> DEFINE k == Len(t) - 1
                 u == SubSeq(t, 1, k)
      <4>1. k \in 0 .. Len(t) /\ Readable(i) = u
        BY <1>0, <2>1, <3>2, ReadableLines
      <4> HIDE DEF t, k
      <4>2. u \in Seq(Line) /\ Len(u) = k /\ \A j \in 1 .. k : u[j] = t[j]
        BY <2>1, <4>1, LinesCut
      <4> HIDE DEF u
      <4>3. ASSUME NEW l \in Range(u)
            PROVE  l \in Record
        <5>1. PICK j \in 1 .. k : u[j] = l
          BY <4>2, InRange
        <5> QED
          BY <3>1, <4>2, <5>1 DEF k
      <4> QED
        BY <4>1, <4>3
    <3>3. CASE ~ TornTail(i)
      <4>1. Readable(i) = t
        BY <3>3 DEF Readable
      <4>2. ASSUME NEW l \in Range(t)
            PROVE  l \in Record
        <5>1. PICK j \in 1 .. Len(t) : t[j] = l
          BY <2>1, InRange
        <5>2. CASE j = Len(t)
          <6>1. Good(t[Len(t)]) /\ t[j] \in Line
            <7>1. t # <<>>
              <8>1. SUFFICES ASSUME t = <<>> PROVE FALSE
                OBVIOUS
              <8>2. Len(t) = 0
                BY <8>1
              <8> HIDE DEF t
              <8> QED
                BY <8>2
            <7> QED
              BY <2>1, <2>3, <3>3, <7>1 DEF TornTail, Last
          <6> QED
            BY <5>1, <5>2, <6>1 DEF Good, Line
        <5>3. CASE j # Len(t)
          <6>1. j \in 1 .. Len(t) - 1
            <7> HIDE DEF t
            <7> QED
              BY <2>1, <5>3
          <6> QED
            BY <3>1, <5>1, <6>1
        <5> QED
          BY <5>2, <5>3
      <4> QED
        BY <4>1, <4>2
    <3> QED
      BY <3>2, <3>3
  <2> QED
    BY <2>2, <2>3
<1>3. WalReads
  <2>1. DOMAIN segs = 1 .. Len(segs)
    BY <1>0
  <2> QED
    BY <1>2, <2>1, LinesAssumption DEF WalReads, Good
<1>4. s \in Seq(Record) /\ Range(s) = Logged
  BY <1>0, <1>3, TailIsLogged
<1>5. Rising(s)
  <2>1. PICK ss \in Seq(Seq(Record)) :
          /\ s = FlattenSeq(ss) /\ Len(ss) = Len(segs)
          /\ \A i \in 1 .. Len(segs) : ss[i] = Readable(i)
    BY <1>0, <1>3, TailReads
  <2>2. ASSUME NEW i \in 1 .. Len(segs)
        PROVE  Rising(ss[i]) /\ Range(ss[i]) \subseteq Range(segs[i])
    <3>1. Rising(segs[i]) /\ segs[i] \in Seq(Line)
      BY <1>0 DEF Ordered
    <3>2. CASE TornTail(i)
      <4> DEFINE t == segs[i]
                 k == Len(t) - 1
      <4>1. k \in 0 .. Len(t) /\ Readable(i) = SubSeq(t, 1, k)
        BY <1>0, <3>1, <3>2, ReadableLines
      <4> HIDE DEF k, t
      <4>2. Rising(SubSeq(t, 1, k)) /\ Range(SubSeq(t, 1, k)) \subseteq Range(t)
        BY <3>1, <4>1, LinesCut DEF t
      <4> QED
        BY <2>1, <4>1, <4>2 DEF t
    <3>3. CASE ~ TornTail(i)
      BY <2>1, <3>1, <3>3 DEF Readable
    <3> QED
      BY <3>2, <3>3
  <2>3. Ordered(ss)
    <3>1. ASSUME NEW i \in 1 .. Len(ss), NEW k \in 1 .. Len(ss), i < k
          PROVE  Under(Range(ss[i]), Range(ss[k]))
      <4>1. Under(Range(segs[i]), Range(segs[k]))
        BY <1>0, <2>1, <3>1 DEF Ordered
      <4> QED
        BY <2>1, <2>2, <4>1 DEF Under
    <3> QED
      BY <2>1, <2>2, <3>1 DEF Ordered
  <2> QED
    BY <2>1, <2>3, FlattenRising
<1>6. c \in Nat
  BY <1>0, FS_CardinalityType
<1>7. /\ \A r \in Archived : r.seq \in 0 .. c - 1
      /\ \A k \in 0 .. c - 1 : \E r \in Archived : r.seq = k
  <2>1. {r.seq : r \in Archived} = 0 .. 0 + c - 1
    BY <1>1 DEF Contiguous
  <2> HIDE DEF c
  <2>2. 0 .. 0 + c - 1 = 0 .. c - 1
    BY <1>6
  <2>3. {r.seq : r \in Archived} = 0 .. c - 1
    BY <2>1, <2>2
  <2> QED
    BY <2>3
<1>8. ASSUME s # <<>>
      PROVE  NoGap(s, s[1].seq) /\ s[1].seq <= c
  <2>1. s[1] \in Record /\ s[1] \in Logged /\ s[1].seq \in Nat
    <3>1. 1 \in 1 .. Len(s)
      BY <1>4, <1>8
    <3>2. s[1] \in Range(s)
      BY <1>4, <3>1, InRange
    <3>3. s[1] \in Logged
      BY <1>4, <3>2
    <3>4. s[1] \in Record
      BY <3>3 DEF Logged
    <3> QED
      BY <3>3, <3>4, RecordNumber
  <2>2. \A r \in Logged : r \in Record /\ r.seq \in Nat
    BY DEF Logged, Record
  <2>3. ASSUME NEW r \in Logged
        PROVE  s[1].seq <= r.seq
    <3>1. PICK j \in 1 .. Len(s) : s[j] = r
      BY <1>4, InRange
    <3>2. CASE j = 1
      BY <2>1, <3>1, <3>2
    <3>3. CASE j # 1
      <4>1. 1 \in 1 .. Len(s) /\ 1 < j
        BY <3>3
      <4>2. Under({s[1]}, {s[j]})
        BY <1>5, <4>1 DEF Rising
      <4>3. s[1].seq < r.seq
        BY <2>1, <2>2, <3>1, <4>2 DEF Under
      <4> QED
        BY <2>1, <2>2, <4>3
    <3> QED
      BY <3>2, <3>3
  <2>4. ASSUME NEW r \in Logged, NEW k \in s[1].seq .. r.seq
        PROVE  \E q \in Logged : q.seq = k
    <3>1. CASE k = r.seq
      BY <3>1
    <3>2. CASE k # r.seq
      <4>1. k \in 0 .. r.seq - 1
        BY <2>1, <2>2, <3>2
      <4>2. PICK q \in Stored : q.seq = k
        BY <1>0, <4>1 DEF Closed, Stored
      <4>3. CASE q \in Archived /\ q \notin Logged
        <5>1. q \notin Sooner(segs)
          <6>1. segs # <<>>
            <7>1. SUFFICES ASSUME segs = <<>> PROVE FALSE
              OBVIOUS
            <7>2. Len(segs) = 0
              BY <7>1
            <7>3. Logged = {}
              BY <7>2 DEF Logged, Lines
            <7> QED
              BY <7>3
          <6>2. Sooner(segs) \subseteq Lines(segs)
            BY <1>0, <6>1, LinesSplit
          <6> QED
            BY <1>0, <4>3, <6>2 DEF Logged
        <5>2. Under({q}, Logged)
          BY <1>0, <4>3, <5>1 DEF ArchiveOlder
        <5>3. q.seq < s[1].seq
          BY <1>0, <2>1, <4>3, <5>2 DEF Under
        <5> QED
          BY <2>1, <2>2, <4>2, <5>3
      <4> QED
        BY <4>2, <4>3 DEF Stored
    <3> QED
      BY <3>1, <3>2
  <2>5. NoGap(s, s[1].seq)
    <3> HIDE DEF s
    <3> QED
      BY <1>4, <1>5, <1>8, <2>4, RisingChain
  <2>6. s[1].seq <= c
    <3>1. CASE s[1].seq = 0
      BY <1>6, <3>1
    <3>2. CASE s[1].seq # 0
      <4> DEFINE k == s[1].seq - 1
      <4>1. k \in 0 .. s[1].seq - 1 /\ k < s[1].seq /\ k \in Nat
        BY <2>1, <3>2
      <4>2. PICK q \in Stored : q.seq = k
        BY <1>0, <2>1, <4>1 DEF Closed, Stored
      <4>3. q \notin Logged
        BY <2>1, <2>2, <2>3, <4>1, <4>2
      <4>4. q \in Archived
        BY <4>2, <4>3 DEF Stored
      <4>5. k \in 0 .. c - 1
        BY <1>7, <4>2, <4>4
      <4> HIDE DEF c
      <4> QED
        BY <1>6, <2>1, <4>5
    <3> QED
      BY <3>1, <3>2
  <2> QED
    BY <2>5, <2>6
<1> QED
  BY <1>1, <1>3, <1>8 DEF BootAccepts

\* The store on disk stays full below the next number, its months in the order
\* of the numbers: a power loss takes events from the end only.
LEMMA FullStored ==
  ASSUME WholeWrites, FullInv, [Next]_vars
  PROVE  Closed(Stored)' /\ NextFull'
<1>0. /\ TypeInv /\ OneRecord /\ BelowNext /\ Ordered(segs) /\ ArchiveOlder
      /\ Closed(Stored) /\ NextFull /\ DiskInv /\ walSeq \in Nat
      /\ Stored \subseteq Record
  BY DEF FullInv, DiskInv, ChainInv, TypeInv, Stored, Logged, Archived
<1>1. CASE Stored' = Stored /\ ~ WriteRecord
  <2>1. Closed(Stored)'
    BY <1>0, <1>1 DEF Closed
  <2>2. CASE Boot
    <3>1. /\ Replayable \in Seq(Record) /\ NoGap(Replayable, 0)
          /\ Range(Replayable) = Stored /\ walSeq' = Len(Replayable)
      BY <1>0, <2>2, BootReplays
    <3> DEFINE p == Replayable
    <3>2. p \in Seq(Record) /\ NoGap(p, 0) /\ Range(p) = Stored /\ walSeq' = Len(p)
      BY <3>1
    <3> HIDE DEF p
    <3>3. ASSUME NEW k \in 0 .. walSeq' - 1
          PROVE  \E s \in Stored' : s.seq = k
      <4>1. k + 1 \in 1 .. Len(p) /\ k + 1 \in DOMAIN p /\ k \in Int
        BY <3>2, <3>3
      <4>2. p[k + 1].seq = k
        BY <3>2, <4>1 DEF NoGap
      <4>3. p[k + 1] \in Stored
        BY <3>2, <4>1, InRange
      <4> QED
        BY <1>1, <4>2, <4>3
    <3> QED
      BY <2>1, <3>3 DEF NextFull
  <2>3. CASE ~ Boot
    <3>1. walSeq' = walSeq /\ (Up' => Up)
      BY <1>1, <2>3 DEF Next, vars, disk, memory, answers, RefuseBoot, Propose,
         WriteFails, AppendRefused, Sync, SyncFails, Commit, SealAndPlan, Plan,
         WritePartition, CompactionFails, RemoveSegment, PowerLoss, Kill, Clock, Fail, Up
    <3> QED
      BY <1>0, <1>1, <3>1 DEF NextFull
  <2> QED
    BY <2>1, <2>2, <2>3
<1>2. CASE WriteRecord /\ Head(left) \in Record /\ Stored' = Stored \cup {Head(left)}
  <2> DEFINE h == Head(left)
  <2>1. /\ h \in Record /\ Stored' = Stored \cup {h} /\ h.seq = walSeq
        /\ walSeq' = walSeq + 1 /\ Up
    BY <1>2 DEF WriteRecord, Up
  <2> HIDE DEF h
  <2>2. \A k \in 0 .. walSeq - 1 : \E s \in Stored : s.seq = k
    BY <1>0, <2>1 DEF NextFull
  <2>3. ASSUME NEW r \in Stored', NEW k \in 0 .. r.seq - 1
        PROVE  \E s \in Stored' : s.seq = k
    <3>1. CASE r = h
      BY <2>1, <2>2, <3>1
    <3>2. CASE r \in Stored
      BY <1>0, <2>1, <2>3, <3>2 DEF Closed
    <3> QED
      BY <2>1, <3>1, <3>2
  <2>4. ASSUME NEW k \in 0 .. walSeq' - 1
        PROVE  \E s \in Stored' : s.seq = k
    <3>1. CASE k = walSeq
      BY <2>1, <3>1
    <3>2. CASE k # walSeq
      <4>1. k \in 0 .. walSeq - 1
        BY <1>0, <2>1, <3>2
      <4> QED
        BY <2>1, <2>2, <4>1
    <3> QED
      BY <3>1, <3>2
  <2> QED
    BY <2>3, <2>4 DEF Closed, NextFull
<1>3. CASE PowerLoss /\ Stored' \subseteq Stored /\ Under(Stored', Stored \ Stored')
  <2>1. ASSUME NEW r \in Stored', NEW k \in 0 .. r.seq - 1
        PROVE  \E s \in Stored' : s.seq = k
    <3>1. PICK s \in Stored : s.seq = k
      BY <1>0, <1>3 DEF Closed
    <3>2. r \in Record /\ s \in Record /\ r.seq \in Nat
      BY <1>0, <1>3, RecordNumber
    <3>3. s \notin Stored' => r.seq < s.seq
      BY <1>3, <3>2 DEF Under
    <3>4. s.seq < r.seq /\ s.seq \in Nat
      BY <3>1, <3>2
    <3> QED
      BY <3>1, <3>2, <3>3, <3>4
  <2>2. ~ Up'
    BY <1>3 DEF PowerLoss, Up
  <2> QED
    BY <2>1, <2>2 DEF Closed, NextFull
<1> QED
  BY <1>0, <1>1, <1>2, <1>3, StoredStep

\* The events of the command under way: written or still to be written, none
\* of a month before one stored; what the ledger has applied is on disk.
LEMMA FullBatch ==
  ASSUME WholeWrites, ~ ClockBack, FullInv, [Next]_vars
  PROVE  MonthOrder' /\ BatchKnown' /\ LedgerStored'
<1>0. /\ TypeInv /\ OneRecord /\ BelowNext /\ Ordered(segs) /\ ArchiveOlder
      /\ DiskInv /\ walSeq \in Nat /\ Stored \subseteq Record
      /\ MonthOrder /\ BatchKnown /\ LedgerStored /\ Follows
      /\ month \in Nat /\ Months \subseteq Nat /\ month' \in Nat
      /\ ledger \in Seq(Record) /\ batch \in Seq(Record) /\ left \in Seq(Record)
  <2>1. month' \in Months
    BY TypeNext DEF FullInv, DiskInv, ChainInv, TypeInv
  <2> QED
    BY <2>1, MonthsAssumption
       DEF FullInv, DiskInv, ChainInv, TypeInv, Stored, Logged, Archived
<1>1. month' >= month
  <2>1. CASE Clock
    BY <1>0, <2>1 DEF Clock
  <2>2. CASE ~ Clock
    <3>1. month' = month
      BY <2>2 DEF Next, vars, disk, memory, answers, Boot, RefuseBoot, Propose,
         WriteRecord, WriteFails, AppendRefused, Sync, SyncFails, Commit, SealAndPlan,
         Plan, WritePartition, CompactionFails, RemoveSegment, PowerLoss, Kill, Fail
    <3> QED
      BY <1>0, <3>1
  <2> QED
    BY <2>1, <2>2
<1>2. CASE Boot
  <2>1. Range(Replayable) = Stored /\ ledger' = Replayable /\ ~ Working'
    BY <1>0, <1>2, BootReplays DEF Boot, Working
  <2>2. Stored' = Stored /\ month' = month
    <3>1. ~ PowerLoss /\ ~ WriteRecord /\ month' = month
      BY <1>2 DEF Boot, PowerLoss, WriteRecord, Up
    <3> QED
      BY <1>0, <3>1, StoredStep
  <2> QED
    BY <1>0, <2>1, <2>2 DEF MonthOrder, BatchKnown, LedgerStored, Working
<1>3. CASE WriteRecord
  <2> DEFINE h == Head(left)
  <2>1. /\ h \in Record /\ Stored' = Stored \cup {h}
    <3>1. Head(left) \in Record /\ ~ PowerLoss
      BY <1>0, <1>3, HeadTailProperties DEF WriteRecord, PowerLoss
    <3> QED
      BY <1>0, <1>3, <3>1, StoredStep
  <2>2. /\ h.seq = walSeq /\ left # <<>> /\ left' = Tail(left) /\ batch' = batch
        /\ ledger' = ledger /\ month' = month /\ Working /\ Up
    BY <1>3 DEF WriteRecord, Working, Up
  <2>3. Range(left) = {h} \cup Range(left') /\ h \in Range(left)
    <3>1. Tail(left) \in Seq(Record) /\ Len(Tail(left)) = Len(left) - 1
          /\ Len(left) \in Nat /\ Len(left) > 0
      BY <1>0, <2>2, TailShorter
    <3>2. /\ \A j \in 1 .. Len(left) - 1 : Tail(left)[j] = left[j + 1]
          /\ h = left[1]
      BY <1>0, <2>2, HeadTailProperties
    <3> DEFINE t == Tail(left)
    <3>3. /\ t \in Seq(Record) /\ Len(t) = Len(left) - 1 /\ left' = t
          /\ \A j \in 1 .. Len(left) - 1 : t[j] = left[j + 1]
      BY <2>2, <3>1, <3>2
    <3>a. \A x : x \in Range(left) <=> \E j \in 1 .. Len(left) : left[j] = x
      BY <1>0, InRange
    <3>b. \A x : x \in Range(t) <=> \E j \in 1 .. Len(t) : t[j] = x
      BY <3>3, InRange
    <3> HIDE DEF t, h
    <3>4. h \in Range(left)
      BY <3>1, <3>2, <3>a
    <3>5. ASSUME NEW x \in Range(t) PROVE x \in Range(left)
      <4>1. PICK j \in 1 .. Len(t) : t[j] = x
        BY <3>b
      <4>2. j + 1 \in 1 .. Len(left) /\ left[j + 1] = x
        BY <3>1, <3>3, <4>1
      <4> QED
        BY <3>a, <4>2
    <3>6. ASSUME NEW x \in Range(left), x # h PROVE x \in Range(t)
      <4>1. PICK j \in 1 .. Len(left) : left[j] = x
        BY <3>a
      <4>2. j # 1
        BY <3>2, <3>6, <4>1
      <4>3. j - 1 \in 1 .. Len(t) /\ t[j - 1] = x
        BY <3>1, <3>3, <4>1, <4>2
      <4> QED
        BY <3>b, <4>3
    <3> QED
      BY <3>3, <3>4, <3>5, <3>6
  <2> HIDE DEF h
  <2>4. h \in Range(batch)
    BY <1>0, <2>2, <2>3 DEF BatchKnown
  <2>5. BatchKnown'
    BY <1>0, <2>1, <2>2, <2>3 DEF BatchKnown, Working
  <2>6. \A r \in Stored : r.seq < h.seq /\ r.month <= h.month
    BY <1>0, <2>2, <2>4 DEF BelowNext, MonthOrder
  <2>7. MonthOrder'
    <3>1. \A r \in Stored \cup {h} : r.month <= month /\ r.month \in Nat /\ r.seq \in Nat
      BY <1>0, <2>1, <2>2, <2>4 DEF MonthOrder, Record
    <3>2. ASSUME NEW r \in Stored', NEW s \in Stored', r.seq < s.seq
          PROVE  r.month <= s.month
      BY <1>0, <2>1, <2>6, <3>1, <3>2 DEF MonthOrder
    <3>3. Working' => \A s \in Range(batch') : s.month <= month' /\ \A r \in Stored' \cup Range(batch') :
                                                r.month <= s.month
      BY <1>0, <2>1, <2>2, <2>4 DEF MonthOrder
    <3> QED
      BY <2>1, <2>2, <3>1, <3>2, <3>3 DEF MonthOrder
  <2>8. LedgerStored'
    BY <1>0, <2>1, <2>2 DEF LedgerStored
  <2> QED
    BY <2>5, <2>7, <2>8
<1>4. CASE \E n \in BatchSizes : Propose(n)
  <2>1. PICK n \in BatchSizes : Propose(n)
    BY <1>4
  <2>2. /\ batch' \in Seq(Record) /\ left' = batch' /\ ledger' = ledger /\ month' = month
        /\ Up /\ n \in Nat /\ Len(batch') = n
        /\ \A i \in 1 .. n : batch'[i].month = month
    BY <1>0, <2>1, ProposedBatch DEF Propose, Up
  <2>3. \A r \in Range(batch') : r.month = month
    BY <2>2, InRange
  <2>4. Stored' = Stored
    <3>1. ~ PowerLoss /\ ~ WriteRecord
      BY <2>1 DEF Propose, PowerLoss, WriteRecord
    <3> QED
      BY <1>0, <3>1, StoredStep
  <2>5. MonthOrder'
    BY <1>0, <2>2, <2>3, <2>4 DEF MonthOrder
  <2> QED
    BY <1>0, <2>2, <2>4, <2>5 DEF BatchKnown, LedgerStored
<1>5. CASE Commit
  <2>1. /\ ledger' = ledger \o batch /\ month' = month /\ Working /\ ~ Working' /\ Up
        /\ left = <<>>
    BY <1>0, <1>5 DEF Commit, Working, Up, Follows
  <2>2. Range(left) = {}
    <3>1. \A x : x \in Range(left) <=> \E j \in 1 .. Len(left) : left[j] = x
      BY <1>0, InRange
    <3>2. Len(left) = 0
      BY <2>1
    <3> QED
      BY <3>1, <3>2
  <2>3. Stored' = Stored
    <3>1. ~ PowerLoss /\ ~ WriteRecord
      BY <1>5 DEF Commit, PowerLoss, WriteRecord
    <3> QED
      BY <1>0, <3>1, StoredStep
  <2>4. Range(ledger \o batch) = Range(ledger) \cup Range(batch)
    BY <1>0, RangeConcatenation
  <2> QED
    BY <1>0, <2>1, <2>2, <2>3, <2>4 DEF MonthOrder, BatchKnown, LedgerStored
<1>6. CASE PowerLoss \/ Kill
  <2>1. ~ Up' /\ ~ Working' /\ Stored' \subseteq Stored /\ month' = month
    <3>1. ~ Up' /\ ~ Working' /\ month' = month /\ ~ WriteRecord
      BY <1>6 DEF PowerLoss, Kill, Up, Working, WriteRecord
    <3> QED
      BY <1>0, <3>1, StoredStep
  <2> QED
    BY <1>0, <2>1 DEF MonthOrder, BatchKnown, LedgerStored
<1>7. CASE ~ Boot /\ ~ WriteRecord /\ ~ Commit /\ ~ PowerLoss /\ ~ Kill
           /\ ~ \E n \in BatchSizes : Propose(n)
  <2>1. Stored' = Stored
    BY <1>0, <1>7, StoredStep
  <2>2. /\ ledger' = ledger /\ (Up' => Up)
        /\ Working' => Working /\ batch' = batch /\ left' = left
    BY <1>7 DEF Next, vars, disk, memory, answers, RefuseBoot, WriteFails, AppendRefused,
       Sync, SyncFails, SealAndPlan, Plan, WritePartition, CompactionFails,
       RemoveSegment, Clock, Fail, Up, Working
  <2>3. \A r \in Stored \cup Range(batch) : r.month \in Nat
    <3>1. \A r \in Range(batch) : r \in Record
      BY <1>0, InRange
    <3> QED
      BY <1>0, <3>1 DEF Record
  <2>4. MonthOrder'
    <3>1. \A r \in Stored' : r.month <= month'
      BY <1>0, <1>1, <2>1, <2>3 DEF MonthOrder
    <3>2. Working' => \A s \in Range(batch') : s.month <= month' /\ \A r \in Stored' \cup Range(batch') :
                                                r.month <= s.month
      BY <1>0, <1>1, <2>1, <2>2, <2>3 DEF MonthOrder
    <3> QED
      BY <1>0, <2>1, <3>1, <3>2 DEF MonthOrder
  <2> QED
    BY <1>0, <2>1, <2>2, <2>4 DEF BatchKnown, LedgerStored
<1> QED
  BY <1>2, <1>3, <1>4, <1>5, <1>6, <1>7

\* The archive stays full: partitions are written by month, in the order of
\* the months, so what precedes an event written is there or is written too.
LEMMA FullArchive ==
  ASSUME FullInv, [Next]_vars
  PROVE  Closed(Archived)'
<1>0. /\ TypeInv /\ OneRecord /\ Ordered(segs) /\ WrittenMonths /\ WholeLines
      /\ Closed(Stored) /\ Closed(Archived) /\ MonthOrder /\ segs \in Seq(Seq(Line))
      /\ Stored \subseteq Record
      /\ Up => segs # <<>>
  BY DEF FullInv, DiskInv, ChainInv, TypeInv, Stored, Logged, Archived
<1>s. \A q \in Stored : q \in Record
  BY <1>0
<1>1. CASE WritePartition
  <2>1. PICK m \in todo :
          /\ \A k \in todo : m <= k
          /\ Archived' = Archived \cup {l \in Sooner(segs) : l.month = m}
    BY <1>0, <1>1, PartitionKeeps
  <2>2. /\ segs # <<>> /\ pc = "compact" /\ Lines(segs) \subseteq Record
        /\ todo \subseteq Nat /\ Months \subseteq Nat
    BY <1>0, <1>1, MonthsAssumption DEF WritePartition, Up, WholeLines, TypeInv
  <2>3. /\ Lines(segs) = Sooner(segs) \cup Range(segs[Len(segs)])
        /\ Under(Sooner(segs), Range(segs[Len(segs)]))
    BY <1>0, <2>2, LinesSplit
  <2>4. ASSUME NEW r \in Sooner(segs), r.month = m, NEW k \in 0 .. r.seq - 1
        PROVE  \E s \in Archived' : s.seq = k
    <3>1. r \in Record /\ r \in Stored /\ r.seq \in Nat
      BY <2>2, <2>3, RecordNumber DEF Stored, Logged
    <3>2. PICK q \in Stored : q.seq = k
      BY <1>0, <2>4, <3>1 DEF Closed
    <3>a. q \in Record /\ q.month \in Months
      <4>1. q \in Record
        BY <1>s
      <4> QED
        BY <4>1 DEF Record
    <3>b. q.seq < r.seq
      BY <2>4, <3>1, <3>2
    <3>3. q \in Record /\ q.seq < r.seq /\ q.month \in Nat
      BY <2>2, <3>a, <3>b
    <3>4. CASE q \in Archived
      BY <2>1, <3>2, <3>4
    <3>5. CASE q \notin Archived
      <4>1. q \in Lines(segs)
        BY <3>2, <3>5 DEF Stored, Logged
      <4>2. q \notin Range(segs[Len(segs)])
        <5>1. q \in Range(segs[Len(segs)]) => r.seq < q.seq
          BY <2>3, <2>4, <3>1, <3>3 DEF Under
        <5> QED
          BY <3>1, <3>3, <5>1, RecordNumber
      <4>3. q \in Sooner(segs) /\ q.month \in todo
        BY <1>0, <2>2, <2>3, <3>3, <3>5, <4>1, <4>2 DEF WrittenMonths
      <4>4. q.month <= m /\ m <= q.month /\ m \in Nat
        BY <1>0, <2>1, <2>2, <2>4, <3>1, <3>2, <3>3, <4>3 DEF MonthOrder
      <4>5. q.month = m
        BY <3>3, <4>4
      <4> QED
        BY <2>1, <3>2, <4>3, <4>5
    <3> QED
      BY <3>4, <3>5
  <2> QED
    BY <1>0, <2>1, <2>4 DEF Closed
<1>2. CASE ~ WritePartition
  <2>1. UNCHANGED parquet
    BY <1>2 DEF Next, vars, disk, memory, answers, Boot, RefuseBoot, Propose,
       WriteRecord, WriteFails, AppendRefused, Sync, SyncFails, Commit, SealAndPlan,
       Plan, CompactionFails, RemoveSegment, PowerLoss, Kill, Clock, Fail
  <2>2. Archived' = Archived
    BY <2>1 DEF Archived
  <2> QED
    BY <1>0, <2>2 DEF Closed
<1> QED
  BY <1>1, <1>2

\* Segments of records only are a full disk.
LEMMA WholeIsFull ==
  ASSUME NEW ss \in Seq(Seq(Line)), ss # <<>>, Lines(ss) \subseteq Record
  PROVE  FullDisk(ss)
<1>1. /\ ss[Len(ss)] \in Seq(Line)
      /\ Lines(ss) = Sooner(ss) \cup Range(ss[Len(ss)])
  BY LinesSplit
<1> DEFINE t == ss[Len(ss)]
<1>2. t \in Seq(Line) /\ Range(t) \subseteq Record
  BY <1>1
<1> HIDE DEF t
<1>3. \A j \in 1 .. Len(t) - 1 : t[j] \in Record
  <2>1. \A j \in 1 .. Len(t) : t[j] \in Range(t)
    BY <1>2, InRange
  <2>2. Len(t) \in Nat
    BY <1>2
  <2> QED
    BY <1>2, <2>1, <2>2
<1> QED
  BY <1>1, <1>3 DEF FullDisk, t

\* Only the last line of the last segment is ever cut off, and the boot is
\* not refused.
LEMMA FullLog ==
  ASSUME WholeWrites, FullInv, [Next]_vars
  PROVE  pc' # "refused" /\ FullDisk(segs')
<1>0. /\ TypeInv /\ Ordered(segs) /\ WholeLines /\ FullDisk(segs) /\ pc # "refused"
      /\ DiskInv /\ BootAccepts
  BY FullBoots DEF FullInv, DiskInv, ChainInv
<1>1. TypeInv' /\ DiskInv'
  BY <1>0, DiskNext, TypeNext
<1>2. CASE Up'
  <2>1. segs' \in Seq(Seq(Line)) /\ segs' # <<>> /\ Lines(segs') \subseteq Record
    BY <1>1, <1>2 DEF TypeInv, DiskInv, WholeLines
  <2>2. pc' # "refused"
    BY <1>2 DEF Up
  <2> QED
    BY <2>1, <2>2, WholeIsFull
<1>3. CASE PowerLoss
  BY <1>0, <1>3, PowerLog DEF PowerLoss
<1>4. CASE Kill
  <2>1. CASE segs' = segs
    BY <1>0, <1>4, <2>1 DEF Kill
  <2>2. CASE segs' = [Target EXCEPT ![Len(Target)] = Written(@, <<Half, Half>>)]
    <3>1. Lines(segs) \subseteq Record /\ pc' # "refused"
      BY <1>0, <1>4 DEF Kill, WholeLines
    <3> QED
      BY <1>0, <1>4, <2>2, <3>1, KillWrites
  <2> QED
    BY <1>4, <2>1, <2>2 DEF Kill
<1>5. CASE ~ Up' /\ ~ PowerLoss /\ ~ Kill
  <2>1. UNCHANGED <<segs, pc>>
    BY <1>0, <1>5 DEF Next, vars, disk, memory, answers, Boot, RefuseBoot, Propose,
       WriteRecord, WriteFails, AppendRefused, Sync, SyncFails, Commit, SealAndPlan,
       Plan, WritePartition, CompactionFails, RemoveSegment, Clock, Fail, Up
  <2> QED
    BY <1>0, <2>1
<1> QED
  BY <1>2, <1>3, <1>4, <1>5

\* An empty store has no holes.
LEMMA FullInit == Init => FullInv
<1> SUFFICES ASSUME Init PROVE FullInv
  OBVIOUS
<1>1. segs = <<>> /\ Len(segs) = 0
  BY DEF Init
<1>2. Lines(segs) = {} /\ Sooner(segs) = {}
  BY <1>1 DEF Lines, Sooner
<1>3. Archived = {} /\ Stored = {}
  BY <1>2 DEF Init, Archived, Stored, Logged
<1>4. pc = "down" /\ ~ Up /\ ~ Working
  BY DEF Init, Up, Working
<1>5. FullDisk(segs) /\ Closed(Stored) /\ Closed(Archived) /\ NextFull /\ MonthOrder
      /\ BatchKnown /\ LedgerStored /\ Follows
  BY <1>1, <1>2, <1>3, <1>4
     DEF FullDisk, Closed, NextFull, MonthOrder, BatchKnown, LedgerStored, Follows
<1> QED
  BY <1>4, <1>5, DiskInit DEF FullInv

\* No step punches a hole into what is stored.
LEMMA FullNext == WholeWrites /\ ~ ClockBack /\ FullInv /\ [Next]_vars => FullInv'
<1> SUFFICES ASSUME WholeWrites, ~ ClockBack, FullInv, [Next]_vars PROVE FullInv'
  OBVIOUS
<1>1. DiskInv' /\ Follows'
  BY DiskNext, FollowsNext DEF FullInv
<1>2. Closed(Stored)' /\ Closed(Archived)' /\ NextFull'
  BY FullStored, FullArchive
<1>3. pc' # "refused" /\ FullDisk(segs)'
  BY FullLog
<1>4. MonthOrder' /\ BatchKnown' /\ LedgerStored'
  BY FullBatch
<1> QED
  BY <1>1, <1>2, <1>3, <1>4 DEF FullInv

-----------------------------------------------------------------------------
(* The live ledger is what a boot would replay *)

\* Of two chains that start at 0, one whose events are all in the other is
\* its beginning.
LEMMA ChainPart ==
  ASSUME NEW s \in Seq(Record), NEW t \in Seq(Record),
         NoGap(s, 0), NoGap(t, 0), Range(s) \subseteq Range(t)
  PROVE  /\ Len(s) \in Nat /\ Len(t) \in Nat /\ Len(s) <= Len(t)
         /\ \A i \in 1 .. Len(s) : s[i] = t[i]
<1>1. /\ Len(s) \in Nat /\ Len(t) \in Nat
      /\ DOMAIN s = 1 .. Len(s) /\ DOMAIN t = 1 .. Len(t)
  OBVIOUS
<1>2. ASSUME NEW i \in 1 .. Len(s)
      PROVE  i \in 1 .. Len(t) /\ s[i] = t[i]
  <2>1. s[i] \in Range(s) /\ s[i].seq = i - 1
    BY <1>1, InRange DEF NoGap
  <2>2. PICK j \in 1 .. Len(t) : t[j] = s[i]
    BY <2>1, InRange
  <2>3. t[j].seq = j - 1
    BY <1>1 DEF NoGap
  <2>4. i = j
    BY <1>1, <2>1, <2>2, <2>3
  <2> QED
    BY <2>2, <2>4
<1>3. Len(s) <= Len(t)
  <2>1. CASE Len(s) = 0
    BY <1>1, <2>1
  <2>2. CASE Len(s) # 0
    <3>1. Len(s) \in 1 .. Len(s)
      BY <1>1, <2>2
    <3> QED
      BY <1>1, <1>2, <3>1
  <2> QED
    BY <2>1, <2>2
<1> QED
  BY <1>1, <1>2, <1>3

\* A chain that agrees with another wherever it has events is a prefix of it.
LEMMA ChainPrefix ==
  ASSUME NEW s \in Seq(Record), NEW t \in Seq(Record), Len(s) <= Len(t),
         \A i \in 1 .. Len(s) : s[i] = t[i]
  PROVE  IsPrefix(s, t)
<1> DEFINE n == Len(s)
           u == SubSeq(s, 1, n)
           v == SubSeq(t, 1, n)
<1>1. n \in Nat /\ n \in 0 .. Len(s) /\ n \in 0 .. Len(t)
  OBVIOUS
<1>2. /\ u \in Seq(Record) /\ Len(u) = n /\ \A i \in 1 .. n : u[i] = s[i]
      /\ v \in Seq(Record) /\ Len(v) = n /\ \A i \in 1 .. n : v[i] = t[i]
  <2> HIDE DEF n
  <2> QED
    BY <1>1, RangeOfPart
<1>3. u = v
  <2> HIDE DEF u, v
  <2>1. \A i \in 1 .. n : u[i] = v[i]
    BY <1>2
  <2> HIDE DEF n
  <2> QED
    BY <1>2, <2>1, SeqEqual
<1> QED
  BY <1>3 DEF IsPrefix

\* The state of a full disk under a running writer.
LEMMA FullReplay ==
  ASSUME FullInv, Up
  PROVE  LedgerIsReplay
<1>0. /\ TypeInv /\ OneRecord /\ BelowNext /\ LedgerStored /\ Follows
      /\ NoGap(ledger, 0) /\ BootAccepts
      /\ ledger \in Seq(Record) /\ left \in Seq(Record) /\ batch \in Seq(Record)
      /\ walSeq \in Nat /\ Range(ledger) \subseteq Stored
      /\ pc \in {"idle", "write", "commit", "compact"}
  BY FullBoots DEF FullInv, DiskInv, ChainInv, TypeInv, LedgerStored, Up
<1> DEFINE p == Replayable
<1>1. p \in Seq(Record) /\ NoGap(p, 0) /\ Range(p) = Stored
  BY <1>0, ReplayIsStored
<1> HIDE DEF p
<1>2. /\ Len(ledger) \in Nat /\ Len(p) \in Nat /\ Len(ledger) <= Len(p)
      /\ \A i \in 1 .. Len(ledger) : ledger[i] = p[i]
  BY <1>0, <1>1, ChainPart
<1>3. IsPrefix(ledger, p)
  BY <1>0, <1>1, <1>2, ChainPrefix
<1>4. Len(p) <= walSeq
  <2>1. CASE Len(p) = 0
    BY <1>0, <2>1
  <2>2. CASE Len(p) # 0
    <3>1. Len(p) \in 1 .. Len(p) /\ DOMAIN p = 1 .. Len(p)
      BY <1>1, <1>2, <2>2
    <3>2. p[Len(p)] \in Stored /\ p[Len(p)].seq = Len(p) - 1
      BY <1>1, <1>2, <3>1, InRange DEF NoGap
    <3>3. p[Len(p)].seq < walSeq
      BY <1>0, <3>2 DEF BelowNext
    <3> QED
      BY <1>0, <1>2, <3>2, <3>3
  <2> QED
    BY <2>1, <2>2
<1>5. ASSUME failed = {}
      PROVE  walSeq <= Len(ledger) + Len(batch)
  <2>1. Len(batch) \in Nat /\ Len(left) \in Nat
    BY <1>0
  <2>2. CASE Working
    <3>1. walSeq = Len(ledger) + Len(batch) - Len(left)
      BY <1>0, <1>5, <2>2 DEF Follows
    <3> QED
      BY <1>2, <2>1, <3>1
  <2>3. CASE ~ Working
    <3>1. walSeq = Len(ledger)
      BY <1>0, <1>5, <2>3 DEF Follows, Working
    <3> QED
      BY <1>2, <2>1, <3>1
  <2> QED
    BY <2>2, <2>3
<1>6. ASSUME failed = {}
      PROVE  Len(p) <= Len(ledger) + Len(batch)
  <2>1. Len(batch) \in Nat
    BY <1>0
  <2> QED
    BY <1>0, <1>2, <1>4, <1>5, <1>6, <2>1
<1> QED
  BY <1>3, <1>6 DEF LedgerIsReplay, p

\* However often the process is killed or the power lost, and whatever fsync
\* or compaction fails: when writes are whole and the clock does not go back
\* across a month, the store opens again.
THEOREM NeverRefusesToBoot ==
  ASSUME WholeWrites, ~ ClockBack
  PROVE  Spec => []NeverRefused
<1>1. FullInv => NeverRefused
  BY DEF FullInv, NeverRefused
<1>2. FullInv /\ [Next]_vars => FullInv'
  BY FullNext
<1> QED
  BY <1>1, <1>2, FullInit, PTL DEF Spec

\* Under the same conditions the ledger in memory is at every moment the fold
\* of the events a boot would replay, with nothing after them but the command
\* being appended, or one that failed.
THEOREM LedgerAlwaysReplay ==
  ASSUME WholeWrites, ~ ClockBack
  PROVE  Spec => []LedgerIsReplay
<1>1. FullInv => LedgerIsReplay
  BY FullReplay DEF LedgerIsReplay
<1>2. FullInv /\ [Next]_vars => FullInv'
  BY FullNext
<1> QED
  BY <1>1, <1>2, FullInit, PTL DEF Spec

-----------------------------------------------------------------------------
(* The store as a durable log *)

\* What a boot would replay: one chain, every event that is stored.
ReplayFull ==
  /\ Replayable \in Seq(Record) /\ NoGap(Replayable, 0) /\ Range(Replayable) = Stored

\* Where nothing is missing, a boot replays all that is stored.
LEMMA FullReplays == FullInv => ReplayFull
<1> SUFFICES ASSUME FullInv PROVE ReplayFull
  OBVIOUS
<1>1. TypeInv /\ OneRecord /\ BootAccepts
  BY FullBoots DEF FullInv, DiskInv, ChainInv
<1> QED
  BY <1>1, ReplayIsStored DEF ReplayFull

\* The same, after a step.
LEMMA NextReplays == FullInv' => ReplayFull'
BY FullReplays, PTL

\* Chains of the same events are the same.
LEMMA SameChain ==
  ASSUME NEW s \in Seq(Record), NEW t \in Seq(Record),
         NoGap(s, 0), NoGap(t, 0), Range(s) = Range(t)
  PROVE  s = t
<1>1. /\ Len(s) \in Nat /\ Len(t) \in Nat /\ Len(s) <= Len(t) /\ Len(t) <= Len(s)
      /\ \A i \in 1 .. Len(s) : s[i] = t[i]
  BY ChainPart
<1>2. Len(s) = Len(t)
  BY <1>1
<1> QED
  BY <1>1, <1>2, SeqEqual

\* A chain whose events are in another is cut from its beginning.
LEMMA ChainCut ==
  ASSUME NEW s \in Seq(Record), NEW t \in Seq(Record),
         NoGap(s, 0), NoGap(t, 0), Range(s) \subseteq Range(t)
  PROVE  Len(s) \in 0 .. Len(t) /\ s = SubSeq(t, 1, Len(s))
<1> DEFINE n == Len(s)
           v == SubSeq(t, 1, n)
<1>1. /\ n \in Nat /\ Len(t) \in Nat /\ n <= Len(t)
      /\ \A i \in 1 .. n : s[i] = t[i]
  BY ChainPart
<1>2. n \in 0 .. Len(t) /\ Len(s) = n
  BY <1>1
<1> HIDE DEF n
<1>3. v \in Seq(Record) /\ Len(v) = n /\ \A i \in 1 .. n : v[i] = t[i]
  BY <1>2, RangeOfPart
<1> HIDE DEF v
<1>4. \A i \in 1 .. n : s[i] = v[i]
  BY <1>1, <1>3
<1>5. s = v
  BY <1>2, <1>3, <1>4, SeqEqual
<1> QED
  BY <1>2, <1>5 DEF n, v

\* With one event more, the next, a chain is one longer.
LEMMA ChainGrown ==
  ASSUME NEW s \in Seq(Record), NEW t \in Seq(Record), NEW h \in Record,
         NoGap(s, 0), NoGap(t, 0), Range(t) = Range(s) \cup {h}, h.seq = Len(s)
  PROVE  /\ Len(t) = Len(s) + 1 /\ t[Len(t)] \in Record
         /\ SubSeq(t, 1, Len(s)) = s
<1>1. Len(s) \in 0 .. Len(t) /\ s = SubSeq(t, 1, Len(s))
  BY ChainCut
<1> DEFINE n == Len(s)
           m == Len(t)
<1>2. /\ n \in Nat /\ m \in Nat /\ DOMAIN s = 1 .. n /\ DOMAIN t = 1 .. m
      /\ n <= m /\ h.seq = n
  BY <1>1
<1>a. \A x : x \in Range(s) <=> \E j \in 1 .. n : s[j] = x
  BY InRange
<1>b. \A x : x \in Range(t) <=> \E j \in 1 .. m : t[j] = x
  BY InRange
<1>c. /\ \A i \in 1 .. n : s[i].seq = i - 1
      /\ \A i \in 1 .. m : t[i].seq = i - 1
  BY <1>2 DEF NoGap
<1>d. \A i \in 1 .. m : t[i] \in Record
  BY <1>2
<1> HIDE DEF n, m
<1>3. n + 1 <= m
  <2>1. PICK j \in 1 .. m : t[j] = h
    BY <1>b
  <2>2. t[j].seq = j - 1
    BY <1>c
  <2> QED
    BY <1>2, <2>1, <2>2
<1>4. m <= n + 1
  <2>1. SUFFICES ASSUME n + 2 <= m PROVE FALSE
    BY <1>2
  <2>2. n + 2 \in 1 .. m
    BY <1>2, <2>1
  <2>3. t[n + 2].seq = n + 1
    <3> DEFINE k == n + 2
    <3>1. k \in 1 .. m
      BY <2>2
    <3> HIDE DEF k
    <3>2. t[k].seq = k - 1
      BY <1>c, <3>1
    <3> USE DEF k
    <3> QED
      BY <1>2, <3>2
  <2>4. t[n + 2] \in Range(t)
    BY <1>b, <2>2
  <2>5. t[n + 2] # h
    BY <1>2, <2>3
  <2>6. PICK j \in 1 .. n : s[j] = t[n + 2]
    BY <1>a, <2>4, <2>5
  <2>7. s[j].seq = j - 1
    BY <1>c
  <2> QED
    BY <1>2, <2>3, <2>6, <2>7
<1>5. m = n + 1 /\ m \in 1 .. m
  BY <1>2, <1>3, <1>4
<1>6. t[m] \in Record
  BY <1>5, <1>d
<1> QED
  BY <1>1, <1>5, <1>6 DEF n, m

\* While the writer runs the log ends where the replay does.
LEMMA FullLength ==
  ASSUME FullInv, Up
  PROVE  walSeq \in Nat /\ Len(Replayable) = walSeq
<1> DEFINE p == Replayable
<1>0. /\ walSeq \in Nat
      /\ \A r \in Stored : r.seq < walSeq
      /\ \A k \in 0 .. walSeq - 1 : \E s \in Stored : s.seq = k
  BY DEF FullInv, DiskInv, ChainInv, TypeInv, BelowNext, NextFull
<1>1. p \in Seq(Record) /\ NoGap(p, 0) /\ Range(p) = Stored
  BY FullReplays DEF ReplayFull
<1> HIDE DEF p
<1> DEFINE n == Len(p)
<1>2. n \in Nat /\ DOMAIN p = 1 .. n
  BY <1>1
<1>3. \A x : x \in Stored <=> \E j \in 1 .. n : p[j] = x
  BY <1>1, InRange
<1>4. \A j \in 1 .. n : p[j].seq = j - 1
  BY <1>1, <1>2 DEF NoGap
<1> HIDE DEF n
<1>5. n <= walSeq
  <2>1. CASE n = 0
    BY <1>0, <2>1
  <2>2. CASE n # 0
    <3>1. n \in 1 .. n
      BY <1>2, <2>2
    <3>2. p[n].seq < walSeq /\ p[n].seq = n - 1
      BY <1>0, <1>3, <1>4, <3>1
    <3> QED
      BY <1>0, <1>2, <3>2
  <2> QED
    BY <2>1, <2>2
<1>6. walSeq <= n
  <2>1. SUFFICES ASSUME n < walSeq PROVE FALSE
    BY <1>0, <1>2
  <2>2. n \in 0 .. walSeq - 1
    BY <1>0, <1>2, <2>1
  <2>3. PICK x \in Stored : x.seq = n
    BY <1>0, <2>2
  <2>4. PICK j \in 1 .. n : p[j] = x
    BY <1>3
  <2>5. p[j].seq = j - 1
    BY <1>4
  <2> QED
    BY <1>2, <2>3, <2>4, <2>5
<1>7. n = walSeq
  BY <1>0, <1>2, <1>5, <1>6
<1> QED
  BY <1>0, <1>7 DEF n, p

\* The last events of the commands answered Ok.
Promised == {r \in Stored : r.last /\ r.cmd \in acked}

\* The log is promised up to the last of them.
PromisedEnd ==
  AckedLength = IF Promised = {} THEN 0 ELSE Max({r.seq + 1 : r \in Promised})

\* The promises reach to just after the last event that was promised.
LEMMA AckedPromised == TypeInv => PromisedEnd
<1> SUFFICES ASSUME TypeInv PROVE PromisedEnd
  OBVIOUS
<1>0. segs \in Seq(Seq(Line)) /\ Archived \subseteq Record
  BY DEF TypeInv, Archived
<1> DEFINE lines == UNION {Range(s) : s \in Range(segs)}
<1>1. lines = Lines(segs)
  <2>1. \A x : x \in Range(segs) <=> \E i \in 1 .. Len(segs) : segs[i] = x
    BY <1>0, InRange
  <2> QED
    BY <2>1 DEF Lines
<1>2. \A l \in Lines(segs) : l \in Line
  <2>1. \A i \in 1 .. Len(segs) : segs[i] \in Seq(Line)
    BY <1>0
  <2>2. \A i \in 1 .. Len(segs) : \A l \in Range(segs[i]) : l \in Line
    BY <2>1, InRange
  <2> QED
    BY <2>2 DEF Lines
<1> HIDE DEF lines
<1>3. {r \in Archived \cup lines : Good(r) /\ r.last /\ r.cmd \in acked} = Promised
  BY <1>0, <1>1, <1>2, LinesAssumption DEF Promised, Stored, Logged, Good, Line
<1> QED
  BY <1>3 DEF AckedLength, PromisedEnd, lines

\* The same, after a step.
LEMMA NextPromised == TypeInv' => PromisedEnd'
BY AckedPromised, PTL

\* An upper bound of a set that is in it is its maximum.
LEMMA MaxIs ==
  ASSUME NEW S \in SUBSET Int, NEW n \in S, \A y \in S : n >= y
  PROVE  Max(S) = n
<1>1. Max(S) \in S /\ \A y \in S : Max(S) >= y
  BY DEF Max
<1>2. Max(S) \in Int /\ n \in Int /\ Max(S) >= n /\ n >= Max(S)
  BY <1>1
<1> QED
  BY <1>2

\* A set of numbers below a bound has a greatest.
LEMMA GreatestNumber ==
  ASSUME NEW n \in Nat, NEW S \in SUBSET (0 .. n), S # {}
  PROVE  Max(S) \in S
<1> DEFINE B == {n - k : k \in S}
<1>1. B \in SUBSET Nat /\ B # {}
  <2>1. \A k \in 0 .. n : n - k \in Nat
    OBVIOUS
  <2>2. \A k \in S : n - k \in Nat
    BY <2>1
  <2> QED
    BY <2>2
<1>2. PICK b \in B : \A k \in B : b <= k
  BY <1>1, LeastNumber
<1>3. PICK m \in S : b = n - m
  BY <1>2
<1>4. ASSUME NEW y \in S
      PROVE  m >= y
  <2>1. n - m <= n - y
    BY <1>2, <1>3
  <2> QED
    BY <2>1
<1>5. Max(S) = m
  <2>1. S \in SUBSET Int
    OBVIOUS
  <2> QED
    BY <1>4, <2>1, MaxIs
<1> QED
  BY <1>5

\* What was promised lies within what a boot would replay.
AckedFits == AckedLength \in 0 .. Len(Replayable)

\* What was promised is within what a boot would replay.
LEMMA AckedWithin == FullInv => AckedFits
<1> SUFFICES ASSUME FullInv PROVE AckedFits
  OBVIOUS
<1>1. ReplayFull /\ TypeInv
  BY FullReplays DEF FullInv, DiskInv, ChainInv
<1> DEFINE p == Replayable
           n == Len(p)
<1>2. p \in Seq(Record) /\ NoGap(p, 0) /\ Range(p) = Stored
  BY <1>1 DEF ReplayFull
<1> HIDE DEF p
<1>3. n \in Nat /\ DOMAIN p = 1 .. n
  BY <1>2
<1>4. ASSUME NEW r \in Promised PROVE r.seq + 1 \in 0 .. n
  <2>1. PICK j \in 1 .. n : p[j] = r
    BY <1>2, InRange DEF Promised
  <2>2. p[j].seq = j - 1
    BY <1>2, <1>3 DEF NoGap
  <2> HIDE DEF n
  <2> QED
    BY <1>3, <2>1, <2>2
<1> HIDE DEF n
<1>5. CASE Promised = {}
  BY <1>1, <1>3, <1>5, AckedPromised DEF PromisedEnd, AckedFits, n, p
<1>6. CASE Promised # {}
  <2> DEFINE S == {r.seq + 1 : r \in Promised}
  <2>1. S \in SUBSET (0 .. n) /\ S # {}
    BY <1>4, <1>6
  <2> HIDE DEF S
  <2>2. Max(S) \in 0 .. n
    BY <1>3, <2>1, GreatestNumber
  <2> QED
    BY <1>1, <1>6, <2>2, AckedPromised DEF PromisedEnd, AckedFits, n, p, S
<1> QED
  BY <1>5, <1>6

\* No command is answered twice: the one under way has a number of its own,
\* its last event is the last of its batch, and an event that closes a command
\* answered Ok is where no crash reaches it.
Promises ==
  /\ \A c \in acked : c < cmds
  /\ \A r \in Stored : r.cmd < cmds
  /\ \A r \in Promised : r \in Safe
  /\ Working =>
       /\ batch[1].cmd < cmds /\ batch[1].cmd \notin acked
       /\ \A r \in Stored \cup Range(batch) :
            r.cmd = batch[1].cmd /\ r.last => r = batch[Len(batch)]

LogInv == FullInv /\ AckInv /\ Promises

\* Every step keeps the promises.
LEMMA PromisesNext ==
  ASSUME WholeWrites, ~ ClockBack, LogInv, [Next]_vars
  PROVE  Promises'
<1>0. /\ TypeInv /\ DiskInv /\ BatchShape /\ Promises /\ BatchKnown
      /\ cmds \in Nat /\ acked \subseteq Nat /\ batch \in Seq(Record)
      /\ left \in Seq(Record) /\ (Working => batch # <<>>)
  BY DEF LogInv, FullInv, DiskInv, ChainInv, TypeInv, AckInv
<1>s. \A r \in Stored : r \in Record /\ r.cmd \in Nat
  <2>1. \A r \in Stored : r \in Record
    BY <1>0 DEF Stored, Logged, Archived, TypeInv
  <2> QED
    BY <2>1, RecordNumber
<1>b. Working => /\ 1 \in 1 .. Len(batch) /\ Len(batch) \in 1 .. Len(batch)
                 /\ batch[1] \in Record /\ batch[1].cmd \in Nat
                 /\ batch[Len(batch)] \in Range(batch)
                 /\ \A r \in Range(batch) : r.cmd = batch[1].cmd
  <2>1. SUFFICES ASSUME Working
                 PROVE  /\ 1 \in 1 .. Len(batch) /\ Len(batch) \in 1 .. Len(batch)
                        /\ batch[1] \in Record /\ batch[1].cmd \in Nat
                        /\ batch[Len(batch)] \in Range(batch)
                        /\ \A r \in Range(batch) : r.cmd = batch[1].cmd
    OBVIOUS
  <2>2. 1 \in 1 .. Len(batch) /\ Len(batch) \in 1 .. Len(batch)
    BY <1>0, <2>1
  <2>3. \A x : x \in Range(batch) <=> \E j \in 1 .. Len(batch) : batch[j] = x
    BY <1>0, InRange
  <2>4. batch[1] \in Record
    BY <1>0, <2>2
  <2> QED
    BY <1>0, <2>1, <2>2, <2>3, <2>4, RecordNumber DEF BatchShape
<1>k. Safe \subseteq Safe'
  BY <1>0, SafeKept
<1>1. CASE WriteRecord
  <2> DEFINE h == Head(left)
  <2>1. Stored' = Stored \cup {h} /\ h \in Record
    <3>1. Head(left) \in Record /\ ~ PowerLoss
      BY <1>0, <1>1, HeadTailProperties DEF WriteRecord, PowerLoss
    <3> QED
      BY <1>0, <1>1, <3>1, StoredStep
  <2>2. /\ Working /\ Working' /\ batch' = batch /\ acked' = acked /\ cmds' = cmds
        /\ left # <<>>
    BY <1>1 DEF WriteRecord, Working, answers
  <2>3. h \in Range(batch)
    <3>1. Len(left) \in Nat /\ Len(left) > 0 /\ h = left[1]
      BY <1>0, <2>2, TailShorter, HeadTailProperties
    <3>2. 1 \in 1 .. Len(left)
      BY <3>1
    <3>3. \A x : x \in Range(left) <=> \E j \in 1 .. Len(left) : left[j] = x
      BY <1>0, InRange
    <3>4. h \in Range(left)
      BY <3>1, <3>2, <3>3
    <3> QED
      BY <1>0, <2>2, <3>4 DEF BatchKnown
  <2> HIDE DEF h
  <2>4. h.cmd = batch[1].cmd /\ h.cmd < cmds /\ h.cmd \notin acked
    BY <1>0, <1>b, <2>2, <2>3 DEF Promises
  <2>5. Promised' = Promised
    BY <2>1, <2>2, <2>4 DEF Promised
  <2> QED
    BY <1>0, <1>k, <2>1, <2>2, <2>3, <2>4, <2>5 DEF Promises
<1>2. CASE \E n \in BatchSizes : Propose(n)
  <2>1. PICK n \in BatchSizes : Propose(n)
    BY <1>2
  <2>2. /\ n \in Nat \ {0} /\ batch' \in Seq(Record) /\ Len(batch') = n
        /\ \A i \in 1 .. n : /\ batch'[i].cmd = cmds
                             /\ batch'[i].last = (i = n)
    BY <1>0, <2>1, ProposedBatch
  <2>3. cmds' = cmds + 1 /\ acked' = acked
    BY <2>1 DEF Propose
  <2>4. Stored' = Stored
    <3>1. ~ PowerLoss /\ ~ WriteRecord
      BY <2>1 DEF Propose, PowerLoss, WriteRecord
    <3> QED
      BY <1>0, <3>1, StoredStep
  <2>5. Promised' = Promised
    BY <2>3, <2>4 DEF Promised
  <2>6. /\ \A c \in acked' : c < cmds' /\ c \in Nat /\ c < cmds
        /\ \A r \in Stored' : r.cmd < cmds' /\ r.cmd < cmds
    BY <1>0, <1>s, <2>3, <2>4 DEF Promises
  <2>7. 1 \in 1 .. n /\ batch'[1].cmd = cmds /\ batch'[1].cmd < cmds'
        /\ batch'[1].cmd \notin acked'
    BY <1>0, <2>2, <2>3, <2>6
  <2>8. ASSUME NEW r \in Stored' \cup Range(batch'), r.cmd = batch'[1].cmd, r.last
        PROVE  r = batch'[Len(batch')]
    <3>1. r \notin Stored'
      BY <1>0, <1>s, <2>4, <2>6, <2>7, <2>8
    <3>2. PICK j \in 1 .. n : batch'[j] = r
      BY <2>2, <2>8, <3>1, InRange
    <3>3. j = n
      BY <2>2, <2>8, <3>2
    <3> QED
      BY <2>2, <3>2, <3>3
  <2> QED
    BY <1>0, <1>k, <2>5, <2>6, <2>7, <2>8 DEF Promises
<1>3. CASE Commit
  <2>1. /\ Working /\ pc = "commit" /\ ~ Working' /\ cmds' = cmds
        /\ acked' = acked \cup {batch[1].cmd}
    BY <1>3 DEF Commit, Working
  <2>2. Stored' = Stored
    <3>1. ~ PowerLoss /\ ~ WriteRecord
      BY <1>3 DEF Commit, PowerLoss, WriteRecord
    <3> QED
      BY <1>0, <3>1, StoredStep
  <2>3. batch[Len(batch)] \in Safe
    BY <1>0, <2>1 DEF BatchShape
  <2>4. \A r \in Promised' : r \in Safe
    BY <1>0, <2>1, <2>2, <2>3 DEF Promises, Promised
  <2> QED
    BY <1>0, <1>k, <2>1, <2>2, <2>4 DEF Promises
<1>4. CASE ~ WriteRecord /\ ~ Commit /\ ~ \E n \in BatchSizes : Propose(n)
  <2>1. Stored' \subseteq Stored
    BY <1>0, <1>4, StoredStep
  <2>2. /\ acked' = acked /\ cmds' = cmds
        /\ Working' => Working /\ batch' = batch
    BY <1>4 DEF Next, vars, disk, memory, answers, Boot, RefuseBoot, WriteFails,
       AppendRefused, Sync, SyncFails, SealAndPlan, Plan, WritePartition,
       CompactionFails, RemoveSegment, PowerLoss, Kill, Clock, Fail, Working
  <2>3. Promised' \subseteq Promised
    BY <2>1, <2>2 DEF Promised
  <2> QED
    BY <1>0, <1>k, <2>1, <2>2, <2>3 DEF Promises
<1> QED
  BY <1>1, <1>2, <1>3, <1>4

\* An empty store is an empty log.
LEMMA LogInit == Init => LogInv
<1> SUFFICES ASSUME Init PROVE LogInv
  OBVIOUS
<1>1. segs = <<>> /\ Len(segs) = 0
  BY DEF Init
<1>2. Lines(segs) = {}
  BY <1>1 DEF Lines
<1>3. Stored = {}
  BY <1>2 DEF Init, Archived, Stored, Logged
<1> QED
  BY <1>3, FullInit, AckInit DEF Init, LogInv, Promises, Promised, Working

\* Every step keeps what the refinement rests on.
LEMMA LogNext == WholeWrites /\ ~ ClockBack /\ LogInv /\ [Next]_vars => LogInv'
<1> SUFFICES ASSUME WholeWrites, ~ ClockBack, LogInv, [Next]_vars PROVE LogInv'
  OBVIOUS
<1>1. FullInv' /\ FullInv /\ AckInv
  BY FullNext DEF LogInv
<1>2. DiskInv' /\ BatchShape' /\ AckedSafe' /\ AckedSurvive'
  BY <1>1, BatchShapeStep, AckedStep DEF FullInv
<1> QED
  BY <1>1, <1>2, PromisesNext DEF LogInv, AckInv

\* Every step is one of the log's, or invisible to it: writing a record
\* appends it, applying a command promises all there is, losing the power
\* loses what was not promised.
LEMMA StepMaps ==
  WholeWrites /\ ~ ClockBack /\ LogInv /\ LogInv' /\ [Next]_vars
    => [Abstract!Next]_(Abstract!vars)
<1> SUFFICES ASSUME WholeWrites, ~ ClockBack, LogInv, LogInv', [Next]_vars
             PROVE  [Abstract!Next]_(Abstract!vars)
  OBVIOUS
<1> DEFINE p == Replayable
           q == Replayable'
<1>0. /\ FullInv /\ FullInv' /\ TypeInv /\ TypeInv' /\ DiskInv /\ Follows
      /\ Promises /\ BatchShape /\ BatchKnown /\ ReplayFull /\ ReplayFull'
      /\ batch \in Seq(Record) /\ left \in Seq(Record) /\ ledger \in Seq(Record)
      /\ walSeq \in Nat /\ (Working => batch # <<>>) /\ ChainInv
  BY FullReplays, NextReplays DEF LogInv, FullInv, DiskInv, ChainInv, TypeInv, AckInv
<1>1. /\ p \in Seq(Record) /\ NoGap(p, 0) /\ Range(p) = Stored
      /\ q \in Seq(Record) /\ NoGap(q, 0) /\ Range(q) = Stored'
  BY <1>0 DEF ReplayFull, NoGap
<1>2. /\ AckedLength \in 0 .. Len(p)
      /\ AckedLength = IF Promised = {} THEN 0 ELSE Max({r.seq + 1 : r \in Promised})
      /\ AckedLength' = IF Promised' = {} THEN 0
                        ELSE Max({r.seq + 1 : r \in Promised'})
  BY <1>0, AckedWithin, AckedPromised, NextPromised DEF PromisedEnd, AckedFits
<1>3. Promised' = Promised => AckedLength' = AckedLength
  BY <1>2
<1>4. AckedLength' \in 0 .. Len(q)
  <2>1. FullInv' => AckedFits'
    BY AckedWithin, PTL
  <2> QED
    BY <1>0, <2>1 DEF AckedFits
<1> HIDE DEF p, q
<1>5. CASE Commit
  <2> DEFINE b == batch[Len(batch)]
             n == Len(q)
  <2>1. /\ Working /\ pc = "commit" /\ Up /\ left = <<>> /\ walSeq' = walSeq
        /\ acked' = acked \cup {batch[1].cmd} /\ Up' /\ ~ PowerLoss /\ ~ WriteRecord
    BY <1>0, <1>5 DEF Commit, Working, Up, Follows, PowerLoss, WriteRecord
  <2>2. Stored' = Stored
    BY <1>0, <2>1, StoredStep
  <2>3. q = p
    BY <1>1, <2>2, SameChain
  <2>4. walSeq = Len(p)
    BY <1>0, <2>1, FullLength DEF p
  <2>5. /\ Len(batch) \in Nat /\ Len(batch) > 0 /\ Len(left) = 0 /\ Len(ledger) \in Nat
        /\ walSeq = Len(ledger) + Len(batch)
    <3>1. Len(batch) \in Nat /\ Len(batch) > 0 /\ Len(left) = 0 /\ Len(ledger) \in Nat
      BY <1>0, <2>1, TailShorter
    <3>2. walSeq = Len(ledger) + Len(batch) - Len(left)
      BY <1>0, <2>1, <3>1 DEF Follows
    <3> QED
      BY <3>1, <3>2
  <2>6. b.seq = Len(ledger) + Len(batch) - 1 /\ b \in Record
    <3>1. NoGap(batch, Len(ledger)) /\ DOMAIN batch = 1 .. Len(batch)
      BY <1>0, <2>1 DEF ChainInv
    <3> DEFINE n0 == Len(ledger)
               m == Len(batch)
    <3>2. m \in 1 .. m /\ n0 \in Nat /\ m \in Nat
      BY <2>5
    <3>3. \A i \in 1 .. m : batch[i].seq = n0 + i - 1
      BY <3>1 DEF NoGap
    <3>4. \A i \in 1 .. m : batch[i] \in Record
      BY <1>0
    <3> HIDE DEF m, n0
    <3>5. batch[m].seq = n0 + m - 1 /\ batch[m] \in Record
      BY <3>2, <3>3, <3>4
    <3> QED
      BY <3>5 DEF m, n0
  <2>7. b \in Promised'
    <3>1. b.last /\ b.cmd = batch[1].cmd
      <4>1. Len(batch) \in 1 .. Len(batch)
        BY <2>5
      <4> QED
        BY <1>0, <2>1, <4>1 DEF BatchShape
    <3>2. b \in Stored
      <4>1. b \in Logged
        BY <1>0, <2>1 DEF BatchShape
      <4> QED
        BY <4>1 DEF Stored
    <3> QED
      BY <2>1, <2>2, <3>1, <3>2 DEF Promised
  <2>8. \A r \in Promised' : r \in Stored /\ r \in Record /\ r.seq \in Nat /\ r.seq < walSeq
    <3>1. \A r \in Stored : r \in Record
      BY <1>0 DEF Stored, Logged, Archived, TypeInv
    <3>2. \A r \in Stored : r.seq < walSeq
      BY <1>0, <2>1 DEF DiskInv, BelowNext
    <3> QED
      BY <2>2, <3>1, <3>2, RecordNumber DEF Promised
  <2>9. AckedLength' = n
    <3> DEFINE S == {r.seq + 1 : r \in Promised'}
    <3>1. n = walSeq /\ b.seq + 1 = n
      BY <1>0, <2>3, <2>4, <2>5, <2>6
    <3>2. n \in S /\ S \in SUBSET Int /\ \A y \in S : n >= y
      <4> HIDE DEF n, b
      <4> QED
        BY <1>0, <2>7, <2>8, <3>1
    <3> HIDE DEF S, n
    <3>3. Max(S) = n
      BY <3>2, MaxIs
    <3> QED
      BY <1>2, <2>7, <3>3 DEF S
  <2> QED
    BY <2>3, <2>9 DEF Abstract!Next, Abstract!Promise, p, q
<1>6. CASE WriteRecord
  <2> DEFINE h == Head(left)
  <2>1. /\ h \in Record /\ Stored' = Stored \cup {h} /\ h.seq = walSeq /\ Up /\ Working
        /\ left # <<>> /\ acked' = acked
    <3>1. Head(left) \in Record /\ ~ PowerLoss /\ left # <<>> /\ Working /\ Up
          /\ acked' = acked /\ Head(left).seq = walSeq
      BY <1>0, <1>6, HeadTailProperties DEF WriteRecord, PowerLoss, Up, Working, answers
    <3> QED
      BY <1>0, <1>6, <3>1, StoredStep
  <2>2. h \in Range(batch)
    <3>1. Len(left) \in Nat /\ Len(left) > 0 /\ h = left[1]
      BY <1>0, <2>1, TailShorter, HeadTailProperties
    <3>2. 1 \in 1 .. Len(left)
      BY <3>1
    <3>3. \A x : x \in Range(left) <=> \E j \in 1 .. Len(left) : left[j] = x
      BY <1>0, InRange
    <3>4. h \in Range(left)
      BY <3>1, <3>2, <3>3
    <3> QED
      BY <1>0, <2>1, <3>4 DEF BatchKnown
  <2>3. h.cmd = batch[1].cmd
    <3>1. PICK j \in 1 .. Len(batch) : batch[j] = h
      BY <1>0, <2>2, InRange
    <3> QED
      BY <1>0, <2>1, <3>1 DEF BatchShape
  <2>4. Len(p) = walSeq
    BY <1>0, <2>1, FullLength DEF p
  <2> HIDE DEF h
  <2>5. Promised' = Promised
    BY <1>0, <2>1, <2>3 DEF Promised, Promises
  <2>6. Len(q) = Len(p) + 1 /\ q[Len(q)] \in Record /\ SubSeq(q, 1, Len(p)) = p
    BY <1>1, <2>1, <2>4, ChainGrown
  <2> QED
    BY <1>3, <2>5, <2>6 DEF Abstract!Next, Abstract!Append1, p, q
<1>7. CASE ~ Commit /\ ~ WriteRecord
  <2>1. acked' = acked
    BY <1>7 DEF Next, vars, disk, memory, answers, Boot, RefuseBoot, Propose, WriteFails,
       AppendRefused, Sync, SyncFails, SealAndPlan, Plan, WritePartition,
       CompactionFails, RemoveSegment, PowerLoss, Kill, Clock, Fail
  <2>2. CASE Stored' = Stored
    <3>1. q = p
      BY <1>1, <2>2, SameChain
    <3>2. Promised' = Promised
      BY <2>1, <2>2 DEF Promised
    <3> QED
      BY <1>3, <3>1, <3>2 DEF Abstract!vars, p, q
  <2>3. CASE Stored' \subseteq Stored /\ Safe \subseteq Stored'
    <3>1. Len(q) \in 0 .. Len(p) /\ q = SubSeq(p, 1, Len(q))
      BY <1>1, <2>3, ChainCut
    <3>2. Promised' = Promised
      BY <1>0, <2>1, <2>3 DEF Promised, Promises
    <3>3. AckedLength' = AckedLength
      BY <1>3, <3>2
    <3>4. Len(q) \in AckedLength .. Len(p)
      BY <1>1, <1>2, <1>4, <3>1, <3>3
    <3> QED
      BY <3>1, <3>3, <3>4 DEF Abstract!Next, Abstract!Lose, p, q
  <2> QED
    BY <1>0, <1>7, <2>2, <2>3, StoredStep
<1> QED
  BY <1>5, <1>6, <1>7

\* An empty disk is the empty log.
LEMMA InitMaps == Init => Abstract!Init
<1> SUFFICES ASSUME Init PROVE Abstract!Init
  OBVIOUS
<1>1. segs = <<>> /\ Len(segs) = 0
  BY DEF Init
<1>2. Lines(segs) = {}
  BY <1>1 DEF Lines
<1>3. Stored = {} /\ Promised = {}
  BY <1>2 DEF Init, Archived, Stored, Logged, Promised
<1>4. FullInv /\ TypeInv
  BY FullInit, TypeInit
<1>5. Replayable \in Seq(Record) /\ Range(Replayable) = {}
  BY <1>3, <1>4, FullReplays DEF ReplayFull
<1>6. Replayable = <<>>
  <2> DEFINE p == Replayable
  <2>1. p \in Seq(Record) /\ Range(p) = {}
    BY <1>5
  <2> HIDE DEF p
  <2>2. \A j \in 1 .. Len(p) : p[j] \in Range(p)
    BY <2>1, InRange
  <2>3. Len(p) = 0
    <3>1. Len(p) \in Nat
      BY <2>1
    <3>2. Len(p) # 0 => 1 \in 1 .. Len(p)
      BY <3>1
    <3> QED
      BY <2>1, <2>2, <3>2
  <2>4. p = <<>>
    BY <2>1, <2>3, EmptySeq
  <2> QED
    BY <2>4 DEF p
<1>7. AckedLength = 0
  BY <1>3, <1>4, AckedPromised DEF PromisedEnd
<1> QED
  BY <1>6, <1>7 DEF Abstract!Init

\* The store is a durable log: through rotations, torn lines, partitions,
\* interrupted compactions, kills and power losses, what a boot would replay
\* grows by one event at a time, and a crash takes at most what nobody was
\* promised.
THEOREM StoreIsDurableLog ==
  ASSUME WholeWrites, ~ ClockBack
  PROVE  Spec => IsDurableLog
<1>1. LogInv /\ [Next]_vars => LogInv'
  BY LogNext
<1>2. LogInv /\ LogInv' /\ [Next]_vars => [Abstract!Next]_(Abstract!vars)
  BY StepMaps
<1>3. Init => LogInv /\ Abstract!Init
  BY LogInit, InitMaps
<1> QED
  BY <1>1, <1>2, <1>3, PTL DEF Spec, IsDurableLog, Abstract!Spec
=============================================================================
