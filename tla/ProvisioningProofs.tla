------------------------- MODULE ProvisioningProofs -------------------------
(***************************************************************************)
(* Proofs about the telemetry tokens.  Tokens.txt holds no whole line with *)
(* a secret the ledger did not record, and an end of one only after two    *)
(* writers held one temporary file; while handlers do not overlap and      *)
(* nothing fails, the files say what the ledger says whenever no handler   *)
(* is at work; and an import before the bot first serves keeps the lines   *)
(* of tokens.txt and gives each bound member the grant for its own.        *)
(***************************************************************************)
EXTENDS Provisioning, SumLemmas, SequenceTheorems

-----------------------------------------------------------------------------
(* Lines of a text *)

\* g collects the members of S in s, up to the n-th element.
Collects(g, s, S, n) ==
  g = [i \in 0..n |->
         IF i = 0 THEN <<>>
         ELSE IF s[i] \in S THEN Append(g[i - 1], s[i]) ELSE g[i - 1]]

\* Those takes the last of what is collected.
LEMMA ThoseByCollects ==
  ASSUME NEW s, NEW S
  PROVE  Those(s, S) = (CHOOSE g : Collects(g, s, S, Len(s)))[Len(s)]
BY DEF Those, Collects

\* One more line at the end.
LEMMA LinesAppend ==
  ASSUME NEW X, NEW s \in Seq(X), NEW x \in X
  PROVE  Append(s, x) \in Seq(X) /\ LinesOf(Append(s, x)) = LinesOf(s) \cup {x}
<1> DEFINE t == Append(s, x)
           n == Len(s)
<1>1. /\ t \in Seq(X) /\ Len(t) = n + 1 /\ n \in Nat
      /\ \A i \in 1..n : t[i] = s[i]
      /\ t[n + 1] = x
  BY AppendProperties
<1>2. 1..n + 1 = (1..n) \cup {n + 1}
  BY <1>1
<1> HIDE DEF t
<1>3. LinesOf(t) = LinesOf(s) \cup {x}
  <2>1. LinesOf(t) = {t[i] : i \in 1..n + 1} /\ LinesOf(s) = {s[i] : i \in 1..n}
    BY <1>1 DEF LinesOf
  <2> HIDE DEF n
  <2> QED
    BY <1>1, <1>2, <2>1
<1> QED
  BY <1>1, <1>3 DEF t

\* One text after the other.
LEMMA LinesConcat ==
  ASSUME NEW X, NEW s \in Seq(X), NEW t \in Seq(X)
  PROVE  s \o t \in Seq(X) /\ LinesOf(s \o t) = LinesOf(s) \cup LinesOf(t)
<1> DEFINE r == s \o t
           a == Len(s)
           b == Len(t)
<1>1. /\ r \in Seq(X) /\ Len(r) = a + b /\ a \in Nat /\ b \in Nat
      /\ \A i \in 1 .. a + b : r[i] = IF i <= a THEN s[i] ELSE t[i - a]
  BY ConcatProperties
<1>2. /\ LinesOf(s) = {s[i] : i \in 1..a} /\ LinesOf(t) = {t[i] : i \in 1..b}
      /\ LinesOf(r) = {r[i] : i \in 1..a + b}
  BY <1>1 DEF LinesOf
<1> HIDE DEF r, a, b
<1>3. /\ \A i \in 1..a : i \in 1..a + b /\ r[i] = s[i]
      /\ \A i \in 1..b : a + i \in 1..a + b /\ r[a + i] = t[i]
      /\ \A i \in 1..a + b : \/ i \in 1..a /\ r[i] = s[i]
                             \/ i - a \in 1..b /\ r[i] = t[i - a]
  BY <1>1
<1>4. LinesOf(r) = LinesOf(s) \cup LinesOf(t)
  BY <1>2, <1>3
<1> QED
  BY <1>1, <1>4 DEF r

\* A part of a text.
LEMMA LinesSubSeq ==
  ASSUME NEW X, NEW s \in Seq(X), NEW k \in Nat
  PROVE  /\ SubSeq(s, k + 1, Len(s)) \in Seq(X)
         /\ LinesOf(SubSeq(s, k + 1, Len(s))) \subseteq LinesOf(s)
<1> DEFINE n == Len(s)
           m == k + 1
           t == SubSeq(s, m, n)
<1>1. n \in Nat /\ m \in Int /\ n \in Int /\ \A i \in 1..n : s[i] \in X
  OBVIOUS
<1>2. \A i \in m..n : i \in 1..n
  BY <1>1
<1>3. \A i \in m..n : s[i] \in X
  BY <1>1, <1>2
<1> HIDE DEF m, n
<1>4. /\ t \in Seq(X)
      /\ Len(t) = IF m <= n THEN n - m + 1 ELSE 0
      /\ \A i \in 1..n - m + 1 : t[i] = s[m + i - 1]
  BY <1>1, <1>3, SubSeqProperties
<1> HIDE DEF t
<1>5. \A i \in 1..Len(t) : m + i - 1 \in 1..n /\ t[i] = s[m + i - 1]
  BY <1>1, <1>4 DEF m
<1>6. LinesOf(t) \subseteq LinesOf(s)
  BY <1>5 DEF LinesOf, n
<1> QED
  BY <1>4, <1>6 DEF t, m, n

\* The lines of a text are its first and those after it.
LEMMA HeadAndTail ==
  ASSUME NEW X, NEW s \in Seq(X), s # <<>>
  PROVE  LinesOf(s) = {Head(s)} \cup LinesOf(Tail(s)) /\ Tail(s) \in Seq(X)
<1> DEFINE r == Tail(s)
           n == Len(s)
<1>1. /\ r \in Seq(X) /\ n \in Nat /\ n # 0 /\ Len(r) = n - 1 /\ Head(s) = s[1]
      /\ \A i \in 1..n - 1 : r[i] = s[i + 1]
  BY HeadTailProperties
<1>2. LinesOf(s) = {s[i] : i \in 1..n} /\ LinesOf(r) = {r[i] : i \in 1..n - 1}
  BY <1>1 DEF LinesOf
<1> HIDE DEF r, n
<1>3. /\ 1 \in 1..n
      /\ \A i \in 1..n : i = 1 \/ (i - 1 \in 1..n - 1 /\ r[i - 1] = s[i])
      /\ \A i \in 1..n - 1 : i + 1 \in 1..n /\ r[i] = s[i + 1]
  BY <1>1
<1>4. LinesOf(s) = {s[1]} \cup LinesOf(r)
  BY <1>2, <1>3
<1> QED
  BY <1>1, <1>4 DEF r

\* A text without lines is empty.
LEMMA NoLines ==
  ASSUME NEW X, NEW s \in Seq(X), LinesOf(s) = {}
  PROVE  s = <<>>
<1>1. Len(s) \in Nat /\ (Len(s) # 0 => 1 \in 1..Len(s))
  OBVIOUS
<1>2. Len(s) = 0
  BY <1>1 DEF LinesOf
<1> QED
  BY <1>2, EmptySeq

\* What the recursion says of each element.
LEMMA CollectsAt ==
  ASSUME NEW s, NEW S, NEW n, NEW g, Collects(g, s, S, n)
  PROVE  \A i \in 0..n : g[i] = IF i = 0 THEN <<>>
           ELSE IF s[i] \in S THEN Append(g[i - 1], s[i]) ELSE g[i - 1]
BY Zenon DEF Collects

\* The recursion has a solution.
LEMMA CollectsExist ==
  ASSUME NEW s, NEW S, NEW n \in Nat
  PROVE  \E g : Collects(g, s, S, n)
<1> DEFINE B == {k \in Nat : ~ \E g : Collects(g, s, S, k)}
<1>1. SUFFICES ASSUME B # {} PROVE FALSE
  OBVIOUS
<1>2. PICK k \in B : \A j \in B : k <= j
  <2> HIDE DEF B
  <2>1. B \in SUBSET Nat
    BY DEF B
  <2> QED
    BY <1>1, <2>1, LeastNumber
<1>3. k # 0
  <2> DEFINE g == [i \in 0..0 |-> <<>>]
  <2>1. \A i \in 0..0 : g[i] = IF i = 0 THEN <<>>
          ELSE IF s[i] \in S THEN Append(g[i - 1], s[i]) ELSE g[i - 1]
    OBVIOUS
  <2>2. Collects(g, s, S, 0)
    BY <2>1, Zenon DEF Collects
  <2> QED
    BY <2>2
<1>4. k - 1 \in Nat /\ k - 1 \notin B
  BY <1>2, <1>3
<1>5. PICK g : Collects(g, s, S, k - 1)
  BY <1>4
<1>6. \A j \in 0..k - 1 : g[j] = IF j = 0 THEN <<>>
        ELSE IF s[j] \in S THEN Append(g[j - 1], s[j]) ELSE g[j - 1]
  BY <1>5, CollectsAt
<1> DEFINE h == [i \in 0..k |->
                   IF i = k THEN (IF s[k] \in S THEN Append(g[k - 1], s[k])
                                  ELSE g[k - 1])
                   ELSE g[i]]
<1>7. ASSUME NEW i \in 0..k
      PROVE  h[i] = IF i = 0 THEN <<>>
               ELSE IF s[i] \in S THEN Append(h[i - 1], s[i]) ELSE h[i - 1]
  <2>1. CASE i = k
    <3>1. k - 1 \in 0..k /\ h[k - 1] = g[k - 1]
      BY <1>3, <1>4
    <3> QED
      BY <1>3, <2>1, <3>1
  <2>2. CASE i # k
    <3>1. i \in 0..k - 1 /\ h[i] = g[i]
      BY <2>2
    <3>2. i # 0 => i - 1 \in 0..k - 1 /\ h[i - 1] = g[i - 1]
      BY <3>1
    <3> QED
      BY <1>6, <3>1, <3>2
  <2> QED
    BY <2>1, <2>2
<1>8. Collects(h, s, S, k)
  BY <1>7, Zenon DEF Collects
<1> QED
  BY <1>2, <1>8

\* Those are the lines of s that are in S.
LEMMA ThoseOf ==
  ASSUME NEW X, NEW s \in Seq(X), NEW S
  PROVE  Those(s, S) \in Seq(X) /\ LinesOf(Those(s, S)) = LinesOf(s) \cap S
<1> DEFINE n == Len(s)
           g == CHOOSE f : Collects(f, s, S, n)
           First(k) == {s[i] : i \in 1..k}
<1>1. n \in Nat /\ \A i \in 1..n : s[i] \in X
  OBVIOUS
<1>2. Collects(g, s, S, n)
  <2> HIDE DEF n
  <2>1. \E f : Collects(f, s, S, n)
    BY <1>1, CollectsExist
  <2> QED
    BY <2>1
<1>3. Those(s, S) = g[n]
  BY ThoseByCollects
<1> HIDE DEF g
<1>4. \A j \in 0..n : g[j] = IF j = 0 THEN <<>>
        ELSE IF s[j] \in S THEN Append(g[j - 1], s[j]) ELSE g[j - 1]
  BY <1>2, CollectsAt
<1>5. LinesOf(s) = First(n)
  BY DEF LinesOf
<1> HIDE DEF n
<1> DEFINE Ok(k) == g[k] \in Seq(X) /\ LinesOf(g[k]) = First(k) \cap S
           B == {k \in 0..n : ~ Ok(k)}
<1> HIDE DEF Ok
<1>6. ASSUME B # {} PROVE FALSE
  <2>1. PICK k \in B : \A j \in B : k <= j
    <3> HIDE DEF B
    <3>1. B \in SUBSET Nat
      BY <1>1 DEF B
    <3> QED
      BY <1>6, <3>1, LeastNumber
  <2>2. k # 0
    <3>1. g[0] = <<>>
      BY <1>1, <1>4
    <3>2. LinesOf(<<>>) = {} /\ First(0) = {} /\ <<>> \in Seq(X)
      BY DEF LinesOf
    <3>3. Ok(0)
      BY <3>1, <3>2 DEF Ok
    <3> QED
      BY <2>1, <3>3
  <2>3. k - 1 \in 0..n /\ k \in 1..n /\ k - 1 \notin B
    <3>1. k \in 0..n
      OBVIOUS
    <3> HIDE DEF B
    <3> QED
      BY <1>1, <2>1, <2>2, <3>1
  <2>4. Ok(k - 1)
    BY <2>3
  <2>5. First(k) = First(k - 1) \cup {s[k]}
    <3>1. 1..k = (1..k - 1) \cup {k}
      BY <2>3
    <3> QED
      BY <3>1
  <2>6. g[k] = IF s[k] \in S THEN Append(g[k - 1], s[k]) ELSE g[k - 1]
    BY <1>4, <2>2, <2>3
  <2>7. CASE s[k] \in S
    <3>1. g[k] = Append(g[k - 1], s[k]) /\ s[k] \in X /\ g[k - 1] \in Seq(X)
      BY <1>1, <2>3, <2>4, <2>6, <2>7 DEF Ok
    <3>2. g[k] \in Seq(X) /\ LinesOf(g[k]) = LinesOf(g[k - 1]) \cup {s[k]}
      BY <3>1, LinesAppend
    <3> QED
      BY <2>1, <2>4, <2>5, <2>7, <3>2 DEF Ok
  <2>8. CASE s[k] \notin S
    BY <2>1, <2>4, <2>5, <2>6, <2>8 DEF Ok
  <2> QED
    BY <2>7, <2>8
<1>7. n \in 0..n /\ Ok(n)
  BY <1>1, <1>6
<1> QED
  BY <1>3, <1>5, <1>7 DEF Ok

\* The members, by name.
LEMMA SortedSeq == Sorted \in Seq(Users) /\ LinesOf(Sorted) = Users
<1> DEFINE c == Cardinality(Users)
<1>1. c \in Nat
  BY FiniteAssumption, FS_CardinalityType
<1>2. /\ Sorted \in [1..c -> Users]
      /\ \A u \in Users : \E i \in 1..c : Sorted[i] = u
  BY SortedAssumption
<1> HIDE DEF c
<1>3. Sorted \in Seq(Users) /\ Len(Sorted) = c
  BY <1>1, <1>2
<1>4. LinesOf(Sorted) = {Sorted[i] : i \in 1..c}
  BY <1>3 DEF LinesOf
<1>5. LinesOf(Sorted) = Users
  BY <1>2, <1>4
<1> QED
  BY <1>3, <1>5

\* A rewrite keeps the lines that are not ours and those a grant vouches for.
LEMMA TokensFileLines ==
  ASSUME NEW text \in Seq(Line), NEW ours \in SUBSET Users, NEW grants \in Grants
  PROVE  /\ TokensFile(text, ours, grants) \in Seq(Line)
         /\ LinesOf(TokensFile(text, ours, grants)) =
              {l \in LinesOf(text) : l.name \notin ours \/ Vouched(grants, l)}
<1> DEFINE S == {u \in ours :
                   /\ grants[u] # NoGrant
                   /\ [name |-> u, secret |-> grants[u].secret] \in LinesOf(text)}
           R == {l \in LinesOf(text) : l.name \notin ours}
           found == Those(Sorted, S)
           n == Len(found)
           own == [i \in 1..n |-> [name |-> found[i], secret |-> grants[found[i]].secret]]
           old == Those(text, R)
<1>1. Sorted \in Seq(Users) /\ LinesOf(Sorted) = Users
  BY SortedSeq
<1>2. LinesOf(text) \subseteq Line
  BY DEF LinesOf
<1>3. found \in Seq(Users) /\ LinesOf(found) = S /\ n \in Nat
  <2>1. found \in Seq(Users) /\ LinesOf(found) = LinesOf(Sorted) \cap S
    BY <1>1, ThoseOf
  <2>2. S \subseteq Users
    OBVIOUS
  <2> HIDE DEF found, S
  <2> QED
    BY <1>1, <2>1, <2>2
<1>4. old \in Seq(Line) /\ LinesOf(old) = R
  <2>1. old \in Seq(Line) /\ LinesOf(old) = LinesOf(text) \cap R
    BY ThoseOf
  <2> HIDE DEF old
  <2> QED
    BY <2>1
<1>5. TokensFile(text, ours, grants) = old \o own
  BY DEF TokensFile
<1> HIDE DEF found, old
<1>6. \A i \in 1..n : found[i] \in S
  BY <1>3 DEF LinesOf
<1>7. S \subseteq Users /\ \A u \in S : [name |-> u, secret |-> grants[u].secret] \in Line
  BY <1>2
<1> HIDE DEF S, n
<1>8. own \in Seq(Line) /\ Len(own) = n
  BY <1>3, <1>6, <1>7
<1>9. LinesOf(own) = {[name |-> u, secret |-> grants[u].secret] : u \in S}
  <2>1. LinesOf(own) = {[name |-> found[i], secret |-> grants[found[i]].secret] : i \in 1..n}
    BY <1>8 DEF LinesOf
  <2>2. S = {found[i] : i \in 1..n}
    BY <1>3 DEF LinesOf, n
  <2> QED
    BY <2>1, <2>2
<1> HIDE DEF own
<1>10. LinesOf(old \o own) = R \cup LinesOf(own) /\ old \o own \in Seq(Line)
  BY <1>4, <1>8, LinesConcat
<1>11. LinesOf(own) = {l \in LinesOf(text) : l.name \in ours /\ Vouched(grants, l)}
  <2>1. ASSUME NEW u \in S
        PROVE  LET l == [name |-> u, secret |-> grants[u].secret] IN
               l \in LinesOf(text) /\ l.name \in ours /\ Vouched(grants, l)
    BY DEF S, Vouched
  <2>2. ASSUME NEW l \in LinesOf(text), l.name \in ours, Vouched(grants, l)
        PROVE  l.name \in S /\ l = [name |-> l.name, secret |-> grants[l.name].secret]
    <3>1. l = [name |-> l.name, secret |-> l.secret]
      BY <1>2 DEF Line
    <3> QED
      BY <2>2, <3>1 DEF S, Vouched
  <2> QED
    BY <1>9, <2>1, <2>2
<1> QED
  BY <1>5, <1>10, <1>11

-----------------------------------------------------------------------------
(* Types *)

Kinds == {Nothing, "command", "click", "revoke", "rewrite"}

TaskRecord ==
  [pc : Pcs, kind : Kinds, user : Users \cup {Service}, line : Line,
   role : Roles \cup {Nothing}, text : Seq(Line), fd : Inodes \cup {0},
   grants : Grants \cup {<<>>}, ours : SUBSET Users]

ImportRecord ==
  [before : Seq(Line), known : SUBSET Users, todo : Seq(Line), unserved : BOOLEAN]

\* What a handler carries that it will use.
Carries(k) ==
  /\ k \in TaskRecord
  /\ k.pc \in {"query", "refresh", "grant", "append"} =>
       k.user \in Users /\ k.kind \in {"command", "click"}
  /\ k.pc \in {"query", "refresh", "grant"} => k.role \in Roles
  /\ k.pc \in {"grant", "append"} => k.line.name = k.user
  /\ k.pc \in {"write", "rename"} => k.fd # 0
  /\ k.pc \in {"read", "bind", "unbind"} => k.grants \in Grants
  /\ k.pc \in {"create", "write", "rename"} /\ k.kind = "rewrite" => k.grants \in Grants

TypeInv ==
  /\ telemetry \in Grants /\ managed \subseteq Users
  /\ \A u \in Users : Live(u) => u \in managed
  /\ inode \in [Inodes -> Seq(Line)]
  /\ target \in Inodes /\ tmp \in Inodes \cup {0} /\ target # tmp
  /\ perses \in [Users -> Roles \cup {Nothing}]
  /\ task \in [Tasks -> TaskRecord]
  /\ \A t \in Tasks : Carries(task[t])
  /\ bot \in {"off", "importing", "checking", "on"}
  /\ import \in ImportRecord
  /\ issued \subseteq Line /\ kept \subseteq Line
  /\ clean \in BOOLEAN /\ shared \in BOOLEAN
  /\ minted \in 0..MaxTokens

\* A record that moves on, or one that is given up.
LEMMA GoesTypes ==
  ASSUME task \in [Tasks -> TaskRecord], NEW t \in Tasks, NEW r, NEW pc,
         Goes(t, r, pc)
  PROVE  /\ task'[t] = [r EXCEPT !.pc = pc]
         /\ \A s \in Tasks \ {t} : task'[s] = task[s]
         /\ r \in TaskRecord /\ pc \in Pcs => task' \in [Tasks -> TaskRecord]
<1>1. task' = [task EXCEPT ![t] = [r EXCEPT !.pc = pc]]
  BY DEF Goes
<1>2. r \in TaskRecord /\ pc \in Pcs => [r EXCEPT !.pc = pc] \in TaskRecord
  BY DEF TaskRecord
<1> QED
  BY <1>1, <1>2

\* A task that does nothing has the type of one, and carries nothing.
LEMMA IdleRecord == Idle \in TaskRecord /\ Carries(Idle)
<1>1. /\ ServiceLine \in Line /\ <<>> \in Seq(Line) /\ Nothing \in Kinds
      /\ 0 \in Inodes \cup {0} /\ {} \in SUBSET Users
      /\ "idle" \in Pcs
  BY ProvBoundsAssumption DEF ServiceLine, Line, Secrets, Kinds, Pcs
<1>2. Idle \in TaskRecord
  BY <1>1 DEF Idle, TaskRecord
<1> QED
  BY <1>2 DEF Carries, Idle

\* A task that ends leaves the others alone.
LEMMA EndsTypes ==
  ASSUME task \in [Tasks -> TaskRecord], NEW t \in Tasks, Ends(t)
  PROVE  /\ task' \in [Tasks -> TaskRecord] /\ task'[t] = Idle
         /\ \A s \in Tasks \ {t} : task'[s] = task[s]
BY IdleRecord DEF Ends

\* There is always an inode nobody holds.
LEMMA FreeInode ==
  ASSUME TypeInv, NEW t \in Tasks
  PROVE  Free(t) \in Inodes /\ Free(t) # target /\ Free(t) # tmp /\ Free(t) \notin Held(t)
<1> DEFINE H == Held(t)
           U == H \cup {target} \cup {tmp}
           c == Cardinality(Tasks)
<1>1. IsFiniteSet(Tasks \ {t}) /\ Cardinality(Tasks \ {t}) = c - 1 /\ c \in Nat
  BY FiniteAssumption, FS_RemoveElement, FS_CardinalityType
<1>2. IsFiniteSet(H) /\ Cardinality(H) <= c - 1 /\ Cardinality(H) \in Nat
  <2>1. IsFiniteSet(H) /\ Cardinality(H) <= Cardinality(Tasks \ {t})
    <3> DEFINE f == [s \in Tasks \ {t} |-> task[s].fd]
    <3>1. f \in Surjection(Tasks \ {t}, H)
      BY DEF Surjection, Held
    <3> QED
      BY <1>1, <3>1, FS_Surjection DEF ExistsSurjection
  <2> QED
    BY <1>1, <2>1, FS_CardinalityType
<1> HIDE DEF H, c
<1>3. IsFiniteSet(U) /\ Cardinality(U) <= c + 1
  <2>1. /\ IsFiniteSet(H \cup {target})
        /\ Cardinality(H \cup {target}) \in {Cardinality(H), Cardinality(H) + 1}
    BY <1>2, FS_AddElement
  <2> DEFINE G == H \cup {target}
  <2> HIDE DEF G
  <2>2. /\ IsFiniteSet(G \cup {tmp})
        /\ Cardinality(G \cup {tmp}) \in {Cardinality(G), Cardinality(G) + 1}
    BY <2>1, FS_AddElement DEF G
  <2> QED
    BY <1>1, <1>2, <2>1, <2>2 DEF G
<1>4. Inodes = 1..c + 2 /\ IsFiniteSet(Inodes) /\ Cardinality(Inodes) = c + 2
  BY <1>1, FS_Interval DEF Inodes, c
<1>5. ~ (Inodes \subseteq U)
  BY <1>1, <1>3, <1>4, FS_Subset, FS_CardinalityType
<1> QED
  BY <1>5 DEF Free, H

\* The handlers' records after a step of one of them.
LEMMA Moves ==
  ASSUME TypeInv, NEW t \in Tasks, NEW r, NEW pc, Goes(t, r, pc),
         Carries([r EXCEPT !.pc = pc])
  PROVE  /\ task' \in [Tasks -> TaskRecord] /\ \A s \in Tasks : Carries(task'[s])
         /\ task'[t] = [r EXCEPT !.pc = pc]
         /\ \A s \in Tasks \ {t} : task'[s] = task[s]
<1>1. task' = [task EXCEPT ![t] = [r EXCEPT !.pc = pc]]
  BY DEF Goes
<1>2. task \in [Tasks -> TaskRecord] /\ \A s \in Tasks : Carries(task[s])
  BY DEF TypeInv
<1>3. [r EXCEPT !.pc = pc] \in TaskRecord
  BY DEF Carries
<1>4. task'[t] = [r EXCEPT !.pc = pc] /\ \A s \in Tasks \ {t} : task'[s] = task[s]
  BY <1>1, <1>2
<1>5. \A s \in Tasks : Carries(task'[s])
  BY <1>2, <1>4
<1> QED
  BY <1>1, <1>2, <1>3, <1>4, <1>5

\* A task that ends carries nothing on.
LEMMA Stops ==
  ASSUME TypeInv, NEW t \in Tasks, Ends(t)
  PROVE  /\ task' \in [Tasks -> TaskRecord] /\ \A s \in Tasks : Carries(task'[s])
         /\ task'[t] = Idle
         /\ \A s \in Tasks \ {t} : task'[s] = task[s]
<1>1. task \in [Tasks -> TaskRecord] /\ \A s \in Tasks : Carries(task[s])
  BY DEF TypeInv
<1>2. /\ task' \in [Tasks -> TaskRecord] /\ task'[t] = Idle
      /\ \A s \in Tasks \ {t} : task'[s] = task[s]
  BY <1>1, EndsTypes
<1> QED
  BY <1>1, <1>2, IdleRecord

\* A handler at work keeps this record, with what is given changed.
LEMMA Holds ==
  ASSUME TypeInv, NEW t \in Tasks
  PROVE  /\ task[t] \in TaskRecord /\ Carries(task[t])
         /\ task[t].line \in Line /\ task[t].text \in Seq(Line)
         /\ task[t].ours \in SUBSET Users
BY DEF TypeInv, TaskRecord

\* Who has a live grant has been managed.
LEMMA LiveIsGrant ==
  ASSUME TypeInv, NEW u \in Users, Live(u)
  PROVE  telemetry[u] \in Grant /\ u \in managed
BY DEF TypeInv, Live, Grants

\* A command that arrives.
LEMMA ArrivesTypes ==
  ASSUME TypeInv, NEW t \in Tasks, NEW u \in Users, NEW kind \in Kinds,
         NEW role \in Roles \cup {Nothing}, NEW pc \in {"query", "snapshot"},
         pc = "snapshot" \/ (role \in Roles /\ kind \in {"command", "click"}),
         Arrives(t, For(u, kind, role), pc)
  PROVE  /\ task' \in [Tasks -> TaskRecord] /\ \A s \in Tasks : Carries(task'[s])
         /\ task'[t] = [For(u, kind, role) EXCEPT !.pc = pc]
         /\ \A s \in Tasks \ {t} : task'[s] = task[s]
<1> DEFINE r == For(u, kind, role)
           k == [r EXCEPT !.pc = pc]
<1>1. Goes(t, r, pc)
  BY DEF Arrives
<1>2. k = [Idle EXCEPT !.user = u, !.kind = kind, !.role = role, !.pc = pc]
  BY DEF For, Idle
<1>3. k \in TaskRecord /\ k.pc = pc /\ k.user = u /\ k.role = role /\ k.kind = kind
  BY <1>2, IdleRecord DEF TaskRecord, Pcs, Idle
<1> HIDE DEF k, r
<1>4. Carries(k)
  BY <1>3 DEF Carries
<1> QED
  BY <1>1, <1>4, Moves DEF k, r

\* Every step leaves the handlers with what they will use.
LEMMA TaskTypes ==
  ASSUME TypeInv, [Next]_provVars
  PROVE  task' \in [Tasks -> TaskRecord] /\ \A s \in Tasks : Carries(task'[s])
<1> DEFINE Good == task' \in [Tasks -> TaskRecord] /\ \A s \in Tasks : Carries(task'[s])
<1>1. ASSUME NEW t \in Tasks, NEW u \in Users, Revoke(t, u) PROVE Good
  <2>1. Arrives(t, For(u, "revoke", Nothing), "snapshot")
    BY <1>1 DEF Revoke
  <2>2. "revoke" \in Kinds
    BY DEF Kinds
  <2> QED
    BY <2>1, <2>2, ArrivesTypes
<1>2. ASSUME NEW t \in Tasks, NEW u \in Users, NEW held \in Ranks,
             Command(t, u, held) \/ Click(t, u, held)
      PROVE  Good
  <2>1. PICK kind \in {"command", "click"} : Arrives(t, For(u, kind, RoleFor(held)), "query")
    BY <1>2 DEF Command, Click
  <2>2. kind \in Kinds /\ RoleFor(held) \in Roles
    BY DEF Kinds, RoleFor, Roles
  <2> QED
    BY <2>1, <2>2, ArrivesTypes
<1>3. ASSUME NEW t \in Tasks, Query(t) PROVE Good
  <2> DEFINE k == task[t]
             l == [name |-> k.user, secret |-> minted + 1]
  <2>1. /\ k.pc = "query" /\ k \in TaskRecord /\ Carries(k)
        /\ k.user \in Users /\ k.role \in Roles
    BY <1>3, Holds DEF Query, Carries
  <2> HIDE DEF k
  <2>2. CASE Goes(t, k, "refresh")
    <3>1. Carries([k EXCEPT !.pc = "refresh"])
      BY <2>1 DEF Carries, TaskRecord, Pcs
    <3> QED
      BY <2>2, <3>1, Moves
  <2>3. CASE minted < MaxTokens /\ Goes(t, [k EXCEPT !.line = l], "grant")
    <3>1. l \in Line /\ l.name = k.user
      BY <2>1, <2>3, ProvBoundsAssumption DEF TypeInv, Line, Secrets
    <3> HIDE DEF l
    <3>2. Carries([[k EXCEPT !.line = l] EXCEPT !.pc = "grant"])
      BY <2>1, <3>1 DEF Carries, TaskRecord, Pcs
    <3> QED
      BY <2>3, <3>2, Moves
  <2> QED
    BY <1>3, <2>2, <2>3 DEF Query, k
<1>4. ASSUME NEW t \in Tasks, Refresh(t) PROVE Good
  <2> DEFINE k == task[t]
  <2>1. k \in TaskRecord /\ Carries(k) /\ Goes(t, k, "snapshot")
    BY <1>4, Holds DEF Refresh
  <2> HIDE DEF k
  <2>2. Carries([k EXCEPT !.pc = "snapshot"])
    BY <2>1 DEF Carries, TaskRecord, Pcs
  <2> QED
    BY <2>1, <2>2, Moves
<1>5. ASSUME NEW t \in Tasks, Record(t) PROVE Good
  <2> DEFINE k == task[t]
  <2>1. k \in TaskRecord /\ Carries(k) /\ k.pc = "grant"
    BY <1>5, Holds DEF Record
  <2>2. CASE Goes(t, k, "append")
    <3> HIDE DEF k
    <3>1. Carries([k EXCEPT !.pc = "append"])
      BY <2>1 DEF Carries, TaskRecord, Pcs
    <3> QED
      BY <2>2, <3>1, Moves
  <2> QED
    BY <1>5, <2>2, Stops DEF Record
<1>6. ASSUME NEW t \in Tasks, AppendToken(t) PROVE Good
  <2> DEFINE k == task[t]
  <2>1. /\ k \in TaskRecord /\ Carries(k) /\ k.pc = "append" /\ k.line \in Line
    BY <1>6, Holds DEF AppendToken
  <2>a. PICK found \in {inode[target], <<>>} :
          Goes(t, [k EXCEPT !.text = found \o <<k.line>>], "create")
    BY <1>6 DEF AppendToken
  <2> DEFINE x == found \o <<k.line>>
  <2>2. x \in Seq(Line)
    <3>1. found \in Seq(Line)
      <4>1. inode[target] \in Seq(Line) /\ <<>> \in Seq(Line)
        BY DEF TypeInv
      <4> QED
        BY <4>1
    <3> HIDE DEF k
    <3> QED
      BY <2>1, <3>1
  <2>3. k.kind # "rewrite"
    BY <2>1 DEF Carries
  <2> HIDE DEF k, x
  <2>4. Carries([[k EXCEPT !.text = x] EXCEPT !.pc = "create"])
    BY <2>1, <2>2, <2>3 DEF Carries, TaskRecord, Pcs
  <2> QED
    BY <2>4, <2>a, Moves DEF x
<1>7. ASSUME NEW t \in Tasks, Snapshot(t) PROVE Good
  <2> DEFINE k == task[t]
             r == [k EXCEPT !.grants = telemetry, !.ours = managed, !.kind = "rewrite"]
  <2>1. k \in TaskRecord /\ Carries(k) /\ Goes(t, r, "read")
        /\ telemetry \in Grants /\ managed \in SUBSET Users
    BY <1>7, Holds DEF Snapshot, TypeInv
  <2> HIDE DEF k
  <2>2. Carries([r EXCEPT !.pc = "read"])
    BY <2>1 DEF Carries, TaskRecord, Pcs, Kinds
  <2> QED
    BY <2>1, <2>2, Moves
<1>8. ASSUME NEW t \in Tasks, Read(t) PROVE Good
  <2> DEFINE k == task[t]
  <2>1. /\ k \in TaskRecord /\ Carries(k) /\ k.pc = "read" /\ k.grants \in Grants
        /\ k.ours \in SUBSET Users /\ inode[target] \in Seq(Line)
    BY <1>8, Holds DEF Read, Carries, TypeInv
  <2>a. PICK found \in {inode[target], <<>>}, pc \in {"bind", "create"} :
          Goes(t, [k EXCEPT !.text = TokensFile(found, k.ours, k.grants)], pc)
    BY <1>8 DEF Read
  <2> DEFINE x == TokensFile(found, k.ours, k.grants)
  <2>2. Goes(t, [k EXCEPT !.text = x], pc) /\ found \in Seq(Line)
    <3>1. <<>> \in Seq(Line)
      OBVIOUS
    <3> QED
      BY <2>1, <2>a, <3>1
  <2> HIDE DEF k
  <2>3. x \in Seq(Line)
    BY <2>1, <2>2, TokensFileLines
  <2> HIDE DEF x
  <2>4. Carries([[k EXCEPT !.text = x] EXCEPT !.pc = pc])
    BY <2>1, <2>3 DEF Carries, TaskRecord, Pcs
  <2> QED
    BY <2>2, <2>4, Moves
<1>9. ASSUME NEW t \in Tasks, Done(t), task[t].pc \in {"create", "rename"} PROVE Good
  <2> DEFINE k == task[t]
             c == [k EXCEPT !.fd = 0, !.text = <<>>]
  <2>1. k \in TaskRecord /\ Carries(k) /\ k.pc \in {"create", "rename"}
    BY <1>9, Holds
  <2>2. \/ k.kind = "rewrite" /\ Goes(t, c, "bind")
        \/ Goes(t, c, "snapshot")
        \/ Ends(t)
    BY <1>9 DEF Done
  <2> HIDE DEF k
  <2>3. c \in TaskRecord /\ c.grants = k.grants /\ c.kind = k.kind
    <3>1. <<>> \in Seq(Line)
      OBVIOUS
    <3> QED
      BY <2>1, <3>1 DEF TaskRecord
  <2>4. k.kind = "rewrite" => k.grants \in Grants
    BY <2>1 DEF Carries
  <2> HIDE DEF c
  <2>5. CASE k.kind = "rewrite" /\ Goes(t, c, "bind")
    <3>1. Carries([c EXCEPT !.pc = "bind"])
      BY <2>3, <2>4, <2>5 DEF Carries, TaskRecord, Pcs
    <3> QED
      BY <2>5, <3>1, Moves
  <2>6. CASE Goes(t, c, "snapshot")
    <3>1. Carries([c EXCEPT !.pc = "snapshot"])
      BY <2>3 DEF Carries, TaskRecord, Pcs
    <3> QED
      BY <2>6, <3>1, Moves
  <2> QED
    BY <2>2, <2>5, <2>6, Stops DEF c
<1>10. ASSUME NEW t \in Tasks, Create(t) PROVE Good
  <2> DEFINE k == task[t]
             f == IF tmp = 0 THEN Free(t) ELSE tmp
  <2>1. k \in TaskRecord /\ Carries(k) /\ k.pc = "create"
    BY <1>10, Holds DEF Create
  <2>2. f \in Inodes /\ f # 0
    BY FreeInode DEF TypeInv, Inodes
  <2> HIDE DEF f
  <2>3. CASE Goes(t, [k EXCEPT !.fd = f], "write")
    <3> HIDE DEF k
    <3>1. Carries([[k EXCEPT !.fd = f] EXCEPT !.pc = "write"])
      BY <2>1, <2>2 DEF Carries, TaskRecord, Pcs
    <3> QED
      BY <2>3, <3>1, Moves
  <2> QED
    BY <1>9, <1>10, <2>1, <2>3 DEF Create, f
<1>11. ASSUME NEW t \in Tasks, Write(t) PROVE Good
  <2> DEFINE k == task[t]
  <2>1. k \in TaskRecord /\ Carries(k) /\ k.pc = "write" /\ Goes(t, k, "rename")
    BY <1>11, Holds DEF Write
  <2> HIDE DEF k
  <2>2. Carries([k EXCEPT !.pc = "rename"])
    BY <2>1 DEF Carries, TaskRecord, Pcs
  <2> QED
    BY <2>1, <2>2, Moves
<1>12. ASSUME NEW t \in Tasks, Rename(t) PROVE Good
  BY <1>9, <1>12, Stops DEF Rename
<1>13. ASSUME NEW t \in Tasks, Bind(t) PROVE Good
  <2> DEFINE k == task[t]
  <2>1. k \in TaskRecord /\ Carries(k) /\ k.pc = "bind" /\ Goes(t, k, "unbind")
    BY <1>13, Holds DEF Bind
  <2> HIDE DEF k
  <2>2. Carries([k EXCEPT !.pc = "unbind"])
    BY <2>1 DEF Carries, TaskRecord, Pcs
  <2> QED
    BY <2>1, <2>2, Moves
<1>14. ASSUME NEW t \in Tasks, Unbind(t) PROVE Good
  BY <1>14, Stops DEF Unbind
<1>15. ASSUME NEW t \in Tasks, Fails(t) PROVE Good
  <2> DEFINE k == task[t]
  <2>1. k \in TaskRecord /\ Carries(k)
    BY Holds
  <2>2. CASE Goes(t, k, "snapshot")
    <3> HIDE DEF k
    <3>1. Carries([k EXCEPT !.pc = "snapshot"])
      BY <2>1 DEF Carries, TaskRecord, Pcs
    <3> QED
      BY <2>2, <3>1, Moves
  <2> QED
    BY <1>15, <2>2, Stops DEF Fails
<1>16. ASSUME NEW t \in Tasks, Boot(t) \/ ImportRewrites(t) PROVE Good
  <2> DEFINE r == [Idle EXCEPT !.kind = "rewrite"]
  <2>1. Goes(t, r, "snapshot")
    BY <1>16 DEF Boot, ImportRewrites, Rewrites
  <2>2. Carries([r EXCEPT !.pc = "snapshot"])
    BY IdleRecord DEF Carries, TaskRecord, Pcs, Kinds, Idle
  <2> QED
    BY <2>1, <2>2, Moves
<1>17. CASE Stop
  BY <1>17, IdleRecord DEF Stop
<1>18. CASE StartImport \/ ImportLine \/ ImportEnds \/ UNCHANGED provVars
  BY <1>18 DEF StartImport, ImportLine, ImportEnds, provVars, TypeInv
<1> QED
  BY <1>1, <1>2, <1>3, <1>4, <1>5, <1>6, <1>7, <1>8, <1>10, <1>11, <1>12, <1>13,
     <1>14, <1>15, <1>16, <1>17, <1>18 DEF Next, TaskStep

\* What the ledger makes of an issued line.
LEMMA IssueTypes ==
  ASSUME TypeInv, NEW l \in Line, l.name \in Users, NEW role \in Roles,
         IssueToken(l, role)
  PROVE  /\ ~ Live(l.name)
         /\ telemetry' \in Grants /\ managed' \subseteq Users /\ issued' \subseteq Line
         /\ telemetry'[l.name] = [secret |-> l.secret, role |-> role]
         /\ telemetry'[l.name] # NoGrant
         /\ \A u \in Users \ {l.name} : telemetry'[u] = telemetry[u]
         /\ managed' = managed \cup {l.name} /\ issued' = issued \cup {l}
<1>1. [secret |-> l.secret, role |-> role] \in Grant
  BY DEF Line, Grant
<1>2. [secret |-> l.secret, role |-> role] # NoGrant
  BY DEF NoGrant, Roles, Nothing
<1> QED
  BY <1>1, <1>2 DEF IssueToken, TypeInv, Grants

\* The ledger after every step.
LEMMA LedgerTypes ==
  ASSUME TypeInv, [Next]_provVars
  PROVE  /\ telemetry' \in Grants /\ managed' \subseteq Users
         /\ issued' \subseteq Line
         /\ \A u \in Users : Live(u)' => u \in managed'
         /\ issued \subseteq issued' /\ managed \subseteq managed'
<1> DEFINE Good == /\ telemetry' \in Grants /\ managed' \subseteq Users
                   /\ issued' \subseteq Line
                   /\ \A u \in Users : Live(u)' => u \in managed'
                   /\ issued \subseteq issued' /\ managed \subseteq managed'
<1>1. CASE UNCHANGED ledger
  BY <1>1 DEF TypeInv, ledger, Live
<1>2. ASSUME NEW u \in Users, RevokeToken(u), managed' = managed, issued' = issued
      PROVE  Good
  BY <1>2 DEF RevokeToken, TypeInv, Grants, Live
<1>3. ASSUME NEW l \in Line, l.name \in Users, NEW role \in Roles, IssueToken(l, role)
      PROVE  Good
  <2>1. ASSUME NEW u \in Users, Live(u)' PROVE u \in managed'
    <3>1. CASE u = l.name
      BY <1>3, <3>1, IssueTypes
    <3>2. CASE u # l.name
      BY <1>3, <2>1, <3>2, IssueTypes DEF Live, TypeInv
    <3> QED
      BY <3>1, <3>2
  <2> QED
    BY <1>3, <2>1, IssueTypes
<1>4. ASSUME NEW t \in Tasks, Refresh(t) PROVE Good
  <2> DEFINE u == task[t].user
             role == task[t].role
  <2>1. u \in Users /\ role \in Roles /\ managed' = managed /\ issued' = issued
        /\ RefreshAccess(u, role)
    BY <1>4, Holds DEF Refresh, Carries
  <2> HIDE DEF u, role
  <2>2. CASE Live(u)
    <3>1. telemetry[u] \in Grant
      BY <2>1, <2>2, LiveIsGrant
    <3>2. telemetry' = [telemetry EXCEPT ![u].role = role]
      BY <2>1, <2>2 DEF RefreshAccess
    <3>3. [telemetry[u] EXCEPT !.role = role] \in Grant
      BY <2>1, <3>1 DEF Grant
    <3>4. telemetry' \in Grants /\ \A v \in Users \ {u} : telemetry'[v] = telemetry[v]
      BY <2>1, <3>2, <3>3 DEF TypeInv, Grants
    <3> QED
      BY <2>1, <2>2, <3>4 DEF TypeInv, Live
  <2>3. CASE ~ Live(u)
    BY <2>1, <2>3 DEF RefreshAccess, TypeInv, Live
  <2> QED
    BY <2>2, <2>3
<1>5. ASSUME NEW t \in Tasks, Record(t) PROVE Good
  <2>1. /\ task[t].line \in Line /\ task[t].line.name \in Users /\ task[t].role \in Roles
    BY <1>5, Holds DEF Record, Carries
  <2> QED
    BY <1>1, <1>3, <1>5, <2>1 DEF Record
<1>6. CASE ImportLine
  <2> DEFINE l == Head(import.todo)
  <2>1. l \in Line
    BY <1>6 DEF ImportLine, TypeInv, ImportRecord
  <2>2. \/ UNCHANGED ledger
        \/ /\ l.name \in Users /\ perses[l.name] # Nothing
           /\ \E role \in {perses[l.name], "viewer"} : IssueToken(l, role)
    BY <1>6 DEF ImportLine, Imported
  <2> HIDE DEF l
  <2>3. ASSUME l.name \in Users, perses[l.name] # Nothing,
               NEW role \in {perses[l.name], "viewer"}, IssueToken(l, role)
        PROVE  Good
    <3>1. role \in Roles
      BY <2>3 DEF TypeInv, Roles
    <3> QED
      BY <1>3, <2>1, <2>3, <3>1
  <2> QED
    BY <1>1, <2>2, <2>3
<1>7. ASSUME NEW t \in Tasks, NEW u \in Users, Revoke(t, u) PROVE Good
  BY <1>2, <1>7 DEF Revoke
<1>8. CASE \E t \in Tasks : Query(t) \/ AppendToken(t) \/ Snapshot(t) \/ Read(t)
             \/ Create(t) \/ Write(t) \/ Rename(t) \/ Bind(t) \/ Unbind(t)
             \/ Fails(t) \/ Boot(t) \/ ImportRewrites(t)
  BY <1>1, <1>8 DEF Query, AppendToken, Snapshot, Read, Create, Write, Rename, Bind,
                    Unbind, Fails, Boot, ImportRewrites
<1>9. CASE \E t \in Tasks, u \in Users, held \in Ranks : Command(t, u, held) \/ Click(t, u, held)
  BY <1>1, <1>9 DEF Command, Click
<1>10. CASE Stop \/ StartImport \/ ImportEnds \/ UNCHANGED provVars
  BY <1>1, <1>10 DEF Stop, StartImport, ImportEnds, provVars
<1> QED
  BY <1>4, <1>5, <1>6, <1>7, <1>8, <1>9, <1>10 DEF Next, TaskStep

\* What the end of a write does with kept.
LEMMA DoneKeeps ==
  ASSUME TypeInv, NEW t \in Tasks, Done(t)
  PROVE  kept' \subseteq Line /\ kept \subseteq kept'
BY Holds DEF Done, TypeInv

\* A piece of a line is a line no ledger records.
LEMMA PieceOf ==
  ASSUME NEW l \in Line, NEW p \in Pieces(l)
  PROVE  p \in Line /\ IsPiece(p)
<1>1. CASE IsPiece(l)
  BY <1>1 DEF Pieces
<1>2. CASE ~ IsPiece(l)
  <2>1. MaxTokens \in Nat /\ l.secret \in 0..2 * MaxTokens + 1 /\ ~ (l.secret > MaxTokens)
    BY <1>2, ProvBoundsAssumption DEF Line, Secrets, IsPiece
  <2>2. /\ p.name \in {l.name, Nothing} /\ p.secret = l.secret + MaxTokens + 1
        /\ p = [name |-> p.name, secret |-> p.secret]
    BY <1>2 DEF Pieces
  <2>3. p.secret \in Secrets /\ p.secret > MaxTokens
    BY <2>1, <2>2 DEF Secrets
  <2>4. p.name \in Users \cup {Service, Nothing}
    BY <2>2 DEF Line
  <2> QED
    BY <2>2, <2>3, <2>4 DEF Line, IsPiece
<1> QED
  BY <1>1, <1>2

\* A text written over an old one: its own lines, some of the old ones, and at
\* most the piece of one; over an empty file, itself.
LEMMA OverlaidLines ==
  ASSUME NEW text \in Seq(Line), NEW old \in Seq(Line), NEW x \in Overlaid(text, old)
  PROVE  /\ x \in Seq(Line)
         /\ \A l \in LinesOf(x) : l \in LinesOf(text) \cup LinesOf(old) \/ IsPiece(l)
         /\ old = <<>> => x = text
<1> DEFINE K == {i \in 1..Len(old) : EndsAt(old)[i] <= EndsAt(text)[Len(text)]}
           k == Cardinality(K)
           rest == SubSeq(old, k + 1, Len(old))
<1>1. k \in Nat
  <2>1. IsFiniteSet(1..Len(old)) /\ K \subseteq 1..Len(old)
    BY FS_Interval
  <2> HIDE DEF K
  <2> QED
    BY <2>1, FS_Subset, FS_CardinalityType
<1>2. \/ x = text \o rest
      \/ rest # <<>> /\ \E p \in Pieces(Head(rest)) : x = (text \o <<p>>) \o Tail(rest)
  BY DEF Overlaid
<1> HIDE DEF k
<1>3. rest \in Seq(Line) /\ LinesOf(rest) \subseteq LinesOf(old)
  BY <1>1, LinesSubSeq
<1>4. old = <<>> => rest = <<>>
  <2>1. LinesOf(<<>>) = {}
    BY DEF LinesOf
  <2> HIDE DEF rest
  <2> QED
    BY <1>3, <2>1, NoLines
<1> HIDE DEF rest
<1>5. CASE x = text \o rest
  <2>1. x \in Seq(Line) /\ LinesOf(x) = LinesOf(text) \cup LinesOf(rest)
    BY <1>3, <1>5, LinesConcat
  <2>2. rest = <<>> => x = text
    BY <1>5
  <2> QED
    BY <1>3, <1>4, <2>1, <2>2
<1>6. ASSUME NEW p \in Pieces(Head(rest)), rest # <<>>, x = (text \o <<p>>) \o Tail(rest)
      PROVE  /\ x \in Seq(Line)
             /\ \A l \in LinesOf(x) : l \in LinesOf(text) \cup LinesOf(old) \/ IsPiece(l)
  <2>1. /\ LinesOf(rest) = {Head(rest)} \cup LinesOf(Tail(rest))
        /\ Tail(rest) \in Seq(Line) /\ Head(rest) \in Line
    BY <1>3, <1>6, HeadAndTail
  <2>2. p \in Line /\ IsPiece(p)
    BY <2>1, PieceOf
  <2> DEFINE y == text \o <<p>>
             z == Tail(rest)
  <2>3. y = Append(text, p)
    BY <2>2
  <2>4. y \in Seq(Line) /\ LinesOf(y) = LinesOf(text) \cup {p}
    <3> HIDE DEF y
    <3> QED
      BY <2>2, <2>3, LinesAppend
  <2>b. z \in Seq(Line)
    BY <2>1
  <2> HIDE DEF y, z
  <2>5. y \o z \in Seq(Line) /\ LinesOf(y \o z) = LinesOf(y) \cup LinesOf(z)
    BY <2>4, <2>b, LinesConcat
  <2>6. x = y \o z /\ LinesOf(z) \subseteq LinesOf(old)
    BY <1>3, <1>6, <2>1 DEF y, z
  <2> QED
    BY <2>2, <2>4, <2>5, <2>6
<1> QED
  BY <1>2, <1>4, <1>5, <1>6

\* What a writer leaves in the file it holds.
LEMMA WriteLines ==
  ASSUME TypeInv, NEW t \in Tasks, Write(t)
  PROVE  LET f == task[t].fd IN
         /\ f \in Inodes /\ inode' \in [Inodes -> Seq(Line)]
         /\ \A i \in Inodes \ {f} : inode'[i] = inode[i]
         /\ \A l \in LinesOf(inode'[f]) :
              l \in LinesOf(task[t].text) \cup LinesOf(inode[f]) \/ IsPiece(l)
         /\ inode[f] = <<>> => inode'[f] = task[t].text
<1> DEFINE f == task[t].fd
           x == task[t].text
<1>1. /\ f \in Inodes /\ x \in Seq(Line) /\ inode \in [Inodes -> Seq(Line)]
      /\ inode[f] \in Seq(Line)
  <2>1. task[t] \in TaskRecord /\ f # 0
    BY Holds DEF Write, Carries
  <2> QED
    BY <2>1, Holds DEF TypeInv, TaskRecord
<1>2. PICK y \in Overlaid(x, inode[f]) : inode' = [inode EXCEPT ![f] = y]
  BY DEF Write
<1> HIDE DEF f, x
<1>3. /\ y \in Seq(Line)
      /\ \A l \in LinesOf(y) : l \in LinesOf(x) \cup LinesOf(inode[f]) \/ IsPiece(l)
      /\ inode[f] = <<>> => y = x
  BY <1>1, <1>2, OverlaidLines
<1>4. /\ inode' \in [Inodes -> Seq(Line)] /\ inode'[f] = y
      /\ \A i \in Inodes \ {f} : inode'[i] = inode[i]
  BY <1>1, <1>2, <1>3
<1> QED
  BY <1>1, <1>3, <1>4 DEF f, x

\* The files after every step.
LEMMA FileTypes ==
  ASSUME TypeInv, [Next]_provVars
  PROVE  /\ inode' \in [Inodes -> Seq(Line)]
         /\ target' \in Inodes /\ tmp' \in Inodes \cup {0} /\ target' # tmp'
         /\ perses' \in [Users -> Roles \cup {Nothing}]
         /\ kept' \subseteq Line
<1> DEFINE P == [Users -> Roles \cup {Nothing}]
           Good == /\ inode' \in [Inodes -> Seq(Line)]
                   /\ target' \in Inodes /\ tmp' \in Inodes \cup {0} /\ target' # tmp'
                   /\ perses' \in P
                   /\ kept' \subseteq Line
<1>1. /\ inode \in [Inodes -> Seq(Line)]
      /\ target \in Inodes /\ tmp \in Inodes \cup {0} /\ target # tmp
      /\ perses \in P /\ kept \subseteq Line /\ 0 \notin Inodes
  BY DEF TypeInv, Inodes
<1>2. ASSUME NEW t \in Tasks, Create(t) PROVE Good
  <2>1. kept' \subseteq Line
    BY <1>1, <1>2, DoneKeeps DEF Create
  <2>2. CASE UNCHANGED files
    BY <1>1, <2>1, <2>2 DEF files
  <2> DEFINE f == IF tmp = 0 THEN Free(t) ELSE tmp
  <2>3. f \in Inodes /\ f # target
    BY <1>1, FreeInode
  <2> HIDE DEF f
  <2>4. CASE inode' = [inode EXCEPT ![f] = <<>>] /\ tmp' = f /\ UNCHANGED <<target, perses>>
    <3>1. <<>> \in Seq(Line)
      OBVIOUS
    <3> QED
      BY <1>1, <2>1, <2>3, <2>4, <3>1
  <2> QED
    BY <1>2, <2>2, <2>4 DEF Create, f
<1>3. ASSUME NEW t \in Tasks, Write(t) PROVE Good
  BY <1>1, <1>3, WriteLines DEF Write
<1>4. ASSUME NEW t \in Tasks, Rename(t) PROVE Good
  <2>1. kept' \subseteq Line /\ perses' = perses
    BY <1>1, <1>4, DoneKeeps DEF Rename
  <2>2. CASE /\ tmp # 0 /\ target' = tmp /\ tmp' = 0
             /\ inode' = [i \in Inodes |->
                            IF i = tmp \/ i \in Held(t) THEN inode[i] ELSE <<>>]
    <3>1. <<>> \in Seq(Line)
      OBVIOUS
    <3> QED
      BY <1>1, <2>1, <2>2, <3>1
  <2> QED
    BY <1>1, <1>4, <2>1, <2>2 DEF Rename
<1>5. ASSUME NEW t \in Tasks PROVE Bound(t) \in P \/ ~ (task[t].grants \in Grants)
  BY <1>1 DEF Bound, Grants, Grant, NoGrant
<1>6. ASSUME NEW t \in Tasks PROVE Unbound(t) \in P
  BY <1>1 DEF Unbound
<1>7. ASSUME NEW t \in Tasks, Bind(t) PROVE Good
  <2>1. task[t].grants \in Grants
    BY <1>7, Holds DEF Bind, Carries
  <2> QED
    BY <1>1, <1>5, <1>7, <2>1 DEF Bind
<1>8. ASSUME NEW t \in Tasks, Unbind(t) PROVE Good
  BY <1>1, <1>6, <1>8 DEF Unbind
<1>9. CASE Stop \/ \E t \in Tasks : Fails(t)
  BY <1>1, <1>9 DEF Fails, Stop, Underway
<1>10. ASSUME NEW t \in Tasks, Boot(t) PROVE Good
  <2>1. TokensTxt \subseteq Line
    BY <1>1 DEF TokensTxt, LinesOf
  <2> QED
    BY <1>1, <1>10, <2>1 DEF Boot, files
<1>11. CASE UNCHANGED <<files, kept>>
  BY <1>1, <1>11 DEF files
<1>12. CASE \E t \in Tasks : Query(t) \/ Refresh(t) \/ Record(t) \/ AppendToken(t)
              \/ Snapshot(t) \/ Read(t) \/ ImportRewrites(t)
  BY <1>11, <1>12 DEF Query, Refresh, Record, AppendToken, Snapshot, Read, ImportRewrites
<1>13. CASE \E t \in Tasks, u \in Users : Revoke(t, u)
              \/ \E held \in Ranks : Command(t, u, held) \/ Click(t, u, held)
  BY <1>11, <1>13 DEF Revoke, Command, Click, Arrives
<1>14. CASE StartImport \/ ImportLine \/ ImportEnds \/ UNCHANGED provVars
  BY <1>11, <1>14 DEF StartImport, ImportLine, ImportEnds, provVars
<1> QED
  BY <1>2, <1>3, <1>4, <1>7, <1>8, <1>9, <1>10, <1>12, <1>13, <1>14 DEF Next, TaskStep

\* The boot, the import and the counter after every step.
LEMMA OtherTypes ==
  ASSUME TypeInv, [Next]_provVars
  PROVE  /\ bot' \in {"off", "importing", "checking", "on"}
         /\ import' \in ImportRecord
         /\ clean' \in BOOLEAN /\ shared' \in BOOLEAN
         /\ minted' \in 0..MaxTokens
<1> DEFINE Good == /\ bot' \in {"off", "importing", "checking", "on"}
                   /\ import' \in ImportRecord
                   /\ clean' \in BOOLEAN /\ shared' \in BOOLEAN
                   /\ minted' \in 0..MaxTokens
<1>1. /\ bot \in {"off", "importing", "checking", "on"} /\ import \in ImportRecord
      /\ clean \in BOOLEAN /\ shared \in BOOLEAN
      /\ minted \in 0..MaxTokens /\ MaxTokens \in Nat
  BY ProvBoundsAssumption DEF TypeInv
<1>2. CASE StartImport
  <2> DEFINE text == inode[target]
  <2>1. managed \in SUBSET Users /\ text \in Seq(Line)
    BY DEF TypeInv
  <2>2. import' = [import EXCEPT !.before = text, !.known = managed, !.todo = text]
        /\ bot' = "importing" /\ clean' = TRUE /\ shared' = shared /\ minted' = minted
    BY <1>2 DEF StartImport, files
  <2> HIDE DEF text
  <2>3. import' \in ImportRecord
    BY <1>1, <2>1, <2>2 DEF ImportRecord
  <2> QED
    BY <1>1, <2>2, <2>3
<1>3. CASE ImportLine
  <2>1. import.todo # <<>> /\ import' = [import EXCEPT !.todo = Tail(@)]
        /\ bot' \in {bot, "off"} /\ UNCHANGED <<clean, shared, minted>>
    BY <1>3 DEF ImportLine, counts, files
  <2>2. import.todo \in Seq(Line) /\ Tail(import.todo) \in Seq(Line)
    BY <1>1, <2>1 DEF ImportRecord
  <2>3. import' \in ImportRecord
    BY <1>1, <2>1, <2>2 DEF ImportRecord
  <2> QED
    BY <1>1, <2>1, <2>3
<1>4. CASE \E t \in Tasks, u \in Users : Revoke(t, u)
              \/ \E held \in Ranks : Command(t, u, held) \/ Click(t, u, held)
  <2>1. UNCHANGED <<bot, import, shared, minted>> /\ clean' = (clean /\ Quiet)
    BY <1>4 DEF Revoke, Command, Click, Arrives, files
  <2>2. clean' \in BOOLEAN
    BY <2>1
  <2> QED
    BY <1>1, <2>1, <2>2
<1>5. ASSUME NEW t \in Tasks, Query(t) PROVE Good
  <2>1. UNCHANGED <<bot, import, clean, shared>>
        /\ (minted' = minted \/ (minted < MaxTokens /\ minted' = minted + 1))
    BY <1>5 DEF Query, files
  <2>2. minted' \in 0..MaxTokens
    BY <1>1, <2>1
  <2> QED
    BY <1>1, <2>1, <2>2
<1>6. CASE \E t \in Tasks : Refresh(t) \/ Record(t) \/ AppendToken(t)
              \/ Snapshot(t) \/ Read(t) \/ Write(t) \/ Bind(t) \/ Unbind(t)
  BY <1>1, <1>6 DEF Refresh, Record, AppendToken, Snapshot, Read, Reads, Write, Bind,
                    Unbind, counts, files
<1>7. ASSUME NEW t \in Tasks, Create(t) PROVE Good
  <2>1. /\ UNCHANGED <<bot, import, minted>>
        /\ clean' = clean \/ clean' = FALSE
        /\ shared' = shared \/ \E i \in Inodes \cup {0} : shared' = (shared \/ i \in Held(t))
    BY <1>7, FreeInode DEF Create, files, TypeInv
  <2>2. shared' \in BOOLEAN
    BY <1>1, <2>1
  <2> QED
    BY <1>1, <2>1, <2>2
<1>8. CASE \E t \in Tasks : Rename(t) \/ Fails(t)
  BY <1>1, <1>8 DEF Rename, Fails, counts
<1>9. ASSUME NEW t \in Tasks, Boot(t) PROVE Good
  <2>1. /\ import' = [import EXCEPT !.unserved = FALSE] /\ bot' = "on" /\ clean' = TRUE
        /\ UNCHANGED <<shared, minted>>
    BY <1>9 DEF Boot, files, counts
  <2>2. import' \in ImportRecord
    BY <1>1, <2>1 DEF ImportRecord
  <2> QED
    BY <1>1, <2>1, <2>2
<1>10. CASE Stop \/ ImportEnds \/ UNCHANGED provVars \/ \E t \in Tasks : ImportRewrites(t)
  BY <1>1, <1>10 DEF Stop, ImportEnds, ImportRewrites, provVars, counts, files
<1> QED
  BY <1>2, <1>3, <1>4, <1>5, <1>6, <1>7, <1>8, <1>9, <1>10 DEF Next, TaskStep

\* The types hold whatever happens.
LEMMA TypeNext == TypeInv /\ [Next]_provVars => TypeInv'
<1> SUFFICES ASSUME TypeInv, [Next]_provVars PROVE TypeInv'
  OBVIOUS
<1> QED
  BY TaskTypes, LedgerTypes, FileTypes, OtherTypes DEF TypeInv

\* The file dpsbot left: every line has a secret from before.
LEMMA InitText ==
  ASSUME Init
  PROVE  /\ inode \in [Inodes -> Seq(Line)]
         /\ \A i \in Inodes : \A l \in LinesOf(inode[i]) : l.secret = 0
<1> DEFINE Old(L) == LET S == Those(Sorted, L) IN
             [j \in 1..Len(S) |-> [name |-> S[j], secret |-> 0]]
           Text(L) == <<ServiceLine>> \o Old(L)
           Z == {l \in Line : l.secret = 0}
<1>1. PICK L \in SUBSET Users :
        inode = [i \in Inodes |-> IF i # 1 THEN <<>> ELSE Text(L)]
  BY DEF Init
<1>2. Old(L) \in Seq(Z)
  <2> DEFINE S == Those(Sorted, L)
             n == Len(S)
             old == [j \in 1..n |-> [name |-> S[j], secret |-> 0]]
  <2>1. S \in Seq(Users) /\ n \in Nat
    BY SortedSeq, ThoseOf
  <2>2. \A j \in 1..n : S[j] \in Users
    BY <2>1
  <2> HIDE DEF S, n
  <2>3. \A j \in 1..n : [name |-> S[j], secret |-> 0] \in Z
    BY <2>2, ProvBoundsAssumption DEF Line, Secrets
  <2> HIDE DEF Z
  <2>4. old \in Seq(Z)
    BY <2>1, <2>3
  <2> QED
    BY <2>4 DEF S, n
<1>3. ServiceLine \in Z
  BY IdleRecord, ProvBoundsAssumption DEF ServiceLine, Line, Secrets
<1> HIDE DEF Old, Z
<1>4. <<ServiceLine>> \in Seq(Z) /\ <<>> \in Seq(Z)
  BY <1>3
<1>5. Text(L) \in Seq(Z)
  BY <1>2, <1>4, ConcatProperties
<1> HIDE DEF Text
<1>6. \A i \in Inodes : inode[i] \in Seq(Z)
  BY <1>1, <1>4, <1>5
<1>7. \A i \in Inodes : inode[i] \in Seq(Line)
  <2>1. Z \subseteq Line
    BY DEF Z
  <2>2. \A s \in Seq(Z) : s \in Seq(Line)
    BY <2>1
  <2> QED
    BY <1>6, <2>2
<1>8. \A i \in Inodes : \A l \in LinesOf(inode[i]) : l \in Z
  BY <1>6 DEF LinesOf
<1> QED
  BY <1>1, <1>7, <1>8 DEF Z

\* The types of what a boot may find.
LEMMA TypeInit == Init => TypeInv
<1> SUFFICES ASSUME Init PROVE TypeInv
  OBVIOUS
<1>1. telemetry \in Grants /\ \A u \in Users : ~ Live(u)
  BY DEF Init, Grants, Live
<1>2. task \in [Tasks -> TaskRecord] /\ \A t \in Tasks : Carries(task[t])
  BY IdleRecord DEF Init
<1>3. 1 \in Inodes /\ 0 \notin Inodes
  BY FiniteAssumption, FS_CardinalityType DEF Inodes
<1>4. /\ target \in Inodes /\ tmp \in Inodes \cup {0} /\ target # tmp
  BY <1>3 DEF Init
<1>5. import \in ImportRecord
  <2>1. <<>> \in Seq(Line)
    OBVIOUS
  <2> QED
    BY <2>1 DEF Init, ImportRecord
<1>6. minted \in 0..MaxTokens
  BY ProvBoundsAssumption DEF Init
<1>7. perses \in [Users -> Roles \cup {Nothing}]
  BY DEF Init
<1> QED
  BY <1>1, <1>2, <1>4, <1>5, <1>6, <1>7, InitText DEF Init, TypeInv

\* Whatever races and fails, the ledger's grants, the files and what the
\* handlers carry are what they are declared to be.
THEOREM ProvTypesCorrect == Spec => []ProvTypeOK
<1>1. TypeInv => ProvTypeOK
  <2> SUFFICES ASSUME TypeInv PROVE ProvTypeOK
    OBVIOUS
  <2>1. ASSUME NEW t \in Tasks
        PROVE  /\ task[t].pc \in Pcs
               /\ task[t].fd \in Inodes \cup {0}
               /\ task[t].text \in Seq(Line)
               /\ task[t].pc \in {"write", "rename"} => task[t].fd # 0
               /\ task[t].pc \in {"query", "refresh", "grant", "append"} =>
                    task[t].user \in Users
    <3>1. task[t] \in TaskRecord /\ Carries(task[t])
      BY Holds
    <3> QED
      BY <3>1 DEF Carries, TaskRecord
  <2> QED
    BY <2>1 DEF TypeInv, ProvTypeOK
<1> QED
  BY <1>1, TypeInit, TypeNext, PTL DEF Spec

-----------------------------------------------------------------------------
(* Nothing unrecorded *)

\* As long as no two writers held one temporary file: whoever holds a file
\* holds the temporary one, alone, and finds it empty.
Unshared ==
  ~ shared =>
    /\ \A t \in Tasks : task[t].fd # 0 => task[t].fd = tmp
    /\ \A s, t \in Tasks : task[s].fd = 0 \/ task[t].fd = 0 \/ s = t
    /\ \A t \in Tasks : task[t].pc = "write" => inode[task[t].fd] = <<>>

\* A write that is done lets go of its file.
LEMMA DoneLets ==
  ASSUME task \in [Tasks -> TaskRecord], NEW t \in Tasks, Done(t) \/ Ends(t)
  PROVE  /\ task'[t].fd = 0 /\ task'[t].pc \in {"bind", "snapshot", "idle"}
         /\ \A s \in Tasks \ {t} : task'[s] = task[s]
<1> DEFINE k == task[t]
           c == [k EXCEPT !.fd = 0, !.text = <<>>]
           Good == /\ task'[t].fd = 0 /\ task'[t].pc \in {"bind", "snapshot", "idle"}
                   /\ \A s \in Tasks \ {t} : task'[s] = task[s]
<1>1. Goes(t, c, "bind") \/ Goes(t, c, "snapshot") \/ Ends(t)
  BY DEF Done
<1>2. k \in TaskRecord
  OBVIOUS
<1> HIDE DEF k
<1>3. c.fd = 0 /\ DOMAIN c = DOMAIN Idle
  BY <1>2 DEF TaskRecord, Idle
<1> HIDE DEF c
<1>4. ASSUME NEW pc \in {"bind", "snapshot"}, Goes(t, c, pc) PROVE Good
  <2>1. /\ task'[t] = [c EXCEPT !.pc = pc]
        /\ \A s \in Tasks \ {t} : task'[s] = task[s]
    BY <1>4, GoesTypes
  <2>2. task'[t].pc = pc /\ task'[t].fd = 0
    BY <1>3, <2>1 DEF Idle
  <2> QED
    BY <2>1, <2>2
<1>5. ASSUME Ends(t) PROVE Good
  BY <1>5, EndsTypes DEF Idle
<1> QED
  BY <1>1, <1>4, <1>5

\* The files change as a temporary one is opened, written to or renamed.
LEMMA FilesStay ==
  ASSUME TypeInv, [Next]_provVars,
         \A t \in Tasks : ~ (Create(t) /\ task'[t].pc = "write"),
         ~ \E t \in Tasks : Write(t) \/ Rename(t)
  PROVE  UNCHANGED <<inode, target, tmp, shared>>
<1>1. ASSUME NEW t \in Tasks, Create(t) PROVE UNCHANGED files
  <2>1. ASSUME NEW f, Goes(t, [task[t] EXCEPT !.fd = f], "write") PROVE FALSE
    <3> DEFINE k == task[t]
               r == [k EXCEPT !.fd = f]
    <3>1. Goes(t, r, "write") /\ k \in TaskRecord
      BY <2>1 DEF TypeInv
    <3> HIDE DEF k, r
    <3>2. task'[t] = [r EXCEPT !.pc = "write"]
      BY <3>1, GoesTypes DEF TypeInv
    <3>3. task'[t].pc = "write"
      BY <3>1, <3>2 DEF TaskRecord, r
    <3> QED
      BY <1>1, <3>3
  <2> QED
    BY <1>1, <2>1 DEF Create
<1>2. ASSUME NEW t \in Tasks,
             Query(t) \/ Refresh(t) \/ Record(t) \/ AppendToken(t) \/ Snapshot(t) \/ Read(t)
             \/ Bind(t) \/ Unbind(t) \/ Fails(t) \/ Boot(t) \/ ImportRewrites(t)
      PROVE  UNCHANGED <<inode, target, tmp, shared>>
  BY <1>2 DEF Query, Refresh, Record, AppendToken, Snapshot, Read, Bind, Unbind, Fails,
              Boot, ImportRewrites, files
<1>3. ASSUME NEW t \in Tasks, NEW u \in Users,
             Revoke(t, u) \/ \E held \in Ranks : Command(t, u, held) \/ Click(t, u, held)
      PROVE  UNCHANGED files
  BY <1>3 DEF Revoke, Command, Click, Arrives
<1>4. CASE Stop \/ StartImport \/ ImportLine \/ ImportEnds \/ UNCHANGED provVars
  BY <1>4 DEF Stop, StartImport, ImportLine, ImportEnds, provVars, files
<1> QED
  BY <1>1, <1>2, <1>3, <1>4 DEF Next, TaskStep, files

\* What was shared once is noted for good.
LEMMA SharedStays ==
  ASSUME TypeInv, [Next]_provVars, shared
  PROVE  shared'
<1>1. ASSUME NEW t \in Tasks, Create(t) \/ Write(t) \/ Rename(t) PROVE shared'
  BY <1>1 DEF Create, Write, Rename, files
<1>2. CASE \A t \in Tasks : ~ (Create(t) \/ Write(t) \/ Rename(t))
  BY <1>2, FilesStay
<1> QED
  BY <1>1, <1>2

\* A handler that goes on, with the file it holds or without it.
LEMMA HoldsOn ==
  ASSUME TypeInv, [Next]_provVars, NEW s \in Tasks,
         ~ (Create(s) /\ task'[s].pc = "write")
  PROVE  /\ task'[s].fd = 0 \/ task'[s].fd = task[s].fd
         /\ task'[s].pc = "write" => task'[s] = task[s]
<1> DEFINE Good == /\ task'[s].fd = 0 \/ task'[s].fd = task[s].fd
                   /\ task'[s].pc = "write" => task'[s] = task[s]
<1>1. task \in [Tasks -> TaskRecord] /\ \A t \in Tasks : task[t] \in TaskRecord
  BY DEF TypeInv
<1>2. ASSUME NEW t \in Tasks, NEW r, NEW pc, Goes(t, r, pc), pc # "write",
             r.fd = 0 \/ r.fd = task[t].fd, DOMAIN r = DOMAIN Idle
      PROVE  Good
  <2>1. /\ task'[t] = [r EXCEPT !.pc = pc]
        /\ \A u \in Tasks \ {t} : task'[u] = task[u]
    BY <1>1, <1>2, GoesTypes
  <2>2. task'[t].pc = pc /\ task'[t].fd = r.fd
    BY <1>2, <2>1 DEF Idle
  <2> QED
    BY <1>2, <2>1, <2>2
<1>3. ASSUME NEW t \in Tasks, Ends(t) PROVE Good
  <2>1. task'[t] = Idle /\ \A u \in Tasks \ {t} : task'[u] = task[u]
    BY <1>1, <1>3, EndsTypes
  <2> QED
    BY <2>1 DEF Idle
<1>4. ASSUME NEW t \in Tasks PROVE DOMAIN task[t] = DOMAIN Idle
  BY <1>1 DEF TaskRecord, Idle
<1>5. ASSUME NEW t \in Tasks, NEW pc, Goes(t, task[t], pc), pc # "write" PROVE Good
  BY <1>2, <1>4, <1>5
<1>6. ASSUME NEW t \in Tasks, NEW u \in Users,
             Revoke(t, u) \/ \E held \in Ranks : Command(t, u, held) \/ Click(t, u, held)
      PROVE  Good
  <2>1. ASSUME NEW kind, NEW role, NEW pc \in {"query", "snapshot"},
               Goes(t, For(u, kind, role), pc)
        PROVE  Good
    <3>1. For(u, kind, role).fd = 0 /\ DOMAIN For(u, kind, role) = DOMAIN Idle
      BY DEF For, Idle
    <3> QED
      BY <1>2, <2>1, <3>1
  <2>2. \/ Goes(t, For(u, "revoke", Nothing), "snapshot")
        \/ \E held \in Ranks : \/ Goes(t, For(u, "command", RoleFor(held)), "query")
                               \/ Goes(t, For(u, "click", RoleFor(held)), "query")
    BY <1>6 DEF Revoke, Command, Click, Arrives
  <2> QED
    BY <2>1, <2>2
<1>7. ASSUME NEW t \in Tasks, Query(t) \/ AppendToken(t) \/ Snapshot(t) \/ Read(t)
      PROVE  Good
  <2> DEFINE k == task[t]
  <2>1. \/ Goes(t, k, "refresh")
        \/ \E l : Goes(t, [k EXCEPT !.line = l], "grant")
        \/ \E x : Goes(t, [k EXCEPT !.text = x], "create")
        \/ \E x : Goes(t, [k EXCEPT !.text = x], "bind")
        \/ Goes(t, [k EXCEPT !.grants = telemetry, !.ours = managed,
                              !.kind = "rewrite"], "read")
    <3>1. CASE Query(t)
      BY <3>1 DEF Query
    <3>2. CASE AppendToken(t)
      BY <3>2 DEF AppendToken
    <3>3. CASE Snapshot(t)
      BY <3>3 DEF Snapshot
    <3>4. CASE Read(t)
      <4>1. PICK found \in {inode[target], <<>>} :
              Goes(t, [k EXCEPT !.text = TokensFile(found, k.ours, k.grants)],
                   IF TokensFile(found, k.ours, k.grants) = found THEN "bind" ELSE "create")
        BY <3>4 DEF Read
      <4> QED
        BY <4>1
    <3> QED
      BY <1>7, <3>1, <3>2, <3>3, <3>4
  <2>2. k \in TaskRecord /\ DOMAIN k = DOMAIN Idle /\ k.fd = task[t].fd
    BY <1>1, <1>4
  <2> HIDE DEF k
  <2>3. CASE Goes(t, k, "refresh")
    BY <1>2, <2>2, <2>3
  <2>4. ASSUME NEW l, Goes(t, [k EXCEPT !.line = l], "grant") PROVE Good
    <3>1. [k EXCEPT !.line = l].fd = k.fd /\ DOMAIN [k EXCEPT !.line = l] = DOMAIN Idle
      BY <2>2 DEF TaskRecord
    <3> QED
      BY <1>2, <2>2, <2>4, <3>1
  <2>5. ASSUME NEW x, NEW pc \in {"create", "bind"}, Goes(t, [k EXCEPT !.text = x], pc)
        PROVE  Good
    <3>1. [k EXCEPT !.text = x].fd = k.fd /\ DOMAIN [k EXCEPT !.text = x] = DOMAIN Idle
      BY <2>2 DEF TaskRecord
    <3> QED
      BY <1>2, <2>2, <2>5, <3>1
  <2>6. CASE Goes(t, [k EXCEPT !.grants = telemetry, !.ours = managed,
                               !.kind = "rewrite"], "read")
    <3> DEFINE r == [k EXCEPT !.grants = telemetry, !.ours = managed, !.kind = "rewrite"]
    <3>1. r.fd = k.fd /\ DOMAIN r = DOMAIN Idle
      BY <2>2 DEF TaskRecord
    <3> HIDE DEF r
    <3>2. Goes(t, r, "read")
      BY <2>6 DEF r
    <3> QED
      BY <1>2, <2>2, <3>1, <3>2
  <2> QED
    BY <2>1, <2>3, <2>4, <2>5, <2>6
<1>8. ASSUME NEW t \in Tasks, Done(t) PROVE Good
  BY <1>1, <1>8, DoneLets
<1>9. ASSUME NEW t \in Tasks, Create(t) PROVE Good
  <2>1. ASSUME NEW f, Goes(t, [task[t] EXCEPT !.fd = f], "write") PROVE Good
    <3> DEFINE k == task[t]
               r == [k EXCEPT !.fd = f]
    <3>1. Goes(t, r, "write") /\ k \in TaskRecord
      BY <1>1, <2>1
    <3> HIDE DEF k, r
    <3>2. /\ task'[t] = [r EXCEPT !.pc = "write"]
          /\ \A u \in Tasks \ {t} : task'[u] = task[u]
      BY <1>1, <3>1, GoesTypes
    <3>3. task'[t].pc = "write"
      BY <3>1, <3>2 DEF TaskRecord, r
    <3>4. s # t
      BY <1>9, <3>3
    <3> QED
      BY <3>2, <3>4
  <2> QED
    BY <1>8, <1>9, <2>1 DEF Create
<1>10. ASSUME NEW t \in Tasks, Refresh(t) \/ Record(t) \/ Write(t) \/ Rename(t)
                \/ Bind(t) \/ Unbind(t) \/ Fails(t)
       PROVE  Good
  BY <1>3, <1>5, <1>8, <1>10 DEF Refresh, Record, Write, Rename, Bind, Unbind, Fails
<1>11. ASSUME NEW t \in Tasks, Boot(t) \/ ImportRewrites(t) PROVE Good
  <2> DEFINE r == [Idle EXCEPT !.kind = "rewrite"]
  <2>1. Goes(t, r, "snapshot")
    BY <1>11 DEF Boot, ImportRewrites, Rewrites
  <2>2. r.fd = 0 /\ DOMAIN r = DOMAIN Idle
    BY DEF Idle
  <2> HIDE DEF r
  <2> QED
    BY <1>2, <2>1, <2>2
<1>12. CASE Stop
  BY <1>12 DEF Stop, Idle
<1>13. CASE StartImport \/ ImportLine \/ ImportEnds \/ UNCHANGED provVars
  BY <1>13 DEF StartImport, ImportLine, ImportEnds, provVars
<1> QED
  BY <1>6, <1>7, <1>9, <1>10, <1>11, <1>12, <1>13 DEF Next, TaskStep

\* The temporary file stays with one writer until a second one opens it.
LEMMA UnsharedNext == TypeInv /\ Unshared /\ [Next]_provVars => Unshared'
<1> SUFFICES ASSUME TypeInv, Unshared, [Next]_provVars, ~ shared' PROVE Unshared'
  BY DEF Unshared
<1>1. /\ task \in [Tasks -> TaskRecord] /\ task' \in [Tasks -> TaskRecord]
      /\ \A s \in Tasks : Carries(task'[s]) /\ Carries(task[s])
      /\ inode \in [Inodes -> Seq(Line)] /\ tmp \in Inodes \cup {0} /\ 0 \notin Inodes
  BY TaskTypes DEF TypeInv, Inodes
<1>2. \A s \in Tasks : task[s].pc = "write" => task[s].fd # 0
  BY <1>1 DEF Carries
<1>3. ASSUME NEW t \in Tasks, Create(t), task'[t].pc = "write" PROVE Unshared'
  <2> DEFINE f == IF tmp = 0 THEN Free(t) ELSE tmp
             k == task[t]
             r == [k EXCEPT !.fd = f]
  <2>1. Goes(t, r, "write") /\ inode' = [inode EXCEPT ![f] = <<>>] /\ tmp' = f
        /\ shared' = (shared \/ f \in Held(t))
    <3>1. ~ Done(t)
      BY <1>1, <1>3, DoneLets
    <3> QED
      BY <1>3, <3>1 DEF Create
  <2>2. f \in Inodes
    BY <1>1, FreeInode
  <2>3. k \in TaskRecord
    BY <1>1
  <2>4. \A s \in Tasks \ {t} : task'[s] = task[s]
    BY <1>1, <2>1, GoesTypes
  <2>5. ~ shared /\ \A s \in Tasks \ {t} : task[s].fd # f
    BY <2>1 DEF Held
  <2>6. \A s \in Tasks \ {t} : task[s].fd = 0
    BY <2>5 DEF Unshared
  <2> HIDE DEF k, f
  <2>7. task'[t].fd = f /\ task'[t].pc = "write"
    <3>1. task'[t] = [r EXCEPT !.pc = "write"]
      BY <1>1, <2>1, GoesTypes
    <3> QED
      BY <2>3, <3>1 DEF TaskRecord
  <2>8. inode'[f] = <<>>
    BY <1>1, <2>1, <2>2
  <2>9. \A s \in Tasks \ {t} : task'[s].pc # "write" /\ task'[s].fd = 0
    BY <1>2, <2>4, <2>6
  <2> QED
    BY <2>1, <2>7, <2>8, <2>9 DEF Unshared
<1>4. CASE \A s \in Tasks : ~ (Create(s) /\ task'[s].pc = "write")
  <2>1. ~ shared /\ \A s, t \in Tasks : task[s].fd = 0 \/ task[t].fd = 0 \/ s = t
    BY SharedStays DEF Unshared
  <2>2. \A s \in Tasks : /\ task'[s].fd = 0 \/ task'[s].fd = task[s].fd
                         /\ task'[s].pc = "write" => task'[s] = task[s]
    BY <1>4, HoldsOn
  <2>3. ASSUME NEW t \in Tasks, Write(t) \/ Rename(t) PROVE Unshared'
    <3>1. task[t].fd # 0 /\ task[t].pc # "idle"
      BY <1>1, <2>3 DEF Carries, Write, Rename
    <3>2. \A s \in Tasks \ {t} : task[s].fd = 0
      BY <2>1, <3>1
    <3>3. \A s \in Tasks \ {t} : task'[s].fd = 0 /\ task'[s].pc # "write"
      BY <1>2, <2>2, <3>2
    <3>4. CASE Write(t)
      <4>1. Goes(t, task[t], "rename") /\ tmp' = tmp
        BY <3>4 DEF Write
      <4>2. task'[t].fd = task[t].fd /\ task'[t].pc = "rename"
        <5>1. task'[t] = [task[t] EXCEPT !.pc = "rename"] /\ task[t] \in TaskRecord
          BY <1>1, <4>1, GoesTypes
        <5> QED
          BY <5>1 DEF TaskRecord
      <4>3. task[t].fd = tmp
        BY <2>1, <3>1 DEF Unshared
      <4> QED
        BY <3>3, <4>1, <4>2, <4>3 DEF Unshared
    <3>5. CASE Rename(t)
      <4>1. Done(t) \/ Ends(t)
        BY <3>5 DEF Rename
      <4>2. task'[t].fd = 0 /\ task'[t].pc # "write"
        BY <1>1, <4>1, DoneLets
      <4> QED
        BY <3>3, <4>2 DEF Unshared
    <3> QED
      BY <2>3, <3>4, <3>5
  <2>4. CASE ~ \E t \in Tasks : Write(t) \/ Rename(t)
    <3>1. UNCHANGED <<inode, tmp>>
      BY <1>4, <2>4, FilesStay
    <3> QED
      BY <2>1, <2>2, <3>1 DEF Unshared
  <2> QED
    BY <2>3, <2>4
<1> QED
  BY <1>3, <1>4


\* The bot's own line, what dpsbot left, what the ledger recorded, and pieces.
Recorded == {l \in Line : \/ l.name = Service \/ l.secret = 0 \/ l \in issued
                          \/ shared /\ IsPiece(l)}

\* Every file, also one that no name points to, and every text a handler is
\* about to write holds recorded lines only; and a line is recorded before it
\* is added to a text.
RecordedInv ==
  /\ \A i \in Inodes : LinesOf(inode[i]) \subseteq Recorded
  /\ \A t \in Tasks : /\ LinesOf(task[t].text) \subseteq Recorded
                      /\ task[t].pc = "append" => task[t].line \in issued

\* Initially no file holds a line that was not handed over.
LEMMA RecordedInit == Init => RecordedInv
<1> SUFFICES ASSUME Init PROVE RecordedInv
  OBVIOUS
<1>1. \A i \in Inodes : LinesOf(inode[i]) \subseteq Line
  BY InitText DEF LinesOf
<1>2. \A t \in Tasks : task[t] = Idle
  BY DEF Init
<1>3. LinesOf(Idle.text) = {} /\ Idle.pc # "append"
  BY DEF Idle, LinesOf
<1> QED
  BY <1>1, <1>2, <1>3, InitText DEF RecordedInv, Recorded

\* The files after every step.
LEMMA RecordedFiles ==
  ASSUME TypeInv, Unshared, RecordedInv, [Next]_provVars
  PROVE  \A i \in Inodes : LinesOf(inode'[i]) \subseteq Recorded
<1>1. /\ inode \in [Inodes -> Seq(Line)]
      /\ \A i \in Inodes : LinesOf(inode[i]) \subseteq Recorded
  BY DEF TypeInv, RecordedInv
<1>2. LinesOf(<<>>) = {}
  BY DEF LinesOf
<1>3. ASSUME NEW t \in Tasks, Create(t) \/ Rename(t)
      PROVE  \A i \in Inodes : inode'[i] = inode[i] \/ inode'[i] = <<>>
  BY <1>1, <1>3 DEF Create, Rename, files
<1>4. ASSUME NEW t \in Tasks, Write(t)
      PROVE  \A i \in Inodes : LinesOf(inode'[i]) \subseteq Recorded
  <2> DEFINE f == task[t].fd
             x == task[t].text
  <2>1. LinesOf(x) \subseteq Recorded
    BY DEF RecordedInv
  <2>2. /\ f \in Inodes /\ inode' \in [Inodes -> Seq(Line)]
        /\ \A i \in Inodes \ {f} : inode'[i] = inode[i]
        /\ \A l \in LinesOf(inode'[f]) : l \in LinesOf(x) \cup LinesOf(inode[f]) \/ IsPiece(l)
        /\ inode[f] = <<>> => inode'[f] = x
    BY <1>4, WriteLines
  <2>3. ~ shared => inode[f] = <<>>
    BY <1>4 DEF Unshared, Write
  <2> HIDE DEF f, x
  <2>4. LinesOf(inode'[f]) \subseteq Line
    BY <2>2 DEF LinesOf
  <2>5. LinesOf(inode'[f]) \subseteq Recorded
    <3>1. CASE shared
      BY <1>1, <2>1, <2>2, <2>4, <3>1 DEF Recorded
    <3>2. CASE ~ shared
      BY <2>1, <2>2, <2>3, <3>2
    <3> QED
      BY <3>1, <3>2
  <2> QED
    BY <1>1, <2>2, <2>5
<1>5. CASE inode' = inode
  BY <1>1, <1>5
<1>6. CASE \E t \in Tasks : Query(t) \/ Refresh(t) \/ Record(t) \/ AppendToken(t)
              \/ Snapshot(t) \/ Read(t) \/ Bind(t) \/ Unbind(t) \/ Fails(t) \/ Boot(t)
              \/ ImportRewrites(t)
  BY <1>5, <1>6 DEF Query, Refresh, Record, AppendToken, Snapshot, Read, Bind, Unbind,
                    Fails, Boot, ImportRewrites, files
<1>7. CASE \E t \in Tasks, u \in Users : Revoke(t, u)
              \/ \E held \in Ranks : Command(t, u, held) \/ Click(t, u, held)
  BY <1>5, <1>7 DEF Revoke, Command, Click, Arrives, files
<1>8. CASE Stop \/ StartImport \/ ImportLine \/ ImportEnds \/ UNCHANGED provVars
  BY <1>5, <1>8 DEF Stop, StartImport, ImportLine, ImportEnds, provVars, files
<1> QED
  BY <1>1, <1>2, <1>3, <1>4, <1>6, <1>7, <1>8 DEF Next, TaskStep

\* A handler that moves on with a recorded text.
LEMMA RecordedGoes ==
  ASSUME TypeInv, RecordedInv, issued \subseteq issued',
         NEW t \in Tasks, NEW r \in TaskRecord, NEW pc, Goes(t, r, pc),
         LinesOf(r.text) \subseteq Recorded, pc = "append" => r.line \in issued'
  PROVE  \A s \in Tasks : /\ LinesOf(task'[s].text) \subseteq Recorded
                          /\ task'[s].pc = "append" => task'[s].line \in issued'
<1>1. /\ task'[t] = [r EXCEPT !.pc = pc]
      /\ \A s \in Tasks \ {t} : task'[s] = task[s]
  BY GoesTypes DEF TypeInv
<1>2. task'[t].text = r.text /\ task'[t].line = r.line /\ task'[t].pc = pc
  BY <1>1 DEF TaskRecord
<1> QED
  BY <1>1, <1>2 DEF RecordedInv

\* A handler that is done.
LEMMA RecordedEnds ==
  ASSUME TypeInv, RecordedInv, issued \subseteq issued', NEW t \in Tasks, Ends(t)
  PROVE  \A s \in Tasks : /\ LinesOf(task'[s].text) \subseteq Recorded
                          /\ task'[s].pc = "append" => task'[s].line \in issued'
<1>1. task'[t] = Idle /\ \A s \in Tasks \ {t} : task'[s] = task[s]
  BY EndsTypes DEF TypeInv
<1>2. LinesOf(Idle.text) = {} /\ Idle.pc # "append"
  BY DEF Idle, LinesOf
<1> QED
  BY <1>1, <1>2 DEF RecordedInv

\* The handlers after every step.
LEMMA RecordedTasks ==
  ASSUME TypeInv, RecordedInv, [Next]_provVars
  PROVE  \A s \in Tasks : /\ LinesOf(task'[s].text) \subseteq Recorded
                          /\ task'[s].pc = "append" => task'[s].line \in issued'
<1> DEFINE Good == \A s \in Tasks :
                     /\ LinesOf(task'[s].text) \subseteq Recorded
                     /\ task'[s].pc = "append" => task'[s].line \in issued'
<1>1. issued \subseteq issued'
  BY LedgerTypes
<1>2. LinesOf(<<>>) = {}
  BY DEF LinesOf
<1>3. ASSUME NEW t \in Tasks
      PROVE  /\ task[t] \in TaskRecord /\ LinesOf(task[t].text) \subseteq Recorded
             /\ task[t].pc = "append" => task[t].line \in issued
             /\ LinesOf(inode[target]) \subseteq Recorded
             /\ inode[target] \in Seq(Line)
  BY Holds DEF RecordedInv, TypeInv
<1>4. ASSUME NEW t \in Tasks, NEW u \in Users, NEW kind \in Kinds,
             NEW role \in Roles \cup {Nothing}, NEW pc \in {"query", "snapshot"},
             Arrives(t, For(u, kind, role), pc)
      PROVE  Good
  <2>1. For(u, kind, role) \in TaskRecord
    BY IdleRecord DEF For, TaskRecord
  <2>2. LinesOf(For(u, kind, role).text) = {}
    BY <1>2 DEF For, Idle
  <2>3. Goes(t, For(u, kind, role), pc)
    BY <1>4 DEF Arrives
  <2> QED
    BY <1>1, <2>1, <2>2, <2>3, RecordedGoes
<1>5. ASSUME NEW t \in Tasks, NEW u \in Users, Revoke(t, u) PROVE Good
  BY <1>4, <1>5 DEF Revoke, Kinds
<1>6. ASSUME NEW t \in Tasks, NEW u \in Users, NEW held \in Ranks,
             Command(t, u, held) \/ Click(t, u, held)
      PROVE  Good
  <2>1. RoleFor(held) \in Roles
    BY DEF RoleFor, Roles
  <2> QED
    BY <1>4, <1>6, <2>1 DEF Command, Click, Kinds
<1>7. ASSUME NEW t \in Tasks, NEW pc, Goes(t, task[t], pc), pc # "append" PROVE Good
  BY <1>1, <1>3, <1>7, RecordedGoes
<1>8. ASSUME NEW t \in Tasks, Query(t) PROVE Good
  <2> DEFINE k == task[t]
             l == [name |-> k.user, secret |-> minted + 1]
             r == [k EXCEPT !.line = l]
  <2>1. CASE minted < MaxTokens /\ Goes(t, r, "grant")
    <3>1. k.user \in Users /\ k \in TaskRecord
      BY <1>8, Holds DEF Query, Carries
    <3>2. l \in Line
      BY <2>1, <3>1, ProvBoundsAssumption DEF TypeInv, Line, Secrets
    <3> HIDE DEF k, l
    <3>3. r \in TaskRecord /\ r.text = k.text
      BY <3>1, <3>2 DEF TaskRecord
    <3>4. LinesOf(r.text) \subseteq Recorded
      BY <1>3, <3>3 DEF k
    <3> QED
      BY <1>1, <2>1, <3>3, <3>4, RecordedGoes
  <2> QED
    BY <1>7, <1>8, <2>1 DEF Query
<1>9. ASSUME NEW t \in Tasks, Record(t) PROVE Good
  <2>1. CASE IssueToken(task[t].line, task[t].role) /\ Goes(t, task[t], "append")
    <3>1. task[t].line \in issued'
      BY <2>1 DEF IssueToken
    <3> QED
      BY <1>1, <1>3, <2>1, <3>1, RecordedGoes
  <2> QED
    BY <1>1, <1>9, <2>1, RecordedEnds DEF Record
<1>10. ASSUME NEW t \in Tasks, AppendToken(t) PROVE Good
  <2> DEFINE k == task[t]
  <2>a. PICK found \in {inode[target], <<>>} :
          Goes(t, [k EXCEPT !.text = found \o <<k.line>>], "create")
    BY <1>10 DEF AppendToken
  <2> DEFINE x == found \o <<k.line>>
             r == [k EXCEPT !.text = x]
  <2>1. k \in TaskRecord /\ k.line \in issued /\ k.line \in Line /\ Goes(t, r, "create")
    BY <1>3, <1>10, <2>a, Holds DEF AppendToken
  <2>b. found \in Seq(Line) /\ LinesOf(found) \subseteq Recorded
    <3>1. <<>> \in Seq(Line)
      OBVIOUS
    <3> QED
      BY <1>2, <1>3, <3>1
  <2>2. x \in Seq(Line) /\ LinesOf(x) = LinesOf(found) \cup {k.line}
    <3> DEFINE old == found
               new == k.line
    <3>1. old \in Seq(Line) /\ new \in Line /\ x = old \o <<new>>
      BY <2>1, <2>b
    <3> HIDE DEF old, new
    <3>2. old \o <<new>> = Append(old, new)
      BY <3>1
    <3>3. /\ Append(old, new) \in Seq(Line)
          /\ LinesOf(Append(old, new)) = LinesOf(old) \cup {new}
      BY <3>1, LinesAppend
    <3> HIDE DEF x
    <3>4. x \in Seq(Line) /\ LinesOf(x) = LinesOf(old) \cup {new}
      BY <3>1, <3>2, <3>3
    <3> QED
      BY <3>4 DEF old, new
  <2>3. LinesOf(x) \subseteq Recorded
    BY <2>1, <2>2, <2>b DEF Recorded
  <2> HIDE DEF k, x
  <2>4. r \in TaskRecord /\ r.text = x
    BY <2>1, <2>2 DEF TaskRecord
  <2> QED
    BY <1>1, <2>1, <2>3, <2>4, RecordedGoes
<1>11. ASSUME NEW t \in Tasks, Snapshot(t) PROVE Good
  <2> DEFINE k == task[t]
             r == [k EXCEPT !.grants = telemetry, !.ours = managed, !.kind = "rewrite"]
  <2>1. k \in TaskRecord /\ LinesOf(k.text) \subseteq Recorded /\ Goes(t, r, "read")
        /\ telemetry \in Grants /\ managed \in SUBSET Users
    BY <1>3, <1>11 DEF Snapshot, TypeInv
  <2> HIDE DEF k
  <2>2. r \in TaskRecord /\ r.text = k.text
    BY <2>1 DEF TaskRecord, Kinds
  <2> QED
    BY <1>1, <2>1, <2>2, RecordedGoes
<1>12. ASSUME NEW t \in Tasks, Read(t) PROVE Good
  <2> DEFINE k == task[t]
  <2>a. PICK found \in {inode[target], <<>>}, pc \in {"bind", "create"} :
          Goes(t, [k EXCEPT !.text = TokensFile(found, k.ours, k.grants)], pc)
    BY <1>12 DEF Read
  <2> DEFINE x == TokensFile(found, k.ours, k.grants)
             r == [k EXCEPT !.text = x]
  <2>1. /\ k \in TaskRecord /\ k.grants \in Grants
        /\ k.ours \in SUBSET Users
    BY <1>12, Holds DEF Read, Carries, TypeInv
  <2>b. found \in Seq(Line) /\ LinesOf(found) \subseteq Recorded
    <3>1. <<>> \in Seq(Line)
      OBVIOUS
    <3> QED
      BY <1>2, <1>3, <3>1
  <2>2. Goes(t, r, pc)
    BY <2>a
  <2>3. x \in Seq(Line) /\ LinesOf(x) \subseteq LinesOf(found)
    <3> DEFINE old == found
               o == k.ours
               g == k.grants
    <3>1. old \in Seq(Line) /\ o \in SUBSET Users /\ g \in Grants
          /\ x = TokensFile(old, o, g)
      BY <2>1, <2>b
    <3> HIDE DEF old, o, g
    <3>2. /\ TokensFile(old, o, g) \in Seq(Line)
          /\ LinesOf(TokensFile(old, o, g)) =
               {l \in LinesOf(old) : l.name \notin o \/ Vouched(g, l)}
      BY <3>1, TokensFileLines
    <3> HIDE DEF x
    <3>3. x \in Seq(Line) /\ LinesOf(x) \subseteq LinesOf(old)
      BY <3>1, <3>2
    <3> QED
      BY <3>3 DEF old
  <2> HIDE DEF x
  <2>4. LinesOf(x) \subseteq Recorded
    BY <2>3, <2>b
  <2> HIDE DEF k, x
  <2>5. r \in TaskRecord /\ r.text = x
    BY <2>1, <2>3 DEF TaskRecord
  <2> QED
    BY <1>1, <2>2, <2>4, <2>5, RecordedGoes
<1>13. ASSUME NEW t \in Tasks, Done(t) PROVE Good
  <2> DEFINE k == task[t]
             c == [k EXCEPT !.fd = 0, !.text = <<>>]
  <2>1. Goes(t, c, "bind") \/ Goes(t, c, "snapshot") \/ Ends(t)
    BY <1>13 DEF Done
  <2>2. k \in TaskRecord /\ <<>> \in Seq(Line)
    BY <1>3
  <2> HIDE DEF k
  <2>3. c \in TaskRecord /\ c.text = <<>>
    BY <2>2 DEF TaskRecord
  <2> HIDE DEF c
  <2>4. LinesOf(c.text) \subseteq Recorded
    BY <1>2, <2>3
  <2> QED
    BY <1>1, <2>1, <2>3, <2>4, RecordedGoes, RecordedEnds
<1>14. ASSUME NEW t \in Tasks, Create(t) PROVE Good
  <2> DEFINE k == task[t]
             f == IF tmp = 0 THEN Free(t) ELSE tmp
             r == [k EXCEPT !.fd = f]
  <2>1. k \in TaskRecord /\ LinesOf(k.text) \subseteq Recorded /\ f \in Inodes
    BY <1>3, FreeInode DEF TypeInv
  <2> HIDE DEF f
  <2>2. CASE Goes(t, r, "write")
    <3> HIDE DEF k
    <3>1. r \in TaskRecord /\ r.text = k.text
      BY <2>1 DEF TaskRecord
    <3> QED
      BY <1>1, <2>1, <2>2, <3>1, RecordedGoes
  <2> QED
    BY <1>13, <1>14, <2>2 DEF Create, f
<1>15. ASSUME NEW t \in Tasks, Boot(t) \/ ImportRewrites(t) PROVE Good
  <2> DEFINE r == [Idle EXCEPT !.kind = "rewrite"]
  <2>1. Goes(t, r, "snapshot")
    BY <1>15 DEF Boot, ImportRewrites, Rewrites
  <2>2. r \in TaskRecord /\ LinesOf(r.text) = {}
    BY <1>2, IdleRecord DEF TaskRecord, Kinds, Idle
  <2> QED
    BY <1>1, <2>1, <2>2, RecordedGoes
<1>16. ASSUME NEW t \in Tasks, Refresh(t) \/ Write(t) \/ Bind(t) PROVE Good
  BY <1>7, <1>16 DEF Refresh, Write, Bind
<1>17. ASSUME NEW t \in Tasks, Rename(t) \/ Unbind(t) \/ Fails(t) PROVE Good
  BY <1>1, <1>7, <1>13, <1>17, RecordedEnds DEF Rename, Unbind, Fails
<1>18. CASE Stop
  <2>1. LinesOf(Idle.text) = {} /\ Idle.pc # "append"
    BY <1>2 DEF Idle
  <2> QED
    BY <1>18, <2>1 DEF Stop
<1>19. CASE StartImport \/ ImportLine \/ ImportEnds \/ UNCHANGED provVars
  BY <1>1, <1>19 DEF StartImport, ImportLine, ImportEnds, provVars, RecordedInv
<1> QED
  BY <1>5, <1>6, <1>8, <1>9, <1>10, <1>11, <1>12, <1>14, <1>15, <1>16, <1>17, <1>18,
     <1>19 DEF Next, TaskStep

\* Every step writes recorded lines only.
LEMMA RecordedNext ==
  TypeInv /\ Unshared /\ RecordedInv /\ [Next]_provVars => RecordedInv'
<1> SUFFICES ASSUME TypeInv, Unshared, RecordedInv, [Next]_provVars PROVE RecordedInv'
  OBVIOUS
<1>1. Recorded \subseteq Recorded'
  BY LedgerTypes, SharedStays DEF Recorded, IsPiece
<1>2. \A i \in Inodes : LinesOf(inode'[i]) \subseteq Recorded'
  BY <1>1, RecordedFiles
<1>3. \A s \in Tasks : /\ LinesOf(task'[s].text) \subseteq Recorded'
                       /\ task'[s].pc = "append" => task'[s].line \in issued'
  BY <1>1, RecordedTasks
<1> QED
  BY <1>2, <1>3 DEF RecordedInv

\* At the start nobody holds a file.
LEMMA UnsharedInit == Init => Unshared
BY DEF Init, Unshared, Idle

\* However wide the lines are, whatever fails and whenever the process stops: a
\* secret of a member that stands in tokens.txt was recorded in the ledger
\* first, or dpsbot left it, or it is the end of one that a second writer cut in
\* a temporary file that two of them held; while no two did, it is one of the
\* first two.
THEOREM NothingEverUnrecorded == Spec => []NothingUnrecorded
<1>1. TypeInv /\ RecordedInv => NothingUnrecorded
  BY DEF TypeInv, RecordedInv, Recorded, NothingUnrecorded, TokensTxt
<1> QED
  BY <1>1, TypeInit, TypeNext, UnsharedInit, UnsharedNext, RecordedInit, RecordedNext,
     PTL DEF Spec

-----------------------------------------------------------------------------
(* In step *)

\* No line of ours that no live grant vouches for.
Sound(lines) == \A l \in lines : l.name \in managed => Vouched(telemetry, l)

\* Every line kept whose grant is not gone.
Whole(lines) ==
  \A l \in kept : l.name \notin managed \/ Vouched(telemetry, l) => l \in lines

RolesBound == \A u \in Users : Live(u) => perses[u] = telemetry[u].role
Agree ==
  /\ Sound(TokensTxt) /\ Whole(TokensTxt)
  /\ RolesBound /\ \A u \in managed : Live(u) \/ perses[u] = Nothing

\* What a handler has achieved that is alone at work.  No line is lost on the
\* way; lines too many stay until the rewrite, which goes by a snapshot that
\* is still true.
Achieved(k) ==
  /\ k.pc \in {"query", "refresh", "grant", "snapshot", "read", "bind", "unbind"} =>
       Whole(TokensTxt)
  /\ k.pc = "query" /\ k.kind = "command" => Live(k.user)
  /\ k.pc = "grant" => ~ Live(k.user)
  /\ k.pc \in {"grant", "append"} => k.kind = "click"
  /\ k.pc = "append" => Whole(TokensTxt \cup {k.line})
  /\ k.pc \in {"create", "write", "rename"} =>
       /\ Whole(LinesOf(k.text))
       /\ \/ k.kind = "rewrite" /\ Sound(LinesOf(k.text))
          \/ k.kind = "click" /\ k.line \in LinesOf(k.text)
  /\ k.pc \in {"read", "bind", "unbind"} => k.kind = "rewrite"
  /\ k.pc \in {"read", "create", "write", "rename", "bind", "unbind"}
       /\ k.kind = "rewrite" => k.grants = telemetry /\ k.ours = managed
  /\ k.pc \in {"write", "rename"} => k.fd = tmp
  /\ k.pc = "write" => inode[k.fd] = <<>>
  /\ k.pc = "rename" => LinesOf(inode[k.fd]) = LinesOf(k.text)
  /\ k.pc \in {"bind", "unbind"} => Sound(TokensTxt)
  /\ k.pc = "unbind" => RolesBound

StepInv ==
  /\ bot \in {"off", "importing"} => Quiet
  /\ bot = "on" /\ clean =>
       /\ \A s, t \in Tasks : task[s].pc = "idle" \/ task[t].pc = "idle" \/ s = t
       /\ \A t \in Tasks : Achieved(task[t])
       /\ Quiet => Agree

\* A step of the handler at work.
LEMMA AloneAtWork ==
  ASSUME StepInv, bot = "on", clean, bot' = "on", NEW t \in Tasks,
         task[t].pc # "idle", \A s \in Tasks \ {t} : task'[s] = task[s],
         Achieved(task[t])', task'[t].pc = "idle" => Agree'
  PROVE  StepInv'
<1>1. \A s \in Tasks \ {t} : task[s].pc = "idle" /\ task'[s].pc = "idle"
  BY DEF StepInv
<1>2. \A s \in Tasks \ {t} : Achieved(task[s])'
  BY <1>1 DEF Achieved
<1>3. Quiet' => Agree'
  BY DEF Quiet
<1>4. \A s \in Tasks : Achieved(task[s])'
  BY <1>2
<1>5. \A r, s \in Tasks : (task'[r].pc = "idle" \/ task'[s].pc = "idle" \/ r = s)
  BY <1>1
<1> QED
  BY <1>3, <1>4, <1>5 DEF StepInv

\* The handler that goes on to pc with a record.
LEMMA WentOn ==
  ASSUME TypeInv, NEW t \in Tasks, NEW r \in TaskRecord, NEW pc, Goes(t, r, pc)
  PROVE  /\ task'[t].pc = pc /\ task'[t].kind = r.kind /\ task'[t].user = r.user
         /\ task'[t].line = r.line /\ task'[t].text = r.text /\ task'[t].fd = r.fd
         /\ task'[t].grants = r.grants /\ task'[t].ours = r.ours
         /\ \A s \in Tasks \ {t} : task'[s] = task[s]
<1>1. /\ task'[t] = [r EXCEPT !.pc = pc]
      /\ \A s \in Tasks \ {t} : task'[s] = task[s]
  BY GoesTypes DEF TypeInv
<1> QED
  BY <1>1 DEF TaskRecord

\* The end of a write: what was written is what tokens.txt holds.
LEMMA WriteEnds ==
  ASSUME TypeInv, NEW t \in Tasks, Achieved(task[t]),
         task[t].pc \in {"create", "rename"}, Done(t), UNCHANGED ledger,
         TokensTxt' = LinesOf(task[t].text)
  PROVE  Achieved(task[t])' /\ task'[t].pc # "idle"
<1> DEFINE k == task[t]
           c == [k EXCEPT !.fd = 0, !.text = <<>>]
           written == LinesOf(k.text)
<1>1. /\ k \in TaskRecord /\ k.pc \in {"create", "rename"} /\ Whole(written)
      /\ \/ k.kind = "rewrite" /\ Sound(written)
         \/ k.kind = "click" /\ k.line \in written
      /\ k.kind = "rewrite" => k.grants = telemetry /\ k.ours = managed
  BY Holds DEF Achieved
<1>2. \/ k.kind = "rewrite" /\ Goes(t, c, "bind") /\ kept' = kept
      \/ k.kind = "click" /\ Goes(t, c, "snapshot") /\ kept' = kept \cup {k.line}
  BY <1>1 DEF Done
<1>3. TokensTxt' = written /\ telemetry' = telemetry /\ managed' = managed
  BY DEF ledger
<1> HIDE DEF k, written
<1>4. c \in TaskRecord /\ c.kind = k.kind /\ c.grants = k.grants /\ c.ours = k.ours
  <2>1. <<>> \in Seq(Line)
    OBVIOUS
  <2> QED
    BY <1>1, <2>1 DEF TaskRecord
<1> HIDE DEF c
<1>5. CASE k.kind = "rewrite" /\ Goes(t, c, "bind") /\ kept' = kept
  <2>1. task'[t].pc = "bind" /\ task'[t].kind = "rewrite"
        /\ task'[t].grants = telemetry /\ task'[t].ours = managed
    BY <1>1, <1>4, <1>5, WentOn
  <2>2. Whole(TokensTxt)' /\ Sound(TokensTxt)'
    BY <1>1, <1>3, <1>5 DEF Whole, Sound, Vouched
  <2> QED
    BY <1>3, <2>1, <2>2 DEF Achieved
<1>6. CASE k.kind = "click" /\ Goes(t, c, "snapshot") /\ kept' = kept \cup {k.line}
  <2>1. task'[t].pc = "snapshot"
    BY <1>4, <1>6, WentOn
  <2>2. Whole(TokensTxt)'
    BY <1>1, <1>3, <1>6 DEF Whole, Vouched
  <2> QED
    BY <2>1, <2>2 DEF Achieved
<1> QED
  BY <1>2, <1>5, <1>6

\* Up to the text: the ledger's part, and what is read from the file.
LEMMA LedgerProgress ==
  ASSUME TypeInv, NEW t \in Tasks, Achieved(task[t]), clean',
         Query(t) \/ Refresh(t) \/ Record(t) \/ AppendToken(t)
  PROVE  Achieved(task[t])' /\ task'[t].pc # "idle"
<1> DEFINE k == task[t]
           Good == Achieved(task[t])' /\ task'[t].pc # "idle"
<1>1. k \in TaskRecord /\ Carries(k) /\ k.line \in Line
  BY Holds
<1>2. CASE Query(t)
  <2> DEFINE l == [name |-> k.user, secret |-> minted + 1]
             r == [k EXCEPT !.line = l]
  <2>1. /\ k.pc = "query" /\ Whole(TokensTxt) /\ k.user \in Users
        /\ k.kind \in {"command", "click"}
        /\ k.kind = "command" => Live(k.user)
    BY <1>1, <1>2 DEF Query, Achieved, Carries
  <2>2. UNCHANGED <<telemetry, managed, kept, inode, target>>
    BY <1>2 DEF Query, ledger, files
  <2>3. Whole(TokensTxt)'
    BY <2>1, <2>2 DEF Whole, Vouched, TokensTxt
  <2>4. CASE Live(k.user) /\ Goes(t, k, "refresh")
    <3>1. task'[t].pc = "refresh"
      BY <1>1, <2>4, WentOn
    <3> QED
      BY <2>3, <3>1 DEF Achieved
  <2>5. CASE ~ Live(k.user) /\ minted < MaxTokens /\ Goes(t, r, "grant")
    <3> HIDE DEF k
    <3>1. l \in Line
      BY <2>1, <2>5, ProvBoundsAssumption DEF TypeInv, Line, Secrets
    <3> HIDE DEF l
    <3>2. r \in TaskRecord /\ r.user = k.user /\ r.kind = k.kind
      BY <1>1, <3>1 DEF TaskRecord
    <3> HIDE DEF r
    <3>3. task'[t].pc = "grant" /\ task'[t].user = k.user /\ task'[t].kind = "click"
      BY <2>1, <2>5, <3>2, WentOn
    <3>4. ~ Live(task[t].user)'
      BY <2>2, <2>5, <3>3 DEF Live
    <3> QED
      BY <2>3, <3>3, <3>4 DEF Achieved
  <2> QED
    BY <1>2, <2>4, <2>5 DEF Query
<1>3. CASE Refresh(t)
  <2>1. /\ k.pc = "refresh" /\ Whole(TokensTxt) /\ k.user \in Users
        /\ RefreshAccess(k.user, k.role) /\ Goes(t, k, "snapshot")
        /\ UNCHANGED <<managed, kept, inode, target>>
    BY <1>1, <1>3 DEF Refresh, Achieved, Carries, files
  <2>2. \A l \in Line : l.name \in Users /\ Vouched(telemetry, l)' => Vouched(telemetry, l)
    <3> HIDE DEF k
    <3>1. CASE Live(k.user)
      <4>1. telemetry' = [telemetry EXCEPT ![k.user].role = k.role]
        BY <2>1, <3>1 DEF RefreshAccess
      <4>2. telemetry \in Grants /\ telemetry[k.user] \in Grant
        BY <2>1, <3>1, LiveIsGrant DEF TypeInv
      <4>3. /\ telemetry'[k.user].secret = telemetry[k.user].secret
            /\ \A u \in Users \ {k.user} : telemetry'[u] = telemetry[u]
        BY <2>1, <4>1, <4>2 DEF Grants, Grant
      <4> QED
        BY <2>1, <3>1, <4>3 DEF Vouched, Live
    <3>2. CASE ~ Live(k.user)
      BY <2>1, <3>2 DEF RefreshAccess, Vouched
    <3> QED
      BY <3>1, <3>2
  <2>3. Whole(TokensTxt)'
    <3>1. \A l \in kept : l \in Line /\ (l.name \in managed => l.name \in Users)
      BY DEF TypeInv
    <3> QED
      BY <2>1, <2>2, <3>1 DEF Whole, TokensTxt
  <2>4. task'[t].pc = "snapshot"
    BY <1>1, <2>1, WentOn
  <2> QED
    BY <2>3, <2>4 DEF Achieved
<1>4. CASE Record(t)
  <2> DEFINE l == k.line
  <2>1. /\ k.pc = "grant" /\ Whole(TokensTxt) /\ ~ Live(k.user) /\ k.kind = "click"
        /\ l.name = k.user /\ k.user \in Users /\ k.role \in Roles
        /\ UNCHANGED <<kept, inode, target>>
    BY <1>1, <1>4 DEF Record, Achieved, Carries, files
  <2>2. IssueToken(l, k.role) /\ Goes(t, k, "append")
    BY <1>4, <2>1 DEF Record
  <2>3. /\ task'[t].pc = "append" /\ task'[t].kind = "click" /\ task'[t].line = l
    BY <1>1, <2>1, <2>2, WentOn
  <2>4. /\ telemetry'[l.name] = [secret |-> l.secret, role |-> k.role]
        /\ \A u \in Users \ {l.name} : telemetry'[u] = telemetry[u]
        /\ managed' = managed \cup {l.name}
    BY <1>1, <2>1, <2>2, IssueTypes
  <2> HIDE DEF k, l
  <2>5. \A m \in kept : m.name \notin managed' \/ Vouched(telemetry, m)' =>
          m \in TokensTxt \cup {l}
    <3>1. SUFFICES ASSUME NEW m \in kept, m.name \notin managed' \/ Vouched(telemetry, m)'
                   PROVE  m \in TokensTxt \cup {l}
      OBVIOUS
    <3>2. CASE m.name = l.name
      <4>1. m.secret = l.secret /\ m \in Line /\ l \in Line
        BY <1>1, <2>4, <3>1, <3>2 DEF Vouched, TypeInv, l
      <4>2. m = l
        BY <3>2, <4>1 DEF Line
      <4> QED
        BY <4>2
    <3>3. CASE m.name # l.name
      <4>1. m.name \notin managed \/ Vouched(telemetry, m)
        BY <2>4, <3>1, <3>3 DEF Vouched, TypeInv
      <4> QED
        BY <2>1, <4>1 DEF Whole
    <3> QED
      BY <3>2, <3>3
  <2>6. Whole(TokensTxt \cup {task[t].line})'
    BY <2>1, <2>3, <2>5 DEF Whole, TokensTxt
  <2> QED
    BY <2>3, <2>6 DEF Achieved
<1>5. CASE AppendToken(t)
  <2> DEFINE l == k.line
             old == inode[target]
             x == old \o <<l>>
             r == [k EXCEPT !.text = x]
  <2>1. /\ k.kind = "click" /\ Whole(TokensTxt \cup {l})
        /\ UNCHANGED <<telemetry, managed, kept>> /\ Goes(t, r, "create")
    BY <1>5 DEF AppendToken, Reads, Achieved, ledger
  <2>2. old \in Seq(Line) /\ TokensTxt = LinesOf(old)
    BY DEF TypeInv, TokensTxt
  <2> HIDE DEF k, l, old
  <2>3. x \in Seq(Line) /\ LinesOf(x) = LinesOf(old) \cup {l}
    <3>1. x = Append(old, l) /\ l \in Line
      BY <1>1, <2>2 DEF l
    <3>2. Append(old, l) \in Seq(Line) /\ LinesOf(Append(old, l)) = LinesOf(old) \cup {l}
      BY <2>2, <3>1, LinesAppend
    <3> HIDE DEF x
    <3> QED
      BY <3>1, <3>2
  <2> HIDE DEF x
  <2>4. r \in TaskRecord /\ r.kind = k.kind /\ r.line = l /\ r.text = x
    BY <1>1, <2>3 DEF TaskRecord, l
  <2> HIDE DEF r
  <2>5. /\ task'[t].pc = "create" /\ task'[t].kind = "click" /\ task'[t].line = l
        /\ task'[t].text = x
    BY <2>1, <2>4, WentOn
  <2>6. Whole(LinesOf(task[t].text))' /\ l \in LinesOf(x)
    BY <2>1, <2>2, <2>3, <2>5 DEF Whole, Vouched
  <2> QED
    BY <2>5, <2>6 DEF Achieved
<1> QED
  BY <1>2, <1>3, <1>4, <1>5

\* The rewrite: a snapshot that stays true, and the text it makes.
LEMMA RewriteProgress ==
  ASSUME TypeInv, NEW t \in Tasks, Achieved(task[t]), clean', Snapshot(t) \/ Read(t)
  PROVE  Achieved(task[t])' /\ task'[t].pc # "idle"
<1> DEFINE k == task[t]
<1>1. k \in TaskRecord /\ Carries(k) /\ Whole(TokensTxt)
  BY Holds DEF Snapshot, Read, Achieved
<1>2. UNCHANGED <<telemetry, managed, kept, inode, target>>
  BY DEF Snapshot, Read, ledger, files
<1>3. Whole(TokensTxt)'
  BY <1>1, <1>2 DEF Whole, Vouched, TokensTxt
<1>4. CASE Snapshot(t)
  <2> DEFINE r == [k EXCEPT !.grants = telemetry, !.ours = managed, !.kind = "rewrite"]
  <2>1. Goes(t, r, "read") /\ telemetry \in Grants /\ managed \in SUBSET Users
    BY <1>4 DEF Snapshot, TypeInv
  <2> HIDE DEF k
  <2>2. r \in TaskRecord /\ r.grants = telemetry /\ r.ours = managed /\ r.kind = "rewrite"
    BY <1>1, <2>1 DEF TaskRecord, Kinds
  <2> HIDE DEF r
  <2>3. /\ task'[t].pc = "read" /\ task'[t].kind = "rewrite"
        /\ task'[t].grants = telemetry /\ task'[t].ours = managed
    BY <2>1, <2>2, WentOn
  <2> QED
    BY <1>2, <1>3, <2>3 DEF Achieved
<1>5. CASE Read(t)
  <2> DEFINE old == inode[target]
             x == TokensFile(old, k.ours, k.grants)
             r == [k EXCEPT !.text = x]
  <2>1. /\ k.grants = telemetry /\ k.ours = managed /\ k.kind = "rewrite"
        /\ old \in Seq(Line) /\ managed \in SUBSET Users /\ telemetry \in Grants
        /\ TokensTxt = LinesOf(old) /\ TokensTxt' = LinesOf(old)
    <3>1. k.grants = telemetry /\ k.ours = managed /\ k.kind = "rewrite"
      BY <1>5 DEF Read, Achieved
    <3>2. old \in Seq(Line) /\ managed \in SUBSET Users /\ telemetry \in Grants
      BY DEF TypeInv
    <3>3. TokensTxt = LinesOf(old) /\ TokensTxt' = LinesOf(old)
      BY <1>2 DEF TokensTxt
    <3> QED
      BY <3>1, <3>2, <3>3
  <2>2. \/ x = old /\ Goes(t, r, "bind")
        \/ Goes(t, r, "create")
    BY <1>5 DEF Read, Reads
  <2> HIDE DEF k, old
  <2>3. /\ x \in Seq(Line)
        /\ LinesOf(x) = {l \in LinesOf(old) : l.name \notin managed \/ Vouched(telemetry, l)}
    BY <2>1, TokensFileLines
  <2> HIDE DEF x
  <2>4. Whole(LinesOf(x)) /\ Sound(LinesOf(x))
    BY <1>1, <2>1, <2>3 DEF Whole, Sound
  <2>5. r \in TaskRecord /\ r.kind = k.kind /\ r.grants = k.grants /\ r.ours = k.ours
        /\ r.text = x
    BY <1>1, <2>3 DEF TaskRecord
  <2> HIDE DEF r
  <2>6. CASE x = old /\ Goes(t, r, "bind")
    <3>1. /\ task'[t].pc = "bind" /\ task'[t].kind = "rewrite"
          /\ task'[t].grants = telemetry /\ task'[t].ours = managed
      BY <2>1, <2>5, <2>6, WentOn
    <3>2. Sound(TokensTxt)'
      BY <1>2, <2>1, <2>4, <2>6 DEF Sound, Vouched
    <3> QED
      BY <1>2, <1>3, <3>1, <3>2 DEF Achieved
  <2>7. CASE Goes(t, r, "create")
    <3>1. /\ task'[t].pc = "create" /\ task'[t].kind = "rewrite" /\ task'[t].text = x
          /\ task'[t].grants = telemetry /\ task'[t].ours = managed
      BY <2>1, <2>5, <2>7, WentOn
    <3>2. Sound(LinesOf(task[t].text))' /\ Whole(LinesOf(task[t].text))'
      BY <1>2, <2>4, <3>1 DEF Sound, Whole, Vouched
    <3> QED
      BY <1>2, <3>1, <3>2 DEF Achieved
  <2> QED
    BY <2>2, <2>6, <2>7
<1> QED
  BY <1>4, <1>5

\* The file: the temporary one is this handler's alone until it is renamed.
LEMMA FileProgress ==
  ASSUME TypeInv, NEW t \in Tasks, Achieved(task[t]),
         Create(t) \/ Write(t) \/ (Rename(t) /\ tmp # 0)
  PROVE  Achieved(task[t])' /\ task'[t].pc # "idle"
<1> DEFINE k == task[t]
           written == LinesOf(k.text)
<1>1. /\ k \in TaskRecord /\ Carries(k) /\ Whole(written)
      /\ \/ k.kind = "rewrite" /\ Sound(written)
         \/ k.kind = "click" /\ k.line \in written
      /\ k.kind = "rewrite" => k.grants = telemetry /\ k.ours = managed
  BY Holds DEF Create, Write, Rename, Achieved
<1>2. UNCHANGED ledger /\ UNCHANGED <<telemetry, managed>>
  BY DEF Create, Write, Rename, ledger
<1>3. /\ inode \in [Inodes -> Seq(Line)] /\ target \in Inodes
      /\ tmp \in Inodes \cup {0} /\ target # tmp /\ 0 \notin Inodes
  BY DEF TypeInv, Inodes
\* What stays true of the text while kept does not change.
<1>4. ASSUME kept' = kept, task'[t].pc \in {"write", "rename"}, task'[t].kind = k.kind,
             task'[t].text = k.text, task'[t].line = k.line, task'[t].fd = tmp',
             task'[t].grants = k.grants, task'[t].ours = k.ours,
             task'[t].pc = "write" => inode'[tmp'] = <<>>,
             task'[t].pc = "rename" => LinesOf(inode'[tmp']) = written
      PROVE  Achieved(task[t])'
  <2>1. Whole(written)' /\ (Sound(written) => Sound(written)')
    BY <1>1, <1>2, <1>4 DEF Whole, Sound, Vouched
  <2>2. Whole(LinesOf(task[t].text))'
        /\ (Sound(written) => Sound(LinesOf(task[t].text))')
    BY <1>4, <2>1 DEF Whole, Sound
  <2>3. LinesOf(task'[t].text) = written
    BY <1>4
  <2> HIDE DEF k, written
  <2> QED
    BY <1>1, <1>2, <1>4, <2>2, <2>3 DEF Achieved
<1>5. CASE Create(t)
  <2> DEFINE f == IF tmp = 0 THEN Free(t) ELSE tmp
             r == [k EXCEPT !.fd = f]
  <2>1. CASE inode[target] = k.text /\ Done(t) /\ UNCHANGED files
    <3>1. TokensTxt' = written
      BY <2>1 DEF TokensTxt, files
    <3> QED
      BY <1>2, <1>5, <2>1, <3>1, WriteEnds DEF Create
  <2>2. CASE /\ inode' = [inode EXCEPT ![f] = <<>>] /\ tmp' = f
             /\ Goes(t, r, "write") /\ kept' = kept
    <3>1. f \in Inodes
      BY <1>3, FreeInode
    <3> HIDE DEF k, f
    <3>2. /\ r \in TaskRecord /\ r.kind = k.kind /\ r.text = k.text /\ r.line = k.line
          /\ r.fd = f /\ r.grants = k.grants /\ r.ours = k.ours
      BY <1>1, <3>1 DEF TaskRecord
    <3> HIDE DEF r
    <3>3. /\ task'[t].pc = "write" /\ task'[t].kind = k.kind /\ task'[t].text = k.text
          /\ task'[t].line = k.line /\ task'[t].fd = f /\ task'[t].grants = k.grants
          /\ task'[t].ours = k.ours
      BY <2>2, <3>2, WentOn
    <3>4. inode'[f] = <<>>
      BY <1>3, <2>2, <3>1
    <3> QED
      BY <1>4, <2>2, <3>3, <3>4
  <2> QED
    BY <1>5, <2>1, <2>2 DEF Create
<1>6. CASE Write(t)
  <2>1. /\ k.fd = tmp /\ inode[k.fd] = <<>> /\ kept' = kept /\ tmp' = tmp
        /\ Goes(t, k, "rename")
    BY <1>6 DEF Write, Achieved
  <2>2. LinesOf(inode'[k.fd]) = written
    BY <1>6, <2>1, WriteLines
  <2>3. /\ task'[t].pc = "rename" /\ task'[t].kind = k.kind /\ task'[t].text = k.text
        /\ task'[t].line = k.line /\ task'[t].fd = k.fd /\ task'[t].grants = k.grants
        /\ task'[t].ours = k.ours
    BY <1>1, <2>1, WentOn
  <2> QED
    BY <1>4, <2>1, <2>2, <2>3
<1>7. CASE Rename(t) /\ tmp # 0
  <2>1. /\ k.fd = tmp /\ LinesOf(inode[k.fd]) = written /\ Done(t) /\ target' = tmp
        /\ inode' = [i \in Inodes |->
             IF i = tmp \/ i \in Held(t) THEN inode[i] ELSE <<>>]
    BY <1>7 DEF Rename, Achieved
  <2>2. inode'[tmp] = inode[tmp]
    BY <1>3, <1>7, <2>1
  <2>3. TokensTxt' = written
    BY <2>1, <2>2 DEF TokensTxt
  <2> QED
    BY <1>2, <1>7, <2>1, <2>3, WriteEnds DEF Rename
<1> QED
  BY <1>5, <1>6, <1>7

\* The provisioning files, bound and unbound by a snapshot that is still true.
LEMMA BindProgress ==
  ASSUME TypeInv, NEW t \in Tasks, Achieved(task[t]), Bind(t) \/ Unbind(t)
  PROVE  Achieved(task[t])' /\ (task'[t].pc = "idle" => Agree')
<1> DEFINE k == task[t]
<1>1. /\ k \in TaskRecord /\ k.grants = telemetry /\ k.ours = managed
      /\ k.kind = "rewrite" /\ Whole(TokensTxt) /\ Sound(TokensTxt)
  BY Holds DEF Bind, Unbind, Achieved
<1>2. UNCHANGED <<telemetry, managed, kept, inode, target>>
  BY DEF Bind, Unbind, ledger
<1>3. Whole(TokensTxt)' /\ Sound(TokensTxt)'
  BY <1>1, <1>2 DEF Whole, Sound, Vouched, TokensTxt
<1>4. CASE Bind(t)
  <2>1. perses' = Bound(t) /\ Goes(t, k, "unbind")
    BY <1>4 DEF Bind
  <2>2. RolesBound'
    BY <1>1, <1>2, <2>1 DEF RolesBound, Bound, Live
  <2>3. /\ task'[t].pc = "unbind" /\ task'[t].kind = "rewrite"
        /\ task'[t].grants = telemetry /\ task'[t].ours = managed
    BY <1>1, <2>1, WentOn
  <2> QED
    BY <1>2, <1>3, <2>2, <2>3 DEF Achieved
<1>5. CASE Unbind(t)
  <2>1. perses' = Unbound(t) /\ Ends(t) /\ RolesBound
    BY <1>5 DEF Unbind, Achieved
  <2>2. \A u \in Users : perses'[u] = IF u \in managed /\ ~ Live(u) THEN Nothing
                                      ELSE perses[u]
    BY <1>1, <2>1 DEF Unbound, Live
  <2>3. RolesBound'
    BY <1>2, <2>1, <2>2 DEF RolesBound, Live
  <2>4. \A u \in managed' : Live(u)' \/ perses'[u] = Nothing
    BY <1>2, <2>2 DEF Live, TypeInv
  <2>5. task'[t] = Idle
    BY <2>1, EndsTypes DEF TypeInv
  <2>6. task'[t].pc = "idle"
    BY <2>5 DEF Idle
  <2> QED
    BY <1>3, <2>3, <2>4, <2>6 DEF Achieved, Agree
<1> QED
  BY <1>4, <1>5

\* A command that finds no handler at work.
LEMMA ArrivesAlone ==
  ASSUME TypeInv, StepInv, bot = "on", clean, Quiet, NEW t \in Tasks, NEW u \in Users,
         Revoke(t, u) \/ \E held \in Ranks : Command(t, u, held) \/ Click(t, u, held)
  PROVE  StepInv'
<1>1. Agree
  BY DEF StepInv
<1>2. PICK kind \in Kinds, role \in Roles \cup {Nothing}, pc \in {"query", "snapshot"} :
        /\ Arrives(t, For(u, kind, role), pc)
        /\ pc = "query" /\ kind = "command" => Live(u) /\ UNCHANGED ledger
  <2>1. ASSUME Revoke(t, u) PROVE Arrives(t, For(u, "revoke", Nothing), "snapshot")
    BY <2>1 DEF Revoke
  <2>2. ASSUME NEW held \in Ranks, Command(t, u, held)
        PROVE  Arrives(t, For(u, "command", RoleFor(held)), "query") /\ Live(u)
               /\ UNCHANGED ledger
    BY <2>2 DEF Command
  <2>3. ASSUME NEW held \in Ranks, Click(t, u, held)
        PROVE  Arrives(t, For(u, "click", RoleFor(held)), "query")
    BY <2>3 DEF Click
  <2>4. \A held \in Ranks : RoleFor(held) \in Roles
    BY DEF RoleFor, Roles
  <2>5. "revoke" \in Kinds /\ "command" \in Kinds /\ "click" \in Kinds
    BY DEF Kinds
  <2> QED
    BY <2>1, <2>2, <2>3, <2>4, <2>5
<1>3. /\ Goes(t, For(u, kind, role), pc)
      /\ UNCHANGED <<inode, target, kept, bot>>
      /\ managed' = managed
      /\ \A v \in Users : telemetry'[v] = telemetry[v] \/ telemetry'[v] = NoGrant
  <2>1. managed' = managed
        /\ \A v \in Users : telemetry'[v] = telemetry[v] \/ telemetry'[v] = NoGrant
    <3>1. telemetry \in Grants
      BY DEF TypeInv
    <3> QED
      BY <3>1 DEF Revoke, RevokeToken, Command, Click, ledger, Grants
  <2> QED
    BY <1>2, <2>1 DEF Arrives, files
<1>4. Whole(TokensTxt)'
  <2>1. \A l \in kept : l.name \in managed => l.name \in Users
    BY DEF TypeInv
  <2> QED
    BY <1>1, <1>3, <2>1 DEF Agree, Whole, Vouched, TokensTxt
<1>5. For(u, kind, role) \in TaskRecord /\ For(u, kind, role).user = u
      /\ For(u, kind, role).kind = kind
  BY IdleRecord DEF For, TaskRecord, Idle
<1>6. /\ task'[t].pc = pc /\ task'[t].kind = kind /\ task'[t].user = u
      /\ \A s \in Tasks \ {t} : task'[s] = task[s]
  BY <1>3, <1>5, WentOn
<1>7. Achieved(task[t])'
  <2>1. pc = "query" /\ kind = "command" => Live(u)'
    BY <1>2 DEF ledger, Live
  <2> QED
    BY <1>4, <1>6, <2>1 DEF Achieved
<1>8. \A s \in Tasks \ {t} : task'[s].pc = "idle"
  BY <1>6 DEF Quiet
<1>9. \A s \in Tasks \ {t} : Achieved(task[s])'
  BY <1>8 DEF Achieved
<1>10. ~ Quiet' /\ bot' = "on"
  BY <1>3, <1>6 DEF Quiet
<1>11. \A s \in Tasks : Achieved(task[s])'
  BY <1>7, <1>9
<1>12. \A r, s \in Tasks : (task'[r].pc = "idle" \/ task'[s].pc = "idle" \/ r = s)
  BY <1>8
<1> QED
  BY <1>10, <1>11, <1>12 DEF StepInv

\* At the start nothing is at work, and the bot is not on.
LEMMA StepInit == Init => StepInv
BY DEF Init, StepInv, Quiet, Idle

\* Every step keeps what a lone handler has achieved; a second handler or a
\* failure ends the claim until the next boot.
LEMMA StepNext == TypeInv /\ StepInv /\ [Next]_provVars => StepInv'
<1> SUFFICES ASSUME TypeInv, StepInv, [Next]_provVars PROVE StepInv'
  OBVIOUS
<1>1. ASSUME bot' \notin {"off", "importing"}, ~ (bot' = "on" /\ clean') PROVE StepInv'
  BY <1>1 DEF StepInv
<1>2. ASSUME NEW t \in Tasks, TaskStep(t) PROVE StepInv'
  <2>1. task[t].pc # "idle" /\ bot' = bot
    BY <1>2 DEF TaskStep, Query, Refresh, Record, AppendToken, Snapshot, Read, Create,
                Write, Rename, Bind, Unbind
  <2>2. bot \notin {"off", "importing"}
    BY <2>1 DEF StepInv, Quiet
  <2>3. CASE ~ (bot' = "on" /\ clean')
    BY <1>1, <2>1, <2>2, <2>3
  <2>4. CASE bot' = "on" /\ clean'
    <3>1. bot = "on" /\ clean /\ Achieved(task[t])
      <4>1. clean' = clean \/ clean' = FALSE
        BY <1>2 DEF TaskStep, Query, Refresh, Record, AppendToken, Snapshot, Read, Reads,
                    Create, Write, Rename, Bind, Unbind
      <4> QED
        BY <2>1, <2>4, <4>1 DEF StepInv
    <3>2. Rename(t) => tmp # 0
      BY <2>4 DEF Rename
    <3>3. Achieved(task[t])' /\ (task'[t].pc = "idle" => Agree')
      BY <1>2, <2>4, <3>1, <3>2, LedgerProgress, RewriteProgress, FileProgress,
         BindProgress DEF TaskStep
    <3>4. \A s \in Tasks \ {t} : task'[s] = task[s]
      BY <1>2 DEF TaskStep, Query, Refresh, Record, AppendToken, Snapshot, Read, Create,
                  Write, Rename, Bind, Unbind, Done, Goes, Ends, TypeInv
    <3> QED
      BY <2>1, <2>4, <3>1, <3>3, <3>4, AloneAtWork
  <2> QED
    BY <2>3, <2>4
<1>3. ASSUME NEW t \in Tasks, Fails(t) PROVE StepInv'
  <2>1. task[t].pc # "idle" /\ bot' = bot /\ ~ clean'
    BY <1>3 DEF Fails
  <2>2. bot \notin {"off", "importing"}
    BY <2>1 DEF StepInv, Quiet
  <2> QED
    BY <1>1, <2>1, <2>2
<1>4. ASSUME NEW t \in Tasks, Boot(t) PROVE StepInv'
  <2>1. /\ Quiet /\ bot' = "on" /\ kept' = TokensTxt /\ UNCHANGED <<inode, target>>
        /\ Goes(t, [Idle EXCEPT !.kind = "rewrite"], "snapshot")
    BY <1>4 DEF Boot, Rewrites, StepInv, files
  <2>2. [Idle EXCEPT !.kind = "rewrite"] \in TaskRecord
    BY IdleRecord DEF TaskRecord, Kinds, Idle
  <2>3. task'[t].pc = "snapshot" /\ \A s \in Tasks \ {t} : task'[s] = task[s]
    BY <2>1, <2>2, WentOn
  <2>4. Whole(TokensTxt)'
    BY <2>1 DEF Whole, TokensTxt
  <2>5. \A s \in Tasks \ {t} : task'[s].pc = "idle"
    BY <2>1, <2>3 DEF Quiet
  <2>6. \A s \in Tasks \ {t} : Achieved(task[s])'
    BY <2>5 DEF Achieved
  <2>7. Achieved(task[t])'
    BY <2>3, <2>4 DEF Achieved
  <2>8. ~ Quiet'
    BY <2>3 DEF Quiet
  <2>9. \A s \in Tasks : Achieved(task[s])'
    BY <2>6, <2>7
  <2>10. \A r, s \in Tasks : (task'[r].pc = "idle" \/ task'[s].pc = "idle" \/ r = s)
    BY <2>5
  <2> QED
    BY <2>1, <2>8, <2>9, <2>10 DEF StepInv
<1>5. ASSUME NEW t \in Tasks, ImportRewrites(t) PROVE StepInv'
  BY <1>1, <1>5 DEF ImportRewrites
<1>6. ASSUME NEW t \in Tasks, NEW u \in Users,
             Revoke(t, u) \/ \E held \in Ranks : Command(t, u, held) \/ Click(t, u, held)
      PROVE  StepInv'
  <2>1. bot = "on" /\ bot' = "on" /\ clean' = (clean /\ Quiet)
    BY <1>6 DEF Revoke, Command, Click, Arrives
  <2>2. CASE clean /\ Quiet
    BY <1>6, <2>1, <2>2, ArrivesAlone
  <2>3. CASE ~ (clean /\ Quiet)
    BY <1>1, <2>1, <2>3
  <2> QED
    BY <2>2, <2>3
<1>7. CASE Stop
  <2>1. bot' = "off" /\ Quiet'
    BY <1>7 DEF Stop, Quiet, Idle
  <2> QED
    BY <2>1 DEF StepInv
<1>8. CASE StartImport \/ ImportLine \/ ImportEnds
  <2>1. bot' \in {"off", "importing"} /\ Quiet /\ task' = task
    BY <1>8 DEF StartImport, ImportLine, ImportEnds, StepInv
  <2>2. Quiet'
    BY <2>1 DEF Quiet
  <2> QED
    BY <2>1, <2>2 DEF StepInv
<1>9. CASE UNCHANGED provVars
  BY <1>9 DEF StepInv, provVars, ledger, files, Quiet, Agree, Achieved, Sound, Whole,
              RolesBound, TokensTxt, Live, Vouched
<1> QED
  BY <1>2, <1>3, <1>4, <1>5, <1>6, <1>7, <1>8, <1>9 DEF Next

\* While handlers do not overlap and nothing fails, from the boot on: once all
\* are done no line or file is there that the ledger does not vouch for, and none
\* that the boot found, or that was handed over since, is lost while its grant
\* lives.  What was lost before that boot stays lost.
THEOREM UndisturbedStaysInStep == Spec => []InStep
<1>1. TypeInv /\ StepInv => InStep
  <2> SUFFICES ASSUME TypeInv, StepInv, bot = "on", clean, Quiet
               PROVE  /\ \A l \in TokensTxt : l.name \in managed => Vouched(telemetry, l)
                      /\ \A l \in kept :
                           l.name \notin managed \/ Vouched(telemetry, l) => l \in TokensTxt
                      /\ \A u \in managed :
                           perses[u] = IF Live(u) THEN telemetry[u].role ELSE Nothing
    BY DEF InStep
  <2>1. Agree
    BY DEF StepInv
  <2> QED
    BY <2>1 DEF Agree, Sound, Whole, RolesBound, TypeInv
<1> QED
  BY <1>1, TypeInit, TypeNext, StepInit, StepNext, PTL DEF Spec

-----------------------------------------------------------------------------
(* The import *)

\* A line that the import has nothing more to make of: no role is bound to its
\* name, or a grant has been recorded for it.
Settled(l) ==
  l.name \in Users /\ perses[l.name] # Nothing => Vouched(telemetry, l)

\* The lines are those dpsbot left, and who is ours has the grant for one.
OldLines  == \A l \in TokensTxt : l.secret = 0
OldGrants ==
  \A u \in Users : /\ u \in managed => Live(u) /\ telemetry[u].secret = 0
                   /\ Live(u) => u \in managed

\* How far the rewrite after an import is.  Each line of ours has its grant, so
\* it writes the lines it found.
Rewriting(k) ==
  /\ k.pc \in {"idle", "snapshot", "read", "create", "write", "rename", "bind", "unbind"}
  /\ k.pc \notin {"idle", "snapshot"} =>
       k.kind = "rewrite" /\ k.grants = telemetry /\ k.ours = managed
  /\ k.pc \in {"create", "write", "rename"} => LinesOf(k.text) = TokensTxt
  /\ k.pc \in {"write", "rename"} => k.fd = tmp
  /\ k.pc = "write" => inode[k.fd] = <<>>
  /\ k.pc = "rename" => LinesOf(inode[k.fd]) = TokensTxt

\* The lines still to come are all that stands between the file and its grants.
Importing ==
  /\ import.known \subseteq managed
  /\ \A l \in LinesOf(import.todo) : l.secret = 0
  /\ \A l \in TokensTxt : l \in LinesOf(import.todo) \/ Settled(l)

\* One rewrite, alone, of a file each of whose lines has its grant.
Checking ==
  /\ \A l \in TokensTxt : Settled(l)
  /\ \A t \in Tasks : Rewriting(task[t])
  /\ \A s, t \in Tasks : task[s].pc = "idle" \/ task[t].pc = "idle" \/ s = t

\* As long as no bot has served: whatever imports were begun, cut short, or
\* failed, and taken up again.
ImportInv ==
  import.unserved =>
    /\ bot # "on" /\ OldLines /\ OldGrants
    /\ bot # "off" => TokensTxt = LinesOf(import.before)
    /\ bot = "importing" => Importing
    /\ bot = "checking" => Checking

\* So no rewrite has a line to drop.
LEMMA OldSound == OldLines /\ OldGrants /\ managed \subseteq Users => Sound(TokensTxt)
BY DEF OldLines, OldGrants, Sound, Vouched, Live

\* What dpsbot left is as it is found.
LEMMA ImportInit == Init => ImportInv
<1> SUFFICES ASSUME Init PROVE ImportInv
  OBVIOUS
<1>1. OldLines
  <2>1. target \in Inodes
    BY TypeInit DEF TypeInv
  <2> QED
    BY <2>1, InitText DEF OldLines, TokensTxt
<1>2. OldGrants /\ bot = "off"
  BY DEF Init, OldGrants, Live
<1> QED
  BY <1>1, <1>2 DEF ImportInv

\* Unless the ledger or the roles change, what is settled stays so, but that
\* members of ours may be bound and unbound.
LEMMA SettledStays ==
  ASSUME TypeInv, OldLines, OldGrants, UNCHANGED <<telemetry, managed>>,
         \A u \in Users \ managed : perses'[u] = perses[u],
         NEW l \in TokensTxt, Settled(l)
  PROVE  Settled(l)'
<1>1. CASE l.name \in managed
  BY <1>1, OldSound DEF Sound, Settled, Vouched, TypeInv
<1>2. CASE l.name \notin managed
  BY <1>2 DEF Settled, Vouched
<1> QED
  BY <1>1, <1>2

\* An import begins with all its lines to come.
LEMMA ImportBegins ==
  ASSUME TypeInv, ImportInv, StartImport
  PROVE  ImportInv'
<1> DEFINE text == inode[target]
<1>1. /\ import' = [import EXCEPT !.before = text, !.known = managed, !.todo = text]
      /\ bot' = "importing"
      /\ UNCHANGED <<inode, target, telemetry, managed, perses>>
  BY DEF StartImport, ledger, files
<1>2. TokensTxt' = TokensTxt /\ TokensTxt = LinesOf(text)
  BY <1>1 DEF TokensTxt
<1> HIDE DEF text
<1>3. /\ import'.before = text /\ import'.known = managed /\ import'.todo = text
      /\ import'.unserved = import.unserved
  BY <1>1 DEF TypeInv, ImportRecord
<1>4. ASSUME import.unserved
      PROVE  bot' # "on" /\ OldLines' /\ OldGrants' /\ TokensTxt' = LinesOf(import'.before)
             /\ Importing'
  <2>1. OldLines /\ OldGrants
    BY <1>4 DEF ImportInv
  <2>2. OldLines' /\ OldGrants'
    BY <1>1, <1>2, <2>1 DEF OldLines, OldGrants, Live
  <2>3. Importing'
    BY <1>1, <1>2, <1>3, <2>1 DEF Importing, OldLines
  <2> QED
    BY <1>1, <1>2, <1>3, <2>2, <2>3
<1> QED
  BY <1>1, <1>3, <1>4 DEF ImportInv

\* A line that is imported gets its grant, and no other line loses its own.
LEMMA ImportGoesOn ==
  ASSUME TypeInv, ImportInv, ImportLine
  PROVE  ImportInv'
<1> DEFINE rest == Tail(import.todo)
<1>1. /\ bot = "importing" /\ import.todo # <<>> /\ bot' \in {"importing", "off"}
      /\ import' = [import EXCEPT !.todo = rest]
      /\ UNCHANGED <<inode, target, perses>>
  BY DEF ImportLine, files
<1>2. import \in ImportRecord /\ import.todo \in Seq(Line)
  BY DEF TypeInv, ImportRecord
<1>3. /\ import'.before = import.before /\ import'.known = import.known
      /\ import'.todo = rest /\ import'.unserved = import.unserved
  BY <1>1, <1>2 DEF ImportRecord
<1>4. LinesOf(import.todo) = {Head(import.todo)} \cup LinesOf(rest)
  BY <1>1, <1>2, HeadAndTail
<1>5. PICK l \in Line : l = Head(import.todo)
  BY <1>1, <1>2
<1>6. TokensTxt' = TokensTxt /\ TokensTxt \subseteq Line
  BY <1>1 DEF TokensTxt, LinesOf, TypeInv
<1>7. ASSUME import.unserved
      PROVE  OldLines' /\ OldGrants' /\ Importing'
  <2>1. OldLines /\ OldGrants /\ Importing
    BY <1>1, <1>7 DEF ImportInv
  <2>2. OldLines' /\ l.secret = 0 /\ \A k \in LinesOf(rest) : k.secret = 0
    BY <1>4, <1>5, <1>6, <2>1 DEF OldLines, Importing
  <2>3. \/ /\ l.name \in Users /\ perses[l.name] # Nothing
           /\ \E role \in {perses[l.name], "viewer"} : IssueToken(l, role)
        \/ /\ UNCHANGED <<telemetry, managed>>
           /\ \/ l.name \notin Users \ import.known \/ perses[l.name] = Nothing
              \/ Live(l.name) /\ l.name \in Users
    BY <1>5 DEF ImportLine, Imported, ledger
  <2> HIDE DEF rest
  <2>4. CASE UNCHANGED <<telemetry, managed>>
             /\ (l.name \notin Users \ import.known \/ perses[l.name] = Nothing
                 \/ (Live(l.name) /\ l.name \in Users))
    <3>1. l.name \in managed => Vouched(telemetry, l)
      BY <2>1, <2>2 DEF OldGrants, Vouched, Live, TypeInv
    <3>2. Settled(l)
      BY <2>1, <2>4, <3>1 DEF Settled, OldGrants, Importing
    <3>3. \A k \in TokensTxt : k \in LinesOf(rest) \/ Settled(k)'
      BY <1>1, <1>4, <1>5, <2>1, <2>4, <3>2 DEF Importing, Settled, Vouched
    <3>4. OldGrants'
      BY <2>1, <2>4 DEF OldGrants, Live
    <3> QED
      BY <1>3, <1>6, <2>1, <2>2, <2>4, <3>3, <3>4 DEF Importing
  <2>5. ASSUME l.name \in Users, perses[l.name] # Nothing,
               NEW role \in {perses[l.name], "viewer"}, IssueToken(l, role)
        PROVE  OldLines' /\ OldGrants' /\ Importing'
    <3>1. role \in Roles
      BY <2>5 DEF TypeInv, Roles
    <3>2. /\ telemetry'[l.name] = [secret |-> l.secret, role |-> role]
          /\ telemetry'[l.name] # NoGrant
          /\ \A u \in Users \ {l.name} : telemetry'[u] = telemetry[u]
          /\ managed' = managed \cup {l.name}
      BY <1>5, <2>5, <3>1, IssueTypes
    <3>3. telemetry'[l.name].secret = 0
      BY <2>2, <3>2
    <3>4. OldGrants'
      BY <2>1, <3>2, <3>3 DEF OldGrants, Live
    <3>5. ASSUME NEW k \in Line, k.secret = 0, Settled(k) \/ k = l PROVE Settled(k)'
      <4>1. CASE k.name = l.name
        BY <3>2, <3>3, <3>5, <4>1 DEF Settled, Vouched
      <4>2. CASE k.name # l.name
        BY <1>1, <3>2, <3>5, <4>2 DEF Settled, Vouched
      <4> QED
        BY <4>1, <4>2
    <3>6. \A k \in TokensTxt : k \in LinesOf(rest) \/ Settled(k)'
      <4>1. SUFFICES ASSUME NEW k \in TokensTxt, k \notin LinesOf(rest) PROVE Settled(k)'
        OBVIOUS
      <4>2. k \in Line /\ k.secret = 0 /\ (Settled(k) \/ k = l)
        BY <1>4, <1>5, <1>6, <2>1, <4>1 DEF OldLines, Importing
      <4> QED
        BY <3>5, <4>2
    <3>7. import.known \subseteq managed'
      BY <2>1, <3>2 DEF Importing
    <3> QED
      BY <1>3, <1>6, <2>2, <3>4, <3>6, <3>7 DEF Importing
  <2> QED
    BY <2>3, <2>4, <2>5
<1>8. import.unserved => TokensTxt' = LinesOf(import'.before)
  BY <1>1, <1>3, <1>6 DEF ImportInv
<1> QED
  BY <1>1, <1>3, <1>7, <1>8 DEF ImportInv

\* When no line is left, each line has its grant or is not ours.
LEMMA CheckBegins ==
  ASSUME TypeInv, ImportInv, NEW t \in Tasks, ImportRewrites(t)
  PROVE  ImportInv'
<1>1. /\ bot = "importing" /\ bot' = "checking" /\ import.todo = <<>> /\ Quiet
      /\ Goes(t, [Idle EXCEPT !.kind = "rewrite"], "snapshot")
      /\ UNCHANGED <<telemetry, managed, inode, target, perses, import>>
  BY DEF ImportRewrites, Rewrites, ledger, files
<1>2. TokensTxt' = TokensTxt
  BY <1>1 DEF TokensTxt
<1>3. ASSUME import.unserved
      PROVE  OldLines' /\ OldGrants' /\ TokensTxt' = LinesOf(import.before) /\ Checking'
  <2>1. OldLines /\ OldGrants /\ Importing /\ TokensTxt = LinesOf(import.before)
    BY <1>1, <1>3 DEF ImportInv
  <2>2. LinesOf(import.todo) = {}
    BY <1>1 DEF LinesOf
  <2>3. \A l \in TokensTxt : Settled(l)'
    BY <1>1, <2>1, <2>2 DEF Importing, Settled, Vouched
  <2>4. OldLines' /\ OldGrants'
    BY <1>1, <1>2, <2>1 DEF OldLines, OldGrants, Live
  <2>5. [Idle EXCEPT !.kind = "rewrite"] \in TaskRecord
    BY IdleRecord DEF TaskRecord, Kinds, Idle
  <2>6. task'[t].pc = "snapshot" /\ \A s \in Tasks \ {t} : task'[s] = task[s]
    BY <1>1, <2>5, WentOn
  <2>7. \A s \in Tasks \ {t} : task'[s].pc = "idle"
    BY <1>1, <2>6 DEF Quiet
  <2>8. \A s \in Tasks : task'[s].pc \in {"idle", "snapshot"}
    BY <2>6, <2>7
  <2>9. \A s \in Tasks : Rewriting(task[s])'
    BY <2>8 DEF Rewriting
  <2>10. \A l \in TokensTxt' : Settled(l)'
    BY <1>2, <2>3
  <2>11. Checking'
    BY <2>7, <2>9, <2>10 DEF Checking
  <2> QED
    BY <1>2, <2>1, <2>4, <2>11
<1> QED
  BY <1>1, <1>3 DEF ImportInv

\* Each step of the rewrite leaves the lines of tokens.txt what they are.
LEMMA RewriteChangesNothing ==
  ASSUME TypeInv, NEW t \in Tasks, Rewriting(task[t]), Sound(TokensTxt),
         TaskStep(t)
  PROVE  /\ Rewriting(task[t])' /\ TokensTxt' = TokensTxt
         /\ UNCHANGED <<telemetry, managed, bot, import>>
         /\ \A s \in Tasks \ {t} : task'[s] = task[s]
<1> DEFINE k == task[t]
           Fine == /\ Rewriting(task[t])' /\ TokensTxt' = TokensTxt
                   /\ UNCHANGED <<telemetry, managed, bot, import>>
                   /\ \A s \in Tasks \ {t} : task'[s] = task[s]
<1>1. k \in TaskRecord /\ k.text \in Seq(Line)
  BY Holds
<1>2. /\ inode \in [Inodes -> Seq(Line)] /\ target \in Inodes
      /\ tmp \in Inodes \cup {0} /\ target # tmp /\ 0 \notin Inodes
  BY DEF TypeInv, Inodes
<1>3. TokensTxt = LinesOf(inode[target])
  BY DEF TokensTxt
<1>4. CASE Snapshot(t)
  <2> DEFINE r == [k EXCEPT !.grants = telemetry, !.ours = managed, !.kind = "rewrite"]
  <2>1. Goes(t, r, "read") /\ UNCHANGED <<ledger, files, bot, import>>
    BY <1>4 DEF Snapshot
  <2> HIDE DEF k
  <2>2. /\ r \in TaskRecord /\ r.kind = "rewrite" /\ r.grants = telemetry
        /\ r.ours = managed
    BY <1>1 DEF TaskRecord, TypeInv, Kinds
  <2> HIDE DEF r
  <2>3. /\ task'[t].pc = "read" /\ task'[t].kind = "rewrite"
        /\ task'[t].grants = telemetry /\ task'[t].ours = managed
        /\ \A s \in Tasks \ {t} : task'[s] = task[s]
    BY <2>1, <2>2, WentOn
  <2> QED
    BY <2>1, <2>3 DEF Rewriting, ledger, files, TokensTxt
<1>5. CASE Read(t)
  <2>1. /\ k.kind = "rewrite" /\ k.grants = telemetry /\ k.ours = managed
        /\ UNCHANGED <<ledger, files, bot, import>>
    BY <1>5 DEF Read, Rewriting
  <2>2. PICK found \in {inode[target], <<>>} :
          Goes(t, [k EXCEPT !.text = TokensFile(found, k.ours, k.grants)],
               IF TokensFile(found, k.ours, k.grants) = found THEN "bind" ELSE "create")
    BY <1>5 DEF Read
  <2> DEFINE x == TokensFile(found, managed, telemetry)
             pc == IF x = found THEN "bind" ELSE "create"
             r == [k EXCEPT !.text = x]
  <2>3. Goes(t, r, pc)
    BY <2>1, <2>2
  <2>4. x \in Seq(Line) /\ (pc = "create" => LinesOf(x) = TokensTxt)
    <3>1. found \in Seq(Line) /\ managed \in SUBSET Users /\ telemetry \in Grants
      <4>1. <<>> \in Seq(Line)
        OBVIOUS
      <4> QED
        BY <1>2, <4>1 DEF TypeInv
    <3>2. /\ x \in Seq(Line)
          /\ LinesOf(x) = {l \in LinesOf(found) : l.name \notin managed
                                                  \/ Vouched(telemetry, l)}
      <4> HIDE DEF x
      <4>1. x = TokensFile(found, managed, telemetry)
        BY DEF x
      <4> QED
        BY <3>1, <4>1, TokensFileLines
    <3>3. CASE found = inode[target]
      <4> HIDE DEF x
      <4> QED
        BY <1>3, <3>2, <3>3 DEF Sound
    <3>4. CASE found = <<>>
      <4>1. LinesOf(found) = {}
        BY <3>4 DEF LinesOf
      <4>2. x = found
        <5> HIDE DEF x
        <5>1. x \in Seq(Line) /\ LinesOf(x) = {}
          BY <3>2, <4>1
        <5> QED
          BY <3>4, <5>1, NoLines
      <4> QED
        BY <3>2, <4>2
    <3> QED
      BY <3>3, <3>4
  <2>5. pc \in {"bind", "create"}
    OBVIOUS
  <2> HIDE DEF k, x, pc
  <2>6. /\ r \in TaskRecord /\ r.kind = k.kind /\ r.grants = k.grants
        /\ r.ours = k.ours /\ r.text = x
    BY <1>1, <2>4 DEF TaskRecord
  <2> HIDE DEF r
  <2>7. /\ task'[t].pc = pc /\ task'[t].kind = "rewrite"
        /\ task'[t].grants = telemetry /\ task'[t].ours = managed /\ task'[t].text = x
        /\ \A s \in Tasks \ {t} : task'[s] = task[s]
    BY <2>1, <2>3, <2>6, WentOn
  <2>8. TokensTxt' = TokensTxt /\ (pc = "create" => LinesOf(task'[t].text) = TokensTxt)
    BY <2>1, <2>4, <2>7 DEF files, TokensTxt
  <2> QED
    BY <2>1, <2>5, <2>7, <2>8 DEF Rewriting, ledger
<1>6. ASSUME Done(t), k.pc \in {"create", "rename"}, TokensTxt' = TokensTxt,
             UNCHANGED <<telemetry, managed, bot, import>>
      PROVE  Fine
  <2> DEFINE r == [k EXCEPT !.fd = 0, !.text = <<>>]
  <2>1. /\ k.kind = "rewrite" /\ k.grants = telemetry /\ k.ours = managed
        /\ Goes(t, r, "bind")
    BY <1>6 DEF Done, Rewriting
  <2> HIDE DEF k
  <2>2. /\ r \in TaskRecord /\ r.kind = k.kind /\ r.grants = k.grants /\ r.ours = k.ours
    <3>1. <<>> \in Seq(Line)
      OBVIOUS
    <3> QED
      BY <1>1, <3>1 DEF TaskRecord
  <2> HIDE DEF r
  <2>3. /\ task'[t].pc = "bind" /\ task'[t].kind = "rewrite"
        /\ task'[t].grants = telemetry /\ task'[t].ours = managed
        /\ \A s \in Tasks \ {t} : task'[s] = task[s]
    BY <2>1, <2>2, WentOn
  <2> QED
    BY <1>6, <2>3 DEF Rewriting
<1>7. CASE Create(t)
  <2> DEFINE f == IF tmp = 0 THEN Free(t) ELSE tmp
             r == [k EXCEPT !.fd = f]
  <2>1. /\ k.pc = "create" /\ k.kind = "rewrite" /\ k.grants = telemetry
        /\ k.ours = managed /\ LinesOf(k.text) = TokensTxt
        /\ UNCHANGED <<telemetry, managed, bot, import>>
    BY <1>7 DEF Create, Rewriting, ledger
  <2>2. CASE Done(t) /\ UNCHANGED files
    <3>1. TokensTxt' = TokensTxt
      BY <2>2 DEF files, TokensTxt
    <3> QED
      BY <1>6, <2>1, <2>2, <3>1
  <2>3. CASE /\ inode' = [inode EXCEPT ![f] = <<>>] /\ tmp' = f
             /\ Goes(t, r, "write") /\ target' = target
    <3>1. f \in Inodes /\ f # target
      BY <1>2, FreeInode
    <3> HIDE DEF k, f
    <3>2. /\ r \in TaskRecord /\ r.kind = k.kind /\ r.text = k.text
          /\ r.fd = f /\ r.grants = k.grants /\ r.ours = k.ours
      BY <1>1, <3>1 DEF TaskRecord
    <3> HIDE DEF r
    <3>3. /\ task'[t].pc = "write" /\ task'[t].kind = k.kind /\ task'[t].text = k.text
          /\ task'[t].fd = f /\ task'[t].grants = k.grants /\ task'[t].ours = k.ours
          /\ \A s \in Tasks \ {t} : task'[s] = task[s]
      BY <2>3, <3>2, WentOn
    <3>4. inode'[f] = <<>> /\ inode'[target] = inode[target]
      BY <1>2, <2>3, <3>1
    <3>5. TokensTxt' = TokensTxt
      BY <2>3, <3>4 DEF TokensTxt
    <3> QED
      BY <2>1, <2>3, <3>3, <3>4, <3>5 DEF Rewriting
  <2> QED
    BY <1>7, <2>2, <2>3 DEF Create
<1>8. CASE Write(t)
  <2>1. /\ k.pc = "write" /\ k.kind = "rewrite" /\ k.grants = telemetry
        /\ k.ours = managed /\ LinesOf(k.text) = TokensTxt
        /\ k.fd = tmp /\ inode[k.fd] = <<>> /\ Goes(t, k, "rename")
        /\ UNCHANGED <<telemetry, managed, bot, import, target, tmp>>
    BY <1>8 DEF Write, Rewriting, ledger
  <2>2. LinesOf(inode'[k.fd]) = TokensTxt /\ inode'[target] = inode[target]
    BY <1>2, <1>8, <2>1, WriteLines
  <2>3. TokensTxt' = TokensTxt
    BY <2>1, <2>2 DEF TokensTxt
  <2>4. /\ task'[t].pc = "rename" /\ task'[t].kind = k.kind /\ task'[t].text = k.text
        /\ task'[t].fd = k.fd /\ task'[t].grants = k.grants /\ task'[t].ours = k.ours
        /\ \A s \in Tasks \ {t} : task'[s] = task[s]
    BY <1>1, <2>1, WentOn
  <2> QED
    BY <2>1, <2>2, <2>3, <2>4 DEF Rewriting
<1>9. CASE Rename(t)
  <2>1. /\ k.pc = "rename" /\ k.fd = tmp /\ LinesOf(inode[k.fd]) = TokensTxt
        /\ UNCHANGED <<telemetry, managed, bot, import>>
        /\ target' = tmp /\ Done(t)
        /\ inode' = [i \in Inodes |->
             IF i = tmp \/ i \in Held(t) THEN inode[i] ELSE <<>>]
    <3>1. k.pc = "rename" /\ k.fd = tmp /\ LinesOf(inode[k.fd]) = TokensTxt
      BY <1>9 DEF Rename, Rewriting
    <3>2. tmp # 0
      BY <1>1, <3>1, Holds DEF Carries
    <3> QED
      BY <1>9, <3>1, <3>2 DEF Rename, ledger
  <2>2. inode'[tmp] = inode[tmp]
    <3>1. k.fd # 0 /\ tmp \in Inodes
      BY <1>2, <2>1, Holds DEF Carries
    <3> QED
      BY <2>1, <3>1
  <2>3. TokensTxt' = TokensTxt
    BY <2>1, <2>2 DEF TokensTxt
  <2> QED
    BY <1>6, <2>1, <2>3
<1>10. CASE Bind(t)
  <2>1. /\ k.kind = "rewrite" /\ k.grants = telemetry /\ k.ours = managed
        /\ Goes(t, k, "unbind")
        /\ UNCHANGED <<ledger, inode, target, bot, import>>
    BY <1>10 DEF Bind, Rewriting
  <2>2. /\ task'[t].pc = "unbind" /\ task'[t].kind = k.kind
        /\ task'[t].grants = k.grants /\ task'[t].ours = k.ours
        /\ \A s \in Tasks \ {t} : task'[s] = task[s]
    BY <1>1, <2>1, WentOn
  <2> QED
    BY <2>1, <2>2 DEF Rewriting, ledger, TokensTxt
<1>11. CASE Unbind(t)
  <2>1. Ends(t) /\ UNCHANGED <<ledger, inode, target, bot, import>>
    BY <1>11 DEF Unbind
  <2>2. task'[t] = Idle /\ \A s \in Tasks \ {t} : task'[s] = task[s]
    BY <2>1, EndsTypes DEF TypeInv
  <2> QED
    BY <2>1, <2>2 DEF Rewriting, ledger, TokensTxt, Idle
<1>12. ~ (Query(t) \/ Refresh(t) \/ Record(t) \/ AppendToken(t))
  BY DEF Query, Refresh, Record, AppendToken, Rewriting
<1> QED
  BY <1>4, <1>5, <1>7, <1>8, <1>9, <1>10, <1>11, <1>12 DEF TaskStep

\* Nor does it, done or failed half-way, bind or unbind who is not ours.
LEMMA RewriteBindsOurs ==
  ASSUME TypeInv, OldGrants, NEW t \in Tasks, Rewriting(task[t]), TaskStep(t) \/ Fails(t)
  PROVE  \A u \in Users \ managed : perses'[u] = perses[u]
<1>1. ASSUME task[t].pc \in {"bind", "unbind"}, NEW u \in Users \ managed
      PROVE  Bound(t)[u] = perses[u] /\ Unbound(t)[u] = perses[u]
  BY <1>1 DEF Rewriting, OldGrants, Live, Bound, Unbound
<1>2. CASE Fails(t)
  BY <1>1, <1>2 DEF Fails, Underway
<1>3. CASE Bind(t)
  BY <1>1, <1>3 DEF Bind
<1>4. CASE Unbind(t)
  BY <1>1, <1>4 DEF Unbind
<1>5. CASE Snapshot(t) \/ Read(t) \/ Create(t) \/ Write(t) \/ Rename(t)
  BY <1>5 DEF Snapshot, Read, Create, Write, Rename, files
<1>6. ~ (Query(t) \/ Refresh(t) \/ Record(t) \/ AppendToken(t))
  BY DEF Query, Refresh, Record, AppendToken, Rewriting
<1> QED
  BY <1>2, <1>3, <1>4, <1>5, <1>6 DEF TaskStep

\* Every step keeps what the imports before the first start are about.
LEMMA ImportNext == TypeInv /\ StepInv /\ ImportInv /\ [Next]_provVars => ImportInv'
<1> SUFFICES ASSUME TypeInv, StepInv, ImportInv, [Next]_provVars PROVE ImportInv'
  OBVIOUS
\* A step that is the rewrite's, or a failure of it.
<1>1. ASSUME NEW t \in Tasks, task[t].pc # "idle", TaskStep(t) \/ Fails(t),
             UNCHANGED <<telemetry, managed, bot, import>>, TokensTxt' = TokensTxt,
             Rewriting(task[t]) => Rewriting(task[t])',
             \A s \in Tasks \ {t} : task'[s] = task[s]
      PROVE  ImportInv'
  <2>1. bot \notin {"off", "importing"}
    BY <1>1 DEF StepInv, Quiet
  <2>2. ASSUME import.unserved PROVE bot = "checking" /\ OldLines' /\ OldGrants' /\ Checking'
                                     /\ TokensTxt' = LinesOf(import.before)
    <3>1. /\ bot = "checking" /\ Checking /\ OldLines /\ OldGrants
          /\ TokensTxt = LinesOf(import.before)
      BY <2>1, <2>2 DEF ImportInv, TypeInv
    <3>2. OldLines' /\ OldGrants'
      BY <1>1, <3>1 DEF OldLines, OldGrants, Live
    <3>3. \A u \in Users \ managed : perses'[u] = perses[u]
      BY <1>1, <3>1, RewriteBindsOurs DEF Checking
    <3>4. \A l \in TokensTxt : Settled(l)'
      BY <1>1, <3>1, <3>3, SettledStays DEF Checking
    <3>5. \A s \in Tasks \ {t} : task[s].pc = "idle" /\ task'[s].pc = "idle"
      BY <1>1, <3>1 DEF Checking
    <3>6. \A s \in Tasks \ {t} : Rewriting(task[s])'
      BY <3>5 DEF Rewriting
    <3>7. Rewriting(task[t])'
      BY <1>1, <3>1 DEF Checking
    <3>8. \A l \in TokensTxt' : Settled(l)'
      BY <1>1, <3>4
    <3>9. \A s \in Tasks : Rewriting(task[s])'
      BY <3>6, <3>7
    <3>10. Checking'
      BY <3>5, <3>8, <3>9 DEF Checking
    <3> QED
      BY <1>1, <3>1, <3>2, <3>10
  <2> QED
    BY <1>1, <2>1, <2>2 DEF ImportInv
<1>2. ASSUME NEW t \in Tasks, TaskStep(t), import.unserved PROVE ImportInv'
  <2>1. task[t].pc # "idle"
    BY <1>2 DEF TaskStep, Query, Refresh, Record, AppendToken, Snapshot, Read, Create,
                Write, Rename, Bind, Unbind
  <2>2. bot \notin {"off", "importing"}
    BY <2>1 DEF StepInv, Quiet
  <2>3. Checking /\ OldLines /\ OldGrants
    BY <1>2, <2>2 DEF ImportInv, TypeInv
  <2>4. Sound(TokensTxt)
    BY <2>3, OldSound DEF TypeInv
  <2>5. /\ Rewriting(task[t])' /\ TokensTxt' = TokensTxt
        /\ UNCHANGED <<telemetry, managed, bot, import>>
        /\ \A s \in Tasks \ {t} : task'[s] = task[s]
    BY <1>2, <2>3, <2>4, RewriteChangesNothing DEF Checking
  <2> QED
    BY <1>1, <1>2, <2>1, <2>5
<1>3. ASSUME NEW t \in Tasks, Fails(t), import.unserved PROVE ImportInv'
  <2>1. task[t].pc # "idle" /\ bot' = bot
    BY <1>3 DEF Fails
  <2>2. bot \notin {"off", "importing"}
    BY <2>1 DEF StepInv, Quiet
  <2>3. Checking
    BY <1>3, <2>2 DEF ImportInv, TypeInv
  <2>4. Ends(t)
    BY <1>3, <2>3 DEF Fails, Checking, Rewriting
  <2>5. task'[t] = Idle /\ \A s \in Tasks \ {t} : task'[s] = task[s]
    BY <2>4, EndsTypes DEF TypeInv
  <2>6. Rewriting(task[t])'
    BY <2>5 DEF Rewriting, Idle
  <2>7. UNCHANGED <<telemetry, managed, bot, import>> /\ TokensTxt' = TokensTxt
    BY <1>3 DEF Fails, ledger, TokensTxt
  <2> QED
    BY <1>1, <1>3, <2>1, <2>5, <2>6, <2>7
<1>4. ASSUME NEW t \in Tasks, TaskStep(t) \/ Fails(t) PROVE ImportInv'
  <2>1. import' = import
    BY <1>4 DEF TaskStep, Query, Refresh, Record, AppendToken, Snapshot, Read, Create,
                Write, Rename, Bind, Unbind, Fails
  <2> QED
    BY <1>2, <1>3, <1>4, <2>1 DEF ImportInv
<1>5. ASSUME NEW t \in Tasks, ImportRewrites(t) PROVE ImportInv'
  BY <1>5, CheckBegins
<1>6. CASE StartImport
  BY <1>6, ImportBegins
<1>7. CASE ImportLine
  BY <1>7, ImportGoesOn
<1>8. CASE Stop \/ ImportEnds
  <2>1. bot' = "off" /\ UNCHANGED <<telemetry, managed, inode, target, import>>
    BY <1>8 DEF Stop, ImportEnds, ledger, files
  <2>2. (OldLines => OldLines') /\ (OldGrants => OldGrants')
    BY <2>1 DEF OldLines, OldGrants, Live, TokensTxt
  <2> QED
    BY <2>1, <2>2 DEF ImportInv
<1>9. ASSUME NEW t \in Tasks, Boot(t) PROVE ImportInv'
  <2>1. ~ import'.unserved
    BY <1>9 DEF Boot, TypeInv, ImportRecord
  <2> QED
    BY <2>1 DEF ImportInv
<1>10. ASSUME NEW t \in Tasks, NEW u \in Users,
             Revoke(t, u) \/ \E held \in Ranks : Command(t, u, held) \/ Click(t, u, held)
      PROVE  ImportInv'
  <2>1. bot = "on" /\ import' = import
    BY <1>10 DEF Revoke, Command, Click, Arrives
  <2> QED
    BY <2>1 DEF ImportInv
<1>11. CASE UNCHANGED provVars
  BY <1>11 DEF provVars, ledger, files, ImportInv, Importing, Checking, Settled, Rewriting,
              OldLines, OldGrants, Live, Vouched, TokensTxt
<1> QED
  BY <1>4, <1>5, <1>6, <1>7, <1>8, <1>9, <1>10, <1>11 DEF Next

\* Whatever dpsbot left and whoever is bound to a role, and however often an
\* import was cut short or failed before: one that is not cut short, as long as
\* no bot has served, ends with the lines in tokens.txt it began with, and with
\* a grant for each that names a member bound to a role.
THEOREM ImportsChangeNothing == Spec => ImportChangesNothing
<1> DEFINE Act == ImportFinishes /\ import.unserved =>
                    /\ TokensTxt = LinesOf(import.before)
                    /\ \A l \in TokensTxt :
                         l.name \in Users /\ perses[l.name] # Nothing =>
                           Vouched(telemetry, l)
<1>1. TypeInv /\ StepInv /\ ImportInv /\ [Next]_provVars => [Act]_provVars
  BY DEF ImportInv, Checking, ImportFinishes, Settled
<1> HIDE DEF Act
<1>2. Spec => [][Act]_provVars
  BY <1>1, TypeInit, TypeNext, StepInit, StepNext, ImportInit, ImportNext, PTL DEF Spec
<1>3. ImportChangesNothing <=> [][Act]_provVars
  BY DEF ImportChangesNothing, Act
<1> QED
  BY <1>2, <1>3
=============================================================================
