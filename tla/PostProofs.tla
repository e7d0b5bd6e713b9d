----------------------------- MODULE PostProofs -----------------------------
(***************************************************************************)
(* Proofs about the auction timers and the posts: the scheduler never acts *)
(* early on a list that has grown old; no change that a post owes is lost  *)
(* among the handlers and edits that pass it on; and no post goes back.    *)
(***************************************************************************)
EXTENDS AuctionPosts, SumLemmas, SequenceTheorems

-----------------------------------------------------------------------------
(* The list of a cycle *)

\* What is left of an entry, and what comes first.
LEMMA StepsOf ==
  ASSUME NEW s \in Steps, s # <<>>
  PROVE  /\ Head(s) \in {"close", "finalize"} /\ Tail(s) \in Steps
         /\ Head(s) = "finalize" => s = <<"finalize">> /\ Tail(s) = <<>>
         /\ Head(s) = "close" =>
              \/ s = <<"close">> /\ Tail(s) = <<>>
              \/ s = <<"close", "finalize">> /\ Tail(s) = <<"finalize">>
<1>1. /\ Head(<<"close">>) = "close" /\ Tail(<<"close">>) = <<>>
      /\ Head(<<"finalize">>) = "finalize" /\ Tail(<<"finalize">>) = <<>>
      /\ Head(<<"close", "finalize">>) = "close"
  OBVIOUS
<1>2. Tail(<<"close", "finalize">>) = <<"finalize">>
  OBVIOUS
<1>3. s = <<"close">> \/ s = <<"finalize">> \/ s = <<"close", "finalize">>
  BY DEF Steps
<1>4. <<>> \in Steps /\ <<"finalize">> \in Steps
  BY DEF Steps
<1> QED
  BY <1>1, <1>2, <1>3, <1>4, Zenon

DueEntry == [id : AuctionIds, steps : Steps]

\* An entry of the list, as far as it is still to be done, is due at this
\* moment, whatever became of its auction since the list was read.
Still(steps, x, t) ==
  /\ x.status # "none"
  /\ steps = <<"close", "finalize">> => x.flavor = "roll"
  /\ steps = <<"finalize">> => x.status # "open"
  /\ x.status = "open" /\ steps # <<>> => x.deadline <= t
  /\ x.status = "closed" /\ steps \in {<<"finalize">>, <<"close", "finalize">>} =>
       \/ x.flavor = "long" /\ x.deadline + Grace <= t
       \/ x.flavor = "roll" /\ x.deadline <= t

Timely(e)     == Still(e.steps, auctions[e.id], now)
TimelyNext(e) == Still(e.steps, auctions'[e.id], now')

SchedInv ==
  /\ SchedTypeOK
  /\ cycle.pc = "act" <=> cycle.due # <<>>
  /\ \A i \in 1..Len(cycle.due) : Timely(cycle.due[i])

LEMMA SchedStarts == SchedInit => SchedInv
<1> SUFFICES ASSUME SchedInit PROVE SchedInv
  OBVIOUS
<1>1. auctions \in [AuctionIds -> Auction]
  BY DEF SchedInit, Auction, Statuses
<1>2. cycle \in Cycle /\ cycle.pc # "act" /\ cycle.due = <<>>
  BY DEF SchedInit, Cycle, Asleep
<1> QED
  BY <1>1, <1>2 DEF SchedInit, SchedInv, SchedTypeOK

\* A cycle that rests or is off.
LEMMA AsleepTypes ==
  ASSUME NEW pc \in {"off", "rest"}
  PROVE  /\ Asleep(pc) \in Cycle /\ Asleep(pc).pc = pc
         /\ Asleep(pc).due = <<>> /\ Asleep(pc).wrote = 0
BY DEF Asleep, Cycle

\* An auction moves on, by whoever's command.
LEMMA AuctionMoves ==
  ASSUME SchedTypeOK, NEW a \in AuctionIds,
         \/ \E f \in Flavors, d \in Durations : Open(a, f, d)
         \/ Change(a) \/ Close(a, TRUE) \/ Close(a, FALSE) \/ Finalize(a) \/ Cancel(a)
  PROVE  /\ auctions' \in [AuctionIds -> Auction]
         /\ \A b \in AuctionIds \ {a} : auctions'[b] = auctions[b]
         /\ auctions'[a].version = auctions[a].version + 1 \/ Status(a) = "none"
         /\ auctions'[a].version > 0
         /\ auctions'[a].status # "none"
         /\ Status(a) # "none" =>
              /\ auctions'[a].flavor = auctions[a].flavor
              /\ auctions'[a].status = "open" =>
                   Status(a) = "open" /\ auctions'[a].deadline = auctions[a].deadline
              /\ auctions'[a].status = "closed" =>
                   /\ Status(a) = "open"
                   /\ auctions'[a].deadline \in {now, auctions[a].deadline}
<1>1. /\ auctions \in [AuctionIds -> Auction] /\ now \in Nat /\ auctions[a] \in Auction
  BY DEF SchedTypeOK
<1>2. CASE \E f \in Flavors, d \in Durations : Open(a, f, d)
  <2>1. PICK f \in Flavors, d \in Durations : Open(a, f, d)
    BY <1>2
  <2>2. [status |-> "open", flavor |-> f, deadline |-> now + d, version |-> 1] \in Auction
    BY <1>1, FlavorsAssumption, DurationsAssumption DEF Auction, Statuses
  <2> QED
    BY <1>1, <2>1, <2>2 DEF Open
<1>3. ASSUME NEW st \in Statuses \ {"none"}, NEW d \in {now, auctions[a].deadline},
             Becomes(a, st, d)
      PROVE  /\ auctions' \in [AuctionIds -> Auction]
             /\ \A b \in AuctionIds \ {a} : auctions'[b] = auctions[b]
             /\ auctions'[a].version = auctions[a].version + 1
             /\ auctions'[a].version > 0
             /\ auctions'[a].flavor = auctions[a].flavor
             /\ auctions'[a].status = st /\ auctions'[a].deadline = d
  <2> DEFINE x == auctions[a]
             y == [x EXCEPT !.status = st, !.deadline = d, !.version = x.version + 1]
  <2>1. auctions' = [auctions EXCEPT ![a] = y]
    BY <1>3 DEF Becomes
  <2>2. x \in Auction /\ d \in Nat /\ st \in Statuses
    BY <1>1 DEF Auction
  <2>3. x.version \in Nat /\ x.version + 1 \in Nat /\ x.version + 1 > 0
    BY <2>2 DEF Auction
  <2> HIDE DEF x
  <2>4. /\ y \in Auction /\ y.version = x.version + 1 /\ y.version > 0
        /\ y.flavor = x.flavor /\ y.status = st /\ y.deadline = d
    BY <2>2, <2>3 DEF Auction
  <2> HIDE DEF y
  <2> QED
    BY <1>1, <2>1, <2>4 DEF x
<1>4. {"open", "closed", "finalized", "cancelled"} \subseteq Statuses \ {"none"}
  BY DEF Statuses
<1>5. CASE Change(a)
  <2>1. Status(a) = "open" /\ Becomes(a, "open", auctions[a].deadline)
    BY <1>5 DEF Change
  <2> QED
    BY <1>3, <1>4, <2>1
<1>6. CASE Close(a, TRUE) \/ Close(a, FALSE)
  <2>1. /\ Status(a) = "open"
        /\ \E d \in {now, auctions[a].deadline} : Becomes(a, "closed", d)
    BY <1>6 DEF Close
  <2> QED
    BY <1>3, <1>4, <2>1
<1>7. CASE Finalize(a)
  <2>1. Status(a) = "closed" /\ Becomes(a, "finalized", auctions[a].deadline)
    BY <1>7 DEF Finalize
  <2> QED
    BY <1>3, <1>4, <2>1
<1>8. CASE Cancel(a)
  <2>1. Status(a) \in {"open", "closed"} /\ Becomes(a, "cancelled", auctions[a].deadline)
    BY <1>8 DEF Cancel
  <2> QED
    BY <1>3, <1>4, <2>1
<1> QED
  BY <1>2, <1>5, <1>6, <1>7, <1>8

\* What is due stays due, whoever moves the auction on meanwhile.
LEMMA TimelyStays ==
  ASSUME SchedTypeOK, now' = now, NEW e \in DueEntry, Timely(e), NEW a \in AuctionIds,
         \/ \E f \in Flavors, d \in Durations : Open(a, f, d)
         \/ Change(a) \/ Close(a, TRUE) \/ Close(a, FALSE) \/ Finalize(a) \/ Cancel(a)
  PROVE  TimelyNext(e)
<1> DEFINE i == e.id
           s == e.steps
<1>1. i \in AuctionIds /\ s \in Steps /\ auctions[i] \in Auction /\ now \in Nat
  BY DEF DueEntry, SchedTypeOK
<1>2. CASE i # a
  <2>1. auctions'[i] = auctions[i]
    BY <1>1, <1>2, AuctionMoves
  <2> QED
    BY <2>1 DEF Timely, TimelyNext, Still
<1>3. CASE i = a
  <2>1. /\ auctions'[i].status # "none" /\ auctions'[i].flavor = auctions[i].flavor
        /\ auctions'[i].status = "open" =>
             auctions[i].status = "open" /\ auctions'[i].deadline = auctions[i].deadline
        /\ auctions'[i].status = "closed" =>
             /\ auctions[i].status = "open"
             /\ auctions'[i].deadline \in {now, auctions[i].deadline}
    BY <1>3, AuctionMoves DEF Status, Timely, Still
  <2>2. <<"finalize">> # <<>> /\ <<"close", "finalize">> # <<>>
    OBVIOUS
  <2>3. /\ s = <<"close", "finalize">> => auctions[i].flavor = "roll"
        /\ s = <<"finalize">> => auctions[i].status # "open"
        /\ auctions[i].status = "open" /\ s # <<>> => auctions[i].deadline <= now
    BY DEF Timely, TimelyNext, Still
  <2> HIDE DEF i, s
  <2>4. auctions'[i].status = "closed" /\ s \in {<<"finalize">>, <<"close", "finalize">>} =>
          auctions'[i].flavor = "roll" /\ auctions'[i].deadline <= now
    BY <1>1, <2>1, <2>2, <2>3
  <2>5. /\ auctions'[i].status # "none"
        /\ s = <<"close", "finalize">> => auctions'[i].flavor = "roll"
        /\ s = <<"finalize">> => auctions'[i].status # "open"
        /\ auctions'[i].status = "open" /\ s # <<>> => auctions'[i].deadline <= now
    BY <2>1, <2>3
  <2> QED
    BY <2>4, <2>5 DEF Timely, TimelyNext, Still, i, s
<1> QED
  BY <1>2, <1>3

\* A command on an auction, whoever gives it.
Command(a) ==
  \/ \E f \in Flavors, d \in Durations : Open(a, f, d)
  \/ Change(a) \/ Close(a, TRUE) \/ Close(a, FALSE) \/ Finalize(a) \/ Cancel(a)

\* The first of the list.
LEMMA EntryOf ==
  ASSUME SchedInv, cycle.pc = "act"
  PROVE  /\ cycle.due \in Seq(DueEntry) /\ cycle.due # <<>> /\ Len(cycle.due) \in Nat \ {0}
         /\ Entry = cycle.due[1] /\ Entry \in DueEntry /\ Timely(Entry)
         /\ Entry.id \in AuctionIds /\ Entry.steps \in Steps
<1>1. cycle.due \in Seq(DueEntry) /\ cycle.due # <<>>
  BY DEF SchedInv, SchedTypeOK, Cycle, DueEntry
<1> DEFINE d == cycle.due
<1>2. Entry = Head(d) /\ \A i \in 1..Len(d) : Timely(d[i])
  BY DEF Entry, SchedInv
<1> HIDE DEF d
<1>3. d \in Seq(DueEntry) /\ d # <<>>
  BY <1>1 DEF d
<1>4. Len(d) \in Nat \ {0} /\ Head(d) = d[1] /\ d[1] \in DueEntry
  BY <1>3
<1>5. Entry = d[1] /\ Entry \in DueEntry /\ Timely(d[1])
  BY <1>2, <1>4
<1> QED
  BY <1>1, <1>4, <1>5 DEF d, DueEntry

\* The list that is read: the entries due at this moment, in order.
LEMMA DueIsTimely ==
  ASSUME SchedInv, ReadDue
  PROVE  /\ cycle' \in Cycle /\ cycle'.pc = "act" /\ cycle'.due # <<>> /\ cycle'.wrote = 0
         /\ \A i \in 1..Len(cycle'.due) : Timely(cycle'.due[i])
<1> DEFINE S == {[id |-> a, steps |-> DueSteps(a)] : a \in Overdue}
           n == Cardinality(S)
<1>1. IsFiniteSet(S) /\ S # {}
  <2>1. IsFiniteSet(Overdue)
    BY AuctionIdsAssumption, FS_Subset DEF Overdue
  <2> DEFINE f == [a \in Overdue |-> [id |-> a, steps |-> DueSteps(a)]]
  <2>2. f \in Surjection(Overdue, S)
    BY DEF Surjection
  <2> QED
    BY <2>1, <2>2, FS_Surjection DEF ExistsSurjection, ReadDue
<1>2. n \in Nat /\ n # 0
  BY <1>1, FS_CardinalityType, FS_EmptySet
<1>3. ASSUME NEW e \in S PROVE e \in DueEntry /\ Timely(e)
  <2>1. PICK a \in Overdue : e = [id |-> a, steps |-> DueSteps(a)]
    OBVIOUS
  <2>2. a \in AuctionIds /\ auctions[a] \in Auction
    BY DEF Overdue, SchedInv, SchedTypeOK
  <2> DEFINE x == auctions[a]
             st == DueSteps(a)
  <2>3. /\ <<"close">> # <<>> /\ <<"finalize">> # <<>> /\ <<"close", "finalize">> # <<>>
        /\ <<"close">> # <<"finalize">> /\ <<"close">> # <<"close", "finalize">>
        /\ <<"finalize">> # <<"close", "finalize">>
    OBVIOUS
  <2>4. \/ x.status = "open" /\ x.deadline <= now
             /\ st = IF x.flavor = "roll" THEN <<"close", "finalize">> ELSE <<"close">>
        \/ x.status = "closed" /\ x.flavor = "long" /\ x.deadline + Grace <= now
             /\ st = <<"finalize">>
        \/ x.status = "closed" /\ x.flavor = "roll" /\ x.deadline <= now
             /\ st = <<"finalize">>
    BY DEF DueSteps, Overdue
  <2>5. st \in Steps
    BY <2>4 DEF Steps
  <2>6. e.id = a /\ e.steps = st
    BY <2>1
  <2>7. Timely(e)
    <3> HIDE DEF x, st
    <3>1. /\ x.status # "none"
          /\ st = <<"close", "finalize">> => x.flavor = "roll"
          /\ st = <<"finalize">> => x.status # "open"
          /\ x.status = "open" /\ st # <<>> => x.deadline <= now
          /\ x.status = "closed" /\ st \in {<<"finalize">>, <<"close", "finalize">>} =>
               \/ x.flavor = "long" /\ x.deadline + Grace <= now
               \/ x.flavor = "roll" /\ x.deadline <= now
      BY <2>3, <2>4
    <3> QED
      BY <2>6, <3>1 DEF Timely, TimelyNext, Still, x
  <2>8. e \in DueEntry
    BY <2>1, <2>2, <2>5 DEF DueEntry
  <2> QED
    BY <2>7, <2>8
<1> HIDE DEF S
<1>4. PICK due \in InOrder(S) : cycle' = [pc |-> "act", wrote |-> 0, due |-> due]
  BY DEF ReadDue, S
<1>5. due \in [1..n -> S]
  BY DEF InOrder
<1> HIDE DEF n
<1>6. due \in Seq(DueEntry) /\ Len(due) = n /\ due # <<>>
  BY <1>2, <1>3, <1>5
<1>7. \A i \in 1..Len(due) : Timely(due[i])
  BY <1>3, <1>5, <1>6
<1>8. cycle' \in Cycle
  BY <1>4, <1>6 DEF Cycle, DueEntry
<1> QED
  BY <1>4, <1>6, <1>7, <1>8

\* The list with the steps of the first entry set.
LEMMA StepsSet ==
  ASSUME NEW d \in Seq(DueEntry), d # <<>>, NEW steps \in Steps
  PROVE  LET e == [d EXCEPT ![1].steps = steps] IN
         /\ e \in Seq(DueEntry) /\ e # <<>> /\ Len(e) = Len(d)
         /\ e[1].id = d[1].id /\ e[1].steps = steps /\ e[1] \in DueEntry
         /\ Head(e) = e[1]
         /\ \A i \in 2..Len(d) : e[i] = d[i]
<1> DEFINE n == Len(d)
           r == [d[1] EXCEPT !.steps = steps]
           e == [d EXCEPT ![1] = r]
<1>1. n \in Nat \ {0} /\ d \in [1..n -> DueEntry] /\ d[1] \in DueEntry
  OBVIOUS
<1>2. r \in DueEntry /\ r.id = d[1].id /\ r.steps = steps
  BY <1>1 DEF DueEntry
<1> HIDE DEF r, n
<1>3. e \in [1..n -> DueEntry] /\ e[1] = r /\ \A i \in 2..n : e[i] = d[i]
  BY <1>1, <1>2
<1> HIDE DEF e
<1>4. e \in Seq(DueEntry) /\ Len(e) = n /\ e # <<>>
  BY <1>1, <1>3
<1>5. Head(e) = e[1]
  BY <1>4
<1> QED
  BY <1>2, <1>3, <1>4, <1>5 DEF e, n, r

\* A command of the list that the ledger takes.
LEMMA FireKeeps ==
  ASSUME SchedInv, Fire
  PROVE  /\ SchedInv' /\ Command(Entry.id) /\ cycle'.pc = "act"
         /\ Entry'.id = Entry.id /\ Entry'.steps = Tail(Entry.steps)
         /\ cycle'.wrote = auctions'[Entry.id].version
<1> DEFINE a == Entry.id
           rest == Tail(Entry.steps)
           v == auctions'[a].version
           e == [cycle.due EXCEPT ![1].steps = rest]
<1>1. /\ cycle.pc = "act" /\ Entry.steps # <<>> /\ Accepted /\ faults' = faults /\ now' = now
      /\ cycle' = [cycle EXCEPT !.due[1].steps = rest, !.wrote = v]
  BY DEF Fire, Pending
<1>2. /\ cycle.due \in Seq(DueEntry) /\ cycle.due # <<>> /\ Len(cycle.due) \in Nat \ {0}
      /\ Entry = cycle.due[1] /\ Entry \in DueEntry /\ Timely(Entry)
      /\ a \in AuctionIds /\ Entry.steps \in Steps
  BY <1>1, EntryOf
<1>3. \/ Head(Entry.steps) = "close" /\ Status(a) = "open" /\ Close(a, FALSE)
      \/ Head(Entry.steps) = "finalize" /\ Status(a) = "closed" /\ Finalize(a)
  BY <1>1, <1>2, StepsOf DEF Fire, Accepted
<1>4. Command(a)
  BY <1>3 DEF Command
<1>5. SchedTypeOK
  BY DEF SchedInv
<1>6. /\ auctions' \in [AuctionIds -> Auction] /\ v \in Nat
      /\ \A b \in AuctionIds \ {a} : auctions'[b] = auctions[b]
  <2>1. /\ auctions' \in [AuctionIds -> Auction]
        /\ \A b \in AuctionIds \ {a} : auctions'[b] = auctions[b]
    BY <1>2, <1>4, <1>5, AuctionMoves DEF Command
  <2>2. auctions'[a] \in Auction
    BY <1>2, <2>1
  <2> QED
    BY <2>1, <2>2 DEF Auction
<1>7. rest \in Steps
  BY <1>1, <1>2, StepsOf
<1>8. /\ e \in Seq(DueEntry) /\ e # <<>> /\ Len(e) = Len(cycle.due)
      /\ e[1].id = a /\ e[1].steps = rest /\ e[1] \in DueEntry
      /\ Head(e) = e[1]
      /\ \A i \in 2..Len(cycle.due) : e[i] = cycle.due[i]
  <2> DEFINE d == cycle.due
  <2>1. d \in Seq(DueEntry) /\ d # <<>> /\ Entry = d[1]
    BY <1>2
  <2> HIDE DEF rest, d
  <2>2. e = [d EXCEPT ![1].steps = rest]
    BY DEF d
  <2> HIDE DEF e
  <2> QED
    BY <1>7, <2>1, <2>2, StepsSet DEF d
<1>9. cycle'.pc = "act" /\ cycle'.due = e /\ cycle'.wrote = v /\ cycle' \in Cycle
  <2>1. cycle \in Cycle
    BY <1>5 DEF SchedTypeOK
  <2> HIDE DEF v, rest
  <2>2. cycle'.pc = "act" /\ cycle'.due = e /\ cycle'.wrote = v
    BY <1>1, <2>1 DEF Cycle
  <2>3. cycle' = [pc |-> "act", due |-> e, wrote |-> v]
    BY <1>1, <2>1 DEF Cycle
  <2> HIDE DEF e
  <2>4. cycle' \in Cycle
    BY <1>6, <1>8, <2>3 DEF Cycle, DueEntry
  <2> QED
    BY <2>2, <2>4
<1>10. \A d \in DueEntry : Timely(d) => TimelyNext(d)
  BY <1>1, <1>2, <1>4, <1>5, TimelyStays DEF Command
<1>11. TimelyNext(e[1])
  <2>1. Timely(Entry)
    BY <1>2
  <2>2. auctions[a] \in Auction /\ auctions'[a].status \in {"closed", "finalized"}
        /\ auctions'[a].deadline = auctions[a].deadline
        /\ auctions'[a].flavor = auctions[a].flavor
        /\ (Status(a) = "closed" => auctions'[a].status = "finalized")
    <3> DEFINE x == auctions[a]
    <3>1. x \in Auction /\ auctions \in [AuctionIds -> Auction]
      BY <1>2, <1>5 DEF SchedTypeOK
    <3>2. \/ x.status = "open" /\ Becomes(a, "closed", x.deadline)
          \/ x.status = "closed" /\ Becomes(a, "finalized", x.deadline)
      BY <1>3 DEF Close, Finalize, Status
    <3>3. PICK st \in {"closed", "finalized"} :
            /\ x.status = "closed" => st = "finalized"
            /\ auctions'[a] = [x EXCEPT !.status = st, !.deadline = x.deadline,
                                       !.version = x.version + 1]
      BY <1>2, <3>1, <3>2 DEF Becomes
    <3> HIDE DEF x
    <3>4. /\ auctions'[a].status = st /\ auctions'[a].deadline = x.deadline
          /\ auctions'[a].flavor = x.flavor
      BY <3>1, <3>3 DEF Auction
    <3> QED
      BY <3>1, <3>3, <3>4 DEF x, Status
  <2>3. \/ rest = <<>>
        \/ rest = <<"finalize">> /\ Entry.steps = <<"close", "finalize">> /\ Status(a) = "open"
    BY <1>1, <1>2, <1>3, StepsOf
  <2>4. e[1].id = a /\ e[1].steps = rest
    BY <1>8
  <2>5. <<"close", "finalize">> # <<"finalize">> /\ <<"finalize">> # <<>>
        /\ <<"close", "finalize">> # <<>>
    OBVIOUS
  <2>6. CASE rest = <<>>
    <3> HIDE DEF a, rest, e
    <3> QED
      BY <2>2, <2>4, <2>5, <2>6 DEF Timely, TimelyNext, Still
  <2>7. CASE rest = <<"finalize">> /\ Entry.steps = <<"close", "finalize">>
             /\ Status(a) = "open"
    <3>1. auctions[a].flavor = "roll" /\ auctions[a].deadline <= now
      BY <2>1, <2>5, <2>7 DEF Timely, TimelyNext, Still, Status
    <3> HIDE DEF a, rest, e
    <3> QED
      BY <1>1, <2>2, <2>4, <2>5, <2>7, <3>1 DEF Timely, TimelyNext, Still
  <2> QED
    BY <2>3, <2>6, <2>7
<1>12. \A i \in 1..Len(e) : TimelyNext(e[i])
  <2>1. \A i \in 1..Len(cycle.due) : Timely(cycle.due[i]) /\ cycle.due[i] \in DueEntry
    BY <1>2 DEF SchedInv
  <2>2. ASSUME NEW i \in 1..Len(e) PROVE TimelyNext(e[i])
    <3>1. CASE i = 1
      BY <1>11, <3>1
    <3>2. CASE i # 1
      <4>1. i \in 2..Len(cycle.due) /\ i \in 1..Len(cycle.due)
        BY <1>2, <1>8, <3>2
      <4>2. e[i] = cycle.due[i] /\ Timely(cycle.due[i]) /\ cycle.due[i] \in DueEntry
        BY <1>8, <2>1, <4>1
      <4> QED
        BY <1>10, <4>2
    <3> QED
      BY <3>1, <3>2
  <2> QED
    BY <2>2
<1>13. SchedInv'
  <2>1. SchedTypeOK'
    BY <1>1, <1>5, <1>6, <1>9 DEF SchedTypeOK
  <2>2. (cycle.pc = "act" <=> cycle.due # <<>>)'
    BY <1>8, <1>9
  <2>3. \A i \in 1..Len(cycle'.due) : TimelyNext(cycle'.due[i])
    BY <1>9, <1>12
  <2> QED
    BY <2>1, <2>2, <2>3 DEF SchedInv, Timely, TimelyNext
<1>14. Entry' = e[1]
  BY <1>8, <1>9 DEF Entry
<1> QED
  BY <1>4, <1>8, <1>9, <1>13, <1>14

\* The ledger refuses: the rest of the entry is dropped.
LEMMA RefusedKeeps ==
  ASSUME SchedInv, Refused
  PROVE  /\ SchedInv' /\ cycle'.pc = "act" /\ Entry'.id = Entry.id /\ Entry'.steps = <<>>
         /\ cycle'.wrote = cycle.wrote
<1> DEFINE e == [cycle.due EXCEPT ![1].steps = <<>>]
<1>1. /\ cycle.pc = "act" /\ UNCHANGED <<now, auctions, faults>>
      /\ cycle' = [cycle EXCEPT !.due[1].steps = <<>>]
  BY DEF Refused, Pending
<1>2. /\ cycle.due \in Seq(DueEntry) /\ cycle.due # <<>> /\ Len(cycle.due) \in Nat \ {0}
      /\ Entry = cycle.due[1] /\ Entry \in DueEntry /\ Timely(Entry)
  BY <1>1, EntryOf
<1>3. SchedTypeOK
  BY DEF SchedInv
<1>4. <<>> \in Steps
  BY DEF Steps
<1>5. /\ e \in Seq(DueEntry) /\ e # <<>> /\ Len(e) = Len(cycle.due)
      /\ e[1].id = Entry.id /\ e[1].steps = <<>>
      /\ Head(e) = e[1]
      /\ \A i \in 2..Len(cycle.due) : e[i] = cycle.due[i]
  BY <1>2, <1>4, StepsSet
<1>6. /\ cycle'.pc = "act" /\ cycle'.due = e /\ cycle'.wrote = cycle.wrote
      /\ cycle' \in Cycle
  <2>1. cycle \in Cycle
    BY <1>3 DEF SchedTypeOK
  <2>2. /\ cycle' = [pc |-> "act", due |-> e, wrote |-> cycle.wrote]
        /\ cycle.wrote \in Nat
    BY <1>1, <2>1 DEF Cycle
  <2> HIDE DEF e
  <2>3. cycle' \in Cycle
    BY <1>5, <2>2 DEF Cycle, DueEntry
  <2> QED
    BY <2>2, <2>3
<1>7. \A d : Timely(d) => TimelyNext(d)
  BY <1>1 DEF Timely, TimelyNext, Still
<1>8. TimelyNext(e[1])
  <2>1. <<"finalize">> # <<>> /\ <<"close", "finalize">> # <<>>
    OBVIOUS
  <2>2. auctions'[e[1].id] = auctions[Entry.id] /\ auctions[Entry.id].status # "none"
    BY <1>1, <1>2, <1>5 DEF Timely, TimelyNext, Still
  <2> HIDE DEF e
  <2> QED
    BY <1>5, <2>1, <2>2 DEF Timely, TimelyNext, Still
<1>9. \A i \in 1..Len(e) : TimelyNext(e[i])
  <2>1. ASSUME NEW i \in 1..Len(e) PROVE TimelyNext(e[i])
    <3>1. CASE i = 1
      BY <1>8, <3>1
    <3>2. CASE i # 1
      <4>1. i \in 2..Len(cycle.due) /\ i \in 1..Len(cycle.due)
        BY <1>2, <1>5, <3>2
      <4>2. e[i] = cycle.due[i] /\ Timely(cycle.due[i])
        BY <1>5, <4>1 DEF SchedInv
      <4> QED
        BY <1>7, <4>2
    <3> QED
      BY <3>1, <3>2
  <2> QED
    BY <2>1
<1>10. SchedInv'
  <2>1. SchedTypeOK'
    BY <1>1, <1>3, <1>6 DEF SchedTypeOK
  <2>2. (cycle.pc = "act" <=> cycle.due # <<>>)'
    BY <1>5, <1>6
  <2>3. \A i \in 1..Len(cycle'.due) : TimelyNext(cycle'.due[i])
    BY <1>6, <1>9
  <2> QED
    BY <2>1, <2>2, <2>3 DEF SchedInv, Timely, TimelyNext
<1>11. Entry' = e[1]
  BY <1>5, <1>6 DEF Entry
<1> QED
  BY <1>5, <1>6, <1>10, <1>11

\* The next entry, or the end of the cycle.
LEMMA NextEntryKeeps ==
  ASSUME SchedInv, NextEntry
  PROVE  SchedInv' /\ cycle'.wrote = 0
<1>1. /\ cycle.pc = "act" /\ UNCHANGED <<now, auctions, faults>>
      /\ cycle' = IF Len(cycle.due) = 1 THEN Asleep("rest")
                  ELSE [pc |-> "act", due |-> Tail(cycle.due), wrote |-> 0]
  BY DEF NextEntry
<1>2. SchedTypeOK /\ cycle.due \in Seq(DueEntry) /\ cycle.due # <<>>
      /\ \A i \in 1..Len(cycle.due) : Timely(cycle.due[i])
  BY <1>1, EntryOf DEF SchedInv
<1>3. CASE Len(cycle.due) = 1
  <2>1. /\ cycle' \in Cycle /\ cycle'.pc = "rest" /\ cycle'.due = <<>> /\ cycle'.wrote = 0
    BY <1>1, <1>3, AsleepTypes
  <2> QED
    BY <1>1, <1>2, <2>1 DEF SchedInv, SchedTypeOK
<1>4. CASE Len(cycle.due) # 1
  <2> DEFINE d == cycle.due
             e == Tail(d)
  <2>1. /\ e \in Seq(DueEntry) /\ Len(e) = Len(d) - 1 /\ Len(d) \in Nat /\ Len(d) > 1
        /\ \A i \in 1..Len(e) : e[i] = d[i + 1] /\ i + 1 \in 1..Len(d)
    <3> HIDE DEF d
    <3>1. d \in Seq(DueEntry) /\ d # <<>> /\ Len(d) # 1
      BY <1>2, <1>4 DEF d
    <3>2. Len(d) \in Nat /\ Len(d) > 1
      BY <3>1
    <3>3. /\ e \in Seq(DueEntry) /\ Len(e) = Len(d) - 1
          /\ \A i \in 1..Len(e) : e[i] = d[i + 1]
      BY <3>1, HeadTailProperties
    <3> HIDE DEF e
    <3> QED
      BY <3>2, <3>3
  <2>2. cycle' = [pc |-> "act", due |-> e, wrote |-> 0]
    BY <1>1, <1>4
  <2>3. \A i \in 1..Len(e) : Timely(e[i])
    BY <1>2, <2>1
  <2> HIDE DEF e
  <2>4. cycle'.pc = "act" /\ cycle'.due = e /\ cycle'.wrote = 0 /\ cycle' \in Cycle
    BY <2>1, <2>2 DEF Cycle, DueEntry
  <2>5. e # <<>>
    BY <2>1
  <2>6. \A i \in 1..Len(cycle'.due) : TimelyNext(cycle'.due[i])
    BY <1>1, <2>3, <2>4 DEF Timely, TimelyNext
  <2>7. SchedTypeOK'
    BY <1>1, <1>2, <2>4 DEF SchedTypeOK
  <2>8. (cycle.pc = "act" <=> cycle.due # <<>>)'
    BY <2>4, <2>5
  <2> QED
    BY <2>4, <2>6, <2>7, <2>8 DEF SchedInv, Timely, TimelyNext
<1> QED
  BY <1>3, <1>4

\* What the handlers and the posts leave the scheduler with, whatever fails.
LEMMA OthersKeep ==
  ASSUME SchedInv, faults' \in Nat,
         \/ UNCHANGED <<now, auctions, cycle>>
         \/ UNCHANGED <<now, cycle>> /\ \E a \in AuctionIds : Command(a)
         \/ UNCHANGED <<now, auctions>> /\ \E pc \in {"off", "rest"} : cycle' = Asleep(pc)
         \/ UNCHANGED <<auctions, cycle>> /\ now' = now + 1
  PROVE  SchedInv'
<1>1. SchedTypeOK /\ now \in Nat /\ auctions \in [AuctionIds -> Auction]
      /\ cycle.due \in Seq(DueEntry)
      /\ \A i \in 1..Len(cycle.due) : Timely(cycle.due[i]) /\ cycle.due[i] \in DueEntry
  <2>1. cycle.due \in Seq(DueEntry)
    BY DEF SchedInv, SchedTypeOK, Cycle, DueEntry
  <2>2. \A i \in 1..Len(cycle.due) : cycle.due[i] \in DueEntry
    BY <2>1
  <2> QED
    BY <2>1, <2>2 DEF SchedInv, SchedTypeOK
<1>2. ASSUME SchedTypeOK', cycle' = cycle, \A e \in DueEntry : Timely(e) => TimelyNext(e)
      PROVE  SchedInv'
  <2>1. \A i \in 1..Len(cycle'.due) : TimelyNext(cycle'.due[i])
    BY <1>1, <1>2
  <2> QED
    BY <1>2, <2>1 DEF SchedInv, Timely, TimelyNext
<1>3. CASE UNCHANGED <<now, auctions, cycle>>
  <2>1. SchedTypeOK'
    BY <1>1, <1>3 DEF SchedTypeOK
  <2> QED
    BY <1>2, <1>3, <2>1 DEF Timely, TimelyNext
<1>4. ASSUME NEW a \in AuctionIds, Command(a), UNCHANGED <<now, cycle>> PROVE SchedInv'
  <2>1. auctions' \in [AuctionIds -> Auction]
    BY <1>1, <1>4, AuctionMoves DEF Command
  <2>2. \A e \in DueEntry : Timely(e) => TimelyNext(e)
    BY <1>1, <1>4, TimelyStays DEF Command
  <2>3. SchedTypeOK'
    BY <1>1, <1>4, <2>1 DEF SchedTypeOK
  <2> QED
    BY <1>2, <1>4, <2>2, <2>3
<1>5. ASSUME NEW pc \in {"off", "rest"}, cycle' = Asleep(pc), UNCHANGED <<now, auctions>>
      PROVE  SchedInv'
  <2>1. cycle' \in Cycle /\ cycle'.pc # "act" /\ cycle'.due = <<>>
    BY <1>5, AsleepTypes
  <2> QED
    BY <1>1, <1>5, <2>1 DEF SchedInv, SchedTypeOK
<1>6. CASE UNCHANGED <<auctions, cycle>> /\ now' = now + 1
  <2>1. SchedTypeOK'
    BY <1>1, <1>6 DEF SchedTypeOK
  <2>2. ASSUME NEW e \in DueEntry, Timely(e) PROVE TimelyNext(e)
    <3> DEFINE x == auctions[e.id]
               s == e.steps
    <3>1. x \in Auction /\ Still(s, x, now) /\ Grace \in Nat
      BY <1>1, <2>2, DurationsAssumption DEF DueEntry, Timely
    <3>2. x.deadline \in Nat
      BY <3>1 DEF Auction
    <3> HIDE DEF x, s
    <3>3. Still(s, x, now + 1)
      BY <1>1, <3>1, <3>2 DEF Still
    <3> QED
      BY <1>6, <3>3 DEF TimelyNext, x, s
  <2> QED
    BY <1>2, <1>6, <2>1, <2>2
<1> QED
  BY <1>3, <1>4, <1>5, <1>6

\* What fails is counted.
LEMMA FaultCounts ==
  ASSUME SchedInv, NEW kind, Fault(kind) PROVE faults' \in Nat
BY DEF SchedInv, SchedTypeOK, Fault

LEMMA SchedSteps == SchedInv /\ [SchedNext]_schedVars => SchedInv'
<1> SUFFICES ASSUME SchedInv, [SchedNext]_schedVars PROVE SchedInv'
  OBVIOUS
<1>1. faults \in Nat
  BY DEF SchedInv, SchedTypeOK
<1>2. CASE ReadDue
  <2>1. /\ cycle' \in Cycle /\ cycle'.pc = "act" /\ cycle'.due # <<>>
        /\ \A i \in 1..Len(cycle'.due) : Timely(cycle'.due[i])
    BY <1>2, DueIsTimely
  <2>2. UNCHANGED <<now, auctions, faults>>
    BY <1>2 DEF ReadDue
  <2> QED
    BY <2>1, <2>2 DEF SchedInv, SchedTypeOK, Timely
<1>3. CASE CycleFails \/ Stop
  BY <1>3, FaultCounts, OthersKeep DEF CycleFails, Stop
<1>4. CASE SchedStart
  BY <1>1, <1>4, OthersKeep DEF SchedStart, Start
<1>5. CASE Tick
  BY <1>1, <1>5, OthersKeep DEF Tick
<1>6. CASE People
  BY <1>1, <1>6, OthersKeep DEF People, Command
<1>7. CASE UNCHANGED schedVars
  BY <1>1, <1>7, OthersKeep DEF schedVars
<1> QED
  BY <1>2, <1>3, <1>4, <1>5, <1>6, <1>7, FireKeeps, RefusedKeeps, NextEntryKeeps
     DEF SchedNext, CycleStep

\* Whoever acts on the auctions, whatever fails: the timers' state and the list
\* they work through are what they are declared to be; in particular no roll is
\* drawn before it is closed.
THEOREM SchedTypesCorrect == SchedSpec => []SchedTypeOK
<1>1. SchedInv => SchedTypeOK
  BY DEF SchedInv
<1> QED
  BY <1>1, SchedStarts, SchedSteps, PTL DEF SchedSpec

\* One step of the scheduler changes no auction that is not due.
LEMMA FireIsDue ==
  ASSUME SchedInv, Fire, NEW a \in AuctionIds, auctions'[a] # auctions[a]
  PROVE  LET x == auctions[a] IN
         /\ x.status = "open" => x.deadline <= now
         /\ x.status = "closed" =>
              \/ x.flavor = "long" /\ x.deadline + Grace <= now
              \/ x.flavor = "roll" /\ x.deadline <= now
         /\ x.status \in {"open", "closed"}
<1>1. cycle.pc = "act" /\ Entry.steps # <<>> /\ Accepted
  BY DEF Fire, Pending
<1>2. Entry \in DueEntry /\ Timely(Entry) /\ Entry.id \in AuctionIds /\ Entry.steps \in Steps
  BY <1>1, EntryOf
<1>3. a = Entry.id
  <2>1. Command(Entry.id) /\ SchedTypeOK
    BY FireKeeps DEF SchedInv
  <2> QED
    BY <1>2, <2>1, AuctionMoves DEF Command
<1>4. \/ Head(Entry.steps) = "close" /\ Status(a) = "open"
      \/ Head(Entry.steps) = "finalize" /\ Status(a) = "closed"
           /\ Entry.steps = <<"finalize">>
  BY <1>1, <1>2, <1>3, StepsOf DEF Accepted
<1> QED
  BY <1>1, <1>2, <1>3, <1>4 DEF Timely, Still, Status

\* However old the list is the scheduler works through: it closes no auction
\* before its deadline, draws no roll before it, settles no long auction within
\* the grace and a short one never.
THEOREM TimersNeverEarly == SchedSpec => NeverEarly
<1> DEFINE Due == \A a \in AuctionIds :
       auctions'[a] # auctions[a] /\ cycle' # cycle =>
         LET x == auctions[a] IN
         /\ x.status = "open" => x.deadline <= now
         /\ x.status = "closed" =>
              \/ x.flavor = "long" /\ x.deadline + Grace <= now
              \/ x.flavor = "roll" /\ x.deadline <= now
         /\ x.status \in {"open", "closed"}
<1>1. SchedInv /\ [SchedNext]_schedVars => [Due]_schedVars
  <2> SUFFICES ASSUME SchedInv, SchedNext PROVE Due
    BY DEF schedVars
  <2>1. CASE Fire
    BY <2>1, FireIsDue
  <2>2. CASE ~ Fire
    <3>1. auctions' = auctions \/ cycle' = cycle
      BY <2>2 DEF SchedNext, CycleStep, ReadDue, Refused, CycleFails, NextEntry, SchedStart,
                  Start, Stop, Tick, People
    <3> QED
      BY <3>1
  <2> QED
    BY <2>1, <2>2
<1>2. SchedSpec => [][Due]_schedVars
  <2> HIDE DEF Due
  <2> QED
    BY <1>1, SchedStarts, SchedSteps, PTL DEF SchedSpec
<1> QED
  BY <1>2 DEF NeverEarly

-----------------------------------------------------------------------------
(* The posts *)

TaskPcs == {"idle", "query", "send", "sent", "bid", "roll", "settle", "end",
            "refresh", "wait", "queue", "render", "edit"}

TaskRecord ==
  [pc : TaskPcs, on : AuctionIds \cup {0}, slot : {0, 1}, version : Nat,
   buttons : SUBSET Buttons, tries : 0 .. EditAttempts - 1]

\* Only an auction nobody opened has no version.
Counted == \A a \in AuctionIds : Status(a) = "none" <=> Version(a) = 0

\* A task works on an auction that was opened, and in its second slot only if
\* it has one.
TaskShape(t) ==
  tasks[t].pc # "idle" =>
    /\ tasks[t].on \in AuctionIds /\ Status(tasks[t].on) # "none"
    /\ tasks[t].slot = 1 => slot[tasks[t].on] = 1

PostShape(a) ==
  /\ known[a] => Status(a) # "none" /\ slot[a] = 0
  /\ slot[a] = 1 => Status(a) # "none"

PostTypes ==
  /\ shown \in [AuctionIds -> Drawing]
  /\ known \in [AuctionIds -> BOOLEAN]
  /\ tasks \in [Tasks -> TaskRecord]
  /\ slot \in [AuctionIds -> {0, 1}]
  /\ turn \in [Slots -> Tasks \cup {Free}]
  /\ queued \in [Slots -> BOOLEAN]
  /\ owed \in [AuctionIds -> SUBSET (Nat \ {0})]

Shape ==
  /\ PostTypes /\ Counted
  /\ \A t \in Tasks : TaskShape(t)
  /\ \A a \in AuctionIds : PostShape(a)
  /\ cycle.pc = "off" => /\ \A t \in Tasks : tasks[t] = Idle
                         /\ \A a \in AuctionIds : slot[a] = 0 /\ ~ known[a]

\* Whoever renders or edits has the turn of its slot, and a request that a slot
\* says is queued is waited for by exactly one edit.
HasTurn(t)  == tasks[t].pc \in {"render", "edit"} => turn[SlotOf(t)] = t
Waiting(t)  == tasks[t].pc = "queue" => queued[SlotOf(t)]
WaitedFor(x) == queued[x] => \E t \in Tasks : SlotOf(t) = x /\ tasks[t].pc = "queue"
OneWaits(s, t) ==
  tasks[s].pc = "queue" /\ tasks[t].pc = "queue" /\ SlotOf(s) = SlotOf(t) => s = t

SlotsKept ==
  /\ \A t \in Tasks : HasTurn(t) /\ Waiting(t)
  /\ \A x \in Slots : WaitedFor(x)
  /\ \A s, t \in Tasks : OneWaits(s, t)

\* A version somebody carries: a handler the one it made, a refresh that has
\* yet to render any, one that rendered those up to its own.
Bears(k, a, v) ==
  /\ k.on = a
  /\ \/ k.pc \in {"refresh", "wait", "queue", "render"}
     \/ k.pc \in {"bid", "roll", "settle", "end"} /\ k.version = v
     \/ k.pc = "edit" /\ k.version >= v

\* The scheduler, once it is through with the entry, any it made.
CycleBears(a, v) ==
  /\ cycle.pc = "act" /\ Entry.id = a
  /\ cycle.wrote = v \/ (Entry.steps = <<>> /\ cycle.wrote >= v)

Carried(a, v) == CycleBears(a, v) \/ \E t \in Tasks : Bears(tasks[t], a, v)

FirstStep == cycle.pc = "act" /\ cycle.wrote # 0 => Entry.steps # <<"close", "finalize">>

Borne ==
  /\ \A a \in AuctionIds : \A v \in owed[a] : v <= Version(a) /\ Carried(a, v)
  /\ FirstStep

\* What is shown is no newer than the auction, and while bids or rolls are
\* taken it has their button.
PostFresh(a) ==
  /\ shown[a].version <= Version(a)
  /\ shown[a] # NoPost /\ Status(a) = "open" => LiveButtons(a) \subseteq shown[a].buttons
  /\ Status(a) = "none" => shown[a] = NoPost

\* What is about to be shown is no newer either, and no older than what was
\* shown before.
EditFresh(t) ==
  tasks[t].pc = "edit" =>
    LET a == tasks[t].on IN
    /\ known[a] \/ slot[a] = 1
    /\ tasks[t].slot = 0
    /\ shown[a].version <= tasks[t].version /\ tasks[t].version <= Version(a)
    /\ shown[a] # NoPost => tasks[t].buttons \subseteq shown[a].buttons
    /\ Status(a) = "open" => LiveButtons(a) \subseteq tasks[t].buttons

\* A new auction has no post before its opener puts one up.
Posting == {"query", "send", "sent"}

NewFresh(t) ==
  tasks[t].pc \in Posting =>
    LET a == tasks[t].on IN
    /\ ~ known[a] /\ slot[a] = 0
    /\ tasks[t].pc \in {"query", "send"} => shown[a] = NoPost
    /\ tasks[t].pc = "send" => tasks[t].version <= Version(a)
                               /\ tasks[t].buttons = LiveButtons(a)

OnePoster(s, t) ==
  tasks[s].pc \in Posting /\ tasks[t].pc \in Posting /\ tasks[s].on = tasks[t].on => s = t

Fresh ==
  /\ \A a \in AuctionIds : PostFresh(a)
  /\ \A t \in Tasks : EditFresh(t) /\ NewFresh(t)
  /\ \A s, t \in Tasks : OnePoster(s, t)

PostInv == SchedInv /\ Shape /\ SlotsKept /\ Borne /\ Fresh

\* What becomes of an auction in any step.
GrowsAt(a) ==
  /\ auctions'[a].version >= auctions[a].version
  /\ auctions[a].status # "none" =>
       /\ auctions'[a].status # "none" /\ auctions'[a].flavor = auctions[a].flavor
       /\ auctions'[a].status = "open" => auctions[a].status = "open"

Grows ==
  /\ auctions' \in [AuctionIds -> Auction] /\ Counted'
  /\ \A a \in AuctionIds : GrowsAt(a)

\* A command gives its auction a new version and leaves the others alone.
LEMMA CommandGrows ==
  ASSUME SchedInv, Counted, NEW a \in AuctionIds, Command(a)
  PROVE  /\ Grows /\ auctions'[a].version > auctions[a].version
         /\ auctions'[a].status # "none"
         /\ \A b \in AuctionIds \ {a} : auctions'[b] = auctions[b]
<1>1. SchedTypeOK /\ auctions \in [AuctionIds -> Auction]
  BY DEF SchedInv, SchedTypeOK
<1>2. /\ auctions' \in [AuctionIds -> Auction]
      /\ \A b \in AuctionIds \ {a} : auctions'[b] = auctions[b]
      /\ auctions'[a].version = auctions[a].version + 1 \/ Status(a) = "none"
      /\ auctions'[a].version > 0 /\ auctions'[a].status # "none"
      /\ Status(a) # "none" =>
           /\ auctions'[a].flavor = auctions[a].flavor
           /\ auctions'[a].status = "open" => Status(a) = "open"
  BY <1>1, AuctionMoves DEF Command
<1>3. \A b \in AuctionIds : auctions[b].version \in Nat /\ auctions'[b].version \in Nat
  BY <1>1, <1>2 DEF Auction
<1>4. Status(a) = "none" => auctions[a].version = 0
  BY DEF Counted, Version
<1>5. auctions'[a].version > auctions[a].version
  BY <1>2, <1>3, <1>4
<1>6. \A b \in AuctionIds : GrowsAt(b)
  <2>1. GrowsAt(a)
    BY <1>2, <1>3, <1>5 DEF GrowsAt, Status
  <2>2. ASSUME NEW b \in AuctionIds \ {a} PROVE GrowsAt(b)
    BY <1>2, <1>3 DEF GrowsAt
  <2> QED
    BY <2>1, <2>2
<1>7. Counted'
  BY <1>2, <1>3 DEF Counted, Status, Version
<1> QED
  BY <1>2, <1>5, <1>6, <1>7 DEF Grows

\* Where no auction changes.
LEMMA NothingGrows ==
  ASSUME SchedInv, Counted, UNCHANGED auctions PROVE Grows
<1>1. auctions \in [AuctionIds -> Auction]
  BY DEF SchedInv, SchedTypeOK
<1>2. \A a \in AuctionIds : auctions[a].version \in Nat
  BY <1>1 DEF Auction
<1> QED
  BY <1>1, <1>2 DEF Grows, GrowsAt, Counted, Status, Version

\* Initially there are no auctions, no posts and nobody at work.
LEMMA PostStarts == Init => PostInv
<1> SUFFICES ASSUME Init PROVE PostInv
  OBVIOUS
<1>1. SchedInv
  BY SchedStarts DEF Init
<1>2. /\ \A a \in AuctionIds : /\ shown[a] = NoPost /\ ~ known[a] /\ slot[a] = 0
                               /\ owed[a] = {}
                               /\ Status(a) = "none" /\ Version(a) = 0
      /\ \A t \in Tasks : tasks[t] = Idle
      /\ \A x \in Slots : turn[x] = Free /\ ~ queued[x]
      /\ cycle.pc = "off" /\ cycle.wrote = 0
  BY DEF Init, All, Each, AllIdle, SchedInit, Status, Version, Asleep
<1>3. Idle \in TaskRecord /\ Idle.pc = "idle"
  BY AttemptsAssumption DEF Idle, TaskRecord, TaskPcs
<1>4. NoPost \in Drawing /\ NoPost.version = 0
  BY DEF NoPost, Drawing
<1>5. PostTypes
  BY <1>3, <1>4 DEF Init, PostTypes, All, Each, AllIdle
<1>6. Shape
  BY <1>2, <1>3, <1>5 DEF Shape, Counted, TaskShape, PostShape
<1>7. SlotsKept
  BY <1>2, <1>3 DEF SlotsKept, HasTurn, Waiting, WaitedFor, OneWaits
<1>8. Borne
  BY <1>2 DEF Borne, FirstStep
<1>9. Fresh
  BY <1>2, <1>3, <1>4 DEF Fresh, PostFresh, EditFresh, NewFresh, OnePoster, Posting
<1> QED
  BY <1>1, <1>6, <1>7, <1>8, <1>9 DEF PostInv

-----------------------------------------------------------------------------
(* What a step does to one task *)

Others(t) ==
  /\ tasks' \in [Tasks -> TaskRecord]
  /\ \A s \in Tasks \ {t} : tasks'[s] = tasks[s]

\* One task moves on and nothing else of it changes.
LEMMA Going ==
  ASSUME PostTypes, NEW t \in Tasks, NEW pc \in TaskPcs, Goes(t, pc)
  PROVE  /\ Others(t)
         /\ tasks'[t].pc = pc /\ tasks'[t].on = tasks[t].on
         /\ tasks'[t].slot = tasks[t].slot /\ tasks'[t].version = tasks[t].version
         /\ tasks'[t].buttons = tasks[t].buttons
<1>1. tasks[t] \in TaskRecord
  BY DEF PostTypes
<1>2. tasks' = [tasks EXCEPT ![t] = [tasks[t] EXCEPT !.pc = pc]]
  BY DEF Goes
<1> DEFINE k == tasks[t]
           d == [k EXCEPT !.pc = pc]
<1>3. d \in TaskRecord /\ d.pc = pc /\ d.on = k.on /\ d.slot = k.slot
      /\ d.version = k.version /\ d.buttons = k.buttons
  BY <1>1 DEF TaskRecord
<1>4. tasks' = [tasks EXCEPT ![t] = d]
  BY <1>2
<1> HIDE DEF d
<1> QED
  BY <1>3, <1>4 DEF Others, PostTypes

\* An idle task has the type of one.
LEMMA IdleTyped == Idle \in TaskRecord /\ Idle.pc = "idle"
BY AttemptsAssumption DEF Idle, TaskRecord, TaskPcs

\* One task ends.
LEMMA Ending ==
  ASSUME PostTypes, NEW t \in Tasks, Ends(t)
  PROVE  Others(t) /\ tasks'[t] = Idle /\ tasks'[t].pc = "idle"
<1>1. Idle \in TaskRecord /\ Idle.pc = "idle"
  BY AttemptsAssumption DEF Idle, TaskRecord, TaskPcs
<1> QED
  BY <1>1 DEF Ends, Others, PostTypes

\* One draws its auction up.
LEMMA Drawing1 ==
  ASSUME PostTypes, SchedInv, NEW t \in Tasks, tasks[t].on \in AuctionIds,
         NEW pc \in TaskPcs, NEW b \in SUBSET Buttons, Draws(t, pc, b)
  PROVE  /\ Others(t)
         /\ tasks'[t].pc = pc /\ tasks'[t].on = tasks[t].on
         /\ tasks'[t].slot = tasks[t].slot /\ tasks'[t].buttons = b
         /\ tasks'[t].version = Version(tasks[t].on)
<1> DEFINE k == tasks[t]
           n == Version(k.on)
           d == [k EXCEPT !.pc = pc, !.buttons = b, !.version = n]
<1>1. k \in TaskRecord
  BY DEF PostTypes
<1>2. n \in Nat
  BY DEF SchedInv, SchedTypeOK, Auction, Version
<1>3. tasks' = [tasks EXCEPT ![t] = d]
  BY DEF Draws
<1> HIDE DEF n, k
<1>4. d \in TaskRecord /\ d.pc = pc /\ d.on = k.on /\ d.slot = k.slot
      /\ d.version = n /\ d.buttons = b
  BY <1>1, <1>2 DEF TaskRecord
<1> HIDE DEF d
<1> QED
  BY <1>3, <1>4 DEF Others, PostTypes, n, k

\* One looks its edit slot up and waits for the turn.
LEMMA Waiting1 ==
  ASSUME PostTypes, NEW t \in Tasks, tasks[t].on \in AuctionIds, Waits(t)
  PROVE  /\ Others(t)
         /\ tasks'[t].pc = "wait" /\ tasks'[t].on = tasks[t].on
         /\ tasks'[t].slot = slot[tasks[t].on]
<1> DEFINE k == tasks[t]
           n == slot[k.on]
           d == [k EXCEPT !.pc = "wait", !.slot = n]
<1>1. k \in TaskRecord /\ n \in {0, 1} /\ "wait" \in TaskPcs
  BY DEF PostTypes, TaskPcs
<1>2. tasks' = [tasks EXCEPT ![t] = d]
  BY DEF Waits
<1> HIDE DEF n, k
<1>3. d \in TaskRecord /\ d.pc = "wait" /\ d.on = k.on /\ d.slot = n
  BY <1>1 DEF TaskRecord
<1> HIDE DEF d
<1> QED
  BY <1>2, <1>3 DEF Others, PostTypes, n, k

\* One becomes an edit in the background.
LEMMA Spawning ==
  ASSUME PostTypes, NEW t \in Tasks, NEW a \in AuctionIds, Spawns(t, a)
  PROVE  /\ Others(t)
         /\ tasks'[t].pc = "queue" /\ tasks'[t].on = a /\ tasks'[t].slot = slot[a]
         /\ queued' = [queued EXCEPT ![<<a, slot[a]>>] = TRUE]
<1> DEFINE n == slot[a]
           d == [Idle EXCEPT !.pc = "queue", !.on = a, !.slot = n]
<1>1. n \in {0, 1} /\ Idle \in TaskRecord
  BY IdleTyped DEF PostTypes
<1>2. tasks' = [tasks EXCEPT ![t] = d] /\ queued' = [queued EXCEPT ![<<a, slot[a]>>] = TRUE]
  BY DEF Spawns
<1> HIDE DEF n
<1>3. d \in TaskRecord /\ d.pc = "queue" /\ d.on = a /\ d.slot = n
  BY <1>1 DEF TaskRecord, TaskPcs
<1> HIDE DEF d
<1> QED
  BY <1>2, <1>3 DEF Others, PostTypes, n

\* A handler starts with what it made.
LEMMA Handling ==
  ASSUME PostTypes, Grows, NEW t \in Tasks, NEW a \in AuctionIds, NEW pc \in TaskPcs,
         Handler(t, a, pc)
  PROVE  /\ Others(t) /\ tasks[t] = Idle /\ tasks[t].pc = "idle"
         /\ tasks'[t].pc = pc /\ tasks'[t].on = a /\ tasks'[t].slot = slot[a]
         /\ tasks'[t].version = auctions'[a].version
<1> DEFINE n == slot[a]
           v == auctions'[a].version
           d == [Idle EXCEPT !.pc = pc, !.on = a, !.slot = n, !.version = v]
<1>1. n \in {0, 1} /\ v \in Nat /\ Idle \in TaskRecord
  BY IdleTyped DEF PostTypes, Grows, Auction
<1>2. tasks' = [tasks EXCEPT ![t] = d] /\ tasks[t] = Idle
  BY DEF Handler
<1> HIDE DEF n, v
<1>3. d \in TaskRecord /\ d.pc = pc /\ d.on = a /\ d.slot = n /\ d.version = v
  BY <1>1 DEF TaskRecord, TaskPcs
<1> HIDE DEF d
<1>4. tasks[t].pc = "idle"
  BY <1>2 DEF Idle
<1> QED
  BY <1>2, <1>3, <1>4 DEF Others, PostTypes, n, v
-----------------------------------------------------------------------------
(* What one task's step leaves of the invariants *)

\* Posts and slots stay as they are while auctions go on.
LEMMA PostShapeKept ==
  ASSUME Shape, Grows, NEW a \in AuctionIds,
         known'[a] = known[a], slot'[a] = slot[a]
  PROVE  PostShape(a)'
BY DEF Shape, PostShape, Grows, GrowsAt, Status

\* So do the tasks that do not move.
LEMMA TaskShapeKept ==
  ASSUME Shape, Grows, NEW s \in Tasks,
         \A a \in AuctionIds : slot[a] = 1 => slot'[a] = 1,
         tasks[s].pc # "idle", tasks'[s].on = tasks[s].on, tasks'[s].slot = tasks[s].slot
  PROVE  TaskShape(s)'
<1> DEFINE a == tasks[s].on
<1>1. /\ a \in AuctionIds /\ Status(a) # "none"
      /\ tasks[s].slot = 1 => slot[a] = 1
  BY DEF Shape, TaskShape
<1>2. auctions'[a].status # "none" /\ (tasks[s].slot = 1 => slot'[a] = 1)
  BY <1>1 DEF Grows, GrowsAt, Status
<1> QED
  BY <1>2, <1>1 DEF TaskShape, Status

\* One task moves on, with posts and slots as they should be.
LEMMA ShapeStep ==
  ASSUME Shape, Grows, NEW t \in Tasks, Others(t), PostTypes',
         \A a \in AuctionIds : slot[a] = 1 => slot'[a] = 1,
         \A a \in AuctionIds : PostShape(a)',
         TaskShape(t)', cycle'.pc # "off"
  PROVE  Shape'
<1>1. ASSUME NEW s \in Tasks \ {t} PROVE TaskShape(s)'
  <2>1. tasks'[s] = tasks[s]
    BY DEF Others
  <2>2. CASE tasks[s].pc = "idle"
    BY <2>1, <2>2 DEF TaskShape
  <2>3. CASE tasks[s].pc # "idle"
    BY <2>1, <2>3, TaskShapeKept
  <2> QED
    BY <2>2, <2>3
<1>2. \A s \in Tasks : TaskShape(s)'
  BY <1>1
<1> QED
  BY <1>2 DEF Shape, Grows

\* A task that neither asks for the turn nor gives one back.
LEMMA SlotsQuiet ==
  ASSUME SlotsKept, NEW t \in Tasks, Others(t), UNCHANGED <<turn, queued>>,
         tasks[t].pc # "queue", tasks'[t].pc # "queue",
         tasks'[t].pc \in {"render", "edit"} =>
           /\ tasks[t].pc \in {"render", "edit"}
           /\ tasks'[t].on = tasks[t].on /\ tasks'[t].slot = tasks[t].slot
  PROVE  SlotsKept'
<1>1. \A s \in Tasks \ {t} : tasks'[s] = tasks[s]
  BY DEF Others
<1>2. \A s \in Tasks \ {t} : HasTurn(s)' /\ Waiting(s)'
  BY <1>1 DEF SlotsKept, HasTurn, Waiting, SlotOf
<1>3. HasTurn(t)' /\ Waiting(t)'
  BY DEF SlotsKept, HasTurn, Waiting, SlotOf
<1>4. ASSUME NEW x \in Slots PROVE WaitedFor(x)'
  <2>1. ASSUME queued[x]
        PROVE  \E s \in Tasks : SlotOf(s)' = x /\ tasks'[s].pc = "queue"
    <3>1. PICK s \in Tasks : SlotOf(s) = x /\ tasks[s].pc = "queue"
      BY <2>1 DEF SlotsKept, WaitedFor
    <3> QED
      BY <3>1, <1>1 DEF SlotOf
  <2> QED
    BY <2>1 DEF WaitedFor
<1>5. \A r, s \in Tasks : OneWaits(r, s)'
  BY <1>1 DEF SlotsKept, OneWaits, SlotOf
<1> QED
  BY <1>2, <1>3, <1>4, <1>5 DEF SlotsKept

\* A task becomes the one that waits in a slot where none did.
LEMMA SlotsSpawned ==
  ASSUME SlotsKept, PostTypes, NEW t \in Tasks, Others(t), turn' = turn,
         NEW x \in Slots, ~ queued[x], queued' = [queued EXCEPT ![x] = TRUE],
         tasks[t].pc # "queue", tasks'[t].pc = "queue", SlotOf(t)' = x
  PROVE  SlotsKept'
<1>1. \A s \in Tasks \ {t} : tasks'[s] = tasks[s]
  BY DEF Others
<1>2. \A y \in Slots : queued'[y] = (IF y = x THEN TRUE ELSE queued[y])
  BY DEF PostTypes
<1>3. \A s \in Tasks : tasks[s].pc = "queue" => SlotOf(s) # x
  BY DEF SlotsKept, Waiting
<1>4. ASSUME NEW s \in Tasks \ {t} PROVE HasTurn(s)' /\ Waiting(s)'
  <2>1. HasTurn(s)'
    BY <1>1 DEF SlotsKept, HasTurn, SlotOf
  <2>2. Waiting(s)'
    <3>1. CASE tasks[s].pc = "queue"
      <4>1. queued[SlotOf(s)]
        BY <3>1 DEF SlotsKept, Waiting
      <4>2. SlotOf(s)' = SlotOf(s)
        BY <1>1 DEF SlotOf
      <4>3. SlotOf(s) # x
        BY <3>1, <1>3
      <4>4. queued'[SlotOf(s)]
        BY <4>1, <4>3 DEF PostTypes
      <4> QED
        BY <4>4, <4>2 DEF Waiting
    <3>2. CASE tasks[s].pc # "queue"
      BY <1>1, <3>2 DEF Waiting
    <3> QED
      BY <3>1, <3>2
  <2> QED
    BY <2>1, <2>2
<1>5. HasTurn(t)' /\ Waiting(t)'
  BY <1>2 DEF HasTurn, Waiting
<1>6. ASSUME NEW y \in Slots PROVE WaitedFor(y)'
  <2>1. CASE y = x
    BY <2>1 DEF WaitedFor
  <2>2. CASE y # x /\ queued[y]
    <3>1. PICK s \in Tasks : SlotOf(s) = y /\ tasks[s].pc = "queue"
      BY <2>2 DEF SlotsKept, WaitedFor
    <3> QED
      BY <3>1, <1>1 DEF SlotOf, WaitedFor
  <2> QED
    BY <1>2, <2>1, <2>2 DEF WaitedFor
<1>7. \A r, s \in Tasks : OneWaits(r, s)'
  BY <1>1, <1>3 DEF SlotsKept, OneWaits, SlotOf
<1> QED
  BY <1>4, <1>5, <1>6, <1>7 DEF SlotsKept

\* Who has the turn gives it back.
LEMMA SlotsReleased ==
  ASSUME SlotsKept, PostTypes, NEW t \in Tasks, Others(t), queued' = queued,
         tasks[t].pc \in {"render", "edit"}, SlotOf(t) \in Slots,
         tasks'[t].pc = "idle", turn' = [turn EXCEPT ![SlotOf(t)] = Free]
  PROVE  SlotsKept'
<1>1. \A s \in Tasks \ {t} : tasks'[s] = tasks[s]
  BY DEF Others
<1>2. turn[SlotOf(t)] = t
  BY DEF SlotsKept, HasTurn
<1>3. ASSUME NEW s \in Tasks \ {t} PROVE HasTurn(s)' /\ Waiting(s)'
  <2>1. CASE tasks[s].pc \in {"render", "edit"}
    <3>1. turn[SlotOf(s)] = s /\ SlotOf(s)' = SlotOf(s)
      BY <2>1, <1>1 DEF SlotsKept, HasTurn, SlotOf
    <3>2. SlotOf(s) # SlotOf(t)
      BY <1>2, <3>1
    <3>3. turn'[SlotOf(s)] = turn[SlotOf(s)]
      BY <3>2
    <3>4. HasTurn(s)'
      BY <3>1, <3>3 DEF HasTurn
    <3> QED
      BY <2>1, <3>4, <1>1 DEF Waiting
  <2>2. CASE tasks[s].pc \notin {"render", "edit"}
    BY <2>2, <1>1 DEF SlotsKept, HasTurn, Waiting, SlotOf
  <2> QED
    BY <2>1, <2>2
<1>4. HasTurn(t)' /\ Waiting(t)'
  BY DEF HasTurn, Waiting
<1>5. ASSUME NEW x \in Slots PROVE WaitedFor(x)'
  <2>1. ASSUME queued[x]
        PROVE  \E s \in Tasks : SlotOf(s)' = x /\ tasks'[s].pc = "queue"
    <3>1. PICK s \in Tasks : SlotOf(s) = x /\ tasks[s].pc = "queue"
      BY <2>1 DEF SlotsKept, WaitedFor
    <3> QED
      BY <3>1, <1>1 DEF SlotOf
  <2> QED
    BY <2>1 DEF WaitedFor
<1>6. \A r, s \in Tasks : OneWaits(r, s)'
  BY <1>1 DEF SlotsKept, OneWaits, SlotOf
<1> QED
  BY <1>3, <1>4, <1>5, <1>6 DEF SlotsKept

\* What the moving task carried is shown, given up, or carried on, and so is
\* what the step adds.
LEMMA HandsOn ==
  ASSUME Borne, Grows, SchedInv, Shape, Shape', NEW t \in Tasks, Others(t),
         cycle' = cycle,
         \A a \in AuctionIds : \A v \in owed'[a] :
           \/ v \in owed[a] /\ ~ Bears(tasks[t], a, v)
           \/ v <= auctions'[a].version /\ \E s \in Tasks : Bears(tasks'[s], a, v)
  PROVE  Borne'
<1>1. ASSUME NEW a \in AuctionIds, NEW v \in owed'[a]
      PROVE  v <= Version(a)' /\ Carried(a, v)'
  <2>1. CASE v \in owed[a] /\ ~ Bears(tasks[t], a, v)
    <3>1. v <= Version(a) /\ Carried(a, v)
      BY <2>1 DEF Borne
    <3>2. v <= auctions'[a].version
      <4>1. v \in Nat /\ auctions[a].version \in Nat /\ auctions'[a].version \in Nat
        BY <2>1 DEF Shape, PostTypes, SchedInv, SchedTypeOK, Grows, Auction
      <4>2. auctions'[a].version >= auctions[a].version
        BY DEF Grows, GrowsAt
      <4> QED
        BY <3>1, <4>1, <4>2 DEF Version
    <3>3. CASE CycleBears(a, v)
      BY <3>2, <3>3 DEF Carried, CycleBears, Entry, Version
    <3>4. ASSUME NEW s \in Tasks, Bears(tasks[s], a, v) PROVE Carried(a, v)'
      <4>1. s # t
        BY <2>1, <3>4
      <4>2. tasks'[s] = tasks[s]
        BY <4>1 DEF Others
      <4> QED
        BY <3>4, <4>2 DEF Carried
    <3> QED
      BY <3>1, <3>2, <3>3, <3>4 DEF Carried, Version
  <2>2. CASE v <= auctions'[a].version /\ \E s \in Tasks : Bears(tasks'[s], a, v)
    BY <2>2 DEF Carried, Version
  <2> QED
    BY <2>1, <2>2
<1>2. FirstStep'
  BY DEF Borne, FirstStep, Entry
<1> QED
  BY <1>1, <1>2 DEF Borne

\* A post that is not touched stays as fresh.
LEMMA PostFreshKept ==
  ASSUME Fresh, Grows, SchedInv, Shape, NEW a \in AuctionIds, shown'[a] = shown[a]
  PROVE  PostFresh(a)'
<1>1. PostFresh(a) /\ GrowsAt(a)
  BY DEF Fresh, Grows
<1>2. /\ shown[a].version \in Nat /\ auctions[a].version \in Nat
      /\ auctions'[a].version \in Nat
  BY DEF SchedInv, SchedTypeOK, Grows, Auction, Shape, PostTypes, Drawing
<1>3. shown'[a].version <= auctions'[a].version
  BY <1>1, <1>2 DEF PostFresh, GrowsAt, Version
<1>4. auctions'[a].status = "none" => shown'[a] = NoPost
  BY <1>1 DEF PostFresh, GrowsAt, Status
<1>5. ASSUME shown'[a] # NoPost, auctions'[a].status = "open"
      PROVE  LiveButtons(a)' \subseteq shown'[a].buttons
  <2>1. auctions[a].status # "none"
    BY <1>1, <1>5 DEF PostFresh, Status
  <2>2. auctions[a].status = "open" /\ auctions'[a].flavor = auctions[a].flavor
    BY <1>1, <1>5, <2>1 DEF GrowsAt
  <2>3. LiveButtons(a)' = LiveButtons(a)
    BY <2>2 DEF LiveButtons
  <2> QED
    BY <1>1, <1>5, <2>2, <2>3 DEF PostFresh, Status
<1> QED
  BY <1>3, <1>4, <1>5 DEF PostFresh, Version, Status

\* A task that does not move has the same fresh things to show.
LEMMA FreshTaskKept ==
  ASSUME PostInv, Grows, NEW s \in Tasks, tasks'[s] = tasks[s],
         tasks[s].pc = "edit" =>
           /\ shown'[tasks[s].on] = shown[tasks[s].on]
           /\ known'[tasks[s].on] \/ slot'[tasks[s].on] = 1,
         tasks[s].pc \in Posting =>
           /\ shown'[tasks[s].on] = shown[tasks[s].on]
           /\ known'[tasks[s].on] = known[tasks[s].on]
           /\ slot'[tasks[s].on] = slot[tasks[s].on]
  PROVE  EditFresh(s)' /\ NewFresh(s)'
<1> DEFINE a == tasks[s].on
           k == tasks[s]
<1>0. /\ SchedInv /\ Shape /\ EditFresh(s) /\ NewFresh(s) /\ tasks'[s] = k
      /\ k.pc = "edit" => shown'[a] = shown[a] /\ (known'[a] \/ slot'[a] = 1)
      /\ k.pc \in Posting =>
           shown'[a] = shown[a] /\ known'[a] = known[a] /\ slot'[a] = slot[a]
  BY DEF PostInv, Fresh
<1>1. CASE k.pc \in Posting \cup {"edit"}
  <2>1. a \in AuctionIds /\ auctions[a].status # "none"
    BY <1>0, <1>1 DEF Shape, TaskShape, Posting, Status
  <2>2. /\ auctions'[a].version >= auctions[a].version
        /\ auctions'[a].status = "open" => auctions[a].status = "open"
        /\ auctions'[a].flavor = auctions[a].flavor
    BY <2>1 DEF Grows, GrowsAt
  <2>3. auctions[a].version \in Nat /\ auctions'[a].version \in Nat /\ k.version \in Nat
    BY <1>0, <2>1 DEF SchedInv, SchedTypeOK, Grows, Auction, Shape, PostTypes, TaskRecord
  <2>4. LiveButtons(a)' = LiveButtons(a) /\ Version(a) <= Version(a)'
    BY <2>2, <2>3, <1>0 DEF LiveButtons, Version
  <2>5. k.version <= Version(a) => k.version <= Version(a)'
    BY <2>2, <2>3, <1>0 DEF Version
  <2>6. tasks'[s].on = a /\ tasks'[s].pc = k.pc /\ tasks'[s].version = k.version
        /\ tasks'[s].buttons = k.buttons /\ tasks'[s].slot = k.slot
    BY <1>0
  <2>7. CASE k.pc = "edit"
    <3>1. EditFresh(s)'
      BY <1>0, <2>2, <2>4, <2>5, <2>7 DEF EditFresh, Status
    <3> QED
      BY <3>1, <2>7, <1>0 DEF NewFresh, Posting
  <2>8. CASE k.pc \in Posting
    <3>1. NewFresh(s)'
      BY <1>0, <2>4, <2>5, <2>8 DEF NewFresh
    <3> QED
      BY <3>1, <2>8, <1>0 DEF EditFresh, Posting
  <2> QED
    BY <1>1, <2>7, <2>8
<1>2. CASE k.pc \notin Posting \cup {"edit"}
  BY <1>0, <1>2 DEF EditFresh, NewFresh
<1> QED
  BY <1>1, <1>2

\* What is shown or about to be stays fresh.
LEMMA FreshStep ==
  ASSUME PostInv, Grows, NEW t \in Tasks, Others(t),
         \A a \in AuctionIds : PostFresh(a)',
         \A s \in Tasks \ {t} : tasks[s].pc = "edit" =>
           /\ shown'[tasks[s].on] = shown[tasks[s].on]
           /\ known'[tasks[s].on] \/ slot'[tasks[s].on] = 1,
         \A s \in Tasks \ {t} : tasks[s].pc \in Posting =>
           /\ shown'[tasks[s].on] = shown[tasks[s].on]
           /\ known'[tasks[s].on] = known[tasks[s].on]
           /\ slot'[tasks[s].on] = slot[tasks[s].on]
           /\ tasks'[t].pc \in Posting => tasks'[t].on # tasks[s].on,
         EditFresh(t)', NewFresh(t)'
  PROVE  Fresh'
<1>0. SchedInv /\ Shape /\ Fresh
  BY DEF PostInv
<1>1. \A s \in Tasks \ {t} : tasks'[s] = tasks[s]
  BY DEF Others
<1>2. \A s \in Tasks \ {t} : EditFresh(s)' /\ NewFresh(s)'
  BY <1>1, FreshTaskKept
<1>3. ASSUME NEW r \in Tasks, NEW s \in Tasks PROVE OnePoster(r, s)'
  <2>1. CASE r # t /\ s # t
    BY <1>0, <1>1, <2>1 DEF Fresh, OnePoster
  <2>2. CASE r = t \/ s = t
    BY <1>1, <2>2 DEF OnePoster
  <2> QED
    BY <2>1, <2>2
<1> QED
  BY <1>2, <1>3 DEF Fresh
-----------------------------------------------------------------------------
(* The steps *)

\* What a step does to the auctions and to the scheduler's list.
LEMMA PostGrows ==
  ASSUME SchedInv, Shape, Next
  PROVE  SchedInv' /\ Grows
<1>0. faults \in Nat /\ Counted
  BY DEF SchedInv, SchedTypeOK, Shape
<1>1. CASE UNCHANGED <<now, auctions, cycle>> /\ faults' \in Nat
  BY <1>0, <1>1, OthersKeep, NothingGrows
<1>2. CASE UNCHANGED <<now, cycle, faults>> /\ \E a \in AuctionIds : Command(a)
  BY <1>0, <1>2, OthersKeep, CommandGrows
<1>3. ASSUME NEW t \in Tasks, Requests(t) PROVE SchedInv' /\ Grows
  <2> DEFINE Handled == UNCHANGED <<now, cycle, faults>>
  <2>1. PICK a \in AuctionIds :
          \/ OpenAuction(t, a) \/ Bid(t, a) \/ RollForAuction(t, a)
          \/ CancelClick(t, a) \/ ConfirmClick(t, a)
          \/ CancelAuction(t, a) \/ EndAuction(t, a)
    BY <1>3 DEF Requests
  <2>2. Handled
    BY <2>1 DEF OpenAuction, Bid, RollForAuction, CancelClick, ConfirmClick,
                CancelAuction, EndAuction, Handler
  <2>3. Command(a) \/ UNCHANGED auctions
    BY <2>1 DEF OpenAuction, Bid, RollForAuction, CancelClick, ConfirmClick,
                CancelAuction, EndAuction, Command
  <2> QED
    BY <1>0, <1>1, <1>2, <2>2, <2>3
<1>4. ASSUME NEW t \in Tasks, Proceeds(t), ~ EndSettles(t) PROVE SchedInv' /\ Grows
  <2>1. UNCHANGED <<now, auctions, cycle>>
    BY <1>4 DEF Proceeds, Query, Send, Remember, EndRefused, Answer, Render,
                NothingToEdit, EditDone, schedVars
  <2>2. faults' = faults \/ \E kind \in {"storage"} : Fault(kind)
    BY <1>4 DEF Proceeds, Query, Send, Remember, EndRefused, Answer, Render,
                NothingToEdit, EditDone, schedVars
  <2> QED
    BY <1>0, <1>1, <2>1, <2>2, FaultCounts
<1>5. ASSUME NEW t \in Tasks, EndSettles(t) PROVE SchedInv' /\ Grows
  <2>1. tasks[t].on \in AuctionIds
    BY <1>5 DEF EndSettles, Shape, TaskShape
  <2> QED
    BY <1>2, <1>5, <2>1 DEF EndSettles, Command
<1>6. ASSUME NEW t \in Tasks, TakeTurn(t) PROVE SchedInv' /\ Grows
  BY <1>0, <1>1, <1>6 DEF TakeTurn, schedVars
<1>7. ASSUME NEW t \in Tasks, Fails(t) PROVE SchedInv' /\ Grows
  <2>1. UNCHANGED <<now, auctions, cycle>> /\ \E kind \in {"discord", "timeout"} : Fault(kind)
    BY <1>7 DEF Fails, SendFails, AnswerFails, EditFails, EditTimesOut
  <2> QED
    BY <1>1, <2>1, FaultCounts
<1>8. CASE CycleFires
  <2>1. SchedInv' /\ Command(Entry.id) /\ Entry.id \in AuctionIds
    BY <1>8, FireKeeps, EntryOf DEF CycleFires, Fire, Pending
  <2> QED
    BY <1>0, <2>1, CommandGrows
<1>9. CASE CycleQuiet \/ CycleGivesUp \/ CycleRefreshes \/ BotStops \/ Time
  <2>1. SchedNext
    BY <1>9 DEF CycleQuiet, CycleGivesUp, CycleRefreshes, BotStops, Time, SchedNext, CycleStep
  <2>2. UNCHANGED auctions
    BY <1>9 DEF CycleQuiet, CycleGivesUp, CycleRefreshes, BotStops, Time,
                ReadDue, Refused, CycleFails, NextEntry, Stop, Tick
  <2> QED
    BY <1>0, <2>1, <2>2, SchedSteps, NothingGrows
<1>10. CASE Boot
  <2>1. /\ UNCHANGED <<now, auctions>> /\ cycle' = Asleep("rest")
        /\ UNCHANGED faults \/ Fault("discord")
    BY <1>10 DEF Boot, Start
  <2>2. faults' \in Nat
    BY <1>0, <2>1, FaultCounts
  <2> QED
    BY <1>0, <2>1, <2>2, OthersKeep, NothingGrows
<1> QED
  BY <1>3, <1>4, <1>5, <1>6, <1>7, <1>8, <1>9, <1>10 DEF Next, Cycling

Kept == Shape' /\ SlotsKept' /\ Borne' /\ Fresh'

\* Handlers write down what their posts owe.
LEMMA Owing ==
  ASSUME PostTypes, Grows, NEW a \in AuctionIds, Owes(a), auctions'[a].status # "none"
  PROVE  /\ owed' \in [AuctionIds -> SUBSET (Nat \ {0})]
         /\ \A b \in AuctionIds \ {a} : owed'[b] = owed[b]
         /\ owed'[a] = owed[a] \/ (known[a] /\ owed'[a] = owed[a] \cup {auctions'[a].version})
         /\ known[a] => auctions'[a].version \in owed'[a]
<1>1. auctions'[a].version \in Nat \ {0}
  BY DEF Grows, Auction, Counted, Status, Version
<1>2. owed \in [AuctionIds -> SUBSET (Nat \ {0})]
  BY DEF PostTypes
<1>3. owed' = [owed EXCEPT ![a] = IF known[a] THEN owed[a] \cup {auctions'[a].version}
                                  ELSE owed[a]]
  BY DEF Owes
<1> QED
  BY <1>1, <1>2, <1>3

\* What is given up is no longer owed.
LEMMA GivingUp ==
  ASSUME PostTypes, NEW a \in AuctionIds, NEW V, GivesUp(a, V)
  PROVE  /\ owed' \in [AuctionIds -> SUBSET (Nat \ {0})]
         /\ \A b \in AuctionIds \ {a} : owed'[b] = owed[b]
         /\ owed'[a] = owed[a] \ V
<1>1. owed \in [AuctionIds -> SUBSET (Nat \ {0})]
  BY DEF PostTypes
<1>2. owed' = [owed EXCEPT ![a] = owed[a] \ V]
  BY DEF GivesUp
<1> QED
  BY <1>1, <1>2

\* A request, from its command on.
LEMMA HandlerKeeps ==
  ASSUME PostInv, Grows, NEW t \in Tasks, NEW a \in AuctionIds,
         NEW pc \in {"query", "bid", "roll", "settle", "refresh", "end"},
         Handler(t, a, pc), auctions'[a].status # "none",
         pc = "query" => Status(a) = "none"
  PROVE  Kept
<1>0. /\ SchedInv /\ Shape /\ SlotsKept /\ Borne /\ Fresh /\ PostTypes
      /\ cycle' = cycle /\ cycle.pc # "off" /\ UNCHANGED <<shown, known, slot, turn, queued>>
      /\ Owes(a) /\ pc \in TaskPcs
  BY DEF PostInv, Shape, Handler, slotVars, TaskPcs
<1> DEFINE k == tasks'[t]
<1>1. /\ Others(t) /\ tasks[t].pc = "idle"
      /\ k.pc = pc /\ k.on = a /\ k.slot = slot[a] /\ k.version = auctions'[a].version
  BY <1>0, Handling
<1>2. PostTypes'
  BY <1>0, <1>1, Owing DEF PostTypes, Others
<1>3. Shape'
  <2>1. \A b \in AuctionIds : PostShape(b)'
    BY <1>0, PostShapeKept
  <2>2. TaskShape(t)'
    BY <1>0, <1>1 DEF TaskShape, Status
  <2> QED
    BY <1>0, <1>1, <1>2, <2>1, <2>2, ShapeStep
<1>4. SlotsKept'
  BY <1>0, <1>1, SlotsQuiet
<1>5. Borne'
  <2>1. ~ \E b, v : Bears(tasks[t], b, v)
    BY <1>1 DEF Bears
  <2>2. \A b \in AuctionIds : \A v \in owed'[b] :
          v \in owed[b] \/ (b = a /\ known[a] /\ v = auctions'[a].version)
    BY <1>0, Owing
  <2>3. ASSUME known[a] PROVE Bears(k, a, auctions'[a].version)
    <3>1. pc # "query"
      BY <1>0, <2>3 DEF Shape, PostShape
    <3> QED
      BY <1>1, <3>1 DEF Bears
  <2>4. auctions'[a].version <= auctions'[a].version
    BY DEF Grows, Auction
  <2> QED
    BY <1>0, <1>1, <1>3, <2>1, <2>2, <2>3, <2>4, HandsOn
<1>6. Fresh'
  <2>1. \A b \in AuctionIds : PostFresh(b)'
    BY <1>0, PostFreshKept
  <2>2. EditFresh(t)'
    BY <1>1 DEF EditFresh
  <2>3. NewFresh(t)'
    <3>1. CASE pc = "query"
      <4>1. ~ known[a] /\ slot[a] = 0 /\ shown[a] = NoPost
        BY <1>0, <3>1 DEF Shape, PostShape, PostTypes, Fresh, PostFresh
      <4> QED
        BY <1>0, <1>1, <3>1, <4>1 DEF NewFresh, Posting
    <3>2. CASE pc # "query"
      BY <1>1, <3>2 DEF NewFresh, Posting
    <3> QED
      BY <3>1, <3>2
  <2>4. \A s \in Tasks \ {t} : tasks[s].pc = "edit" =>
           /\ shown'[tasks[s].on] = shown[tasks[s].on]
           /\ known'[tasks[s].on] \/ slot'[tasks[s].on] = 1
    BY <1>0 DEF Fresh, EditFresh
  <2>5. \A s \in Tasks \ {t} : tasks[s].pc \in Posting =>
           /\ shown'[tasks[s].on] = shown[tasks[s].on]
           /\ known'[tasks[s].on] = known[tasks[s].on]
           /\ slot'[tasks[s].on] = slot[tasks[s].on]
           /\ k.pc \in Posting => k.on # tasks[s].on
    <3>1. \A s \in Tasks : tasks[s].pc \in Posting => Status(tasks[s].on) # "none"
      BY <1>0 DEF Shape, TaskShape, Posting
    <3>2. k.pc \in Posting => Status(a) = "none"
      BY <1>1 DEF Posting
    <3> QED
      BY <1>0, <1>1, <3>1, <3>2
  <2> QED
    BY <1>1, <2>1, <2>2, <2>3, <2>4, <2>5, FreshStep
<1> QED
  BY <1>3, <1>4, <1>5, <1>6 DEF Kept
\* A task's step that leaves alone which posts are known.
LEMMA StepKeeps ==
  ASSUME PostInv, Grows, NEW t \in Tasks, Others(t), UNCHANGED <<cycle, known, slot>>,
         tasks[t].pc # "idle", PostTypes', SlotsKept',
         tasks'[t].pc = "idle" \/ (/\ tasks'[t].on = tasks[t].on
                                   /\ tasks'[t].slot \in {tasks[t].slot, slot[tasks[t].on]}),
         tasks'[t].pc \in Posting => tasks[t].pc \in Posting,
         EditFresh(t)', NewFresh(t)',
         \A a \in AuctionIds : shown'[a] = shown[a] \/ PostFresh(a)',
         \A s \in Tasks \ {t} : tasks[s].pc \in Posting \cup {"edit"} =>
            shown'[tasks[s].on] = shown[tasks[s].on],
         \A a \in AuctionIds \ {tasks[t].on} : owed'[a] \subseteq owed[a],
         \A v \in owed'[tasks[t].on] :
           \/ v \in owed[tasks[t].on] /\ ~ Bears(tasks[t], tasks[t].on, v)
           \/ /\ v <= auctions'[tasks[t].on].version
              /\ \E s \in Tasks : Bears(tasks'[s], tasks[t].on, v)
  PROVE  Kept
<1> DEFINE a == tasks[t].on
           k == tasks'[t]
<1>0. SchedInv /\ Shape /\ SlotsKept /\ Borne /\ Fresh /\ PostTypes
  BY DEF PostInv, Shape
<1>1. cycle.pc # "off"
  BY <1>0, IdleTyped DEF Shape
<1>2. Shape'
  <2>1. \A b \in AuctionIds : PostShape(b)'
    BY <1>0, PostShapeKept
  <2>2. TaskShape(t)'
    <3>1. CASE k.pc = "idle"
      BY <3>1 DEF TaskShape
    <3>2. CASE k.pc # "idle"
      <4>1. k.on = a /\ k.slot \in {tasks[t].slot, slot[a]}
        BY <3>2
      <4>2. a \in AuctionIds /\ auctions[a].status # "none"
            /\ (tasks[t].slot = 1 => slot[a] = 1)
        BY <1>0 DEF Shape, TaskShape, Status
      <4>3. auctions'[a].status # "none"
        BY <4>2 DEF Grows, GrowsAt
      <4> QED
        BY <4>1, <4>2, <4>3 DEF TaskShape, Status
    <3> QED
      BY <3>1, <3>2
  <2> QED
    BY <1>0, <1>1, <2>1, <2>2, ShapeStep
<1>3. Borne'
  <2>1. \A b \in AuctionIds : \A v \in owed'[b] :
           \/ v \in owed[b] /\ ~ Bears(tasks[t], b, v)
           \/ v <= auctions'[b].version /\ \E s \in Tasks : Bears(tasks'[s], b, v)
    <3>1. ASSUME NEW b \in AuctionIds \ {a}, NEW v \in owed'[b]
          PROVE  v \in owed[b] /\ ~ Bears(tasks[t], b, v)
      BY <3>1 DEF Bears
    <3> QED
      BY <3>1
  <2> QED
    BY <1>0, <1>2, <2>1, HandsOn
<1>4. Fresh'
  <2>1. \A b \in AuctionIds : PostFresh(b)'
    BY <1>0, PostFreshKept
  <2>2. \A s \in Tasks \ {t} : tasks[s].pc = "edit" =>
           /\ shown'[tasks[s].on] = shown[tasks[s].on]
           /\ known'[tasks[s].on] \/ slot'[tasks[s].on] = 1
    BY <1>0 DEF Fresh, EditFresh
  <2>3. \A s \in Tasks \ {t} : tasks[s].pc \in Posting =>
           /\ shown'[tasks[s].on] = shown[tasks[s].on]
           /\ known'[tasks[s].on] = known[tasks[s].on]
           /\ slot'[tasks[s].on] = slot[tasks[s].on]
           /\ k.pc \in Posting => k.on # tasks[s].on
    <3>1. k.pc \in Posting => k.on = a /\ tasks[t].pc \in Posting
      BY DEF Posting
    <3>2. \A s \in Tasks \ {t} : tasks[s].pc \in Posting /\ tasks[t].pc \in Posting => tasks[s].on # a
      BY <1>0 DEF Fresh, OnePoster
    <3> QED
      BY <3>1, <3>2
  <2> QED
    BY <2>1, <2>2, <2>3, FreshStep
<1> QED
  BY <1>2, <1>3, <1>4 DEF Kept

\* A task that neither posts nor edits has nothing fresh to show.
LEMMA FreshTask ==
  ASSUME NEW t \in Tasks, tasks'[t].pc \notin Posting \cup {"edit"}
  PROVE  EditFresh(t)' /\ NewFresh(t)'
BY DEF EditFresh, NewFresh

\* The opener reads its auction back.
LEMMA QueryKeeps ==
  ASSUME PostInv, Grows, NEW t \in Tasks, Query(t), auctions' = auctions,
         NEW a, a = tasks[t].on
  PROVE  Kept
<1> DEFINE k == tasks'[t]
<1>0. /\ SchedInv /\ Shape /\ SlotsKept /\ Fresh /\ PostTypes /\ tasks[t].pc = "query"
      /\ UNCHANGED <<cycle, shown, known, slot, turn, queued, owed>>
  BY DEF PostInv, Shape, Query, slotVars, schedVars
<1>1. a \in AuctionIds /\ LiveButtons(a) \in SUBSET Buttons
  BY <1>0 DEF Shape, TaskShape, LiveButtons, Buttons
<1>2. /\ Others(t) /\ k.pc = "send" /\ k.on = a /\ k.slot = tasks[t].slot
      /\ k.buttons = LiveButtons(a) /\ k.version = Version(a)
  BY <1>0, <1>1, Drawing1 DEF Query, TaskPcs
<1>3. PostTypes'
  BY <1>0, <1>2 DEF PostTypes, Others
<1>4. SlotsKept'
  BY <1>0, <1>2, SlotsQuiet
<1>5. EditFresh(t)' /\ NewFresh(t)'
  <2>1. ~ known[a] /\ slot[a] = 0 /\ shown[a] = NoPost
    BY <1>0 DEF Fresh, NewFresh, Posting
  <2>2. Version(a)' = Version(a) /\ LiveButtons(a)' = LiveButtons(a) /\ Version(a) \in Nat
    BY <1>0, <1>1 DEF Version, LiveButtons, SchedInv, SchedTypeOK, Auction
  <2> QED
    BY <1>0, <1>2, <2>1, <2>2 DEF NewFresh, EditFresh
<1>6. \A v : ~ Bears(tasks[t], a, v)
  BY <1>0 DEF Bears
<1> QED
  BY <1>0, <1>2, <1>3, <1>4, <1>5, <1>6, StepKeeps DEF Posting

\* It posts it.
LEMMA SendKeeps ==
  ASSUME PostInv, Grows, NEW t \in Tasks, Send(t), auctions' = auctions,
         NEW a, a = tasks[t].on
  PROVE  Kept
<1> DEFINE k == tasks'[t]
<1>0. /\ SchedInv /\ Shape /\ SlotsKept /\ Fresh /\ PostTypes /\ tasks[t].pc = "send"
      /\ UNCHANGED <<cycle, known, slot, turn, queued, owed>>
      /\ shown' = [shown EXCEPT ![a] = Drawn(t)] /\ Goes(t, "sent")
  BY DEF PostInv, Shape, Send, slotVars, schedVars
<1>1. a \in AuctionIds /\ Drawn(t) \in Drawing /\ Status(a) # "none"
  BY <1>0 DEF Shape, TaskShape, PostTypes, TaskRecord, Drawn, Drawing
<1>2. Others(t) /\ k.pc = "sent" /\ k.on = a /\ k.slot = tasks[t].slot
  BY <1>0, Going DEF TaskPcs
<1>3. PostTypes'
  BY <1>0, <1>1, <1>2 DEF PostTypes, Others
<1>4. SlotsKept'
  BY <1>0, <1>2, SlotsQuiet
<1>5. /\ ~ known[a] /\ slot[a] = 0 /\ tasks[t].version <= Version(a)
      /\ tasks[t].buttons = LiveButtons(a)
  BY <1>0 DEF Fresh, NewFresh, Posting
<1>6. EditFresh(t)' /\ NewFresh(t)'
  BY <1>0, <1>2, <1>5 DEF NewFresh, EditFresh
<1>7. \A v : ~ Bears(tasks[t], a, v)
  BY <1>0 DEF Bears
<1>8. PostFresh(a)'
  <2>1. shown'[a] = Drawn(t)
    BY <1>0, <1>1 DEF PostTypes
  <2>2. shown'[a].version = tasks[t].version /\ shown'[a].buttons = tasks[t].buttons
    BY <2>1 DEF Drawn
  <2>3. Version(a)' = Version(a) /\ LiveButtons(a)' = LiveButtons(a) /\ Status(a)' = Status(a)
    BY DEF Version, LiveButtons, Status
  <2> QED
    BY <1>1, <1>5, <2>2, <2>3 DEF PostFresh
<1>9. \A b \in AuctionIds : shown'[b] = shown[b] \/ PostFresh(b)'
  BY <1>0, <1>8 DEF PostTypes
<1>10. ASSUME NEW s \in Tasks \ {t}, tasks[s].pc \in Posting \cup {"edit"}
       PROVE  shown'[tasks[s].on] = shown[tasks[s].on]
  <2>1. tasks[s].on \in AuctionIds
    BY <1>0, <1>10 DEF Shape, TaskShape, Posting
  <2>2. tasks[s].on # a
    <3>1. CASE tasks[s].pc = "edit"
      BY <1>0, <1>5, <3>1 DEF Fresh, EditFresh
    <3>2. CASE tasks[s].pc \in Posting
      BY <1>0, <3>2 DEF Fresh, OnePoster, Posting
    <3> QED
      BY <1>10, <3>1, <3>2
  <2> QED
    BY <1>0, <2>1, <2>2 DEF PostTypes
<1> QED
  BY <1>0, <1>2, <1>3, <1>4, <1>6, <1>7, <1>9, <1>10, StepKeeps DEF Posting

\* It fails to, or a command or an answer does, and its post owes nothing more.
LEMMA EndingKeeps ==
  ASSUME PostInv, Grows, NEW t \in Tasks, Ends(t),
         UNCHANGED <<cycle, shown, known, slot, turn, queued>>,
         tasks[t].pc \in {"send", "end", "bid", "settle"},
         \/ tasks[t].pc = "send" /\ owed' = owed
         \/ tasks[t].pc # "send" /\ GivesUp(tasks[t].on, {tasks[t].version})
  PROVE  Kept
<1> DEFINE a == tasks[t].on
<1>0. /\ SchedInv /\ Shape /\ SlotsKept /\ Fresh /\ PostTypes
  BY DEF PostInv, Shape
<1>1. a \in AuctionIds
  BY <1>0 DEF Shape, TaskShape
<1>2. Others(t) /\ tasks'[t].pc = "idle"
  BY <1>0, Ending
<1>3. /\ owed' \in [AuctionIds -> SUBSET (Nat \ {0})]
      /\ \A b \in AuctionIds \ {a} : owed'[b] = owed[b]
      /\ owed'[a] = owed[a] \ (IF tasks[t].pc = "send" THEN {} ELSE {tasks[t].version})
  BY <1>0, <1>1, GivingUp DEF PostTypes
<1>4. PostTypes'
  BY <1>0, <1>2, <1>3 DEF PostTypes, Others
<1>5. SlotsKept'
  BY <1>0, <1>2, SlotsQuiet
<1>6. \A v \in owed'[a] : v \in owed[a] /\ ~ Bears(tasks[t], a, v)
  BY <1>3 DEF Bears
<1>7. EditFresh(t)' /\ NewFresh(t)'
  BY <1>2, FreshTask DEF Posting
<1> QED
  BY <1>0, <1>2, <1>3, <1>4, <1>5, <1>6, <1>7, StepKeeps DEF Posting
\* What is owed is no newer than the auction is by then.
LEMMA OwedWithin ==
  ASSUME PostInv, Grows, NEW a \in AuctionIds, NEW v \in owed[a]
  PROVE  v \in Nat \ {0} /\ v <= Version(a) /\ v <= auctions'[a].version
<1>1. v <= auctions[a].version /\ auctions'[a].version >= auctions[a].version
  BY DEF PostInv, Borne, Version, Grows, GrowsAt
<1>2. v \in Nat \ {0} /\ auctions[a].version \in Nat /\ auctions'[a].version \in Nat
  BY DEF PostInv, Shape, PostTypes, SchedInv, SchedTypeOK, Auction, Grows
<1> QED
  BY <1>1, <1>2 DEF Version

\* /endauction goes on to settle.
LEMMA EndSettlesKeeps ==
  ASSUME PostInv, Grows, NEW t \in Tasks, EndSettles(t) PROVE Kept
<1> DEFINE a == tasks[t].on
           k == tasks'[t]
<1>0. /\ SchedInv /\ Shape /\ SlotsKept /\ Borne /\ Fresh /\ PostTypes /\ tasks[t].pc = "end"
      /\ UNCHANGED <<cycle, shown, known, slot, turn, queued>> /\ Owes(a)
  BY DEF PostInv, Shape, EndSettles, slotVars
<1>1. a \in AuctionIds /\ auctions'[a].status # "none" /\ auctions'[a].version \in Nat
  BY <1>0 DEF Shape, TaskShape, Grows, GrowsAt, Status, Auction
<1>2. Others(t) /\ k.pc = "refresh" /\ k.on = a /\ k.slot = tasks[t].slot
  <2> DEFINE w == auctions'[a].version
             d == [tasks[t] EXCEPT !.pc = "refresh", !.version = w]
  <2>1. tasks' = [tasks EXCEPT ![t] = d]
    BY DEF EndSettles
  <2>2. w \in Nat /\ tasks[t] \in TaskRecord
    BY <1>0, <1>1 DEF PostTypes
  <2> HIDE DEF w
  <2>3. d \in TaskRecord /\ d.pc = "refresh" /\ d.on = a /\ d.slot = tasks[t].slot
    BY <2>2 DEF TaskRecord, TaskPcs
  <2> HIDE DEF d
  <2> QED
    BY <1>0, <2>1, <2>3 DEF Others, PostTypes
<1>3. /\ owed' \in [AuctionIds -> SUBSET (Nat \ {0})]
      /\ \A b \in AuctionIds \ {a} : owed'[b] = owed[b]
      /\ owed'[a] \subseteq owed[a] \cup {auctions'[a].version}
  BY <1>0, <1>1, Owing
<1>4. PostTypes'
  BY <1>0, <1>2, <1>3 DEF PostTypes, Others
<1>5. SlotsKept'
  BY <1>0, <1>2, SlotsQuiet
<1>6. ASSUME NEW v \in owed'[a]
      PROVE  v <= auctions'[a].version /\ Bears(k, a, v)
  <2>1. CASE v \in owed[a]
    BY <1>1, <1>2, <2>1, OwedWithin DEF Bears
  <2>2. CASE v = auctions'[a].version
    BY <1>1, <1>2, <2>2 DEF Bears
  <2> QED
    BY <1>3, <2>1, <2>2
<1>7. EditFresh(t)' /\ NewFresh(t)'
  BY <1>2, FreshTask DEF Posting
<1> QED
  BY <1>0, <1>2, <1>3, <1>4, <1>5, <1>6, <1>7, StepKeeps DEF Posting

\* The handler's own refresh looks up its slot.
LEMMA OwnRefreshKeeps ==
  ASSUME PostInv, Grows, NEW t \in Tasks,
         Waits(t), tasks[t].pc \in {"settle", "refresh"},
         UNCHANGED <<cycle, shown, known, slot, turn, queued, owed>>
  PROVE  Kept
<1> DEFINE a == tasks[t].on
           k == tasks'[t]
<1>0. /\ SchedInv /\ Shape /\ SlotsKept /\ Borne /\ Fresh /\ PostTypes
  BY DEF PostInv, Shape
<1>1. a \in AuctionIds
  BY <1>0 DEF Shape, TaskShape
<1>2. Others(t) /\ k.pc = "wait" /\ k.on = a /\ k.slot = slot[a]
  BY <1>0, <1>1, Waiting1
<1>3. PostTypes'
  BY <1>0, <1>2 DEF PostTypes, Others
<1>4. SlotsKept'
  BY <1>0, <1>2, SlotsQuiet
<1>5. \A v \in owed'[a] : v <= auctions'[a].version /\ Bears(k, a, v)
  BY <1>1, <1>2, OwedWithin DEF Bears
<1>6. EditFresh(t)' /\ NewFresh(t)'
  BY <1>2, FreshTask DEF Posting
<1> QED
  BY <1>0, <1>2, <1>3, <1>4, <1>5, <1>6, StepKeeps DEF Posting

\* A refresh in the background: an edit that waits takes the request along, or
\* a new one does.
LEMMA RefreshSoonKeeps ==
  ASSUME PostInv, Grows, NEW t \in Tasks, tasks[t].pc \in {"bid", "roll"},
         RefreshSoon(t, tasks[t].on),
         UNCHANGED <<cycle, shown, known, slot, turn, owed>>
  PROVE  Kept
<1> DEFINE a == tasks[t].on
           k == tasks'[t]
           x == <<a, slot[a]>>
<1>0. /\ SchedInv /\ Shape /\ SlotsKept /\ Borne /\ Fresh /\ PostTypes
  BY DEF PostInv, Shape
<1>1. a \in AuctionIds /\ x \in Slots
  BY <1>0 DEF Shape, TaskShape, PostTypes, Slots
<1>2. CASE queued[x]
  <2>1. Ends(t) /\ UNCHANGED queued
    BY <1>2 DEF RefreshSoon
  <2>2. Others(t) /\ k.pc = "idle"
    BY <1>0, <2>1, Ending
  <2>3. PICK s \in Tasks : SlotOf(s) = x /\ tasks[s].pc = "queue"
    BY <1>0, <1>1, <1>2 DEF SlotsKept, WaitedFor
  <2>4. tasks'[s] = tasks[s] /\ tasks[s].on = a
    BY <2>2, <2>3 DEF Others, SlotOf
  <2>5. \A v \in owed'[a] : v <= auctions'[a].version /\ Bears(tasks'[s], a, v)
    BY <1>1, <2>3, <2>4, OwedWithin DEF Bears
  <2>6. PostTypes'
    BY <1>0, <2>1, <2>2 DEF PostTypes, Others
  <2>7. SlotsKept'
    BY <1>0, <2>1, <2>2, SlotsQuiet
  <2>8. EditFresh(t)' /\ NewFresh(t)'
    BY <2>2, FreshTask DEF Posting
  <2> QED
    BY <1>0, <2>2, <2>5, <2>6, <2>7, <2>8, StepKeeps DEF Posting
<1>3. CASE ~ queued[x]
  <2>1. Spawns(t, a)
    BY <1>3 DEF RefreshSoon
  <2>2. /\ Others(t) /\ k.pc = "queue" /\ k.on = a /\ k.slot = slot[a]
        /\ queued' = [queued EXCEPT ![x] = TRUE]
    BY <1>0, <1>1, <2>1, Spawning
  <2>3. PostTypes'
    BY <1>0, <1>1, <2>2 DEF PostTypes, Others
  <2>4. SlotsKept'
    <3>1. SlotOf(t)' = x
      BY <2>2 DEF SlotOf
    <3> HIDE DEF x
    <3> QED
      BY <1>0, <1>1, <1>3, <2>2, <3>1, SlotsSpawned
  <2>5. \A v \in owed'[a] : v <= auctions'[a].version /\ Bears(k, a, v)
    BY <1>1, <2>2, OwedWithin DEF Bears
  <2>6. EditFresh(t)' /\ NewFresh(t)'
    BY <2>2, FreshTask DEF Posting
  <2> QED
    BY <1>0, <2>2, <2>3, <2>4, <2>5, <2>6, StepKeeps DEF Posting
<1> QED
  BY <1>2, <1>3
\* An answer to whoever clicked, and one that does not arrive.
LEMMA AnswerKeeps ==
  ASSUME PostInv, Grows, NEW t \in Tasks, Answer(t) \/ AnswerFails(t) PROVE Kept
<1>1. UNCHANGED <<cycle, shown, known, slot, turn>>
  BY DEF Answer, AnswerFails, schedVars
<1>2. CASE tasks[t].pc \in {"bid", "roll"} /\ RefreshSoon(t, tasks[t].on) /\ owed' = owed
  BY <1>1, <1>2, RefreshSoonKeeps
<1>3. CASE tasks[t].pc \in {"settle", "refresh"} /\ Waits(t) /\ UNCHANGED <<queued, owed>>
  BY <1>1, <1>3, OwnRefreshKeeps
<1>4. CASE /\ tasks[t].pc \in {"bid", "settle"} /\ Ends(t)
           /\ GivesUp(tasks[t].on, {tasks[t].version}) /\ UNCHANGED queued
  BY <1>1, <1>4, EndingKeeps
<1> QED
  BY <1>2, <1>3, <1>4 DEF Answer, AnswerFails

\* A task at work has a slot.
LEMMA SlotOfTask ==
  ASSUME Shape, NEW s \in Tasks, tasks[s].pc # "idle" PROVE SlotOf(s) \in Slots
BY DEF Shape, TaskShape, PostTypes, TaskRecord, Slots, SlotOf

\* A task takes a turn that is free.
LEMMA SlotsTaken ==
  ASSUME SlotsKept, Shape, NEW t \in Tasks, Others(t), NEW x \in Slots,
         SlotOf(t) = x, SlotOf(t)' = x, turn[x] = Free, turn' = [turn EXCEPT ![x] = t],
         queued' = [queued EXCEPT ![x] = @ /\ tasks[t].pc = "wait"],
         tasks[t].pc \in {"wait", "queue"}, tasks'[t].pc = "render"
  PROVE  SlotsKept'
<1>1. \A s \in Tasks \ {t} : tasks'[s] = tasks[s] /\ SlotOf(s)' = SlotOf(s)
  BY DEF Others, SlotOf
<1>0. turn \in [Slots -> Tasks \cup {Free}] /\ queued \in [Slots -> BOOLEAN]
  BY DEF Shape, PostTypes
<1>2. /\ turn'[x] = t /\ \A y \in Slots \ {x} : turn'[y] = turn[y]
      /\ queued'[x] = (queued[x] /\ tasks[t].pc = "wait")
      /\ \A y \in Slots \ {x} : queued'[y] = queued[y]
  BY <1>0, Zenon
<1>3. ASSUME NEW s \in Tasks \ {t} PROVE HasTurn(s)' /\ Waiting(s)'
  <2>1. HasTurn(s)'
    <3>1. ASSUME tasks[s].pc \in {"render", "edit"} PROVE turn'[SlotOf(s)] = s
      <4>1. turn[SlotOf(s)] = s
        BY <3>1 DEF SlotsKept, HasTurn
      <4>2. SlotOf(s) # x /\ SlotOf(s) \in Slots
        BY <3>1, <4>1, TasksAssumption, SlotOfTask
      <4> QED
        BY <4>1, <4>2, <1>2
    <3> QED
      BY <3>1, <1>1 DEF HasTurn
  <2>2. Waiting(s)'
    <3>1. ASSUME tasks[s].pc = "queue" PROVE queued'[SlotOf(s)]
      <4>1. queued[SlotOf(s)] /\ SlotOf(s) \in Slots
        BY <3>1, SlotOfTask DEF SlotsKept, Waiting
      <4>2. CASE SlotOf(s) # x
        BY <4>1, <4>2, <1>2
      <4>3. CASE SlotOf(s) = x
        <5>1. tasks[t].pc # "queue"
          BY <3>1, <4>3 DEF SlotsKept, OneWaits
        <5> QED
          BY <4>1, <4>3, <5>1, <1>2
      <4> QED
        BY <4>2, <4>3
    <3> QED
      BY <3>1, <1>1 DEF Waiting
  <2> QED
    BY <2>1, <2>2
<1>4. HasTurn(t)' /\ Waiting(t)'
  BY <1>2 DEF HasTurn, Waiting
<1>5. ASSUME NEW y \in Slots, queued'[y]
      PROVE  \E s \in Tasks : SlotOf(s)' = y /\ tasks'[s].pc = "queue"
  <2>1. queued[y] /\ (y = x => tasks[t].pc = "wait")
    BY <1>2, <1>5
  <2>2. PICK s \in Tasks : SlotOf(s) = y /\ tasks[s].pc = "queue"
    BY <2>1 DEF SlotsKept, WaitedFor
  <2>3. s # t
    BY <2>1, <2>2
  <2> QED
    BY <2>2, <2>3, <1>1
<1>6. \A y \in Slots : WaitedFor(y)'
  BY <1>5 DEF WaitedFor
<1>7. \A r, s \in Tasks : OneWaits(r, s)'
  BY <1>1 DEF SlotsKept, OneWaits
<1> QED
  BY <1>3, <1>4, <1>6, <1>7 DEF SlotsKept

\* From here on a change needs an edit of its own; those before are in this one.
LEMMA TakeTurnKeeps ==
  ASSUME PostInv, Grows, NEW t \in Tasks, TakeTurn(t) PROVE Kept
<1> DEFINE a == tasks[t].on
           k == tasks'[t]
           x == SlotOf(t)
<1>0. /\ SchedInv /\ Shape /\ SlotsKept /\ Borne /\ Fresh /\ PostTypes
      /\ UNCHANGED <<cycle, shown, known, slot, owed>>
      /\ tasks[t].pc \in {"wait", "queue"} /\ Goes(t, "render")
      /\ turn[x] = Free /\ turn' = [turn EXCEPT ![x] = t]
      /\ queued' = [queued EXCEPT ![x] = @ /\ tasks[t].pc = "wait"]
  BY DEF PostInv, Shape, TakeTurn, schedVars
<1>1. a \in AuctionIds /\ x \in Slots
  BY <1>0 DEF Shape, TaskShape, PostTypes, TaskRecord, Slots, SlotOf
<1>2. Others(t) /\ k.pc = "render" /\ k.on = a /\ k.slot = tasks[t].slot
  BY <1>0, Going DEF TaskPcs
<1>3. PostTypes'
  BY <1>0, <1>1, <1>2 DEF PostTypes, Others
<1>4. SlotsKept'
  <2>1. SlotOf(t)' = x
    BY <1>2 DEF SlotOf
  <2> HIDE DEF x
  <2> QED
    BY <1>0, <1>1, <1>2, <2>1, SlotsTaken DEF x
<1>5. \A v \in owed'[a] : v <= auctions'[a].version /\ Bears(k, a, v)
  BY <1>0, <1>1, <1>2, OwedWithin DEF Bears
<1>6. EditFresh(t)' /\ NewFresh(t)'
  BY <1>2, FreshTask DEF Posting
<1> QED
  BY <1>0, <1>2, <1>3, <1>4, <1>5, <1>6, StepKeeps DEF Posting

\* What an edit shows is fresh, and no other task is about to show something
\* on the same post.
LEMMA ShowsFresh ==
  ASSUME PostInv, NEW t \in Tasks, tasks[t].pc = "edit", auctions' = auctions,
         NEW a, a = tasks[t].on, shown' = [shown EXCEPT ![a] = Drawn(t)]
  PROVE  /\ a \in AuctionIds /\ shown' \in [AuctionIds -> Drawing]
         /\ \A b \in AuctionIds : shown'[b] = shown[b] \/ PostFresh(b)'
         /\ \A s \in Tasks \ {t} : tasks[s].pc \in Posting \cup {"edit"} =>
              shown'[tasks[s].on] = shown[tasks[s].on]
         /\ shown'[a].version = tasks[t].version /\ shown'[a].buttons = tasks[t].buttons
         /\ \A b \in AuctionIds \ {a} : shown'[b] = shown[b]
<1>0. SchedInv /\ Shape /\ SlotsKept /\ Fresh /\ PostTypes
  BY DEF PostInv, Shape
<1>1. a \in AuctionIds /\ Drawn(t) \in Drawing /\ Status(a) # "none"
  BY <1>0 DEF Shape, TaskShape, PostTypes, TaskRecord, Drawn, Drawing
<1>2. /\ shown'[a].version = tasks[t].version /\ shown'[a].buttons = tasks[t].buttons
      /\ \A b \in AuctionIds \ {a} : shown'[b] = shown[b]
      /\ shown' \in [AuctionIds -> Drawing]
  BY <1>0, <1>1 DEF PostTypes, Drawn
<1>3. /\ known[a] \/ slot[a] = 1
      /\ tasks[t].slot = 0 /\ tasks[t].version <= Version(a)
      /\ Status(a) = "open" => LiveButtons(a) \subseteq tasks[t].buttons
  BY <1>0 DEF Fresh, EditFresh
<1>4. PostFresh(a)'
  <2>1. Version(a)' = Version(a) /\ LiveButtons(a)' = LiveButtons(a) /\ Status(a)' = Status(a)
    BY DEF Version, LiveButtons, Status
  <2> QED
    BY <1>1, <1>2, <1>3, <2>1 DEF PostFresh
<1>5. \A b \in AuctionIds : shown'[b] = shown[b] \/ PostFresh(b)'
  BY <1>2, <1>4
<1>6. ASSUME NEW s \in Tasks \ {t}, tasks[s].pc \in Posting \cup {"edit"}
      PROVE  shown'[tasks[s].on] = shown[tasks[s].on]
  <2>1. tasks[s].on \in AuctionIds
    BY <1>0, <1>6 DEF Shape, TaskShape, Posting
  <2>2. CASE tasks[s].pc = "edit"
    <3>1. tasks[s].slot = 0
      BY <1>0, <2>2 DEF Fresh, EditFresh
    <3>2. turn[SlotOf(s)] = s /\ turn[SlotOf(t)] = t
      BY <1>0, <2>2 DEF SlotsKept, HasTurn
    <3>3. tasks[s].on # a
      BY <1>3, <3>1, <3>2 DEF SlotOf
    <3> QED
      BY <1>2, <2>1, <3>3
  <2>3. CASE tasks[s].pc \in Posting
    <3>1. ~ known[tasks[s].on] /\ slot[tasks[s].on] = 0
      BY <1>0, <2>3 DEF Fresh, NewFresh
    <3> QED
      BY <1>2, <1>3, <2>1, <3>1
  <2> QED
    BY <1>6, <2>2, <2>3
<1> QED
  BY <1>1, <1>2, <1>5, <1>6

\* An edit ends: shown, or given up, or with nothing to edit.
LEMMA EditEndsKeeps ==
  ASSUME PostInv, Grows, NEW t \in Tasks, auctions' = auctions, Releases(t),
         UNCHANGED <<cycle, known, slot, queued>>, NEW n,
         \/ tasks[t].pc = "render" /\ shown' = shown /\ n = Version(tasks[t].on)
         \/ /\ tasks[t].pc = "edit" /\ n = tasks[t].version
            /\ \/ shown' = shown
               \/ shown' = [shown EXCEPT ![tasks[t].on] = Drawn(t)],
         GivesUp(tasks[t].on, 1 .. n)
  PROVE  Kept
<1> DEFINE a == tasks[t].on
           x == SlotOf(t)
<1>0. SchedInv /\ Shape /\ SlotsKept /\ Borne /\ Fresh /\ PostTypes
  BY DEF PostInv, Shape
<1>1. a \in AuctionIds /\ x \in Slots /\ n \in Nat
  BY <1>0 DEF Shape, TaskShape, PostTypes, TaskRecord, Slots, SlotOf, Version,
              SchedInv, SchedTypeOK, Auction
<1>2. Others(t) /\ tasks'[t].pc = "idle" /\ turn' = [turn EXCEPT ![x] = Free]
  BY <1>0, Ending DEF Releases
<1>3. /\ owed' \in [AuctionIds -> SUBSET (Nat \ {0})]
      /\ \A b \in AuctionIds \ {a} : owed'[b] = owed[b]
      /\ owed'[a] = owed[a] \ (1 .. n)
  BY <1>0, <1>1, GivingUp
<1>4. /\ shown' \in [AuctionIds -> Drawing]
      /\ \A b \in AuctionIds : shown'[b] = shown[b] \/ PostFresh(b)'
      /\ \A s \in Tasks \ {t} : tasks[s].pc \in Posting \cup {"edit"} =>
           shown'[tasks[s].on] = shown[tasks[s].on]
  BY <1>0, ShowsFresh DEF PostTypes
<1>5. PostTypes'
  <2>1. turn' \in [Slots -> Tasks \cup {Free}]
    BY <1>0, <1>1, <1>2 DEF PostTypes
  <2> QED
    BY <1>0, <1>2, <1>3, <1>4, <2>1 DEF PostTypes, Others
<1>6. SlotsKept'
  BY <1>0, <1>1, <1>2, SlotsReleased
<1>7. ASSUME NEW v \in owed'[a] PROVE v \in owed[a] /\ ~ Bears(tasks[t], a, v)
  <2>1. v \in owed[a] /\ v \in Nat \ {0} /\ v <= Version(a) /\ v \notin 1 .. n
    BY <1>1, <1>3, <1>7, OwedWithin
  <2>2. ~ (v <= n)
    BY <1>1, <2>1
  <2>3. tasks[t].pc = "edit" /\ n = tasks[t].version
    BY <2>1, <2>2
  <2> QED
    BY <1>1, <2>1, <2>2, <2>3 DEF Bears
<1>8. EditFresh(t)' /\ NewFresh(t)'
  BY <1>2, FreshTask DEF Posting
<1> QED
  BY <1>0, <1>2, <1>3, <1>4, <1>5, <1>6, <1>7, <1>8, StepKeeps DEF Posting

\* An edit that timed out is tried again, whether it was made or not.
LEMMA RetryKeeps ==
  ASSUME PostInv, Grows, NEW t \in Tasks, auctions' = auctions,
         tasks[t].pc = "edit", tasks[t].tries < EditAttempts - 1,
         tasks' = [tasks EXCEPT ![t].pc = "render", ![t].tries = @ + 1],
         UNCHANGED <<cycle, known, slot, turn, queued>>,
         Shows(t) \/ UNCHANGED <<shown, owed>>
  PROVE  Kept
<1> DEFINE a == tasks[t].on
           k == tasks'[t]
<1>0. SchedInv /\ Shape /\ SlotsKept /\ Borne /\ Fresh /\ PostTypes
  BY DEF PostInv, Shape
<1>1. a \in AuctionIds
  BY <1>0 DEF Shape, TaskShape
<1>2. Others(t) /\ k.pc = "render" /\ k.on = a /\ k.slot = tasks[t].slot
  <2> DEFINE n == tasks[t].tries + 1
             d == [tasks[t] EXCEPT !.pc = "render", !.tries = n]
  <2>1. tasks' = [tasks EXCEPT ![t] = d]
    OBVIOUS
  <2>2. tasks[t] \in TaskRecord
    BY <1>0 DEF PostTypes
  <2>3. n \in 0 .. EditAttempts - 1
    BY <2>2, AttemptsAssumption DEF TaskRecord
  <2> HIDE DEF n
  <2>4. d \in TaskRecord /\ d.pc = "render" /\ d.on = a /\ d.slot = tasks[t].slot
    BY <2>2, <2>3 DEF TaskRecord, TaskPcs
  <2> HIDE DEF d
  <2> QED
    BY <1>0, <2>1, <2>4 DEF Others, PostTypes
<1>3. /\ owed' \in [AuctionIds -> SUBSET (Nat \ {0})]
      /\ \A b \in AuctionIds : owed'[b] \subseteq owed[b]
  BY <1>0, <1>1, GivingUp DEF Shows, PostTypes
<1>4. /\ shown' \in [AuctionIds -> Drawing]
      /\ \A b \in AuctionIds : shown'[b] = shown[b] \/ PostFresh(b)'
      /\ \A s \in Tasks \ {t} : tasks[s].pc \in Posting \cup {"edit"} =>
           shown'[tasks[s].on] = shown[tasks[s].on]
  BY <1>0, ShowsFresh DEF PostTypes, Shows
<1>5. PostTypes'
  BY <1>0, <1>2, <1>3, <1>4 DEF PostTypes, Others
<1>6. SlotsKept'
  BY <1>0, <1>2, SlotsQuiet
<1>7. \A v \in owed'[a] : v <= auctions'[a].version /\ Bears(k, a, v)
  BY <1>1, <1>2, <1>3, OwedWithin DEF Bears
<1>8. EditFresh(t)' /\ NewFresh(t)'
  BY <1>2, FreshTask DEF Posting
<1> QED
  BY <1>0, <1>2, <1>3, <1>4, <1>5, <1>6, <1>7, <1>8, StepKeeps DEF Posting
\* The ways a turn ends.
LEMMA EditKeeps ==
  ASSUME PostInv, Grows, NEW t \in Tasks,
         NothingToEdit(t) \/ EditDone(t) \/ EditFails(t) \/ EditTimesOut(t)
  PROVE  Kept
<1>1. UNCHANGED <<auctions, cycle, known, slot, queued>>
  BY DEF NothingToEdit, EditDone, EditFails, EditTimesOut, schedVars
<1>2. CASE NothingToEdit(t)
  <2> DEFINE n == Version(tasks[t].on)
  <2>1. /\ tasks[t].pc = "render" /\ shown' = shown /\ Releases(t)
        /\ GivesUp(tasks[t].on, 1 .. n)
    BY <1>2 DEF NothingToEdit
  <2>2. n = Version(tasks[t].on)
    OBVIOUS
  <2> HIDE DEF n
  <2> QED
    BY <1>1, <2>1, <2>2, EditEndsKeeps
<1>3. ASSUME tasks[t].pc = "edit", Releases(t),
             Shows(t) \/ (GivesUp(tasks[t].on, 1 .. tasks[t].version) /\ UNCHANGED shown)
      PROVE  Kept
  <2> DEFINE n == tasks[t].version
  <2>1. /\ GivesUp(tasks[t].on, 1 .. n)
        /\ shown' = shown \/ shown' = [shown EXCEPT ![tasks[t].on] = Drawn(t)]
    BY <1>3 DEF Shows
  <2>2. n = tasks[t].version
    OBVIOUS
  <2> HIDE DEF n
  <2> QED
    BY <1>1, <1>3, <2>1, <2>2, EditEndsKeeps
<1>4. CASE EditDone(t) \/ EditFails(t)
  BY <1>3, <1>4 DEF EditDone, EditFails
<1>5. CASE EditTimesOut(t)
  <2>1. CASE tasks[t].tries < EditAttempts - 1
    BY <1>1, <1>5, <2>1, RetryKeeps DEF EditTimesOut
  <2>2. CASE ~ (tasks[t].tries < EditAttempts - 1)
    BY <1>3, <1>5, <2>2 DEF EditTimesOut
  <2> QED
    BY <2>1, <2>2
<1> QED
  BY <1>2, <1>4, <1>5

\* The post of a new auction can be edited from now on.
LEMMA RememberKeeps ==
  ASSUME PostInv, Grows, NEW t \in Tasks, Remember(t), NEW a, a = tasks[t].on
  PROVE  Kept
<1>0. /\ SchedInv /\ Shape /\ SlotsKept /\ Borne /\ Fresh /\ PostTypes
      /\ UNCHANGED <<auctions, cycle, shown, slot, turn, queued, owed>>
      /\ tasks[t].pc = "sent" /\ Ends(t) /\ known' = [known EXCEPT ![a] = TRUE]
  BY DEF PostInv, Shape, Remember, schedVars, slotVars
<1>1. a \in AuctionIds /\ Status(a) # "none" /\ slot[a] = 0 /\ cycle.pc # "off"
  BY <1>0, IdleTyped DEF Shape, TaskShape, Fresh, NewFresh, Posting
<1>2. Others(t) /\ tasks'[t].pc = "idle"
  BY <1>0, Ending
<1>3. /\ known' \in [AuctionIds -> BOOLEAN] /\ known'[a]
      /\ \A b \in AuctionIds \ {a} : known'[b] = known[b]
  BY <1>0, <1>1 DEF PostTypes
<1>4. Shape'
  <2>1. PostTypes'
    BY <1>0, <1>2, <1>3 DEF PostTypes, Others
  <2>2. PostShape(a)'
    BY <1>0, <1>1 DEF PostShape, Status
  <2>3. \A b \in AuctionIds \ {a} : PostShape(b)'
    BY <1>0, <1>3, PostShapeKept
  <2>4. TaskShape(t)'
    BY <1>2 DEF TaskShape
  <2> QED
    BY <1>0, <1>1, <1>2, <2>1, <2>2, <2>3, <2>4, ShapeStep
<1>5. SlotsKept'
  BY <1>0, <1>2, SlotsQuiet
<1>6. Borne'
  <2>1. \A b, v : ~ Bears(tasks[t], b, v)
    BY <1>0 DEF Bears
  <2> QED
    BY <1>0, <1>2, <1>4, <2>1, HandsOn
<1>7. Fresh'
  <2>1. \A b \in AuctionIds : PostFresh(b)'
    BY <1>0, PostFreshKept
  <2>2. ASSUME NEW s \in Tasks \ {t}, tasks[s].pc = "edit"
        PROVE  /\ shown'[tasks[s].on] = shown[tasks[s].on]
               /\ known'[tasks[s].on] \/ slot'[tasks[s].on] = 1
    <3>1. tasks[s].on \in AuctionIds /\ (known[tasks[s].on] \/ slot[tasks[s].on] = 1)
      BY <1>0, <2>2 DEF Shape, TaskShape, Fresh, EditFresh
    <3> QED
      BY <1>0, <1>3, <3>1
  <2>3. ASSUME NEW s \in Tasks \ {t}, tasks[s].pc \in Posting
        PROVE  /\ shown'[tasks[s].on] = shown[tasks[s].on]
               /\ known'[tasks[s].on] = known[tasks[s].on]
               /\ slot'[tasks[s].on] = slot[tasks[s].on]
               /\ tasks'[t].pc \in Posting => tasks'[t].on # tasks[s].on
    <3>1. tasks[s].on \in AuctionIds \ {a}
      BY <1>0, <2>3 DEF Shape, TaskShape, Fresh, OnePoster, Posting
    <3> QED
      BY <1>0, <1>2, <1>3, <3>1 DEF Posting
  <2>4. EditFresh(t)' /\ NewFresh(t)'
    BY <1>2, FreshTask DEF Posting
  <2> QED
    BY <1>2, <2>1, <2>2, <2>3, <2>4, FreshStep
<1> QED
  BY <1>4, <1>5, <1>6, <1>7 DEF Kept

\* An auction is drawn up with everything that is owed, and its post forgotten
\* once it is settled.
LEMMA RenderKeeps ==
  ASSUME PostInv, Grows, NEW t \in Tasks, Render(t), NEW a, a = tasks[t].on
  PROVE  Kept
<1> DEFINE k == tasks'[t]
<1>0. /\ SchedInv /\ Shape /\ SlotsKept /\ Borne /\ Fresh /\ PostTypes
      /\ UNCHANGED <<auctions, cycle, shown, turn, queued, owed>>
      /\ tasks[t].pc = "render" /\ known[a] /\ Draws(t, "edit", ButtonsOf(a))
      /\ UNCHANGED <<known, slot>> \/ Forgets(a)
  BY DEF PostInv, Shape, Render, schedVars
<1>1. /\ a \in AuctionIds /\ Status(a) # "none" /\ cycle.pc # "off"
      /\ slot[a] = 0 /\ tasks[t].slot = 0
  <2>1. /\ a \in AuctionIds /\ Status(a) # "none" /\ cycle.pc # "off"
        /\ slot[a] = 0 /\ (tasks[t].slot = 1 => slot[a] = 1)
    BY <1>0, IdleTyped DEF Shape, TaskShape, PostShape
  <2>2. tasks[t].slot \in {0, 1}
    BY <1>0 DEF PostTypes, TaskRecord
  <2> QED
    BY <2>1, <2>2
<1>2. ButtonsOf(a) \in SUBSET Buttons
  BY DEF ButtonsOf, LiveButtons, DoneButtons, Buttons
<1>3. /\ Others(t) /\ k.pc = "edit" /\ k.on = a /\ k.slot = 0
      /\ k.buttons = ButtonsOf(a) /\ k.version = Version(a)
  BY <1>0, <1>1, <1>2, Drawing1 DEF TaskPcs
<1>4. /\ known' \in [AuctionIds -> BOOLEAN] /\ slot' \in [AuctionIds -> {0, 1}]
      /\ \A b \in AuctionIds \ {a} : known'[b] = known[b] /\ slot'[b] = slot[b]
      /\ (known'[a] /\ slot'[a] = 0) \/ (~ known'[a] /\ slot'[a] = 1)
  BY <1>0, <1>1 DEF PostTypes, Forgets
<1>5. Shape'
  <2>1. PostTypes'
    BY <1>0, <1>3, <1>4 DEF PostTypes, Others
  <2>2. PostShape(a)'
    BY <1>0, <1>1, <1>4 DEF PostShape, Status
  <2>3. \A b \in AuctionIds \ {a} : PostShape(b)'
    BY <1>0, <1>4, PostShapeKept
  <2>4. TaskShape(t)'
    BY <1>0, <1>1, <1>3 DEF TaskShape, Status
  <2>5. \A b \in AuctionIds : slot[b] = 1 => slot'[b] = 1
    BY <1>1, <1>4
  <2> QED
    BY <1>0, <1>1, <1>3, <2>1, <2>2, <2>3, <2>4, <2>5, ShapeStep
<1>6. SlotsKept'
  BY <1>0, <1>1, <1>3, SlotsQuiet
<1>7. Borne'
  <2>1. \A v \in owed[a] : v <= auctions'[a].version /\ Bears(k, a, v)
    <3>1. \A v \in owed[a] : v <= auctions'[a].version /\ v <= k.version /\ v \in Nat
      BY <1>1, <1>3, OwedWithin
    <3>2. k.version \in Nat
      BY <1>3 DEF Others, TaskRecord
    <3> QED
      BY <1>3, <3>1, <3>2 DEF Bears
  <2>2. \A b \in AuctionIds \ {a} : \A v : ~ Bears(tasks[t], b, v)
    BY DEF Bears
  <2> QED
    BY <1>0, <1>3, <1>5, <2>1, <2>2, HandsOn
<1>8. Fresh'
  <2>1. \A b \in AuctionIds : PostFresh(b)'
    BY <1>0, PostFreshKept
  <2>2. ASSUME NEW s \in Tasks \ {t}, tasks[s].pc = "edit"
        PROVE  /\ shown'[tasks[s].on] = shown[tasks[s].on]
               /\ known'[tasks[s].on] \/ slot'[tasks[s].on] = 1
    <3>1. tasks[s].on \in AuctionIds /\ (known[tasks[s].on] \/ slot[tasks[s].on] = 1)
      BY <1>0, <2>2 DEF Shape, TaskShape, Fresh, EditFresh
    <3> QED
      BY <1>0, <1>4, <3>1
  <2>3. ASSUME NEW s \in Tasks \ {t}, tasks[s].pc \in Posting
        PROVE  /\ shown'[tasks[s].on] = shown[tasks[s].on]
               /\ known'[tasks[s].on] = known[tasks[s].on]
               /\ slot'[tasks[s].on] = slot[tasks[s].on]
               /\ tasks'[t].pc \in Posting => tasks'[t].on # tasks[s].on
    <3>1. tasks[s].on \in AuctionIds \ {a}
      BY <1>0, <2>3 DEF Shape, TaskShape, Fresh, NewFresh, Posting
    <3> QED
      BY <1>0, <1>3, <1>4, <3>1 DEF Posting
  <2>4. NewFresh(t)'
    BY <1>3 DEF NewFresh, Posting
  <2>5. EditFresh(t)'
    <3>1. /\ PostFresh(a) /\ shown[a].version \in Nat /\ Version(a) \in Nat
      BY <1>0, <1>1 DEF Fresh, PostTypes, Drawing, SchedInv, SchedTypeOK, Auction, Version
    <3>2. Version(a)' = Version(a) /\ LiveButtons(a)' = LiveButtons(a) /\ Status(a)' = Status(a)
      BY <1>0 DEF Version, LiveButtons, Status
    <3>3. shown[a].version <= k.version /\ k.version <= Version(a)'
      BY <1>3, <3>1, <3>2 DEF PostFresh
    <3>4. shown[a] # NoPost => k.buttons \subseteq shown[a].buttons
      BY <1>3, <3>1 DEF PostFresh, ButtonsOf, DoneButtons
    <3>5. Status(a) = "open" => LiveButtons(a) \subseteq k.buttons
      BY <1>3 DEF ButtonsOf
    <3> QED
      BY <1>0, <1>3, <1>4, <3>2, <3>3, <3>4, <3>5 DEF EditFresh
  <2> QED
    BY <1>3, <2>1, <2>2, <2>3, <2>4, <2>5, FreshStep
<1> QED
  BY <1>5, <1>6, <1>7, <1>8 DEF Kept
\* Steps in which no task moves and no post changes.
LEMMA NobodyMoves ==
  ASSUME PostInv, Grows, UNCHANGED <<shown, known, tasks, slot, turn, queued>>,
         owed' \in [AuctionIds -> SUBSET (Nat \ {0})], cycle'.pc # "off"
  PROVE  Shape' /\ SlotsKept' /\ Fresh'
<1>0. SchedInv /\ Shape /\ SlotsKept /\ Fresh /\ PostTypes
  BY DEF PostInv, Shape
<1>1. Shape'
  <2>1. PostTypes'
    BY <1>0 DEF PostTypes
  <2>2. ASSUME NEW s \in Tasks PROVE TaskShape(s)'
    <3>1. CASE tasks[s].pc = "idle"
      BY <3>1 DEF TaskShape
    <3>2. CASE tasks[s].pc # "idle"
      BY <1>0, <3>2, TaskShapeKept
    <3> QED
      BY <3>1, <3>2
  <2>3. \A a \in AuctionIds : PostShape(a)'
    BY <1>0, PostShapeKept
  <2> QED
    BY <2>1, <2>2, <2>3 DEF Shape, Grows
<1>2. SlotsKept'
  BY <1>0 DEF SlotsKept, HasTurn, Waiting, WaitedFor, OneWaits, SlotOf
<1>3. Fresh'
  <2>1. \A a \in AuctionIds : PostFresh(a)'
    BY <1>0, PostFreshKept
  <2>2. ASSUME NEW s \in Tasks PROVE EditFresh(s)' /\ NewFresh(s)'
    <3>1. tasks[s].pc = "edit" => known'[tasks[s].on] \/ slot'[tasks[s].on] = 1
      BY <1>0 DEF Fresh, EditFresh
    <3> QED
      BY <3>1, FreshTaskKept
  <2>3. \A r, s \in Tasks : OnePoster(r, s)'
    BY <1>0 DEF Fresh, OnePoster
  <2> QED
    BY <2>1, <2>2, <2>3 DEF Fresh
<1> QED
  BY <1>1, <1>2, <1>3

\* The scheduler changes an auction: it carries the new version, and those it
\* made before are in it.
LEMMA CycleFiresKeeps ==
  ASSUME PostInv, Grows, CycleFires PROVE Kept
<1> DEFINE a == Entry.id
           w == auctions'[a].version
<1>0. /\ SchedInv /\ Shape /\ SlotsKept /\ Borne /\ Fresh /\ PostTypes
      /\ UNCHANGED <<shown, known, tasks, slot, turn, queued>> /\ Owes(a) /\ Fire
      /\ cycle.pc = "act" /\ Entry.steps # <<>>
  BY DEF PostInv, Shape, CycleFires, slotVars, Fire, Pending
<1>1. /\ a \in AuctionIds /\ Entry.steps \in Steps
      /\ cycle'.pc = "act" /\ Entry'.id = a /\ Entry'.steps = Tail(Entry.steps)
      /\ cycle'.wrote = w
  BY <1>0, EntryOf, FireKeeps
<1>2. auctions'[a].status # "none" /\ w \in Nat
  <2>1. Command(a)
    BY <1>0, FireKeeps
  <2> QED
    BY <1>0, <1>1, <2>1, CommandGrows DEF Shape, Grows, Auction
<1>3. /\ owed' \in [AuctionIds -> SUBSET (Nat \ {0})]
      /\ \A b \in AuctionIds \ {a} : owed'[b] = owed[b]
      /\ owed'[a] \subseteq owed[a] \cup {w}
  BY <1>0, <1>1, <1>2, Owing
<1>4. Shape' /\ SlotsKept' /\ Fresh'
  BY <1>0, <1>1, <1>3, NobodyMoves
<1>5. /\ Entry.steps # <<"close", "finalize">> => Tail(Entry.steps) = <<>>
      /\ Tail(Entry.steps) # <<"close", "finalize">>
  <2> DEFINE s == Entry.steps
  <2>1. s \in Steps /\ s # <<>>
    BY <1>0, <1>1
  <2>2. <<>> # <<"close", "finalize">> /\ <<"finalize">> # <<"close", "finalize">>
    OBVIOUS
  <2> HIDE DEF s
  <2>3. \/ Tail(s) = <<>>
        \/ s = <<"close", "finalize">> /\ Tail(s) = <<"finalize">>
    BY <2>1, StepsOf
  <2> QED
    BY <2>2, <2>3 DEF s
<1>6. ASSUME NEW b \in AuctionIds, NEW v \in owed'[b]
      PROVE  v <= Version(b)' /\ Carried(b, v)'
  <2>1. CASE b = a /\ v = w
    <3>1. CycleBears(b, v)'
      BY <1>1, <2>1 DEF CycleBears
    <3>2. w <= w
      BY <1>2
    <3> QED
      BY <2>1, <3>1, <3>2 DEF Carried, Version
  <2>2. CASE v \in owed[b]
    <3>1. v \in Nat \ {0} /\ v <= auctions'[b].version
      BY <2>2, OwedWithin
    <3>2. Carried(b, v)
      BY <1>0, <2>2 DEF Borne
    <3>3. ASSUME NEW s \in Tasks, Bears(tasks[s], b, v) PROVE Carried(b, v)'
      BY <1>0, <3>3 DEF Carried
    <3>4. CASE CycleBears(b, v)
      <4>1. b = a /\ cycle.wrote = v
        BY <1>0, <3>4 DEF CycleBears
      <4>2. Entry.steps # <<"close", "finalize">>
        BY <1>0, <3>1, <4>1 DEF Borne, FirstStep
      <4>3. Entry'.steps = <<>> /\ cycle'.wrote >= v
        BY <1>1, <1>5, <3>1, <4>1, <4>2
      <4>4. CycleBears(b, v)'
        BY <1>1, <4>1, <4>3 DEF CycleBears
      <4> QED
        BY <3>1, <4>4 DEF Carried, Version
    <3> QED
      BY <3>1, <3>2, <3>3, <3>4 DEF Carried, Version
  <2> QED
    BY <1>3, <2>1, <2>2
<1>7. FirstStep'
  BY <1>1, <1>5 DEF FirstStep
<1>8. Borne'
  BY <1>6, <1>7 DEF Borne
<1> QED
  BY <1>4, <1>8 DEF Kept

\* Steps of the scheduler that change no auction and no post, and the clock.
LEMMA CycleQuietKeeps ==
  ASSUME PostInv, Grows, CycleQuiet \/ CycleGivesUp \/ Time PROVE Kept
<1>0. /\ SchedInv /\ Shape /\ SlotsKept /\ Borne /\ Fresh /\ PostTypes
      /\ UNCHANGED <<shown, known, tasks, slot, turn, queued, auctions>>
  BY DEF PostInv, Shape, CycleQuiet, CycleGivesUp, Time, slotVars, postVars, ReadDue,
         Refused, CycleFails, Tick
<1>1. ASSUME owed' \in [AuctionIds -> SUBSET (Nat \ {0})], cycle'.pc # "off", FirstStep',
             \A b \in AuctionIds : owed'[b] \subseteq owed[b],
             \A b \in AuctionIds : \A v \in owed'[b] : CycleBears(b, v) => CycleBears(b, v)'
      PROVE  Kept
  <2>1. Shape' /\ SlotsKept' /\ Fresh'
    BY <1>0, <1>1, NobodyMoves
  <2>2. ASSUME NEW b \in AuctionIds, NEW v \in owed'[b]
        PROVE  v <= Version(b)' /\ Carried(b, v)'
    <3>1. v \in owed[b]
      BY <1>1
    <3>2. v <= Version(b) /\ Carried(b, v)
      BY <1>0, <3>1 DEF Borne
    <3>3. Carried(b, v)'
      BY <1>0, <1>1, <3>2 DEF Carried
    <3> QED
      BY <1>0, <3>2, <3>3 DEF Version
  <2>3. Borne'
    BY <1>1, <2>2 DEF Borne
  <2> QED
    BY <2>1, <2>3 DEF Kept
<1>2. CASE ReadDue /\ UNCHANGED owed
  <2>1. cycle'.pc = "act" /\ cycle'.wrote = 0 /\ cycle.pc = "rest"
    BY <1>0, <1>2, DueIsTimely DEF ReadDue
  <2> QED
    BY <1>0, <1>1, <1>2, <2>1 DEF FirstStep, CycleBears, PostTypes
<1>3. CASE Refused /\ UNCHANGED owed
  <2>1. /\ cycle'.pc = "act" /\ Entry'.id = Entry.id /\ Entry'.steps = <<>>
        /\ cycle'.wrote = cycle.wrote
    BY <1>0, <1>3, RefusedKeeps
  <2>2. <<>> # <<"close", "finalize">> /\ Entry.steps # <<>>
    BY <1>3 DEF Refused, Pending
  <2>3. \A b, v : CycleBears(b, v) => CycleBears(b, v)'
    BY <2>1, <2>2 DEF CycleBears
  <2> QED
    BY <1>0, <1>1, <1>3, <2>1, <2>2, <2>3 DEF FirstStep, PostTypes
<1>4. CASE CycleGivesUp
  <2>1. /\ cycle.pc = "act" /\ Entry.steps # <<>> /\ cycle' = Asleep("rest")
        /\ GivesUp(Entry.id, {cycle.wrote}) /\ Entry.id \in AuctionIds
    BY <1>0, <1>4, EntryOf DEF CycleGivesUp, CycleFails, Pending
  <2>2. /\ owed' \in [AuctionIds -> SUBSET (Nat \ {0})]
        /\ \A b \in AuctionIds \ {Entry.id} : owed'[b] = owed[b]
        /\ owed'[Entry.id] = owed[Entry.id] \ {cycle.wrote}
    BY <1>0, <2>1, GivingUp
  <2>3. \A b \in AuctionIds : \A v \in owed'[b] : ~ CycleBears(b, v)
    BY <2>1, <2>2 DEF CycleBears
  <2>4. cycle'.pc = "rest"
    BY <2>1 DEF Asleep
  <2>5. \A b \in AuctionIds : owed'[b] \subseteq owed[b]
    BY <2>2
  <2> QED
    BY <1>1, <2>2, <2>3, <2>4, <2>5 DEF FirstStep
<1>5. CASE Time /\ cycle.pc # "off"
  <2>1. cycle' = cycle /\ owed' = owed
    BY <1>5 DEF Time, Tick, postVars
  <2> QED
    BY <1>0, <1>1, <1>5, <2>1 DEF FirstStep, CycleBears, Entry, Borne, PostTypes
<1>6. CASE Time /\ cycle.pc = "off"
  <2>1. UNCHANGED <<cycle, owed>>
    BY <1>6 DEF Time, Tick, postVars
  <2>2. Shape'
    BY <1>0, <2>1 DEF Shape, PostTypes, Counted, TaskShape, PostShape, Status, Version
  <2>3. SlotsKept'
    BY <1>0, <2>1 DEF SlotsKept, HasTurn, Waiting, WaitedFor, OneWaits, SlotOf
  <2>4. Borne'
    BY <1>0, <2>1 DEF Borne, FirstStep, Carried, CycleBears, Entry, Version
  <2>5. Fresh'
    BY <1>0, <2>1 DEF Fresh, PostFresh, EditFresh, NewFresh, OnePoster, Status, Version,
                      LiveButtons
  <2> QED
    BY <2>2, <2>3, <2>4, <2>5 DEF Kept
<1> QED
  BY <1>2, <1>3, <1>4, <1>5, <1>6 DEF CycleQuiet, Time, postVars
\* Between two entries the scheduler carries nothing.
LEMMA NothingWritten ==
  ASSUME PostInv, cycle.wrote = 0 \/ cycle.pc # "act",
         NEW a \in AuctionIds, NEW v \in owed[a]
  PROVE  ~ CycleBears(a, v) /\ \E t \in Tasks : Bears(tasks[t], a, v)
<1>1. v \in Nat \ {0}
  BY DEF PostInv, Shape, PostTypes
<1> QED
  BY <1>1 DEF PostInv, Borne, Carried, CycleBears

\* An entry is done: what the scheduler made is passed on to an edit.
LEMMA CycleRefreshesKeeps ==
  ASSUME PostInv, Grows, CycleRefreshes PROVE Kept
<1>0. /\ SchedInv /\ Shape /\ SlotsKept /\ Borne /\ Fresh /\ PostTypes
      /\ UNCHANGED <<shown, known, slot, turn, owed, auctions>>
      /\ NextEntry /\ cycle.pc = "act" /\ Entry.steps = <<>> /\ Entry.id \in AuctionIds
  BY EntryOf DEF PostInv, Shape, CycleRefreshes, NextEntry
<1>1. cycle'.wrote = 0 /\ cycle'.pc # "off"
  BY <1>0, NextEntryKeeps DEF NextEntry, Asleep
<1>2. FirstStep'
  BY <1>1 DEF FirstStep
<1>3. CASE cycle.wrote = 0
  <2>1. UNCHANGED <<tasks, queued>>
    BY <1>3 DEF CycleRefreshes
  <2>2. Shape' /\ SlotsKept' /\ Fresh'
    BY <1>0, <1>1, <2>1, NobodyMoves DEF PostTypes
  <2>3. \A b \in AuctionIds : \A v \in owed[b] :
          v <= auctions'[b].version /\ \E s \in Tasks : Bears(tasks[s], b, v)
    BY <1>3, NothingWritten, OwedWithin
  <2>4. Borne'
    BY <1>0, <1>2, <2>1, <2>3 DEF Borne, Carried, Version
  <2> QED
    BY <2>2, <2>4 DEF Kept
<1>4. ASSUME NEW t \in Tasks, tasks[t] = Idle, NEW a, a = Entry.id, RefreshSoon(t, a)
      PROVE  Kept
  <2> DEFINE x == <<a, slot[a]>>
             k == tasks'[t]
  <2>1. a \in AuctionIds /\ x \in Slots /\ tasks[t].pc = "idle"
    BY <1>0, <1>4, IdleTyped DEF PostTypes, Slots
  <2>2. /\ Others(t) /\ SlotsKept'
        /\ \/ k.pc = "idle"
           \/ k.pc = "queue" /\ k.on = a /\ k.slot = slot[a]
        /\ queued' \in [Slots -> BOOLEAN]
        /\ \E s \in Tasks : tasks'[s].pc = "queue" /\ tasks'[s].on = a
    <3>1. CASE queued[x]
      <4>1. Ends(t) /\ UNCHANGED queued
        BY <1>4, <3>1 DEF RefreshSoon
      <4>2. Others(t) /\ k.pc = "idle"
        BY <1>0, <4>1, Ending
      <4>3. PICK s \in Tasks : SlotOf(s) = x /\ tasks[s].pc = "queue"
        BY <1>0, <2>1, <3>1 DEF SlotsKept, WaitedFor
      <4>4. tasks'[s].pc = "queue" /\ tasks'[s].on = a
        BY <2>1, <4>2, <4>3 DEF Others, SlotOf
      <4>5. SlotsKept'
        BY <1>0, <2>1, <4>1, <4>2, SlotsQuiet
      <4> QED
        BY <1>0, <4>1, <4>2, <4>4, <4>5 DEF PostTypes
    <3>2. CASE ~ queued[x]
      <4>1. Spawns(t, a)
        BY <1>4, <3>2 DEF RefreshSoon
      <4>2. /\ Others(t) /\ k.pc = "queue" /\ k.on = a /\ k.slot = slot[a]
            /\ queued' = [queued EXCEPT ![x] = TRUE]
        BY <1>0, <2>1, <4>1, Spawning
      <4>3. SlotOf(t)' = x
        BY <4>2 DEF SlotOf
      <4> HIDE DEF x
      <4>4. SlotsKept'
        BY <1>0, <2>1, <3>2, <4>2, <4>3, SlotsSpawned
      <4> QED
        BY <1>0, <2>1, <4>2, <4>4 DEF PostTypes
    <3> QED
      BY <3>1, <3>2
  <2>3. Shape'
    <3>1. PostTypes'
      BY <1>0, <2>2 DEF PostTypes, Others
    <3>2. \A b \in AuctionIds : PostShape(b)'
      BY <1>0, PostShapeKept
    <3>3. TaskShape(t)'
      <4>1. Status(a) # "none"
        BY <1>0, <1>4, EntryOf DEF Timely, Still, Status
      <4> QED
        BY <1>0, <2>1, <2>2, <4>1 DEF TaskShape, Status
    <3> QED
      BY <1>0, <1>1, <2>2, <3>1, <3>2, <3>3, ShapeStep
  <2>4. ASSUME NEW b \in AuctionIds, NEW v \in owed'[b]
        PROVE  v <= Version(b)' /\ Carried(b, v)'
    <3>1. v \in owed[b] /\ v <= auctions'[b].version
      BY <1>0, <2>4, OwedWithin
    <3>2. CASE b = a
      BY <2>2, <3>1, <3>2 DEF Carried, Bears, Version
    <3>3. CASE b # a
      <4>1. ~ CycleBears(b, v)
        BY <1>4, <3>3 DEF CycleBears
      <4>2. PICK s \in Tasks : Bears(tasks[s], b, v)
        BY <1>0, <3>1, <4>1 DEF Borne, Carried
      <4>3. s # t
        BY <2>1, <4>2 DEF Bears
      <4>4. Bears(tasks'[s], b, v)
        BY <2>2, <4>2, <4>3 DEF Others
      <4> QED
        BY <3>1, <4>4 DEF Carried, Version
    <3> QED
      BY <3>2, <3>3
  <2>5. Borne'
    BY <1>2, <2>4 DEF Borne
  <2>6. Fresh'
    <3>1. \A b \in AuctionIds : PostFresh(b)'
      BY <1>0, PostFreshKept
    <3>2. \A s \in Tasks \ {t} : tasks[s].pc = "edit" =>
             known'[tasks[s].on] \/ slot'[tasks[s].on] = 1
      BY <1>0 DEF Fresh, EditFresh
    <3>3. EditFresh(t)' /\ NewFresh(t)'
      BY <2>2, FreshTask DEF Posting
    <3>4. k.pc \notin Posting
      BY <2>2 DEF Posting
    <3> QED
      BY <1>0, <2>2, <3>1, <3>2, <3>3, <3>4, FreshStep
  <2> QED
    BY <2>2, <2>3, <2>5, <2>6 DEF Kept
<1> QED
  BY <1>3, <1>4 DEF CycleRefreshes

\* A boot puts up the posts it found, or new ones, as the auctions are by then.
LEMMA BootKeeps ==
  ASSUME PostInv, Grows, Boot
  PROVE  /\ Kept
         /\ \A a \in AuctionIds : shown'[a] = shown[a] \/
              (/\ Status(a) = "open" /\ shown'[a].version = Version(a)
               /\ shown'[a].buttons = LiveButtons(a))
<1>0. /\ SchedInv /\ Shape /\ SlotsKept /\ Borne /\ Fresh /\ PostTypes
      /\ UNCHANGED <<auctions, tasks, slot, turn, queued, owed>>
      /\ cycle.pc = "off" /\ cycle' = Asleep("rest")
  BY DEF PostInv, Shape, Boot, Start, slotVars
<1>1. /\ \A t \in Tasks : tasks[t] = Idle /\ tasks[t].pc = "idle"
      /\ \A a \in AuctionIds : slot[a] = 0 /\ ~ known[a]
  BY <1>0, IdleTyped DEF Shape
<1>2. PICK back \in SUBSET AuctionIds :
        /\ \A a \in back : Status(a) = "open"
        /\ known' = [a \in AuctionIds |-> a \in back]
        /\ shown' = [a \in AuctionIds |->
             IF a \in back THEN [version |-> Version(a), buttons |-> LiveButtons(a)]
             ELSE shown[a]]
  <2>1. PICK found \in FindPosts : \E edited \in SUBSET found :
          \E posted \in SUBSET ({a \in AuctionIds : Status(a) = "open"} \ edited) :
            LET back == edited \cup posted IN
            /\ known' = [a \in AuctionIds |-> a \in back]
            /\ shown' = [a \in AuctionIds |->
                 IF a \in back THEN [version |-> Version(a), buttons |-> LiveButtons(a)]
                 ELSE shown[a]]
    BY DEF Boot
  <2>2. \A a \in found : a \in AuctionIds /\ Status(a) = "open"
    BY DEF FindPosts
  <2> QED
    BY <2>1, <2>2
<1>3. \A a \in AuctionIds : /\ Version(a) \in Nat /\ LiveButtons(a) \in SUBSET Buttons
                            /\ Version(a)' = Version(a) /\ Status(a)' = Status(a)
                            /\ LiveButtons(a)' = LiveButtons(a)
  BY <1>0 DEF SchedInv, SchedTypeOK, Auction, Version, Status, LiveButtons, Buttons
<1>4. \A a \in AuctionIds :
        \/ a \notin back /\ shown'[a] = shown[a] /\ ~ known'[a]
        \/ /\ a \in back /\ Status(a) = "open" /\ shown'[a].version = Version(a)
           /\ shown'[a].buttons = LiveButtons(a) /\ known'[a]
  BY <1>2
<1>5. PostTypes'
  <2>1. \A a \in back : [version |-> Version(a), buttons |-> LiveButtons(a)] \in Drawing
    BY <1>3 DEF Drawing
  <2>2. shown' \in [AuctionIds -> Drawing]
    BY <1>0, <1>2, <2>1 DEF PostTypes
  <2> QED
    BY <1>0, <1>2, <2>2 DEF PostTypes
<1>6. Shape'
  <2>1. \A a \in AuctionIds : PostShape(a)'
    BY <1>0, <1>1, <1>3, <1>4 DEF PostShape
  <2>2. \A t \in Tasks : TaskShape(t)'
    BY <1>0, <1>1 DEF TaskShape
  <2>3. cycle'.pc = "rest"
    BY <1>0 DEF Asleep
  <2> QED
    BY <1>5, <2>1, <2>2, <2>3 DEF Shape, Grows
<1>7. SlotsKept'
  BY <1>0 DEF SlotsKept, HasTurn, Waiting, WaitedFor, OneWaits, SlotOf
<1>8. Borne'
  <2>1. \A a \in AuctionIds : owed'[a] = {}
    <3> SUFFICES ASSUME NEW a \in AuctionIds, NEW v \in owed[a] PROVE FALSE
      BY <1>0
    <3>1. PICK t \in Tasks : Bears(tasks[t], a, v)
      BY <1>0, NothingWritten
    <3> QED
      BY <1>1, <3>1 DEF Bears
  <2>2. FirstStep'
    BY <1>0 DEF FirstStep, Asleep
  <2> QED
    BY <2>1, <2>2 DEF Borne
<1>9. Fresh'
  <2>1. ASSUME NEW a \in AuctionIds PROVE PostFresh(a)'
    <3>1. CASE shown'[a] = shown[a]
      BY <1>0, <3>1, PostFreshKept
    <3>2. CASE /\ Status(a) = "open" /\ shown'[a].version = Version(a)
               /\ shown'[a].buttons = LiveButtons(a)
      BY <1>3, <3>2 DEF PostFresh
    <3> QED
      BY <1>4, <3>1, <3>2
  <2>2. \A t \in Tasks : EditFresh(t)' /\ NewFresh(t)'
    BY <1>0, <1>1 DEF EditFresh, NewFresh, Posting
  <2>3. \A s, t \in Tasks : OnePoster(s, t)'
    BY <1>0, <1>1 DEF OnePoster, Posting
  <2> QED
    BY <2>1, <2>2, <2>3 DEF Fresh
<1> QED
  BY <1>4, <1>6, <1>7, <1>8, <1>9 DEF Kept

\* A stop forgets everything but the posts themselves.
LEMMA StopKeeps ==
  ASSUME PostInv, Grows, BotStops PROVE Kept
<1>0. /\ SchedInv /\ Shape /\ Fresh /\ PostTypes
      /\ cycle' = Asleep("off") /\ shown' = shown
  BY DEF PostInv, Shape, BotStops, Stop
<1>1. /\ \A t \in Tasks : tasks'[t] = Idle /\ tasks'[t].pc = "idle"
      /\ \A a \in AuctionIds : slot'[a] = 0 /\ ~ known'[a] /\ owed'[a] = {}
      /\ \A x \in Slots : ~ queued'[x]
  BY IdleTyped DEF BotStops, AllIdle, All, Each
<1>2. PostTypes'
  BY <1>0, IdleTyped DEF PostTypes, BotStops, AllIdle, All, Each
<1>3. Shape'
  BY <1>1, <1>2 DEF Shape, Grows, TaskShape, PostShape
<1>4. SlotsKept'
  BY <1>1 DEF SlotsKept, HasTurn, Waiting, WaitedFor, OneWaits
<1>5. Borne'
  BY <1>0, <1>1 DEF Borne, FirstStep, Asleep
<1>6. Fresh'
  <2>1. \A a \in AuctionIds : PostFresh(a)'
    BY <1>0, PostFreshKept
  <2> QED
    BY <1>1, <2>1 DEF Fresh, EditFresh, NewFresh, OnePoster, Posting
<1> QED
  BY <1>3, <1>4, <1>5, <1>6 DEF Kept

-----------------------------------------------------------------------------

\* Whatever somebody asks for.
LEMMA RequestKeeps ==
  ASSUME PostInv, Grows, NEW t \in Tasks, Requests(t) PROVE Kept
<1>0. SchedInv /\ Counted
  BY DEF PostInv, Shape
<1>1. PICK a \in AuctionIds :
        \/ OpenAuction(t, a) \/ Bid(t, a) \/ RollForAuction(t, a)
        \/ CancelClick(t, a) \/ ConfirmClick(t, a)
        \/ CancelAuction(t, a) \/ EndAuction(t, a)
  BY DEF Requests
<1>2. CASE OpenAuction(t, a)
  <2>1. Command(a) /\ Handler(t, a, "query") /\ Status(a) = "none"
    BY <1>2 DEF OpenAuction, Command, Open
  <2> QED
    BY <1>0, <2>1, CommandGrows, HandlerKeeps
<1>3. CASE CancelClick(t, a)
  <2>1. Handler(t, a, "settle") /\ (Command(a) \/ (Settled(a) /\ UNCHANGED auctions))
    BY <1>3 DEF CancelClick, Command
  <2>2. auctions'[a].status # "none"
    <3>1. CASE Command(a)
      BY <1>0, <3>1, CommandGrows
    <3>2. CASE Settled(a) /\ UNCHANGED auctions
      BY <3>2 DEF Settled, Status
    <3> QED
      BY <2>1, <3>1, <3>2
  <2> QED
    BY <2>1, <2>2, HandlerKeeps
<1>4. CASE Bid(t, a) \/ RollForAuction(t, a) \/ ConfirmClick(t, a)
             \/ CancelAuction(t, a) \/ EndAuction(t, a)
  <2>1. Command(a) /\ \E pc \in {"bid", "roll", "settle", "refresh", "end"} : Handler(t, a, pc)
    BY <1>4 DEF Bid, RollForAuction, ConfirmClick, CancelAuction, EndAuction, Command
  <2>2. auctions'[a].status # "none"
    BY <1>0, <2>1, CommandGrows
  <2> QED
    BY <2>1, <2>2, HandlerKeeps
<1> QED
  BY <1>1, <1>2, <1>3, <1>4

\* Whatever a handler or an edit does next, or fails to do.
LEMMA ProceedKeeps ==
  ASSUME PostInv, Grows, NEW t \in Tasks, Proceeds(t) \/ Fails(t) PROVE Kept
<1>1. CASE Query(t)
  BY <1>1, QueryKeeps DEF Query, schedVars
<1>2. CASE Send(t)
  BY <1>2, SendKeeps DEF Send, schedVars
<1>3. CASE Remember(t)
  BY <1>3, RememberKeeps
<1>4. CASE EndSettles(t)
  BY <1>4, EndSettlesKeeps
<1>5. CASE EndRefused(t)
  BY <1>5, EndingKeeps DEF EndRefused, slotVars
<1>6. CASE Answer(t) \/ AnswerFails(t)
  BY <1>6, AnswerKeeps
<1>7. CASE Render(t)
  BY <1>7, RenderKeeps
<1>8. CASE NothingToEdit(t) \/ EditDone(t) \/ EditFails(t) \/ EditTimesOut(t)
  BY <1>8, EditKeeps
<1>9. CASE SendFails(t)
  <2>1. Ends(t) /\ tasks[t].pc = "send" /\ owed' = owed
    BY <1>9 DEF SendFails
  <2>2. UNCHANGED <<cycle, shown, known, slot, turn, queued>>
    BY <1>9 DEF SendFails, slotVars
  <2>3. /\ tasks[t].pc \in {"send", "end", "bid", "settle"}
        /\ \/ tasks[t].pc = "send" /\ owed' = owed
           \/ tasks[t].pc # "send" /\ GivesUp(tasks[t].on, {tasks[t].version})
    BY <2>1
  <2> QED
    BY <2>1, <2>2, <2>3, EndingKeeps
<1> QED
  BY <1>1, <1>2, <1>3, <1>4, <1>5, <1>6, <1>7, <1>8, <1>9 DEF Proceeds, Fails

\* Every step of the posts keeps the invariant.
LEMMA PostSteps == PostInv /\ [Next]_vars => PostInv'
<1>1. ASSUME PostInv, Next PROVE PostInv'
  <2>1. SchedInv' /\ Grows
    BY <1>1, PostGrows DEF PostInv
  <2>2. Kept
    <3>1. ASSUME NEW t \in Tasks, Requests(t) \/ Proceeds(t) \/ TakeTurn(t) \/ Fails(t)
          PROVE  Kept
      BY <1>1, <2>1, <3>1, RequestKeeps, ProceedKeeps, TakeTurnKeeps
    <3>2. CASE Cycling \/ CycleGivesUp \/ Time
      BY <1>1, <2>1, <3>2, CycleFiresKeeps, CycleQuietKeeps, CycleRefreshesKeeps DEF Cycling
    <3>3. CASE Boot \/ BotStops
      BY <1>1, <2>1, <3>3, BootKeeps, StopKeeps
    <3> QED
      BY <1>1, <3>1, <3>2, <3>3 DEF Next
  <2> QED
    BY <2>1, <2>2 DEF Kept, PostInv
<1>2. ASSUME PostInv, UNCHANGED vars PROVE PostInv'
  <2>1. UNCHANGED <<now, auctions, cycle, faults>>
    BY <1>2 DEF vars, schedVars
  <2>2. SchedInv'
    BY <1>2, SchedSteps DEF vars, PostInv
  <2>3. Shape'
    BY <1>2, <2>1 DEF vars, postVars, slotVars, PostInv, Shape, PostTypes, Counted, TaskShape,
      PostShape, Status, Version
  <2>4. SlotsKept'
    BY <1>2 DEF vars, postVars, slotVars, PostInv, SlotsKept, HasTurn, Waiting, WaitedFor,
      OneWaits, SlotOf
  <2>5. Borne'
    BY <1>2, <2>1 DEF vars, postVars, slotVars, PostInv, Borne, Carried, CycleBears, Bears,
      FirstStep, Entry, Version
  <2>6. Fresh'
    BY <1>2, <2>1 DEF vars, postVars, slotVars, PostInv, Fresh, PostFresh, EditFresh,
      NewFresh, OnePoster, Status, Version, LiveButtons
  <2> QED
    BY <2>2, <2>3, <2>4, <2>5, <2>6 DEF PostInv
<1> QED
  BY <1>1, <1>2

\* Nothing that is owed to a post is lost: what somebody carries is at least
\* as new as what the property asks for.
THEOREM NothingEverLost == Spec => []NothingLost
<1>1. PostInv => NothingLost
  <2> SUFFICES ASSUME PostInv, NEW a \in AuctionIds, NEW v \in owed[a]
               PROVE  \/ \E t \in Tasks :
                           /\ tasks[t].on = a
                           /\ \/ tasks[t].pc \in {"refresh", "wait", "queue", "render"}
                              \/ /\ tasks[t].pc \in {"bid", "roll", "settle", "end", "edit"}
                                 /\ tasks[t].version >= v
                      \/ cycle.pc = "act" /\ Entry.id = a /\ cycle.wrote >= v
    BY DEF NothingLost
  <2>1. v \in Nat
    BY DEF PostInv, Shape, PostTypes
  <2>2. Carried(a, v)
    BY DEF PostInv, Borne
  <2>3. CASE CycleBears(a, v)
    BY <2>1, <2>3 DEF CycleBears
  <2>4. ASSUME NEW t \in Tasks, Bears(tasks[t], a, v)
        PROVE  /\ tasks[t].on = a
               /\ \/ tasks[t].pc \in {"refresh", "wait", "queue", "render"}
                  \/ /\ tasks[t].pc \in {"bid", "roll", "settle", "end", "edit"}
                     /\ tasks[t].version >= v
    BY <2>1, <2>4 DEF Bears
  <2> QED
    BY <2>2, <2>3, <2>4 DEF Carried
<1> QED
  BY <1>1, PostStarts, PostSteps, PTL DEF Spec

\* Posts move one way.
LEMMA PostsMoveOn ==
  ASSUME PostInv, Next
  PROVE  \A a \in AuctionIds :
           /\ shown'[a].version >= shown[a].version
           /\ shown[a] # NoPost => shown'[a].buttons \subseteq shown[a].buttons
<1> SUFFICES ASSUME NEW a \in AuctionIds
             PROVE  /\ shown'[a].version >= shown[a].version
                    /\ shown[a] # NoPost => shown'[a].buttons \subseteq shown[a].buttons
  OBVIOUS
<1>1. /\ shown \in [AuctionIds -> Drawing] /\ shown[a].version \in Nat
      /\ tasks \in [Tasks -> TaskRecord]
  BY DEF PostInv, Shape, PostTypes, Drawing
<1>2. CASE shown'[a] = shown[a]
  BY <1>1, <1>2
<1>3. ASSUME NEW t \in Tasks, Send(t), shown'[a] # shown[a]
      PROVE  shown[a] = NoPost /\ shown'[a].version \in Nat
  <2>1. tasks[t].on = a
    BY <1>1, <1>3 DEF Send
  <2>2. shown[a] = NoPost
    BY <1>3, <2>1 DEF Send, PostInv, Fresh, NewFresh, Posting
  <2>3. shown'[a] = Drawn(t) /\ tasks[t].version \in Nat
    BY <1>1, <1>3, <2>1 DEF Send, TaskRecord
  <2> QED
    BY <2>2, <2>3 DEF Drawn
<1>4. ASSUME NEW t \in Tasks, tasks[t].pc = "edit", auctions' = auctions, Shows(t),
             shown'[a] # shown[a]
      PROVE  /\ shown'[a].version >= shown[a].version
             /\ shown[a] # NoPost => shown'[a].buttons \subseteq shown[a].buttons
  <2>1. tasks[t].on = a
    BY <1>1, <1>4 DEF Shows
  <2>2. shown'[a].version = tasks[t].version /\ shown'[a].buttons = tasks[t].buttons
    BY <1>1, <1>4, <2>1 DEF Shows, Drawn
  <2>3. /\ shown[a].version <= tasks[t].version
        /\ shown[a] # NoPost => tasks[t].buttons \subseteq shown[a].buttons
    BY <1>4, <2>1 DEF PostInv, Fresh, EditFresh
  <2>4. tasks[t].version \in Nat
    BY <1>1 DEF TaskRecord
  <2> QED
    BY <1>1, <2>2, <2>3, <2>4
<1>5. ASSUME Boot, shown'[a] # shown[a]
      PROVE  /\ shown'[a].version >= shown[a].version
             /\ shown[a] # NoPost => shown'[a].buttons \subseteq shown[a].buttons
  <2>1. Grows
    BY PostGrows DEF PostInv
  <2>2. /\ Status(a) = "open" /\ shown'[a].version = Version(a)
        /\ shown'[a].buttons = LiveButtons(a)
    BY <1>5, <2>1, BootKeeps
  <2>3. /\ shown[a].version <= Version(a)
        /\ shown[a] # NoPost => LiveButtons(a) \subseteq shown[a].buttons
    BY <2>2 DEF PostInv, Fresh, PostFresh
  <2>4. Version(a) \in Nat
    BY DEF PostInv, SchedInv, SchedTypeOK, Auction, Version
  <2> QED
    BY <1>1, <2>2, <2>3, <2>4
<1>6. CASE shown' = shown
  BY <1>2, <1>6
<1>7. ASSUME NEW t \in Tasks, EditDone(t) \/ EditTimesOut(t)
      PROVE  shown' = shown \/ (tasks[t].pc = "edit" /\ auctions' = auctions /\ Shows(t))
  BY <1>7 DEF EditDone, EditTimesOut, Shows, schedVars
<1>8. \/ shown' = shown
      \/ \E t \in Tasks : Send(t) \/ EditDone(t) \/ EditTimesOut(t)
      \/ Boot
  <2>1. ASSUME NEW t \in Tasks, Requests(t) PROVE shown' = shown
    BY <2>1 DEF Requests, OpenAuction, Bid, RollForAuction, CancelClick, ConfirmClick,
      CancelAuction, EndAuction, Handler
  <2>2. ASSUME NEW t \in Tasks, Proceeds(t) \/ TakeTurn(t) \/ Fails(t)
        PROVE  shown' = shown \/ Send(t) \/ EditDone(t) \/ EditTimesOut(t)
    BY <2>2 DEF Proceeds, Fails, Query, Remember, EndSettles, EndRefused, Answer, Render,
      NothingToEdit, TakeTurn, SendFails, AnswerFails, EditFails
  <2>3. ASSUME Cycling \/ CycleGivesUp \/ BotStops \/ Time PROVE shown' = shown
    BY <2>3 DEF Cycling, CycleFires, CycleQuiet, CycleRefreshes, CycleGivesUp, BotStops,
      Time, postVars
  <2> QED
    BY <2>1, <2>2, <2>3 DEF Next
<1>9. shown[a] = NoPost /\ shown'[a].version \in Nat => shown'[a].version >= shown[a].version
  BY DEF NoPost
<1> QED
  BY <1>2, <1>3, <1>4, <1>5, <1>6, <1>7, <1>8, <1>9

\* A post never goes back: not to an older state of its auction, and not to
\* buttons it had lost, whatever edits time out and whenever the bot restarts.
THEOREM PostsNeverGoBack == Spec => NeverBackwards
<1> DEFINE Onward == \A a \in AuctionIds :
       /\ shown'[a].version >= shown[a].version
       /\ shown[a] # NoPost => shown'[a].buttons \subseteq shown[a].buttons
<1>1. PostInv /\ [Next]_vars => [Onward]_vars
  BY PostsMoveOn
<1>2. Spec => [][Onward]_vars
  <2> HIDE DEF Onward
  <2> QED
    BY <1>1, PostStarts, PostSteps, PTL DEF Spec
<1> QED
  BY <1>2 DEF NeverBackwards
=============================================================================
