------------------------------- MODULE Winners -------------------------------
(***************************************************************************)
(* Who wins an auction (auction.rs), as sets rather than as the loops the  *)
(* code runs; WinnerLoops takes the loops a step at a time and is checked by this. *)
(*                                                                         *)
(* Bids are a function from bidders to records, rolls a function from      *)
(* players to numbers.  A seed is a choice function: what the generator    *)
(* seeded with it draws, k players at a time, from a set of tied ones.     *)
(***************************************************************************)
EXTENDS Integers, FiniteSets

\* All the ways to pick k members of S.
Picks(k, S) == {T \in SUBSET S : Cardinality(T) = k}

\* The players a draw leaves when k of the tied set S can win.
Draw(seed, S, k) == IF Cardinality(S) <= k THEN S ELSE seed[S, k]

IsSeed(seed, S) ==
  /\ DOMAIN seed = {<<T, k>> : T \in SUBSET S, k \in 1 .. Cardinality(S)}
  /\ \A T \in SUBSET S, k \in 1 .. Cardinality(S) :
       k < Cardinality(T) => seed[T, k] \in Picks(k, T)

\* The draw that settled every tie for the members of W.
Favouring(W, S) ==
  [t \in {<<T, k>> : T \in SUBSET S, k \in 1 .. Cardinality(S)} |-> W \cap t[1]]

\* Amount first, attendance between equal amounts.
Outranks(b, c) ==
  \/ b.amount > c.amount
  \/ b.amount = c.amount /\ b.attendance > c.attendance

Ahead(bids, S, p) == {q \in S : Outranks(bids[q], bids[p])}
Level(bids, S, p) == {q \in S : ~ Outranks(bids[q], bids[p])
                                /\ ~ Outranks(bids[p], bids[q])}

\* top_bids: the n best of the bidders S; a full tie across the cut is drawn.
TopBids(bids, S, n, seed) ==
  {p \in S :
     LET better == Ahead(bids, S, p)
         level  == Level(bids, S, p)
         left   == n - Cardinality(better) IN
       left > 0 /\ p \in Draw(seed, level, left)}

\* The highest bid on the main side, when there is one.
MainAmounts(bids) == {bids[p].amount : p \in {q \in DOMAIN bids : bids[q].main}}

\* An alt bid this far over every main bid competes with the mains.
Promoted(bids, p, over) ==
  /\ over > 0
  /\ MainAmounts(bids) # {}
  /\ \A m \in MainAmounts(bids) : bids[p].amount >= m + over

MainBidders(bids, lock, over) ==
  {p \in DOMAIN bids :
     \/ bids[p].main /\ bids[p].amount >= lock
     \/ Promoted(bids, p, over)}

\* winners: the mains first, what is left over to everybody else.
BidWinners(bids, n, lock, over, seed) ==
  LET mains == MainBidders(bids, lock, over)
      first == TopBids(bids, mains, n, seed)
  IN  IF Cardinality(first) >= n THEN first
      ELSE first \cup
        TopBids(bids, DOMAIN bids \ mains, n - Cardinality(first), seed)

HigherRolls(rolls, p) == {q \in DOMAIN rolls : rolls[q] > rolls[p]}
SameRolls(rolls, p)   == {q \in DOMAIN rolls : rolls[q] = rolls[p]}

\* roll_winners: the n highest rolls; a tie across the cut is rolled off until
\* the slots are filled, which comes to a draw among the tied.
RollWinners(rolls, n, seed) ==
  {p \in DOMAIN rolls :
     LET left == n - Cardinality(HigherRolls(rolls, p)) IN
       left > 0 /\ p \in Draw(seed, SameRolls(rolls, p), left)}

\* Whether more players share the cut roll than slots remain for them.
RollTied(rolls, n) ==
  \E p \in DOMAIN rolls :
    LET left == n - Cardinality(HigherRolls(rolls, p)) IN
      left > 0 /\ Cardinality(SameRolls(rolls, p)) > left
=============================================================================
