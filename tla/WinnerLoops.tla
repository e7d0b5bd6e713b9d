----------------------------- MODULE WinnerLoops -----------------------------
(***************************************************************************)
(* The loops of auction.rs that pick the winners, a step at a time: the    *)
(* picks of winners and top_bids for a bid auction, the roll-offs of       *)
(* roll_winners for a roll.  Both are checked against the sets of module   *)
(* Winners, which is what the ledger's model charges by.                   *)
(***************************************************************************)
EXTENDS Winners, Sequences, FiniteSetsExt, Functions

CONSTANTS
  Bidders, Amounts, Attendances, Locks, Overs,   \* what a bid auction may be
  Rollers, MaxRoll,                              \* what a roll may be
  MaxItems,      \* bound: items up for auction
  MaxRounds      \* MAX_ROLL_OFF_ROUNDS

ASSUME BidsAssumption ==
  IsFiniteSet(Bidders) /\ Amounts \subseteq Int /\ Attendances \subseteq Int
ASSUME RollsAssumption ==
  IsFiniteSet(Rollers) /\ {MaxRoll, MaxItems, MaxRounds} \subseteq Nat

VARIABLES
  n,                    \* how many may win
  phase,                \* "main", "alt": which call of top_bids runs;
                        \* "loop": roll-offs, "draw": the draw; "done"
  bids, lock, over,     \* the other arguments of winners
  pool, top,            \* the pool of top_bids, and what it picked so far
  result,               \* the winners, in the order they are announced
  rolls,                \* the argument of roll_winners
  field,                \* the players still rolling and their last rolls
  open,                 \* slots left
  rounds,               \* roll-off rounds so far
  winners

bidArgs  == <<bids, lock, over>>
bidVars  == <<bidArgs, pool, top, result>>
rollVars == <<rolls, field, open, rounds, winners>>
vars     == <<n, phase, bidVars, rollVars>>

-----------------------------------------------------------------------------
(* A bid auction *)

\* The pool of top_bids: nobody under the amount of the n-th best bid, or of
\* the last one when there are no more than n.
Pool(S, k) ==
  {p \in S :
     \/ Cardinality(S) <= k
     \/ Cardinality({q \in S : bids[q].amount > bids[p].amount}) < k}

Mains == MainBidders(bids, lock, over)

NoBids  == [p \in {} |-> 0]
NoRolls == [p \in {} |-> 0]

\* compute_winners asks for no more winners than there are valid bids.
BidInit ==
  /\ bids \in UNION {[S -> [amount : Amounts, main : BOOLEAN,
                            attendance : Attendances]] :
                       S \in (SUBSET Bidders) \ {{}}}
  /\ n \in 1 .. MaxItems
  /\ n <= Cardinality(DOMAIN bids)
  /\ lock \in Locks /\ over \in Overs
  /\ phase = "main"
  /\ pool = Pool(Mains, n)
  /\ top = <<>> /\ result = <<>>
  /\ rolls = NoRolls /\ field = NoRolls
  /\ open = 0 /\ rounds = 0 /\ winners = {}

Picking == phase \in {"main", "alt"} /\ Len(top) < n /\ pool # {}

\* The bids that share the highest amount in the pool.
Tied == {p \in pool : \A q \in pool : bids[p].amount >= bids[q].amount}

\* A slip of Candidates: attendance is not looked at.
TiedByAmount == Tied

\* Those of them with the best attendance.
Candidates ==
  {p \in Tied : \A q \in Tied : bids[p].attendance >= bids[q].attendance}

\* One round of the loop: a single highest bid is taken, a tie goes to the
\* best attendance, a full tie to the generator.
Pick ==
  /\ Picking
  /\ \E p \in IF Cardinality(Tied) = 1 THEN Tied ELSE Candidates :
       /\ top' = Append(top, p)
       /\ pool' = pool \ {p}
  /\ UNCHANGED <<n, phase, bidArgs, result, rollVars>>

\* The mains are picked: what is left over goes to everybody else.
Fill ==
  /\ phase = "main" /\ ~ Picking
  /\ result' = top
  /\ IF Len(top) < n
     THEN /\ phase' = "alt"
          /\ pool' = Pool(DOMAIN bids \ Mains, n)
     ELSE phase' = "done" /\ pool' = {}
  /\ top' = <<>>
  /\ UNCHANGED <<n, bidArgs, rollVars>>

\* A slip of Return: the alts are not cut to the slots left.
ReturnAll ==
  /\ phase = "alt" /\ ~ Picking
  /\ result' = result \o top
  /\ phase' = "done" /\ pool' = {} /\ top' = <<>>
  /\ UNCHANGED <<n, bidArgs, rollVars>>

\* Only as many of the alts as there are slots left.
Return ==
  /\ phase = "alt" /\ ~ Picking
  /\ result' = result \o
       SubSeq(top, 1, IF n - Len(result) < Len(top) THEN n - Len(result)
                      ELSE Len(top))
  /\ phase' = "done" /\ pool' = {} /\ top' = <<>>
  /\ UNCHANGED <<n, bidArgs, rollVars>>

-----------------------------------------------------------------------------
(* A roll *)

Rolled(S) == [S -> 1 .. MaxRoll]

\* A field no larger than the items wins without a loop.
RollInit ==
  /\ rolls \in UNION {Rolled(S) : S \in SUBSET Rollers}
  /\ n \in 1 .. MaxItems
  /\ field = rolls /\ open = n /\ rounds = 0
  /\ IF Cardinality(DOMAIN rolls) <= n
     THEN winners = DOMAIN rolls /\ phase = "done"
     ELSE winners = {} /\ phase = "loop"
  /\ bids = NoBids /\ lock = 0 /\ over = 0
  /\ pool = {} /\ top = <<>> /\ result = <<>>

\* The roll that decides: the open-th highest in the field.
Above(f, p) == HigherRolls(f, p)
AtCut == {p \in DOMAIN field :
            /\ Cardinality(Above(field, p)) < open
            /\ Cardinality(Above(field, p) \cup SameRolls(field, p)) >= open}
OverCut == {p \in DOMAIN field :
              Cardinality(Above(field, p) \cup SameRolls(field, p)) < open}

\* The tied fit into the slots that are left.
Settle ==
  /\ phase = "loop"
  /\ Cardinality(AtCut) <= open - Cardinality(OverCut)
  /\ winners' = winners \cup OverCut \cup AtCut
  /\ open' = open - Cardinality(OverCut)
  /\ phase' = "done"
  /\ UNCHANGED <<n, bidVars, rolls, field, rounds>>

\* A slip of RollOff: those over the cut win, but keep their slots open.
RollOffKeepsSlots ==
  /\ phase = "loop"
  /\ Cardinality(AtCut) > open - Cardinality(OverCut)
  /\ rounds < MaxRounds
  /\ winners' = winners \cup OverCut
  /\ rounds' = rounds + 1
  /\ field' \in Rolled(AtCut)
  /\ UNCHANGED <<n, bidVars, rolls, open, phase>>

\* Another: the rounds are not counted.
RollOffForEver ==
  /\ phase = "loop"
  /\ Cardinality(AtCut) > open - Cardinality(OverCut)
  /\ winners' = winners \cup OverCut
  /\ open' = open - Cardinality(OverCut)
  /\ field' \in Rolled(AtCut)
  /\ UNCHANGED <<n, bidVars, rolls, rounds, phase>>

\* They do not, and roll again.
RollOff ==
  /\ phase = "loop"
  /\ Cardinality(AtCut) > open - Cardinality(OverCut)
  /\ rounds < MaxRounds
  /\ winners' = winners \cup OverCut
  /\ open' = open - Cardinality(OverCut)
  /\ rounds' = rounds + 1
  /\ field' \in Rolled(AtCut)
  /\ UNCHANGED <<n, bidVars, rolls, phase>>

\* Too many rounds: the slots are drawn from the tied, one by one.
GiveUp ==
  /\ phase = "loop"
  /\ Cardinality(AtCut) > open - Cardinality(OverCut)
  /\ rounds = MaxRounds
  /\ winners' = winners \cup OverCut
  /\ open' = open - Cardinality(OverCut)
  /\ field' = [p \in AtCut |-> field[p]]
  /\ phase' = "draw"
  /\ UNCHANGED <<n, bidVars, rolls, rounds>>

\* A slip of DrawOne: one slot too many is drawn.
DrawOneMore ==
  /\ phase = "draw"
  /\ \E p \in DOMAIN field :
       /\ winners' = winners \cup {p}
       /\ field' = [q \in DOMAIN field \ {p} |-> field[q]]
  /\ open' = open - 1
  /\ phase' = IF open = 0 THEN "done" ELSE "draw"
  /\ UNCHANGED <<n, bidVars, rolls, rounds>>

DrawOne ==
  /\ phase = "draw"
  /\ \E p \in DOMAIN field :
       /\ winners' = winners \cup {p}
       /\ field' = [q \in DOMAIN field \ {p} |-> field[q]]
  /\ open' = open - 1
  /\ phase' = IF open = 1 THEN "done" ELSE "draw"
  /\ UNCHANGED <<n, bidVars, rolls, rounds>>

Init == BidInit \/ RollInit

Next ==
  \/ Pick \/ Fill \/ Return
  \/ Settle \/ RollOff \/ GiveUp \/ DrawOne

Spec == Init /\ [][Next]_vars /\ WF_vars(Next)

-----------------------------------------------------------------------------
(* What the loops do *)

Chosen  == phase = "done" /\ bids # NoBids
Settled == phase = "done" /\ bids = NoBids

\* The picks are winners the sets of Winners allow when the ties fall
\* their way, and names nobody twice: the ledger's use of the sets is the
\* code's use of the loop.
PicksAreWinners ==
  Chosen =>
    /\ BidWinners(bids, n, lock, over, Favouring(Range(result), Bidders))
         = Range(result)
    /\ Cardinality(Range(result)) = Len(result)

\* The guild's rule, independently of both: every item goes to somebody, no
\* loser on the main side stands behind a winner on the alt side, and between
\* equals of one side amount decides, then attendance.
Beats(p, q) ==
  \/ p \in Mains /\ q \notin Mains
  \/ (p \in Mains <=> q \in Mains) /\ Outranks(bids[p], bids[q])

FairToLosers ==
  Chosen =>
    /\ Len(result) = n
    /\ \A w \in Range(result), l \in DOMAIN bids \ Range(result) : ~ Beats(l, w)

\* What the loop relies on when it reads the open-th roll of the field: there
\* are more rolls in the field than open slots, and at least one slot, every
\* round (the invariant the comment in roll_winners names).
FieldExceedsSlots ==
  phase \in {"loop", "draw"} =>
    /\ open >= 1
    /\ Cardinality(DOMAIN field) > open
    /\ Cardinality(winners) + open = n
    /\ winners \cap DOMAIN field = {}

\* However many rounds it took, as many win as there are items (or rolls),
\* and they are winners the sets of Winners allow: all above the cut, and a
\* choice among those tied at it.
RollsAreWinners ==
  Settled =>
    /\ \/ Cardinality(winners) = n
       \/ winners = DOMAIN rolls /\ Cardinality(winners) < n
    /\ RollWinners(rolls, n, Favouring(winners, Rollers)) = winners

\* Both loops always come to an end with as many winners as there are items,
\* or bidders or rollers: a roll that ties again and again is cut off.
EveryItemGoes ==
  <>(\/ Chosen /\ Len(result) = n
     \/ Settled /\ Cardinality(winners) = Min({n, Cardinality(DOMAIN rolls)}))
=============================================================================
