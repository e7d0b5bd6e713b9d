------------------------------ MODULE Auctions ------------------------------
(***************************************************************************)
(* Auctions: opening, bidding, retracting, rolling, closing, drawing and   *)
(* charging the winners, cancelling; over the accounts that pay for them   *)
(* and the active raid the loot is attributed to.                          *)
(***************************************************************************)
EXTENDS Raids, Winners, Functions

CONSTANTS
  AuctionIds,    \* auction ids
  Offers,        \* what an officer may put up
  Amounts,       \* amounts a member may bid
  Attendances,   \* attendance percentages a bid may record
  MainLine,      \* GuildConfig.main_bid_min_attendance, 0 for none
  AltLine,       \* GuildConfig.alt_bid_min_attendance, 0 for none
  MaxRoll,       \* the highest roll (100)
  Seeds          \* tie-break seeds, each a choice function on Players

Flavors == {"short", "long", "roll"}

\* What an auction is opened with.  rollers are the members who may roll:
\* everybody, or the snapshot of a voice channel taken at the open.
Terms == [flavor : Flavors, minBid : Nat, numItems : Nat, lock : Int,
          over : Int, debit : BOOLEAN, rollCost : Nat,
          rollers : SUBSET Players]

\* The request as it arrives: nothing checked, amounts of either sign.
Offer == [flavor : Flavors, minBid : Int, numItems : Nat, lock : Int,
          over : Int, debit : BOOLEAN, rollCost : Int,
          rollers : SUBSET Players]

ASSUME AuctionIdsAssumption == IsFiniteSet(AuctionIds)
ASSUME OffersAssumption == Offers \subseteq Offer
ASSUME AmountsAssumption == Amounts \subseteq Int /\ Attendances \subseteq Nat
ASSUME LinesAssumption == MainLine \in Nat /\ AltLine \in Nat
ASSUME MaxRollAssumption == MaxRoll \in Nat \ {0}
ASSUME SeedsAssumption == \A s \in Seeds : IsSeed(s, Players)

VARIABLE auctions  \* GuildState.auctions

ledgerVars == <<accountVars, raidVars, auctions>>

Bid == [amount : Int, main : BOOLEAN, attendance : Nat]

\* f is a function from some of the players to T.
IsPartial(f, T) == DOMAIN f \subseteq Players /\ f \in [DOMAIN f -> T]

NoTerms == [flavor |-> "short", minBid |-> 0, numItems |-> 1, lock |-> 0,
            over |-> 0, debit |-> TRUE, rollCost |-> 0, rollers |-> Players]
NoSeed  == [i \in {} |-> {}]
None    == [p \in {} |-> 0]

\* "none": the id was not used yet.  proposed is what the embed of a closed
\* auction shows the officer: the winners computed when the bidding stopped,
\* and the bids that were valid then.
IsAuction(x) ==
  /\ DOMAIN x = {"status", "terms", "bids", "rolls", "seed", "winners",
                 "proposed", "validThen"}
  /\ x.status \in {"none", "open", "closed", "finalized", "cancelled"}
  /\ x.terms \in Terms
  /\ IsPartial(x.bids, Bid) /\ IsPartial(x.rolls, 1 .. MaxRoll)
  /\ x.seed \in Seeds \cup {NoSeed}
  /\ IsPartial(x.winners, Int) /\ IsPartial(x.proposed, Int)
  /\ x.validThen \subseteq Players

AuctionsTypeOK ==
  /\ auctions = [a \in AuctionIds |-> auctions[a]]
  /\ \A a \in AuctionIds : IsAuction(auctions[a])

Unopened(status, terms) ==
  [status |-> status, terms |-> terms, bids |-> None, rolls |-> None,
   seed |-> NoSeed, winners |-> None, proposed |-> None, validThen |-> {}]

AuctionsInit == auctions = [a \in AuctionIds |-> Unopened("none", NoTerms)]

HasStatus(a, s) == auctions[a].status = s
IsRoll(a)       == auctions[a].terms.flavor = "roll"

\* A roll takes no bids: the bid knobs are zeroed, and it debits exactly when
\* it costs.
TermsOf(offer) ==
  LET roll == offer.flavor = "roll"
      knob(v) == IF roll THEN 0 ELSE v IN
  [offer EXCEPT !.minBid = knob(@), !.lock = knob(@), !.over = knob(@),
                !.numItems = IF @ = 0 THEN 1 ELSE @,
                !.debit = IF roll THEN offer.rollCost > 0 ELSE @]

OpenAuction(a, offer) ==
  /\ HasStatus(a, "none")
  /\ offer.minBid >= 0 /\ offer.rollCost >= 0
  /\ offer.rollCost > 0 => offer.flavor = "roll"
  /\ offer.rollers # Players => offer.flavor = "roll"
  /\ offer.rollers # {}
  /\ auctions' = [auctions EXCEPT ![a] = Unopened("open", TermsOf(offer))]
  /\ Emit(1)
  /\ UNCHANGED <<members, balance, owner, history, lineNames, raidVars>>

\* A slip of Committed: nothing is reserved.
CommittedNothing(p, a) == 0

\* committed_elsewhere: p's standing bids on the other open auctions.
Committed(p, a) ==
  LET bidOn == {b \in AuctionIds \ {a} :
                  HasStatus(b, "open") /\ p \in DOMAIN auctions[b].bids} IN
  SumFunction([b \in bidOn |-> auctions[b].bids[p].amount])

Put(f, p, v) == [q \in DOMAIN f \cup {p} |-> IF q = p THEN v ELSE f[q]]

\* A main bid under the main line lands on the alt side.
LandsMain(main, attendance) ==
  main /\ ~ (MainLine > 0 /\ attendance < MainLine)

\* The deadline is not looked at: bids are taken until the close.
PlaceBid(p, a, amount, main, attendance) ==
  LET side == LandsMain(main, attendance) IN
  /\ HasStatus(a, "open") /\ ~ IsRoll(a)
  /\ amount > 0 /\ amount >= auctions[a].terms.minBid
  /\ p \in members
  /\ amount <= balance[p] - Committed(p, a)
  /\ ~ side => ~ (AltLine > 0 /\ attendance < AltLine)
  /\ auctions' = [auctions EXCEPT ![a].bids =
       Put(@, p, [amount |-> amount, main |-> side,
                  attendance |-> attendance])]
  /\ Emit(1)
  /\ UNCHANGED <<members, balance, owner, history, lineNames, raidVars>>

\* A slip of RetractBid: bids can be taken back after the close.
RetractAnytime(p, a) ==
  /\ p \in DOMAIN auctions[a].bids
  /\ auctions' = [auctions EXCEPT ![a].bids =
       [q \in DOMAIN @ \ {p} |-> @[q]]]
  /\ Emit(1)
  /\ UNCHANGED <<members, balance, owner, history, lineNames, raidVars>>

RetractBid(p, a) ==
  /\ HasStatus(a, "open")
  /\ p \in DOMAIN auctions[a].bids
  /\ auctions' = [auctions EXCEPT ![a].bids =
       [q \in DOMAIN @ \ {p} |-> @[q]]]
  /\ Emit(1)
  /\ UNCHANGED <<members, balance, owner, history, lineNames, raidVars>>

\* A slip of RollForAuction: rolls count from zero.
RollFromZero(p, a, roll) ==
  /\ HasStatus(a, "open") /\ IsRoll(a)
  /\ p \in auctions[a].terms.rollers
  /\ p \in members
  /\ p \notin DOMAIN auctions[a].rolls
  /\ auctions' = [auctions EXCEPT ![a].rolls = Put(@, p, roll - 1)]
  /\ Emit(1)
  /\ UNCHANGED <<members, balance, owner, history, lineNames, raidVars>>

RollForAuction(p, a, roll) ==
  /\ HasStatus(a, "open") /\ IsRoll(a)
  /\ p \in auctions[a].terms.rollers
  /\ p \in members
  /\ p \notin DOMAIN auctions[a].rolls
  /\ auctions[a].terms.rollCost > 0 =>
       auctions[a].terms.rollCost <= balance[p] - Committed(p, a)
  /\ auctions' = [auctions EXCEPT ![a].rolls = Put(@, p, roll)]
  /\ Emit(1)
  /\ UNCHANGED <<members, balance, owner, history, lineNames, raidVars>>

\* A slip of ValidBidders: nobody looks at the balances again.
BiddersUnchecked(a) ==
  {p \in DOMAIN auctions[a].bids :
     auctions[a].bids[p].amount >= auctions[a].terms.minBid}

\* The bids compute_winners keeps: those their bidder can still pay.
ValidBidders(a) ==
  {p \in DOMAIN auctions[a].bids :
     /\ auctions[a].bids[p].amount > 0
     /\ auctions[a].bids[p].amount >= auctions[a].terms.minBid
     /\ auctions[a].bids[p].amount <= BalanceOf(p)}

\* Who wins the auction x when the bids of `valid` count, and at what price.
\* A roll was paid for when it was made: its winners owe what a roll costs.
WinnersAmong(x, valid, seed) ==
  LET bids == [p \in valid |-> x.bids[p]] IN
  IF x.terms.flavor = "roll"
  THEN [p \in RollWinners(x.rolls, x.terms.numItems, seed) |-> x.terms.rollCost]
  ELSE [p \in BidWinners(bids, x.terms.numItems, x.terms.lock, x.terms.over,
                          seed) |-> bids[p].amount]

\* compute_winners and compute_roll_winners, at this moment's balances.
WinnersOf(a, seed) == WinnersAmong(auctions[a], ValidBidders(a), seed)

\* The close draws the seed; the embed of the closed auction shows what it
\* leads to.
CloseAuction(a, seed) ==
  /\ HasStatus(a, "open")
  /\ auctions' = [auctions EXCEPT ![a] =
       [auctions[a] EXCEPT !.status = "closed", !.seed = seed,
                           !.proposed = WinnersOf(a, seed),
                           !.validThen = ValidBidders(a)]]
  /\ Emit(1)
  /\ UNCHANGED <<members, balance, owner, history, lineNames, raidVars>>

\* Slips of FinalizeAuction, all of this shape: who won, and who pays.
FinalizeWith(a, won, pays(_)) ==
  /\ auctions' = [auctions EXCEPT ![a] =
       [auctions[a] EXCEPT !.status = "finalized", !.winners = won]]
  /\ Post([p \in DOMAIN won |-> - pays(p)], ActiveRef, "loot")
  /\ Emit(1)
  /\ UNCHANGED <<owner, raidVars>>

\* Winners pay for an auction that does not debit.
FinalizeDebitsAll(a) ==
  LET won == WinnersOf(a, auctions[a].seed) IN
  /\ HasStatus(a, "closed")
  /\ FinalizeWith(a, won, LAMBDA p : won[p])

\* The officer's click draws again.
FinalizeRedraws(a) ==
  /\ HasStatus(a, "closed")
  /\ \E s \in Seeds : LET won == WinnersOf(a, s) IN
       FinalizeWith(a, won, LAMBDA p : won[p])

\* The winners are charged in the fold of the event that names them.  A tie
\* across the cut of a roll is an event of its own ahead of it.
FinalizeAuction(a) ==
  LET won == WinnersOf(a, auctions[a].seed)
      charge(p) == IF auctions[a].terms.debit THEN won[p] ELSE 0 IN
  /\ HasStatus(a, "closed")
  /\ auctions' = [auctions EXCEPT ![a] =
       [auctions[a] EXCEPT !.status = "finalized", !.winners = won]]
  /\ Post([p \in DOMAIN won |-> - charge(p)], ActiveRef, "loot")
  /\ Emit(IF IsRoll(a) /\ RollTied(auctions[a].rolls, auctions[a].terms.numItems)
          THEN 2 ELSE 1)
  /\ UNCHANGED <<owner, raidVars>>

CancelAuction(a) ==
  /\ HasStatus(a, "open") \/ HasStatus(a, "closed")
  /\ auctions' = [auctions EXCEPT ![a].status = "cancelled"]
  /\ Emit(1)
  /\ UNCHANGED <<members, balance, owner, history, lineNames, raidVars>>

AuctionStep ==
  \/ \E a \in AuctionIds, o \in Offers : OpenAuction(a, o)
  \/ \E p \in Players, a \in AuctionIds, m \in Amounts, side \in BOOLEAN,
        att \in Attendances : PlaceBid(p, a, m, side, att)
  \/ \E p \in Players, a \in AuctionIds : RetractBid(p, a)
  \/ \E p \in Players, a \in AuctionIds, r \in 1 .. MaxRoll :
        RollForAuction(p, a, r)
  \/ \E a \in AuctionIds, s \in Seeds : CloseAuction(a, s)
  \/ \E a \in AuctionIds : FinalizeAuction(a)
  \/ \E a \in AuctionIds : CancelAuction(a)
=============================================================================
