------------------------------ MODULE MCLedger ------------------------------
(* The constants the ledger's runs share: offers and seeds. *)
EXTENDS Ledger, TLC

SeedDomain == {<<T, k>> : T \in SUBSET Players, k \in 1 .. Cardinality(Players)}

\* Two seeds that settle every tie differently for two players.
FirstOf(better(_, _)) ==
  [tk \in SeedDomain |->
     {p \in tk[1] : Cardinality({q \in tk[1] : better(q, p)}) < tk[2]}]

CONSTANTS p1, p2

MCPlayers == {p1, p2}
Rank(p)   == IF p = p1 THEN 1 ELSE 2
MCSeeds   == {FirstOf(LAMBDA q, p : Rank(q) < Rank(p)),
              FirstOf(LAMBDA q, p : Rank(q) > Rank(p))}

AnOffer(flavor, items, lock, over, debit, cost, rollers) ==
  [flavor |-> flavor, minBid |-> 1, numItems |-> items, lock |-> lock,
   over |-> over, debit |-> debit, rollCost |-> cost, rollers |-> rollers]

\* An auction with a main lock, which charges; a free one in which alts may
\* overbid the mains; and a free roll.
MixedOffers == {AnOffer("short", 0, 2, 0, TRUE, 0, MCPlayers),
                AnOffer("long", 2, 0, 1, FALSE, 0, MCPlayers),
                AnOffer("roll", 1, 0, 0, TRUE, 0, MCPlayers)}

\* A roll that costs DKP beside an ordinary auction.
CostedRolls == {AnOffer("roll", 1, 0, 0, TRUE, 2, MCPlayers),
                AnOffer("short", 1, 0, 0, TRUE, 0, MCPlayers)}

\* Raid ids are interchangeable.
RaidSymmetry == Permutations(RaidIds)

\* Auction ids are.
AuctionSymmetry == Permutations(AuctionIds)

\* An adjustment that takes DKP away.
Minus1 == {-1}

\* One seed, where no tie can arise.
OneSeed == {FirstOf(LAMBDA q, p : FALSE)}

\* One ordinary auction, for the run about one member.
OneOffer == {AnOffer("short", 1, 0, 0, TRUE, 0, Players)}
=============================================================================
