---------------------------- MODULE LedgerProofs ----------------------------
(***************************************************************************)
(* Proofs about the ledger, for any number of players, raids and auctions, *)
(* any offers and amounts, and a log of any length: its types, what an     *)
(* auction, a raid and a balance may never do, and the books: balances and *)
(* the history kept beside them, awards and the attendance they were given *)
(* for, the entries a merge moves, the names log lines carry, and what     *)
(* winners were charged.  The last part proves the same of the raid desk,  *)
(* whose module extends the ledger's.  The sums are those of SumLemmas.    *)
(***************************************************************************)
EXTENDS RaidDesk, SumLemmas

-----------------------------------------------------------------------------
(* The operators the ledger is built from *)

\* TopBids picks among the bidders it is given.
LEMMA TopBidsWithin ==
  ASSUME NEW bids, NEW S, NEW n, NEW seed
  PROVE  TopBids(bids, S, n, seed) \subseteq S
BY DEF TopBids

\* Only bidders win an auction.
LEMMA BidWinnersBid ==
  ASSUME NEW bids, NEW n, NEW lock, NEW over, NEW seed
  PROVE  BidWinners(bids, n, lock, over, seed) \subseteq DOMAIN bids
<1> DEFINE mains == MainBidders(bids, lock, over)
           first == TopBids(bids, mains, n, seed)
           rest  == TopBids(bids, DOMAIN bids \ mains, n - Cardinality(first), seed)
<1>1. mains \subseteq DOMAIN bids
  BY DEF MainBidders
<1>2. first \subseteq mains
  BY TopBidsWithin
<1>3. rest \subseteq DOMAIN bids \ mains
  BY TopBidsWithin
<1>4. BidWinners(bids, n, lock, over, seed) \subseteq first \cup rest
  BY DEF BidWinners
<1> QED
  BY <1>1, <1>2, <1>3, <1>4

\* A player is charged what its bid or the roll costs, and is one whose bid
\* counts or who rolled.
LEMMA WinnersPrice ==
  ASSUME NEW x, NEW valid, NEW seed
  PROVE  LET won == WinnersAmong(x, valid, seed) IN
         IF x.terms.flavor = "roll"
         THEN /\ DOMAIN won \subseteq DOMAIN x.rolls
              /\ won = [p \in DOMAIN won |-> x.terms.rollCost]
         ELSE /\ DOMAIN won \subseteq valid
              /\ won = [p \in DOMAIN won |-> x.bids[p].amount]
<1> DEFINE t == x.terms
           bids == [p \in valid |-> x.bids[p]]
           won == WinnersAmong(x, valid, seed)
           R == RollWinners(x.rolls, t.numItems, seed)
           B == BidWinners(bids, t.numItems, t.lock, t.over, seed)
<1>1. CASE t.flavor = "roll"
  <2>1. won = [p \in R |-> t.rollCost]
    BY <1>1 DEF WinnersAmong
  <2>2. R \subseteq DOMAIN x.rolls
    BY DEF RollWinners
  <2> QED
    BY <1>1, <2>1, <2>2
<1>2. CASE t.flavor # "roll"
  <2>1. won = [p \in B |-> bids[p].amount]
    BY <1>2 DEF WinnersAmong
  <2>2. B \subseteq valid
    BY BidWinnersBid
  <2>3. won = [p \in B |-> x.bids[p].amount]
    BY <2>1, <2>2
  <2> QED
    BY <1>2, <2>2, <2>3
<1> QED
  BY <1>1, <1>2

-----------------------------------------------------------------------------
(* Type correctness *)

\* What Post leaves of the accounts.
LEMMA PostType ==
  ASSUME AccountsTypeOK,
         NEW delta, NEW ref \in RaidRef, NEW k \in LineKinds,
         DOMAIN delta \subseteq Players, \A p \in DOMAIN delta : delta[p] \in Int,
         Post(delta, ref, k), UNCHANGED owner, seq' \in Nat
  PROVE  AccountsTypeOK'
<1>1. /\ members' \subseteq Players
      /\ balance' \in [Players -> Int]
  BY DEF AccountsTypeOK, Post
<1>2. history' \in [Players -> [RaidRefs -> [LineKinds -> Int]]]
  <2>1. ASSUME NEW p \in DOMAIN delta
        PROVE  [history[p] EXCEPT ![ref.id][k] = @ + delta[p]]
                 \in [RaidRefs -> [LineKinds -> Int]]
    <3>1. history[p] \in [RaidRefs -> [LineKinds -> Int]] /\ ref.id \in RaidRefs
      BY DEF AccountsTypeOK, RaidRef
    <3>2. history[p][ref.id][k] + delta[p] \in Int
      BY <3>1
    <3> QED
      BY <3>1, <3>2
  <2> QED
    BY <2>1 DEF AccountsTypeOK, Post
<1>3. lineNames' \in [Players -> [RaidRefs -> SUBSET Names]]
  <2>1. ASSUME NEW p \in DOMAIN delta
        PROVE  [lineNames[p] EXCEPT ![ref.id] = @ \cup ref.names]
                 \in [RaidRefs -> SUBSET Names]
    BY DEF AccountsTypeOK, RaidRef
  <2> QED
    BY <2>1 DEF AccountsTypeOK, Post
<1> QED
  BY <1>1, <1>2, <1>3 DEF AccountsTypeOK

\* The active raid, as log lines name it, has the type of a reference.
LEMMA ActiveRefType ==
  ASSUME RaidsTypeOK
  PROVE  ActiveRef \in RaidRef
BY DEF RaidsTypeOK, ActiveRef, RefOf, NoRef, RaidRef, RaidRefs, Raid

\* Events get numbers in Nat.
LEMMA EmitType ==
  ASSUME seq \in Nat, NEW n \in Nat, Emit(n)
  PROVE  seq' \in Nat
BY DEF Emit

\* The steps of the accounts keep the accounts' types.
LEMMA AccountsStepType ==
  ASSUME AccountsTypeOK, NEW ref \in RaidRef, AccountsStep(ref)
  PROVE  AccountsTypeOK'
<1>1. ASSUME NEW p \in Players, NEW c \in Characters, LinkCharacter(p, c)
      PROVE  AccountsTypeOK'
  BY <1>1 DEF AccountsTypeOK, LinkCharacter, Emit
<1>2. ASSUME NEW p \in Players, NEW d \in Deltas, AdjustDkp(p, d, ref)
      PROVE  AccountsTypeOK'
  <2>1. /\ Post([q \in {p} |-> d], ref, "adjust")
        /\ UNCHANGED owner /\ Emit(1)
    BY <1>2 DEF AdjustDkp
  <2>2. d \in Int /\ seq' \in Nat
    BY <2>1, DeltasAssumption DEF AccountsTypeOK, Emit
  <2> QED
    BY <2>1, <2>2, PostType DEF LineKinds
<1>3. ASSUME NEW c \in Characters, NEW d \in Deltas, AdjustByCharacter(c, d, ref)
      PROVE  AccountsTypeOK'
  <2>1. owner[c] \in Players /\ AdjustDkp(owner[c], d, ref)
    BY <1>3 DEF AccountsTypeOK, AdjustByCharacter
  <2> QED
    BY <2>1, <1>2
<1> QED
  BY <1>1, <1>2, <1>3 DEF AccountsStep

\* What an award leaves of the accounts and the raids.
LEMMA AwardType ==
  ASSUME AccountsTypeOK, RaidsTypeOK,
         NEW raid \in Raid, NEW ref \in RaidRef, ref.id \in RaidIds,
         NEW n \in Nat, NEW kind \in {"Start", "Tick", "Award", "End"},
         NEW present \in SUBSET Players, NEW amount \in Nat,
         Award(raid, ref, n, kind, present, amount),
         UNCHANGED owner, seq' \in Nat
  PROVE  AccountsTypeOK' /\ raids' \in [RaidIds -> Raid]
<1>1. AccountsTypeOK'
  <2>1. CASE amount # 0
    <3>1. Post([p \in present |-> amount], ref, "award")
      BY <2>1 DEF Award
    <3> QED
      BY <3>1, PostType DEF LineKinds
  <2>2. CASE amount = 0
    <3>1. UNCHANGED <<members, balance, history, lineNames>>
      BY <2>2 DEF Award
    <3> QED
      BY <3>1 DEF AccountsTypeOK
  <2> QED
    BY <2>1, <2>2
<1>2. raids' \in [RaidIds -> Raid]
  <2> DEFINE e == [seq |-> n, kind |-> kind, ts |-> now, players |-> present,
                   amount |-> amount]
             new == [raid EXCEPT !.entries = raid.entries \cup {e}]
  <2>1. e \in Entry
    BY DEF Entry, RaidsTypeOK
  <2>2. new \in Raid
    BY <2>1 DEF Raid
  <2>3. raids' = [raids EXCEPT ![ref.id] = new]
    BY DEF Award
  <2> QED
    BY <2>2, <2>3 DEF RaidsTypeOK
<1> QED
  BY <1>1, <1>2

\* A reference to a raid has its type.
LEMMA RefOfType ==
  ASSUME RaidsTypeOK, NEW r \in RaidIds
  PROVE  RefOf(r) \in RaidRef /\ RefOf(r).id = r
BY DEF RaidsTypeOK, RefOf, RaidRef, RaidRefs, Raid

\* The steps of the raids keep the types of the accounts and the raids.
LEMMA RaidStepType ==
  ASSUME AccountsTypeOK, RaidsTypeOK, RaidStep
  PROVE  AccountsTypeOK' /\ RaidsTypeOK'
<1> USE DEF RaidRefs
<1>1. ASSUME NEW r \in RaidIds, NEW name \in Names, NEW d \in TickDkps,
             NEW S \in SUBSET Players, StartRaid(r, name, d, S)
      PROVE  AccountsTypeOK' /\ RaidsTypeOK'
  <2> DEFINE raid == NewRaid(name, d, "active")
             ref  == [id |-> r, names |-> {name}]
  <2>1. /\ Award(raid, ref, seq + 1, "Start", S, d)
        /\ activeRaid' = r /\ Emit(2) /\ UNCHANGED <<owner, now>>
    BY <1>1 DEF StartRaid
  <2>2. raid \in Raid /\ ref \in RaidRef /\ ref.id \in RaidIds /\ d \in Nat
    BY TickDkpsAssumption DEF NewRaid, Raid, RaidRef
  <2>3. seq + 1 \in Nat /\ seq' \in Nat
    BY <2>1 DEF AccountsTypeOK, Emit
  <2> HIDE DEF raid, ref
  <2>4. AccountsTypeOK' /\ raids' \in [RaidIds -> Raid]
    BY <2>1, <2>2, <2>3, AwardType
  <2> QED
    BY <2>1, <2>4 DEF RaidsTypeOK
<1>2. ASSUME NEW S \in SUBSET Players, Tick(S)
      PROVE  AccountsTypeOK' /\ RaidsTypeOK'
  <2> DEFINE was  == raids[activeRaid]
             raid == [was EXCEPT !.tickNo = was.tickNo + 1]
             ref  == RefOf(activeRaid)
  <2>1. /\ activeRaid \in RaidIds
        /\ Award(raid, ref, seq, "Tick", S, was.perTick)
        /\ Emit(1) /\ UNCHANGED <<owner, activeRaid, now>>
    BY <1>2 DEF Tick, RaidsTypeOK
  <2>2. was \in Raid
    BY <2>1 DEF RaidsTypeOK
  <2>3. raid \in Raid /\ was.perTick \in Nat
    BY <2>2 DEF Raid
  <2>4. ref \in RaidRef /\ ref.id \in RaidIds
    BY <2>1, RefOfType
  <2>5. seq \in Nat /\ seq' \in Nat
    BY <2>1 DEF AccountsTypeOK, Emit
  <2> HIDE DEF was, raid, ref
  <2>6. AccountsTypeOK' /\ raids' \in [RaidIds -> Raid]
    BY <2>1, <2>3, <2>4, <2>5, AwardType
  <2> QED
    BY <2>1, <2>6 DEF RaidsTypeOK
<1>3. ASSUME NEW S \in SUBSET Players, EndRaid(S)
      PROVE  AccountsTypeOK' /\ RaidsTypeOK'
  <2> DEFINE was  == raids[activeRaid]
             raid == [was EXCEPT !.status = "ended"]
             ref  == RefOf(activeRaid)
  <2>1. /\ activeRaid \in RaidIds
        /\ Award(raid, ref, seq, "End", S, 0)
        /\ activeRaid' = NoRaid /\ Emit(2) /\ UNCHANGED <<owner, now>>
    BY <1>3 DEF EndRaid, RaidsTypeOK
  <2>2. was \in Raid
    BY <2>1 DEF RaidsTypeOK
  <2>3. raid \in Raid
    BY <2>2 DEF Raid
  <2>4. ref \in RaidRef /\ ref.id \in RaidIds
    BY <2>1, RefOfType
  <2>5. seq \in Nat /\ seq' \in Nat
    BY <2>1 DEF AccountsTypeOK, Emit
  <2> HIDE DEF was, raid, ref
  <2>6. AccountsTypeOK' /\ raids' \in [RaidIds -> Raid]
    BY <2>1, <2>3, <2>4, <2>5, AwardType
  <2> QED
    BY <2>1, <2>6 DEF RaidsTypeOK
<1>4. ASSUME NEW S \in SUBSET Players, NEW a \in Awards, AwardRaid(S, a)
      PROVE  AccountsTypeOK' /\ RaidsTypeOK'
  <2> DEFINE raid == raids[activeRaid]
             ref  == RefOf(activeRaid)
  <2>1. /\ activeRaid \in RaidIds
        /\ Award(raid, ref, seq, "Award", S, a)
        /\ Emit(1) /\ UNCHANGED <<owner, activeRaid, now>>
    BY <1>4 DEF AwardRaid, RaidsTypeOK
  <2>2. raid \in Raid /\ a \in Nat
    BY <2>1, AwardsAssumption DEF RaidsTypeOK
  <2>3. ref \in RaidRef /\ ref.id \in RaidIds
    BY <2>1, RefOfType
  <2>4. seq \in Nat /\ seq' \in Nat
    BY <2>1 DEF AccountsTypeOK, Emit
  <2> HIDE DEF raid, ref
  <2>5. AccountsTypeOK' /\ raids' \in [RaidIds -> Raid]
    BY <2>1, <2>2, <2>3, <2>4, AwardType
  <2> QED
    BY <2>1, <2>5 DEF RaidsTypeOK
<1>5. ASSUME NEW from \in RaidIds, NEW into \in RaidIds, MergeRaid(from, into)
      PROVE  AccountsTypeOK' /\ RaidsTypeOK'
  <2>1. raids' \in [RaidIds -> Raid]
    <3>1. Joined(from, into) \in Raid /\ Gone(from) \in Raid
      <4>1. raids[from] \in Raid /\ raids[into] \in Raid
        BY DEF RaidsTypeOK
      <4> QED
        BY <4>1 DEF Joined, Gone, Raid
    <3> QED
      BY <1>5, <3>1 DEF MergeRaid, RaidsTypeOK
  <2>2. history' \in [Players -> [RaidRefs -> [LineKinds -> Int]]]
    <3> DEFINE sum(p)  == [k \in LineKinds |-> history[p][into][k] + history[p][from][k]]
               zero == [k \in LineKinds |-> 0]
    <3>1. ASSUME NEW p \in Players
          PROVE  /\ history[p] \in [RaidRefs -> [LineKinds -> Int]]
                 /\ sum(p) \in [LineKinds -> Int]
      <4>1. history[p] \in [RaidRefs -> [LineKinds -> Int]]
        BY DEF AccountsTypeOK
      <4>2. history[p][into] \in [LineKinds -> Int] /\ history[p][from] \in [LineKinds -> Int]
        BY <4>1
      <4> QED
        BY <4>1, <4>2
    <3>2. zero \in [LineKinds -> Int]
      OBVIOUS
    <3>3. history' = [p \in Players |->
                        [history[p] EXCEPT ![into] = sum(p), ![from] = zero]]
      BY <1>5 DEF MergeRaid
    <3> HIDE DEF sum, zero
    <3>4. ASSUME NEW p \in Players
          PROVE  [history[p] EXCEPT ![into] = sum(p), ![from] = zero]
                   \in [RaidRefs -> [LineKinds -> Int]]
      BY <3>1, <3>2
    <3> QED
      BY <3>3, <3>4
  <2>3. lineNames' \in [Players -> [RaidRefs -> SUBSET Names]]
    <3> DEFINE both(p) == lineNames[p][into] \cup
                            (IF lineNames[p][from] = {} THEN {} ELSE {raids[into].name})
    <3>1. ASSUME NEW p \in Players
          PROVE  /\ lineNames[p] \in [RaidRefs -> SUBSET Names]
                 /\ both(p) \in SUBSET Names
      BY DEF AccountsTypeOK, RaidsTypeOK, Raid
    <3>2. lineNames' = [p \in Players |->
                          [lineNames[p] EXCEPT ![into] = both(p), ![from] = {}]]
      BY <1>5 DEF MergeRaid
    <3> HIDE DEF both
    <3>3. ASSUME NEW p \in Players
          PROVE  [lineNames[p] EXCEPT ![into] = both(p), ![from] = {}]
                   \in [RaidRefs -> SUBSET Names]
      BY <3>1
    <3> QED
      BY <3>2, <3>3
  <2>4. UNCHANGED <<members, balance, owner, activeRaid, now>> /\ seq' \in Nat
    BY <1>5 DEF MergeRaid, Emit, AccountsTypeOK
  <2> QED
    BY <2>1, <2>2, <2>3, <2>4 DEF AccountsTypeOK, RaidsTypeOK
<1>6. ASSUME NEW r \in RaidIds, NEW K \in SUBSET Kills, RecordRaidKills(r, K)
      PROVE  AccountsTypeOK' /\ RaidsTypeOK'
  <2>1. raids' \in [RaidIds -> Raid]
    <3>1. raids[r] \in Raid /\ raids' = [raids EXCEPT ![r].kills = K]
      BY <1>6 DEF RecordRaidKills, RaidsTypeOK
    <3>2. [raids[r] EXCEPT !.kills = K] \in Raid
      BY <3>1 DEF Raid
    <3> QED
      BY <3>1, <3>2 DEF RaidsTypeOK
  <2>2. /\ UNCHANGED <<members, balance, owner, history, lineNames, activeRaid, now>>
        /\ seq' \in Nat
    BY <1>6 DEF RecordRaidKills, Emit, AccountsTypeOK
  <2> QED
    BY <2>1, <2>2 DEF AccountsTypeOK, RaidsTypeOK
<1>7. ASSUME NEW r \in RaidIds, NEW name \in Names, RenameRaid(r, name)
      PROVE  AccountsTypeOK' /\ RaidsTypeOK'
  <2>1. raids' \in [RaidIds -> Raid]
    <3>1. raids[r] \in Raid /\ raids' = [raids EXCEPT ![r].name = name]
      BY <1>7 DEF RenameRaid, RaidsTypeOK
    <3>2. [raids[r] EXCEPT !.name = name] \in Raid
      BY <3>1 DEF Raid
    <3> QED
      BY <3>1, <3>2 DEF RaidsTypeOK
  <2>2. lineNames' \in [Players -> [RaidRefs -> SUBSET Names]]
    BY <1>7 DEF RenameRaid, AccountsTypeOK
  <2>3. /\ UNCHANGED <<members, balance, owner, history, activeRaid, now>>
        /\ seq' \in Nat
    BY <1>7 DEF RenameRaid, Emit, AccountsTypeOK
  <2> QED
    BY <2>1, <2>2, <2>3 DEF AccountsTypeOK, RaidsTypeOK
<1>8. ASSUME Clock
      PROVE  AccountsTypeOK' /\ RaidsTypeOK'
  BY <1>8 DEF Clock, accountVars, AccountsTypeOK, RaidsTypeOK
<1> QED
  BY <1>1, <1>2, <1>3, <1>4, <1>5, <1>6, <1>7, <1>8 DEF RaidStep

\* Adding or replacing the entry of one player keeps a partial function one.
LEMMA PutType ==
  ASSUME NEW T, NEW f, IsPartial(f, T), NEW p \in Players, NEW v \in T
  PROVE  IsPartial(Put(f, p, v), T)
BY DEF IsPartial, Put

\* What an officer may put up becomes well-formed terms.
LEMMA TermsType ==
  ASSUME NEW offer \in Offers, offer.minBid >= 0, offer.rollCost >= 0
  PROVE  TermsOf(offer) \in Terms
<1> DEFINE roll == offer.flavor = "roll"
           knob(v) == IF roll THEN 0 ELSE v
           minBid == knob(offer.minBid)
           lock == knob(offer.lock)
           over == knob(offer.over)
           items == IF offer.numItems = 0 THEN 1 ELSE offer.numItems
           debit == IF roll THEN offer.rollCost > 0 ELSE offer.debit
<1>1. offer \in Offer
  BY OffersAssumption
<1>2. /\ minBid \in Nat /\ lock \in Int /\ over \in Int /\ items \in Nat
      /\ offer.rollCost \in Nat
  BY <1>1 DEF Offer
<1>3. debit \in BOOLEAN
  <2>1. offer.debit \in BOOLEAN
    BY <1>1 DEF Offer
  <2>2. (offer.rollCost > 0) \in BOOLEAN
    OBVIOUS
  <2> QED
    BY <2>1, <2>2, Zenon
<1>4. TermsOf(offer) = [offer EXCEPT !.minBid = minBid, !.lock = lock,
                          !.over = over, !.numItems = items, !.debit = debit]
  BY DEF TermsOf
<1> HIDE DEF minBid, lock, over, items, debit
<1>5. TermsOf(offer) =
        [flavor |-> offer.flavor, minBid |-> minBid, numItems |-> items,
         lock |-> lock, over |-> over, debit |-> debit,
         rollCost |-> offer.rollCost, rollers |-> offer.rollers]
  BY <1>1, <1>4 DEF Offer
<1> QED
  BY <1>1, <1>2, <1>3, <1>5 DEF Terms, Offer

\* An auction without bids has its type.
LEMMA UnopenedType ==
  ASSUME NEW status \in {"none", "open"}, NEW terms \in Terms
  PROVE  IsAuction(Unopened(status, terms))
BY DEF IsAuction, Unopened, IsPartial, None

\* Winners and prices have their type, whatever the draw.
LEMMA WinnersType ==
  ASSUME AuctionsTypeOK, NEW a \in AuctionIds, NEW seed
  PROVE  IsPartial(WinnersOf(a, seed), Int)
<1> DEFINE x == auctions[a]
           won == WinnersOf(a, seed)
<1>1. /\ x.terms.rollCost \in Nat
      /\ DOMAIN x.rolls \subseteq Players
      /\ DOMAIN x.bids \subseteq Players
      /\ \A p \in DOMAIN x.bids : x.bids[p].amount \in Int
  BY DEF AuctionsTypeOK, IsAuction, IsPartial, Terms, Bid
<1>2. ValidBidders(a) \subseteq DOMAIN x.bids
  BY DEF ValidBidders
<1>3. won = WinnersAmong(x, ValidBidders(a), seed)
  BY DEF WinnersOf
<1> HIDE DEF x, won
<1>4. CASE x.terms.flavor = "roll"
  <2>1. /\ DOMAIN won \subseteq DOMAIN x.rolls
        /\ won = [p \in DOMAIN won |-> x.terms.rollCost]
    BY <1>3, <1>4, WinnersPrice
  <2> QED
    BY <1>1, <2>1 DEF IsPartial, won
<1>5. CASE x.terms.flavor # "roll"
  <2>1. /\ DOMAIN won \subseteq ValidBidders(a)
        /\ won = [p \in DOMAIN won |-> x.bids[p].amount]
    BY <1>3, <1>5, WinnersPrice
  <2> QED
    BY <1>1, <1>2, <2>1 DEF IsPartial, won
<1> QED
  BY <1>4, <1>5

\* Replacing one auction by a well-formed one.
LEMMA OneAuctionType ==
  ASSUME AuctionsTypeOK, NEW a \in AuctionIds, NEW x, IsAuction(x),
         auctions' = [auctions EXCEPT ![a] = x]
  PROVE  AuctionsTypeOK'
BY DEF AuctionsTypeOK

\* What the steps of an auction leave of the rest of the ledger.
LEMMA QuietStep ==
  ASSUME AccountsTypeOK, RaidsTypeOK, Emit(1),
         UNCHANGED <<members, balance, owner, history, lineNames, raidVars>>
  PROVE  AccountsTypeOK' /\ RaidsTypeOK'
BY DEF AccountsTypeOK, RaidsTypeOK, Emit, raidVars

\* The steps of the auctions keep every type.
LEMMA AuctionStepType ==
  ASSUME LedgerTypeOK, AuctionStep
  PROVE  LedgerTypeOK'
<1> USE DEF LedgerTypeOK
<1> DEFINE quiet == /\ Emit(1)
                    /\ UNCHANGED <<members, balance, owner, history, lineNames,
                                   raidVars>>
<1>0. \A a \in AuctionIds : IsAuction(auctions[a])
  BY DEF AuctionsTypeOK
<1>1. ASSUME NEW a \in AuctionIds, NEW o \in Offers, OpenAuction(a, o)
      PROVE  LedgerTypeOK'
  <2>1. TermsOf(o) \in Terms
    BY <1>1, TermsType DEF OpenAuction
  <2>2. IsAuction(Unopened("open", TermsOf(o)))
    BY <2>1, UnopenedType
  <2>3. quiet /\ auctions' = [auctions EXCEPT ![a] = Unopened("open", TermsOf(o))]
    BY <1>1 DEF OpenAuction
  <2> QED
    BY <2>2, <2>3, QuietStep, OneAuctionType
<1>2. ASSUME NEW p \in Players, NEW a \in AuctionIds, NEW m \in Amounts,
             NEW side \in BOOLEAN, NEW att \in Attendances,
             PlaceBid(p, a, m, side, att)
      PROVE  LedgerTypeOK'
  <2> DEFINE b == [amount |-> m, main |-> LandsMain(side, att), attendance |-> att]
             bids == Put(auctions[a].bids, p, b)
             x == [auctions[a] EXCEPT !.bids = bids]
  <2>1. b \in Bid
    <3>1. LandsMain(side, att) \in BOOLEAN
      BY Zenon DEF LandsMain
    <3> QED
      BY <3>1, AmountsAssumption DEF Bid
  <2>2. quiet /\ auctions' = [auctions EXCEPT ![a] = x]
    BY <1>2 DEF PlaceBid
  <2> HIDE DEF b
  <2>3. IsPartial(bids, Bid)
    BY <1>0, <2>1, PutType DEF IsAuction
  <2> HIDE DEF bids
  <2>4. IsAuction(x)
    BY <1>0, <2>3 DEF IsAuction
  <2> HIDE DEF x
  <2> QED
    BY <2>2, <2>4, QuietStep, OneAuctionType
<1>3. ASSUME NEW p \in Players, NEW a \in AuctionIds, RetractBid(p, a)
      PROVE  LedgerTypeOK'
  <2> DEFINE bids == [q \in DOMAIN auctions[a].bids \ {p} |-> auctions[a].bids[q]]
             x == [auctions[a] EXCEPT !.bids = bids]
  <2>1. quiet /\ auctions' = [auctions EXCEPT ![a] = x]
    BY <1>3 DEF RetractBid
  <2>2. IsPartial(bids, Bid)
    BY <1>0 DEF IsAuction, IsPartial
  <2> HIDE DEF bids
  <2>3. IsAuction(x)
    BY <1>0, <2>2 DEF IsAuction
  <2> HIDE DEF x
  <2> QED
    BY <2>1, <2>3, QuietStep, OneAuctionType
<1>4. ASSUME NEW p \in Players, NEW a \in AuctionIds, NEW r \in 1 .. MaxRoll,
             RollForAuction(p, a, r)
      PROVE  LedgerTypeOK'
  <2> DEFINE rolls == Put(auctions[a].rolls, p, r)
             x == [auctions[a] EXCEPT !.rolls = rolls]
  <2>1. quiet /\ auctions' = [auctions EXCEPT ![a] = x]
    BY <1>4 DEF RollForAuction
  <2>2. IsPartial(rolls, 1 .. MaxRoll)
    BY <1>0, PutType DEF IsAuction
  <2> HIDE DEF rolls
  <2>3. IsAuction(x)
    BY <1>0, <2>2 DEF IsAuction
  <2> HIDE DEF x
  <2> QED
    BY <2>1, <2>3, QuietStep, OneAuctionType
<1>5. ASSUME NEW a \in AuctionIds, NEW s \in Seeds, CloseAuction(a, s)
      PROVE  LedgerTypeOK'
  <2> DEFINE won == WinnersOf(a, s)
             valid == ValidBidders(a)
             x == [auctions[a] EXCEPT !.status = "closed", !.seed = s,
                                      !.proposed = won, !.validThen = valid]
  <2>1. quiet /\ auctions' = [auctions EXCEPT ![a] = x]
    BY <1>5 DEF CloseAuction
  <2>2. IsPartial(won, Int)
    BY WinnersType
  <2>3. valid \subseteq Players
    BY <1>0 DEF ValidBidders, IsAuction, IsPartial
  <2> HIDE DEF won, valid
  <2>4. IsAuction(x)
    BY <1>0, <2>2, <2>3 DEF IsAuction
  <2> HIDE DEF x
  <2> QED
    BY <2>1, <2>4, QuietStep, OneAuctionType
<1>6. ASSUME NEW a \in AuctionIds, FinalizeAuction(a)
      PROVE  LedgerTypeOK'
  <2> DEFINE won == WinnersOf(a, auctions[a].seed)
             delta == [p \in DOMAIN won |->
                         - (IF auctions[a].terms.debit THEN won[p] ELSE 0)]
             x == [auctions[a] EXCEPT !.status = "finalized", !.winners = won]
  <2>1. /\ auctions' = [auctions EXCEPT ![a] = x]
        /\ Post(delta, ActiveRef, "loot")
        /\ UNCHANGED <<owner, raidVars>>
    BY <1>6 DEF FinalizeAuction
  <2>2. seq' \in Nat
    BY <1>6 DEF FinalizeAuction, Emit, AccountsTypeOK
  <2>3. IsPartial(won, Int)
    BY WinnersType
  <2> HIDE DEF won
  <2>4. IsAuction(x)
    BY <1>0, <2>3 DEF IsAuction
  <2>5. DOMAIN delta \subseteq Players /\ \A p \in DOMAIN delta : delta[p] \in Int
    BY <2>3 DEF IsPartial
  <2>6. ActiveRef \in RaidRef
    BY ActiveRefType
  <2> HIDE DEF delta, x
  <2>7. AccountsTypeOK'
    BY <2>1, <2>2, <2>5, <2>6, PostType DEF LineKinds
  <2>8. RaidsTypeOK'
    BY <2>1 DEF RaidsTypeOK, raidVars
  <2> QED
    BY <2>1, <2>4, <2>7, <2>8, OneAuctionType
<1>7. ASSUME NEW a \in AuctionIds, CancelAuction(a)
      PROVE  LedgerTypeOK'
  <2> DEFINE x == [auctions[a] EXCEPT !.status = "cancelled"]
  <2>1. quiet /\ auctions' = [auctions EXCEPT ![a] = x]
    BY <1>7 DEF CancelAuction
  <2>2. IsAuction(x)
    BY <1>0 DEF IsAuction
  <2> HIDE DEF x
  <2> QED
    BY <2>1, <2>2, QuietStep, OneAuctionType
<1> QED
  BY <1>1, <1>2, <1>3, <1>4, <1>5, <1>6, <1>7 DEF AuctionStep

\* The ledger starts well typed.
LEMMA LedgerInitType == LedgerInit => LedgerTypeOK
<1> SUFFICES ASSUME LedgerInit PROVE LedgerTypeOK
  OBVIOUS
<1>1. AccountsTypeOK
  BY DEF LedgerInit, AccountsInit, AccountsTypeOK
<1>2. RaidsTypeOK
  BY NamesAssumption, ClockAssumption
     DEF LedgerInit, RaidsInit, RaidsTypeOK, NewRaid, Raid, RaidRefs, Time
<1>3. NoTerms \in Terms
  BY DEF NoTerms, Terms, Flavors
<1>4. AuctionsTypeOK
  BY <1>3, UnopenedType DEF LedgerInit, AuctionsInit, AuctionsTypeOK
<1> QED
  BY <1>1, <1>2, <1>4 DEF LedgerTypeOK

\* Every step of the ledger keeps it well typed.
LEMMA LedgerNextType == LedgerTypeOK /\ [LedgerNext]_ledgerVars => LedgerTypeOK'
<1> SUFFICES ASSUME LedgerTypeOK, [LedgerNext]_ledgerVars PROVE LedgerTypeOK'
  OBVIOUS
<1>1. CASE AccountsStep(ActiveRef) /\ UNCHANGED <<raidVars, auctions>>
  <2>1. AccountsTypeOK'
    BY <1>1, ActiveRefType, AccountsStepType DEF LedgerTypeOK
  <2> QED
    BY <1>1, <2>1 DEF LedgerTypeOK, RaidsTypeOK, AuctionsTypeOK, raidVars
<1>2. CASE RaidStep /\ UNCHANGED auctions
  <2>1. AccountsTypeOK' /\ RaidsTypeOK'
    BY <1>2, RaidStepType DEF LedgerTypeOK
  <2> QED
    BY <1>2, <2>1 DEF LedgerTypeOK, AuctionsTypeOK
<1>3. CASE AuctionStep
  BY <1>3, AuctionStepType
<1>4. CASE UNCHANGED ledgerVars
  BY <1>4 DEF ledgerVars, accountVars, raidVars, LedgerTypeOK, AccountsTypeOK,
              RaidsTypeOK, AuctionsTypeOK
<1> QED
  BY <1>1, <1>2, <1>3, <1>4 DEF LedgerNext

\* Accounts, raids and auctions keep their types through every command: no
\* charge, merge or draw puts a value where the code could not hold it.
THEOREM LedgerTypeCorrect == LedgerSpec => []LedgerTypeOK
BY LedgerInitType, LedgerNextType, PTL DEF LedgerSpec

-----------------------------------------------------------------------------
(* One active raid *)

\* The steps of the raids keep the pointer and the flag together.
LEMMA OneActiveRaidStep ==
  OneActiveRaid /\ LedgerTypeOK /\ [LedgerNext]_ledgerVars => OneActiveRaid'
<1> SUFFICES ASSUME OneActiveRaid, LedgerTypeOK, [LedgerNext]_ledgerVars
             PROVE  OneActiveRaid'
  OBVIOUS
<1> USE DEF OneActiveRaid
<1>0. raids \in [RaidIds -> Raid] /\ activeRaid \in RaidIds \cup {NoRaid}
  BY DEF LedgerTypeOK, RaidsTypeOK, RaidRefs
<1>1. CASE UNCHANGED <<raids, activeRaid>>
  BY <1>1
<1>2. ASSUME NEW r \in RaidIds, NEW name \in Names, NEW d \in TickDkps,
             NEW S \in SUBSET Players, StartRaid(r, name, d, S)
      PROVE  OneActiveRaid'
  <2>1. raids'[r].status = "active"
    BY <1>0, <1>2 DEF StartRaid, Award, NewRaid
  <2>2. \A s \in RaidIds \ {r} : raids'[s] = raids[s]
    BY <1>0, <1>2 DEF StartRaid, Award
  <2>3. activeRaid = NoRaid /\ activeRaid' = r
    BY <1>2 DEF StartRaid
  <2> QED
    BY <2>1, <2>2, <2>3, RaidIdsAssumption
<1>3. ASSUME NEW S \in SUBSET Players, Tick(S)
      PROVE  OneActiveRaid'
  <2>1. /\ activeRaid \in RaidIds /\ activeRaid' = activeRaid
        /\ raids'[activeRaid].status = raids[activeRaid].status
    BY <1>0, <1>3 DEF Tick, Award, RefOf, Raid
  <2>2. \A s \in RaidIds \ {activeRaid} : raids'[s] = raids[s]
    BY <1>0, <1>3 DEF Tick, Award, RefOf
  <2> QED
    BY <2>1, <2>2
<1>4. ASSUME NEW S \in SUBSET Players, EndRaid(S)
      PROVE  OneActiveRaid'
  <2>1. /\ activeRaid \in RaidIds /\ activeRaid' = NoRaid
        /\ raids'[activeRaid].status = "ended"
    BY <1>0, <1>4 DEF EndRaid, Award, RefOf, Raid
  <2>2. \A s \in RaidIds \ {activeRaid} : raids'[s] = raids[s]
    BY <1>0, <1>4 DEF EndRaid, Award, RefOf
  <2> QED
    BY <2>1, <2>2
<1>5. ASSUME NEW S \in SUBSET Players, NEW a \in Awards, AwardRaid(S, a)
      PROVE  OneActiveRaid'
  <2>1. /\ activeRaid \in RaidIds /\ activeRaid' = activeRaid
        /\ raids'[activeRaid].status = raids[activeRaid].status
    BY <1>0, <1>5 DEF AwardRaid, Award, RefOf, Raid
  <2>2. \A s \in RaidIds \ {activeRaid} : raids'[s] = raids[s]
    BY <1>0, <1>5 DEF AwardRaid, Award, RefOf
  <2> QED
    BY <2>1, <2>2
<1>6. ASSUME NEW from \in RaidIds, NEW into \in RaidIds, MergeRaid(from, into)
      PROVE  OneActiveRaid'
  <2>1. /\ raids[from].status = "ended" /\ raids[into].status = "ended"
        /\ from # into /\ activeRaid' = activeRaid
    BY <1>6 DEF MergeRaid
  <2>2. raids'[into].status = "ended" /\ raids'[from].status = "gone"
    <3>1. raids'[into] = Joined(from, into) /\ raids'[from] = Gone(from)
      BY <1>0, <1>6 DEF MergeRaid
    <3>2. raids[into] \in Raid /\ raids[from] \in Raid
      BY <1>0
    <3> QED
      BY <2>1, <3>1, <3>2 DEF Joined, Gone, Raid
  <2>3. \A s \in RaidIds \ {from, into} : raids'[s] = raids[s]
    BY <1>0, <1>6 DEF MergeRaid
  <2> QED
    BY <2>1, <2>2, <2>3
<1>7. ASSUME NEW r \in RaidIds, NEW K \in SUBSET Kills, RecordRaidKills(r, K)
      PROVE  OneActiveRaid'
  <2>1. activeRaid' = activeRaid /\ raids' = [raids EXCEPT ![r].kills = K]
    BY <1>7 DEF RecordRaidKills
  <2>2. \A s \in RaidIds : raids'[s].status = raids[s].status
    BY <1>0, <2>1 DEF Raid
  <2> QED
    BY <2>1, <2>2
<1>8. ASSUME NEW r \in RaidIds, NEW name \in Names, RenameRaid(r, name)
      PROVE  OneActiveRaid'
  <2>1. activeRaid' = activeRaid /\ raids' = [raids EXCEPT ![r].name = name]
    BY <1>8 DEF RenameRaid
  <2>2. \A s \in RaidIds : raids'[s].status = raids[s].status
    BY <1>0, <2>1 DEF Raid
  <2> QED
    BY <2>1, <2>2
<1>9. CASE RaidStep
  <2>1. Clock => UNCHANGED <<raids, activeRaid>>
    BY DEF Clock
  <2> QED
    BY <1>1, <1>2, <1>3, <1>4, <1>5, <1>6, <1>7, <1>8, <1>9, <2>1 DEF RaidStep
<1>10. CASE AuctionStep
  <2>1. UNCHANGED raidVars
    BY <1>10 DEF AuctionStep, OpenAuction, PlaceBid, RetractBid, RollForAuction,
                 CloseAuction, FinalizeAuction, CancelAuction
  <2> QED
    BY <1>1, <2>1 DEF raidVars
<1> QED
  BY <1>1, <1>9, <1>10 DEF LedgerNext, ledgerVars, raidVars

\* At most one raid is active, and active_raid names it.
THEOREM OneActiveRaidAlways == LedgerSpec => []OneActiveRaid
<1>1. LedgerInit => OneActiveRaid
  BY DEF LedgerInit, RaidsInit, NewRaid, OneActiveRaid
<1> QED
  BY <1>1, OneActiveRaidStep, LedgerTypeCorrect, PTL DEF LedgerSpec

-----------------------------------------------------------------------------
(* Auctions only move forward *)

\* What one step may do to one auction.
AuctionMoves(was, is) ==
  /\ was.status = "open" => is.status # "none"
  /\ was.status = "closed" =>
       /\ is.status \in {"closed", "finalized", "cancelled"}
       /\ is.bids = was.bids /\ is.rolls = was.rolls /\ is.seed = was.seed
  /\ was.status \in {"finalized", "cancelled"} => is = was

\* A step of the ledger changes at most one auction, and that one forward.
LEMMA AuctionStepMoves ==
  ASSUME LedgerTypeOK, LedgerNext, NEW c \in AuctionIds
  PROVE  AuctionMoves(auctions[c], auctions'[c])
<1> USE DEF HasStatus
<1>0. /\ auctions = [b \in AuctionIds |-> auctions[b]]
      /\ \A b \in AuctionIds :
           /\ IsAuction(auctions[b])
           /\ auctions[b].status \in {"none", "open", "closed", "finalized", "cancelled"}
  BY DEF LedgerTypeOK, AuctionsTypeOK, IsAuction
<1>1. CASE UNCHANGED auctions
  BY <1>1, <1>0 DEF AuctionMoves
<1>2. ASSUME NEW a \in AuctionIds, NEW x, auctions' = [auctions EXCEPT ![a] = x],
             AuctionMoves(auctions[a], x)
      PROVE  AuctionMoves(auctions[c], auctions'[c])
  <2>1. CASE c = a
    BY <1>0, <1>2, <2>1
  <2>2. CASE c # a
    <3>1. auctions'[c] = auctions[c]
      BY <1>0, <1>2, <2>2
    <3> QED
      BY <1>0, <3>1 DEF AuctionMoves
  <2> QED
    BY <2>1, <2>2
<1>3. ASSUME NEW a \in AuctionIds, NEW o \in Offers, OpenAuction(a, o)
      PROVE  AuctionMoves(auctions[c], auctions'[c])
  BY <1>2, <1>3 DEF OpenAuction, AuctionMoves
<1>4. ASSUME NEW p \in Players, NEW a \in AuctionIds, NEW m \in Amounts,
             NEW side \in BOOLEAN, NEW att \in Attendances,
             PlaceBid(p, a, m, side, att)
      PROVE  AuctionMoves(auctions[c], auctions'[c])
  <2> DEFINE bids == Put(auctions[a].bids, p, [amount |-> m,
                         main |-> LandsMain(side, att), attendance |-> att])
             x == [auctions[a] EXCEPT !.bids = bids]
  <2>1. /\ auctions' = [auctions EXCEPT ![a] = x]
        /\ auctions[a].status = "open"
    BY <1>4 DEF PlaceBid
  <2> HIDE DEF bids
  <2>2. AuctionMoves(auctions[a], x)
    BY <1>0, <2>1 DEF AuctionMoves, IsAuction
  <2> QED
    BY <1>2, <2>1, <2>2
<1>5. ASSUME NEW p \in Players, NEW a \in AuctionIds, RetractBid(p, a)
      PROVE  AuctionMoves(auctions[c], auctions'[c])
  <2> DEFINE bids == [q \in DOMAIN auctions[a].bids \ {p} |-> auctions[a].bids[q]]
             x == [auctions[a] EXCEPT !.bids = bids]
  <2>1. /\ auctions' = [auctions EXCEPT ![a] = x]
        /\ auctions[a].status = "open"
    BY <1>5 DEF RetractBid
  <2> HIDE DEF bids
  <2>2. AuctionMoves(auctions[a], x)
    BY <1>0, <2>1 DEF AuctionMoves, IsAuction
  <2> QED
    BY <1>2, <2>1, <2>2
<1>6. ASSUME NEW p \in Players, NEW a \in AuctionIds, NEW r \in 1 .. MaxRoll,
             RollForAuction(p, a, r)
      PROVE  AuctionMoves(auctions[c], auctions'[c])
  <2> DEFINE rolls == Put(auctions[a].rolls, p, r)
             x == [auctions[a] EXCEPT !.rolls = rolls]
  <2>1. /\ auctions' = [auctions EXCEPT ![a] = x]
        /\ auctions[a].status = "open"
    BY <1>6 DEF RollForAuction
  <2> HIDE DEF rolls
  <2>2. AuctionMoves(auctions[a], x)
    BY <1>0, <2>1 DEF AuctionMoves, IsAuction
  <2> QED
    BY <1>2, <2>1, <2>2
<1>7. ASSUME NEW a \in AuctionIds, NEW s \in Seeds, CloseAuction(a, s)
      PROVE  AuctionMoves(auctions[c], auctions'[c])
  <2> DEFINE won == WinnersOf(a, s)
             valid == ValidBidders(a)
             x == [auctions[a] EXCEPT !.status = "closed", !.seed = s,
                                      !.proposed = won, !.validThen = valid]
  <2>1. /\ auctions' = [auctions EXCEPT ![a] = x]
        /\ auctions[a].status = "open"
    BY <1>7 DEF CloseAuction
  <2> HIDE DEF won, valid
  <2>2. x.status = "closed"
    BY <1>0 DEF IsAuction
  <2>3. AuctionMoves(auctions[a], x)
    BY <2>1, <2>2 DEF AuctionMoves
  <2> QED
    BY <1>2, <2>1, <2>3
<1>8. ASSUME NEW a \in AuctionIds, FinalizeAuction(a)
      PROVE  AuctionMoves(auctions[c], auctions'[c])
  <2> DEFINE won == WinnersOf(a, auctions[a].seed)
             x == [auctions[a] EXCEPT !.status = "finalized", !.winners = won]
  <2>1. /\ auctions' = [auctions EXCEPT ![a] = x]
        /\ auctions[a].status = "closed"
    BY <1>8 DEF FinalizeAuction
  <2> HIDE DEF won
  <2>2. /\ x.status = "finalized"
        /\ x.bids = auctions[a].bids /\ x.rolls = auctions[a].rolls
        /\ x.seed = auctions[a].seed
    BY <1>0 DEF IsAuction
  <2>3. AuctionMoves(auctions[a], x)
    BY <2>1, <2>2 DEF AuctionMoves
  <2> QED
    BY <1>2, <2>1, <2>3
<1>9. ASSUME NEW a \in AuctionIds, CancelAuction(a)
      PROVE  AuctionMoves(auctions[c], auctions'[c])
  <2> DEFINE x == [auctions[a] EXCEPT !.status = "cancelled"]
  <2>1. /\ auctions' = [auctions EXCEPT ![a] = x]
        /\ auctions[a].status \in {"open", "closed"}
    BY <1>9 DEF CancelAuction
  <2>2. AuctionMoves(auctions[a], x)
    BY <1>0, <2>1 DEF AuctionMoves, IsAuction
  <2> QED
    BY <1>2, <2>1, <2>2
<1> QED
  BY <1>1, <1>3, <1>4, <1>5, <1>6, <1>7, <1>8, <1>9 DEF LedgerNext, AuctionStep

\* No auction goes back, and what decides it stands still once the bidding
\* stopped: a second close, a late bid or a cancelled draw changes nothing.
THEOREM SettledAuctionsStay == LedgerSpec => SettledStays
<1> DEFINE Moves == \A a \in AuctionIds : AuctionMoves(auctions[a], auctions'[a])
<1>1. LedgerTypeOK /\ LedgerNext => Moves
  BY AuctionStepMoves
<1>2. SettledStays <=> [][Moves]_ledgerVars
  BY DEF SettledStays, AuctionMoves
<1> QED
  BY <1>1, <1>2, LedgerTypeCorrect, PTL DEF LedgerSpec

-----------------------------------------------------------------------------
(* Charged as proposed *)

\* A step that is not the close of an auction leaves none newly closed, and
\* keeps what it is to be decided by.
OtherStep(a, x) ==
  /\ auctions' = [auctions EXCEPT ![a] = x]
  /\ x.status \in {"open", "cancelled"}
  /\ \/ x.terms = auctions[a].terms
     \/ \E o \in Offers : o.rollCost >= 0 /\ x.terms = TermsOf(o)

\* The ways in which a step of the ledger touches the auctions.
LEMMA AuctionStepKinds ==
  ASSUME LedgerTypeOK, LedgerNext
  PROVE  \/ UNCHANGED auctions
         \/ \E a \in AuctionIds, s \in Seeds : CloseAuction(a, s)
         \/ \E a \in AuctionIds : FinalizeAuction(a)
         \/ \E a \in AuctionIds : \E x : OtherStep(a, x)
<1> USE DEF HasStatus
<1> DEFINE Other == \E a \in AuctionIds : \E x : OtherStep(a, x)
<1>0. \A b \in AuctionIds : IsAuction(auctions[b])
  BY DEF LedgerTypeOK, AuctionsTypeOK
<1>1. ASSUME NEW a \in AuctionIds, NEW o \in Offers, OpenAuction(a, o)
      PROVE  Other
  <2> DEFINE x == Unopened("open", TermsOf(o))
  <2>1. auctions' = [auctions EXCEPT ![a] = x] /\ o.rollCost >= 0
    BY <1>1 DEF OpenAuction
  <2>2. x.status = "open" /\ x.terms = TermsOf(o)
    BY DEF Unopened
  <2> HIDE DEF x
  <2> QED
    BY <2>1, <2>2 DEF OtherStep
<1>2. ASSUME NEW p \in Players, NEW a \in AuctionIds, NEW m \in Amounts,
             NEW side \in BOOLEAN, NEW att \in Attendances,
             PlaceBid(p, a, m, side, att)
      PROVE  Other
  <2> DEFINE bids == Put(auctions[a].bids, p, [amount |-> m,
                         main |-> LandsMain(side, att), attendance |-> att])
             x == [auctions[a] EXCEPT !.bids = bids]
  <2>1. /\ auctions' = [auctions EXCEPT ![a] = x]
        /\ auctions[a].status = "open"
    BY <1>2 DEF PlaceBid
  <2> HIDE DEF bids
  <2>2. x.status = "open" /\ x.terms = auctions[a].terms
    BY <1>0, <2>1 DEF IsAuction
  <2> HIDE DEF x
  <2> QED
    BY <2>1, <2>2 DEF OtherStep
<1>3. ASSUME NEW p \in Players, NEW a \in AuctionIds, RetractBid(p, a)
      PROVE  Other
  <2> DEFINE bids == [q \in DOMAIN auctions[a].bids \ {p} |-> auctions[a].bids[q]]
             x == [auctions[a] EXCEPT !.bids = bids]
  <2>1. /\ auctions' = [auctions EXCEPT ![a] = x]
        /\ auctions[a].status = "open"
    BY <1>3 DEF RetractBid
  <2> HIDE DEF bids
  <2>2. x.status = "open" /\ x.terms = auctions[a].terms
    BY <1>0, <2>1 DEF IsAuction
  <2> HIDE DEF x
  <2> QED
    BY <2>1, <2>2 DEF OtherStep
<1>4. ASSUME NEW p \in Players, NEW a \in AuctionIds, NEW r \in 1 .. MaxRoll,
             RollForAuction(p, a, r)
      PROVE  Other
  <2> DEFINE rolls == Put(auctions[a].rolls, p, r)
             x == [auctions[a] EXCEPT !.rolls = rolls]
  <2>1. /\ auctions' = [auctions EXCEPT ![a] = x]
        /\ auctions[a].status = "open"
    BY <1>4 DEF RollForAuction
  <2> HIDE DEF rolls
  <2>2. x.status = "open" /\ x.terms = auctions[a].terms
    BY <1>0, <2>1 DEF IsAuction
  <2> HIDE DEF x
  <2> QED
    BY <2>1, <2>2 DEF OtherStep
<1>5. ASSUME NEW a \in AuctionIds, CancelAuction(a)
      PROVE  Other
  <2> DEFINE x == [auctions[a] EXCEPT !.status = "cancelled"]
  <2>1. auctions' = [auctions EXCEPT ![a] = x]
    BY <1>5 DEF CancelAuction
  <2>2. x.status = "cancelled" /\ x.terms = auctions[a].terms
    BY <1>0 DEF IsAuction
  <2> HIDE DEF x
  <2> QED
    BY <2>1, <2>2 DEF OtherStep
<1> QED
  BY <1>1, <1>2, <1>3, <1>4, <1>5 DEF LedgerNext, AuctionStep

\* The proposal of a closed auction is what its own bids, rolls and seed lead
\* to, with the bids that were covered at the close.
ProposedFromClose ==
  \A a \in AuctionIds : HasStatus(a, "closed") =>
    auctions[a].proposed =
      WinnersAmong(auctions[a], auctions[a].validThen, auctions[a].seed)

\* It stays so: nothing touches a closed auction until it is settled.
LEMMA ProposedFromCloseStep ==
  ProposedFromClose /\ LedgerTypeOK /\ [LedgerNext]_ledgerVars
    => ProposedFromClose'
<1> SUFFICES ASSUME ProposedFromClose, LedgerTypeOK, [LedgerNext]_ledgerVars,
                    NEW c \in AuctionIds, auctions'[c].status = "closed"
             PROVE  auctions'[c].proposed =
                      WinnersAmong(auctions'[c], auctions'[c].validThen,
                                   auctions'[c].seed)
  BY DEF ProposedFromClose, HasStatus
<1>0. /\ auctions = [b \in AuctionIds |-> auctions[b]]
      /\ \A b \in AuctionIds : IsAuction(auctions[b])
  BY DEF LedgerTypeOK, AuctionsTypeOK
<1>1. CASE auctions'[c] = auctions[c]
  BY <1>1 DEF ProposedFromClose, HasStatus
<1>2. ASSUME NEW a \in AuctionIds, NEW s \in Seeds, CloseAuction(a, s)
      PROVE  auctions'[c].proposed =
               WinnersAmong(auctions'[c], auctions'[c].validThen,
                            auctions'[c].seed)
  <2> DEFINE won == WinnersOf(a, s)
             valid == ValidBidders(a)
             x == [auctions[a] EXCEPT !.status = "closed", !.seed = s,
                                      !.proposed = won, !.validThen = valid]
  <2>1. auctions' = [auctions EXCEPT ![a] = x]
    BY <1>2 DEF CloseAuction
  <2>2. CASE c # a
    BY <1>0, <1>1, <2>1, <2>2
  <2>3. CASE c = a
    <3>1. auctions'[c] = x
      BY <1>0, <2>1, <2>3
    <3>2. won = WinnersAmong(auctions[a], valid, s)
      BY DEF WinnersOf
    <3> HIDE DEF won, valid
    <3>3. /\ x.proposed = won /\ x.validThen = valid /\ x.seed = s
          /\ x.terms = auctions[a].terms /\ x.bids = auctions[a].bids
          /\ x.rolls = auctions[a].rolls
      BY <1>0 DEF IsAuction
    <3> HIDE DEF x
    <3>4. WinnersAmong(x, valid, s) = WinnersAmong(auctions[a], valid, s)
      BY <3>3 DEF WinnersAmong
    <3> QED
      BY <3>1, <3>2, <3>3, <3>4
  <2> QED
    BY <2>2, <2>3
<1>3. ASSUME NEW a \in AuctionIds, FinalizeAuction(a)
      PROVE  auctions'[c] = auctions[c]
  <2> DEFINE won == WinnersOf(a, auctions[a].seed)
             x == [auctions[a] EXCEPT !.status = "finalized", !.winners = won]
  <2>1. auctions' = [auctions EXCEPT ![a] = x]
    BY <1>3 DEF FinalizeAuction
  <2> HIDE DEF won
  <2>2. x.status = "finalized"
    BY <1>0 DEF IsAuction
  <2> HIDE DEF x
  <2> QED
    BY <1>0, <2>1, <2>2
<1>4. ASSUME NEW a \in AuctionIds, NEW x, OtherStep(a, x)
      PROVE  auctions'[c] = auctions[c]
  BY <1>0, <1>4 DEF OtherStep
<1>5. UNCHANGED ledgerVars => auctions'[c] = auctions[c]
  BY DEF ledgerVars
<1> QED
  BY <1>1, <1>2, <1>3, <1>4, <1>5, AuctionStepKinds

\* Settling charges the proposed winners, unless a bid is no longer covered.
LEMMA SettleAsProposed ==
  ASSUME ProposedFromClose, LedgerTypeOK, LedgerNext, NEW c \in AuctionIds,
         Settles(c), ValidBidders(c) = auctions[c].validThen
  PROVE  auctions'[c].winners = auctions[c].proposed
<1> USE DEF HasStatus
<1>0. /\ auctions = [b \in AuctionIds |-> auctions[b]]
      /\ \A b \in AuctionIds : IsAuction(auctions[b])
  BY DEF LedgerTypeOK, AuctionsTypeOK
<1>1. auctions[c].status = "closed" /\ auctions'[c].status = "finalized"
  BY DEF Settles
<1>2. ASSUME NEW a \in AuctionIds, FinalizeAuction(a)
      PROVE  auctions'[c].winners = auctions[c].proposed
  <2> DEFINE won == WinnersOf(a, auctions[a].seed)
             x == [auctions[a] EXCEPT !.status = "finalized", !.winners = won]
  <2>1. auctions' = [auctions EXCEPT ![a] = x]
    BY <1>2 DEF FinalizeAuction
  <2>2. a = c
    BY <1>0, <1>1, <2>1
  <2>3. won = auctions[c].proposed
    BY <1>1, <2>2 DEF ProposedFromClose, WinnersOf
  <2> HIDE DEF won
  <2>4. x.winners = won
    BY <1>0 DEF IsAuction
  <2> HIDE DEF x
  <2> QED
    BY <1>0, <2>1, <2>2, <2>3, <2>4
<1>3. ASSUME NEW a \in AuctionIds, NEW s \in Seeds, CloseAuction(a, s)
      PROVE  FALSE
  <2> DEFINE won == WinnersOf(a, s)
             valid == ValidBidders(a)
             x == [auctions[a] EXCEPT !.status = "closed", !.seed = s,
                                      !.proposed = won, !.validThen = valid]
  <2>1. auctions' = [auctions EXCEPT ![a] = x]
    BY <1>3 DEF CloseAuction
  <2> HIDE DEF won, valid
  <2>2. x.status = "closed"
    BY <1>0 DEF IsAuction
  <2> HIDE DEF x
  <2> QED
    BY <1>0, <1>1, <2>1, <2>2
<1>4. ASSUME NEW a \in AuctionIds, NEW x, OtherStep(a, x)
      PROVE  FALSE
  BY <1>0, <1>1, <1>4 DEF OtherStep
<1>5. auctions' # auctions
  BY <1>1
<1> QED
  BY <1>2, <1>3, <1>4, <1>5, AuctionStepKinds

\* The draw happens once, at the close: as long as the same bids are covered,
\* the members an officer's click charges are the ones the embed proposed.
THEOREM ProposedAreCharged == LedgerSpec => ChargedAsProposed
<1> DEFINE AsProposed ==
      \A a \in AuctionIds :
        Settles(a) /\ ValidBidders(a) = auctions[a].validThen =>
          auctions'[a].winners = auctions[a].proposed
<1>1. LedgerInit => ProposedFromClose
  BY DEF LedgerInit, AuctionsInit, Unopened, ProposedFromClose, HasStatus
<1>2. ProposedFromClose /\ LedgerTypeOK /\ LedgerNext => AsProposed
  BY SettleAsProposed
<1>3. ChargedAsProposed <=> [][AsProposed]_ledgerVars
  BY DEF ChargedAsProposed
<1> QED
  BY <1>1, <1>2, <1>3, ProposedFromCloseStep, LedgerTypeCorrect, PTL
     DEF LedgerSpec

-----------------------------------------------------------------------------
(* Balances *)

\* No roll costs DKP: the hypothesis under which the finalize of an auction
\* looks at every balance it charges.
FreeRolls == \A o \in Offers : o.rollCost <= 0

AuctionsFree == \A a \in AuctionIds : auctions[a].terms.rollCost = 0

\* Free offers stay free once they are up.
LEMMA AuctionsFreeStep ==
  ASSUME FreeRolls, AuctionsFree, LedgerTypeOK, [LedgerNext]_ledgerVars
  PROVE  AuctionsFree'
<1> SUFFICES ASSUME NEW c \in AuctionIds
             PROVE  auctions'[c].terms.rollCost = 0
  BY DEF AuctionsFree
<1>0. /\ auctions = [b \in AuctionIds |-> auctions[b]]
      /\ \A b \in AuctionIds : IsAuction(auctions[b])
  BY DEF LedgerTypeOK, AuctionsTypeOK
<1>1. ASSUME auctions'[c].terms = auctions[c].terms
      PROVE  auctions'[c].terms.rollCost = 0
  BY <1>1 DEF AuctionsFree
<1>2. ASSUME NEW a \in AuctionIds, NEW s \in Seeds, CloseAuction(a, s)
      PROVE  auctions'[c].terms = auctions[c].terms
  <2> DEFINE won == WinnersOf(a, s)
             valid == ValidBidders(a)
             x == [auctions[a] EXCEPT !.status = "closed", !.seed = s,
                                      !.proposed = won, !.validThen = valid]
  <2>1. auctions' = [auctions EXCEPT ![a] = x]
    BY <1>2 DEF CloseAuction
  <2> HIDE DEF won, valid
  <2>2. x.terms = auctions[a].terms
    BY <1>0 DEF IsAuction
  <2> HIDE DEF x
  <2> QED
    BY <1>0, <2>1, <2>2
<1>3. ASSUME NEW a \in AuctionIds, FinalizeAuction(a)
      PROVE  auctions'[c].terms = auctions[c].terms
  <2> DEFINE won == WinnersOf(a, auctions[a].seed)
             x == [auctions[a] EXCEPT !.status = "finalized", !.winners = won]
  <2>1. auctions' = [auctions EXCEPT ![a] = x]
    BY <1>3 DEF FinalizeAuction
  <2> HIDE DEF won
  <2>2. x.terms = auctions[a].terms
    BY <1>0 DEF IsAuction
  <2> HIDE DEF x
  <2> QED
    BY <1>0, <2>1, <2>2
<1>4. ASSUME NEW a \in AuctionIds, NEW x, OtherStep(a, x)
      PROVE  auctions'[c].terms.rollCost = 0
  <2>1. CASE c # a
    <3>1. auctions'[c] = auctions[c]
      BY <1>0, <1>4, <2>1 DEF OtherStep
    <3> QED
      BY <1>1, <3>1
  <2>2. CASE c = a
    <3>1. auctions'[c] = x
      BY <1>0, <1>4, <2>2 DEF OtherStep
    <3>2. CASE x.terms = auctions[a].terms
      BY <1>1, <2>2, <3>1, <3>2
    <3>3. CASE \E o \in Offers : o.rollCost >= 0 /\ x.terms = TermsOf(o)
      <4>1. PICK o \in Offers : o.rollCost >= 0 /\ x.terms = TermsOf(o)
        BY <3>3
      <4>2. o.rollCost = 0 /\ o \in Offer
        BY <4>1, OffersAssumption DEF FreeRolls, Offer
      <4>3. TermsOf(o).rollCost = o.rollCost
        BY <4>2 DEF TermsOf, Offer
      <4> QED
        BY <3>1, <4>1, <4>2, <4>3
    <3> QED
      BY <1>4, <3>2, <3>3 DEF OtherStep
  <2> QED
    BY <2>1, <2>2
<1>5. UNCHANGED ledgerVars => auctions' = auctions
  BY DEF ledgerVars
<1> QED
  BY <1>1, <1>2, <1>3, <1>4, <1>5, AuctionStepKinds

\* Nobody is charged more than it has when the finalize looks.
LEMMA ChargesCovered ==
  ASSUME LedgerTypeOK, AuctionsFree, BalanceNonNegative,
         NEW a \in AuctionIds, NEW seed, NEW p \in DOMAIN WinnersOf(a, seed)
  PROVE  p \in Players /\ WinnersOf(a, seed)[p] <= balance[p]
<1> DEFINE x == auctions[a]
           won == WinnersOf(a, seed)
<1>1. IsAuction(x) /\ x.terms.rollCost = 0 /\ balance \in [Players -> Int]
  BY DEF LedgerTypeOK, AccountsTypeOK, AuctionsTypeOK, AuctionsFree
<1>2. p \in Players
  BY WinnersType DEF LedgerTypeOK, IsPartial
<1>3. won = WinnersAmong(x, ValidBidders(a), seed)
  BY DEF WinnersOf
<1>4. CASE x.terms.flavor = "roll"
  <2>1. won[p] = 0
    BY <1>1, <1>3, <1>4, WinnersPrice
  <2> QED
    BY <1>1, <1>2, <2>1 DEF BalanceNonNegative
<1>5. CASE x.terms.flavor # "roll"
  <2>1. p \in ValidBidders(a) /\ won[p] = x.bids[p].amount
    BY <1>3, <1>5, WinnersPrice
  <2>2. x.bids[p].amount <= BalanceOf(p)
    BY <2>1 DEF ValidBidders
  <2>3. x.bids[p].amount \in Int
    BY <1>1, <2>1 DEF IsAuction, IsPartial, Bid, ValidBidders
  <2> QED
    BY <1>1, <1>2, <2>1, <2>2, <2>3 DEF BalanceOf, BalanceNonNegative
<1> QED
  BY <1>4, <1>5

\* A posting nobody's balance falls short of leaves every balance covered.
LEMMA PostCovered ==
  ASSUME BalanceNonNegative, balance \in [Players -> Int],
         NEW delta, NEW ref, NEW k, Post(delta, ref, k),
         \A p \in DOMAIN delta \cap Players :
           delta[p] \in Int /\ balance[p] + delta[p] >= 0
  PROVE  BalanceNonNegative'
BY DEF BalanceNonNegative, Post

\* An award only adds.
LEMMA AwardCovered ==
  ASSUME BalanceNonNegative, balance \in [Players -> Int],
         NEW raid, NEW ref, NEW n, NEW kind, NEW present, NEW amount \in Nat,
         Award(raid, ref, n, kind, present, amount)
  PROVE  BalanceNonNegative'
<1>1. CASE amount # 0
  <2>1. Post([p \in present |-> amount], ref, "award")
    BY <1>1 DEF Award
  <2>2. \A p \in Players : balance[p] + amount >= 0
    BY DEF BalanceNonNegative
  <2> QED
    BY <2>1, <2>2, PostCovered
<1>2. CASE amount = 0
  BY <1>2 DEF Award, BalanceNonNegative
<1> QED
  BY <1>1, <1>2

\* No command takes a balance below zero.
LEMMA BalanceNonNegativeStep ==
  ASSUME AuctionsFree, BalanceNonNegative, LedgerTypeOK, [LedgerNext]_ledgerVars
  PROVE  BalanceNonNegative'
<1>0. /\ balance \in [Players -> Int] /\ raids \in [RaidIds -> Raid]
      /\ activeRaid \in RaidIds \cup {NoRaid}
      /\ owner \in [Characters -> Players \cup {Nobody}]
  BY DEF LedgerTypeOK, AccountsTypeOK, RaidsTypeOK, RaidRefs
<1>1. CASE UNCHANGED balance
  BY <1>1 DEF BalanceNonNegative
<1>2. ASSUME NEW p \in Players, NEW d \in Deltas, AdjustDkp(p, d, ActiveRef)
      PROVE  BalanceNonNegative'
  <2>1. d \in Int /\ balance[p] \in Int /\ balance[p] >= 0
    BY <1>0, DeltasAssumption DEF BalanceNonNegative
  <2>2. balance[p] + d >= 0
    BY <1>2, <2>1 DEF AdjustDkp, BalanceOf
  <2>3. Post([q \in {p} |-> d], ActiveRef, "adjust")
    BY <1>2 DEF AdjustDkp
  <2> QED
    BY <1>0, <2>1, <2>2, <2>3, PostCovered
<1>3. CASE AccountsStep(ActiveRef)
  <2>1. ASSUME NEW p \in Players, NEW c \in Characters, LinkCharacter(p, c)
        PROVE  BalanceNonNegative'
    BY <1>1, <2>1 DEF LinkCharacter
  <2>2. ASSUME NEW c \in Characters, NEW d \in Deltas,
               AdjustByCharacter(c, d, ActiveRef)
        PROVE  BalanceNonNegative'
    BY <1>0, <1>2, <2>2 DEF AdjustByCharacter
  <2> QED
    BY <1>2, <1>3, <2>1, <2>2 DEF AccountsStep
<1>4. CASE RaidStep
  <2>1. ASSUME NEW r \in RaidIds, NEW name \in Names, NEW d \in TickDkps,
               NEW S \in SUBSET Players, StartRaid(r, name, d, S)
        PROVE  BalanceNonNegative'
    BY <1>0, <2>1, AwardCovered, TickDkpsAssumption DEF StartRaid
  <2>2. ASSUME NEW S \in SUBSET Players, Tick(S)
        PROVE  BalanceNonNegative'
    <3>1. raids[activeRaid].perTick \in Nat
      BY <1>0, <2>2 DEF Tick, Raid
    <3> QED
      BY <1>0, <2>2, <3>1, AwardCovered DEF Tick
  <2>3. ASSUME NEW S \in SUBSET Players, EndRaid(S)
        PROVE  BalanceNonNegative'
    BY <1>0, <2>3, AwardCovered DEF EndRaid
  <2>4. ASSUME NEW S \in SUBSET Players, NEW a \in Awards, AwardRaid(S, a)
        PROVE  BalanceNonNegative'
    BY <1>0, <2>4, AwardCovered, AwardsAssumption DEF AwardRaid
  <2>5. ASSUME \/ \E r, s \in RaidIds : MergeRaid(r, s)
               \/ \E r \in RaidIds, K \in SUBSET Kills : RecordRaidKills(r, K)
               \/ \E r \in RaidIds, n \in Names : RenameRaid(r, n)
               \/ Clock
        PROVE  BalanceNonNegative'
    BY <1>1, <2>5 DEF MergeRaid, RecordRaidKills, RenameRaid, Clock, accountVars
  <2> QED
    BY <1>4, <2>1, <2>2, <2>3, <2>4, <2>5 DEF RaidStep
<1>5. CASE AuctionStep
  <2>1. ASSUME NEW a \in AuctionIds, FinalizeAuction(a)
        PROVE  BalanceNonNegative'
    <3> DEFINE won == WinnersOf(a, auctions[a].seed)
               delta == [p \in DOMAIN won |->
                           - (IF auctions[a].terms.debit THEN won[p] ELSE 0)]
    <3>1. Post(delta, ActiveRef, "loot")
      BY <2>1 DEF FinalizeAuction
    <3>2. ASSUME NEW p \in DOMAIN won
          PROVE  /\ p \in Players /\ won[p] \in Int /\ won[p] <= balance[p]
                 /\ balance[p] \in Int /\ balance[p] >= 0
      <4>1. p \in Players /\ won[p] <= balance[p]
        BY ChargesCovered
      <4>2. won[p] \in Int
        BY WinnersType DEF LedgerTypeOK, IsPartial
      <4> QED
        BY <1>0, <4>1, <4>2 DEF BalanceNonNegative
    <3> HIDE DEF won
    <3>3. \A p \in DOMAIN delta :
            delta[p] \in Int /\ balance[p] + delta[p] >= 0
      BY <3>2
    <3> HIDE DEF delta
    <3> QED
      BY <1>0, <3>1, <3>3, PostCovered
  <2>2. ASSUME \/ \E a \in AuctionIds, o \in Offers : OpenAuction(a, o)
               \/ \E p \in Players, a \in AuctionIds, m \in Amounts,
                     side \in BOOLEAN, att \in Attendances :
                       PlaceBid(p, a, m, side, att)
               \/ \E p \in Players, a \in AuctionIds : RetractBid(p, a)
               \/ \E p \in Players, a \in AuctionIds, r \in 1 .. MaxRoll :
                     RollForAuction(p, a, r)
               \/ \E a \in AuctionIds, s \in Seeds : CloseAuction(a, s)
               \/ \E a \in AuctionIds : CancelAuction(a)
        PROVE  BalanceNonNegative'
    BY <1>1, <2>2 DEF OpenAuction, PlaceBid, RetractBid, RollForAuction,
                      CloseAuction, CancelAuction
  <2> QED
    BY <1>5, <2>1, <2>2 DEF AuctionStep
<1>6. CASE UNCHANGED ledgerVars
  BY <1>1, <1>6 DEF ledgerVars, accountVars
<1> QED
  BY <1>3, <1>4, <1>5, <1>6 DEF LedgerNext

\* As long as no roll costs DKP, no balance is ever negative: whatever is
\* adjusted away under a standing bid, and however many auctions a member
\* wins at once, the finalize charges nobody more than is there.  With rolls
\* that cost, the run "rollcost" shows the hypothesis is needed.
THEOREM BalancesCovered ==
  ASSUME FreeRolls
  PROVE  LedgerSpec => []BalanceNonNegative
<1>1. LedgerInit => AuctionsFree /\ BalanceNonNegative
  BY DEF LedgerInit, AuctionsInit, Unopened, NoTerms, AuctionsFree,
         AccountsInit, BalanceNonNegative
<1>2. AuctionsFree /\ LedgerTypeOK /\ [LedgerNext]_ledgerVars => AuctionsFree'
  BY AuctionsFreeStep
<1>3. AuctionsFree /\ BalanceNonNegative /\ LedgerTypeOK
        /\ [LedgerNext]_ledgerVars => BalanceNonNegative'
  BY BalanceNonNegativeStep
<1> QED
  BY <1>1, <1>2, <1>3, LedgerTypeCorrect, PTL DEF LedgerSpec


-----------------------------------------------------------------------------
(* What one step writes into the books *)

BooksKept   == UNCHANGED <<balance, history>>
BooksPosted == \E ref \in RaidRef, k \in LineKinds, D \in SUBSET Players :
                 \E delta \in [D -> Int] : Post(delta, ref, k)
BooksMerged == \E from, into \in RaidIds : MergeRaid(from, into)

\* Post writes one line and the same amount into the balance, and leaves
\* every other line alone.
LEMMA PostWrites ==
  ASSUME AccountsTypeOK, NEW ref \in RaidRef, NEW k \in LineKinds,
         NEW delta, DOMAIN delta \subseteq Players,
         \A q \in DOMAIN delta : delta[q] \in Int,
         Post(delta, ref, k), NEW p \in Players
  PROVE  /\ p \notin DOMAIN delta =>
              history'[p] = history[p] /\ balance'[p] = balance[p]
         /\ p \in DOMAIN delta =>
              /\ balance'[p] = balance[p] + delta[p]
              /\ history'[p][ref.id][k] = history[p][ref.id][k] + delta[p]
         /\ \A r \in RaidRefs, j \in LineKinds :
              r # ref.id \/ j # k => history'[p][r][j] = history[p][r][j]
<1>1. /\ history[p] \in [RaidRefs -> [LineKinds -> Int]]
      /\ ref.id \in RaidRefs
  BY DEF AccountsTypeOK, RaidRef
<1>2. /\ balance'[p] = IF p \in DOMAIN delta THEN balance[p] + delta[p]
                       ELSE balance[p]
      /\ history'[p] = IF p \in DOMAIN delta
                       THEN [history[p] EXCEPT ![ref.id][k] = @ + delta[p]]
                       ELSE history[p]
  BY DEF Post
<1> DEFINE h == history[p]
<1> HIDE DEF h
<1>3. [h EXCEPT ![ref.id][k] = @ + delta[p]] =
        [h EXCEPT ![ref.id] = [h[ref.id] EXCEPT ![k] = h[ref.id][k] + delta[p]]]
  OBVIOUS
<1>4. h \in [RaidRefs -> [LineKinds -> Int]]
  BY <1>1 DEF h
<1>5. /\ [h EXCEPT ![ref.id][k] = @ + delta[p]][ref.id][k] =
           h[ref.id][k] + delta[p]
      /\ \A r \in RaidRefs, j \in LineKinds : r # ref.id \/ j # k =>
           [h EXCEPT ![ref.id][k] = @ + delta[p]][r][j] = h[r][j]
  BY <1>1, <1>3, <1>4
<1> QED
  BY <1>2, <1>5 DEF h

\* What a merge makes of one line.
LEMMA MergeWrites ==
  ASSUME AccountsTypeOK, NEW from \in RaidIds, NEW into \in RaidIds,
         MergeRaid(from, into), NEW p \in Players, NEW k \in LineKinds
  PROVE  /\ from # into
         /\ history'[p][into][k] = history[p][into][k] + history[p][from][k]
         /\ history'[p][from][k] = 0
         /\ \A r \in RaidRefs \ {from, into} : history'[p][r] = history[p][r]
<1> DEFINE sum  == [j \in LineKinds |-> history[p][into][j] + history[p][from][j]]
           zero == [j \in LineKinds |-> 0]
<1>1. history[p] \in [RaidRefs -> [LineKinds -> Int]] /\ from # into
  BY DEF AccountsTypeOK, MergeRaid
<1>2. history'[p] = [history[p] EXCEPT ![into] = sum, ![from] = zero]
  BY DEF MergeRaid
<1>3. sum[k] = history[p][into][k] + history[p][from][k] /\ zero[k] = 0
  OBVIOUS
<1> HIDE DEF sum, zero
<1>4. /\ history'[p][into] = sum /\ history'[p][from] = zero
      /\ \A r \in RaidRefs \ {from, into} : history'[p][r] = history[p][r]
  BY <1>1, <1>2 DEF RaidRefs
<1> QED
  BY <1>1, <1>3, <1>4

\* An award is a posting, or none when it is of 0 DKP.
LEMMA AwardPosts ==
  ASSUME NEW raid, NEW ref \in RaidRef, NEW n, NEW kind,
         NEW present \in SUBSET Players, NEW amount \in Nat,
         Award(raid, ref, n, kind, present, amount)
  PROVE  BooksKept \/ BooksPosted
<1>1. CASE amount = 0
  BY <1>1 DEF Award, BooksKept
<1>2. CASE amount # 0
  <2>1. Post([p \in present |-> amount], ref, "award")
    BY <1>2 DEF Award
  <2>2. [p \in present |-> amount] \in [present -> Int]
    OBVIOUS
  <2> QED
    BY <2>1, <2>2 DEF BooksPosted, LineKinds
<1> QED
  BY <1>1, <1>2

\* So is an adjustment, by whoever makes it.
LEMMA AdjustPosts ==
  ASSUME NEW p \in Players, NEW d \in Int, NEW ref \in RaidRef, AdjustDkp(p, d, ref)
  PROVE  BooksPosted
<1>1. Post([q \in {p} |-> d], ref, "adjust")
  BY DEF AdjustDkp
<1>2. [q \in {p} |-> d] \in [{p} -> Int] /\ {p} \in SUBSET Players
  OBVIOUS
<1> QED
  BY <1>1, <1>2 DEF BooksPosted, LineKinds

\* And the charging of an auction.
LEMMA FinalizePosts ==
  ASSUME LedgerTypeOK, NEW a \in AuctionIds, FinalizeAuction(a)
  PROVE  BooksPosted
<1> DEFINE won == WinnersOf(a, auctions[a].seed)
           delta == [p \in DOMAIN won |->
                       - (IF auctions[a].terms.debit THEN won[p] ELSE 0)]
<1>1. Post(delta, ActiveRef, "loot")
  BY DEF FinalizeAuction
<1>2. IsPartial(won, Int)
  BY WinnersType DEF LedgerTypeOK
<1>3. ActiveRef \in RaidRef
  BY ActiveRefType DEF LedgerTypeOK
<1> HIDE DEF won
<1>4. delta \in [DOMAIN won -> Int] /\ DOMAIN won \in SUBSET Players
  BY <1>2 DEF IsPartial
<1> HIDE DEF delta
<1> QED
  BY <1>1, <1>3, <1>4 DEF BooksPosted, LineKinds

\* Only the charging of an auction writes outside the auctions.
LEMMA AuctionStepQuiet ==
  ASSUME AuctionStep
  PROVE  \/ \E a \in AuctionIds : FinalizeAuction(a)
         \/ /\ UNCHANGED <<members, balance, owner, history, lineNames, raidVars>>
            /\ Emit(1)
<1> DEFINE quiet == /\ UNCHANGED <<members, balance, owner, history, lineNames, raidVars>>
                    /\ Emit(1)
<1>1. ASSUME NEW a \in AuctionIds, NEW o \in Offers, OpenAuction(a, o)
      PROVE  quiet
  BY <1>1 DEF OpenAuction
<1>2. ASSUME NEW p \in Players, NEW a \in AuctionIds, NEW m \in Amounts,
             NEW side \in BOOLEAN, NEW att \in Attendances,
             PlaceBid(p, a, m, side, att)
      PROVE  quiet
  BY <1>2 DEF PlaceBid
<1>3. ASSUME NEW p \in Players, NEW a \in AuctionIds, RetractBid(p, a)
      PROVE  quiet
  BY <1>3 DEF RetractBid
<1>4. ASSUME NEW p \in Players, NEW a \in AuctionIds, NEW r \in 1 .. MaxRoll,
             RollForAuction(p, a, r)
      PROVE  quiet
  BY <1>4 DEF RollForAuction
<1>5. ASSUME NEW a \in AuctionIds, NEW s \in Seeds, CloseAuction(a, s)
      PROVE  quiet
  BY <1>5 DEF CloseAuction
<1>6. ASSUME NEW a \in AuctionIds, CancelAuction(a)
      PROVE  quiet
  BY <1>6 DEF CancelAuction
<1> QED
  BY <1>1, <1>2, <1>3, <1>4, <1>5, <1>6 DEF AuctionStep

\* Every command leaves the books alone, posts to them once, or merges.
LEMMA BooksStep ==
  ASSUME LedgerTypeOK, [LedgerNext]_ledgerVars
  PROVE  BooksKept \/ BooksPosted \/ BooksMerged
<1>0. /\ AccountsTypeOK /\ RaidsTypeOK
      /\ owner \in [Characters -> Players \cup {Nobody}]
      /\ activeRaid \in RaidIds \cup {NoRaid} /\ raids \in [RaidIds -> Raid]
  BY DEF LedgerTypeOK, AccountsTypeOK, RaidsTypeOK, RaidRefs
<1>1. CASE AccountsStep(ActiveRef)
  <2>1. ASSUME NEW p \in Players, NEW c \in Characters, LinkCharacter(p, c)
        PROVE  BooksKept
    BY <2>1 DEF LinkCharacter, BooksKept
  <2>2. ASSUME NEW p \in Players, NEW d \in Deltas, AdjustDkp(p, d, ActiveRef)
        PROVE  BooksPosted
    BY <1>0, <2>2, AdjustPosts, ActiveRefType, DeltasAssumption
  <2>3. ASSUME NEW c \in Characters, NEW d \in Deltas,
               AdjustByCharacter(c, d, ActiveRef)
        PROVE  BooksPosted
    BY <1>0, <2>2, <2>3 DEF AdjustByCharacter
  <2> QED
    BY <1>1, <2>1, <2>2, <2>3 DEF AccountsStep
<1>2. CASE RaidStep
  <2>1. ASSUME NEW r \in RaidIds, NEW name \in Names, NEW d \in TickDkps,
               NEW S \in SUBSET Players, StartRaid(r, name, d, S)
        PROVE  BooksKept \/ BooksPosted
    <3>1. [id |-> r, names |-> {name}] \in RaidRef /\ d \in Nat
      BY TickDkpsAssumption DEF RaidRef, RaidRefs
    <3> QED
      BY <2>1, <3>1, AwardPosts DEF StartRaid
  <2>2. ASSUME activeRaid \in RaidIds
        PROVE  RefOf(activeRaid) \in RaidRef /\ raids[activeRaid].perTick \in Nat
    BY <1>0, <2>2, RefOfType DEF Raid
  <2>3. ASSUME NEW S \in SUBSET Players, Tick(S)
        PROVE  BooksKept \/ BooksPosted
    BY <1>0, <2>2, <2>3, AwardPosts DEF Tick
  <2>4. ASSUME NEW S \in SUBSET Players, EndRaid(S)
        PROVE  BooksKept \/ BooksPosted
    BY <1>0, <2>2, <2>4, AwardPosts DEF EndRaid
  <2>5. ASSUME NEW S \in SUBSET Players, NEW a \in Awards, AwardRaid(S, a)
        PROVE  BooksKept \/ BooksPosted
    BY <1>0, <2>2, <2>5, AwardPosts, AwardsAssumption DEF AwardRaid
  <2>6. ASSUME \/ \E r \in RaidIds, K \in SUBSET Kills : RecordRaidKills(r, K)
               \/ \E r \in RaidIds, n \in Names : RenameRaid(r, n)
               \/ Clock
        PROVE  BooksKept
    BY <2>6 DEF RecordRaidKills, RenameRaid, Clock, accountVars, BooksKept
  <2> QED
    BY <1>2, <2>1, <2>3, <2>4, <2>5, <2>6 DEF RaidStep, BooksMerged
<1>3. CASE AuctionStep
  <2>1. \/ \E a \in AuctionIds : FinalizeAuction(a)
        \/ UNCHANGED <<balance, history>>
    BY <1>3, AuctionStepQuiet
  <2> QED
    BY <2>1, FinalizePosts DEF BooksKept
<1>4. CASE UNCHANGED ledgerVars
  BY <1>4 DEF ledgerVars, accountVars, BooksKept
<1> QED
  BY <1>1, <1>2, <1>3, <1>4 DEF LedgerNext

-----------------------------------------------------------------------------
(* Balances and history *)

\* There are finitely many raids a line can name.
LEMMA RaidRefsFinite == IsFiniteSet(RaidRefs)
BY RaidIdsAssumption, FS_AddElement DEF RaidRefs

\* What p's lines add up to.
LEMMA LinesInt ==
  ASSUME AccountsTypeOK, NEW p \in Players, NEW r \in RaidRefs
  PROVE  LinesOf(p, r) \in Int
BY DEF LinesOf, AccountsTypeOK, LineKinds

\* Whatever is written into the books, the history explains the balance.
LEMMA HistoryExplainsStep ==
  ASSUME AccountsTypeOK, AccountsTypeOK', HistoryExplainsBalance,
         BooksKept \/ BooksPosted \/ BooksMerged
  PROVE  HistoryExplainsBalance'
<1> SUFFICES ASSUME NEW p \in Players
             PROVE  balance'[p] = SumFunction([r \in RaidRefs |-> LinesOf(p, r)'])
  BY DEF HistoryExplainsBalance
<1> DEFINE f == [r \in RaidRefs |-> LinesOf(p, r)]
           g == [r \in RaidRefs |-> LinesOf(p, r)']
<1> SUFFICES balance'[p] = SumFunctionOnSet(g, RaidRefs)
  BY DEF SumFunction
<1>0. balance[p] = SumFunctionOnSet(f, RaidRefs) /\ balance[p] \in Int
  BY DEF HistoryExplainsBalance, SumFunction, AccountsTypeOK
<1>1. \A r \in RaidRefs : /\ f[r] = LinesOf(p, r) /\ f[r] \in Int
                          /\ g[r] = LinesOf(p, r)' /\ g[r] \in Int
  <2>1. \A r \in RaidRefs : LinesOf(p, r)' \in Int
    BY DEF LinesOf, AccountsTypeOK, LineKinds
  <2> QED
    BY <2>1, LinesInt
<1>2. CASE BooksKept
  <2>1. g = f /\ balance'[p] = balance[p]
    BY <1>2 DEF BooksKept, LinesOf
  <2> QED
    BY <1>0, <2>1
<1>3. CASE BooksPosted
  <2>1. PICK ref \in RaidRef, k \in LineKinds, D \in SUBSET Players :
          \E delta \in [D -> Int] : Post(delta, ref, k)
    BY <1>3 DEF BooksPosted
  <2>d. PICK delta \in [D -> Int] : Post(delta, ref, k)
    BY <2>1
  <2>2. ref.id \in RaidRefs /\ history[p] \in [RaidRefs -> [LineKinds -> Int]]
    BY DEF RaidRef, AccountsTypeOK
  <2>3. CASE p \notin D
    <3>1. history'[p] = history[p] /\ balance'[p] = balance[p]
      BY <2>d, <2>3, PostWrites
    <3>2. g = f
      BY <3>1 DEF LinesOf
    <3> QED
      BY <1>0, <3>1, <3>2
  <2>4. CASE p \in D
    <3>1. /\ balance'[p] = balance[p] + delta[p] /\ delta[p] \in Int
          /\ history'[p][ref.id][k] = history[p][ref.id][k] + delta[p]
          /\ \A r \in RaidRefs, j \in LineKinds :
               r # ref.id \/ j # k => history'[p][r][j] = history[p][r][j]
      BY <2>d, <2>4, PostWrites
    <3>2. \A r \in RaidRefs \ {ref.id} : f[r] = g[r]
      BY <1>1, <3>1 DEF LinesOf, LineKinds
    <3>3. g[ref.id] - f[ref.id] = delta[p]
      <4>1. \A j \in LineKinds : history[p][ref.id][j] \in Int
        BY <2>2
      <4> QED
        BY <1>1, <2>2, <3>1, <4>1 DEF LinesOf, LineKinds
    <3>4. \A r \in RaidRefs : f[r] \in Int /\ g[r] \in Int
      BY <1>1
    <3> DEFINE y == ref.id
    <3>5. y \in RaidRefs /\ \A r \in RaidRefs \ {y} : f[r] = g[r]
      BY <2>2, <3>2
    <3> HIDE DEF f, g, y
    <3>6. SumFunctionOnSet(g, RaidRefs) =
            SumFunctionOnSet(f, RaidRefs) + (g[y] - f[y])
      BY <3>4, <3>5, RaidRefsFinite, SumChange
    <3> QED
      BY <1>0, <3>1, <3>3, <3>6 DEF y
  <2> QED
    BY <2>3, <2>4
<1>4. CASE BooksMerged
  <2>1. PICK from \in RaidIds, into \in RaidIds : MergeRaid(from, into)
    BY <1>4 DEF BooksMerged
  <2>2. /\ from \in RaidRefs /\ into \in RaidRefs \ {from}
        /\ balance'[p] = balance[p]
        /\ history[p] \in [RaidRefs -> [LineKinds -> Int]]
    BY <2>1 DEF RaidRefs, MergeRaid, AccountsTypeOK
  <2>3. \A r \in RaidRefs \ {from, into} : f[r] = g[r]
    BY <1>1, <2>1, MergeWrites DEF LinesOf, LineKinds
  <2>4. f[from] + f[into] = g[from] + g[into]
    <3>1. \A k \in LineKinds :
            /\ history'[p][into][k] = history[p][into][k] + history[p][from][k]
            /\ history'[p][from][k] = 0
            /\ history[p][into][k] \in Int /\ history[p][from][k] \in Int
      BY <2>1, <2>2, MergeWrites
    <3> QED
      BY <1>1, <2>2, <3>1 DEF LinesOf, LineKinds
  <2> HIDE DEF f, g
  <2>5. SumFunctionOnSet(g, RaidRefs) = SumFunctionOnSet(f, RaidRefs)
    BY <1>1, <2>2, <2>3, <2>4, RaidRefsFinite, SumTransfer
  <2> QED
    BY <1>0, <2>2, <2>5
<1> QED
  BY <1>2, <1>3, <1>4

\* Accounts without lines explain a balance of nothing.
LEMMA HistoryStartsEmpty == AccountsInit => HistoryExplainsBalance
<1> SUFFICES ASSUME AccountsInit, NEW p \in Players
             PROVE  balance[p] = SumFunction([r \in RaidRefs |-> LinesOf(p, r)])
  BY DEF HistoryExplainsBalance
<1> DEFINE f == [r \in RaidRefs |-> LinesOf(p, r)]
<1>1. \A r \in RaidRefs : f[r] = 0
  BY DEF AccountsInit, LinesOf, LineKinds
<1> HIDE DEF f
<1>2. SumFunctionOnSet(f, RaidRefs) = 0
  BY <1>1, RaidRefsFinite, SumZero
<1> QED
  BY <1>2 DEF AccountsInit, SumFunction, f

\* Every step of the ledger writes the balance and the history in step.
LEMMA HistoryStep ==
  HistoryExplainsBalance /\ LedgerTypeOK /\ [LedgerNext]_ledgerVars
    => HistoryExplainsBalance'
<1> SUFFICES ASSUME HistoryExplainsBalance, LedgerTypeOK, [LedgerNext]_ledgerVars
             PROVE  HistoryExplainsBalance'
  OBVIOUS
<1>1. AccountsTypeOK /\ AccountsTypeOK'
  BY LedgerNextType DEF LedgerTypeOK
<1> QED
  BY <1>1, BooksStep, HistoryExplainsStep

\* A balance is always the sum of the lines of its owner's history.
THEOREM HistoryAlwaysExplains == LedgerSpec => []HistoryExplainsBalance
<1>1. LedgerInit => HistoryExplainsBalance
  BY HistoryStartsEmpty DEF LedgerInit
<1> QED
  BY <1>1, HistoryStep, LedgerTypeCorrect, PTL DEF LedgerSpec

-----------------------------------------------------------------------------
(* Attendance *)

\* A raid's entries are numbered below seq and are its own; a raid that is
\* not there has none.
EntriesTidy ==
  \A r \in RaidIds :
    /\ IsFiniteSet(raids[r].entries)
    /\ raids[r].status \in {"absent", "gone"} => raids[r].entries = {}
    /\ \A e \in raids[r].entries : e.seq < seq
    /\ \A s \in RaidIds \ {r} : raids[r].entries \cap raids[s].entries = {}

EntriesKept ==
  /\ \A r \in RaidIds : /\ raids'[r].entries = raids[r].entries
                        /\ raids'[r].status = raids[r].status
  /\ \A p \in Players, r \in RaidIds :
       history'[p][r]["award"] = history[p][r]["award"]
  /\ seq <= seq'

\* An award to a raid that goes on or ends with it.
BooksAward(raid, ref, n, kind, present, amount) ==
  /\ Award(raid, ref, n, kind, present, amount)
  /\ raid \in Raid /\ ref \in RaidRef /\ ref.id \in RaidIds
  /\ kind \in {"Start", "Tick", "Award", "End"}
  /\ present \in SUBSET Players /\ amount \in Nat
  /\ raid.entries = raids[ref.id].entries /\ raid.status \in {"active", "ended"}
  /\ n \in Nat /\ seq <= n /\ n < seq'
EntryBooked == \E raid, ref, n, kind, present, amount :
                 BooksAward(raid, ref, n, kind, present, amount)

EntriesMerged == /\ \E from, into \in RaidIds : MergeRaid(from, into)
                 /\ seq <= seq'

\* A posting that is no award touches no entry.
LEMMA PostKeepsEntries ==
  ASSUME AccountsTypeOK, NEW ref \in RaidRef, NEW k \in LineKinds \ {"award"},
         NEW delta, DOMAIN delta \subseteq Players,
         \A q \in DOMAIN delta : delta[q] \in Int,
         Post(delta, ref, k), UNCHANGED raids, seq <= seq'
  PROVE  EntriesKept
<1>1. ASSUME NEW p \in Players, NEW r \in RaidIds
      PROVE  history'[p][r]["award"] = history[p][r]["award"]
  <2>1. r \in RaidRefs /\ "award" \in LineKinds /\ "award" # k
    BY DEF RaidRefs, LineKinds
  <2> QED
    BY <2>1, PostWrites
<1> QED
  BY <1>1 DEF EntriesKept

\* Nor does an adjustment, by whoever makes it.
LEMMA AdjustKeepsEntries ==
  ASSUME AccountsTypeOK, NEW p \in Players, NEW d \in Int,
         NEW ref \in RaidRef, AdjustDkp(p, d, ref), UNCHANGED raids
  PROVE  EntriesKept
<1>1. Post([q \in {p} |-> d], ref, "adjust") /\ seq <= seq'
  BY DEF AdjustDkp, Emit, AccountsTypeOK
<1>2. "adjust" \in LineKinds \ {"award"}
  BY DEF LineKinds
<1> QED
  BY <1>1, <1>2, PostKeepsEntries

\* Every command keeps the entries, books one, or merges two raids.
LEMMA EntriesStep ==
  ASSUME LedgerTypeOK, OneActiveRaid, EntriesTidy, [LedgerNext]_ledgerVars
  PROVE  EntriesKept \/ EntryBooked \/ EntriesMerged
<1>0. /\ AccountsTypeOK /\ RaidsTypeOK /\ ActiveRef \in RaidRef /\ seq \in Nat
      /\ owner \in [Characters -> Players \cup {Nobody}]
      /\ activeRaid \in RaidIds \cup {NoRaid} /\ raids \in [RaidIds -> Raid]
  BY ActiveRefType DEF LedgerTypeOK, AccountsTypeOK, RaidsTypeOK, RaidRefs
<1>1. CASE UNCHANGED <<raids, history>> /\ seq <= seq'
  BY <1>1 DEF EntriesKept
<1>2. CASE AccountsStep(ActiveRef) /\ UNCHANGED <<raidVars, auctions>>
  <2>1. ASSUME NEW p \in Players, NEW c \in Characters, LinkCharacter(p, c)
        PROVE  EntriesKept
    <3>1. UNCHANGED <<raids, history>> /\ seq <= seq'
      BY <1>0, <1>2, <2>1 DEF LinkCharacter, Emit, raidVars
    <3> QED
      BY <3>1 DEF EntriesKept
  <2>2. ASSUME NEW p \in Players, NEW d \in Deltas, AdjustDkp(p, d, ActiveRef)
        PROVE  EntriesKept
    BY <1>0, <1>2, <2>2, AdjustKeepsEntries, DeltasAssumption DEF raidVars
  <2>3. ASSUME NEW c \in Characters, NEW d \in Deltas,
               AdjustByCharacter(c, d, ActiveRef)
        PROVE  EntriesKept
    BY <1>0, <2>2, <2>3 DEF AdjustByCharacter
  <2> QED
    BY <1>2, <2>1, <2>2, <2>3 DEF AccountsStep
<1>3. ASSUME NEW r \in RaidIds, NEW name \in Names, NEW d \in TickDkps,
             NEW S \in SUBSET Players, StartRaid(r, name, d, S)
      PROVE  EntryBooked
  <2> DEFINE raid == NewRaid(name, d, "active")
             ref  == [id |-> r, names |-> {name}]
  <2>1. /\ Award(raid, ref, seq + 1, "Start", S, d)
        /\ raids[r].status = "absent" /\ Emit(2)
    BY <1>3 DEF StartRaid
  <2>2. /\ raid \in Raid /\ ref \in RaidRef /\ ref.id = r /\ d \in Nat
        /\ raid.entries = {} /\ raid.status = "active"
    BY TickDkpsAssumption DEF NewRaid, Raid, RaidRef, RaidRefs
  <2>3. raids[r].entries = {}
    BY <2>1 DEF EntriesTidy
  <2>4. seq + 1 \in Nat /\ seq <= seq + 1 /\ seq + 1 < seq'
    BY <1>0, <2>1 DEF Emit
  <2> HIDE DEF raid, ref
  <2>5. BooksAward(raid, ref, seq + 1, "Start", S, d)
    BY <2>1, <2>2, <2>3, <2>4 DEF BooksAward
  <2> QED
    BY <2>5 DEF EntryBooked
<1>4. ASSUME activeRaid \in RaidIds,
             NEW raid \in Raid, NEW kind \in {"Tick", "Award", "End"},
             raid.entries = raids[activeRaid].entries,
             raid.status \in {"active", "ended"},
             NEW S \in SUBSET Players, NEW amount \in Nat,
             Award(raid, RefOf(activeRaid), seq, kind, S, amount), seq < seq'
      PROVE  EntryBooked
  <2>1. RefOf(activeRaid) \in RaidRef /\ RefOf(activeRaid).id = activeRaid
    BY <1>0, <1>4, RefOfType
  <2>2. BooksAward(raid, RefOf(activeRaid), seq, kind, S, amount)
    BY <1>0, <1>4, <2>1 DEF BooksAward
  <2> QED
    BY <2>2 DEF EntryBooked
<1>5. ASSUME activeRaid # NoRaid
      PROVE  /\ activeRaid \in RaidIds /\ raids[activeRaid] \in Raid
             /\ raids[activeRaid].status = "active"
  BY <1>0, <1>5 DEF OneActiveRaid
<1>6. ASSUME NEW S \in SUBSET Players, Tick(S)
      PROVE  EntryBooked
  <2> DEFINE was  == raids[activeRaid]
             raid == [was EXCEPT !.tickNo = was.tickNo + 1]
  <2>1. /\ activeRaid # NoRaid /\ Emit(1)
        /\ Award(raid, RefOf(activeRaid), seq, "Tick", S, was.perTick)
    BY <1>6 DEF Tick
  <2>2. /\ was \in Raid /\ was.status = "active" /\ activeRaid \in RaidIds
        /\ seq < seq'
    BY <1>0, <1>5, <2>1 DEF Emit
  <2>3. was.entries = raids[activeRaid].entries
    OBVIOUS
  <2> HIDE DEF was
  <2>4. /\ raid \in Raid /\ was.perTick \in Nat
        /\ raid.entries = was.entries /\ raid.status = "active"
    BY <2>2 DEF Raid
  <2> HIDE DEF raid
  <2> QED
    BY <1>4, <2>1, <2>2, <2>3, <2>4
<1>7. ASSUME NEW S \in SUBSET Players, EndRaid(S)
      PROVE  EntryBooked
  <2> DEFINE was  == raids[activeRaid]
             raid == [was EXCEPT !.status = "ended"]
  <2>1. /\ activeRaid # NoRaid /\ Emit(2)
        /\ Award(raid, RefOf(activeRaid), seq, "End", S, 0)
    BY <1>7 DEF EndRaid
  <2>2. was \in Raid /\ activeRaid \in RaidIds /\ seq < seq'
    BY <1>0, <1>5, <2>1 DEF Emit
  <2>3. was.entries = raids[activeRaid].entries
    OBVIOUS
  <2> HIDE DEF was
  <2>4. raid \in Raid /\ raid.entries = was.entries /\ raid.status = "ended"
    BY <2>2 DEF Raid
  <2> HIDE DEF raid
  <2> QED
    BY <1>4, <2>1, <2>2, <2>3, <2>4
<1>8. ASSUME NEW S \in SUBSET Players, NEW a \in Awards, AwardRaid(S, a)
      PROVE  EntryBooked
  <2>1. /\ activeRaid # NoRaid /\ seq < seq' /\ a \in Nat
        /\ Award(raids[activeRaid], RefOf(activeRaid), seq, "Award", S, a)
    BY <1>0, <1>8, AwardsAssumption DEF AwardRaid, Emit
  <2> QED
    BY <1>4, <1>5, <2>1
<1>9. ASSUME NEW from \in RaidIds, NEW into \in RaidIds, MergeRaid(from, into)
      PROVE  EntriesMerged
  <2>1. Emit(1)
    BY <1>9 DEF MergeRaid
  <2>2. seq <= seq'
    BY <1>0, <2>1 DEF Emit
  <2> QED
    BY <1>9, <2>2 DEF EntriesMerged
<1>10. ASSUME NEW r \in RaidIds, NEW K \in SUBSET Kills, RecordRaidKills(r, K)
       PROVE  EntriesKept
  <2>1. /\ raids' = [raids EXCEPT ![r].kills = K] /\ history' = history
        /\ seq <= seq'
    BY <1>0, <1>10 DEF RecordRaidKills, Emit
  <2>2. \A s \in RaidIds : /\ raids'[s].entries = raids[s].entries
                           /\ raids'[s].status = raids[s].status
    BY <1>0, <2>1 DEF Raid
  <2> QED
    BY <2>1, <2>2 DEF EntriesKept
<1>11. ASSUME NEW r \in RaidIds, NEW name \in Names, RenameRaid(r, name)
       PROVE  EntriesKept
  <2>1. /\ raids' = [raids EXCEPT ![r].name = name] /\ history' = history
        /\ seq <= seq'
    BY <1>0, <1>11 DEF RenameRaid, Emit
  <2>2. \A s \in RaidIds : /\ raids'[s].entries = raids[s].entries
                           /\ raids'[s].status = raids[s].status
    BY <1>0, <2>1 DEF Raid
  <2> QED
    BY <2>1, <2>2 DEF EntriesKept
<1>12. CASE RaidStep
  <2>1. Clock => UNCHANGED <<raids, history>> /\ seq <= seq'
    BY <1>0 DEF Clock, accountVars
  <2> QED
    BY <1>1, <1>3, <1>6, <1>7, <1>8, <1>9, <1>10, <1>11, <1>12, <2>1 DEF RaidStep
<1>13. CASE AuctionStep
  <2>1. ASSUME NEW a \in AuctionIds, FinalizeAuction(a)
        PROVE  EntriesKept
    <3> DEFINE won == WinnersOf(a, auctions[a].seed)
               delta == [p \in DOMAIN won |->
                           - (IF auctions[a].terms.debit THEN won[p] ELSE 0)]
    <3>1. Post(delta, ActiveRef, "loot") /\ UNCHANGED raids
      BY <2>1 DEF FinalizeAuction, raidVars
    <3>2. seq <= seq'
      BY <1>0, <2>1 DEF FinalizeAuction, Emit
    <3>3. IsPartial(won, Int)
      BY WinnersType DEF LedgerTypeOK
    <3> HIDE DEF won
    <3>4. DOMAIN delta \subseteq Players /\ \A p \in DOMAIN delta : delta[p] \in Int
      BY <3>3 DEF IsPartial
    <3>5. "loot" \in LineKinds \ {"award"}
      BY DEF LineKinds
    <3> HIDE DEF delta
    <3> QED
      BY <1>0, <3>1, <3>2, <3>4, <3>5, PostKeepsEntries
  <2>2. \/ \E a \in AuctionIds : FinalizeAuction(a)
        \/ UNCHANGED <<raids, history>> /\ seq <= seq'
    BY <1>0, <1>13, AuctionStepQuiet DEF raidVars, Emit
  <2> QED
    BY <1>1, <2>1, <2>2
<1>14. CASE UNCHANGED ledgerVars
  <2>1. UNCHANGED <<raids, history>> /\ seq <= seq'
    BY <1>0, <1>14 DEF ledgerVars, accountVars, raidVars
  <2> QED
    BY <1>1, <2>1
<1> QED
  BY <1>2, <1>12, <1>13, <1>14 DEF LedgerNext

\* What a booked award leaves: one new entry, and one award line for each of
\* the players on it.
EntryAdded(r, e) ==
  /\ seq <= e.seq /\ e.seq < seq'
  /\ raids'[r].entries = raids[r].entries \cup {e}
  /\ raids'[r].status \in {"active", "ended"}
  /\ \A s \in RaidIds \ {r} : raids'[s] = raids[s]
  /\ \A p \in Players, s \in RaidIds :
       history'[p][s]["award"] = history[p][s]["award"]
         + (IF s = r /\ p \in e.players THEN e.amount ELSE 0)

\* Booking an entry in the code means one more entry in the set of one raid.
LEMMA EntryBookedAdds ==
  ASSUME LedgerTypeOK, EntryBooked
  PROVE  \E r \in RaidIds, e \in Entry : EntryAdded(r, e)
<1>0. /\ AccountsTypeOK /\ raids \in [RaidIds -> Raid] /\ now \in Time
      /\ history \in [Players -> [RaidRefs -> [LineKinds -> Int]]]
  BY DEF LedgerTypeOK, RaidsTypeOK, AccountsTypeOK
<1>1. PICK raid, ref, n, kind, present, amount :
        BooksAward(raid, ref, n, kind, present, amount)
  BY DEF EntryBooked
<1>2. /\ Award(raid, ref, n, kind, present, amount)
      /\ raid \in Raid /\ ref \in RaidRef /\ ref.id \in RaidIds
      /\ kind \in {"Start", "Tick", "Award", "End"}
      /\ present \in SUBSET Players /\ amount \in Nat
      /\ raid.entries = raids[ref.id].entries
      /\ raid.status \in {"active", "ended"}
      /\ n \in Nat /\ seq <= n /\ n < seq'
  BY <1>1 DEF BooksAward
<1> DEFINE e == [seq |-> n, kind |-> kind, ts |-> now, players |-> present,
                 amount |-> amount]
           r == ref.id
           new == [raid EXCEPT !.entries = raid.entries \cup {e}]
<1>3. e \in Entry /\ e.seq = n /\ e.players = present /\ e.amount = amount
  BY <1>0, <1>2 DEF Entry
<1>4. raids' = [raids EXCEPT ![r] = new]
  BY <1>2 DEF Award
<1>5. r \in RaidIds
  BY <1>2
<1> HIDE DEF e
<1>6. new.entries = raid.entries \cup {e} /\ new.status = raid.status
  BY <1>2 DEF Raid
<1> HIDE DEF new
<1>7. /\ raids'[r].entries = raids[r].entries \cup {e}
      /\ raids'[r].status \in {"active", "ended"}
      /\ \A s \in RaidIds \ {r} : raids'[s] = raids[s]
  BY <1>0, <1>2, <1>4, <1>5, <1>6
<1>8. ASSUME NEW p \in Players, NEW s \in RaidIds
      PROVE  history'[p][s]["award"] = history[p][s]["award"]
               + (IF s = r /\ p \in present THEN amount ELSE 0)
  <2>1. s \in RaidRefs /\ "award" \in LineKinds /\ history[p][s]["award"] \in Int
    BY <1>0 DEF RaidRefs, LineKinds
  <2>2. CASE amount = 0
    <3>1. history' = history
      BY <1>2, <2>2 DEF Award
    <3> QED
      BY <2>1, <2>2, <3>1
  <2>3. CASE amount # 0
    <3> DEFINE delta == [q \in present |-> amount]
    <3>1. /\ Post(delta, ref, "award") /\ DOMAIN delta = present
          /\ \A q \in present : delta[q] = amount
      BY <1>2, <2>3 DEF Award
    <3>2. DOMAIN delta \subseteq Players /\ \A q \in DOMAIN delta : delta[q] \in Int
      BY <1>2, <3>1
    <3> HIDE DEF delta
    <3>3. AccountsTypeOK /\ ref \in RaidRef
      BY <1>0, <1>2
    <3>4. /\ p \notin DOMAIN delta => history'[p] = history[p]
          /\ p \in DOMAIN delta =>
               history'[p][ref.id]["award"] = history[p][ref.id]["award"] + delta[p]
          /\ s # ref.id => history'[p][s]["award"] = history[p][s]["award"]
      BY <2>1, <3>1, <3>2, <3>3, PostWrites
    <3> QED
      BY <2>1, <3>1, <3>4
  <2> QED
    BY <2>2, <2>3
<1>9. EntryAdded(r, e)
  BY <1>2, <1>3, <1>7, <1>8 DEF EntryAdded
<1> QED
  BY <1>3, <1>5, <1>9

\* What a merge makes of the entries.
LEMMA MergeMoves ==
  ASSUME LedgerTypeOK, NEW from \in RaidIds, NEW into \in RaidIds,
         MergeRaid(from, into)
  PROVE  /\ raids'[into].entries = raids[from].entries \cup raids[into].entries
         /\ raids'[into].status = "ended"
         /\ raids'[from].entries = {} /\ raids'[from].status = "gone"
         /\ \A r \in RaidIds \ {from, into} : raids'[r] = raids[r]
<1>1. /\ raids \in [RaidIds -> Raid] /\ from # into
      /\ raids[into].status = "ended"
      /\ raids' = [raids EXCEPT ![into] = Joined(from, into), ![from] = Gone(from)]
  BY DEF LedgerTypeOK, RaidsTypeOK, MergeRaid
<1>2. /\ Joined(from, into).entries = raids[from].entries \cup raids[into].entries
      /\ Joined(from, into).status = raids[into].status
      /\ Gone(from).entries = {} /\ Gone(from).status = "gone"
  BY <1>1 DEF Joined, Gone, Raid
<1> QED
  BY <1>1, <1>2

\* The entries stay tidy.
LEMMA EntriesTidyStep ==
  ASSUME LedgerTypeOK, LedgerTypeOK', EntriesTidy,
         EntriesKept \/ EntryBooked \/ EntriesMerged
  PROVE  EntriesTidy'
<1>0. /\ seq \in Nat /\ seq' \in Nat
      /\ \A r \in RaidIds : raids[r].entries \subseteq Entry
      /\ \A e \in Entry : e.seq \in Nat
  BY DEF LedgerTypeOK, RaidsTypeOK, AccountsTypeOK, Raid, Entry
<1> USE DEF EntriesTidy
<1>1. CASE EntriesKept
  BY <1>0, <1>1 DEF EntriesKept
<1>2. CASE EntryBooked
  <2>1. PICK r \in RaidIds, e \in Entry : EntryAdded(r, e)
    BY <1>2, EntryBookedAdds
  <2>2. /\ seq <= e.seq /\ e.seq < seq' /\ e.seq \in Nat
        /\ raids'[r].entries = raids[r].entries \cup {e}
        /\ raids'[r].status \in {"active", "ended"}
        /\ \A s \in RaidIds \ {r} : raids'[s] = raids[s]
    BY <1>0, <2>1 DEF EntryAdded
  <2>3. \A s \in RaidIds : e \notin raids[s].entries
    BY <1>0, <2>2
  <2>4. IsFiniteSet(raids[r].entries \cup {e})
    BY FS_AddElement
  <2>5. ASSUME NEW s \in RaidIds
        PROVE  /\ IsFiniteSet(raids'[s].entries)
               /\ raids'[s].status \in {"absent", "gone"} => raids'[s].entries = {}
    BY <2>2, <2>4
  <2>6. ASSUME NEW s \in RaidIds, NEW f \in raids'[s].entries
        PROVE  f.seq < seq'
    BY <1>0, <2>2
  <2>7. ASSUME NEW s \in RaidIds, NEW t \in RaidIds \ {s}
        PROVE  raids'[s].entries \cap raids'[t].entries = {}
    BY <2>2, <2>3
  <2> QED
    BY <2>5, <2>6, <2>7
<1>3. CASE EntriesMerged
  <2>1. PICK from \in RaidIds, into \in RaidIds : MergeRaid(from, into)
    BY <1>3 DEF EntriesMerged
  <2>2. /\ raids'[into].entries = raids[from].entries \cup raids[into].entries
        /\ raids'[into].status = "ended"
        /\ raids'[from].entries = {}
        /\ \A r \in RaidIds \ {from, into} : raids'[r] = raids[r]
        /\ seq <= seq'
    BY <1>3, <2>1, MergeMoves DEF EntriesMerged
  <2>3. IsFiniteSet(raids[from].entries \cup raids[into].entries) /\ IsFiniteSet({})
    BY FS_Union, FS_EmptySet
  <2>5. ASSUME NEW s \in RaidIds
        PROVE  /\ IsFiniteSet(raids'[s].entries)
               /\ raids'[s].status \in {"absent", "gone"} => raids'[s].entries = {}
    BY <2>2, <2>3
  <2>6. ASSUME NEW s \in RaidIds, NEW f \in raids'[s].entries
        PROVE  f.seq < seq'
    BY <1>0, <2>2
  <2>7. ASSUME NEW s \in RaidIds, NEW t \in RaidIds \ {s}
        PROVE  raids'[s].entries \cap raids'[t].entries = {}
    BY <2>2
  <2> QED
    BY <2>5, <2>6, <2>7
<1> QED
  BY <1>1, <1>2, <1>3

\* No entry is lost.
LEMMA EntriesNotLost ==
  ASSUME LedgerTypeOK, EntriesKept \/ EntryBooked \/ EntriesMerged
  PROVE  AllEntries \subseteq AllEntries'
<1> SUFFICES ASSUME NEW r \in RaidIds, NEW e \in raids[r].entries
             PROVE  \E s \in RaidIds : e \in raids'[s].entries
  BY DEF AllEntries
<1>1. CASE EntriesKept
  BY <1>1 DEF EntriesKept
<1>2. CASE EntryBooked
  <2>1. PICK s \in RaidIds, f \in Entry : EntryAdded(s, f)
    BY <1>2, EntryBookedAdds
  <2> QED
    BY <2>1 DEF EntryAdded
<1>3. CASE EntriesMerged
  <2>1. PICK from \in RaidIds, into \in RaidIds : MergeRaid(from, into)
    BY <1>3 DEF EntriesMerged
  <2> QED
    BY <2>1, MergeMoves
<1> QED
  BY <1>1, <1>2, <1>3

\* The DKP a set of entries stands for.
Total(E) == SumFunction([e \in E |-> e.amount])

\* No entries award nothing.
LEMMA TotalOfNone == Total({}) = 0
BY SumEmpty DEF Total, SumFunction

\* Disjoint entries, as those of two raids that merge, award the sum of both.
LEMMA TotalOfUnion ==
  ASSUME NEW E \in SUBSET Entry, IsFiniteSet(E),
         NEW F \in SUBSET Entry, IsFiniteSet(F), E \cap F = {}
  PROVE  Total(E \cup F) = Total(E) + Total(F)
<1> DEFINE f == [e \in E \cup F |-> e.amount]
           g == [e \in E |-> e.amount]
           h == [e \in F |-> e.amount]
<1>1. /\ \A e \in E \cup F : f[e] \in Int
      /\ \A e \in E : f[e] = g[e]
      /\ \A e \in F : f[e] = h[e]
  BY DEF Entry
<1>2. /\ Total(E \cup F) = SumFunctionOnSet(f, E \cup F)
      /\ Total(E) = SumFunctionOnSet(g, E) /\ Total(F) = SumFunctionOnSet(h, F)
  BY DEF Total, SumFunction
<1> HIDE DEF f, g, h
<1>3. SumFunctionOnSet(f, E \cup F) = SumFunctionOnSet(f, E) + SumFunctionOnSet(f, F)
  BY <1>1, SumDisjoint
<1>4. SumFunctionOnSet(f, E) = SumFunctionOnSet(g, E)
  BY <1>1, SumSame
<1>5. SumFunctionOnSet(f, F) = SumFunctionOnSet(h, F)
  BY <1>1, SumSame
<1> QED
  BY <1>2, <1>3, <1>4, <1>5

\* One entry awards its amount.
LEMMA TotalOfOne ==
  ASSUME NEW e \in Entry
  PROVE  Total({e}) = e.amount
<1> DEFINE f == [d \in {e} |-> d.amount]
<1>1. \A d \in {} \cup {e} : f[d] \in Int
  BY DEF Entry
<1>2. Total({e}) = SumFunctionOnSet(f, {} \cup {e}) /\ f[e] = e.amount
  BY DEF Total, SumFunction
<1>3. f[e] \in Int
  BY <1>1
<1> HIDE DEF f
<1>4. SumFunctionOnSet(f, {} \cup {e}) = SumFunctionOnSet(f, {}) + f[e]
  BY <1>1, FS_EmptySet, SumInsert
<1> QED
  BY <1>2, <1>3, <1>4, SumEmpty

\* Awards and attendance stay together.
LEMMA AwardsMatchStep ==
  ASSUME LedgerTypeOK, LedgerTypeOK', EntriesTidy, AwardsMatchAttendance,
         EntriesKept \/ EntryBooked \/ EntriesMerged
  PROVE  AwardsMatchAttendance'
<1> SUFFICES ASSUME NEW p \in Players, NEW r \in RaidIds
             PROVE  history'[p][r]["award"] = Total(EntriesOf(p, r)')
  BY DEF AwardsMatchAttendance, Total
<1> DEFINE was(s) == EntriesOf(p, s)
           is(s)  == EntriesOf(p, s)'
           line(s) == history[p][s]["award"]
<1> SUFFICES history'[p][r]["award"] = Total(is(r))
  OBVIOUS
<1>0. ASSUME NEW s \in RaidIds
      PROVE  /\ line(s) = Total(was(s)) /\ line(s) \in Int
             /\ was(s) \in SUBSET Entry /\ IsFiniteSet(was(s))
             /\ was(s) = {e \in raids[s].entries : p \in e.players}
             /\ is(s)  = {e \in raids'[s].entries : p \in e.players}
  <2>1. was(s) \subseteq raids[s].entries
    BY DEF EntriesOf
  <2>2. raids[s].entries \subseteq Entry /\ IsFiniteSet(raids[s].entries)
    BY DEF LedgerTypeOK, RaidsTypeOK, Raid, EntriesTidy
  <2>3. line(s) = Total(was(s))
    BY DEF AwardsMatchAttendance, Total
  <2>4. line(s) \in Int
    BY DEF LedgerTypeOK, AccountsTypeOK, RaidRefs, LineKinds
  <2> QED
    BY <2>1, <2>2, <2>3, <2>4, FS_Subset DEF EntriesOf
<1>1. ASSUME raids'[r].entries = raids[r].entries,
             history'[p][r]["award"] = line(r)
      PROVE  history'[p][r]["award"] = Total(is(r))
  <2>1. is(r) = was(r)
    BY <1>0, <1>1
  <2> HIDE DEF is, was
  <2> QED
    BY <1>0, <1>1, <2>1
<1>2. CASE EntriesKept
  BY <1>1, <1>2 DEF EntriesKept
<1>3. CASE EntryBooked
  <2>1. PICK s \in RaidIds, e \in Entry : EntryAdded(s, e)
    BY <1>3, EntryBookedAdds
  <2>2. /\ raids'[s].entries = raids[s].entries \cup {e}
        /\ \A t \in RaidIds \ {s} : raids'[t] = raids[t]
        /\ history'[p][r]["award"] =
             line(r) + (IF r = s /\ p \in e.players THEN e.amount ELSE 0)
        /\ seq <= e.seq
    BY <2>1 DEF EntryAdded
  <2>3. CASE r # s
    BY <1>0, <1>1, <2>2, <2>3
  <2>4. CASE r = s /\ p \notin e.players
    <3>1. is(r) = was(r)
      BY <1>0, <2>2, <2>4
    <3>2. history'[p][r]["award"] = line(r)
      BY <1>0, <2>2, <2>4
    <3> HIDE DEF is, was
    <3> QED
      BY <1>0, <3>1, <3>2
  <2>5. CASE r = s /\ p \in e.players
    <3>1. is(r) = was(r) \cup {e}
      BY <1>0, <2>2, <2>5
    <3>2. e \notin was(r)
      <4>1. seq \in Nat /\ e.seq \in Nat
        BY DEF LedgerTypeOK, AccountsTypeOK, Entry
      <4> QED
        BY <1>0, <2>2, <4>1 DEF EntriesTidy
    <3>3. /\ IsFiniteSet({e}) /\ {e} \in SUBSET Entry
          /\ e.amount \in Int /\ Total({e}) = e.amount
      <4>1. IsFiniteSet({e})
        BY FS_Singleton
      <4>2. e.amount \in Int
        BY DEF Entry
      <4> QED
        BY <4>1, <4>2, TotalOfOne
    <3>4. history'[p][r]["award"] = line(r) + e.amount
      BY <2>2, <2>5
    <3> HIDE DEF is, was
    <3>5. Total(was(r) \cup {e}) = Total(was(r)) + Total({e})
      BY <1>0, <3>2, <3>3, TotalOfUnion
    <3> QED
      BY <1>0, <3>1, <3>3, <3>4, <3>5
  <2> QED
    BY <2>3, <2>4, <2>5
<1>4. CASE EntriesMerged
  <2>1. PICK from \in RaidIds, into \in RaidIds : MergeRaid(from, into)
    BY <1>4 DEF EntriesMerged
  <2>2. /\ raids'[into].entries = raids[from].entries \cup raids[into].entries
        /\ raids'[from].entries = {}
        /\ \A t \in RaidIds \ {from, into} : raids'[t] = raids[t]
    BY <2>1, MergeMoves
  <2>3. /\ from # into
        /\ history'[p][into]["award"] = line(into) + line(from)
        /\ history'[p][from]["award"] = 0
        /\ \A t \in RaidRefs \ {from, into} : history'[p][t] = history[p][t]
    BY <2>1, MergeWrites DEF LedgerTypeOK, LineKinds
  <2>4. CASE r \notin {from, into}
    BY <1>1, <2>2, <2>3, <2>4 DEF RaidRefs
  <2>5. CASE r = from
    <3>1. is(r) = {}
      BY <1>0, <2>2, <2>5
    <3> QED
      BY <2>3, <2>5, <3>1, TotalOfNone
  <2>6. CASE r = into
    <3>1. is(r) = was(into) \cup was(from)
      BY <1>0, <2>2, <2>6
    <3>2. was(into) \cap was(from) = {}
      BY <1>0, <2>3 DEF EntriesTidy
    <3> HIDE DEF is, was
    <3>3. Total(was(into) \cup was(from)) = Total(was(into)) + Total(was(from))
      BY <1>0, <3>2, TotalOfUnion
    <3> QED
      BY <1>0, <2>3, <2>6, <3>1, <3>3
  <2> QED
    BY <2>4, <2>5, <2>6
<1> QED
  BY <1>2, <1>3, <1>4

\* The entries of a new ledger are in order, and so are the awards.
LEMMA EntriesTidyInit == LedgerInit => EntriesTidy /\ AwardsMatchAttendance
<1> SUFFICES ASSUME LedgerInit PROVE EntriesTidy /\ AwardsMatchAttendance
  OBVIOUS
<1>1. \A r \in RaidIds : raids[r].entries = {}
  BY DEF LedgerInit, RaidsInit, NewRaid
<1>2. EntriesTidy
  BY <1>1, FS_EmptySet DEF EntriesTidy
<1>3. ASSUME NEW p \in Players, NEW r \in RaidIds
      PROVE  history[p][r]["award"] = Total(EntriesOf(p, r))
  <2>1. EntriesOf(p, r) = {}
    BY <1>1 DEF EntriesOf
  <2>2. history[p][r]["award"] = 0
    BY DEF LedgerInit, AccountsInit, RaidRefs, LineKinds
  <2> QED
    BY <2>1, <2>2, TotalOfNone
<1> QED
  BY <1>2, <1>3 DEF AwardsMatchAttendance, Total

\* Awards match the attendance, over every merge; no entry is ever lost.
THEOREM AwardsAlwaysMatch ==
  LedgerSpec => []AwardsMatchAttendance /\ AttendanceKept
<1> DEFINE Inv == EntriesTidy /\ AwardsMatchAttendance
           NotLost == AllEntries \subseteq AllEntries'
<1>1. LedgerInit => Inv
  BY EntriesTidyInit
<1>2. Inv /\ LedgerTypeOK /\ OneActiveRaid /\ [LedgerNext]_ledgerVars
        => Inv' /\ NotLost
  <2> SUFFICES ASSUME Inv, LedgerTypeOK, OneActiveRaid, [LedgerNext]_ledgerVars
               PROVE  Inv' /\ NotLost
    OBVIOUS
  <2>1. LedgerTypeOK' /\ (EntriesKept \/ EntryBooked \/ EntriesMerged)
    BY LedgerNextType, EntriesStep
  <2> QED
    BY <2>1, EntriesTidyStep, AwardsMatchStep, EntriesNotLost
<1>3. AttendanceKept <=> [][NotLost]_ledgerVars
  BY DEF AttendanceKept
<1> HIDE DEF NotLost
<1> QED
  BY <1>1, <1>2, <1>3, LedgerTypeCorrect, OneActiveRaidAlways, PTL DEF LedgerSpec

\* No entry, and with it nobody's attendance, is lost in a merge.
THEOREM AttendanceAlwaysKept == LedgerSpec => AttendanceKept
BY AwardsAlwaysMatch

-----------------------------------------------------------------------------
(* The names log lines carry *)

\* A step adds to the lines that name ref.id the names of ref, or none.
NamesGrow(ref) ==
  \A p \in Players, r \in RaidRefs :
    \/ lineNames'[p][r] = lineNames[p][r]
    \/ r = ref.id /\ lineNames'[p][r] = lineNames[p][r] \cup ref.names

\* A posted line carries the names of its reference, and no other line changes.
LEMMA PostNames ==
  ASSUME AccountsTypeOK, NEW ref \in RaidRef, NEW delta, NEW k,
         Post(delta, ref, k)
  PROVE  NamesGrow(ref)
<1> SUFFICES ASSUME NEW p \in Players, NEW r \in RaidRefs
             PROVE  \/ lineNames'[p][r] = lineNames[p][r]
                    \/ r = ref.id /\ lineNames'[p][r] = lineNames[p][r] \cup ref.names
  BY DEF NamesGrow
<1>1. lineNames[p] \in [RaidRefs -> SUBSET Names]
  BY DEF AccountsTypeOK
<1>2. lineNames'[p] = IF p \in DOMAIN delta
                      THEN [lineNames[p] EXCEPT ![ref.id] = @ \cup ref.names]
                      ELSE lineNames[p]
  BY DEF Post
<1> QED
  BY <1>1, <1>2

\* An award writes the names of its raid into its lines, and changes one raid.
LEMMA AwardNames ==
  ASSUME AccountsTypeOK, NEW ref \in RaidRef, NEW raid, NEW n, NEW kind,
         NEW present, NEW amount, Award(raid, ref, n, kind, present, amount)
  PROVE  NamesGrow(ref) /\ raids' = [raids EXCEPT ![ref.id] = raids'[ref.id]]
<1>1. NamesGrow(ref)
  <2>1. CASE amount = 0
    BY <2>1 DEF Award, NamesGrow
  <2>2. CASE amount # 0
    <3>1. Post([q \in present |-> amount], ref, "award")
      BY <2>2 DEF Award
    <3> QED
      BY <3>1, PostNames
  <2> QED
    BY <2>1, <2>2
<1> QED
  BY <1>1 DEF Award

\* The line names stay right when the raid written about keeps its name, or
\* had no lines, and the others keep theirs.
LEMMA NamesKept ==
  ASSUME LinesNameTheirRaid, NEW ref, NamesGrow(ref),
         \A r \in RaidIds \ {ref.id} :
           raids'[r].name = raids[r].name /\ (Exists(r) => Exists(r)'),
         ref.id \in RaidIds =>
           /\ ref.names = {raids'[ref.id].name} /\ Exists(ref.id)'
           /\ raids'[ref.id].name = raids[ref.id].name \/ ~ Exists(ref.id)
  PROVE  LinesNameTheirRaid'
<1> SUFFICES ASSUME NEW p \in Players, NEW r \in RaidIds, lineNames'[p][r] # {}
             PROVE  Exists(r)' /\ lineNames'[p][r] = {raids'[r].name}
  BY DEF LinesNameTheirRaid
<1>1. lineNames[p][r] # {} => Exists(r) /\ lineNames[p][r] = {raids[r].name}
  BY DEF LinesNameTheirRaid
<1>2. \/ lineNames'[p][r] = lineNames[p][r]
      \/ r = ref.id /\ lineNames'[p][r] = lineNames[p][r] \cup ref.names
  BY DEF NamesGrow, RaidRefs
<1> HIDE DEF Exists
<1>3. CASE r # ref.id
  BY <1>1, <1>2, <1>3
<1>4. CASE r = ref.id
  BY <1>1, <1>2, <1>4
<1> QED
  BY <1>3, <1>4

\* Every step leaves the lines with the names of their raids.
LEMMA LinesNameStep ==
  ASSUME LedgerTypeOK, OneActiveRaid, LinesNameTheirRaid, [LedgerNext]_ledgerVars
  PROVE  LinesNameTheirRaid'
<1>0. /\ AccountsTypeOK /\ RaidsTypeOK /\ ActiveRef \in RaidRef
      /\ owner \in [Characters -> Players \cup {Nobody}]
      /\ activeRaid \in RaidIds \cup {NoRaid} /\ raids \in [RaidIds -> Raid]
      /\ lineNames \in [Players -> [RaidRefs -> SUBSET Names]]
  BY ActiveRefType DEF LedgerTypeOK, AccountsTypeOK, RaidsTypeOK, RaidRefs
<1>1. ASSUME activeRaid # NoRaid
      PROVE  /\ activeRaid \in RaidIds /\ raids[activeRaid] \in Raid
             /\ raids[activeRaid].status = "active" /\ Exists(activeRaid)
             /\ RefOf(activeRaid) \in RaidRef /\ RefOf(activeRaid).id = activeRaid
             /\ RefOf(activeRaid).names = {raids[activeRaid].name}
  <2>1. /\ activeRaid \in RaidIds /\ raids[activeRaid] \in Raid
        /\ raids[activeRaid].status = "active"
    BY <1>0, <1>1 DEF OneActiveRaid
  <2> QED
    BY <1>0, <2>1, RefOfType DEF Exists, RefOf
<1>2. ASSUME NamesGrow(ActiveRef), UNCHANGED raids
      PROVE  LinesNameTheirRaid'
  <2>1. \A r \in RaidIds : raids'[r].name = raids[r].name /\ (Exists(r) => Exists(r)')
    BY <1>2 DEF Exists
  <2>2. PICK ref : ref = ActiveRef
    OBVIOUS
  <2>3. ref.id \in RaidIds =>
          /\ ref.names = {raids[ref.id].name} /\ Exists(ref.id)
    BY <1>1, <2>2, RaidIdsAssumption DEF ActiveRef, NoRef
  <2>4. NamesGrow(ref)
    BY <1>2, <2>2 DEF NamesGrow
  <2> QED
    BY <2>1, <2>3, <2>4, NamesKept
<1>3. ASSUME UNCHANGED lineNames,
             \A r \in RaidIds : raids'[r].name = raids[r].name
                                  /\ raids'[r].status = raids[r].status
      PROVE  LinesNameTheirRaid'
  BY <1>3 DEF LinesNameTheirRaid, Exists
<1>4. CASE AccountsStep(ActiveRef) /\ UNCHANGED <<raidVars, auctions>>
  <2>1. UNCHANGED raids
    BY <1>4 DEF raidVars
  <2>2. ASSUME NEW p \in Players, NEW d, AdjustDkp(p, d, ActiveRef)
        PROVE  LinesNameTheirRaid'
    <3>1. Post([q \in {p} |-> d], ActiveRef, "adjust")
      BY <2>2 DEF AdjustDkp
    <3>2. NamesGrow(ActiveRef)
      BY <1>0, <3>1, PostNames
    <3> QED
      BY <1>2, <2>1, <3>2
  <2>3. ASSUME NEW c \in Characters, NEW d \in Deltas,
               AdjustByCharacter(c, d, ActiveRef)
        PROVE  LinesNameTheirRaid'
    BY <1>0, <2>2, <2>3 DEF AdjustByCharacter
  <2>4. ASSUME NEW p \in Players, NEW c \in Characters, LinkCharacter(p, c)
        PROVE  LinesNameTheirRaid'
    BY <1>3, <2>1, <2>4 DEF LinkCharacter
  <2> QED
    BY <1>4, <2>2, <2>3, <2>4 DEF AccountsStep
<1>5. ASSUME NEW r \in RaidIds, NEW name \in Names, NEW d \in TickDkps,
             NEW S \in SUBSET Players, StartRaid(r, name, d, S)
      PROVE  LinesNameTheirRaid'
  <2> DEFINE raid == NewRaid(name, d, "active")
             ref  == [id |-> r, names |-> {name}]
  <2>1. /\ Award(raid, ref, seq + 1, "Start", S, d)
        /\ raids[r].status = "absent"
    BY <1>5 DEF StartRaid
  <2>2. /\ ref \in RaidRef /\ ref.id = r /\ ref.names = {name}
        /\ raid \in Raid /\ raid.name = name /\ raid.status = "active"
    BY TickDkpsAssumption DEF RaidRef, RaidRefs, NewRaid, Raid
  <2> HIDE DEF ref, raid
  <2>3. NamesGrow(ref) /\ raids' = [raids EXCEPT ![r] = raids'[r]]
    BY <1>0, <2>1, <2>2, AwardNames
  <2>4. raids'[r].name = name /\ raids'[r].status = "active"
    BY <1>0, <2>1, <2>2 DEF Award, Raid
  <2>5. \A s \in RaidIds \ {r} : raids'[s] = raids[s]
    BY <1>0, <2>3
  <2> QED
    BY <2>1, <2>2, <2>3, <2>4, <2>5, NamesKept DEF Exists
<1>6. ASSUME activeRaid # NoRaid,
             NEW raid \in Raid, raid.name = raids[activeRaid].name,
             raid.status \in {"active", "ended"},
             NEW n, NEW kind, NEW S, NEW amount,
             Award(raid, RefOf(activeRaid), n, kind, S, amount)
      PROVE  LinesNameTheirRaid'
  <2>1. PICK ref, r : ref = RefOf(activeRaid) /\ r = activeRaid
    OBVIOUS
  <2>2. /\ ref \in RaidRef /\ ref.id = r /\ ref.names = {raids[r].name}
        /\ r \in RaidIds /\ raid.name = raids[r].name
        /\ Award(raid, ref, n, kind, S, amount)
    BY <1>1, <1>6, <2>1
  <2>3. NamesGrow(ref) /\ raids' = [raids EXCEPT ![r] = raids'[r]]
    BY <1>0, <2>2, AwardNames
  <2>4. raids'[r].name = raids[r].name /\ raids'[r].status \in {"active", "ended"}
    BY <1>0, <1>6, <2>2 DEF Award, Raid
  <2>5. \A s \in RaidIds \ {r} : raids'[s] = raids[s]
    BY <1>0, <2>2, <2>3
  <2> QED
    BY <2>2, <2>3, <2>4, <2>5, NamesKept DEF Exists
<1>7. ASSUME NEW S \in SUBSET Players, Tick(S)
      PROVE  LinesNameTheirRaid'
  <2> DEFINE was  == raids[activeRaid]
             raid == [was EXCEPT !.tickNo = was.tickNo + 1]
  <2>1. /\ activeRaid # NoRaid
        /\ Award(raid, RefOf(activeRaid), seq, "Tick", S, was.perTick)
    BY <1>7 DEF Tick
  <2>2. was \in Raid /\ was.status = "active" /\ was.name = raids[activeRaid].name
    BY <1>1, <2>1
  <2> HIDE DEF was
  <2>3. raid \in Raid /\ raid.name = was.name /\ raid.status = "active"
    BY <2>2 DEF Raid
  <2> HIDE DEF raid
  <2> QED
    BY <1>6, <2>1, <2>2, <2>3
<1>8. ASSUME NEW S \in SUBSET Players, EndRaid(S)
      PROVE  LinesNameTheirRaid'
  <2> DEFINE was  == raids[activeRaid]
             raid == [was EXCEPT !.status = "ended"]
  <2>1. /\ activeRaid # NoRaid
        /\ Award(raid, RefOf(activeRaid), seq, "End", S, 0)
    BY <1>8 DEF EndRaid
  <2>2. was \in Raid /\ was.name = raids[activeRaid].name
    BY <1>1, <2>1
  <2> HIDE DEF was
  <2>3. raid \in Raid /\ raid.name = was.name /\ raid.status = "ended"
    BY <2>2 DEF Raid
  <2> HIDE DEF raid
  <2> QED
    BY <1>6, <2>1, <2>2, <2>3
<1>9. ASSUME NEW S \in SUBSET Players, NEW a \in Awards, AwardRaid(S, a)
      PROVE  LinesNameTheirRaid'
  BY <1>1, <1>6, <1>9 DEF AwardRaid
<1>10. ASSUME NEW from \in RaidIds, NEW into \in RaidIds, MergeRaid(from, into)
       PROVE  LinesNameTheirRaid'
  <2>1. /\ from # into /\ raids[into].status = "ended"
        /\ raids' = [raids EXCEPT ![into] = Joined(from, into), ![from] = Gone(from)]
    BY <1>10 DEF MergeRaid
  <2>2. /\ raids'[into].name = raids[into].name /\ raids'[into].status = "ended"
        /\ \A r \in RaidIds \ {from, into} : raids'[r] = raids[r]
    BY <1>0, <2>1 DEF Joined, Raid
  <2>3. ASSUME NEW p \in Players
        PROVE  /\ lineNames'[p][into] \subseteq lineNames[p][into] \cup {raids[into].name}
               /\ lineNames'[p][from] = {}
               /\ \A r \in RaidRefs \ {from, into} : lineNames'[p][r] = lineNames[p][r]
    <3> DEFINE both == lineNames[p][into] \cup
                         (IF lineNames[p][from] = {} THEN {} ELSE {raids[into].name})
    <3>1. /\ lineNames'[p] = [lineNames[p] EXCEPT ![into] = both, ![from] = {}]
          /\ lineNames[p] \in [RaidRefs -> SUBSET Names]
      BY <1>0, <1>10 DEF MergeRaid
    <3>2. both \subseteq lineNames[p][into] \cup {raids[into].name}
      OBVIOUS
    <3> HIDE DEF both
    <3> QED
      BY <2>1, <3>1, <3>2 DEF RaidRefs
  <2>4. ASSUME NEW p \in Players, NEW r \in RaidIds, lineNames'[p][r] # {}
        PROVE  Exists(r)' /\ lineNames'[p][r] = {raids'[r].name}
    <3>1. lineNames[p][r] # {} => Exists(r) /\ lineNames[p][r] = {raids[r].name}
      BY DEF LinesNameTheirRaid
    <3>2. CASE r \notin {from, into}
      BY <2>2, <2>3, <2>4, <3>1, <3>2 DEF Exists, RaidRefs
    <3>3. CASE r = into
      <4>1. lineNames[p][into] \subseteq {raids[into].name}
        BY <3>1, <3>3
      <4>2. lineNames'[p][into] \subseteq {raids[into].name}
        BY <2>3, <4>1
      <4> QED
        BY <2>2, <2>4, <3>3, <4>2 DEF Exists
    <3> QED
      BY <2>3, <2>4, <3>2, <3>3
  <2> QED
    BY <2>4 DEF LinesNameTheirRaid
<1>11. ASSUME NEW r \in RaidIds, NEW K \in SUBSET Kills, RecordRaidKills(r, K)
       PROVE  LinesNameTheirRaid'
  <2>1. raids' = [raids EXCEPT ![r].kills = K] /\ UNCHANGED lineNames
    BY <1>11 DEF RecordRaidKills
  <2>2. \A s \in RaidIds : /\ raids'[s].name = raids[s].name
                           /\ raids'[s].status = raids[s].status
    BY <1>0, <2>1 DEF Raid
  <2> QED
    BY <1>3, <2>1, <2>2
<1>12. ASSUME NEW r \in RaidIds, NEW name \in Names, RenameRaid(r, name)
       PROVE  LinesNameTheirRaid'
  <2>1. raids' = [raids EXCEPT ![r].name = name] /\ Exists(r)
    BY <1>12 DEF RenameRaid
  <2>2. /\ raids'[r].name = name /\ raids'[r].status = raids[r].status
        /\ \A s \in RaidIds \ {r} : raids'[s] = raids[s]
    BY <1>0, <2>1 DEF Raid
  <2>3. ASSUME NEW p \in Players
        PROVE  /\ lineNames'[p][r] \in {{}, {name}}
               /\ \A s \in RaidRefs \ {r} : lineNames'[p][s] = lineNames[p][s]
    <3>1. /\ lineNames'[p] = [lineNames[p] EXCEPT
                 ![r] = IF lineNames[p][r] = {} THEN {} ELSE {name}]
          /\ lineNames[p] \in [RaidRefs -> SUBSET Names]
      BY <1>0, <1>12 DEF RenameRaid
    <3> QED
      BY <3>1 DEF RaidRefs
  <2> QED
    BY <2>1, <2>2, <2>3 DEF LinesNameTheirRaid, Exists, RaidRefs
<1>13. CASE RaidStep
  <2>1. Clock => UNCHANGED <<raids, lineNames>>
    BY DEF Clock, accountVars
  <2>2. CASE UNCHANGED <<raids, lineNames>>
    BY <1>3, <2>2
  <2> QED
    BY <1>5, <1>7, <1>8, <1>9, <1>10, <1>11, <1>12, <1>13, <2>1, <2>2 DEF RaidStep
<1>14. CASE AuctionStep
  <2>1. ASSUME NEW a \in AuctionIds, FinalizeAuction(a)
        PROVE  LinesNameTheirRaid'
    <3> DEFINE won == WinnersOf(a, auctions[a].seed)
               delta == [p \in DOMAIN won |->
                           - (IF auctions[a].terms.debit THEN won[p] ELSE 0)]
    <3>1. Post(delta, ActiveRef, "loot") /\ UNCHANGED raids
      BY <2>1 DEF FinalizeAuction, raidVars
    <3> HIDE DEF delta
    <3>2. NamesGrow(ActiveRef)
      BY <1>0, <3>1, PostNames
    <3> QED
      BY <1>2, <3>1, <3>2
  <2>2. CASE UNCHANGED <<raids, lineNames>>
    BY <1>3, <2>2
  <2> QED
    BY <1>14, <2>1, <2>2, AuctionStepQuiet DEF raidVars
<1>15. CASE UNCHANGED ledgerVars
  BY <1>3, <1>15 DEF ledgerVars, accountVars, raidVars
<1> QED
  BY <1>4, <1>13, <1>14, <1>15 DEF LedgerNext

\* The copy of a raid's name on a log line is the raid's name, and the raid
\* is there: renames and merges reach every line.
THEOREM LinesAlwaysNameTheirRaid == LedgerSpec => []LinesNameTheirRaid
<1>1. LedgerInit => LinesNameTheirRaid
  BY DEF LedgerInit, AccountsInit, LinesNameTheirRaid, RaidRefs
<1> QED
  BY <1>1, LinesNameStep, LedgerTypeCorrect, OneActiveRaidAlways, PTL
     DEF LedgerSpec

-----------------------------------------------------------------------------
(* Paid ticks *)

\* The clock is never stepped back: the hypothesis under which an interval on
\* the clock is one on the wall.
ClockForward == ClockSteps \subseteq Nat

\* A list of entries as it is at time t: numbered in the order of their times,
\* none from the future, with a last one, and its paid ticks an interval apart.
WellTimed(E, t) ==
  /\ \A e, f \in E : e.seq <= f.seq => e.ts <= f.ts
  /\ \A e \in E : e.ts <= t
  /\ E # {} => \E e \in E : \A f \in E : f.seq <= e.seq
  /\ \A e, f \in E : e # f /\ {e.kind, f.kind} \subseteq {"Start", "Tick"} =>
       e.ts - f.ts >= TickInterval \/ f.ts - e.ts >= TickInterval

TicksTimed == activeRaid # NoRaid => WellTimed(raids[activeRaid].entries, now)

\* What the order of the entries reads: numbers.
LEMMA EntryFields ==
  ASSUME NEW e \in Entry
  PROVE  e.seq \in Nat /\ e.ts \in Int
BY ClockAssumption DEF Entry, Time

\* A later entry keeps the list well timed, if it is no paid tick or an
\* interval passed since all the others.
LEMMA WellTimedInsert ==
  ASSUME NEW E \in SUBSET Entry, NEW t, WellTimed(E, t),
         NEW e \in Entry, e.ts = t, \A f \in E : f.seq < e.seq,
         e.kind \in {"Start", "Tick"} => \A f \in E : f.ts + TickInterval <= t
  PROVE  WellTimed(E \cup {e}, t)
<1>0. /\ TickInterval \in Nat /\ e.seq \in Nat /\ e.ts \in Int /\ t \in Int
      /\ \A f \in E : f.seq \in Nat /\ f.ts \in Int
  BY TickIntervalAssumption, EntryFields
<1>1. /\ \A d, f \in E : d.seq <= f.seq => d.ts <= f.ts
      /\ \A d \in E : d.ts <= t
      /\ \A d, f \in E : d # f /\ {d.kind, f.kind} \subseteq {"Start", "Tick"} =>
           d.ts - f.ts >= TickInterval \/ f.ts - d.ts >= TickInterval
  BY DEF WellTimed
<1>2. \A d, f \in E \cup {e} : d.seq <= f.seq => d.ts <= f.ts
  BY <1>0, <1>1
<1>3. \A d \in E \cup {e} : d.ts <= t
  BY <1>0, <1>1
<1>4. \E d \in E \cup {e} : \A f \in E \cup {e} : f.seq <= d.seq
  BY <1>0
<1>5. ASSUME NEW d \in E \cup {e}, NEW f \in E \cup {e}, d # f,
             {d.kind, f.kind} \subseteq {"Start", "Tick"}
      PROVE  d.ts - f.ts >= TickInterval \/ f.ts - d.ts >= TickInterval
  <2>1. CASE d \in E /\ f \in E
    BY <1>1, <1>5, <2>1
  <2>2. CASE d = e /\ f \in E
    BY <1>0, <1>5, <2>2
  <2>3. CASE d \in E /\ f = e
    BY <1>0, <1>5, <2>3
  <2> QED
    BY <1>5, <2>1, <2>2, <2>3
<1> QED
  BY <1>2, <1>3, <1>4, <1>5 DEF WellTimed

\* When a tick is due, an interval passed since every entry of the raid.
LEMMA TickDueSinceAll ==
  ASSUME RaidsTypeOK, NEW r \in RaidIds, WellTimed(raids[r].entries, now),
         TickDue(r)
  PROVE  \A f \in raids[r].entries : f.ts + TickInterval <= now
<1> DEFINE E == raids[r].entries
           last == LastEntry(r)
<1> SUFFICES ASSUME NEW f \in E PROVE f.ts + TickInterval <= now
  OBVIOUS
<1>1. \E e \in E : \A d \in E : d.seq <= e.seq
  BY DEF WellTimed
<1>2. last \in E /\ \A d \in E : d.seq <= last.seq
  BY <1>1 DEF LastEntry
<1>3. f.ts <= last.ts
  BY <1>2 DEF WellTimed
<1>4. last.ts + TickInterval <= now
  BY DEF TickDue
<1>5. E \subseteq Entry /\ TickInterval \in Nat /\ now \in Int
  BY TickIntervalAssumption, ClockAssumption DEF RaidsTypeOK, Raid, Time
<1>6. f.ts \in Int /\ last.ts \in Int
  BY <1>2, <1>5, EntryFields
<1> HIDE DEF last
<1> QED
  BY <1>3, <1>4, <1>5, <1>6

\* An award leaves the list of its raid well timed.
LEMMA AwardTimed ==
  ASSUME LedgerTypeOK, NEW r \in RaidIds, NEW raid \in Raid, NEW ref, ref.id = r,
         NEW n \in Nat, NEW kind \in {"Start", "Tick", "Award", "End"},
         NEW S \in SUBSET Players, NEW amount \in Nat,
         Award(raid, ref, n, kind, S, amount),
         WellTimed(raid.entries, now), \A f \in raid.entries : f.seq < n,
         kind \in {"Start", "Tick"} =>
           \A f \in raid.entries : f.ts + TickInterval <= now
  PROVE  WellTimed(raids'[r].entries, now)
<1> DEFINE e == [seq |-> n, kind |-> kind, ts |-> now, players |-> S,
                 amount |-> amount]
           new == [raid EXCEPT !.entries = raid.entries \cup {e}]
<1>1. e \in Entry /\ e.seq = n /\ e.ts = now /\ e.kind = kind
  BY DEF Entry, LedgerTypeOK, RaidsTypeOK
<1>2. raids' = [raids EXCEPT ![r] = new] /\ raids \in [RaidIds -> Raid]
  BY DEF Award, LedgerTypeOK, RaidsTypeOK
<1> HIDE DEF e
<1>3. new.entries = raid.entries \cup {e} /\ raid.entries \subseteq Entry
  BY DEF Raid
<1> HIDE DEF new
<1>4. WellTimed(raid.entries \cup {e}, now)
  BY <1>1, <1>3, WellTimedInsert
<1> QED
  BY <1>2, <1>3, <1>4

\* The list of the running raid stays well timed.
LEMMA TicksTimedStep ==
  ASSUME ClockForward, LedgerTypeOK, OneActiveRaid, EntriesTidy, TicksTimed,
         [LedgerNext]_ledgerVars
  PROVE  TicksTimed'
<1>0. /\ AccountsTypeOK /\ RaidsTypeOK /\ seq \in Nat
      /\ activeRaid \in RaidIds \cup {NoRaid} /\ raids \in [RaidIds -> Raid]
      /\ now \in Int
  <2>1. now \in Time
    BY DEF LedgerTypeOK, RaidsTypeOK
  <2>2. now \in Int
    BY <2>1, ClockAssumption DEF Time
  <2> QED
    BY <2>2 DEF LedgerTypeOK, AccountsTypeOK, RaidsTypeOK, RaidRefs
<1>1. ASSUME activeRaid # NoRaid
      PROVE  /\ activeRaid \in RaidIds /\ raids[activeRaid] \in Raid
             /\ raids[activeRaid].status = "active"
             /\ \A f \in raids[activeRaid].entries : f.seq < seq
             /\ WellTimed(raids[activeRaid].entries, now)
  BY <1>0, <1>1 DEF OneActiveRaid, EntriesTidy, TicksTimed
<1>2. ASSUME activeRaid' = activeRaid, now' = now,
             activeRaid # NoRaid =>
               raids'[activeRaid].entries = raids[activeRaid].entries
      PROVE  TicksTimed'
  BY <1>2 DEF TicksTimed, WellTimed
<1>3. CASE UNCHANGED raidVars
  BY <1>2, <1>3 DEF raidVars
<1>4. ASSUME NEW r \in RaidIds, NEW name \in Names, NEW d \in TickDkps,
             NEW S \in SUBSET Players, StartRaid(r, name, d, S)
      PROVE  TicksTimed'
  <2> DEFINE raid == NewRaid(name, d, "active")
             ref  == [id |-> r, names |-> {name}]
  <2>1. /\ Award(raid, ref, seq + 1, "Start", S, d)
        /\ activeRaid' = r /\ now' = now
    BY <1>4 DEF StartRaid
  <2>2. raid \in Raid /\ ref.id = r /\ raid.entries = {} /\ d \in Nat
    BY TickDkpsAssumption DEF NewRaid, Raid
  <2> HIDE DEF raid, ref
  <2>3. /\ WellTimed(raid.entries, now)
        /\ \A f \in raid.entries : f.seq < seq + 1 /\ f.ts + TickInterval <= now
        /\ seq + 1 \in Nat
    BY <1>0, <2>2 DEF WellTimed
  <2>4. WellTimed(raids'[r].entries, now)
    BY <2>1, <2>2, <2>3, AwardTimed
  <2> QED
    BY <2>1, <2>4 DEF TicksTimed
<1>5. ASSUME activeRaid # NoRaid, activeRaid' = activeRaid, now' = now,
             NEW raid \in Raid, raid.entries = raids[activeRaid].entries,
             NEW kind \in {"Tick", "Award"}, NEW S \in SUBSET Players,
             NEW amount \in Nat,
             kind = "Tick" => TickDue(activeRaid),
             Award(raid, RefOf(activeRaid), seq, kind, S, amount)
      PROVE  TicksTimed'
  <2>1. PICK r \in RaidIds : r = activeRaid
    BY <1>1, <1>5
  <2>2. RefOf(r).id = r /\ Award(raid, RefOf(r), seq, kind, S, amount)
    BY <1>0, <1>5, <2>1, RefOfType
  <2>3. /\ WellTimed(raid.entries, now) /\ \A f \in raid.entries : f.seq < seq
        /\ kind = "Tick" => \A f \in raid.entries : f.ts + TickInterval <= now
    BY <1>0, <1>1, <1>5, <2>1, TickDueSinceAll
  <2>4. WellTimed(raids'[r].entries, now)
    BY <1>0, <1>5, <2>2, <2>3, AwardTimed
  <2> QED
    BY <1>5, <2>1, <2>4 DEF TicksTimed
<1>6. ASSUME NEW S \in SUBSET Players, Tick(S)
      PROVE  TicksTimed'
  <2> DEFINE was  == raids[activeRaid]
             raid == [was EXCEPT !.tickNo = was.tickNo + 1]
  <2>1. /\ activeRaid # NoRaid /\ TickDue(activeRaid)
        /\ activeRaid' = activeRaid /\ now' = now
        /\ Award(raid, RefOf(activeRaid), seq, "Tick", S, was.perTick)
    BY <1>6 DEF Tick
  <2>2. was \in Raid /\ was.entries = raids[activeRaid].entries
    BY <1>1, <2>1
  <2> HIDE DEF was
  <2>3. raid \in Raid /\ raid.entries = was.entries /\ was.perTick \in Nat
    BY <2>2 DEF Raid
  <2> HIDE DEF raid
  <2> QED
    BY <1>5, <2>1, <2>2, <2>3
<1>7. ASSUME NEW S \in SUBSET Players, NEW a \in Awards, AwardRaid(S, a)
      PROVE  TicksTimed'
  <2>1. /\ activeRaid # NoRaid /\ activeRaid' = activeRaid /\ now' = now
        /\ Award(raids[activeRaid], RefOf(activeRaid), seq, "Award", S, a)
        /\ a \in Nat
    BY <1>7, AwardsAssumption DEF AwardRaid
  <2> QED
    BY <1>1, <1>5, <2>1
<1>8. ASSUME NEW S \in SUBSET Players, EndRaid(S)
      PROVE  TicksTimed'
  BY <1>8 DEF EndRaid, TicksTimed
<1>9. ASSUME NEW from \in RaidIds, NEW into \in RaidIds, MergeRaid(from, into)
      PROVE  TicksTimed'
  <2>1. /\ raids[from].status = "ended" /\ raids[into].status = "ended"
        /\ activeRaid' = activeRaid /\ now' = now
    BY <1>9 DEF MergeRaid
  <2>2. \A r \in RaidIds \ {from, into} : raids'[r] = raids[r]
    BY <1>9, MergeMoves
  <2>3. activeRaid # NoRaid => activeRaid \in RaidIds \ {from, into}
    BY <1>1, <2>1
  <2> QED
    BY <1>2, <2>1, <2>2, <2>3
<1>10. ASSUME NEW r \in RaidIds, NEW K \in SUBSET Kills, RecordRaidKills(r, K)
       PROVE  TicksTimed'
  <2>1. /\ raids' = [raids EXCEPT ![r].kills = K]
        /\ activeRaid' = activeRaid /\ now' = now
    BY <1>10 DEF RecordRaidKills
  <2>2. \A s \in RaidIds : raids'[s].entries = raids[s].entries
    BY <1>0, <2>1 DEF Raid
  <2> QED
    BY <1>1, <1>2, <2>1, <2>2
<1>11. ASSUME NEW r \in RaidIds, NEW name \in Names, RenameRaid(r, name)
       PROVE  TicksTimed'
  <2>1. /\ raids' = [raids EXCEPT ![r].name = name]
        /\ activeRaid' = activeRaid /\ now' = now
    BY <1>11 DEF RenameRaid
  <2>2. \A s \in RaidIds : raids'[s].entries = raids[s].entries
    BY <1>0, <2>1 DEF Raid
  <2> QED
    BY <1>1, <1>2, <2>1, <2>2
<1>12. ASSUME Clock
       PROVE  TicksTimed'
  <2>1. UNCHANGED <<raids, activeRaid>> /\ now' \in Int /\ now <= now'
    BY <1>0, <1>12 DEF Clock, ClockForward
  <2>2. ASSUME activeRaid # NoRaid
        PROVE  WellTimed(raids[activeRaid].entries, now')
    <3>1. PICK E : E = raids[activeRaid].entries
      OBVIOUS
    <3>2. \A e \in E : e.ts \in Int
      BY <1>1, <2>2, <3>1, EntryFields DEF Raid
    <3>3. WellTimed(E, now)
      BY <1>1, <2>2, <3>1
    <3>4. WellTimed(E, now')
      BY <1>0, <2>1, <3>2, <3>3 DEF WellTimed
    <3> QED
      BY <3>1, <3>4
  <2> QED
    BY <2>1, <2>2 DEF TicksTimed
<1>13. CASE RaidStep
  BY <1>4, <1>6, <1>7, <1>8, <1>9, <1>10, <1>11, <1>12, <1>13 DEF RaidStep
<1>14. CASE AuctionStep
  <2>1. \A a : FinalizeAuction(a) => UNCHANGED raidVars
    BY DEF FinalizeAuction
  <2> QED
    BY <1>3, <1>14, <2>1, AuctionStepQuiet
<1> QED
  BY <1>3, <1>13, <1>14 DEF LedgerNext, ledgerVars

\* What is timed well is apart: there is one running raid.
LEMMA TicksTimedApart == TicksTimed /\ OneActiveRaid => TicksApart
<1> SUFFICES ASSUME TicksTimed, OneActiveRaid,
                    NEW r \in RaidIds, raids[r].status = "active",
                    NEW s \in RaidIds, raids[s].status = "active",
                    NEW e \in raids[r].entries, NEW f \in raids[s].entries,
                    e # f, {e.kind, f.kind} \subseteq {"Start", "Tick"}
             PROVE  e.ts - f.ts >= TickInterval \/ f.ts - e.ts >= TickInterval
  BY DEF TicksApart
<1>1. r = activeRaid /\ s = activeRaid /\ activeRaid # NoRaid
  BY DEF OneActiveRaid
<1> QED
  BY <1>1 DEF TicksTimed, WellTimed

\* Paid ticks of the running raid are an interval apart, whatever awards and
\* merges come in between.
THEOREM TicksAlwaysApart ==
  ASSUME ClockForward
  PROVE  LedgerSpec => []TicksApart
<1> DEFINE Inv == EntriesTidy /\ TicksTimed
<1>1. LedgerInit => Inv
  BY EntriesTidyInit DEF LedgerInit, RaidsInit, TicksTimed
<1>2. Inv /\ LedgerTypeOK /\ OneActiveRaid /\ [LedgerNext]_ledgerVars => Inv'
  BY EntriesStep, EntriesTidyStep, LedgerNextType, TicksTimedStep
<1>3. Inv /\ OneActiveRaid => TicksApart
  BY TicksTimedApart
<1> QED
  BY <1>1, <1>2, <1>3, LedgerTypeCorrect, OneActiveRaidAlways, PTL
     DEF LedgerSpec

-----------------------------------------------------------------------------
(* What winners were charged *)

LootKept == \A p \in Players, r \in RaidRefs :
              history'[p][r]["loot"] = history[p][r]["loot"]

\* The auctions that are settled, and what they say, are the same.
SettledSame ==
  \A a \in AuctionIds :
    /\ auctions[a].status = "finalized" => auctions'[a] = auctions[a]
    /\ auctions'[a].status = "finalized" => auctions[a].status = "finalized"

\* Lines of another kind leave the loot lines alone.
LEMMA PostKeepsLoot ==
  ASSUME AccountsTypeOK, NEW ref \in RaidRef, NEW k \in LineKinds \ {"loot"},
         NEW delta, DOMAIN delta \subseteq Players,
         \A q \in DOMAIN delta : delta[q] \in Int, Post(delta, ref, k)
  PROVE  LootKept
<1> SUFFICES ASSUME NEW p \in Players, NEW r \in RaidRefs
             PROVE  history'[p][r]["loot"] = history[p][r]["loot"]
  BY DEF LootKept
<1>1. "loot" \in LineKinds /\ "loot" # k
  BY DEF LineKinds
<1> QED
  BY <1>1, PostWrites

\* Awards write no loot lines.
LEMMA AwardKeepsLoot ==
  ASSUME AccountsTypeOK, NEW raid, NEW ref \in RaidRef, NEW n, NEW kind,
         NEW present \in SUBSET Players, NEW amount \in Nat,
         Award(raid, ref, n, kind, present, amount)
  PROVE  LootKept
<1>1. CASE amount = 0
  BY <1>1 DEF Award, LootKept
<1>2. CASE amount # 0
  <2>1. Post([p \in present |-> amount], ref, "award")
    BY <1>2 DEF Award
  <2>2. "award" \in LineKinds \ {"loot"}
    BY DEF LineKinds
  <2> QED
    BY <2>1, <2>2, PostKeepsLoot
<1> QED
  BY <1>1, <1>2

\* Adjustments write no loot lines.
LEMMA AdjustKeepsLoot ==
  ASSUME AccountsTypeOK, NEW p \in Players, NEW d \in Int,
         NEW ref \in RaidRef, AdjustDkp(p, d, ref)
  PROVE  LootKept
<1>1. Post([q \in {p} |-> d], ref, "adjust")
  BY DEF AdjustDkp
<1>2. "adjust" \in LineKinds \ {"loot"}
  BY DEF LineKinds
<1> QED
  BY <1>1, <1>2, PostKeepsLoot

\* The commands of accounts and raids leave the loot lines, or move them from
\* one raid to another.
LEMMA LootStep ==
  ASSUME LedgerTypeOK, AccountsStep(ActiveRef) \/ RaidStep
  PROVE  LootKept \/ BooksMerged
<1>0. /\ AccountsTypeOK /\ RaidsTypeOK /\ ActiveRef \in RaidRef
      /\ owner \in [Characters -> Players \cup {Nobody}]
      /\ activeRaid \in RaidIds \cup {NoRaid} /\ raids \in [RaidIds -> Raid]
  BY ActiveRefType DEF LedgerTypeOK, AccountsTypeOK, RaidsTypeOK, RaidRefs
<1>1. CASE UNCHANGED history
  BY <1>1 DEF LootKept
<1>2. ASSUME NEW p \in Players, NEW d \in Deltas, AdjustDkp(p, d, ActiveRef)
      PROVE  LootKept
  BY <1>0, <1>2, AdjustKeepsLoot, DeltasAssumption
<1>3. CASE AccountsStep(ActiveRef)
  <2>1. ASSUME NEW c \in Characters, NEW d \in Deltas,
               AdjustByCharacter(c, d, ActiveRef)
        PROVE  LootKept
    BY <1>0, <1>2, <2>1 DEF AdjustByCharacter
  <2>2. ASSUME NEW p \in Players, NEW c \in Characters, LinkCharacter(p, c)
        PROVE  UNCHANGED history
    BY <2>2 DEF LinkCharacter
  <2> QED
    BY <1>1, <1>2, <1>3, <2>1, <2>2 DEF AccountsStep
<1>4. ASSUME NEW r \in RaidIds, NEW name \in Names, NEW d \in TickDkps,
             NEW S \in SUBSET Players, StartRaid(r, name, d, S)
      PROVE  LootKept
  <2>1. [id |-> r, names |-> {name}] \in RaidRef /\ d \in Nat
    BY TickDkpsAssumption DEF RaidRef, RaidRefs
  <2> QED
    BY <1>0, <1>4, <2>1, AwardKeepsLoot DEF StartRaid
<1>5. ASSUME activeRaid \in RaidIds
      PROVE  RefOf(activeRaid) \in RaidRef /\ raids[activeRaid].perTick \in Nat
  BY <1>0, <1>5, RefOfType DEF Raid
<1>6. ASSUME NEW S \in SUBSET Players, Tick(S)
      PROVE  LootKept
  BY <1>0, <1>5, <1>6, AwardKeepsLoot DEF Tick
<1>7. ASSUME NEW S \in SUBSET Players, EndRaid(S)
      PROVE  LootKept
  BY <1>0, <1>5, <1>7, AwardKeepsLoot DEF EndRaid
<1>8. ASSUME NEW S \in SUBSET Players, NEW a \in Awards, AwardRaid(S, a)
      PROVE  LootKept
  BY <1>0, <1>5, <1>8, AwardKeepsLoot, AwardsAssumption DEF AwardRaid
<1>9. ASSUME \/ \E r \in RaidIds, K \in SUBSET Kills : RecordRaidKills(r, K)
             \/ \E r \in RaidIds, n \in Names : RenameRaid(r, n)
             \/ Clock
      PROVE  UNCHANGED history
  BY <1>9 DEF RecordRaidKills, RenameRaid, Clock, accountVars
<1>10. CASE RaidStep
  BY <1>1, <1>4, <1>6, <1>7, <1>8, <1>9, <1>10 DEF RaidStep, BooksMerged
<1> QED
  BY <1>3, <1>10

\* Settling an auction is the only step that settles one.
LEMMA SettledStep ==
  ASSUME LedgerTypeOK, LedgerNext, ~ \E a \in AuctionIds : FinalizeAuction(a)
  PROVE  SettledSame
<1> SUFFICES ASSUME NEW c \in AuctionIds
             PROVE  /\ auctions[c].status = "finalized" => auctions'[c] = auctions[c]
                    /\ auctions'[c].status = "finalized"
                         => auctions[c].status = "finalized"
  BY DEF SettledSame
<1>0. /\ auctions = [b \in AuctionIds |-> auctions[b]]
      /\ \A b \in AuctionIds : IsAuction(auctions[b])
  BY DEF LedgerTypeOK, AuctionsTypeOK
<1>1. auctions[c].status = "finalized" => auctions'[c] = auctions[c]
  BY AuctionStepMoves DEF AuctionMoves
<1>2. ASSUME NEW a \in AuctionIds, NEW s \in Seeds, CloseAuction(a, s)
      PROVE  auctions'[c] = auctions[c] \/ auctions'[c].status # "finalized"
  <2> DEFINE won == WinnersOf(a, s)
             valid == ValidBidders(a)
             x == [auctions[a] EXCEPT !.status = "closed", !.seed = s,
                                      !.proposed = won, !.validThen = valid]
  <2>1. auctions' = [auctions EXCEPT ![a] = x]
    BY <1>2 DEF CloseAuction
  <2> HIDE DEF won, valid
  <2>2. x.status = "closed"
    BY <1>0 DEF IsAuction
  <2> HIDE DEF x
  <2> QED
    BY <1>0, <2>1, <2>2
<1>3. ASSUME NEW a \in AuctionIds, NEW x, OtherStep(a, x)
      PROVE  auctions'[c] = auctions[c] \/ auctions'[c].status # "finalized"
  BY <1>0, <1>3 DEF OtherStep
<1> QED
  BY <1>1, <1>2, <1>3, AuctionStepKinds

\* The loot lines of p, what they cost.
Paid(p) == SumFunction([r \in RaidRefs |-> - history[p][r]["loot"]])

\* Winners stay charged while nothing is settled, merges or not.
LEMMA ChargedStays ==
  ASSUME AccountsTypeOK, AccountsTypeOK', ChargedOnce, SettledSame,
         LootKept \/ BooksMerged
  PROVE  ChargedOnce'
<1> SUFFICES ASSUME NEW p \in Players
             PROVE  Paid(p)' = Winnings(p)'
  BY DEF ChargedOnce, Paid
<1>1. Paid(p) = Winnings(p)
  BY DEF ChargedOnce, Paid
<1>2. Winnings(p)' = Winnings(p)
  <2>1. WonBy(p)' = WonBy(p)
    BY DEF WonBy, HasStatus, SettledSame
  <2>2. \A a \in WonBy(p) : auctions'[a] = auctions[a]
    BY DEF WonBy, HasStatus, SettledSame
  <2>3. [a \in WonBy(p)' |-> auctions'[a].winners[p]] =
          [a \in WonBy(p) |-> auctions[a].winners[p]]
    BY <2>1, <2>2
  <2> QED
    BY <2>3 DEF Winnings
<1>3. Paid(p)' = Paid(p)
  <2> DEFINE f == [r \in RaidRefs |-> - history[p][r]["loot"]]
             g == [r \in RaidRefs |-> - history'[p][r]["loot"]]
  <2>1. Paid(p) = SumFunctionOnSet(f, RaidRefs)
        /\ Paid(p)' = SumFunctionOnSet(g, RaidRefs)
    BY DEF Paid, SumFunction
  <2>2. /\ history \in [Players -> [RaidRefs -> [LineKinds -> Int]]]
        /\ history' \in [Players -> [RaidRefs -> [LineKinds -> Int]]]
    BY DEF AccountsTypeOK
  <2>3. \A r \in RaidRefs : /\ history[p][r]["loot"] \in Int
                            /\ history'[p][r]["loot"] \in Int
                            /\ f[r] = - history[p][r]["loot"] /\ f[r] \in Int
                            /\ g[r] = - history'[p][r]["loot"] /\ g[r] \in Int
    BY <2>2 DEF LineKinds
  <2>4. CASE LootKept
    <3>1. f = g
      BY <2>4 DEF LootKept
    <3> QED
      BY <2>1, <3>1
  <2>5. CASE BooksMerged
    <3>1. PICK from \in RaidIds, into \in RaidIds : MergeRaid(from, into)
      BY <2>5 DEF BooksMerged
    <3>2. /\ from # into
          /\ history'[p][into]["loot"] =
               history[p][into]["loot"] + history[p][from]["loot"]
          /\ history'[p][from]["loot"] = 0
          /\ \A r \in RaidRefs \ {from, into} : history'[p][r] = history[p][r]
      BY <3>1, MergeWrites DEF LineKinds
    <3>3. from \in RaidRefs /\ into \in RaidRefs \ {from}
      BY <3>2 DEF RaidRefs
    <3>4. /\ \A r \in RaidRefs \ {from, into} : f[r] = g[r]
          /\ f[from] + f[into] = g[from] + g[into]
      BY <2>3, <3>2, <3>3
    <3> HIDE DEF f, g
    <3>5. SumFunctionOnSet(g, RaidRefs) = SumFunctionOnSet(f, RaidRefs)
      BY <2>3, <3>3, <3>4, RaidRefsFinite, SumTransfer
    <3> QED
      BY <2>1, <3>5
  <2> QED
    BY <2>4, <2>5
<1> QED
  BY <1>1, <1>2, <1>3

\* The finalize charges every winner what the auction says it won.
LEMMA ChargedAtFinalize ==
  ASSUME LedgerTypeOK, LedgerTypeOK', ChargedOnce,
         NEW a \in AuctionIds, FinalizeAuction(a)
  PROVE  ChargedOnce'
<1> SUFFICES ASSUME NEW p \in Players
             PROVE  Paid(p)' = Winnings(p)'
  BY DEF ChargedOnce, Paid
<1>0. /\ auctions = [b \in AuctionIds |-> auctions[b]]
      /\ \A b \in AuctionIds : IsAuction(auctions[b])
      /\ AccountsTypeOK /\ AccountsTypeOK'
  BY DEF LedgerTypeOK, AuctionsTypeOK
<1>1. Paid(p) = Winnings(p)
  BY DEF ChargedOnce, Paid
<1> DEFINE won == WinnersOf(a, auctions[a].seed)
           debit == auctions[a].terms.debit
           delta == [q \in DOMAIN won |-> - (IF debit THEN won[q] ELSE 0)]
           x == [auctions[a] EXCEPT !.status = "finalized", !.winners = won]
           charge == IF p \in DOMAIN won /\ debit THEN won[p] ELSE 0
<1>2. /\ auctions[a].status = "closed"
      /\ auctions' = [auctions EXCEPT ![a] = x]
      /\ Post(delta, ActiveRef, "loot")
  BY DEF FinalizeAuction, HasStatus
<1>3. DOMAIN won \subseteq Players /\ \A q \in DOMAIN won : won[q] \in Int
  BY WinnersType DEF LedgerTypeOK, IsPartial
<1>4. debit \in BOOLEAN
  BY <1>0, Zenon DEF IsAuction, Terms
<1> HIDE DEF won
<1>5. x.status = "finalized" /\ x.winners = won /\ x.terms.debit = debit
  BY <1>0 DEF IsAuction
<1> HIDE DEF x
<1>6. /\ auctions'[a] = x
      /\ \A b \in AuctionIds \ {a} : auctions'[b] = auctions[b]
  BY <1>0, <1>2
<1>7. charge \in Int
  BY <1>3
<1>8. Paid(p)' = Paid(p) + charge
  <2> DEFINE f == [r \in RaidRefs |-> - history[p][r]["loot"]]
             g == [r \in RaidRefs |-> - history'[p][r]["loot"]]
  <2>1. /\ Paid(p) = SumFunctionOnSet(f, RaidRefs)
        /\ Paid(p)' = SumFunctionOnSet(g, RaidRefs)
    BY DEF Paid, SumFunction
  <2>2. /\ history \in [Players -> [RaidRefs -> [LineKinds -> Int]]]
        /\ history' \in [Players -> [RaidRefs -> [LineKinds -> Int]]]
    BY <1>0 DEF AccountsTypeOK
  <2>3. \A r \in RaidRefs : /\ history[p][r]["loot"] \in Int
                            /\ history'[p][r]["loot"] \in Int
                            /\ f[r] = - history[p][r]["loot"] /\ f[r] \in Int
                            /\ g[r] = - history'[p][r]["loot"] /\ g[r] \in Int
    BY <2>2 DEF LineKinds
  <2>4. PICK ref \in RaidRef : ref = ActiveRef
    BY ActiveRefType DEF LedgerTypeOK
  <2>5. PICK y \in RaidRefs : y = ref.id
    BY DEF RaidRef
  <2>6. /\ DOMAIN delta = DOMAIN won
        /\ \A q \in DOMAIN won : delta[q] \in Int
        /\ p \in DOMAIN won => delta[p] = - charge
        /\ p \notin DOMAIN won => charge = 0
    BY <1>3, <1>4
  <2>7. Post(delta, ref, "loot") /\ "loot" \in LineKinds
    BY <1>2, <2>4 DEF LineKinds
  <2> HIDE DEF delta, charge, debit
  <2>8. /\ p \notin DOMAIN delta => history'[p] = history[p]
        /\ p \in DOMAIN delta =>
             history'[p][y]["loot"] = history[p][y]["loot"] + delta[p]
        /\ \A r \in RaidRefs \ {y} :
             history'[p][r]["loot"] = history[p][r]["loot"]
    BY <1>0, <1>3, <2>5, <2>6, <2>7, PostWrites
  <2>9. /\ \A r \in RaidRefs \ {y} : f[r] = g[r]
        /\ g[y] - f[y] = charge
    BY <1>7, <2>3, <2>6, <2>8
  <2>10. \A r \in RaidRefs : f[r] \in Int /\ g[r] \in Int
    BY <2>3
  <2> HIDE DEF f, g
  <2>11. SumFunctionOnSet(g, RaidRefs) =
           SumFunctionOnSet(f, RaidRefs) + (g[y] - f[y])
    BY <2>9, <2>10, RaidRefsFinite, SumChange
  <2> QED
    BY <2>1, <2>9, <2>11
<1>9. Winnings(p)' = Winnings(p) + charge
  <2> DEFINE A == WonBy(p)
             f == [b \in A |-> auctions[b].winners[p]]
             g == [b \in WonBy(p)' |-> auctions'[b].winners[p]]
  <2>1. Winnings(p) = SumFunctionOnSet(f, A)
        /\ Winnings(p)' = SumFunctionOnSet(g, WonBy(p)')
    BY DEF Winnings, SumFunction
  <2>2. /\ A \subseteq AuctionIds /\ a \notin A /\ IsFiniteSet(A)
        /\ \A b \in A : auctions'[b] = auctions[b]
    <3>1. A \subseteq AuctionIds /\ a \notin A
      BY <1>2 DEF WonBy, HasStatus
    <3> QED
      BY <1>6, <3>1, AuctionIdsAssumption, FS_Subset
  <2>3. \A b \in A : f[b] = auctions[b].winners[p] /\ f[b] \in Int
    BY <1>0 DEF WonBy, IsAuction, IsPartial
  <2>4. SumFunctionOnSet(f, A) \in Int
    <3> HIDE DEF A, f
    <3> QED
      BY <2>2, <2>3, SumInt
  <2>5. CASE p \in DOMAIN won /\ debit
    <3>1. WonBy(p)' = A \cup {a}
      BY <1>2, <1>5, <1>6, <2>5 DEF WonBy, HasStatus
    <3>2. \A b \in A \cup {a} : g[b] = auctions'[b].winners[p]
      BY <3>1
    <3>3. g[a] = won[p] /\ \A b \in A : g[b] = f[b]
      BY <1>5, <1>6, <2>2, <2>3, <3>2
    <3>4. charge = won[p] /\ g[a] \in Int
      BY <1>7, <2>5, <3>3
    <3> HIDE DEF A, f, g, charge
    <3>5. SumFunctionOnSet(g, A \cup {a}) = SumFunctionOnSet(g, A) + g[a]
      BY <2>2, <2>3, <3>3, <3>4, SumInsert
    <3>6. SumFunctionOnSet(g, A) = SumFunctionOnSet(f, A)
      BY <2>2, <3>3, SumSame
    <3> QED
      BY <2>1, <3>1, <3>3, <3>4, <3>5, <3>6
  <2>6. CASE ~ (p \in DOMAIN won /\ debit)
    <3>1. WonBy(p)' = A
      BY <1>2, <1>4, <1>5, <1>6, <2>6 DEF WonBy, HasStatus
    <3>2. g = f
      BY <2>2, <3>1
    <3>3. charge = 0
      BY <2>6
    <3> HIDE DEF A, f, g, charge
    <3> QED
      BY <2>1, <2>4, <3>1, <3>2, <3>3
  <2> QED
    BY <2>5, <2>6
<1> HIDE DEF charge
<1> QED
  BY <1>1, <1>8, <1>9

\* What the loot lines took from a player is what the settled auctions say it
\* won: charged once, in full, and not undone by any merge.
THEOREM WinnersAlwaysCharged == LedgerSpec => []ChargedOnce
<1>1. LedgerInit => ChargedOnce
  <2> SUFFICES ASSUME LedgerInit, NEW p \in Players
               PROVE  Paid(p) = Winnings(p)
    BY DEF ChargedOnce, Paid
  <2> DEFINE f == [r \in RaidRefs |-> - history[p][r]["loot"]]
             g == [a \in WonBy(p) |-> auctions[a].winners[p]]
  <2>1. \A r \in RaidRefs : f[r] = 0
    <3>1. \A r \in RaidRefs : history[p][r]["loot"] = 0
      BY DEF LedgerInit, AccountsInit, LineKinds
    <3> QED
      BY <3>1
  <2>2. WonBy(p) = {}
    BY DEF LedgerInit, AuctionsInit, Unopened, WonBy, HasStatus
  <2>3. /\ Paid(p) = SumFunctionOnSet(f, RaidRefs)
        /\ Winnings(p) = SumFunctionOnSet(g, WonBy(p))
    BY DEF Paid, Winnings, SumFunction
  <2> HIDE DEF f, g
  <2>4. SumFunctionOnSet(f, RaidRefs) = 0
    BY <2>1, RaidRefsFinite, SumZero
  <2> QED
    BY <2>2, <2>3, <2>4, SumEmpty
<1>2. ChargedOnce /\ LedgerTypeOK /\ [LedgerNext]_ledgerVars => ChargedOnce'
  <2> SUFFICES ASSUME ChargedOnce, LedgerTypeOK, [LedgerNext]_ledgerVars
               PROVE  ChargedOnce'
    OBVIOUS
  <2>1. LedgerTypeOK' /\ AccountsTypeOK /\ AccountsTypeOK'
    BY LedgerNextType DEF LedgerTypeOK
  <2>2. CASE \E a \in AuctionIds : FinalizeAuction(a)
    BY <2>1, <2>2, ChargedAtFinalize
  <2>3. CASE LedgerNext /\ ~ \E a \in AuctionIds : FinalizeAuction(a)
    <3>1. SettledSame
      BY <2>3, SettledStep
    <3>2. LootKept \/ BooksMerged
      <4>1. CASE AuctionStep
        <5>1. UNCHANGED history
          BY <2>3, <4>1, AuctionStepQuiet
        <5> QED
          BY <5>1 DEF LootKept
      <4>2. CASE AccountsStep(ActiveRef) \/ RaidStep
        BY <4>2, LootStep
      <4> QED
        BY <2>3, <4>1, <4>2 DEF LedgerNext
    <3> QED
      BY <2>1, <3>1, <3>2, ChargedStays
  <2>4. CASE UNCHANGED ledgerVars
    <3>1. UNCHANGED <<history, auctions>>
      BY <2>4 DEF ledgerVars, accountVars
    <3>2. SettledSame /\ LootKept
      BY <3>1 DEF SettledSame, LootKept
    <3> QED
      BY <2>1, <3>2, ChargedStays
  <2> QED
    BY <2>2, <2>3, <2>4
<1> QED
  BY <1>1, <1>2, LedgerTypeCorrect, PTL DEF LedgerSpec

-----------------------------------------------------------------------------
(* Bids and what they commit *)

\* Only amounts above zero stand.
BidsPositive ==
  \A a \in AuctionIds : auctions[a].status = "open" =>
    \A p \in DOMAIN auctions[a].bids : auctions[a].bids[p].amount > 0

\* Every bid p holds after the step it held before.
NoNewBid(p) ==
  \A a \in AuctionIds :
    auctions'[a].status = "open" /\ p \in DOMAIN auctions'[a].bids =>
      /\ auctions[a].status = "open" /\ p \in DOMAIN auctions[a].bids
      /\ auctions'[a].bids[p] = auctions[a].bids[p]

\* What a placed bid makes of the auctions.
LEMMA PlacedBid ==
  ASSUME LedgerTypeOK, NEW q \in Players, NEW a \in AuctionIds, NEW m, NEW side,
         NEW att, PlaceBid(q, a, m, side, att)
  PROVE  /\ auctions[a].status = "open" /\ auctions'[a].status = "open"
         /\ DOMAIN auctions'[a].bids = DOMAIN auctions[a].bids \cup {q}
         /\ auctions'[a].bids[q].amount = m
         /\ \A p \in DOMAIN auctions[a].bids \ {q} :
              auctions'[a].bids[p] = auctions[a].bids[p]
         /\ \A b \in AuctionIds \ {a} : auctions'[b] = auctions[b]
<1>0. /\ auctions = [b \in AuctionIds |-> auctions[b]]
      /\ IsAuction(auctions[a])
  BY DEF LedgerTypeOK, AuctionsTypeOK
<1> DEFINE bid == [amount |-> m, main |-> LandsMain(side, att), attendance |-> att]
           bids == Put(auctions[a].bids, q, bid)
           x == [auctions[a] EXCEPT !.bids = bids]
<1>1. auctions' = [auctions EXCEPT ![a] = x] /\ auctions[a].status = "open"
  BY DEF PlaceBid, HasStatus
<1>2. bid.amount = m
  OBVIOUS
<1> HIDE DEF bid
<1>3. /\ DOMAIN bids = DOMAIN auctions[a].bids \cup {q} /\ bids[q] = bid
      /\ \A p \in DOMAIN auctions[a].bids \ {q} : bids[p] = auctions[a].bids[p]
  BY DEF Put
<1> HIDE DEF bids
<1>4. x.bids = bids /\ x.status = auctions[a].status
  BY <1>0 DEF IsAuction
<1> HIDE DEF x
<1> QED
  BY <1>0, <1>1, <1>2, <1>3, <1>4

\* A step gives p no new bid, or places one.
LEMMA BidStep ==
  ASSUME LedgerTypeOK, [LedgerNext]_ledgerVars, NEW p \in Players
  PROVE  \/ NoNewBid(p)
         \/ \E a \in AuctionIds, m \in Amounts, side \in BOOLEAN,
              att \in Attendances : PlaceBid(p, a, m, side, att)
<1>0. /\ auctions = [b \in AuctionIds |-> auctions[b]]
      /\ \A b \in AuctionIds : IsAuction(auctions[b])
  BY DEF LedgerTypeOK, AuctionsTypeOK
<1>1. CASE UNCHANGED auctions
  BY <1>1 DEF NoNewBid
<1>2. ASSUME NEW a \in AuctionIds, NEW x, auctions' = [auctions EXCEPT ![a] = x],
             x.status = "open" /\ p \in DOMAIN x.bids =>
               /\ auctions[a].status = "open" /\ p \in DOMAIN auctions[a].bids
               /\ x.bids[p] = auctions[a].bids[p]
      PROVE  NoNewBid(p)
  BY <1>0, <1>2 DEF NoNewBid
<1>3. ASSUME NEW a \in AuctionIds, NEW o \in Offers, OpenAuction(a, o)
      PROVE  NoNewBid(p)
  <2> DEFINE x == Unopened("open", TermsOf(o))
  <2>1. auctions' = [auctions EXCEPT ![a] = x]
    BY <1>3 DEF OpenAuction
  <2>2. p \notin DOMAIN x.bids
    BY DEF Unopened, None
  <2> HIDE DEF x
  <2> QED
    BY <1>2, <2>1, <2>2
<1>4. ASSUME NEW q \in Players, NEW a \in AuctionIds, NEW m \in Amounts,
             NEW side \in BOOLEAN, NEW att \in Attendances,
             PlaceBid(q, a, m, side, att), q # p
      PROVE  NoNewBid(p)
  BY <1>4, PlacedBid DEF NoNewBid
<1>5. ASSUME NEW q \in Players, NEW a \in AuctionIds, RetractBid(q, a)
      PROVE  NoNewBid(p)
  <2> DEFINE bids == [r \in DOMAIN auctions[a].bids \ {q} |-> auctions[a].bids[r]]
             x == [auctions[a] EXCEPT !.bids = bids]
  <2>1. auctions' = [auctions EXCEPT ![a] = x] /\ auctions[a].status = "open"
    BY <1>5 DEF RetractBid, HasStatus
  <2>2. p \in DOMAIN bids =>
          p \in DOMAIN auctions[a].bids /\ bids[p] = auctions[a].bids[p]
    OBVIOUS
  <2> HIDE DEF bids
  <2>3. x.bids = bids
    BY <1>0 DEF IsAuction
  <2> HIDE DEF x
  <2> QED
    BY <1>2, <2>1, <2>2, <2>3
<1>6. ASSUME NEW q \in Players, NEW a \in AuctionIds, NEW r \in 1 .. MaxRoll,
             RollForAuction(q, a, r)
      PROVE  NoNewBid(p)
  <2> DEFINE rolls == Put(auctions[a].rolls, q, r)
             x == [auctions[a] EXCEPT !.rolls = rolls]
  <2>1. auctions' = [auctions EXCEPT ![a] = x] /\ auctions[a].status = "open"
    BY <1>6 DEF RollForAuction, HasStatus
  <2> HIDE DEF rolls
  <2>2. x.bids = auctions[a].bids
    BY <1>0 DEF IsAuction
  <2> HIDE DEF x
  <2> QED
    BY <1>2, <2>1, <2>2
<1>7. ASSUME NEW a \in AuctionIds, NEW s \in Seeds, CloseAuction(a, s)
      PROVE  NoNewBid(p)
  <2> DEFINE won == WinnersOf(a, s)
             valid == ValidBidders(a)
             x == [auctions[a] EXCEPT !.status = "closed", !.seed = s,
                                      !.proposed = won, !.validThen = valid]
  <2>1. auctions' = [auctions EXCEPT ![a] = x]
    BY <1>7 DEF CloseAuction
  <2> HIDE DEF won, valid
  <2>2. x.status = "closed"
    BY <1>0 DEF IsAuction
  <2> HIDE DEF x
  <2> QED
    BY <1>2, <2>1, <2>2
<1>8. ASSUME NEW a \in AuctionIds, FinalizeAuction(a)
      PROVE  NoNewBid(p)
  <2> DEFINE won == WinnersOf(a, auctions[a].seed)
             x == [auctions[a] EXCEPT !.status = "finalized", !.winners = won]
  <2>1. auctions' = [auctions EXCEPT ![a] = x]
    BY <1>8 DEF FinalizeAuction
  <2> HIDE DEF won
  <2>2. x.status = "finalized"
    BY <1>0 DEF IsAuction
  <2> HIDE DEF x
  <2> QED
    BY <1>2, <2>1, <2>2
<1>9. ASSUME NEW a \in AuctionIds, CancelAuction(a)
      PROVE  NoNewBid(p)
  <2> DEFINE x == [auctions[a] EXCEPT !.status = "cancelled"]
  <2>1. auctions' = [auctions EXCEPT ![a] = x]
    BY <1>9 DEF CancelAuction
  <2>2. x.status = "cancelled"
    BY <1>0 DEF IsAuction
  <2> HIDE DEF x
  <2> QED
    BY <1>2, <2>1, <2>2
<1>10. CASE AuctionStep
  BY <1>3, <1>4, <1>5, <1>6, <1>7, <1>8, <1>9, <1>10 DEF AuctionStep
<1>11. UNCHANGED ledgerVars => UNCHANGED auctions
  BY DEF ledgerVars
<1> QED
  BY <1>1, <1>10, <1>11 DEF LedgerNext

\* Standing bids stay positive.
LEMMA BidsPositiveStep ==
  ASSUME LedgerTypeOK, LedgerTypeOK', BidsPositive, [LedgerNext]_ledgerVars
  PROVE  BidsPositive'
<1> SUFFICES ASSUME NEW b \in AuctionIds, auctions'[b].status = "open",
                    NEW p \in DOMAIN auctions'[b].bids
             PROVE  auctions'[b].bids[p].amount > 0
  BY DEF BidsPositive
<1>1. p \in Players
  BY DEF LedgerTypeOK, AuctionsTypeOK, IsAuction, IsPartial
<1>2. CASE NoNewBid(p)
  BY <1>2 DEF NoNewBid, BidsPositive
<1>3. ASSUME NEW a \in AuctionIds, NEW m \in Amounts, NEW side \in BOOLEAN,
             NEW att \in Attendances, PlaceBid(p, a, m, side, att)
      PROVE  auctions'[b].bids[p].amount > 0
  <2>1. m > 0
    BY <1>3 DEF PlaceBid
  <2>2. /\ auctions'[a].bids[p].amount = m
        /\ b # a => auctions'[b] = auctions[b]
    BY <1>1, <1>3, PlacedBid
  <2> QED
    BY <2>1, <2>2 DEF BidsPositive
<1> QED
  BY <1>1, <1>2, <1>3, BidStep

\* Without a new bid the standing bids do not rise.
LEMMA StandingNotRaised ==
  ASSUME LedgerTypeOK, BidsPositive, NEW p \in Players, NoNewBid(p)
  PROVE  ~ (StandingBids(p)' > StandingBids(p))
<1> DEFINE S == BidOnBy(p)
           T == BidOnBy(p)'
           f == [a \in S |-> auctions[a].bids[p].amount]
           g == [a \in T |-> auctions'[a].bids[p].amount]
<1>1. /\ StandingBids(p) = SumFunctionOnSet(f, S)
      /\ StandingBids(p)' = SumFunctionOnSet(g, T)
  BY DEF StandingBids, SumFunction
<1>2. T \subseteq S /\ \A a \in T : g[a] = f[a]
  BY DEF NoNewBid, BidOnBy, HasStatus
<1>3. IsFiniteSet(S) /\ IsFiniteSet(T)
  <2>1. S \subseteq AuctionIds
    BY DEF BidOnBy
  <2> HIDE DEF S, T
  <2> QED
    BY <1>2, <2>1, AuctionIdsAssumption, FS_Subset
<1>4. \A a \in S : f[a] \in Nat
  <2> SUFFICES ASSUME NEW a \in S PROVE f[a] \in Nat
    OBVIOUS
  <2>1. auctions[a].status = "open" /\ p \in DOMAIN auctions[a].bids
    BY DEF BidOnBy, HasStatus
  <2>2. a \in AuctionIds /\ IsAuction(auctions[a])
    BY DEF BidOnBy, LedgerTypeOK, AuctionsTypeOK
  <2>3. auctions[a].bids[p].amount \in Int /\ auctions[a].bids[p].amount > 0
    BY <2>1, <2>2 DEF BidsPositive, IsAuction, IsPartial, Bid
  <2> QED
    BY <2>3
<1> HIDE DEF S, T, f, g
<1>5. SumFunctionOnSet(g, T) = SumFunctionOnSet(f, T)
  BY <1>2, <1>3, SumSame
<1>6. SumFunctionOnSet(f, T) <= SumFunctionOnSet(f, S)
  BY <1>2, <1>3, <1>4, SumOfPart
<1>7. SumFunctionOnSet(f, T) \in Nat
  BY <1>2, <1>3, <1>4, SumNonNegative
<1>8. SumFunctionOnSet(f, S) \in Nat
  BY <1>3, <1>4, SumNonNegative
<1> QED
  BY <1>1, <1>5, <1>6, <1>7, <1>8

\* A new bid is covered together with all the others.
LEMMA PlacedBidCovered ==
  ASSUME LedgerTypeOK, LedgerTypeOK', NEW p \in Players, NEW a \in AuctionIds,
         NEW m \in Amounts, NEW side, NEW att, PlaceBid(p, a, m, side, att)
  PROVE  StandingBids(p)' <= balance'[p]
<1> DEFINE S == {b \in AuctionIds \ {a} : auctions[b].status = "open"
                                            /\ p \in DOMAIN auctions[b].bids}
           T == BidOnBy(p)'
           f == [b \in S |-> auctions[b].bids[p].amount]
           g == [b \in T |-> auctions'[b].bids[p].amount]
<1>1. /\ Committed(p, a) = SumFunctionOnSet(f, S)
      /\ StandingBids(p)' = SumFunctionOnSet(g, T)
  BY DEF Committed, StandingBids, SumFunction, HasStatus
<1>2. /\ auctions'[a].status = "open" /\ p \in DOMAIN auctions'[a].bids
      /\ auctions'[a].bids[p].amount = m
      /\ \A b \in AuctionIds \ {a} : auctions'[b] = auctions[b]
  BY PlacedBid
<1>3. /\ m <= balance[p] - Committed(p, a) /\ balance' = balance
      /\ m \in Int /\ balance[p] \in Int
  <2>1. m <= balance[p] - Committed(p, a) /\ balance' = balance
    BY DEF PlaceBid
  <2> QED
    BY <2>1, AmountsAssumption DEF LedgerTypeOK, AccountsTypeOK
<1>4. T = S \cup {a} /\ a \notin S
  BY <1>2 DEF BidOnBy, HasStatus
<1>5. IsFiniteSet(S)
  <2>1. S \subseteq AuctionIds
    OBVIOUS
  <2> HIDE DEF S
  <2> QED
    BY <2>1, AuctionIdsAssumption, FS_Subset
<1>6. \A b \in S : f[b] \in Int
  BY DEF LedgerTypeOK, AuctionsTypeOK, IsAuction, IsPartial, Bid
<1>7. g[a] = m /\ \A b \in S : g[b] = f[b]
  BY <1>2, <1>4
<1> HIDE DEF S, T, f, g
<1>8. SumFunctionOnSet(g, S \cup {a}) = SumFunctionOnSet(g, S) + g[a]
  BY <1>3, <1>4, <1>5, <1>6, <1>7, SumInsert
<1>9. SumFunctionOnSet(g, S) = SumFunctionOnSet(f, S)
  BY <1>5, <1>7, SumSame
<1>10. SumFunctionOnSet(f, S) \in Int
  BY <1>5, <1>6, SumInt
<1> QED
  BY <1>1, <1>3, <1>4, <1>7, <1>8, <1>9, <1>10

\* Whoever raises its standing bids can pay for all of them, in whatever
\* auctions they stand: the same DKP is never bid twice.
THEOREM BidsAlwaysCovered == LedgerSpec => BidsCovered
<1> DEFINE Covered ==
      \A p \in Players :
        StandingBids(p)' > StandingBids(p) => StandingBids(p)' <= balance'[p]
<1>1. LedgerInit => BidsPositive
  BY DEF LedgerInit, AuctionsInit, Unopened, BidsPositive
<1>2. BidsPositive /\ LedgerTypeOK /\ [LedgerNext]_ledgerVars
        => BidsPositive' /\ Covered
  <2> SUFFICES ASSUME BidsPositive, LedgerTypeOK, [LedgerNext]_ledgerVars
               PROVE  BidsPositive' /\ Covered
    OBVIOUS
  <2>1. LedgerTypeOK'
    BY LedgerNextType
  <2>2. BidsPositive'
    BY <2>1, BidsPositiveStep
  <2>3. ASSUME NEW p \in Players
        PROVE  StandingBids(p)' > StandingBids(p) => StandingBids(p)' <= balance'[p]
    BY <2>1, BidStep, StandingNotRaised, PlacedBidCovered
  <2> QED
    BY <2>2, <2>3
<1>3. BidsCovered <=> [][Covered]_ledgerVars
  BY DEF BidsCovered
<1> HIDE DEF Covered
<1> QED
  BY <1>1, <1>2, <1>3, LedgerTypeCorrect, PTL DEF LedgerSpec

-----------------------------------------------------------------------------
(* The raid desk                                                           *)
(*                                                                         *)
(* What the ledger is proved to keep, kept by the raid commands and jobs:  *)
(* whatever they read earlier and however they overtake one another, each  *)
(* of their steps is one command of the ledger or leaves it alone.         *)

(* What the handlers and the job know *)

Listed == [raid : RaidIds, date : Time, ended : Time]
Known  == [pc : Pcs, raid : RaidRefs, typed : Names, todo : SUBSET Listed,
           owed : SUBSET Players]

\* A handler that is under way, other than in /startraid, is about a raid; the
\* job is about those on its list.
OnRaid(t, k) == \/ k.raid \in RaidIds
                \/ k.pc \in {"idle", "lookup"}
                \/ t = Job /\ k.pc \in {"names", "kills"}

TasksOK == /\ task \in [Tasks -> Known]
           /\ \A t \in Tasks : OnRaid(t, task[t])

DeskTypeOK ==
  /\ window \in [RaidIds -> Span]
  /\ linked \subseteq RaidIds
  /\ died \subseteq Kills
  /\ TasksOK

\* A task that knows nothing.
LEMMA IdleType == Idle \in Known /\ \A t \in Tasks : OnRaid(t, Idle)
BY DeskNamesAssumption DEF Idle, Known, Pcs, RaidRefs, OnRaid

\* The job and the officers are tasks.
LEMMA TasksAre == Job \in Tasks /\ Officers \subseteq Tasks
BY DEF Tasks

\* One task changes.
LEMMA OneTaskType ==
  ASSUME TasksOK, NEW t \in Tasks, NEW k \in Known, OnRaid(t, k),
         task' = [task EXCEPT ![t] = k]
  PROVE  TasksOK'
BY DEF TasksOK

\* No task changes.
LEMMA NoTaskType == TasksOK /\ UNCHANGED task => TasksOK'
BY DEF TasksOK

\* A task goes on, and knows what it knew.
LEMMA GoesType ==
  ASSUME TasksOK, NEW t \in Tasks, NEW pc \in Pcs, Goes(t, pc),
         \/ task[t].raid \in RaidIds
         \/ t = Job /\ pc \in {"names", "kills"}
  PROVE  TasksOK'
<1> DEFINE k == [task[t] EXCEPT !.pc = pc]
<1>1. task[t] \in Known
  BY DEF TasksOK
<1>2. k \in Known /\ OnRaid(t, k)
  BY <1>1 DEF Known, OnRaid
<1>3. task' = [task EXCEPT ![t] = k]
  BY DEF Goes
<1> QED
  BY <1>2, <1>3, OneTaskType

\* A task takes a list to work off.
LEMMA TakesType ==
  ASSUME TasksOK, NEW t \in Tasks, NEW pc \in Pcs, NEW todo \in SUBSET Listed,
         Takes(t, pc, todo),
         \/ task[t].raid \in RaidIds
         \/ t = Job /\ pc \in {"names", "kills"}
  PROVE  TasksOK'
<1> DEFINE k == [task[t] EXCEPT !.pc = pc, !.todo = todo]
<1>1. task[t] \in Known
  BY DEF TasksOK
<1>2. k \in Known /\ OnRaid(t, k)
  BY <1>1 DEF Known, OnRaid
<1>3. task' = [task EXCEPT ![t] = k]
  BY DEF Takes
<1> QED
  BY <1>2, <1>3, OneTaskType

\* A task is through.
LEMMA EndsType ==
  ASSUME TasksOK, NEW t \in Tasks, Ends(t)
  PROVE  TasksOK'
BY IdleType, OneTaskType DEF Ends

\* One entry of a task's list is worked off.
LEMMA DoneType ==
  ASSUME TasksOK, NEW t \in Tasks, NEW e, Done(t, e)
  PROVE  TasksOK'
<1> DEFINE k == [task[t] EXCEPT !.todo = task[t].todo \ {e}]
<1>1. task[t] \in Known /\ OnRaid(t, task[t])
  BY DEF TasksOK
<1>2. k \in Known /\ OnRaid(t, k)
  BY <1>1 DEF Known, OnRaid
<1>3. task' = [task EXCEPT ![t] = k]
  BY DEF Done
<1> QED
  BY <1>2, <1>3, OneTaskType

\* The windows a list is made of are those of raids.
LEMMA WindowsType ==
  ASSUME window \in [RaidIds -> Span], NEW R \in SUBSET RaidIds
  PROVE  Windows(R) \in SUBSET Listed
BY DEF Windows, Listed, Span

-----------------------------------------------------------------------------
(* Each step, one command of the ledger or none *)

Kept == DeskTypeOK' /\ [LedgerNext]_ledgerVars

\* What every step leaves of the rest.
LEMMA QuietDesk ==
  ASSUME DeskTypeOK, TasksOK', NoCommand,
         UNCHANGED <<window, linked, died>>
  PROVE  Kept
BY DEF DeskTypeOK, NoCommand, Kept

\* A command of the raids that leaves windows and links alone.
LEMMA RaidCommand ==
  ASSUME DeskTypeOK, TasksOK', RaidStep, UNCHANGED auctions,
         UNCHANGED <<window, linked, died>>
  PROVE  Kept
BY DEF DeskTypeOK, LedgerNext, Kept

\* An adjustment by an amount of the ledger's.
LEMMA AdjustCommand ==
  ASSUME DeskTypeOK, TasksOK',
         NEW p \in Players, NEW d \in Deltas, AdjustDkp(p, d, ActiveRef),
         UNCHANGED <<raidVars, auctions>>, UNCHANGED <<window, linked, died>>
  PROVE  Kept
BY DEF DeskTypeOK, LedgerNext, AccountsStep, Kept

\* /startraid, to the start of the raid.
LEMMA StartSteps ==
  ASSUME DeskTypeOK, LedgerTypeOK, NEW t \in Tasks, Startraid(t) \/ StartNow(t)
  PROVE  Kept
<1>0. TasksOK
  BY DEF DeskTypeOK
<1>1. CASE Startraid(t)
  <2>1. PICK n \in {Given, DayName} :
          task' = [task EXCEPT ![t] = [Idle EXCEPT !.pc = "lookup", !.typed = n]]
    BY <1>1 DEF Startraid
  <2> DEFINE k == [Idle EXCEPT !.pc = "lookup", !.typed = n]
  <2>2. k \in Known /\ OnRaid(t, k)
    BY IdleType, DeskNamesAssumption DEF Known, Pcs, OnRaid
  <2>3. TasksOK'
    BY <1>0, <2>1, <2>2, OneTaskType
  <2> QED
    BY <1>1, <2>3, QuietDesk DEF Startraid
<1>2. CASE StartNow(t)
  <2>1. TasksOK' /\ UNCHANGED died
    BY <1>0, <1>2, EndsType DEF StartNow
  <2>2. CASE NoCommand /\ UNCHANGED <<window, linked>>
    BY <2>1, <2>2, QuietDesk
  <2>3. ASSUME NEW r \in RaidIds, NEW event \in EventStarting, NEW d \in TickDkps,
               NEW S \in Voice,
               StartRaid(r, IF event THEN Given ELSE task[t].typed, d, S),
               UNCHANGED auctions,
               window' = [window EXCEPT ![r] = [date |-> now, ended |-> now]],
               linked' = IF event THEN linked \cup {r} ELSE linked
        PROVE  Kept
    <3> DEFINE n == IF event THEN Given ELSE task[t].typed
    <3>1. n \in Names
      BY <1>0, DeskNamesAssumption DEF Known, TasksOK
    <3>2. S \in SUBSET Players
      BY VoiceAssumption
    <3>3. StartRaid(r, n, d, S)
      BY <2>3
    <3> HIDE DEF n
    <3>4. LedgerNext
      BY <2>3, <3>1, <3>2, <3>3 DEF LedgerNext, RaidStep
    <3>5. now \in Time
      BY DEF LedgerTypeOK, RaidsTypeOK
    <3>6. window' \in [RaidIds -> Span] /\ linked' \subseteq RaidIds
      BY <2>3, <3>5 DEF DeskTypeOK, Span
    <3> QED
      BY <2>1, <3>4, <3>6 DEF DeskTypeOK, Kept
  <2> QED
    BY <1>2, <2>2, <2>3 DEF StartNow
<1> QED
  BY <1>1, <1>2

\* The commands of officers that are one command of the ledger each, the
\* scheduler's tick and the clock.
LEMMA OfficersSteps ==
  ASSUME DeskTypeOK, LedgerTypeOK,
         \/ \E r \in RaidIds : Renameraid(r)
         \/ \E r, s \in RaidIds : Mergeraid(r, s)
         \/ \E S \in Voice : Cycle(S)
         \/ \E S \in Voice, a \in Awards : Addraiddkp(S, a)
         \/ \E p \in Players, d \in Corrections : Adddkp(p, d)
         \/ Passes
  PROVE  Kept
<1>0. TasksOK
  BY DEF DeskTypeOK
<1>1. ASSUME NEW r \in RaidIds, Renameraid(r)
      PROVE  Kept
  <2>1. RaidStep
    BY <1>1, DeskNamesAssumption DEF Renameraid, RaidStep
  <2> QED
    BY <1>0, <1>1, <2>1, RaidCommand, NoTaskType DEF Renameraid
<1>2. ASSUME NEW from \in RaidIds, NEW into \in RaidIds, Mergeraid(from, into)
      PROVE  Kept
  <2>1. LedgerNext
    BY <1>2 DEF Mergeraid, RaidStep, LedgerNext
  <2>2. window' \in [RaidIds -> Span]
    <3>1. window[from] \in Span /\ window[into] \in Span
      BY DEF DeskTypeOK
    <3>2. [window[into] EXCEPT !.date =
             IF window[from].date < window[into].date THEN window[from].date
             ELSE window[into].date] \in Span
      BY <3>1 DEF Span
    <3> QED
      BY <1>2, <3>2 DEF Mergeraid, DeskTypeOK
  <2>3. UNCHANGED <<linked, died, task>>
    BY <1>2 DEF Mergeraid
  <2> QED
    BY <1>0, <2>1, <2>2, <2>3, NoTaskType DEF DeskTypeOK, Kept
<1>3. ASSUME NEW S \in Voice, Cycle(S)
      PROVE  Kept
  <2>1. RaidStep
    BY <1>3, VoiceAssumption DEF Cycle, RaidStep
  <2> QED
    BY <1>0, <1>3, <2>1, RaidCommand, NoTaskType DEF Cycle
<1>4. ASSUME NEW S \in Voice, NEW a \in Awards, Addraiddkp(S, a)
      PROVE  Kept
  <2>1. RaidStep
    BY <1>4, VoiceAssumption DEF Addraiddkp, RaidStep
  <2> QED
    BY <1>0, <1>4, <2>1, RaidCommand, NoTaskType DEF Addraiddkp
<1>5. ASSUME NEW p \in Players, NEW d \in Corrections, Adddkp(p, d)
      PROVE  Kept
  <2>1. d \in Deltas
    BY DeskAmountsAssumption
  <2> QED
    BY <1>0, <1>5, <2>1, AdjustCommand, NoTaskType DEF Adddkp
<1>6. CASE Passes
  <2>1. RaidStep
    BY <1>6 DEF Passes, RaidStep
  <2> QED
    BY <1>0, <1>6, <2>1, RaidCommand, NoTaskType DEF Passes
<1> QED
  BY <1>1, <1>2, <1>3, <1>4, <1>5, <1>6

\* /endraid, to the list of its kills, and what it reads on its way.
LEMMA EndSteps ==
  ASSUME DeskTypeOK, LedgerTypeOK, NEW t \in Tasks,
         \/ \E S \in Voice : Endraid(t, S)
         \/ ReadEnded(t) \/ ReadUnnamed(t) \/ ReadLinked(t)
  PROVE  Kept
<1>0. /\ TasksOK /\ task[t] \in Known /\ OnRaid(t, task[t])
      /\ window \in [RaidIds -> Span] /\ now \in Time
      /\ raids \in [RaidIds -> Raid] /\ activeRaid \in RaidRefs
  BY DEF DeskTypeOK, LedgerTypeOK, RaidsTypeOK, TasksOK
<1> DEFINE R == {r \in {task[t].raid} : Exists(r)}
<1>1. ASSUME NEW S \in Voice, Endraid(t, S)
      PROVE  Kept
  <2>1. activeRaid \in RaidIds
    BY <1>0, <1>1 DEF Endraid, EndRaid, RaidRefs
  <2>2. LedgerNext
    BY <1>1, VoiceAssumption DEF Endraid, RaidStep, LedgerNext
  <2>3. window' \in [RaidIds -> Span]
    <3>1. [window[activeRaid] EXCEPT !.ended = now] \in Span
      BY <1>0, <2>1 DEF Span
    <3> QED
      BY <1>0, <1>1, <3>1 DEF Endraid
  <2>4. TasksOK'
    <3> DEFINE k == [Idle EXCEPT !.pc = "ended", !.raid = activeRaid]
    <3>1. k \in Known /\ OnRaid(t, k)
      BY <1>0, <2>1, IdleType DEF Known, Pcs, OnRaid
    <3>2. task' = [task EXCEPT ![t] = k]
      BY <1>1 DEF Endraid
    <3> QED
      BY <1>0, <3>1, <3>2, OneTaskType
  <2> QED
    BY <1>1, <2>2, <2>3, <2>4 DEF Endraid, DeskTypeOK, Kept
<1>2. CASE ReadEnded(t)
  <2> DEFINE typed == IF R = {} THEN Given ELSE raids[task[t].raid].name
             k == [task[t] EXCEPT !.pc = "kills", !.todo = Windows(R), !.typed = typed]
  <2>1. task' = [task EXCEPT ![t] = k]
    BY <1>2 DEF ReadEnded
  <2>2. task[t].raid \in RaidIds
    BY <1>0, <1>2 DEF ReadEnded, At, OnRaid
  <2>3. typed \in Names /\ Windows(R) \in SUBSET Listed
    BY <1>0, <2>2, WindowsType, DeskNamesAssumption DEF Raid
  <2> HIDE DEF typed
  <2>4. k \in Known /\ OnRaid(t, k)
    BY <1>0, <2>2, <2>3 DEF Known, Pcs, OnRaid
  <2>5. TasksOK'
    BY <1>0, <2>1, <2>4, OneTaskType
  <2> QED
    BY <1>2, <2>5, QuietDesk DEF ReadEnded
<1>3. CASE ReadUnnamed(t)
  <2>1. task[t].raid \in RaidIds
    BY <1>0, <1>3 DEF ReadUnnamed, At, OnRaid
  <2>2. Windows(R) \in SUBSET Listed
    BY <1>0, <2>1, WindowsType
  <2>3. Goes(t, "linked") \/ Takes(t, "names", Windows(R))
    BY <1>3 DEF ReadUnnamed
  <2>4. TasksOK'
    BY <1>0, <2>1, <2>2, <2>3, GoesType, TakesType DEF Pcs
  <2> QED
    BY <1>3, <2>4, QuietDesk DEF ReadUnnamed
<1>4. CASE ReadLinked(t)
  <2>1. task[t].raid \in RaidIds
    BY <1>0, <1>4 DEF ReadLinked, At, OnRaid
  <2>2. Goes(t, "fetch") \/ Ends(t)
    BY <1>4 DEF ReadLinked
  <2>3. TasksOK'
    BY <1>0, <2>1, <2>2, GoesType, EndsType DEF Pcs
  <2> QED
    BY <1>4, <2>3, QuietDesk DEF ReadLinked
<1> QED
  BY <1>1, <1>2, <1>3, <1>4

\* What a source reports died.
LEMMA ReportsDied ==
  ASSUME DeskTypeOK, NEW up, NEW w
  PROVE  Reports(up, w) \in SUBSET Kills
BY DEF Reports, Deaths, Lockouts, BossHits, Within, DeskTypeOK

\* Kills and names, for /endraid and the job.
LEMMA RecordSteps ==
  ASSUME DeskTypeOK, LedgerTypeOK, NEW t \in Tasks, NEW up,
         RecordKills(t, up) \/ NameRaid(t, up)
  PROVE  Kept
<1>0. TasksOK /\ task[t].todo \in SUBSET Listed
  BY DEF DeskTypeOK, TasksOK, Known
<1>1. CASE RecordKills(t, up)
  <2>1. PICK e \in task[t].todo :
          /\ Done(t, e)
          /\ \/ RecordRaidKills(e.raid, Reports(up, e)) /\ UNCHANGED auctions
             \/ NoCommand
    BY <1>1 DEF RecordKills
  <2>2. e.raid \in RaidIds
    BY <1>0 DEF Listed
  <2>3. TasksOK' /\ UNCHANGED <<window, linked, died>>
    BY <1>0, <1>1, <2>1, DoneType DEF RecordKills
  <2>4. CASE RecordRaidKills(e.raid, Reports(up, e)) /\ UNCHANGED auctions
    <3>1. RaidStep
      BY <2>2, <2>4, ReportsDied DEF RaidStep
    <3> QED
      BY <2>3, <2>4, <3>1, RaidCommand
  <2>5. CASE NoCommand
    BY <2>3, <2>5, QuietDesk
  <2> QED
    BY <2>1, <2>4, <2>5
<1>2. CASE NameRaid(t, up)
  <2>1. PICK e \in task[t].todo :
          /\ Done(t, e)
          /\ \/ RenameRaid(e.raid, Fought) /\ UNCHANGED auctions
             \/ NoCommand
    BY <1>2 DEF NameRaid
  <2>2. e.raid \in RaidIds
    BY <1>0 DEF Listed
  <2>3. TasksOK' /\ UNCHANGED <<window, linked, died>>
    BY <1>0, <1>2, <2>1, DoneType DEF NameRaid
  <2>4. CASE RenameRaid(e.raid, Fought) /\ UNCHANGED auctions
    <3>1. RaidStep
      BY <2>2, <2>4, DeskNamesAssumption DEF RaidStep
    <3> QED
      BY <2>3, <2>4, <3>1, RaidCommand
  <2>5. CASE NoCommand
    BY <2>3, <2>5, QuietDesk
  <2> QED
    BY <2>1, <2>4, <2>5
<1> QED
  BY <1>1, <1>2

\* The lists themselves.
LEMMA ListSteps ==
  ASSUME DeskTypeOK, LedgerTypeOK, NEW t \in Tasks,
         ListDone(t) \/ (t = Job /\ JobWakes)
  PROVE  Kept
<1>0. TasksOK /\ OnRaid(t, task[t]) /\ window \in [RaidIds -> Span]
  BY DEF DeskTypeOK, TasksOK
<1>1. \A R \in SUBSET RaidIds : Windows(R) \in SUBSET Listed
  BY <1>0, WindowsType
<1>2. NoCommand /\ UNCHANGED <<window, linked, died>>
  BY DEF ListDone, JobWakes
<1>3. CASE t = Job
  <2> DEFINE todo == Windows({r \in RaidIds : Ended(r) /\ Unnamed(r)})
  <2>1. Pending \in SUBSET RaidIds
    BY DEF Pending
  <2>2. \/ Takes(t, "kills", Windows(Pending))
        \/ Ends(t)
        \/ Takes(t, "names", todo)
    BY <1>3 DEF ListDone, JobWakes
  <2>3. todo \in SUBSET Listed
    BY <1>1
  <2> HIDE DEF todo
  <2>4. TasksOK'
    BY <1>0, <1>1, <1>3, <2>1, <2>2, <2>3, TakesType, EndsType DEF Pcs
  <2> QED
    BY <1>2, <2>4, QuietDesk
<1>4. CASE t # Job
  <2>1. task[t].pc \in {"kills", "names"} /\ task[t].raid \in RaidIds
    BY <1>0, <1>4 DEF ListDone, At, OnRaid
  <2>2. Goes(t, "unnamed") \/ Goes(t, "linked")
    BY <1>4 DEF ListDone
  <2>3. TasksOK'
    BY <1>0, <2>1, <2>2, GoesType DEF Pcs
  <2> QED
    BY <1>2, <2>3, QuietDesk
<1> QED
  BY <1>3, <1>4

\* The event award: one adjustment per player.
LEMMA EventSteps ==
  ASSUME DeskTypeOK, LedgerTypeOK, NEW t \in Tasks,
         \/ \E r \in RaidIds : Addraideventdkp(t, r)
         \/ FetchEvent(t) \/ PayNext(t) \/ PayDone(t)
  PROVE  Kept
<1>0. TasksOK /\ task[t] \in Known /\ OnRaid(t, task[t])
  BY DEF DeskTypeOK, TasksOK
<1>1. ASSUME NEW r \in RaidIds, Addraideventdkp(t, r)
      PROVE  Kept
  <2> DEFINE k == [Idle EXCEPT !.pc = "fetch", !.raid = r]
  <2>1. k \in Known /\ OnRaid(t, k)
    BY IdleType DEF Known, Pcs, OnRaid, RaidRefs
  <2>2. task' = [task EXCEPT ![t] = k]
    BY <1>1 DEF Addraideventdkp
  <2>3. TasksOK'
    BY <1>0, <2>1, <2>2, OneTaskType
  <2> QED
    BY <1>1, <2>3, QuietDesk DEF Addraideventdkp
<1>2. CASE FetchEvent(t)
  <2> DEFINE k == [task[t] EXCEPT !.pc = "pay", !.owed = Rewarded(task[t].raid)]
  <2>1. Ends(t) \/ task' = [task EXCEPT ![t] = k]
    BY <1>2 DEF FetchEvent
  <2>2. Rewarded(task[t].raid) \in SUBSET Players
    BY SignUpsAssumption DEF Rewarded
  <2>3. k \in Known /\ OnRaid(t, k)
    BY <1>0, <1>2, <2>2 DEF Known, Pcs, OnRaid, FetchEvent, At
  <2>4. TasksOK'
    BY <1>0, <2>1, <2>3, OneTaskType, EndsType
  <2> QED
    BY <1>2, <2>4, QuietDesk DEF FetchEvent
<1>3. CASE PayNext(t)
  <2>1. PICK p \in task[t].owed :
          /\ task' = [task EXCEPT ![t].owed = task[t].owed \ {p}]
          /\ \/ AdjustDkp(p, EventDkp, ActiveRef) /\ UNCHANGED <<raidVars, auctions>>
             \/ NoCommand
    BY <1>3 DEF PayNext
  <2> DEFINE k == [task[t] EXCEPT !.owed = task[t].owed \ {p}]
  <2>2. k \in Known /\ OnRaid(t, k)
    BY <1>0 DEF Known, OnRaid
  <2>3. TasksOK'
    BY <1>0, <2>1, <2>2, OneTaskType
  <2>4. p \in Players /\ EventDkp \in Deltas
    BY <1>0, DeskAmountsAssumption DEF Known
  <2> QED
    BY <1>3, <2>1, <2>3, <2>4, AdjustCommand, QuietDesk DEF PayNext
<1>4. CASE PayDone(t)
  BY <1>0, <1>4, EndsType, QuietDesk DEF PayDone
<1> QED
  BY <1>1, <1>2, <1>3, <1>4

\* A kill, and a restart: the ledger is left alone.
LEMMA WorldSteps ==
  ASSUME DeskTypeOK, LedgerTypeOK, (\E k \in Kills : Dies(k)) \/ BotRestarts
  PROVE  Kept
<1>1. ASSUME NEW k \in Kills, Dies(k)
      PROVE  Kept
  BY <1>1, NoTaskType DEF Dies, NoCommand, DeskTypeOK, Kept
<1>2. CASE BotRestarts
  <2>1. TasksOK'
    BY <1>2, IdleType DEF BotRestarts, TasksOK
  <2> QED
    BY <1>2, <2>1, QuietDesk DEF BotRestarts
<1> QED
  BY <1>1, <1>2

\* Every step of the desk is a command of the ledger, or leaves it alone.
LEMMA DeskStep ==
  DeskTypeOK /\ LedgerTypeOK /\ [DeskNext]_deskVars => Kept
<1> SUFFICES ASSUME DeskTypeOK, LedgerTypeOK, [DeskNext]_deskVars PROVE Kept
  OBVIOUS
<1>1. ASSUME NEW t \in Officers, Startraid(t) \/ Step(t)
      PROVE  Kept
  BY <1>1, TasksAre, StartSteps, EndSteps, RecordSteps, ListSteps, EventSteps DEF Step
<1>2. ASSUME NEW t \in Officers, NEW S \in Voice, Endraid(t, S)
      PROVE  Kept
  BY <1>2, TasksAre, EndSteps
<1>3. ASSUME NEW t \in Officers, NEW r \in RaidIds, Addraideventdkp(t, r)
      PROVE  Kept
  BY <1>3, TasksAre, EventSteps
<1>4. CASE JobStep
  BY <1>4, TasksAre, RecordSteps, ListSteps DEF JobStep
<1>5. CASE UNCHANGED deskVars
  BY <1>5, QuietDesk, NoTaskType DEF deskVars, NoCommand, DeskTypeOK
<1> QED
  BY <1>1, <1>2, <1>3, <1>4, <1>5, OfficersSteps, WorldSteps DEF DeskNext

-----------------------------------------------------------------------------
(* What the ledger keeps *)

\* What an import leaves, and the desk before anybody works at it.
LEMMA DeskInitType == DeskInit => DeskTypeOK /\ LedgerTypeOK
<1> SUFFICES ASSUME DeskInit PROVE DeskTypeOK /\ LedgerTypeOK
  OBVIOUS
<1>1. AccountsTypeOK
  BY DEF DeskInit, AccountsInit, AccountsTypeOK
<1>2. RaidsTypeOK
  <2>1. PICK I \in Imports : raids = [r \in RaidIds |->
          NewRaid(Placeholder, 0, IF r \in I THEN "ended" ELSE "absent")]
    BY DEF DeskInit
  <2>2. \A s \in {"ended", "absent"} : NewRaid(Placeholder, 0, s) \in Raid
    BY DeskNamesAssumption DEF NewRaid, Raid
  <2> QED
    BY <2>1, <2>2, ClockAssumption DEF DeskInit, RaidsTypeOK, RaidRefs, Time
<1>3. NoTerms \in Terms
  BY DEF NoTerms, Terms, Flavors
<1>4. AuctionsTypeOK
  BY <1>3, UnopenedType DEF DeskInit, AuctionsInit, AuctionsTypeOK
<1>5. TasksOK
  BY IdleType DEF DeskInit, TasksOK
<1>6. window \in [RaidIds -> Span]
  BY ClockAssumption DEF DeskInit, Span, Time
<1> QED
  BY <1>1, <1>2, <1>4, <1>5, <1>6 DEF LedgerTypeOK, DeskTypeOK, DeskInit

\* What the desk's tasks know has its type, and so has the ledger under them.
THEOREM DeskTypesCorrect == DeskSpec => []DeskTypeOK /\ []LedgerTypeOK
<1>1. DeskTypeOK /\ LedgerTypeOK /\ [DeskNext]_deskVars
        => DeskTypeOK' /\ LedgerTypeOK'
  BY DeskStep, LedgerNextType DEF Kept
<1> QED
  BY <1>1, DeskInitType, PTL DEF DeskSpec

\* Whatever /startraid, /endraid, the job and officers do, and from whatever
\* they read before, the ledger sees nothing but its own commands.
THEOREM DeskGivesCommands == DeskSpec => [][LedgerNext]_ledgerVars
<1>1. DeskTypeOK /\ LedgerTypeOK /\ [DeskNext]_deskVars => [LedgerNext]_ledgerVars
  BY DeskStep DEF Kept
<1> QED
  BY <1>1, DeskTypesCorrect, PTL DEF DeskSpec

\* At most one raid is active, though handlers look before they start or end one.
THEOREM DeskOneActiveRaid == DeskSpec => []OneActiveRaid
<1>1. DeskInit => OneActiveRaid
  BY DEF DeskInit, NewRaid, OneActiveRaid
<1> QED
  BY <1>1, OneActiveRaidStep, DeskTypesCorrect, DeskGivesCommands, PTL DEF DeskSpec

\* The raids of an import have no entries, and nobody was awarded anything.
LEMMA EntriesTidyAtDesk == DeskInit => EntriesTidy /\ AwardsMatchAttendance
<1> SUFFICES ASSUME DeskInit PROVE EntriesTidy /\ AwardsMatchAttendance
  OBVIOUS
<1>1. \A r \in RaidIds : raids[r].entries = {}
  BY DEF DeskInit, NewRaid
<1>2. EntriesTidy
  BY <1>1, FS_EmptySet DEF EntriesTidy
<1>3. ASSUME NEW p \in Players, NEW r \in RaidIds
      PROVE  history[p][r]["award"] = Total(EntriesOf(p, r))
  <2>1. EntriesOf(p, r) = {}
    BY <1>1 DEF EntriesOf
  <2>2. history[p][r]["award"] = 0
    BY DEF DeskInit, AccountsInit, RaidRefs, LineKinds
  <2> QED
    BY <2>1, <2>2, TotalOfNone
<1> QED
  BY <1>2, <1>3 DEF AwardsMatchAttendance, Total

\* Awards match the attendance, over every tick, merge and award the desk gives.
THEOREM DeskAwardsMatch ==
  DeskSpec => /\ [](EntriesTidy /\ AwardsMatchAttendance)
              /\ AttendanceKept
<1> DEFINE Inv == EntriesTidy /\ AwardsMatchAttendance
           NotLost == AllEntries \subseteq AllEntries'
<1>1. DeskInit => Inv
  BY EntriesTidyAtDesk
<1>2. Inv /\ LedgerTypeOK /\ OneActiveRaid /\ [LedgerNext]_ledgerVars
        => Inv' /\ NotLost
  <2> SUFFICES ASSUME Inv, LedgerTypeOK, OneActiveRaid, [LedgerNext]_ledgerVars
               PROVE  Inv' /\ NotLost
    OBVIOUS
  <2>1. LedgerTypeOK' /\ (EntriesKept \/ EntryBooked \/ EntriesMerged)
    BY LedgerNextType, EntriesStep
  <2> QED
    BY <2>1, EntriesTidyStep, AwardsMatchStep, EntriesNotLost
<1>3. AttendanceKept <=> [][NotLost]_ledgerVars
  BY DEF AttendanceKept
<1> HIDE DEF NotLost
<1> QED
  BY <1>1, <1>2, <1>3, DeskTypesCorrect, DeskGivesCommands, DeskOneActiveRaid, PTL
     DEF DeskSpec

\* No entry is lost when handlers and the job overtake one another.
THEOREM DeskKeepsAttendance == DeskSpec => AttendanceKept
BY DeskAwardsMatch

\* The ticks of the running raid are an interval apart, whoever started it,
\* and whatever was awarded or merged between two looks of the scheduler.
THEOREM DeskTicksApart ==
  ASSUME ClockForward
  PROVE  DeskSpec => []TicksApart
<1>1. DeskInit => TicksTimed
  BY DEF DeskInit, TicksTimed
<1>2. EntriesTidy /\ TicksTimed /\ LedgerTypeOK /\ OneActiveRaid
        /\ [LedgerNext]_ledgerVars => TicksTimed'
  BY TicksTimedStep
<1>3. TicksTimed /\ OneActiveRaid => TicksApart
  BY TicksTimedApart
<1> QED
  BY <1>1, <1>2, <1>3, DeskTypesCorrect, DeskGivesCommands, DeskOneActiveRaid,
     DeskAwardsMatch, PTL DEF DeskSpec

\* Balances are the sums of their histories at the desk too.
THEOREM DeskHistoryExplains == DeskSpec => []HistoryExplainsBalance
<1>1. DeskInit => HistoryExplainsBalance
  BY HistoryStartsEmpty DEF DeskInit
<1> QED
  BY <1>1, HistoryStep, DeskTypesCorrect, DeskGivesCommands, PTL DEF DeskSpec

\* Officers' renames, the job's and merges leave no line with another name.
THEOREM DeskLinesName == DeskSpec => []LinesNameTheirRaid
<1>1. DeskInit => LinesNameTheirRaid
  BY DEF DeskInit, AccountsInit, LinesNameTheirRaid, RaidRefs
<1> QED
  BY <1>1, LinesNameStep, DeskTypesCorrect, DeskGivesCommands, DeskOneActiveRaid, PTL
     DEF DeskSpec

=============================================================================
