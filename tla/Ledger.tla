------------------------------- MODULE Ledger -------------------------------
(***************************************************************************)
(* The ledger of one guild: accounts, raids and auctions behind one        *)
(* sequence number, as decide and apply run them one command at a time,    *)
(* and what must hold of it whatever commands arrive.                      *)
(***************************************************************************)
EXTENDS Auctions

LedgerInit == AccountsInit /\ RaidsInit /\ AuctionsInit

LedgerNext ==
  \/ AccountsStep(ActiveRef) /\ UNCHANGED <<raidVars, auctions>>
  \/ RaidStep /\ UNCHANGED auctions
  \/ AuctionStep

LedgerSpec == LedgerInit /\ [][LedgerNext]_ledgerVars

\* Every variable of the ledger has its type.
LedgerTypeOK == AccountsTypeOK /\ RaidsTypeOK /\ AuctionsTypeOK

-----------------------------------------------------------------------------
(* Accounts *)

\* No balance is ever negative (architecture.md, integrity invariant 2):
\* neither an adjustment nor the charging of any number of auctions, closed
\* and drawn in any order, takes more than is there.
BalanceNonNegative == \A p \in Players : balance[p] >= 0

\* The lines of p that name raid r, added up.
LinesOf(p, r) ==
  history[p][r]["award"] + history[p][r]["adjust"] + history[p][r]["loot"]

\* The balance a player carries is the sum of the lines of the history kept
\* beside it: awarding, adjusting, charging, merging and renaming raids all
\* leave the two in step, though each writes them separately.
HistoryExplainsBalance ==
  \A p \in Players :
    balance[p] = SumFunction([r \in RaidRefs |-> LinesOf(p, r)])

-----------------------------------------------------------------------------
(* Raids *)

\* At most one raid is active, and active_raid names it: the flag inside the
\* raid and the pointer beside the map agree at every event.
OneActiveRaid ==
  {r \in RaidIds : raids[r].status = "active"} = {activeRaid} \ {NoRaid}

\* The attendance entries of raid r that p is on.
EntriesOf(p, r) == {e \in raids[r].entries : p \in e.players}

\* What a player was awarded in a raid is what the attendance entries of the
\* raid, moved around by merges, say it was there for.
AwardsMatchAttendance ==
  \A p \in Players, r \in RaidIds :
    history[p][r]["award"] = SumFunction([e \in EntriesOf(p, r) |-> e.amount])

\* No log line names a raid that is gone, and the copy of the name it carries
\* is the name the raid has now, after any renames and merges.
LinesNameTheirRaid ==
  \A p \in Players, r \in RaidIds :
    lineNames[p][r] # {} => Exists(r) /\ lineNames[p][r] = {raids[r].name}

AllEntries == UNION {raids[r].entries : r \in RaidIds}

\* An attendance entry, once written, is never lost or changed: it may only
\* move to the raid its own was merged into.
AttendanceKept == [][AllEntries \subseteq AllEntries']_ledgerVars

\* Two paid ticks of the running raid are an interval apart, whatever awards
\* were given in between, as long as the clock is not stepped back.
TicksApart ==
  \A e, f \in UNION {raids[r].entries :
                       r \in {s \in RaidIds : raids[s].status = "active"}} :
    e # f /\ {e.kind, f.kind} \subseteq {"Start", "Tick"} =>
      e.ts - f.ts >= TickInterval \/ f.ts - e.ts >= TickInterval

-----------------------------------------------------------------------------
(* Auctions *)

\* The settled auctions that p pays for, and what it owes for them.
WonBy(p) == {a \in AuctionIds : /\ HasStatus(a, "finalized")
                                /\ auctions[a].terms.debit
                                /\ p \in DOMAIN auctions[a].winners}
Winnings(p) == SumFunction([a \in WonBy(p) |-> auctions[a].winners[p]])

\* Winners are charged once and in full: the loot lines of a player are what
\* the finalized auctions that debit say it won, whatever raid they name.
ChargedOnce ==
  \A p \in Players :
    SumFunction([r \in RaidRefs |-> - history[p][r]["loot"]]) = Winnings(p)

\* DKP a player holds as standing bids.
BidOnBy(p) ==
  {a \in AuctionIds : HasStatus(a, "open") /\ p \in DOMAIN auctions[a].bids}
StandingBids(p) == SumFunction([a \in BidOnBy(p) |-> auctions[a].bids[p].amount])

\* Whoever raises the DKP it has standing in open auctions can pay for all of
\* it: bids in parallel auctions never spend the same DKP twice.
BidsCovered ==
  [][\A p \in Players :
       StandingBids(p)' > StandingBids(p) => StandingBids(p)' <= balance'[p]
    ]_ledgerVars

\* An auction only moves forward, and once it stopped taking bids nothing
\* that decides it moves: neither bids, rolls nor the seed; once settled,
\* nothing at all.
SettledStays ==
  [][\A a \in AuctionIds :
       LET was == auctions[a]
           is  == auctions'[a] IN
       /\ was.status = "open" => is.status # "none"
       /\ was.status = "closed" =>
            /\ is.status \in {"closed", "finalized", "cancelled"}
            /\ is.bids = was.bids /\ is.rolls = was.rolls /\ is.seed = was.seed
       /\ was.status \in {"finalized", "cancelled"} => is = was
    ]_ledgerVars

Settles(a) == HasStatus(a, "closed") /\ auctions'[a].status = "finalized"

\* The members charged are the ones the embed of the closed auction proposed,
\* as long as the same bids are still covered: the draw is fixed at the close
\* and the officer's click does not repeat it.
ChargedAsProposed ==
  [][\A a \in AuctionIds :
       Settles(a) /\ ValidBidders(a) = auctions[a].validThen =>
         auctions'[a].winners = auctions[a].proposed]_ledgerVars
=============================================================================
