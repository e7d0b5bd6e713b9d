------------------------------ MODULE Accounts ------------------------------
(***************************************************************************)
(* The accounts of one guild: who has one, the balance each carries, and   *)
(* the DKP history that is kept beside the balance, as decide.rs and       *)
(* apply.rs maintain them.  Raids and Auctions extend this module and move *)
(* DKP only through Post.                                                  *)
(*                                                                         *)
(* A player's log (a vector of lines in the code) is kept as the sum of    *)
(* its lines per raid and per kind of line: that is what tells a lost or a *)
(* doubled line from a kept one, and it does not grow with the log.        *)
(***************************************************************************)
EXTENDS Integers, FiniteSets

CONSTANTS
  Players,      \* Discord members
  Characters,   \* character names, lower case as the ledger keys them
  RaidIds,      \* raid ids; /startraid mints a new one from the clock
  NoRaid,       \* "no raid": no active raid, a log line outside any raid
  Nobody,       \* the owner of a character nobody linked
  Names,        \* raid names
  Deltas,       \* amounts of a manual adjustment
  MaxSeq        \* bound: events in the log

ASSUME PlayersAssumption == Nobody \notin Players /\ IsFiniteSet(Players)
ASSUME RaidIdsAssumption == NoRaid \notin RaidIds /\ IsFiniteSet(RaidIds)
ASSUME NamesAssumption   == Names # {}
ASSUME DeltasAssumption  == Deltas \subseteq Int
ASSUME MaxSeqAssumption  == MaxSeq \in Nat

VARIABLES
  seq,          \* Ledger.next_seq
  members,      \* the keys of GuildState.players
  balance,      \* Player.balance; 0 for a player without an account
  owner,        \* GuildState.characters
  history,      \* Player.log, summed per raid and kind of line
  lineNames     \* the raid names those lines carry (RaidRef.name is a copy)

accountVars == <<seq, members, balance, owner, history, lineNames>>

RaidRefs  == RaidIds \cup {NoRaid}
LineKinds == {"award", "adjust", "loot"}

AccountsTypeOK ==
  /\ seq \in Nat
  /\ members \subseteq Players
  /\ balance \in [Players -> Int]
  /\ owner \in [Characters -> Players \cup {Nobody}]
  /\ history \in [Players -> [RaidRefs -> [LineKinds -> Int]]]
  /\ lineNames \in [Players -> [RaidRefs -> SUBSET Names]]

AccountsInit ==
  /\ seq = 0
  /\ members = {}
  /\ balance = [p \in Players |-> 0]
  /\ owner = [c \in Characters |-> Nobody]
  /\ history = [p \in Players |-> [r \in RaidRefs |-> [k \in LineKinds |-> 0]]]
  /\ lineNames = [p \in Players |-> [r \in RaidRefs |-> {}]]

\* The events of one decision get consecutive sequence numbers.
Emit(n) == seq + n <= MaxSeq /\ seq' = seq + n

\* What p reads as its balance: an unknown player has none.
BalanceOf(p) == IF p \in members THEN balance[p] ELSE 0

\* What a log line says about its raid: the id, and a copy of the name the
\* raid has at this moment (none outside a raid).
RaidRef == [id : RaidRefs, names : SUBSET Names]
NoRef   == [id |-> NoRaid, names |-> {}]

\* One log line of kind k for every player in the domain of delta, and the
\* balance moved by the same amount in the same fold step.
Post(delta, ref, k) ==
  /\ members' = members \cup DOMAIN delta
  /\ balance' = [p \in Players |->
       IF p \in DOMAIN delta THEN balance[p] + delta[p] ELSE balance[p]]
  /\ history' = [p \in Players |->
       IF p \in DOMAIN delta
       THEN [history[p] EXCEPT ![ref.id][k] = @ + delta[p]]
       ELSE history[p]]
  /\ lineNames' = [p \in Players |->
       IF p \in DOMAIN delta
       THEN [lineNames[p] EXCEPT ![ref.id] = @ \cup ref.names]
       ELSE lineNames[p]]

LinkCharacter(p, c) ==
  /\ owner[c] = Nobody
  /\ owner' = [owner EXCEPT ![c] = p]
  /\ members' = members \cup {p}
  /\ Emit(1)
  /\ UNCHANGED <<balance, history, lineNames>>

\* /adjustdkp, /removedkp.  Only the balance is looked at: DKP committed as
\* standing bids may be taken away.  ref is the active raid, or NoRef.
AdjustDkp(p, delta, ref) ==
  /\ delta # 0
  /\ delta < 0 => BalanceOf(p) + delta >= 0
  /\ Post([q \in {p} |-> delta], ref, "adjust")
  /\ Emit(1)
  /\ UNCHANGED owner

AdjustByCharacter(c, delta, ref) ==
  /\ owner[c] # Nobody
  /\ AdjustDkp(owner[c], delta, ref)

AccountsStep(ref) ==
  \/ \E p \in Players, c \in Characters : LinkCharacter(p, c)
  \/ \E p \in Players, d \in Deltas : AdjustDkp(p, d, ref)
  \/ \E c \in Characters, d \in Deltas : AdjustByCharacter(c, d, ref)
=============================================================================
