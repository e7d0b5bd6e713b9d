------------------------------- MODULE BidDesk -------------------------------
(***************************************************************************)
(* The auction desk in Discord: officers configure the guild and put items *)
(* up, members bid through buttons, a list of their characters and a       *)
(* dialog, or roll.  Between any two of these steps the configuration, the *)
(* roster, the attendance and the auction may move; what the last step     *)
(* submits is decided by the ledger.  Who wins is in Auctions, which post  *)
(* shows it in AuctionPosts.                                               *)
(***************************************************************************)
EXTENDS Integers, Sequences, FiniteSets, SequencesExt, FiniteSetsExt

CONSTANTS
  Starts,       \* configurations and rosters to begin with
  Players,      \* Discord members, each with an account
  Admins,       \* those with the Administrator permission
  RoleHolders,  \* officer role -> the members who hold it
  Characters,   \* character names
  Usable,       \* the characters whose class and race may use the item
  Levels,       \* levels of a character
  Attendances,  \* attendance percentages
  Balance,      \* what every member holds
  Channels,     \* voice channels
  Lists,        \* what is typed as extraraidchannels
  Knobs,        \* the other options of /configure, as partial records
  AuctionIds,   \* auction ids
  MinBids,      \* the minimum an officer types
  Costs,        \* what an officer lets a roll cost
  Amounts,      \* what a member types in the dialog
  Tasks,        \* handlers that may be under way at once
  MaxExtras,    \* MAX_EXTRA_RAID_CHANNELS
  MaxClicks     \* bound: commands, clicks and moves

None  == 0
Unset == -1

Config == [role : DOMAIN RoleHolders \cup {None}, raid : Channels \cup {None},
           extras : Seq(Nat), auction : BOOLEAN, minBid : Nat,
           characterBids : BOOLEAN, mainLine : 0 .. 100, altLine : 0 .. 100,
           mainLevel : 0 .. 65, altLevel : 0 .. 65]

\* A character on somebody's row, or level 0 for none.
Row == [level : Levels \cup {0}, ranked : BOOLEAN]

RaidChannels(cfg) ==
  (IF cfg.raid = None THEN <<>> ELSE <<cfg.raid>>) \o cfg.extras

ASSUME PlayersAssumption ==
  /\ Players # {} /\ Admins \subseteq Players
  /\ Usable \subseteq Characters /\ None \notin Characters
ASSUME ChannelsAssumption == Channels \subseteq Nat \ {None} /\ Lists \subseteq Seq(Nat)
ASSUME NumbersAssumption ==
  /\ Levels \subseteq 1 .. 65 /\ Attendances \subseteq 0 .. 100
  /\ {Balance, MaxExtras, MaxClicks} \subseteq Nat
  /\ MinBids \cup Costs \subseteq Nat /\ Amounts \subseteq Int
ASSUME StartsAssumption == \A s \in Starts :
  /\ s.config \in Config /\ IsInjective(RaidChannels(s.config))
  /\ s.rows \in [Players -> [Characters -> Row]]
ASSUME KnobsAssumption == \A k \in Knobs :
  DOMAIN k \subseteq {"minBid", "mainLine", "altLine", "mainLevel", "altLevel"}

VARIABLES
  config,      \* GuildState.config
  rows,        \* GuildState.roster
  attendance,  \* attendance_pct of every member, as the raids move it
  voice,       \* where everybody sits, from the gateway cache
  auctions,    \* GuildState.auctions
  task,        \* handlers, dialogs and pickers that are open
  clicks

worldVars == <<rows, attendance, voice>>
vars == <<config, worldVars, auctions, task, clicks>>

\* What nobody has configured yet.
Default == [role |-> None, raid |-> None, extras |-> <<>>, auction |-> FALSE,
            minBid |-> 0, characterBids |-> FALSE, mainLine |-> 0,
            altLine |-> 0, mainLevel |-> 0, altLevel |-> 0]

NoRow == [level |-> 0, ranked |-> FALSE]

Unopened == [status |-> "none", roll |-> FALSE, minBid |-> 0, cost |-> 0,
             channel |-> None, rollers |-> Players, bids |-> <<>>, rolls |-> {}]

\* An opening, or one member's bid: the auction, the button pressed, the
\* character chosen, and what an opening has read so far.
Idle == [pc |-> "idle", p |-> CHOOSE p \in Players : TRUE, a |-> None,
         main |-> FALSE, char |-> None, roll |-> FALSE, channel |-> None,
         minBid |-> Unset, cost |-> 0, rollers |-> {}]

Init ==
  /\ \E s \in Starts : config = s.config /\ rows = s.rows
  /\ attendance \in [Players -> Attendances]
  /\ voice = [p \in Players |-> None]
  /\ auctions = [a \in AuctionIds |-> Unopened]
  /\ task = [t \in Tasks |-> Idle]
  /\ clicks = 0

Click   == clicks < MaxClicks /\ clicks' = clicks + 1
NoClick == UNCHANGED clicks

At(t, pc) == task[t].pc = pc
Ends(t)   == task' = [task EXCEPT ![t] = Idle]

\* officer_check: administrators, and whoever has the role.
IsOfficer(p) ==
  p \in Admins \/ (config.role # None /\ p \in RoleHolders[config.role])

\* officer_role_check, where DKP moves: being an administrator is not enough
\* once there is a role.
HasOfficerRole(p) ==
  IF config.role = None THEN p \in Admins ELSE p \in RoleHolders[config.role]

-----------------------------------------------------------------------------
(* The configuration.  A patch names what it sets.                         *)

\* f @@ g, which the provers do not know.
Over(f, g) ==
  [x \in DOMAIN f \cup DOMAIN g |-> IF x \in DOMAIN f THEN f[x] ELSE g[x]]

\* apply_patch.
Patched(patch) == Over(patch, config)

Within(patch, field, S) == field \in DOMAIN patch => patch[field] \in S

\* The part of validate_config that looks at single values.
SoundValues(patch) ==
  /\ Within(patch, "minBid", Nat)
  /\ \A f \in {"mainLine", "altLine"} : Within(patch, f, 0 .. 100)
  /\ \A f \in {"mainLevel", "altLevel"} : Within(patch, f, 0 .. 65)

\* A slip of ValidConfig: the list is held against the channel of its own
\* patch only.
ValidConfigAlone(patch) ==
  /\ SoundValues(patch)
  /\ "extras" \in DOMAIN patch =>
       /\ Len(patch.extras) <= MaxExtras /\ IsInjective(patch.extras)
       /\ "raid" \in DOMAIN patch => patch.raid \notin ToSet(patch.extras)

\* validate_config: channels are held against the merged result.
ValidConfig(patch) ==
  LET merged == Patched(patch) IN
  /\ SoundValues(patch)
  /\ Len(merged.extras) <= MaxExtras
  /\ merged.raid \notin ToSet(merged.extras)
  /\ IsInjective(merged.extras)

UpdateConfig(patch) ==
  config' = IF ValidConfig(patch) THEN Patched(patch) ELSE config

\* What parse_channel_list and is_voice_channel let through: voice channels.
ReadsAsChannels(list) == ToSet(list) \subseteq Channels

\* /configure: role and raid channel are required, the rest is optional.
Configure(p, role, raid, typed) ==
  /\ p \in Admins /\ Click
  /\ "extras" \in DOMAIN typed => ReadsAsChannels(typed.extras)
  /\ UpdateConfig(Over(typed, [role |-> role, raid |-> raid, auction |-> TRUE]))
  /\ UNCHANGED <<worldVars, auctions, task>>

\* /feature characterbids.
Feature(p, on) ==
  /\ IsOfficer(p) /\ Click
  /\ UpdateConfig([characterBids |-> on])
  /\ UNCHANGED <<worldVars, auctions, task>>

-----------------------------------------------------------------------------
(* What moves meanwhile.                                                   *)

Rank(p, c) ==
  /\ Click /\ rows[p][c] # NoRow
  /\ rows' = [rows EXCEPT ![p][c].ranked = ~ @]
  /\ UNCHANGED <<config, attendance, voice, auctions, task>>

\* A row is added with a level, changed, or removed with its rank.
Edit(p, c, row) ==
  /\ Click
  /\ row = NoRow \/ row.ranked = rows[p][c].ranked
  /\ rows' = [rows EXCEPT ![p][c] = row]
  /\ UNCHANGED <<config, attendance, voice, auctions, task>>

\* attendance_pct moves with the raids and with the weeks.
Attends(p, pct) ==
  /\ Click /\ attendance' = [attendance EXCEPT ![p] = pct]
  /\ UNCHANGED <<config, rows, voice, auctions, task>>

Moves(p, channel) ==
  /\ Click /\ voice' = [voice EXCEPT ![p] = channel]
  /\ UNCHANGED <<config, rows, attendance, auctions, task>>

\* An auction that takes no more bids is closed here, whether it is settled or
\* cancelled.  Its time is up:
Stops(a) ==
  /\ Click /\ auctions[a].status = "open"
  /\ auctions' = [auctions EXCEPT ![a].status = "closed"]
  /\ UNCHANGED <<config, worldVars, task>>

\* /cancelauction, /endauction, and the Cancel button of a short auction.
CancelAuction(p, a) == HasOfficerRole(p) /\ Stops(a)
EndAuction(p, a)    == HasOfficerRole(p) /\ Stops(a)
CancelClick(p, a)   == IsOfficer(p) /\ ~ auctions[a].roll /\ Stops(a)

-----------------------------------------------------------------------------
(* Putting an item up.                                                     *)

Start(t, k) ==
  /\ At(t, "idle") /\ IsOfficer(k.p) /\ Click
  /\ task' = [task EXCEPT ![t] = [k EXCEPT !.pc = "item"]]
  /\ UNCHANGED <<config, worldVars, auctions>>

\* /startbid and /startlongbid.
StartBid(t, p, minBid) == Start(t, [Idle EXCEPT !.p = p, !.minBid = minBid])

\* /rollauction.  A roll for one channel's group is refused here already when
\* the raid does not count the channel.
RollAuction(t, p, channel, cost) ==
  /\ channel # None => channel \in ToSet(RaidChannels(config))
  /\ Start(t, [Idle EXCEPT !.p = p, !.roll = TRUE, !.channel = channel, !.cost = cost])

\* The item is searched for and the start confirmed, within 30 s each.
PickerTimesOut(t) ==
  /\ At(t, "item") /\ Ends(t)
  /\ NoClick /\ UNCHANGED <<config, worldVars, auctions>>

\* open_auction reads its terms and who sits in the channel.
ReadTerms(t) ==
  /\ At(t, "item")
  /\ IF config.auction
     THEN task' = [task EXCEPT ![t] = [task[t] EXCEPT !.pc = "open",
            !.minBid = IF task[t].roll THEN 0
                       ELSE IF @ = Unset THEN config.minBid ELSE @,
            !.rollers = IF task[t].channel = None THEN Players
                        ELSE {q \in Players : voice[q] = task[t].channel}]]
     ELSE Ends(t)
  /\ NoClick /\ UNCHANGED <<config, worldVars, auctions>>

\* decide, OpenAuction: the channel must still count and somebody be in it.
MayOpen(k, a) ==
  /\ auctions[a].status = "none"
  /\ k.channel # None =>
       k.channel \in ToSet(RaidChannels(config)) /\ k.rollers # {}

OpenAuction(t, a) ==
  /\ At(t, "open")
  /\ auctions' = IF MayOpen(task[t], a)
       THEN [auctions EXCEPT ![a] = [Unopened EXCEPT !.status = "open",
               !.roll = task[t].roll, !.minBid = task[t].minBid, !.cost = task[t].cost,
               !.channel = task[t].channel, !.rollers = task[t].rollers]]
       ELSE auctions
  /\ Ends(t)
  /\ NoClick /\ UNCHANGED <<config, worldVars>>

-----------------------------------------------------------------------------
(* Bids and rolls.                                                         *)

\* committed_elsewhere.
Committed(p, a) ==
  MapThenSumSet(LAMBDA b : auctions[b].bids[p].amount,
    {b \in AuctionIds \ {a} :
       auctions[b].status = "open" /\ p \in DOMAIN auctions[b].bids})

Available(p, a) == Balance - Committed(p, a)

\* The button under a roll.
Roll(p, a) ==
  /\ Click
  /\ auctions[a].status = "open" /\ auctions[a].roll
  /\ p \in auctions[a].rollers \ auctions[a].rolls
  /\ auctions[a].cost > 0 => auctions[a].cost <= Available(p, a)
  /\ auctions' = [auctions EXCEPT ![a].rolls = @ \cup {p}]
  /\ UNCHANGED <<config, worldVars, task>>

\* bid_characters: the Main button is for ranked characters.
BidCharacters(p, main) ==
  {c \in Characters : rows[p][c] # NoRow /\ (main => rows[p][c].ranked)}

MinLevel(main) == IF main THEN config.mainLevel ELSE config.altLevel

\* Fit::split: whom class and race let use the item.  One that is not mirrored
\* yet fits everybody.
Fits == {Usable, Characters}

\* pick: those of the side that are high enough and fit the item.
Candidates(p, main, fits) ==
  {c \in BidCharacters(p, main) \cap fits :
     MinLevel(main) = 0 \/ rows[p][c].level >= MinLevel(main)}

Dialog(t, char) == task' = [task EXCEPT ![t].pc = "dialog", ![t].char = char]

\* A Bid or Alt bid button: a dialog at once without characters or for the
\* only one there is, a list when there are several, a refusal for none.
Press(t, p, a, main) ==
  /\ At(t, "idle") /\ Click
  /\ auctions[a].status # "none" /\ ~ auctions[a].roll
  /\ \E fits \in Fits :
       LET asked == [Idle EXCEPT !.p = p, !.a = a, !.main = main]
           offered == Candidates(p, main, fits) IN
       task' = [task EXCEPT ![t] =
         IF ~ config.characterBids THEN [asked EXCEPT !.pc = "dialog"]
         ELSE IF offered = {} THEN Idle
         ELSE IF Cardinality(offered) = 1
         THEN [asked EXCEPT !.pc = "dialog", !.char = CHOOSE c \in offered : TRUE]
         ELSE [asked EXCEPT !.pc = "list"]]
  /\ UNCHANGED <<config, worldVars, auctions>>

\* A slip of Choose: what the list offered is taken at its word.
ChooseTrusting(t, c) ==
  /\ At(t, "list") /\ Dialog(t, c)
  /\ NoClick /\ UNCHANGED <<config, worldVars, auctions>>

\* What is chosen is looked up again among those offered now.
Choose(t, c) ==
  /\ At(t, "list")
  /\ \E fits \in Fits :
       IF config.characterBids /\ c \in Candidates(task[t].p, task[t].main, fits)
       THEN Dialog(t, c)
       ELSE Ends(t)
  /\ NoClick /\ UNCHANGED <<config, worldVars, auctions>>

\* A main bid under the main line lands on the alt side.
LandsMain(p, main) ==
  main /\ ~ (config.mainLine > 0 /\ attendance[p] < config.mainLine)

\* A slip of MayBidWith: the dialog is trusted with the character.
MayBidWithAny(p, main, c) == TRUE

\* Whether the ledger takes a bid of the side it lands on for c.
MayBidWith(p, main, c) ==
  /\ c \in BidCharacters(p, main)
  /\ MinLevel(main) > 0 => rows[p][c].level >= MinLevel(main)

\* decide, PlaceBid.
MayBid(p, a, amount, main, char) ==
  LET side == LandsMain(p, main) IN
  /\ auctions[a].status = "open" /\ ~ auctions[a].roll
  /\ amount > 0 /\ amount >= auctions[a].minBid
  /\ amount <= Available(p, a)
  /\ ~ side => ~ (config.altLine > 0 /\ attendance[p] < config.altLine)
  /\ char # None => MayBidWith(p, side, char)

WithBid(a, p, bid) ==
  [auctions EXCEPT ![a].bids =
    [q \in DOMAIN @ \cup {p} |-> IF q = p THEN bid ELSE @[q]]]

WithoutBid(a, p) ==
  [auctions EXCEPT ![a].bids = [q \in DOMAIN @ \ {p} |-> @[q]]]

\* The dialog is submitted: zero withdraws, anything else bids.
Submit(t, amount) ==
  LET k == task[t] IN
  /\ At(t, "dialog")
  /\ auctions' =
       IF amount = 0
       THEN IF auctions[k.a].status = "open" /\ k.p \in DOMAIN auctions[k.a].bids
            THEN WithoutBid(k.a, k.p) ELSE auctions
       ELSE IF MayBid(k.p, k.a, amount, k.main, k.char)
       THEN WithBid(k.a, k.p, [amount |-> amount, main |-> LandsMain(k.p, k.main),
                               char |-> k.char])
       ELSE auctions
  /\ Ends(t)
  /\ NoClick /\ UNCHANGED <<config, worldVars>>

\* A list or a dialog is closed, or nothing readable was typed.
Dismiss(t) ==
  /\ task[t].pc \in {"list", "dialog"} /\ Ends(t)
  /\ NoClick /\ UNCHANGED <<config, worldVars, auctions>>

-----------------------------------------------------------------------------
Officers(p) ==
  \/ \E role \in DOMAIN RoleHolders, raid \in Channels, k \in Knobs :
       \/ Configure(p, role, raid, k)
       \/ \E list \in Lists : Configure(p, role, raid, Over(k, [extras |-> list]))
  \/ \E on \in BOOLEAN : Feature(p, on)
  \/ \E t \in Tasks :
       \/ \E m \in MinBids \cup {Unset} : StartBid(t, p, m)
       \/ \E ch \in Channels \cup {None}, cost \in Costs \cup {0} :
            RollAuction(t, p, ch, cost)
  \/ \E a \in AuctionIds :
       CancelAuction(p, a) \/ EndAuction(p, a) \/ CancelClick(p, a)

Around(p) ==
  \/ \E c \in Characters :
       \/ Rank(p, c)
       \/ \E row \in {NoRow} \cup [level : Levels, ranked : BOOLEAN] : Edit(p, c, row)
  \/ \E pct \in Attendances : Attends(p, pct)
  \/ \E ch \in Channels \cup {None} : Moves(p, ch)

Proceeds(t) ==
  \/ PickerTimesOut(t) \/ ReadTerms(t) \/ Dismiss(t)
  \/ \E a \in AuctionIds : OpenAuction(t, a)
  \/ \E c \in Characters : Choose(t, c)
  \/ \E amount \in Amounts : Submit(t, amount)

Next ==
  \/ \E p \in Players : Officers(p) \/ Around(p)
  \/ \E t \in Tasks : Proceeds(t)
  \/ \E a \in AuctionIds : Stops(a)
  \/ \E p \in Players, a \in AuctionIds :
       \/ Roll(p, a)
       \/ \E t \in Tasks, main \in BOOLEAN : Press(t, p, a, main)

Spec == Init /\ [][Next]_vars

-----------------------------------------------------------------------------
\* No voice channel is counted, and rung, twice, in whatever order the raid
\* channel and the others are set ("the same one twice would award a doubled
\* tick to everyone in it", decide.rs).
CountedOnce == IsInjective(RaidChannels(config))

\* The buttons and the ledger agree: a dialog that opens is for a character
\* the ledger would take on that side at this moment, however old the list it
\* was chosen from, and for none only while bids go by account.
OfferedMeansTaken ==
  [][\A t \in Tasks :
       LET k == task'[t] IN
       k.pc = "dialog" /\ task[t].pc # "dialog" =>
         IF k.char = None THEN ~ config.characterBids
         ELSE LandsMain(k.p, k.main) = k.main => MayBidWith(k.p, k.main, k.char)]_vars

\* A bid that comes to stand obeys the rules of that moment, however old the
\* list and the dialog it came through: the character is on the bidder's row,
\* is ranked when the bid counts as a main's, and has the level of the side.
NoStaleBid ==
  [][\A a \in AuctionIds, p \in Players :
       p \in DOMAIN auctions'[a].bids /\ auctions'[a] # auctions[a]
         /\ (p \in DOMAIN auctions[a].bids => auctions'[a].bids[p] # auctions[a].bids[p]) =>
         LET b == auctions'[a].bids[p] IN
         /\ b.amount >= auctions[a].minBid /\ auctions[a].status = "open"
         /\ b.main => attendance[p] >= config.mainLine
         /\ b.char # None =>
              /\ rows[p][b.char] # NoRow
              /\ b.main => rows[p][b.char].ranked
              /\ rows[p][b.char].level >= MinLevel(b.main)]_vars
=============================================================================
