# A TLA+ model of Nocturnal

Nocturnal is the bot of one EverQuest guild: it keeps the members' DKP, runs the
raids that earn it and the auctions that spend it, and stores every change as an
event. This directory holds TLA+ modules that model its parts, TLC
configurations that check them on small instances, and theorems about them whose
proofs TLAPS checks. Paths without a directory are below `src/crates/`.

- [The system](#the-system): its parts, their state, what makes them correct
- [The plan](#the-plan): the modules, those written and those to come
- [The modules](#the-modules): how state and actions correspond to the code
- [The runs](#the-runs): what each shows, with its bounds
- [The proofs](#the-proofs)
- [What the models disagree with](#what-the-models-disagree-with)
- [What is left out](#what-is-left-out)

## The system

One process, one guild, one writer. A command (from Discord, the web or a
background task) goes into the driver's queue; a single thread decides it
against the state in memory, appends the resulting events to the write-ahead
log, fsyncs, applies the events to the state, and only then answers. A boot
replays what is stored. Everything else reads snapshots, talks to Discord, and
sends commands.

```
 Discord, web, scheduler, recorder, provisioning
        | Command                      ^ answer; event broadcast
        v                              |
   driver: decide -> append+fsync -> apply -> answer -> publish
        |   (nocturnal-core)   |
        |                      v
        |              WAL segments --compaction--> Parquet by month --> archive
        '------- boot replays: Parquet, then the tail of the WAL -------'
```

| Part | State | Operations | What makes it correct | Hard because |
|---|---|---|---|---|
| accounts (`nocturnal-core/src/{decide,apply,state}.rs`) | players, balances, a log of lines each, character owners | link, adjust by member or character | no negative balance; the log explains the balance | the balance and the log are written separately, the log by merges and renames too |
| raids (same) | raids with attendance and kills, `active_raid` | start, tick, award, end, merge, record kills, rename | one active raid; pay agrees with attendance; ticks keep their distance; nothing is lost | the active flag and the pointer are two copies; merges move entries, lines and kills in three loops |
| auctions (same, `auction.rs`) | auctions with bids, rolls, seed, winners | open, bid, retract, roll, close, finalize, cancel, deadline changes | bids never promise the same DKP twice; winners are charged once, as drawn; settled is settled | bids in parallel auctions, balances that move between bid, close and finalize; several callers race to settle |
| winner selection (`auction.rs`) | none | `winners`, `top_bids`, `roll_winners` | as many winners as items, the best bids by the guild's rule | indexed loops over ties, two pools, roll-offs |
| raid commands and jobs (`nocturnal/src/{discord,raid_names,raidhelper,scheduler}.rs`) | none of its own: windows, lists and names read before a wait | `/startraid`, `/endraid`, merge, rename, awards; the half-hourly naming and kill recording | every ended raid ends up with its name and all its kills | the job works off a list read earlier, its sources fail, officers merge and rename meanwhile |
| auction commands (`nocturnal/src/auctions.rs`, `loot_fit.rs`) | open pickers, character lists and dialogs | start an auction or a roll; bid through button, list, dialog; end, cancel | what is offered is accepted, what went stale is not | roster, attendance, configuration and auction move between any two clicks |
| configuration (`decide.rs`, `state.rs`, `discord.rs`) | `GuildConfig` | `/configure`, `/feature` as partial patches | each channel counts once | no single patch shows both channels |
| roster and profiles (`decide.rs`, `roster.rs`, `roster_page.rs`, `profiles.rs`) | rows with level and rank; uploaded profiles; the site's snapshot | add, edit, remove, rank, upload; the render with its syncs | ranks belong to the officers; the site shows the freshest word | renders run side by side, read early and write late; queries fail |
| log (`nocturnal-store/src/wal.rs`) | segments, next number | open, append batch, rotate, seal | no acknowledged event is lost; a torn tail is cut, anything else refused | crashes, half writes and failed fsyncs between any two steps |
| compaction (`nocturnal-store/src/compact.rs`) | one Parquet file per month | open, compact | idempotent; replay never sees an event twice or misses one | several files and segments, no transaction |
| archive (`nocturnal-store/src/archive.rs`) | remote copies | restore at boot, write-through | what is restored joins the log | each upload may fail and is only logged |
| driver (`nocturnal/src/driver.rs`) | the ledger, the queue | execute, query, compact, subscribe | Ok means durable and applied; an error means nothing happened | events are published after the answer; the thread dies with the process |
| scheduler (`nocturnal/src/scheduler.rs`) | none: a cycle every 10 s | propose ticks, close due auctions, draw rolls | every due auction closes; a roll closed is drawn, across restarts | two commands per roll, officers in between |
| auction posts (`nocturnal/src/auctions.rs`) | the message of each post; a slot per post: its turn, `queued` | refresh, forget, repost at boot | the last edit shows the last state; a settled post shows no buttons | edits are awaited, fold into each other, time out and are retried |
| telemetry provisioning (`nocturnal-provision/src/lib.rs`, `nocturnal/src/provision.rs`) | token hashes and tenant files on disk | issue, append, revoke, rewrite, import | no token without a grant; the files follow the grants | two tasks rewrite one file through one temporary name |
| attendance, raid nights (`state.rs`) | none | 60-day percentage | a night counts once | time windows |
| bell, feedback, health, web pages, telemetry, items, migration | little | see the code | see PROJECT.json | mostly input and output |

`PROJECT.json` lists every part with its status, and under `hazards` the lines
where this code is hard to test, each with the properties that cover it.

## The plan

Written, in this order, most important first:

1. `Accounts` < `Raids` < `Winners`, `Auctions` < `Ledger`: what decide and apply
   do, composed behind one sequence number.
2. `WinnerLoops`: the loops of winner selection against the sets the ledger uses.
3. `Store`, refining `DurableLog`: driver, log and compaction under crashes.
4. `SumLemmas`, `LedgerProofs` (of `Ledger` and `RaidDesk`), `StoreProofs`,
   `WinnerLoopsProofs`, `PostProofs`, `ProvisioningProofs`, `BidDeskProofs`,
   `RosterProofs`: see [The proofs](#the-proofs).
5. `Scheduler` < `AuctionPosts`: the timers of the auctions and their Discord
   posts, over an auction reduced to status, deadline and a version.
6. `Provisioning`: `tokens.txt` and the tenants' files against the grants.
7. `RaidDesk` over `Ledger`: the raid commands and the two jobs that issue the
   ledger's commands, from what they read before they waited.
8. `RosterBook`: the roster, the uploads and the renders of the site.
9. `BidDesk`: what an officer configures and opens and what a member is offered
   and bids, through dialogs that stay open.

To come, in this order:

| What | Over | Questions |
|---|---|---|
| the auctions of `Ledger` implement those of `Scheduler` and `BidDesk`, step by step, as theorems | `Ledger` | what status, deadline and terms a reduced auction may be taken to have |
| `Archive`: restore and write-through beside `Store`'s partitions | `Store` | a disk restored from the archive joins the log it finds |
| `Attendance`, `Bell`, `Feedback`, `Migration`: pure functions and small loops | | against reference definitions |

Abstract specifications worth stating: the durable log (done), the ledger as what the raid
desk does (done, `DeskGivesCommands`), and those auctions.

Beside some definitions stands a *slip*: the same operation with a plausible bug
in it (a dropped check, a lost update). No specification uses them. Putting one in the
place of its original must break the property PROJECT.json pairs it with.

## The modules

### Accounts, Raids, Auctions, Ledger

One action is one command: the guard is what `decide` refuses, the effect is the
fold of all the events it emits (`apply`). `Emit` advances `seq` by the number of
events, so numbers identify the same events as in the code.

| Variable | Code |
|---|---|
| `seq` | `Ledger.next_seq` |
| `members`, `balance` | keys of `GuildState.players`, `Player.balance` (0 if absent) |
| `owner` | `GuildState.characters` |
| `history[p][r][k]` | `Player.log`: the sum of p's lines of kind k that name raid r |
| `lineNames[p][r]` | the names those lines carry (`RaidRef.name` is a copy, rewritten by merge and rename) |
| `raids`, `activeRaid` | `GuildState.raids` with `active`, `active_raid` |
| `raids[r].entries` | `Raid.entries`, in a set; `seq` tells equal entries apart and orders a running raid |
| `now` | `Ctx.now_ms` |
| `auctions[a]` | `GuildState.auctions`; `proposed` and `validThen` are history variables for what the closed post shows |

A seed is a choice function: given a set of tied players and a number of slots it
returns that many of them. That is all the ChaCha generator is used for, and it
keeps the one fact that matters, that the same seed and bids give the same draw.
`TermsOf` models the zeroing of bid settings a roll does not have; `LandsMain` the
demotion of a main bid below the attendance line.

Amounts of a tick and of `/award` are natural numbers by assumption: `decide`
refuses negative ones. Raid ids are fresh: `StartRaid` in the code does not look
(see hazards).

`Winners` states who wins as sets: `Draw` among the tied, `TopBids`, mains first.
`WinnerLoops` has the loops of `auction.rs` one round per step; `Init` ranges over
every bid auction and every roll of the given size.

### Store

One action is one system call of the writer thread or one decision about it. `pc`
is where the writer thread is; "down" and "refused" are a process that is not
there, and one that exited because what it found does not replay.

| Variable | Code |
|---|---|
| `segs`, `synced` | the segment files, and how much of the last one is known to be on disk |
| `Half`, `Bad` | a line without its newline; a line whose checksum is wrong |
| `parquet` | the records of each month's file |
| `bytes` | `Wal.bytes`, in records: rotation and sealing read it, not the file |
| `walSeq` | `Wal.next_seq` |
| `ledger` | the events the live `Ledger` has applied |
| `batch`, `left` | the staged events; those not yet written |
| `todo` | partitions a compaction still has to write |
| `acked`, `failed` | commands answered Ok; answered with `ExecError::Storage` |

`PowerLoss` keeps any prefix of what was not fsynced, the last line possibly cut;
`Kill` keeps all of it, and may strike inside a write. Partitions are written
aside and renamed, so a crash finds the old or the new file. After a failed write
the half line stays, `bytes` and `walSeq` do not move, and `Written` glues the next
record to it, as the open file does. `Boot` covers `Store::open` and the replay:
cutting the torn tail, skipping what the partitions have, aligning `walSeq`. `BootAccepts` is
the checks that `open` makes, each on its own file: partitions from 0, the log's tail without a
gap, and beginning no later than they end. That the replay as a whole has none is `ReplayAgrees`.

`DurableLog` is what a caller may rely on: a log that grows at the end, and a
stable part that no crash takes. `IsDurableLog` maps `log` to what a boot would
replay now (`Replayable`), and `stable` to the end of the last acknowledged command in it.

### Scheduler, AuctionPosts

`Scheduler` is `auction_cycle`: `ReadDue` takes the list, `Fire`, `Refused` and
`CycleFails` are the outcomes of one command, `NextEntry` the end of an entry.
`Stop` may strike between any two of them. An auction is its status, flavor,
deadline and a version that counts its changes; what bids and winners are is
`Ledger`'s matter. `People` are officers and members, at any moment.

`AuctionPosts` puts the handlers in their place. A task is a handler or a background
edit, and its `pc` says what it waits for:

| `pc` | Waiting for |
|---|---|
| `query`, `send`, `sent` | the opener: to read the auction back, to post it, to remember the message |
| `bid`, `roll`, `settle` | the answer to whoever clicked; a failed one ends a bid or a settling before it refreshes |
| `end` | the second command of `/endauction` |
| `refresh` | to look up the edit slot |
| `wait`, `queue` | the turn: a handler's own refresh, a background one |
| `render`, `edit` | the ledger, Discord |

| Variable | Code |
|---|---|
| `known` | `AuctionUi.messages` has the auction |
| `slot` | which `EditSlot` `AuctionUi.edits` hands out: `forget` drops it while its holder goes on |
| `turn`, `queued` | the mutex and the flag of each slot |
| `shown` | the version the post on Discord shows |
| `owed` | versions made while the post was known, not shown yet and not given up; a history variable. A failed answer, edit or command, or a stop, gives up what it carried |
| `shown[a].buttons` | the buttons under the post: the boot's scan knows a post by them |

A time-out leaves open whether Discord made the edit. That an edit given up is never made *later*
is an assumption (the code drops the request). `Boot` is one step:
nobody is served, and no timer runs, before it is over. It finds any of the posts of
open auctions, edits some of those and posts some of the rest anew.

### RaidDesk

`RaidDesk` EXTENDS `Ledger`: the change of every action is one of the ledger's
commands or none. A task is a command handler or the half-hourly job; `pc` is
what it awaits: RaidHelper (`lookup`, `fetch`), the ledger's answer to what it asks
next (`ended`, `unnamed`, `linked`), or the telemetry for the raids of `todo`
(`kills`, `names`), each with the window it had when the list was taken.
`RecordKills` and `NameRaid` are one round of the loops of `record_recent_kills`
and `name_unnamed_raids`, or the same calls in `/endraid`; `up` says which sources
answer. `Dies` is the game: a boss dies at a moment, and `SeenBy` says which of
damage, lockout notice and death packet tell of it. The model's time is shorter
than the 30 days the job looks back. A name is one of four: the old placeholder,
the name of the day, a given one, and the one picked from the bosses.

| Variable | Code |
|---|---|
| `window` | `Raid.date_ms`, `Raid.ended_ms` |
| `linked` | the raids with an `event_id` |
| `task[t].todo`, `owed` | the lists the loops of the job and of the event award work off |

### BidDesk

A task is a handler and then the picker, list or dialog it left open: Discord
keeps the state in the message, and the code finds out again who may do what.
`ValidConfig` is `validate_config` on the merged result; `Press`, `Choose` and
`Submit` are the button, the select and the modal. `attendance` moves by itself;
class and race of a character either fit the item or not (`Usable`), and an item
that is not mirrored yet fits everybody. An auction here is its status, terms, bids
and rolls: settling and charging are `Auctions`'. A member with Administrator but
without the officer role may open an auction and not end it (`HasOfficerRole`).

### RosterBook

What the game knows of a character is one number, its level; what only people know is
its rank. `MaySet` is `decide`'s SetRosterCharacter with the actor. A command reads
the row, waits, and writes it whole (`Upsert`, `UpsertWrites`; `Upload` in four
steps). A render (`EarlySnapshot` ... `Publish`) runs in handlers and in the loop at once;
`reports` is what Ourios answers now, and a failed query leaves the client profiles
shown before. `stamp` orders uploads and reports.

### Provisioning

One action is one ledger command or one call on the file system. A file is an
inode and a name that points to it, since a writer may go on writing to a file
another one has renamed: `Create`, `Write` and `Rename` are `write_atomic`. `/dpstoken`
and its gate button, `/dpsrevoke` and the append run side by side. `Boot` covers the
rewrite at start, `StartImport` ... `ImportEnds` the import of the predecessor's files,
which may stop between any two lines and be run again.

A line is a name and the number of its secret, and is as wide as `Width` says of the name.
Every writer starts at the beginning of the file it opened, so `Write` leaves of a longer old
text what the new one does not reach (`Overlaid`), its first line perhaps cut: a piece (`IsPiece`),
whose secret is numbered apart, with the name still on it or not. A read of `tokens.txt` that fails is an
empty file to those who read it (`Reads`): `append_token` then replaces the file with its
one line (`lib.rs:254`), a rewrite empties it and goes on to the members' files; a role binding that
cannot be read imports a viewer. A call that fails while the members' files are being bound, or a stop,
leaves any part of them behind (`Underway`). `kept`, `issued`, `clean`, `shared` and `import.unserved` are
history: lines that ought to stay, lines recorded, no race or failure since the boot, two writers in one
file, no bot has served.

## The runs

Bounds stop the models (`MaxSeq` events, `MaxCmds` commands, `MaxClicks` clicks,
`MaxTime`), and the loops end; the runs therefore do not look for deadlock.
That the writer never gets stuck is `BackToTheQueue` instead.

| Run | Instance | Shows |
|---|---|---|
| `MCLedger_auctions` | 2 members, 2 auctions, 3 offers (charging with a main lock; free with alts promoted and two items; a roll), 2 bid amounts, attendance below, between and above the two lines, 2 seeds, 9 events | `BidsCovered`, `ChargedOnce`, `SettledStays`, `ChargedAsProposed`, `BalanceNonNegative` |
| `MCLedger_whole` | 1 member with a character, 2 raids, 2 names, 1 auction, withdrawals, 13 events | `HistoryExplainsBalance`, `LinesNameTheirRaid` with loot, through merges and renames |
| `RaidDesk` | 2 raids, one of them perhaps imported; 2 members, of whom 1 may be in voice; 1 handler beside the job; a kill only damage shows and a later one only a death packet shows; 2 instants, 3 commands, 1 failed source, call or restart | `OneActiveRaid`, `AwardsMatchAttendance`, `TicksApart`, `AttendanceKept`; `NightsCatchUp`: name and kills of every night arrive |
| `BidDesk` | 1 member, also the officer, with 2 characters, one of which fits the item; 2 voice channels; an unconfigured guild and one that bids by character; 2 dialogs; 5 commands, clicks and moves | `CountedOnce`; `OfferedMeansTaken`, `NoStaleBid`: between button, list and dialog everything else moves |
| `AuctionPosts` | 1 auction (long or roll), 2 tasks beside the scheduler, 1 bid or roll, 2 instants, 2 attempts per edit, 2 faults of 4 kinds | `NothingLost`, `NeverBackwards`, `PostCatchesUp` |
| `RosterBook` | 1 member with a main and an alt, 2 levels, 1 handler beside the loop, 3 commands or reports, 1 fault | `MembersKeepRanks`, `SiteCatchesUp` |
| `Provisioning` | 2 members, 2 handlers, 2 tokens, 2 commands, 1 fault, every state the predecessor may have left | `NothingUnrecorded`: what the ledger did not record is dpsbot's, or a piece where two writers shared a file; `InStep` after an undisturbed boot; `ImportChangesNothing`: the same set of lines, and a grant for each of a bound member, also when an import resumes |
| `WinnerLoops` | 3 bidders, 2 amounts, 2 attendances, with and without lock and promotion; 4 rollers, 3 faces, 3 items, 2 rounds | the loops end with the winners the sets name, every slot is filled |
| `Scheduler` | 2 auctions of any flavor, 4 instants, 2 stops or storage errors | `NeverEarly`: an old list settles nothing before its time; `TimersFire` |
| `Store` | 3 commands of 2 events, 3 records per segment, 2 months, failed fsyncs and compactions, power loss and kills anywhere | nothing acknowledged is lost; always boots; log and ledger in step; refines `DurableLog`; comes back to its queue |
| `Store_write` | writes that stop half way as well | `ReplayAgrees`: a boot may refuse, but what it accepts has no hole, agrees with the ledger event by event, and has beyond it only what failed or was under way |
| `MCLedger_rollcost` | 2 rolls with a cost, 1 balance | a counterexample to `BalanceNonNegative`, see below |

*Why the bounds are enough.* Two members can outbid each other and race for the
same DKP; two auctions are the least that can promise it twice; 9 events give
accounts, two opens, bids in both, closes, an adjustment in between and finalizes.
Two raids give a merge, with an entry and a line on either side, and a rename
before or after; 13 events reach a loot line in a raid that is renamed and merged. Batches of two events in segments of three make every
second command straddle a rotation; two months make a compaction two files; three
commands let a compacted prefix, a sealed segment and a running one coexist.
For the timers, two auctions make a list whose second entry grows old while the first
is worked off, and four instants a close, a grace and a settling. The posts of two
auctions share nothing, so one is enough; two tasks are one edit that holds
the turn and one that waits, a third request folds into it, and two attempts with two faults
reach the end of the retries; that a closed auction waits before it is drawn is
`Scheduler`'s question, so there is no grace here.
In `RaidDesk` the handler and the job are the two that overtake each other; three
commands reach a start, an end and a merge or an award in between, and one fault a kill list from two
sources out of three. In `BidDesk` one member is enough, because a bid is held
against the bidder's own row and balance only; five steps are a button, three
moves of the world and another button or command, and two dialogs are open at once (they are
interchangeable, and the run uses that). One upload, one report and one rank in `RosterBook`
are what a render in a handler and one in the loop can read in different orders. Two handlers
in `Provisioning` share the temporary file; a third would find the same file. Its lines are of
two widths, so that one text ends inside a line of another. In `RaidDesk` and `RosterBook` no second handler
runs beside the first; that no other order of handlers breaks `OneActiveRaid` or `MembersKeepRanks` is
`DeskOneActiveRaid` and `MembersNeverRank`, for any number of them.
Raid ids and auction ids are interchangeable in the ledger (no action chooses
among them), so its runs use symmetry over them, as `Provisioning` and `BidDesk` do over their tasks, in runs with safety
properties only; members are not, since seeds tell them apart.

*Fairness.* `Store` assumes weak fairness of the writer thread's own steps and
of `Boot`. The thread runs one command or compaction after the other without waiting for
anybody (`driver.rs`, `writer_loop`), and the host restarts the process; nothing is
assumed of clients, of crashes or of I/O errors, so `BackToTheQueue` has to hold
even if the machine crashes again and again. The number of crashes is not bounded.
`Scheduler` assumes that its cycle goes on (an endless loop that logs
errors), that the host restarts the bot, and that time passes. `AuctionPosts` adds
that each task goes on, an edit ending after its 30 s at the latest, and strong
fairness of taking a turn, since the mutex serves its waiters in order. The
scheduler's refresh is spawned at once in the code and waits for a free task only here, whence
strong fairness of the cycle. Faults are bounded there, and nobody has to click.
`RaidDesk` and `RosterBook` assume weak fairness of the half-hourly loop, one task of the
runtime that goes through its steps and sleeps (`discord.rs`, `run`); nothing is
assumed of commands, and handlers may hang for ever. Faults are bounded, which is
the "once the sources answer" of their properties.
`WinnerLoops` is a sequential function: weak fairness of its step says that it runs.

## The proofs

Every theorem holds for all values of the constants that meet the named
assumptions of the modules: any finite set of members, raids and auctions, any
number of commands, tasks, retries and crashes. The proofs have no other premises than those
in their statements.

| Theorem | Statement |
|---|---|
| *`LedgerProofs`* | |
| `LedgerTypeCorrect` | `LedgerSpec => []LedgerTypeOK` |
| `OneActiveRaidAlways` | `LedgerSpec => []OneActiveRaid` |
| `SettledAuctionsStay` | `LedgerSpec => SettledStays` |
| `ProposedAreCharged` | `LedgerSpec => ChargedAsProposed` |
| `BalancesCovered` | `FreeRolls` gives `LedgerSpec => []BalanceNonNegative` |
| `HistoryAlwaysExplains` | `LedgerSpec => []HistoryExplainsBalance` |
| `AwardsAlwaysMatch`, `AttendanceAlwaysKept` | `LedgerSpec => []AwardsMatchAttendance /\ AttendanceKept` |
| `LinesAlwaysNameTheirRaid` | `LedgerSpec => []LinesNameTheirRaid` |
| `TicksAlwaysApart` | `ClockForward` gives `LedgerSpec => []TicksApart` |
| `WinnersAlwaysCharged` | `LedgerSpec => []ChargedOnce` |
| `BidsAlwaysCovered` | `LedgerSpec => BidsCovered` |
| `DeskTypesCorrect` | `DeskSpec => []DeskTypeOK /\ []LedgerTypeOK` |
| `DeskGivesCommands` | `DeskSpec => [][LedgerNext]_ledgerVars`: every step of the raid desk is a command of the ledger or none |
| `DeskOneActiveRaid`, `DeskHistoryExplains`, `DeskLinesName` | `DeskSpec => []OneActiveRaid`, `[]HistoryExplainsBalance`, `[]LinesNameTheirRaid` |
| `DeskAwardsMatch`, `DeskKeepsAttendance` | `DeskSpec => []AwardsMatchAttendance`, `AttendanceKept` |
| `DeskTicksApart` | `ClockForward` gives `DeskSpec => []TicksApart` |
| *`WinnerLoopsProofs`* | |
| `LoopPicksTheWinners`, `LosersAlwaysTreatedFairly` | `Spec => []PicksAreWinners`, `[]FairToLosers` |
| `RollsPickTheWinners`, `FieldAlwaysExceedsSlots` | `Spec => []RollsAreWinners`, `[]FieldExceedsSlots` |
| *`StoreProofs`* | |
| `StoreTypeCorrect`, `ReplayNeverReplaces` | `Spec => []StoreTypeOK`, `[]ReplayAgrees` |
| `AcknowledgedSurvive`, `LogNeverBehind` | `WholeWrites` gives `Spec => []AckedSurvive`, `[]LogFollowsLedger` |
| `NeverRefusesToBoot`, `LedgerAlwaysReplay` | `WholeWrites`, `~ ClockBack` give `Spec => []NeverRefused`, `[]LedgerIsReplay` |
| `StoreIsDurableLog` | the same give `Spec => IsDurableLog` |
| *`PostProofs`* | |
| `SchedTypesCorrect`, `TimersNeverEarly` | `SchedSpec => []SchedTypeOK`, `NeverEarly` |
| `NothingEverLost` | `Spec => []NothingLost` |
| `PostsNeverGoBack` | `Spec => NeverBackwards` |
| *`ProvisioningProofs`* | |
| `ProvTypesCorrect` | `Spec => []ProvTypeOK` |
| `NothingEverUnrecorded`, `UndisturbedStaysInStep` | `Spec => []NothingUnrecorded`, `[]InStep` |
| `ImportsChangeNothing` | `Spec => ImportChangesNothing` |
| *`BidDeskProofs`* | |
| `ChannelsAlwaysCountedOnce` | `Spec => []CountedOnce` |
| `OfferedIsTaken`, `BidsNeverStale` | `Spec => OfferedMeansTaken`, `NoStaleBid` |
| *`RosterProofs`* | |
| `RosterTypesCorrect`, `MembersNeverRank` | `Spec => []RosterTypeOK`, `MembersKeepRanks` |

*Premises in the statements.* `FreeRolls`: rolls cost nothing (`MCLedger_rollcost` is
the counterexample without it). `ClockForward`: the clock is not stepped back, as the
property itself says. `WholeWrites`: no write stops half way; `~ ClockBack`: the
clock does not go back over a month (`Store_acked` and `Store_clock` are the
counterexamples). What holds without them is proved without them: `ReplayAgrees` covers half
writes and any clock. `NothingUnrecorded` and `ImportChangesNothing` have their exceptions in the statement:
a piece of a line where two writers held one file, and a bot that has served already.

*Assumptions on constants.* The sets of members, raids, auctions and tasks are finite
where something is added up or counted over them; a half line and a bad line are not records;
configurations to begin with are ones that `validate_config` lets through; an event pays a natural number,
and what it pays and what officers add or take are amounts of the ledger (`Deltas`); somebody is a member and some
character exists. TLC evaluates all of them in the runs.

### How the arguments go

**Sums.** `SumLemmas` has what is needed of `SumFunction` over finite sets: adding or removing
an index (`SumInsert`, `SumRemove`), equal terms (`SumSame`), one term changed (`SumChange`), an amount moved
from one term to another (`SumTransfer`), a disjoint union, a part of non-negative terms. The provers cannot use an
induction theorem over an operator, so the lemmas that need induction take a least counterexample: among the
subsets a claim fails for there is one that contains no other such (`LeastSubset`), and removing an element of it
gives one.

**Accounts.** `HistoryExplainsBalance` is inductive given types: each command adds the same
amount to a balance and to one line (`Post`), and a merge moves lines between two
places of one sum. `ChargedOnce` compares a sum over raids with a sum over auctions: no
step but a finalize moves either (`AuctionStepKinds`), and a finalize adds one auction with what its winners
owe. `BidsCovered` is a statement about steps: only a bid raises what is standing, and its guard is
the sum over the other auctions (`committed_elsewhere`). `BalancesCovered` needs that a closed or open
auction's terms cost a roll nothing (`AuctionsFree`), and that a winner of a bid auction
pays a bid that was covered when it was drawn (`WinnersPrice`, `ValidBidders`).

**Raids.** `AwardsMatchAttendance` is a sum over entries; a merge unites two sets that
have to be disjoint, which is what `EntriesTidy` says: a raid's entries are finitely many and numbered below `seq`, no number
is in two raids, and raids that are absent or merged away have none. `TicksApart` looks at the last entry only
(`TickDue`), so its strengthening `TicksTimed` says of the active raid that the order of its entries' numbers is
that of their times, that none is later than now, and that paid ticks are apart. `LinesNameTheirRaid` needs that at
most one raid is active.

**Raid desk.** Handlers act on lists, windows and names they read before they waited, so the raids' properties
could fail here although each command keeps them. They do not, because a step is a command with arguments the ledger
takes from anybody: `DeskTypeOK` says that what a handler carries is a raid, a name or a list of raids (`OnRaid`: past
the first await of `/startraid` it is about a raid that exists as an id), and `DeskStep` that a step is then one of `LedgerNext` or
leaves the ledger alone. The step lemmas of the ledger apply as they are; what is new is the start, which may have an imported
raid with its own entries.

**Auctions.** `SettledStays` and `ChargedAsProposed` follow from what a step can do to one
auction; `ProposedFromClose` is the strengthening: a closed auction's proposal is
what the seed and the bids it keeps give for the bids valid at the close.

**Winner loops.** `BidInv` describes the loop half way (`LoopAt`): what has been picked are the best
of the side gone through so far, and when the alts' side is gone through all mains are in; at the end that is
`BestWinners`. `RollInv` says of a roll-off that nobody left out rolled higher than a winner or than anybody still
in the field, that the field is larger than the slots that are open, and that after the first round only
equals roll.

**Store.** `ChainInv`: the ledger and the batch that is being written continue one another
without a gap. `AgreeInv` adds what is on disk: a number has one record, in however many places it
is stored (`OneRecord`); a record whose number the ledger has is the ledger's; any other is of a command that failed or is
under way, and below `walSeq`. Neither needs a premise, for a half line and what is glued to it are no records; with the
checks of `BootAccepts` they give `ReplayAgrees`. `DiskInv`, with whole writes: lines are
whole, segments ordered, no number has two records, all numbers are below `walSeq`, what is archived is in a
sealed segment or older than the log, and a running compaction has written all that is not on its list. `Follows`
says where `walSeq` and the ledger stand to one another at each `pc`. `FullInv`, without a stepped clock either:
no number below `walSeq` is missing, partitions are closed under what came before (`Closed`), months do not go
back, so that no boot is refused and what it replays is the ledger. `AckInv`: the last record of an acknowledged
command is where no crash reaches it. `StoreIsDurableLog` takes all of them (`LogInv`) and shows that initial states
map to initial states and each action to an append, a loss behind the stable part, an acknowledgement or a
stutter.

**Timers.** A list read earlier says something about an auction only as long as nobody
else moved it. `Timely` is what each entry still implies: an auction that is still open or closed as the entry's
steps expect has the deadline it had when the list was read, and it has passed. The first entry after
its close is a case of its own.

**Posts.** `NothingLost` is far from inductive: that a folded request is carried depends on `queued`,
`queued` on who waits in which slot, and that on slots being forgotten only once. `PostInv` has four
parts besides types: `SlotsKept` (whoever renders or edits has the turn of its slot; `queued` says exactly that
one background edit waits there), `Borne` (each version owed is carried: by the handler that made it, by a refresh that
has yet to render, by an edit that rendered at least that version, or by the scheduler's entry), and
`Fresh` (what is shown, and what an edit is about to show, is no newer than the auction, and the edit is no older
than what is shown; while an auction is open its post has the button; only the opener of
an auction posts for it, once). `PostsNeverGoBack` is `Fresh` at the three places that write a post: the
opener, an edit, the boot.

**Provisioning.** `Unshared`: as long as no two writers held one file, whoever holds one holds the temporary one, alone, and
finds it empty, so that nothing old is behind what it writes. `RecordedInv`: every line in a text a handler carries or in an inode,
named or not, was recorded or is dpsbot's, or is a piece and two writers did hold one file. `InStep` needs for each task how far it has come: `Achieved` says what a task at this `pc`
has brought about, `Sound` and `Whole` that what it is going to write is still what the grants want, `Agree` that the files
agree where nobody is under way. It holds as long as the history variable `clean` says that no two rewrites met.
`ImportInv` follows the imports before the first boot, cut short or not: all lines are still dpsbot's, whoever is managed
has the grant for one of them, and while an import runs a line is still to come or `Settled` (the bot's own, without a role, or
granted), so that when none is to come the rewrite drops nothing, and `Rewriting` carries this through its file-system calls.

**Bid desk.** `CountedOnce` is inductive with the type of the configuration: an accepted patch is checked as merged. The other two are
statements about the steps `Press`, `Choose` and `Submit`, over types of rows, tasks and auctions.

**Roster.** `MembersKeepRanks` is a statement about the writes of a member's commands: the row a member carries is old, but
it is accepted only if its rank is the one that is there now (`MaySet`, `MemberWrites`). It needs to know that
whoever writes has a row to write (`RosterTypeOK`).

### What is only model-checked

- Liveness: `TimersFire`, `PostCatchesUp`, `NightsCatchUp`, `SiteCatchesUp`, `BackToTheQueue`,
  `EveryItemGoes`. Liveness under fairness, and ENABLED, are out of the prover's reach.
  They are the only properties of the passing runs that no theorem states.
- What a recursive definition computes for every input, other than sums over sets.

Two definitions are written for the provers' sake: `Those` in `Provisioning` stands for `SelectSeq`,
and `InOrder` in `Scheduler` for `SetToSortSeq`, which they cannot expand; `Over` in
`BidDesk` is `@@`.

## What the models disagree with

`MCLedger_rollcost` is a run that expects its counterexample: rolls that cost DKP
can take a balance below zero. The cost is checked when the roll is made, against
standing bids only, and charged at the draw without another look
(`docs/architecture.md:156` says no event takes a balance negative).

Nine more configurations are kept beside the runs; each states what a text of the
repository says, and TLC ends with a counterexample:

| Configuration | Property | What the code does |
|---|---|---|
| `Store_acked` | `AckedSurvive` | after a half write the next record is glued to the half line, acknowledged, and cut off as a torn tail by the next boot (`wal.rs:251`; `docs/runbook.md:70` says nothing acknowledged is lost) |
| `Store_clock` | `NeverRefused` | a clock stepped back over a month boundary, and an interrupted compaction, leave partitions that do not start at 0; the bot does not open (`compact.rs:193`; `docs/hazards.md:34`) |
| `AuctionPosts_retry` | `RetryFindsPost` | the edit that takes the buttons off a settled auction's post is not retried after a time-out, because the post is forgotten before the first attempt (`auctions.rs:829`; `auctions.rs:756`, `791`) |
| `Provisioning_service` | `ServiceLineStays` | two rewrites of `tokens.txt` share one temporary file; one renames what the other has just truncated, and a rewrite that reads it at that moment loses the bot's own line for good (`nocturnal-provision/src/lib.rs:299`; its lines 15-19) |
| `Provisioning_partial` | `NeverPartial` | two handlers open the one temporary file at once, and the shorter text leaves the end of the longer behind it, the first line cut; a rewrite drops such a piece if a managed name is still on it, one without a name stays (`nocturnal-provision/src/lib.rs:299`; its line 269, "so a reader never sees a partial file") |
| `Provisioning_bytes` | `ImportByteIdentical` | an import puts the lines it took, by name, behind those it skipped (`nocturnal-provision/src/lib.rs:234`), and compares sorted lists of lines (`main.rs:169`); the comments say "compared byte for byte" (`main.rs:145`) and "byte-identical" (`main.rs:167`). What does hold is `ImportChangesNothing` |
| `RaidDesk_merge` | `NoKillLost` | a merge keeps the end of the raid it merges into; a kill of the other raid after that end is outside the window, and the next kill list drops it (`apply.rs:134`; its comment "A kill recorded on the false start belongs to the night") |
| `RosterBook_mains` | `OneMain` | the sync writes back the rank it read; if an officer ranked another character meanwhile, the member has two mains (`profiles.rs:713`) |
| `RosterBook_quiet` | `LedgerGoesQuiet` | a file and a client that disagree about a character's level rewrite the row in turn at every render, once each (`profiles.rs:484`; its line 535) |

Also seen in the models, without a text that says otherwise or with one about less:

- A decision of two events is two records and power loss can keep the first only; a
  command answered with a storage error after a failed fsync takes effect at the
  next boot if its records reached the disk (`driver.rs:17` says it did not happen).
- The winners a closed post proposes change when a winner spends the DKP before
  the officer confirms (`ProposedAreCharged` proves that this is the only way).
- A change made between posting and remembering a post is not shown. A post is
  always put up with live buttons, so an auction closed before its opener has read it
  back shows them until its next refresh. A boot that cannot edit the post it found
  puts up another beside it, and finds none of a closed auction. A click that settles an auction but whose
  answer fails leaves the post as it was.
- `/startraid` without a name calls the raid "Raid night" and the day, which is not a placeholder,
  so such a raid is never named from its kills (`discord.rs`, `startraid`). Naming by `/endraid`
  or the job overwrites an officer's `/renameraid` made while telemetry was asked
  (`discord.rs:2166`, `raid_names.rs:578`).
- While a source is out, a shorter kill list replaces a better one until the next
  pass (`NightsCatchUp` is about the end).
- The event award after a raid is booked on whatever raid is active by then; what
  its commands return is not looked at, and running it again pays again
  (`discord.rs:3107`).
- After seven days a client's fresher report drops out and an older uploaded file
  counts again (`profiles.rs:115`); concurrent renders may publish the older
  snapshot last, until the next one.
- The ALT button offers every character on the row; the comment at `state.rs:412`
  says every other one.

## What is left out

- In `tokens.txt`: a write that fails half way (the temporary file stays and is emptied by the next
  writer), and blank lines and lines that begin with `#`, which a rewrite drops.
- Directory entries: a new segment's name is taken to be durable with its
  content. The archive and its restore are planned.
- Draws are choice functions; the generator's bits are not modelled.
- The deadline in `Auctions`: `PlaceBid` does not look at it in the code
  either; closing on time is `Scheduler`'s.
- The driver's queue: a command of the desks is one step. What a handler knows is
  as old as its last read, which is where the code's hazards are.
- Raid ids minted from the clock; imports other than what they leave behind.
- The order of a raid's kill list. The code compares lists, the model sets.
- Widths of integers: balances are `i64` moved by amounts people type in.
- `legacy_history_click`, which rewrites a post older than 2026-10-22 in place.
- The pages of the web site, listings, searches and `/stresstest`: they read, and
  format what they read. With the item and spell tables, wording, layout and
  telemetry they are most of the source lines the modules do not stand for.
- Parsers of uploaded files, of telemetry answers and of the configuration file.
- Attendance as a function of raid nights; the bell, feedback marking and health
  probes; the offline migration.
