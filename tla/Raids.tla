-------------------------------- MODULE Raids --------------------------------
(***************************************************************************)
(* Raids: starting, ticking, awarding, ending, merging and renaming, over  *)
(* the accounts they pay into.  Each action is one command of decide.rs    *)
(* together with the fold of all its events in apply.rs.                   *)
(***************************************************************************)
EXTENDS Accounts

CONSTANTS
  Kills,         \* boss kills a raid may have recorded
  TickDkps,      \* dkp_per_tick of a started raid
  Awards,        \* amounts of /award
  TickInterval,  \* tick_interval_ms
  ClockSteps,    \* by how much the wall clock may move at once
  MaxTime        \* bound: the wall clock

ASSUME TickIntervalAssumption == TickInterval \in Nat \ {0}
ASSUME TickDkpsAssumption == TickDkps \subseteq Nat
ASSUME AwardsAssumption == Awards \subseteq Nat
ASSUME ClockAssumption == ClockSteps \subseteq Int /\ MaxTime \in Nat

VARIABLES
  raids,         \* GuildState.raids
  activeRaid,    \* GuildState.active_raid
  now            \* Ctx.now_ms: the wall clock the driver stamps commands with

raidVars == <<raids, activeRaid, now>>

Time == 0..MaxTime

\* One line of a raid's attendance.  seq is the number of the event that
\* wrote it: it tells two equal lines apart and orders a running raid's list.
Entry == [seq : Nat, kind : {"Start", "Tick", "Award", "End"}, ts : Time,
          players : SUBSET Players, amount : Nat]

\* "absent": the id was never used; "gone": merged into another raid and
\* removed from the map.
Raid == [status : {"absent", "active", "ended", "gone"}, name : Names,
         perTick : Nat, tickNo : Nat, entries : SUBSET Entry,
         kills : SUBSET Kills]

RaidsTypeOK ==
  /\ raids \in [RaidIds -> Raid]
  /\ activeRaid \in RaidRefs
  /\ now \in Time

NewRaid(name, perTick, status) ==
  [status |-> status, name |-> name, perTick |-> perTick, tickNo |-> 0,
   entries |-> {}, kills |-> {}]

RaidsInit ==
  /\ raids = [r \in RaidIds |-> NewRaid(CHOOSE n \in Names : TRUE, 0, "absent")]
  /\ activeRaid = NoRaid
  /\ now = 0

Exists(r) == raids[r].status \in {"active", "ended"}

RefOf(r) == [id |-> r, names |-> {raids[r].name}]

\* active_raid_ref: what a log line written now says about its raid.
ActiveRef == IF activeRaid = NoRaid THEN NoRef ELSE RefOf(activeRaid)

\* The last entry of a raid, when it has one.
LastEntry(r) ==
  CHOOSE e \in raids[r].entries : \A f \in raids[r].entries : f.seq <= e.seq

\* A slip of Award: only players that already have an account are paid.
AwardMembersOnly(raid, ref, n, kind, present, amount) ==
  /\ IF amount # 0
     THEN Post([p \in present \cap members |-> amount], ref, "award")
     ELSE UNCHANGED <<members, balance, history, lineNames>>
  /\ raids' = [raids EXCEPT ![ref.id] =
       [raid EXCEPT !.entries = raid.entries \cup
          {[seq |-> n, kind |-> kind, ts |-> now, players |-> present,
            amount |-> amount]}]]

\* award(): pay everybody present, one line each (none at all for 0 DKP),
\* and write the attendance entry with number n.
Award(raid, ref, n, kind, present, amount) ==
  /\ IF amount # 0
     THEN Post([p \in present |-> amount], ref, "award")
     ELSE UNCHANGED <<members, balance, history, lineNames>>
  /\ raids' = [raids EXCEPT ![ref.id] =
       [raid EXCEPT !.entries = raid.entries \cup
          {[seq |-> n, kind |-> kind, ts |-> now, players |-> present,
            amount |-> amount]}]]

\* A slip of StartRaid: a raid starts beside the one that runs.
StartBeside(r, name, perTick, present) ==
  /\ raids[r].status = "absent"
  /\ Award(NewRaid(name, perTick, "active"), [id |-> r, names |-> {name}],
           seq + 1, "Start", present, perTick)
  /\ activeRaid' = r
  /\ Emit(2)
  /\ UNCHANGED <<owner, now>>

\* RaidStarted and the opening award are two events of one decision.  The id
\* is new: discord.rs mints it from the clock, decide does not check it.
StartRaid(r, name, perTick, present) ==
  /\ activeRaid = NoRaid
  /\ raids[r].status = "absent"
  /\ Award(NewRaid(name, perTick, "active"), [id |-> r, names |-> {name}],
           seq + 1, "Start", present, perTick)
  /\ activeRaid' = r
  /\ Emit(2)
  /\ UNCHANGED <<owner, now>>

\* A slip of TickDue: the interval is counted from any line, not the last.
TickDueSinceAny(r) ==
  raids[r].entries # {} =>
    \E e \in raids[r].entries : e.ts + TickInterval <= now

TickDue(r) ==
  raids[r].entries # {} => LastEntry(r).ts + TickInterval <= now

Tick(present) ==
  /\ activeRaid # NoRaid
  /\ TickDue(activeRaid)
  /\ LET raid == raids[activeRaid] IN
       Award([raid EXCEPT !.tickNo = @ + 1], RefOf(activeRaid), seq, "Tick",
             present, raid.perTick)
  /\ Emit(1)
  /\ UNCHANGED <<owner, activeRaid, now>>

AwardRaid(present, amount) ==
  /\ activeRaid # NoRaid
  /\ Award(raids[activeRaid], RefOf(activeRaid), seq, "Award", present, amount)
  /\ Emit(1)
  /\ UNCHANGED <<owner, activeRaid, now>>

\* The End entry and RaidEnded are two events of one decision.
EndRaid(present) ==
  /\ activeRaid # NoRaid
  /\ Award([raids[activeRaid] EXCEPT !.status = "ended"], RefOf(activeRaid),
           seq, "End", present, 0)
  /\ activeRaid' = NoRaid
  /\ Emit(2)
  /\ UNCHANGED <<owner, now>>

\* A slip of Joined: the entries replace those of the raid they move to.
JoinedReplacing(from, into) ==
  [raids[into] EXCEPT !.entries = raids[from].entries,
                      !.kills = raids[from].kills \cup raids[into].kills]

Joined(from, into) ==
  [raids[into] EXCEPT !.entries = raids[from].entries \cup raids[into].entries,
                      !.kills = raids[from].kills \cup raids[into].kills]

Gone(r) == [raids[r] EXCEPT !.status = "gone", !.entries = {}, !.kills = {}]

\* A slip of MergeRaid: the lines keep the name of the raid that is gone.
MergeKeepsNames(from, into) ==
  /\ from # into
  /\ raids[from].status = "ended" /\ raids[into].status = "ended"
  /\ raids' = [raids EXCEPT ![into] = Joined(from, into), ![from] = Gone(from)]
  /\ history' = [p \in Players |-> [history[p] EXCEPT
       ![into] = [k \in LineKinds |-> @[k] + history[p][from][k]],
       ![from] = [k \in LineKinds |-> 0]]]
  /\ lineNames' = [p \in Players |-> [lineNames[p] EXCEPT
       ![into] = @ \cup lineNames[p][from], ![from] = {}]]
  /\ Emit(1)
  /\ UNCHANGED <<members, balance, owner, activeRaid, now>>

\* Another: the lines of the raid that is gone are dropped with it.
MergeDropsLines(from, into) ==
  /\ from # into
  /\ raids[from].status = "ended" /\ raids[into].status = "ended"
  /\ raids' = [raids EXCEPT ![into] = Joined(from, into), ![from] = Gone(from)]
  /\ history' = [p \in Players |-> [history[p] EXCEPT
       ![from] = [k \in LineKinds |-> 0]]]
  /\ lineNames' = [p \in Players |-> [lineNames[p] EXCEPT ![from] = {}]]
  /\ Emit(1)
  /\ UNCHANGED <<members, balance, owner, activeRaid, now>>

\* The entries and kills of one raid move to the other, and every log line
\* that named the first now names the second, by id and by name.
MergeRaid(from, into) ==
  /\ from # into
  /\ raids[from].status = "ended" /\ raids[into].status = "ended"
  /\ raids' = [raids EXCEPT ![into] = Joined(from, into), ![from] = Gone(from)]
  /\ history' = [p \in Players |-> [history[p] EXCEPT
       ![into] = [k \in LineKinds |-> @[k] + history[p][from][k]],
       ![from] = [k \in LineKinds |-> 0]]]
  /\ lineNames' = [p \in Players |-> [lineNames[p] EXCEPT
       ![into] = @ \cup (IF lineNames[p][from] = {} THEN {}
                         ELSE {raids[into].name}),
       ![from] = {}]]
  /\ Emit(1)
  /\ UNCHANGED <<members, balance, owner, activeRaid, now>>

\* The recorder runs at every boot: only a change of the list is an event.
RecordRaidKills(r, kills) ==
  /\ Exists(r)
  /\ kills # {} /\ kills # raids[r].kills
  /\ raids' = [raids EXCEPT ![r].kills = kills]
  /\ Emit(1)
  /\ UNCHANGED <<members, balance, owner, history, lineNames, activeRaid, now>>

RenameRaid(r, name) ==
  /\ Exists(r)
  /\ raids' = [raids EXCEPT ![r].name = name]
  /\ lineNames' = [p \in Players |-> [lineNames[p] EXCEPT
       ![r] = IF @ = {} THEN {} ELSE {name}]]
  /\ Emit(1)
  /\ UNCHANGED <<members, balance, owner, history, activeRaid, now>>

\* Time passes, or the host's clock is stepped.
Clock ==
  /\ \E d \in ClockSteps : now + d \in Time /\ now' = now + d
  /\ UNCHANGED <<accountVars, raids, activeRaid>>

RaidStep ==
  \/ \E r \in RaidIds, n \in Names, d \in TickDkps, S \in SUBSET Players :
       StartRaid(r, n, d, S)
  \/ \E S \in SUBSET Players : Tick(S) \/ EndRaid(S)
  \/ \E S \in SUBSET Players, a \in Awards : AwardRaid(S, a)
  \/ \E r, s \in RaidIds : MergeRaid(r, s)
  \/ \E r \in RaidIds, K \in SUBSET Kills : RecordRaidKills(r, K)
  \/ \E r \in RaidIds, n \in Names : RenameRaid(r, n)
  \/ Clock
=============================================================================
