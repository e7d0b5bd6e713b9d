------------------------------ MODULE RaidDesk ------------------------------
(***************************************************************************)
(* The raid commands of the Discord bot and the jobs beside them, over the *)
(* ledger: /startraid and /endraid ask RaidHelper, Prometheus and Ourios   *)
(* between their ledger commands, the half-hourly job names raids and      *)
(* records their kills from a list it took earlier, the scheduler ticks,   *)
(* and officers rename, merge and award meanwhile.  Every change is a      *)
(* command of Ledger; what is new here is who issues it, when, and from    *)
(* which earlier read.                                                     *)
(*                                                                         *)
(* A kill is a boss and the time it died.  A source either answers with    *)
(* all it saw in a window or with nothing.                                 *)
(***************************************************************************)
EXTENDS Ledger

CONSTANTS
  Officers,     \* command handlers that may be under way at once
  Job,          \* the half-hourly loop, a task of its own
  Imports,      \* sets of raids an import may have left, all placeholder-named
  Placeholder,  \* the old timestamp markup, in Names
  DayName,      \* "Raid night <day>", in Names
  Given,        \* what an officer types, or the event's title, in Names
  Fought,       \* the name picked from the bosses hit, in Names
  SeenBy,       \* the sources that saw each kill
  Voice,        \* who may be in the raid's voice channels at one moment
  SignUps,      \* players signed up for the event and not absent or benched
  Corrections,  \* amounts of /adddkp and /removedkp
  EventDkp,     \* raidhelper_event_dkp
  MaxClicks,    \* bound: commands of officers
  MaxFaults     \* bound: restarts and failed calls

Sources == {"damage", "lockout", "death"}
Tasks   == Officers \cup {Job}

ASSUME DeskNamesAssumption == {Placeholder, DayName, Given, Fought} \subseteq Names
ASSUME SeenByAssumption == SeenBy \in [Kills -> SUBSET Sources]
ASSUME VoiceAssumption == Voice \subseteq SUBSET Players
ASSUME SignUpsAssumption == SignUps \subseteq Players
ASSUME DeskAmountsAssumption ==
  Corrections \cup {EventDkp} \subseteq Deltas /\ EventDkp \in Nat
ASSUME DeskBoundsAssumption == {MaxClicks, MaxFaults} \subseteq Nat
ASSUME JobAssumption == Job \notin Officers

VARIABLES
  window,   \* Raid.date_ms and Raid.ended_ms
  linked,   \* the raids with an event_id
  died,     \* the kills that happened so far
  task,     \* the handlers and the job
  clicks, faults   \* counters for the bounds

deskVars == <<ledgerVars, window, linked, died, task, clicks, faults>>

Pcs  == {"idle", "lookup", "ended", "kills", "unnamed", "names", "linked",
         "fetch", "pay"}
Span == [date : Time, ended : Time]

\* typed: the name to start with, or that the ended raid had when it was read;
\* todo: raids with the window read earlier, not yet worked on.
Idle == [pc |-> "idle", raid |-> NoRaid, typed |-> Given, todo |-> {},
         owed |-> {}]

Ended(r)   == raids[r].status = "ended"
Unnamed(r) == raids[r].name = Placeholder

DeskInit ==
  /\ AccountsInit /\ AuctionsInit
  /\ \E I \in Imports : raids = [r \in RaidIds |->
       NewRaid(Placeholder, 0, IF r \in I THEN "ended" ELSE "absent")]
  /\ activeRaid = NoRaid
  /\ now = 0
  /\ window = [r \in RaidIds |-> [date |-> 0, ended |-> 0]]
  /\ linked = {}
  /\ died = {}
  /\ task = [t \in Tasks |-> Idle]
  /\ clicks = 0 /\ faults = 0

NoCommand == UNCHANGED ledgerVars
Click     == clicks < MaxClicks /\ clicks' = clicks + 1 /\ UNCHANGED faults
Fault     == faults < MaxFaults /\ faults' = faults + 1 /\ UNCHANGED clicks
NoBound   == UNCHANGED <<clicks, faults>>

At(t, pc)         == task[t].pc = pc
Goes(t, pc)       == task' = [task EXCEPT ![t].pc = pc]
Takes(t, pc, todo) == task' = [task EXCEPT ![t].pc = pc, ![t].todo = todo]
Ends(t)           == task' = [task EXCEPT ![t] = Idle]

-----------------------------------------------------------------------------
(* /startraid: an event starting now names and links the raid; without     *)
(* one, or without an answer, an untyped name becomes that of the day.     *)

Startraid(t) ==
  /\ At(t, "idle") /\ Click
  /\ \E n \in {Given, DayName} :
       task' = [task EXCEPT ![t] = [Idle EXCEPT !.pc = "lookup", !.typed = n]]
  /\ NoCommand /\ UNCHANGED <<window, linked, died>>

\* RaidHelper lists an event that starts within ten minutes of now, or it does
\* not, or it does not answer, which comes to the same.
EventStarting == BOOLEAN

StartNow(t) ==
  /\ At(t, "lookup")
  /\ \/ activeRaid # NoRaid /\ NoCommand /\ UNCHANGED <<window, linked>>
     \/ \E r \in RaidIds, event \in EventStarting, d \in TickDkps, S \in Voice :
          /\ StartRaid(r, IF event THEN Given ELSE task[t].typed, d, S)
          /\ UNCHANGED auctions
          /\ window' = [window EXCEPT ![r] = [date |-> now, ended |-> now]]
          /\ linked' = IF event THEN linked \cup {r} ELSE linked
  /\ Ends(t)
  /\ NoBound /\ UNCHANGED died

-----------------------------------------------------------------------------
(* The commands of one ledger command each.                                *)

Renameraid(r) ==
  /\ Click
  /\ RenameRaid(r, Given) /\ UNCHANGED auctions
  /\ UNCHANGED <<window, linked, died, task>>

\* The night starts with the earlier of the two, and ends as it did.
Mergeraid(from, into) ==
  /\ Click
  /\ MergeRaid(from, into) /\ UNCHANGED auctions
  /\ window' = [window EXCEPT ![into].date =
       IF window[from].date < @ THEN window[from].date ELSE @]
  /\ UNCHANGED <<linked, died, task>>

\* /addraiddkp wants somebody in the raid channels.
Addraiddkp(S, amount) ==
  /\ Click
  /\ S # {}
  /\ AwardRaid(S, amount) /\ UNCHANGED auctions
  /\ UNCHANGED <<window, linked, died, task>>

\* /adddkp and /removedkp.
Adddkp(p, delta) ==
  /\ Click
  /\ AdjustDkp(p, delta, ActiveRef) /\ UNCHANGED <<raidVars, auctions>>
  /\ UNCHANGED <<window, linked, died, task>>

\* The scheduler's cycle, which looks every ten seconds.
Cycle(S) ==
  /\ Tick(S) /\ UNCHANGED auctions
  /\ UNCHANGED <<window, linked, died, task, clicks, faults>>

-----------------------------------------------------------------------------
(* /endraid: the kills, the name and the event award follow the command,   *)
(* each from a window read just before it was asked for.                   *)

Endraid(t, S) ==
  /\ At(t, "idle") /\ Click
  /\ EndRaid(S) /\ UNCHANGED auctions
  /\ window' = [window EXCEPT ![activeRaid].ended = now]
  /\ task' = [task EXCEPT ![t] = [Idle EXCEPT !.pc = "ended", !.raid = activeRaid]]
  /\ UNCHANGED <<linked, died>>

\* The raids of R with the windows they have now.
Windows(R) == {[raid |-> r, date |-> window[r].date, ended |-> window[r].ended] :
                 r \in R}

ReadEnded(t) ==
  /\ At(t, "ended")
  /\ LET R == {r \in {task[t].raid} : Exists(r)} IN
       task' = [task EXCEPT ![t].pc = "kills", ![t].todo = Windows(R),
                            ![t].typed = IF R = {} THEN Given
                                         ELSE raids[task[t].raid].name]
  /\ NoCommand /\ NoBound /\ UNCHANGED <<window, linked, died>>

\* Whether the raid wants a name was read with the kills' window.
ReadUnnamed(t) ==
  /\ At(t, "unnamed")
  /\ LET R == {r \in {task[t].raid} : Exists(r)} IN
       IF task[t].typed # Placeholder THEN Goes(t, "linked")
       ELSE Takes(t, "names", Windows(R))
  /\ NoCommand /\ NoBound /\ UNCHANGED <<window, linked, died>>

ReadLinked(t) ==
  /\ At(t, "linked")
  /\ IF Exists(task[t].raid) /\ task[t].raid \in linked
     THEN Goes(t, "fetch") ELSE Ends(t)
  /\ NoCommand /\ NoBound /\ UNCHANGED <<window, linked, died>>

-----------------------------------------------------------------------------
(* Naming and recording, for /endraid and for the half-hourly job.         *)

Within(w) == {k \in died : w.date <= k.at /\ k.at <= w.ended}

\* The death packets, the server's lockout notices, and the bosses that took a
\* real share of the damage, of an entry's window.
Deaths(w)   == {k \in Within(w) : "death" \in SeenBy[k]}
Lockouts(w) == {k \in Within(w) : "lockout" \in SeenBy[k]}
BossHits(w) == {k \in Within(w) : "damage" \in SeenBy[k]}

\* A name can be picked from the bosses that took damage, and nothing else.
Nameable(up, w) == "damage" \in up /\ BossHits(w) # {}

\* The kills that the sources which answer know of.
Reports(up, w) ==
  UNION {IF "death" \in up THEN Deaths(w) ELSE {},
         IF "lockout" \in up THEN Lockouts(w) ELSE {},
         IF "damage" \in up THEN BossHits(w) ELSE {}}

\* A source that fails counts as one that saw nothing.
Answer(up) == IF up = Sources THEN NoBound ELSE Fault

Done(t, e) == task' = [task EXCEPT ![t].todo = @ \ {e}]

\* record_kills: the list replaces the one of the raid, if it differs.
RecordKills(t, up) ==
  /\ At(t, "kills")
  /\ Answer(up)
  /\ \E e \in task[t].todo :
       /\ Done(t, e)
       /\ LET list == Reports(up, e) IN
          IF list # {} /\ Exists(e.raid) /\ list # raids[e.raid].kills
          THEN RecordRaidKills(e.raid, list) /\ UNCHANGED auctions
          ELSE NoCommand
  /\ UNCHANGED <<window, linked, died>>

\* The name is given to the raid whatever it is called by now.
NameRaid(t, up) ==
  /\ At(t, "names")
  /\ Answer(up)
  /\ \E e \in task[t].todo :
       /\ Done(t, e)
       /\ IF Nameable(up, e) /\ Exists(e.raid)
          THEN RenameRaid(e.raid, Fought) /\ UNCHANGED auctions
          ELSE NoCommand
  /\ UNCHANGED <<window, linked, died>>

\* A slip of Pending: a raid with kills recorded is done with.
PendingUnrecorded == {r \in RaidIds : Ended(r) /\ raids[r].kills = {}}

\* record_recent_kills takes every ended raid, recorded or not.  Time in the
\* model is shorter than KILL_LOOKBACK_MS.
Pending == {r \in RaidIds : Ended(r)}

JobWakes ==
  /\ At(Job, "idle")
  /\ Takes(Job, "names", Windows({r \in RaidIds : Ended(r) /\ Unnamed(r)}))
  /\ NoCommand /\ NoBound /\ UNCHANGED <<window, linked, died>>

\* The list is worked off: the job goes on to the kills and then sleeps,
\* /endraid from the kills to the name and from there to the event.
ListDone(t) ==
  /\ task[t].todo = {}
  /\ \/ t = Job /\ At(t, "names") /\ Takes(t, "kills", Windows(Pending))
     \/ t = Job /\ At(t, "kills") /\ Ends(t)
     \/ t # Job /\ At(t, "kills") /\ Goes(t, "unnamed")
     \/ t # Job /\ At(t, "names") /\ Goes(t, "linked")
  /\ NoCommand /\ NoBound /\ UNCHANGED <<window, linked, died>>

-----------------------------------------------------------------------------
(* The event award, after /endraid or by /addraideventdkp.                 *)

Ticks(p, r) == Cardinality({e \in raids[r].entries : p \in e.players})
Attended(r) == {p \in Players : Ticks(p, r) > 0}

\* Half the number of players that were there, at least 1 and at most 10.
Required(r) ==
  LET half == Cardinality(Attended(r)) \div 2 IN
  IF half < 1 THEN 1 ELSE IF half > 10 THEN 10 ELSE half

Rewarded(r) == {p \in SignUps : Ticks(p, r) >= Required(r)}

Addraideventdkp(t, r) ==
  /\ At(t, "idle") /\ Click
  /\ task' = [task EXCEPT ![t] = [Idle EXCEPT !.pc = "fetch", !.raid = r]]
  /\ NoCommand /\ UNCHANGED <<window, linked, died>>

FetchEvent(t) ==
  /\ At(t, "fetch")
  /\ \/ Fault /\ Ends(t)
     \/ /\ NoBound
        /\ IF Exists(task[t].raid) /\ EventDkp > 0
           THEN task' = [task EXCEPT ![t].pc = "pay",
                                     ![t].owed = Rewarded(task[t].raid)]
           ELSE Ends(t)
  /\ NoCommand /\ UNCHANGED <<window, linked, died>>

\* One command per player; what it returned is not looked at.
PayNext(t) ==
  /\ At(t, "pay")
  /\ \E p \in task[t].owed :
       /\ task' = [task EXCEPT ![t].owed = @ \ {p}]
       /\ \/ /\ AdjustDkp(p, EventDkp, ActiveRef)
             /\ UNCHANGED <<raidVars, auctions>> /\ NoBound
          \/ NoCommand /\ Fault
  /\ UNCHANGED <<window, linked, died>>

PayDone(t) ==
  /\ At(t, "pay") /\ task[t].owed = {}
  /\ Ends(t)
  /\ NoCommand /\ NoBound /\ UNCHANGED <<window, linked, died>>

-----------------------------------------------------------------------------
(* The world: bosses die, time passes, the bot restarts.                   *)

Dies(k) ==
  /\ k.at = now /\ k \notin died
  /\ died' = died \cup {k}
  /\ NoCommand /\ NoBound /\ UNCHANGED <<window, linked, task>>

Passes == Clock /\ UNCHANGED <<auctions, window, linked, died, task, clicks, faults>>

BotRestarts ==
  /\ Fault
  /\ task' = [t \in Tasks |-> Idle]
  /\ NoCommand /\ UNCHANGED <<window, linked, died>>

\* What moves a command that is under way, and the job.
Step(t) ==
  \/ StartNow(t) \/ ReadEnded(t) \/ ReadUnnamed(t) \/ ReadLinked(t)
  \/ \E up \in SUBSET Sources : RecordKills(t, up) \/ NameRaid(t, up)
  \/ ListDone(t) \/ FetchEvent(t) \/ PayNext(t) \/ PayDone(t)

JobStep ==
  \/ JobWakes \/ ListDone(Job)
  \/ \E up \in SUBSET Sources : RecordKills(Job, up) \/ NameRaid(Job, up)

DeskNext ==
  \/ \E t \in Officers : Startraid(t) \/ Step(t)
  \/ \E t \in Officers, S \in Voice : Endraid(t, S)
  \/ \E t \in Officers, r \in RaidIds : Addraideventdkp(t, r)
  \/ \E r \in RaidIds : Renameraid(r)
  \/ \E r, s \in RaidIds : Mergeraid(r, s)
  \/ \E S \in Voice : Cycle(S)
  \/ \E S \in Voice, a \in Awards : Addraiddkp(S, a)
  \/ \E p \in Players, d \in Corrections : Adddkp(p, d)
  \/ JobStep
  \/ \E k \in Kills : Dies(k)
  \/ Passes \/ BotRestarts

\* The job is a loop of the runtime: it always goes on, unless the bot stops.
DeskSpec ==
  DeskInit /\ [][DeskNext]_deskVars /\ WF_deskVars(JobStep)

-----------------------------------------------------------------------------
\* Once the sources answer, every ended raid lists what died in its window,
\* and none whose bosses took damage keeps a placeholder for a name, however
\* passes, merges and /endraid itself overtook each other: a list written
\* from an old window or half the sources is put right by a later pass.
NightsCatchUp ==
  \A r \in RaidIds :
    <>[](Ended(r) =>
           /\ Reports(Sources, window[r]) \in {{}, raids[r].kills}
           /\ Unnamed(r) => BossHits(window[r]) = {})

AllKills == UNION {raids[r].kills : r \in RaidIds}

\* A kill once recorded is not lost for good: it may be missing while a pass
\* knows an old window, but some raid lists it again ("a kill recorded on the
\* false start belongs to the night", apply.rs:135).
NoKillLost == \A k \in Kills : [](k \in AllKills => []<>(k \in AllKills))
=============================================================================
