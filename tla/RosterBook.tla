----------------------------- MODULE RosterBook -----------------------------
(***************************************************************************)
(* The roster and the site drawn from it.  Members edit their rows and     *)
(* upload profiles, officers rank, members' clients report through Ourios, *)
(* and every render first writes what files and clients say into the rows, *)
(* then publishes a snapshot.  Renders run in command handlers and in the  *)
(* half-hourly loop at once, and each works from reads it made earlier.    *)
(*                                                                         *)
(* What the game knows of a character (class, level, AA) is its level;     *)
(* what only people know (link, access and rank) is its main.              *)
(***************************************************************************)
EXTENDS Integers, FiniteSets

CONSTANTS
  Players,     \* Discord members
  Characters,  \* character names
  Levels,      \* what a profile or a member may say of a character
  Ranks,       \* "alt", and of "main" and "second" those officers use
  Handlers,    \* command handlers that may be under way at once
  Loop,        \* the half-hourly loop
  Starts,      \* rosters to begin with
  MaxClicks,   \* bound: commands, reports and reports that expire
  MaxFaults    \* bound: failed queries, searches, commands, and restarts

ASSUME CastAssumption   == Players # {} /\ Characters # {}
ASSUME LevelsAssumption == Levels \subseteq Nat \ {0}
ASSUME RanksAssumption  == "alt" \in Ranks /\ Ranks \subseteq {"main", "second", "alt"}
ASSUME LoopAssumption   == Loop \notin Handlers
ASSUME RosterBoundsAssumption == {MaxClicks, MaxFaults} \subseteq Nat

Row   == [level : Levels, main : Ranks]
NoRow == [level |-> 0, main |-> "none"]
Rows  == [Players -> [Characters -> Row \cup {NoRow}]]

ASSUME StartsAssumption == Starts \subseteq Rows

VARIABLES
  roster,   \* GuildState.roster
  uploads,  \* GuildState.profiles: the newest file of each character
  reports,  \* what Ourios answers: each client's last word of seven days
  site,     \* the slot the web server reads
  task,     \* the handlers and the loop
  stamp, clicks, faults

vars == <<roster, uploads, reports, site, task, stamp, clicks, faults>>

Tasks == Handlers \cup {Loop}

\* A profile: from a member's client, or from a file a member uploaded.
Source == [char : Characters, level : Levels, at : Nat, by : Players,
           client : BOOLEAN]
Snapshot == [drawn : BOOLEAN, roster : Rows, profiles : SUBSET Source]

Pcs == {"idle", "set", "add", "upload", "apply", "render", "uploads", "fetch",
        "files", "filesSet", "clients", "clientsSet", "snapshot", "publish"}

\* The row to write and whose; what an uploaded file says; the files and
\* clients still to be synced, the profiles and the roster to be shown.
Idle == [pc |-> "idle", p |-> CHOOSE p \in Players : TRUE,
         c |-> CHOOSE c \in Characters : TRUE, row |-> NoRow, replace |-> FALSE,
         level |-> 0, todo |-> {}, seen |-> {}, drawn |-> <<>>]

EmptyRoster == [p \in Players |-> [c \in Characters |-> NoRow]]
NoSite == [drawn |-> FALSE, roster |-> EmptyRoster, profiles |-> {}]

Init ==
  /\ roster \in Starts
  /\ uploads = {} /\ reports = {}
  /\ site = NoSite
  /\ task = [t \in Tasks |-> Idle]
  /\ stamp = 0 /\ clicks = 0 /\ faults = 0

Click   == clicks < MaxClicks /\ clicks' = clicks + 1 /\ UNCHANGED faults
Fault   == faults < MaxFaults /\ faults' = faults + 1 /\ UNCHANGED clicks
NoBound == UNCHANGED <<clicks, faults>>
Stamp   == stamp' = stamp + 1
Sources == <<uploads, reports, stamp>>

At(t, pc)   == task[t].pc = pc
Goes(t, pc) == task' = [task EXCEPT ![t].pc = pc]
Ends(t)     == task' = [task EXCEPT ![t] = Idle]
OnRow(p, c) == roster[p][c] # NoRow

\* The newest of each character.
Newest(S) == {s \in S : \A o \in S : o.char = s.char => o.at <= s.at}

-----------------------------------------------------------------------------
(* The ledger's commands.                                                  *)

\* A slip of MaySet: nobody looks at the rank.
MaySetAnyRank(byMember, p, c, row, replace) == OnRow(p, c) = replace

\* decide, SetRosterCharacter: the row is there as said, and a member's own
\* write leaves the rank as it is.
MaySet(byMember, p, c, row, replace) ==
  /\ OnRow(p, c) = replace
  /\ byMember => row.main = IF OnRow(p, c) THEN roster[p][c].main ELSE "alt"

\* Whether the command task t is about to give is accepted, and what it does.
Accepted(t, byMember) ==
  MaySet(byMember, task[t].p, task[t].c, task[t].row, task[t].replace)

SetRosterCharacter(t, byMember) ==
  IF Accepted(t, byMember)
  THEN roster' = [roster EXCEPT ![task[t].p][task[t].c] = task[t].row]
  ELSE UNCHANGED roster

-----------------------------------------------------------------------------
(* Commands of members and officers.  Each reads the row, and writes later. *)

\* /roster add and /roster edit: what was read fills in what was left out.
Upsert(t, p, c, level, replace) ==
  /\ At(t, "idle") /\ Click
  /\ task' = [task EXCEPT ![t] =
       [Idle EXCEPT !.pc = "set", !.p = p, !.c = c, !.replace = replace,
          !.row = [level |-> level, main |->
                     IF OnRow(p, c) THEN roster[p][c].main ELSE "alt"]]]
  /\ UNCHANGED <<roster, site, Sources>>

UpsertWrites(t) ==
  /\ At(t, "set")
  /\ SetRosterCharacter(t, TRUE)
  /\ IF Accepted(t, TRUE)
     THEN task' = [task EXCEPT ![t] = [Idle EXCEPT !.pc = "render"]]
     ELSE Ends(t)
  /\ NoBound /\ UNCHANGED <<site, Sources>>

Remove(t, p, c) ==
  /\ At(t, "idle") /\ Click
  /\ OnRow(p, c)
  /\ roster' = [roster EXCEPT ![p][c] = NoRow]
  /\ Goes(t, "render")
  /\ UNCHANGED <<site, Sources>>

\* One decision: who was the main steps down in it.
Rank(t, p, c, rank) ==
  /\ At(t, "idle") /\ Click
  /\ OnRow(p, c)
  /\ roster' = [roster EXCEPT ![p] = [d \in Characters |->
       IF d = c THEN [roster[p][c] EXCEPT !.main = rank]
       ELSE IF rank = "main" /\ roster[p][d].main = "main"
       THEN [roster[p][d] EXCEPT !.main = "alt"]
       ELSE roster[p][d]]]
  /\ Goes(t, "render")
  /\ UNCHANGED <<site, Sources>>

\* A file is uploaded, in Discord or on the site.  A Quarmy file may add the
\* character first; an inventory export may not.
Upload(t, p, c, level, quarmy) ==
  /\ At(t, "idle") /\ Click
  /\ OnRow(p, c) \/ quarmy
  /\ task' = [task EXCEPT ![t] =
       [Idle EXCEPT !.pc = IF OnRow(p, c) THEN "upload" ELSE "add",
          !.p = p, !.c = c, !.level = level,
          !.row = IF OnRow(p, c) THEN roster[p][c]
                  ELSE [level |-> level, main |-> "alt"]]]
  /\ UNCHANGED <<roster, site, Sources>>

UploadAdds(t) ==
  /\ At(t, "add")
  /\ SetRosterCharacter(t, TRUE)
  /\ IF Accepted(t, TRUE) THEN Goes(t, "upload") ELSE Ends(t)
  /\ NoBound /\ UNCHANGED <<site, Sources>>

UploadStores(t) ==
  /\ At(t, "upload")
  /\ LET k == task[t]
         file == [char |-> k.c, level |-> k.level, at |-> stamp + 1,
                  by |-> k.p, client |-> FALSE]
     IN IF OnRow(k.p, k.c)
        THEN /\ uploads' = Newest(uploads \cup {file}) /\ Stamp
             /\ IF k.row.level = k.level THEN Ends(t)
                ELSE task' = [task EXCEPT ![t].pc = "apply",
                       ![t].row.level = k.level, ![t].replace = TRUE]
        ELSE Ends(t) /\ UNCHANGED <<uploads, stamp>>
  /\ NoBound /\ UNCHANGED <<roster, site, reports>>

\* The row is written from the read at the start; a refusal is not told.
UploadApplies(t) ==
  /\ At(t, "apply")
  /\ SetRosterCharacter(t, TRUE)
  /\ Ends(t)
  /\ NoBound /\ UNCHANGED <<site, Sources>>

-----------------------------------------------------------------------------
(* Members' clients.                                                       *)

Report(p, c, level) ==
  /\ Click /\ Stamp
  /\ reports' = Newest(reports \cup {[char |-> c, level |-> level,
                  at |-> stamp + 1, by |-> p, client |-> TRUE]})
  /\ UNCHANGED <<roster, site, task, uploads>>

\* The query goes back seven days.
Expires ==
  /\ Click
  /\ \E s \in reports : reports' = reports \ {s}
  /\ UNCHANGED <<roster, site, task, uploads, stamp>>

-----------------------------------------------------------------------------
(* A render.                                                               *)

\* The half-hourly loop comes round; /renameraid and /mergeraid render too.
Render(t) ==
  /\ At(t, "idle")
  /\ IF t = Loop THEN NoBound ELSE Click
  /\ Goes(t, "render")
  /\ UNCHANGED <<roster, site, Sources>>

\* Until the first render is through, a snapshot of what the ledger knows.
EarlySnapshot(t) ==
  /\ At(t, "render")
  /\ site' = IF site.drawn THEN site
             ELSE [drawn |-> TRUE, roster |-> roster, profiles |-> {}]
  /\ Goes(t, "uploads")
  /\ NoBound /\ UNCHANGED <<roster, Sources>>

ReadUploads(t) ==
  /\ At(t, "uploads")
  /\ task' = [task EXCEPT ![t].pc = "fetch", ![t].todo = uploads]
  /\ NoBound /\ UNCHANGED <<roster, site, Sources>>

\* A slip of Merged: a client's word always goes before a file's.
MergedClientFirst(fetched, files) ==
  fetched \cup {u \in files : \A s \in fetched : s.char # u.char}

\* merge_uploads: a file counts when it is newer than the client's word.
Merged(fetched, files) == Newest(fetched \cup files)

\* A failed query leaves the client profiles the site shows now.
FetchProfiles(t) ==
  /\ At(t, "fetch")
  /\ \E fetched \in {reports, {s \in site.profiles : s.client}} :
       /\ IF fetched = reports THEN NoBound ELSE Fault
       /\ task' = [task EXCEPT ![t].pc = "files",
                               ![t].seen = Merged(fetched, task[t].todo)]
  /\ UNCHANGED <<roster, site, Sources>>

\* sync_uploads and sync_roster: one source after the other, the row is read,
\* and what roster_update makes of it is written in a later step.  A client
\* adds a character its member never had, a file does not.
SyncReads(t) ==
  /\ task[t].pc \in {"files", "clients"}
  /\ \E s \in task[t].todo :
       LET old == roster[s.by][s.char]
           quiet == old.level = s.level \/ (old = NoRow /\ ~s.client)
       IN task' = IF quiet THEN [task EXCEPT ![t].todo = @ \ {s}]
                  ELSE [task EXCEPT ![t] = [task[t] EXCEPT
                         !.pc = IF @ = "files" THEN "filesSet" ELSE "clientsSet",
                         !.todo = @ \ {s}, !.p = s.by, !.c = s.char,
                         !.replace = (old # NoRow),
                         !.row = [level |-> s.level, main |->
                                    IF old = NoRow THEN "alt" ELSE old.main]]]
  /\ NoBound /\ UNCHANGED <<roster, site, Sources>>

\* Nobody is found for the reporter: the next render tries again.
UnknownReporter(t) ==
  /\ At(t, "clients") /\ Fault
  /\ \E s \in task[t].todo : task' = [task EXCEPT ![t].todo = @ \ {s}]
  /\ UNCHANGED <<roster, site, Sources>>

\* The system is not bound to the rank.
SyncWrites(t) ==
  /\ task[t].pc \in {"filesSet", "clientsSet"}
  /\ \/ SetRosterCharacter(t, FALSE) /\ NoBound
     \/ UNCHANGED roster /\ Fault
  /\ task' = [task EXCEPT ![t] =
       [Idle EXCEPT !.pc = IF At(t, "filesSet") THEN "files" ELSE "clients",
                    !.todo = task[t].todo, !.seen = task[t].seen]]
  /\ UNCHANGED <<site, Sources>>

SyncDone(t) ==
  /\ task[t].todo = {}
  /\ \/ /\ At(t, "files")
        /\ task' = [task EXCEPT ![t].pc = "clients",
                      ![t].todo = {s \in task[t].seen : s.client}]
     \/ At(t, "clients") /\ Goes(t, "snapshot")
  /\ NoBound /\ UNCHANGED <<roster, site, Sources>>

TakeSnapshot(t) ==
  /\ At(t, "snapshot")
  /\ task' = [task EXCEPT ![t].pc = "publish", ![t].drawn = roster]
  /\ NoBound /\ UNCHANGED <<roster, site, Sources>>

\* Profiles that came back empty leave the ones shown before.
Publish(t) ==
  /\ At(t, "publish")
  /\ site' = [drawn |-> TRUE, roster |-> task[t].drawn,
              profiles |-> IF task[t].seen # {} THEN task[t].seen
                           ELSE site.profiles]
  /\ Ends(t)
  /\ NoBound /\ UNCHANGED <<roster, Sources>>

RenderStep(t) ==
  \/ EarlySnapshot(t) \/ ReadUploads(t) \/ FetchProfiles(t)
  \/ SyncReads(t) \/ UnknownReporter(t) \/ SyncWrites(t) \/ SyncDone(t)
  \/ TakeSnapshot(t) \/ Publish(t)

BotRestarts ==
  /\ Fault
  /\ site' = NoSite
  /\ task' = [t \in Tasks |-> Idle]
  /\ UNCHANGED <<roster, Sources>>

-----------------------------------------------------------------------------
Commands(t) ==
  \/ UpsertWrites(t) \/ UploadAdds(t) \/ UploadStores(t) \/ UploadApplies(t)
  \/ Render(t)
  \/ \E p \in Players, c \in Characters :
       \/ Remove(t, p, c)
       \/ \E rank \in Ranks : Rank(t, p, c, rank)
       \/ \E l \in Levels, b \in BOOLEAN : Upsert(t, p, c, l, b) \/ Upload(t, p, c, l, b)

Next ==
  \/ \E t \in Handlers : Commands(t)
  \/ \E t \in Tasks : RenderStep(t)
  \/ Render(Loop)
  \/ \E p \in Players, c \in Characters, l \in Levels : Report(p, c, l)
  \/ Expires \/ BotRestarts

\* The loop is a task of the runtime and always goes on.
Spec == Init /\ [][Next]_vars /\ WF_vars(Render(Loop) \/ RenderStep(Loop))

-----------------------------------------------------------------------------
\* A member's own write never moves a rank, whatever officers did since the
\* member's row was read: neither /roster edit nor any step of an upload
\* (decide.rs, "the rank is the officers'").
MembersKeepRanks ==
  [][\A t \in Tasks :
       task[t].pc \in {"set", "add", "apply"} /\ task[t]' # task[t] =>
         \A p \in Players, c \in Characters :
           /\ OnRow(p, c) => roster'[p][c].main = roster[p][c].main
           /\ ~OnRow(p, c) => roster'[p][c].main \in {"none", "alt"}]_vars

\* What the freshest source that is still known says of p's character.
Freshest(p, c) ==
  {s.level : s \in {s \in Newest(uploads \cup reports) : s.by = p /\ s.char = c}}

\* In the end the site shows the ledger's rows and ranks, and of every
\* character what the freshest of its files and reports says, although renders
\* publish in another order than they read and any of their steps may fail.
SiteCatchesUp ==
  \A p \in Players, c \in Characters :
    <>[](/\ site.drawn
         /\ site.roster[p][c].main = roster[p][c].main
         /\ OnRow(p, c) => site.roster[p][c].level \in
              IF Freshest(p, c) = {} THEN Levels ELSE Freshest(p, c))

\* Once nobody does anything the ledger is quiet (profiles.rs, "the ledger
\* must not fill with identical events every half hour").
LedgerGoesQuiet == <>[][FALSE]_roster

\* A member has one main ("so the Main bid button never has two answers").
OneMain ==
  \A p \in Players :
    Cardinality({c \in Characters : roster[p][c].main = "main"}) <= 1
=============================================================================
