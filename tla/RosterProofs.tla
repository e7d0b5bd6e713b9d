---------------------------- MODULE RosterProofs ----------------------------
(***************************************************************************)
(* Proofs about the roster and the site drawn from it, for any members,    *)
(* characters and ranks, any number of handlers, and any number of         *)
(* uploads, reports and failures: the types of what handlers carry from a  *)
(* read to a later write, and that a member's own write moves no rank.     *)
(***************************************************************************)
EXTENDS RosterBook, TLAPS

-----------------------------------------------------------------------------
(* What the roster, the site and the handlers hold *)

Known == [pc : Pcs, p : Players, c : Characters, row : Row \cup {NoRow},
          replace : BOOLEAN, level : Levels \cup {0},
          todo : SUBSET Source, seen : SUBSET Source, drawn : Rows \cup {<<>>}]

\* Who is about to write a row has one, who stores a file knows what it says,
\* and who publishes has taken a snapshot.
Ready(k) ==
  /\ k.pc \in {"set", "add", "upload", "apply", "filesSet", "clientsSet"} =>
       k.row \in Row
  /\ k.pc \in {"add", "upload", "apply"} => k.level \in Levels
  /\ k.pc = "publish" => k.drawn \in Rows

TasksOK == /\ task \in [Tasks -> Known]
           /\ \A t \in Tasks : Ready(task[t])

RosterTypeOK ==
  /\ roster \in Rows
  /\ uploads \subseteq Source /\ reports \subseteq Source
  /\ site \in Snapshot
  /\ stamp \in Nat
  /\ TasksOK

\* No row is not a row.
LEMMA NoRowIsNone == NoRow \notin Row
BY LevelsAssumption DEF NoRow, Row

\* A character on the roster has a row.
LEMMA OnRowHasRow ==
  ASSUME roster \in Rows, NEW p \in Players, NEW c \in Characters
  PROVE  /\ roster[p][c] \in Row \cup {NoRow}
         /\ OnRow(p, c) => /\ roster[p][c] \in Row
                           /\ roster[p][c].main \in Ranks
                           /\ roster[p][c].level \in Levels
<1>1. roster[p][c] \in Row \cup {NoRow}
  BY DEF Rows
<1>2. \A row \in Row : row.main \in Ranks /\ row.level \in Levels
  BY DEF Row
<1> QED
  BY <1>1, <1>2 DEF OnRow

\* A row made of a level and a rank.
LEMMA NewRow ==
  ASSUME NEW l \in Levels, NEW rank \in Ranks
  PROVE  [level |-> l, main |-> rank] \in Row
BY DEF Row

\* A task that does nothing.
LEMMA IdleType == Idle \in Known /\ Ready(Idle)
BY CastAssumption DEF Idle, Known, Pcs, Ready

\* One task changes.
LEMMA OneTaskType ==
  ASSUME TasksOK, NEW t \in Tasks, NEW k \in Known, Ready(k),
         task' = [task EXCEPT ![t] = k]
  PROVE  TasksOK'
BY DEF TasksOK

\* No task changes.
LEMMA NoTaskType == TasksOK /\ UNCHANGED task => TasksOK'
BY DEF TasksOK

\* A task is through.
LEMMA EndsType ==
  ASSUME TasksOK, NEW t \in Tasks, Ends(t)
  PROVE  TasksOK'
BY IdleType, OneTaskType DEF Ends

\* A task goes on to a step that needs nothing of it.
LEMMA GoesType ==
  ASSUME TasksOK, NEW t \in Tasks,
         NEW pc \in {"render", "uploads", "fetch", "files", "clients", "snapshot"},
         Goes(t, pc)
  PROVE  TasksOK'
<1> DEFINE k == [task[t] EXCEPT !.pc = pc]
<1>1. task[t] \in Known
  BY DEF TasksOK
<1>2. k \in Known /\ Ready(k)
  BY <1>1 DEF Known, Pcs, Ready
<1>3. task' = [task EXCEPT ![t] = k]
  BY DEF Goes
<1> QED
  BY <1>2, <1>3, OneTaskType

\* Only sources are kept as the newest.
LEMMA NewestType ==
  ASSUME NEW S \in SUBSET Source
  PROVE  Newest(S) \in SUBSET Source
BY DEF Newest

\* A command that writes the row a task carries leaves a roster.
LEMMA SetType ==
  ASSUME roster \in Rows, TasksOK, NEW t \in Tasks, task[t].row \in Row,
         NEW byMember, SetRosterCharacter(t, byMember)
  PROVE  roster' \in Rows
<1>1. task[t].p \in Players /\ task[t].c \in Characters
  BY DEF TasksOK, Known
<1>2. CASE Accepted(t, byMember)
  <2>1. roster' = [roster EXCEPT ![task[t].p][task[t].c] = task[t].row]
    BY <1>2 DEF SetRosterCharacter
  <2>2. [roster[task[t].p] EXCEPT ![task[t].c] = task[t].row]
          \in [Characters -> Row \cup {NoRow}]
    BY <1>1 DEF Rows
  <2> QED
    BY <1>1, <2>1, <2>2 DEF Rows
<1>3. CASE ~ Accepted(t, byMember)
  BY <1>3 DEF SetRosterCharacter
<1> QED
  BY <1>2, <1>3

\* A row is removed, or written by an officer.
LEMMA OneRowType ==
  ASSUME roster \in Rows, NEW p \in Players, NEW f \in [Characters -> Row \cup {NoRow}],
         roster' = [roster EXCEPT ![p] = f]
  PROVE  roster' \in Rows
BY DEF Rows

-----------------------------------------------------------------------------
(* The commands *)

\* Rows read, written, removed and ranked.
LEMMA RowCommandsType ==
  ASSUME RosterTypeOK, NEW t \in Tasks, NEW p \in Players, NEW c \in Characters,
         \/ \E l \in Levels, b \in BOOLEAN : Upsert(t, p, c, l, b)
         \/ UpsertWrites(t)
         \/ Remove(t, p, c)
         \/ \E rank \in Ranks : Rank(t, p, c, rank)
  PROVE  RosterTypeOK'
<1>0. /\ TasksOK /\ task[t] \in Known /\ Ready(task[t])
      /\ roster \in Rows /\ "alt" \in Ranks
  BY RanksAssumption DEF RosterTypeOK, TasksOK
<1>1. ASSUME NEW l \in Levels, NEW b \in BOOLEAN, Upsert(t, p, c, l, b)
      PROVE  RosterTypeOK'
  <2> DEFINE rank == IF OnRow(p, c) THEN roster[p][c].main ELSE "alt"
             row == [level |-> l, main |-> rank]
             k == [Idle EXCEPT !.pc = "set", !.p = p, !.c = c, !.replace = b,
                               !.row = row]
  <2>1. rank \in Ranks
    BY <1>0, OnRowHasRow
  <2>2. row \in Row
    BY <2>1, NewRow
  <2>3. task' = [task EXCEPT ![t] = k]
    BY <1>1 DEF Upsert
  <2> HIDE DEF rank, row
  <2>4. k \in Known /\ Ready(k)
    BY <2>2, IdleType DEF Known, Pcs, Ready
  <2>5. TasksOK'
    BY <1>0, <2>3, <2>4, OneTaskType
  <2> QED
    BY <1>1, <2>5 DEF Upsert, Sources, RosterTypeOK
<1>2. CASE UpsertWrites(t)
  <2>1. task[t].row \in Row /\ SetRosterCharacter(t, TRUE)
    BY <1>0, <1>2 DEF UpsertWrites, At, Ready
  <2>2. roster' \in Rows
    BY <1>0, <2>1, SetType
  <2> DEFINE k == [Idle EXCEPT !.pc = "render"]
  <2>3. task' = [task EXCEPT ![t] = k] \/ Ends(t)
    BY <1>2 DEF UpsertWrites
  <2>4. k \in Known /\ Ready(k)
    BY IdleType DEF Known, Pcs, Ready
  <2>5. TasksOK'
    BY <1>0, <2>3, <2>4, OneTaskType, EndsType
  <2> QED
    BY <1>2, <2>2, <2>5 DEF UpsertWrites, Sources, RosterTypeOK
<1>3. CASE Remove(t, p, c)
  <2>1. TasksOK'
    BY <1>0, <1>3, GoesType DEF Remove
  <2> DEFINE f == [roster[p] EXCEPT ![c] = NoRow]
  <2>2. roster' = [roster EXCEPT ![p] = f]
    BY <1>3 DEF Remove
  <2>3. f \in [Characters -> Row \cup {NoRow}]
    BY <1>0 DEF Rows
  <2>4. roster' \in Rows
    BY <1>0, <2>2, <2>3, OneRowType
  <2> QED
    BY <1>3, <2>1, <2>4 DEF Remove, Sources, RosterTypeOK
<1>4. ASSUME NEW rank \in Ranks, Rank(t, p, c, rank)
      PROVE  RosterTypeOK'
  <2>1. TasksOK'
    BY <1>0, <1>4, GoesType DEF Rank
  <2> DEFINE ranked(d) ==
               IF d = c THEN [roster[p][c] EXCEPT !.main = rank]
               ELSE IF rank = "main" /\ roster[p][d].main = "main"
               THEN [roster[p][d] EXCEPT !.main = "alt"]
               ELSE roster[p][d]
             f == [d \in Characters |-> ranked(d)]
  <2>2. roster' = [roster EXCEPT ![p] = f]
    BY <1>4 DEF Rank
  <2>3. ASSUME NEW d \in Characters
        PROVE  ranked(d) \in Row \cup {NoRow}
    <3>1. roster[p][d] \in Row \cup {NoRow}
      BY <1>0, OnRowHasRow
    <3>2. CASE d = c
      <4>1. roster[p][c] \in Row
        BY <1>0, <1>4, OnRowHasRow DEF Rank
      <4>2. [roster[p][c] EXCEPT !.main = rank] \in Row
        BY <4>1 DEF Row
      <4> QED
        BY <3>2, <4>2
    <3>3. CASE d # c /\ rank = "main" /\ roster[p][d].main = "main"
      <4>1. roster[p][d] \in Row
        BY <3>1, <3>3 DEF NoRow
      <4>2. [roster[p][d] EXCEPT !.main = "alt"] \in Row
        BY <1>0, <4>1 DEF Row
      <4> QED
        BY <3>3, <4>2
    <3>4. CASE d # c /\ ~(rank = "main" /\ roster[p][d].main = "main")
      BY <3>1, <3>4
    <3> QED
      BY <3>2, <3>3, <3>4
  <2> HIDE DEF ranked
  <2>4. f \in [Characters -> Row \cup {NoRow}]
    BY <2>3
  <2> HIDE DEF f
  <2>5. roster' \in Rows
    BY <1>0, <2>2, <2>4, OneRowType
  <2> QED
    BY <1>4, <2>1, <2>5 DEF Rank, Sources, RosterTypeOK
<1> QED
  BY <1>1, <1>2, <1>3, <1>4

\* A file is uploaded, stored and applied.
LEMMA UploadsType ==
  ASSUME RosterTypeOK, NEW t \in Tasks, NEW p \in Players, NEW c \in Characters,
         \/ \E l \in Levels, b \in BOOLEAN : Upload(t, p, c, l, b)
         \/ UploadAdds(t) \/ UploadStores(t) \/ UploadApplies(t)
  PROVE  RosterTypeOK'
<1>0. /\ TasksOK /\ task[t] \in Known /\ Ready(task[t])
      /\ roster \in Rows /\ "alt" \in Ranks
  BY RanksAssumption DEF RosterTypeOK, TasksOK
<1>1. ASSUME NEW l \in Levels, NEW b \in BOOLEAN, Upload(t, p, c, l, b)
      PROVE  RosterTypeOK'
  <2> DEFINE pc == IF OnRow(p, c) THEN "upload" ELSE "add"
             row == IF OnRow(p, c) THEN roster[p][c]
                    ELSE [level |-> l, main |-> "alt"]
             k == [Idle EXCEPT !.pc = pc, !.p = p, !.c = c, !.level = l, !.row = row]
  <2>1. row \in Row
    BY <1>0, OnRowHasRow, NewRow
  <2>2. pc \in {"upload", "add"}
    OBVIOUS
  <2>3. task' = [task EXCEPT ![t] = k]
    BY <1>1 DEF Upload
  <2> HIDE DEF row, pc
  <2>4. k \in Known /\ Ready(k)
    BY <2>1, <2>2, IdleType DEF Known, Pcs, Ready
  <2>5. TasksOK'
    BY <1>0, <2>3, <2>4, OneTaskType
  <2> QED
    BY <1>1, <2>5 DEF Upload, Sources, RosterTypeOK
<1>2. CASE UploadAdds(t)
  <2>1. task[t].row \in Row /\ SetRosterCharacter(t, TRUE)
    BY <1>0, <1>2 DEF UploadAdds, At, Ready
  <2>2. roster' \in Rows
    BY <1>0, <2>1, SetType
  <2> DEFINE k == [task[t] EXCEPT !.pc = "upload"]
  <2>3. task' = [task EXCEPT ![t] = k] \/ Ends(t)
    BY <1>2 DEF UploadAdds, Goes
  <2>4. k \in Known /\ Ready(k)
    BY <1>0, <1>2 DEF Known, Pcs, Ready, UploadAdds, At
  <2>5. TasksOK'
    BY <1>0, <2>3, <2>4, OneTaskType, EndsType
  <2> QED
    BY <1>2, <2>2, <2>5 DEF UploadAdds, Sources, RosterTypeOK
<1>3. CASE UploadStores(t)
  <2> DEFINE x == task[t]
             file == [char |-> x.c, level |-> x.level, at |-> stamp + 1,
                      by |-> x.p, client |-> FALSE]
             k == [x EXCEPT !.pc = "apply", !.row.level = x.level, !.replace = TRUE]
  <2>1. x.row \in Row /\ x.level \in Levels /\ x.c \in Characters /\ x.p \in Players
    BY <1>0, <1>3 DEF UploadStores, At, Ready, Known
  <2>2. file \in Source
    BY <2>1 DEF Source, RosterTypeOK
  <2>3. \/ Ends(t) /\ UNCHANGED <<uploads, stamp>>
        \/ /\ uploads' = Newest(uploads \cup {file}) /\ stamp' = stamp + 1
           /\ Ends(t) \/ task' = [task EXCEPT ![t] = k]
    BY <1>3 DEF UploadStores, Stamp
  <2>4. uploads' \subseteq Source /\ stamp' \in Nat
    <3>1. uploads \subseteq Source /\ stamp \in Nat
      BY DEF RosterTypeOK
    <3>2. CASE UNCHANGED <<uploads, stamp>>
      BY <3>1, <3>2
    <3>3. CASE uploads' = Newest(uploads \cup {file}) /\ stamp' = stamp + 1
      <4> HIDE DEF file
      <4>1. uploads \cup {file} \in SUBSET Source
        BY <2>2, <3>1
      <4> QED
        BY <3>1, <3>3, <4>1, NewestType
    <3> QED
      BY <2>3, <3>2, <3>3
  <2>5. k \in Known /\ Ready(k)
    <3>1. [x.row EXCEPT !.level = x.level] \in Row
      BY <2>1 DEF Row
    <3>2. k = [x EXCEPT !.pc = "apply", !.row = [x.row EXCEPT !.level = x.level],
                        !.replace = TRUE]
      OBVIOUS
    <3> QED
      BY <1>0, <2>1, <3>1, <3>2 DEF Known, Pcs, Ready
  <2>6. TasksOK'
    BY <1>0, <2>3, <2>5, OneTaskType, EndsType
  <2> QED
    BY <1>3, <2>4, <2>6 DEF UploadStores, RosterTypeOK
<1>4. CASE UploadApplies(t)
  <2>1. task[t].row \in Row /\ SetRosterCharacter(t, TRUE)
    BY <1>0, <1>4 DEF UploadApplies, At, Ready
  <2>2. roster' \in Rows /\ TasksOK'
    BY <1>0, <1>4, <2>1, SetType, EndsType DEF UploadApplies
  <2> QED
    BY <1>4, <2>2 DEF UploadApplies, Sources, RosterTypeOK
<1> QED
  BY <1>1, <1>2, <1>3, <1>4

\* Clients report, and reports expire.
LEMMA ReportsType ==
  ASSUME RosterTypeOK,
         \/ Expires
         \/ \E p \in Players, c \in Characters, l \in Levels : Report(p, c, l)
  PROVE  RosterTypeOK'
<1>0. TasksOK /\ reports \subseteq Source /\ stamp \in Nat
  BY DEF RosterTypeOK
<1>1. CASE Expires
  BY <1>0, <1>1, NoTaskType DEF Expires, RosterTypeOK
<1>2. ASSUME NEW p \in Players, NEW c \in Characters, NEW l \in Levels, Report(p, c, l)
      PROVE  RosterTypeOK'
  <2> DEFINE s == [char |-> c, level |-> l, at |-> stamp + 1, by |-> p, client |-> TRUE]
  <2>1. s \in Source
    BY <1>0 DEF Source
  <2>2. reports' = Newest(reports \cup {s}) /\ stamp' = stamp + 1
    BY <1>2 DEF Report, Stamp
  <2> HIDE DEF s
  <2>3. reports' \subseteq Source /\ stamp' \in Nat
    BY <1>0, <2>1, <2>2, NewestType
  <2> QED
    BY <1>0, <1>2, <2>3, NoTaskType DEF Report, RosterTypeOK
<1> QED
  BY <1>1, <1>2

-----------------------------------------------------------------------------
(* A render *)

\* Files, clients' words and the site are read.
LEMMA RenderReadsType ==
  ASSUME RosterTypeOK, NEW t \in Tasks,
         \/ Render(t) \/ EarlySnapshot(t) \/ ReadUploads(t) \/ FetchProfiles(t)
  PROVE  RosterTypeOK'
<1>0. /\ TasksOK /\ task[t] \in Known /\ site \in Snapshot /\ roster \in Rows
      /\ uploads \in SUBSET Source /\ reports \in SUBSET Source
  BY DEF RosterTypeOK, TasksOK
<1>1. CASE Render(t)
  <2>1. TasksOK'
    BY <1>0, <1>1, GoesType DEF Render
  <2> QED
    BY <1>1, <2>1 DEF Render, Sources, RosterTypeOK
<1>2. CASE EarlySnapshot(t)
  <2>1. TasksOK'
    BY <1>0, <1>2, GoesType DEF EarlySnapshot
  <2>2. site' \in Snapshot
    BY <1>0, <1>2 DEF EarlySnapshot, Snapshot
  <2> QED
    BY <1>2, <2>1, <2>2 DEF EarlySnapshot, Sources, RosterTypeOK
<1>3. CASE ReadUploads(t)
  <2> DEFINE k == [task[t] EXCEPT !.pc = "fetch", !.todo = uploads]
  <2>1. task' = [task EXCEPT ![t] = k]
    BY <1>3 DEF ReadUploads
  <2>2. k \in Known /\ Ready(k)
    BY <1>0 DEF Known, Pcs, Ready
  <2>3. TasksOK'
    BY <1>0, <2>1, <2>2, OneTaskType
  <2> QED
    BY <1>3, <2>3 DEF ReadUploads, Sources, RosterTypeOK
<1>4. CASE FetchProfiles(t)
  <2>1. PICK fetched \in {reports, {s \in site.profiles : s.client}} :
          task' = [task EXCEPT ![t].pc = "files",
                               ![t].seen = Merged(fetched, task[t].todo)]
    BY <1>4 DEF FetchProfiles
  <2> DEFINE seen == Merged(fetched, task[t].todo)
             k == [task[t] EXCEPT !.pc = "files", !.seen = seen]
  <2>2. fetched \cup task[t].todo \in SUBSET Source
    BY <1>0 DEF Snapshot, Known
  <2>3. seen \in SUBSET Source
    BY <2>2, NewestType DEF Merged
  <2>4. task' = [task EXCEPT ![t] = k]
    BY <2>1
  <2> HIDE DEF seen
  <2>5. k \in Known /\ Ready(k)
    BY <1>0, <2>3 DEF Known, Pcs, Ready
  <2>6. TasksOK'
    BY <1>0, <2>4, <2>5, OneTaskType
  <2> QED
    BY <1>4, <2>6 DEF FetchProfiles, Sources, RosterTypeOK
<1> QED
  BY <1>1, <1>2, <1>3, <1>4

\* One source after the other is written into the rows.
LEMMA SyncType ==
  ASSUME RosterTypeOK, NEW t \in Tasks,
         SyncReads(t) \/ UnknownReporter(t) \/ SyncWrites(t) \/ SyncDone(t)
  PROVE  RosterTypeOK'
<1>0. /\ TasksOK /\ task[t] \in Known /\ Ready(task[t])
      /\ roster \in Rows /\ "alt" \in Ranks
      /\ task[t].todo \in SUBSET Source /\ task[t].seen \in SUBSET Source
  BY RanksAssumption DEF RosterTypeOK, TasksOK, Known
<1>1. CASE SyncReads(t)
  <2> DEFINE rowOf(s) == [level |-> s.level, main |->
                            IF roster[s.by][s.char] = NoRow THEN "alt"
                            ELSE roster[s.by][s.char].main]
             pc == IF task[t].pc = "files" THEN "filesSet" ELSE "clientsSet"
             skip(s) == [task[t] EXCEPT !.todo = task[t].todo \ {s}]
             set(s) == [task[t] EXCEPT !.pc = pc, !.todo = task[t].todo \ {s},
                          !.p = s.by, !.c = s.char,
                          !.replace = (roster[s.by][s.char] # NoRow),
                          !.row = rowOf(s)]
  <2>1. PICK s \in task[t].todo : \/ task' = [task EXCEPT ![t] = skip(s)]
                                  \/ task' = [task EXCEPT ![t] = set(s)]
    BY <1>1 DEF SyncReads
  <2>2. s.by \in Players /\ s.char \in Characters /\ s.level \in Levels
    BY <1>0 DEF Source
  <2>3. rowOf(s) \in Row
    <3>1. roster[s.by][s.char] # NoRow => roster[s.by][s.char].main \in Ranks
      BY <1>0, <2>2, OnRowHasRow DEF OnRow
    <3> QED
      BY <1>0, <2>2, <3>1, NewRow
  <2>4. pc \in {"filesSet", "clientsSet"}
    OBVIOUS
  <2>5. skip(s) \in Known /\ Ready(skip(s))
    BY <1>0, <1>1 DEF Known, Ready, SyncReads
  <2>6. set(s) \in Known /\ Ready(set(s))
    <3>1. (roster[s.by][s.char] # NoRow) \in BOOLEAN
      OBVIOUS
    <3> DEFINE there == roster[s.by][s.char] # NoRow
               row == rowOf(s)
    <3>2. set(s) = [task[t] EXCEPT !.pc = pc, !.todo = task[t].todo \ {s},
                      !.p = s.by, !.c = s.char, !.replace = there, !.row = row]
      OBVIOUS
    <3>3. there \in BOOLEAN /\ row \in Row
      BY <2>3, <3>1
    <3> HIDE DEF there, row, pc
    <3>4. [task[t] EXCEPT !.pc = pc, !.todo = task[t].todo \ {s},
             !.p = s.by, !.c = s.char, !.replace = there, !.row = row] \in Known
      BY <1>0, <2>2, <2>4, <3>3 DEF Known, Pcs
    <3>5. Ready([task[t] EXCEPT !.pc = pc, !.todo = task[t].todo \ {s},
             !.p = s.by, !.c = s.char, !.replace = there, !.row = row])
      BY <1>0, <2>4, <3>3 DEF Known, Ready
    <3> HIDE DEF set
    <3> QED
      BY <3>2, <3>4, <3>5
  <2> HIDE DEF skip, set
  <2>7. TasksOK'
    BY <1>0, <2>1, <2>5, <2>6, OneTaskType
  <2> QED
    BY <1>1, <2>7 DEF SyncReads, Sources, RosterTypeOK
<1>2. CASE UnknownReporter(t)
  <2>1. PICK s \in task[t].todo : task' = [task EXCEPT ![t].todo = task[t].todo \ {s}]
    BY <1>2 DEF UnknownReporter
  <2> DEFINE k == [task[t] EXCEPT !.todo = task[t].todo \ {s}]
  <2>2. k \in Known /\ Ready(k)
    BY <1>0 DEF Known, Ready
  <2>3. TasksOK'
    BY <1>0, <2>1, <2>2, OneTaskType
  <2> QED
    BY <1>2, <2>3 DEF UnknownReporter, Sources, RosterTypeOK
<1>3. CASE SyncWrites(t)
  <2>1. task[t].row \in Row
    BY <1>0, <1>3 DEF SyncWrites, Ready
  <2>2. roster' \in Rows
    BY <1>0, <1>3, <2>1, SetType DEF SyncWrites
  <2> DEFINE pc == IF At(t, "filesSet") THEN "files" ELSE "clients"
             k == [Idle EXCEPT !.pc = pc, !.todo = task[t].todo, !.seen = task[t].seen]
  <2>3. task' = [task EXCEPT ![t] = k]
    BY <1>3 DEF SyncWrites
  <2>4. pc \in {"files", "clients"}
    OBVIOUS
  <2> HIDE DEF pc
  <2>5. k \in Known /\ Ready(k)
    BY <1>0, <2>4, IdleType DEF Known, Pcs, Ready
  <2>6. TasksOK'
    BY <1>0, <2>3, <2>5, OneTaskType
  <2> QED
    BY <1>3, <2>2, <2>6 DEF SyncWrites, Sources, RosterTypeOK
<1>4. CASE SyncDone(t)
  <2> DEFINE todo == {s \in task[t].seen : s.client}
             k == [task[t] EXCEPT !.pc = "clients", !.todo = todo]
  <2>1. task' = [task EXCEPT ![t] = k] \/ Goes(t, "snapshot")
    BY <1>4 DEF SyncDone
  <2>2. k \in Known /\ Ready(k)
    <3>1. todo \in SUBSET Source
      BY <1>0
    <3> HIDE DEF todo
    <3> QED
      BY <1>0, <3>1 DEF Known, Pcs, Ready
  <2> HIDE DEF k
  <2>3. TasksOK'
    BY <1>0, <2>1, <2>2, OneTaskType, GoesType
  <2> QED
    BY <1>4, <2>3 DEF SyncDone, Sources, RosterTypeOK
<1> QED
  BY <1>1, <1>2, <1>3, <1>4

\* What was read is published.
LEMMA PublishType ==
  ASSUME RosterTypeOK, NEW t \in Tasks, TakeSnapshot(t) \/ Publish(t)
  PROVE  RosterTypeOK'
<1>0. /\ TasksOK /\ task[t] \in Known /\ Ready(task[t]) /\ site \in Snapshot
      /\ roster \in Rows
  BY DEF RosterTypeOK, TasksOK
<1>1. CASE TakeSnapshot(t)
  <2> DEFINE k == [task[t] EXCEPT !.pc = "publish", !.drawn = roster]
  <2>1. task' = [task EXCEPT ![t] = k]
    BY <1>1 DEF TakeSnapshot
  <2>2. k \in Known /\ Ready(k)
    BY <1>0 DEF Known, Pcs, Ready
  <2>3. TasksOK'
    BY <1>0, <2>1, <2>2, OneTaskType
  <2> QED
    BY <1>1, <2>3 DEF TakeSnapshot, Sources, RosterTypeOK
<1>2. CASE Publish(t)
  <2>1. task[t].drawn \in Rows /\ task[t].seen \in SUBSET Source
    BY <1>0, <1>2 DEF Publish, At, Ready, Known
  <2>2. site' \in Snapshot
    BY <1>0, <1>2, <2>1 DEF Publish, Snapshot
  <2>3. TasksOK'
    BY <1>0, <1>2, EndsType DEF Publish
  <2> QED
    BY <1>2, <2>2, <2>3 DEF Publish, Sources, RosterTypeOK
<1> QED
  BY <1>1, <1>2

\* A site that is not up yet.
LEMMA NoSiteType == NoSite \in Snapshot
BY DEF NoSite, Snapshot, EmptyRoster, Rows

\* Every step keeps the types.
LEMMA RosterStepType == RosterTypeOK /\ [Next]_vars => RosterTypeOK'
<1> SUFFICES ASSUME RosterTypeOK, [Next]_vars PROVE RosterTypeOK'
  OBVIOUS
<1> USE DEF Tasks
<1>1. ASSUME NEW t \in Handlers, Commands(t)
      PROVE  RosterTypeOK'
  <2>1. CASE Render(t)
    BY <2>1, RenderReadsType
  <2>2. CASE UpsertWrites(t) \/ UploadAdds(t) \/ UploadStores(t) \/ UploadApplies(t)
    BY <2>2, CastAssumption, RowCommandsType, UploadsType
  <2>3. ASSUME NEW p \in Players, NEW c \in Characters,
               \/ Remove(t, p, c)
               \/ \E rank \in Ranks : Rank(t, p, c, rank)
               \/ \E l \in Levels, b \in BOOLEAN : Upsert(t, p, c, l, b) \/ Upload(t, p, c, l, b)
        PROVE  RosterTypeOK'
    BY <2>3, RowCommandsType, UploadsType
  <2> QED
    BY <1>1, <2>1, <2>2, <2>3 DEF Commands
<1>2. ASSUME NEW t \in Tasks, RenderStep(t)
      PROVE  RosterTypeOK'
  BY <1>2, RenderReadsType, SyncType, PublishType DEF RenderStep
<1>3. CASE BotRestarts
  <2>1. TasksOK'
    BY <1>3, IdleType DEF BotRestarts, TasksOK
  <2> QED
    BY <1>3, <2>1, NoSiteType DEF BotRestarts, Sources, RosterTypeOK
<1>4. CASE UNCHANGED vars
  BY <1>4, NoTaskType DEF vars, RosterTypeOK
<1> QED
  BY <1>1, <1>2, <1>3, <1>4, RenderReadsType, ReportsType DEF Next

\* Rows, profiles and snapshots keep their types from any roster to begin with,
\* and whoever writes a row or publishes has one to write or to publish.
THEOREM RosterTypesCorrect == Spec => []RosterTypeOK
<1>1. Init => RosterTypeOK
  BY StartsAssumption, IdleType, NoSiteType DEF Init, RosterTypeOK, TasksOK
<1> QED
  BY <1>1, RosterStepType, PTL DEF Spec

-----------------------------------------------------------------------------
(* Ranks are the officers' *)

RanksStay ==
  \A p \in Players, c \in Characters :
    /\ OnRow(p, c) => roster'[p][c].main = roster[p][c].main
    /\ ~OnRow(p, c) => roster'[p][c].main \in {"none", "alt"}

\* A roster that stays keeps its ranks; who is not on it has none.
LEMMA SameRanks == roster \in Rows /\ UNCHANGED roster => RanksStay
BY DEF RanksStay, OnRow, NoRow

\* A member's own command writes the rank that is there now, or the alt's.
LEMMA MemberWrites ==
  ASSUME roster \in Rows, TasksOK, NEW t \in Tasks, task[t].row \in Row,
         SetRosterCharacter(t, TRUE)
  PROVE  RanksStay
<1> DEFINE q == task[t].p
           d == task[t].c
           row == task[t].row
<1>1. q \in Players /\ d \in Characters
  BY DEF TasksOK, Known
<1>2. CASE Accepted(t, TRUE)
  <2>1. roster' = [roster EXCEPT ![q][d] = row]
    BY <1>2 DEF SetRosterCharacter
  <2>2. row.main = IF OnRow(q, d) THEN roster[q][d].main ELSE "alt"
    BY <1>2 DEF Accepted, MaySet
  <2> HIDE DEF q, d, row
  <2>3. ASSUME NEW p \in Players, NEW c \in Characters
        PROVE  roster'[p][c] = IF p = q /\ c = d THEN row ELSE roster[p][c]
    BY <1>1, <2>1 DEF Rows
  <2> SUFFICES ASSUME NEW p \in Players, NEW c \in Characters
               PROVE  /\ OnRow(p, c) => roster'[p][c].main = roster[p][c].main
                      /\ ~OnRow(p, c) => roster'[p][c].main \in {"none", "alt"}
    BY DEF RanksStay
  <2>4. CASE p = q /\ c = d
    BY <2>2, <2>3, <2>4
  <2>5. CASE ~(p = q /\ c = d)
    BY <2>3, <2>5 DEF OnRow, NoRow
  <2> QED
    BY <2>4, <2>5
<1>3. CASE ~ Accepted(t, TRUE)
  BY <1>3, SameRanks DEF SetRosterCharacter
<1> QED
  BY <1>2, <1>3

\* A step of another task leaves this one as it was.
LEMMA OthersStay ==
  ASSUME TasksOK, NEW t \in Tasks, NEW u \in Tasks \ {t},
         Commands(u) \/ RenderStep(u)
  PROVE  task'[t] = task[t]
<1>0. task \in [Tasks -> Known]
  BY DEF TasksOK
<1> USE <1>0 DEF Goes, Ends
<1>1. CASE Render(u) \/ UpsertWrites(u) \/ UploadAdds(u) \/ UploadApplies(u)
  BY <1>1 DEF Render, UpsertWrites, UploadAdds, UploadApplies
<1>2. CASE UploadStores(u)
  BY <1>2 DEF UploadStores
<1>3. ASSUME NEW p \in Players, NEW c \in Characters,
             \/ Remove(u, p, c)
             \/ \E rank \in Ranks : Rank(u, p, c, rank)
             \/ \E l \in Levels, b \in BOOLEAN : Upsert(u, p, c, l, b) \/ Upload(u, p, c, l, b)
      PROVE  task'[t] = task[t]
  BY <1>3 DEF Remove, Rank, Upsert, Upload
<1>4. CASE EarlySnapshot(u) \/ ReadUploads(u) \/ TakeSnapshot(u) \/ Publish(u) \/ SyncDone(u)
  BY <1>4 DEF EarlySnapshot, ReadUploads, TakeSnapshot, Publish, SyncDone
<1>5. CASE FetchProfiles(u) \/ UnknownReporter(u) \/ SyncWrites(u)
  BY <1>5 DEF FetchProfiles, UnknownReporter, SyncWrites
<1>6. CASE SyncReads(u)
  BY <1>6 DEF SyncReads
<1> QED
  BY <1>1, <1>2, <1>3, <1>4, <1>5, <1>6 DEF Commands, RenderStep

\* A step of a task that is about to write as a member is that write.
LEMMA MembersOwn ==
  ASSUME RosterTypeOK, NEW t \in Tasks, task[t].pc \in {"set", "add", "apply"},
         Commands(t) \/ RenderStep(t)
  PROVE  RanksStay
<1>0. roster \in Rows /\ TasksOK /\ task[t].row \in Row
  BY DEF RosterTypeOK, TasksOK, Ready
<1>1. UpsertWrites(t) \/ UploadAdds(t) \/ UploadApplies(t)
  <2>1. ~ RenderStep(t)
    BY DEF RenderStep, EarlySnapshot, ReadUploads, FetchProfiles, SyncReads,
           UnknownReporter, SyncWrites, SyncDone, TakeSnapshot, Publish, At
  <2>2. ~ UploadStores(t) /\ ~ Render(t)
    BY DEF UploadStores, Render, At
  <2>3. \A p \in Players, c \in Characters :
          /\ ~ Remove(t, p, c)
          /\ \A rank \in Ranks : ~ Rank(t, p, c, rank)
          /\ \A l \in Levels, b \in BOOLEAN :
               ~ Upsert(t, p, c, l, b) /\ ~ Upload(t, p, c, l, b)
    BY DEF Remove, Rank, Upsert, Upload, At
  <2> QED
    BY <2>1, <2>2, <2>3 DEF Commands
<1>2. SetRosterCharacter(t, TRUE)
  BY <1>1 DEF UpsertWrites, UploadAdds, UploadApplies
<1> QED
  BY <1>0, <1>2, MemberWrites

\* Whatever officers rank between a member's read and the member's write, the
\* write leaves the rank as it is: edits, added characters and uploaded files.
THEOREM MembersNeverRank == Spec => MembersKeepRanks
<1> DEFINE Act == \A t \in Tasks :
             task[t].pc \in {"set", "add", "apply"} /\ task[t]' # task[t] => RanksStay
<1>1. RosterTypeOK /\ [Next]_vars => [Act]_vars
  <2> SUFFICES ASSUME RosterTypeOK, Next,
                      NEW t \in Tasks, task[t].pc \in {"set", "add", "apply"},
                      task'[t] # task[t]
               PROVE  RanksStay
    OBVIOUS
  <2>1. roster \in Rows /\ TasksOK
    BY DEF RosterTypeOK
  <2>2. ASSUME NEW u \in Tasks, Commands(u) \/ RenderStep(u)
        PROVE  RanksStay
    BY <2>1, <2>2, OthersStay, MembersOwn
  <2>3. CASE Render(Loop)
    <3>1. Loop \in Tasks /\ task \in [Tasks -> Known]
      BY <2>1 DEF Tasks, TasksOK
    <3>2. t # Loop
      BY <2>3 DEF Render, At
    <3> QED
      BY <2>3, <3>1, <3>2 DEF Render, Goes
  <2>4. CASE Expires \/ \E p \in Players, c \in Characters, l \in Levels : Report(p, c, l)
    BY <2>4 DEF Expires, Report
  <2>5. CASE BotRestarts
    BY <2>1, <2>5, SameRanks DEF BotRestarts
  <2> QED
    BY <2>2, <2>3, <2>4, <2>5 DEF Next, Tasks
<1>2. MembersKeepRanks <=> [][Act]_vars
  BY DEF MembersKeepRanks, RanksStay
<1> HIDE DEF Act
<1> QED
  BY <1>1, <1>2, RosterTypesCorrect, PTL DEF Spec
=============================================================================
