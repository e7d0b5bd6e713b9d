-------------------------------- MODULE Store --------------------------------
(***************************************************************************)
(* The event store under its one writer: the write-ahead log (wal.rs), its *)
(* compaction into monthly Parquet partitions (compact.rs), and the driver *)
(* that stages a command's events, appends them, fsyncs, applies them and  *)
(* answers (driver.rs).  The writer may crash between any two steps; what  *)
(* was written and not fsynced may then be lost, or torn.                  *)
(***************************************************************************)
EXTENDS Integers, Sequences, FiniteSets, SequencesExt

CONSTANTS
  MaxCmds,       \* bound: commands executed
  BatchSizes,    \* how many events a decision emits
  SegmentMax,    \* records after which a segment rotates
  Months,        \* months of the host's clock, numbered as they are named
  ClockBack,     \* whether the clock may be stepped back across a month
  Faults,        \* I/O that may fail: "write", "sync", "compact"
  Half,          \* a line cut off before its newline
  Bad            \* a whole line whose checksum is wrong

ASSUME BatchAssumption == BatchSizes \subseteq Nat \ {0} /\ MaxCmds \in Nat
ASSUME SegmentAssumption == SegmentMax \in Nat \ {0}
ASSUME MonthsAssumption == Months \subseteq Nat /\ Months # {}
ASSUME FaultsAssumption ==
  Faults \subseteq {"write", "sync", "compact"} /\ ClockBack \in BOOLEAN

VARIABLES
  segs,          \* disk: the WAL segments, oldest first, each a list of lines
  synced,        \* disk: how many lines of the last segment are fsynced
  parquet,       \* disk: the records in each month's partition
  bytes,         \* Wal.bytes of the last segment, in records
  walSeq,        \* Wal.next_seq
  ledger,        \* the records the live ledger has applied
  batch,         \* the records of the command being executed
  left,          \* those of them not written yet
  todo,          \* months a running compaction has not written yet
  pc,            \* what the writer thread is doing
  month,         \* the month of the host's clock
  cmds,          \* how many commands were proposed
  acked, failed  \* commands answered Ok, and with a storage error

disk   == <<segs, synced, parquet>>
memory == <<bytes, walSeq, ledger, batch, left, todo>>
answers == <<cmds, acked, failed>>
vars   == <<disk, memory, pc, month, answers>>

\* An event as stored: its number, the command it is of, its place in the
\* decision and the month of its timestamp.
Record == [seq : Nat, cmd : Nat, last : BOOLEAN, month : Months]

ASSUME LinesAssumption == Half # Bad /\ Half \notin Record /\ Bad \notin Record

Good(l) == l \notin {Half, Bad}

Up == pc \notin {"down", "refused"}

Init ==
  /\ segs = <<>> /\ synced = 0
  /\ parquet = [m \in Months |-> {}]
  /\ bytes = 0 /\ walSeq = 0 /\ ledger = <<>>
  /\ batch = <<>> /\ left = <<>> /\ todo = {}
  /\ pc = "down"
  /\ month \in Months
  /\ cmds = 0 /\ acked = {} /\ failed = {}

-----------------------------------------------------------------------------
(* Boot *)

Archived == UNION {parquet[m] : m \in Months}

\* The numbers of S run from `from` on, without a gap or a repetition.
Contiguous(S, from) == {r.seq : r \in S} = from .. from + Cardinality(S) - 1

\* The records of S by number.
InOrder(S) ==
  [i \in 1 .. Cardinality(S) |->
     CHOOSE r \in S : Cardinality({s \in S : s.seq < r.seq}) = i - 1]

\* Only the last line of the last segment may be a crash's doing.
TornTail(i) == i = Len(segs) /\ segs[i] # <<>> /\ ~ Good(Last(segs[i]))
Readable(i) == IF TornTail(i) THEN Front(segs[i]) ELSE segs[i]

WalReads == \A i \in DOMAIN segs : \A l \in Range(Readable(i)) : Good(l)

Tail0 == FlattenSeq([i \in DOMAIN segs |-> Readable(i)])

\* What s, whose numbers have no gap, holds from number c on.
Beyond(s, c) ==
  IF s # <<>> /\ s[1].seq < c THEN SubSeq(s, c - s[1].seq + 1, Len(s)) ELSE s

\* The records a boot replays, in order: the partitions, then what the log
\* holds beyond them.  A log that starts inside them is an interrupted
\* compaction, and what it repeats is skipped.
Replayable == InOrder(Archived) \o Beyond(Tail0, Cardinality(Archived))

NoGap(s, from) == \A i \in DOMAIN s : s[i].seq = from + i - 1

\* A slip of BootAccepts: a log that starts inside the partitions is refused.
RefuseOverlap ==
  /\ Contiguous(Archived, 0)
  /\ WalReads
  /\ Tail0 # <<>> => /\ NoGap(Tail0, Tail0[1].seq)
                     /\ Tail0[1].seq = Cardinality(Archived)

\* Each check is local: the partitions by themselves, the log by itself, and
\* that the log begins inside or just after the partitions.  That no number is
\* then missing follows; Ledger::replay asserts it once more.
BootAccepts ==
  /\ Contiguous(Archived, 0)
  /\ WalReads
  /\ Tail0 # <<>> => /\ NoGap(Tail0, Tail0[1].seq)
                     /\ Tail0[1].seq <= Cardinality(Archived)

\* A slip of Boot: the empty log starts over at 0.
BootUnaligned ==
  /\ pc = "down" /\ BootAccepts
  /\ segs' = IF segs = <<>> THEN << <<>> >>
             ELSE [segs EXCEPT ![Len(segs)] = Readable(Len(segs))]
  /\ bytes' = IF segs = <<>> THEN 0 ELSE Len(Readable(Len(segs)))
  /\ synced' = IF segs # <<>> /\ TornTail(Len(segs)) THEN bytes' ELSE synced
  /\ walSeq' = IF Tail0 = <<>> THEN 0 ELSE Last(Tail0).seq + 1
  /\ ledger' = Replayable
  /\ batch' = <<>> /\ left' = <<>> /\ todo' = {}
  /\ pc' = "idle"
  /\ UNCHANGED <<parquet, month, answers>>

\* Store::open and the replay into a fresh ledger.  The torn tail is cut off
\* for good, with an fsync; a whole one is replayed as it is found, fsynced or
\* not.  An empty log continues after the partitions.
Boot ==
  /\ pc = "down" /\ BootAccepts
  /\ segs' = IF segs = <<>> THEN << <<>> >>
             ELSE [segs EXCEPT ![Len(segs)] = Readable(Len(segs))]
  /\ bytes' = IF segs = <<>> THEN 0 ELSE Len(Readable(Len(segs)))
  /\ synced' = IF segs # <<>> /\ TornTail(Len(segs)) THEN bytes' ELSE synced
  /\ walSeq' = IF Tail0 = <<>> THEN Cardinality(Archived)
               ELSE Last(Tail0).seq + 1
  /\ ledger' = Replayable
  /\ batch' = <<>> /\ left' = <<>> /\ todo' = {}
  /\ pc' = "idle"
  /\ UNCHANGED <<parquet, month, answers>>

\* The log is corrupt or has a gap: the bot does not start.
RefuseBoot ==
  /\ pc = "down" /\ ~ BootAccepts
  /\ pc' = "refused"
  /\ UNCHANGED <<disk, memory, month, answers>>

-----------------------------------------------------------------------------
(* Executing a command *)

\* Decide: the events are staged with the ledger's next numbers.
Propose(n) ==
  /\ pc = "idle" /\ cmds < MaxCmds
  /\ batch' = [i \in 1 .. n |-> [seq |-> Len(ledger) + i - 1, cmd |-> cmds,
                                 last |-> i = n, month |-> month]]
  /\ left' = batch'
  /\ cmds' = cmds + 1
  /\ pc' = "write"
  /\ UNCHANGED <<disk, bytes, walSeq, ledger, todo, month, acked, failed>>

\* The segment is full: the next record opens a new one, after an fsync.
Full == bytes >= SegmentMax
Target == IF Full THEN Append(segs, <<>>) ELSE segs

\* What the last segment holds once s was written to it: after half a line
\* it does not start a line of its own.
Written(lines, s) ==
  IF lines # <<>> /\ Last(lines) = Half THEN Append(Front(lines), s[2])
  ELSE Append(lines, s[1])

Fail ==
  /\ failed' = failed \cup {batch[1].cmd}
  /\ pc' = "idle"
  /\ batch' = <<>> /\ left' = <<>>

\* A slip of WriteRecord: the number is not compared with the log's.
WriteUnchecked ==
  /\ pc = "write" /\ left # <<>>
  /\ segs' = [Target EXCEPT ![Len(Target)] = Written(@, <<Head(left), Bad>>)]
  /\ synced' = IF Full THEN 0 ELSE synced
  /\ bytes' = IF Full THEN 1 ELSE bytes + 1
  /\ walSeq' = walSeq + 1
  /\ left' = Tail(left)
  /\ UNCHANGED <<parquet, ledger, batch, todo, pc, month, answers>>

WriteRecord ==
  /\ pc = "write" /\ left # <<>>
  /\ Head(left).seq = walSeq
  /\ segs' = [Target EXCEPT ![Len(Target)] = Written(@, <<Head(left), Bad>>)]
  /\ synced' = IF Full THEN 0 ELSE synced
  /\ bytes' = IF Full THEN 1 ELSE bytes + 1
  /\ walSeq' = walSeq + 1
  /\ left' = Tail(left)
  /\ UNCHANGED <<parquet, ledger, batch, todo, pc, month, answers>>

\* The write stops half way (a full disk): the caller is told it failed.
WriteFails ==
  /\ "write" \in Faults
  /\ pc = "write" /\ left # <<>>
  /\ Head(left).seq = walSeq
  /\ segs' = [Target EXCEPT ![Len(Target)] = Written(@, <<Half, Half>>)]
  /\ synced' = IF Full THEN 0 ELSE synced
  /\ bytes' = IF Full THEN 0 ELSE bytes
  /\ Fail
  /\ UNCHANGED <<parquet, walSeq, ledger, todo, month, cmds, acked>>

\* A slip of AppendRefused: the caller is told, the writer waits.
RefusedAndWaits ==
  /\ pc = "write" /\ left # <<>>
  /\ Head(left).seq # walSeq
  /\ failed' = failed \cup {batch[1].cmd}
  /\ UNCHANGED <<disk, memory, pc, month, cmds, acked>>

\* The log is ahead of the ledger, after an append that failed late.
AppendRefused ==
  /\ pc = "write" /\ left # <<>>
  /\ Head(left).seq # walSeq
  /\ Fail
  /\ UNCHANGED <<disk, bytes, walSeq, ledger, todo, month, cmds, acked>>

Sync ==
  /\ pc = "write" /\ left = <<>>
  /\ synced' = Len(Last(segs))
  /\ pc' = "commit"
  /\ UNCHANGED <<segs, parquet, memory, month, answers>>

\* A slip of SyncFails: the error is dropped, and the command goes on.
SyncIgnored ==
  /\ "sync" \in Faults
  /\ pc = "write" /\ left = <<>>
  /\ pc' = "commit"
  /\ UNCHANGED <<disk, memory, month, answers>>

\* The fsync that ends the append fails, or the one ahead of a rotation.
SyncFails ==
  /\ "sync" \in Faults
  /\ pc = "write"
  /\ left # <<>> => Full /\ Head(left).seq = walSeq
  /\ Fail
  /\ UNCHANGED <<disk, bytes, walSeq, ledger, todo, month, cmds, acked>>

\* The events are durable: apply them and answer.
Commit ==
  /\ pc = "commit"
  /\ ledger' = ledger \o batch
  /\ acked' = acked \cup {batch[1].cmd}
  /\ batch' = <<>>
  /\ pc' = "idle"
  /\ UNCHANGED <<disk, bytes, walSeq, left, todo, month, cmds, failed>>

-----------------------------------------------------------------------------
(* Compaction *)

Sealed == Front(segs)
Moving == UNION {Range(s) : s \in Range(Sealed)}

\* Seal the running segment and read the sealed ones.  A sealed segment that
\* does not decode fails the run.
SealAndPlan ==
  /\ pc = "idle" /\ bytes > 0
  /\ segs' = Append(segs, <<>>)
  /\ synced' = 0 /\ bytes' = 0
  /\ LET lines == UNION {Range(s) : s \in Range(segs)} IN
     IF \A l \in lines : Good(l)
     THEN /\ pc' = "compact"
          /\ todo' = {l.month : l \in lines}
     ELSE UNCHANGED <<pc, todo>>
  /\ UNCHANGED <<parquet, walSeq, ledger, batch, left, month, answers>>

\* Segments an interrupted run left behind are compacted without sealing.
Plan ==
  /\ pc = "idle" /\ bytes = 0 /\ Len(segs) > 1
  /\ \A l \in Moving : Good(l)
  /\ pc' = "compact"
  /\ todo' = {l.month : l \in Moving}
  /\ UNCHANGED <<disk, bytes, walSeq, ledger, batch, left, month, answers>>

\* Slips of WritePartition.  What the partition held is lost:
WriteOver ==
  /\ pc = "compact" /\ todo # {}
  /\ LET m == CHOOSE m \in todo : \A k \in todo : m <= k IN
       /\ parquet' = [parquet EXCEPT ![m] = {r \in Moving : r.month = m}]
       /\ todo' = todo \ {m}
  /\ UNCHANGED <<segs, synced, bytes, walSeq, ledger, batch, left, pc, month,
                 answers>>

\* or every record goes into the first one.
WriteIntoOne ==
  /\ pc = "compact" /\ todo # {}
  /\ LET m == CHOOSE m \in todo : \A k \in todo : m <= k IN
       /\ parquet' = [parquet EXCEPT ![m] = @ \cup Moving]
       /\ todo' = {}
  /\ UNCHANGED <<segs, synced, bytes, walSeq, ledger, batch, left, pc, month,
                 answers>>

\* One partition, merged with what it held, written aside and renamed over;
\* then the next month.  Equal numbers are the same event.
WritePartition ==
  /\ pc = "compact" /\ todo # {}
  /\ LET m   == CHOOSE m \in todo : \A k \in todo : m <= k
         new == {r \in Moving : r.month = m} IN
       /\ parquet' = [parquet EXCEPT ![m] =
            new \cup {r \in @ : \A s \in new : s.seq # r.seq}]
       /\ todo' = todo \ {m}
  /\ UNCHANGED <<segs, synced, bytes, walSeq, ledger, batch, left, pc, month,
                 answers>>

CompactionFails ==
  /\ "compact" \in Faults
  /\ pc = "compact"
  /\ pc' = "idle" /\ todo' = {}
  /\ UNCHANGED <<disk, bytes, walSeq, ledger, batch, left, month, answers>>

\* A slip of RemoveSegment: segments go while partitions are being written.
RemoveEarly ==
  /\ pc = "compact" /\ Len(segs) > 1
  /\ segs' = Tail(segs)
  /\ pc' = IF Len(segs) = 2 THEN "idle" ELSE "compact"
  /\ UNCHANGED <<synced, parquet, memory, month, answers>>

\* Every partition is read back: the sealed segments go, oldest first.
RemoveSegment ==
  /\ pc = "compact" /\ todo = {}
  /\ segs' = Tail(segs)
  /\ pc' = IF Len(segs) = 2 THEN "idle" ELSE "compact"
  /\ UNCHANGED <<synced, parquet, memory, month, answers>>

-----------------------------------------------------------------------------
(* The host *)

\* Power is lost: of the lines that were not fsynced some may be on the disk,
\* the last of them cut off.  What is there now stays there.
PowerLoss ==
  /\ Up
  /\ \E k \in synced .. Len(Last(segs)), torn \in BOOLEAN :
       /\ torn => k < Len(Last(segs))
       /\ segs' = [segs EXCEPT ![Len(segs)] =
            IF torn THEN Append(SubSeq(@, 1, k), Half) ELSE SubSeq(@, 1, k)]
       /\ synced' = IF torn THEN k + 1 ELSE k
  /\ pc' = "down"
  /\ UNCHANGED <<parquet, memory, month, answers>>

\* The process is killed, possibly in the middle of a write.  The host keeps
\* what was written, fsynced or not.
Kill ==
  /\ Up
  /\ \/ segs' = segs
     \/ /\ pc = "write" /\ left # <<>> /\ Head(left).seq = walSeq
        /\ segs' = [Target EXCEPT ![Len(Target)] = Written(@, <<Half, Half>>)]
  /\ synced' = IF Len(segs') > Len(segs) THEN 0 ELSE synced
  /\ pc' = "down"
  /\ UNCHANGED <<parquet, memory, month, answers>>

Clock ==
  /\ month' \in Months /\ month' # month
  /\ ClockBack \/ month' > month
  /\ UNCHANGED <<disk, memory, pc, answers>>

Next ==
  \/ Boot \/ RefuseBoot
  \/ \E n \in BatchSizes : Propose(n)
  \/ WriteRecord \/ WriteFails \/ AppendRefused \/ Sync \/ SyncFails \/ Commit
  \/ SealAndPlan \/ Plan \/ WritePartition \/ CompactionFails \/ RemoveSegment
  \/ PowerLoss \/ Kill \/ Clock

Spec == Init /\ [][Next]_vars
-----------------------------------------------------------------------------
(* What the store promises *)

StoreTypeOK ==
  /\ \A i \in DOMAIN segs : \A l \in Range(segs[i]) :
       l \in {Half, Bad} \/ l \in Record
  /\ synced \in Nat /\ bytes \in Nat /\ walSeq \in Nat /\ cmds \in 0 .. MaxCmds
  /\ \A m \in Months : \A r \in parquet[m] : r \in Record /\ r.month = m
  /\ \A r \in Range(ledger) \cup Range(batch) \cup Range(left) : r \in Record
  /\ todo \subseteq Months /\ month \in Months
  /\ acked \subseteq Nat /\ failed \subseteq Nat
  /\ pc \in {"down", "refused", "idle", "write", "commit", "compact"}

\* The events of a command that are in the ledger.
Applied(c) == {r \in Range(ledger) : r.cmd = c}

\* A command answered Ok stays in the ledger, through crashes in the middle
\* of appends, rotations and compactions ("Ok means the events are fsynced
\* and applied", driver.rs).
AckedSurvive ==
  Up => \A c \in acked : \E r \in Applied(c) : r.last

\* Whenever the writer is at rest the log continues where the ledger ends, so
\* the next append is not refused; after an append that failed it may be
\* ahead, never behind.
LogFollowsLedger ==
  pc = "idle" => IF failed = {} THEN walSeq = Len(ledger)
                 ELSE walSeq >= Len(ledger)

\* What a boot would replay at this moment is what the ledger has applied,
\* with at most the command being appended, or one that failed, beyond it: no
\* step of a compaction loses or repeats an event, and the live state is a
\* fold of the stored events.
LedgerIsReplay ==
  Up => /\ IsPrefix(ledger, Replayable)
        /\ failed = {} => Len(Replayable) <= Len(ledger) + Len(batch)

\* Whatever failed before, half a line written, an fsync refused, a segment
\* compacted in between, or the process killed: what a boot accepts has no gap
\* and agrees with what the last process had applied, event by event.  It may
\* lack an end of it, and what it has beyond is of a command that failed or
\* was under way; no event ever takes the place of another.
ReplayAgrees ==
  BootAccepts =>
    /\ NoGap(Replayable, 0)
    /\ \A i \in DOMAIN Replayable \cap DOMAIN ledger : Replayable[i] = ledger[i]
    /\ \A i \in DOMAIN Replayable \ DOMAIN ledger :
         \/ Replayable[i].cmd \in failed
         \/ Replayable[i] \in Range(batch)

\* A store that only crashed boots again.
NeverRefused == pc # "refused"

-----------------------------------------------------------------------------
(* The store as a durable log *)

\* The acknowledged commands end here.
AckedLength ==
  LET stored   == Archived \cup UNION {Range(s) : s \in Range(segs)}
      promised == {r \in stored : Good(r) /\ r.last /\ r.cmd \in acked}
  IN  IF promised = {} THEN 0 ELSE Max({r.seq + 1 : r \in promised})

Abstract == INSTANCE DurableLog WITH log <- Replayable, stable <- AckedLength,
                                     Items <- Record

\* Segments, rotation, torn lines, partitions and interrupted compactions are
\* invisible: what a boot would replay behaves as one log that only grows,
\* of which a crash takes at most what nobody was promised.
IsDurableLog == Abstract!Spec

\* The scheduling the driver gives: its thread goes on with what it started,
\* and the host starts the bot again.
FairSpec ==
  Spec /\ WF_vars(WriteRecord \/ AppendRefused \/ Sync \/ Commit)
       /\ WF_vars(WritePartition \/ RemoveSegment)
       /\ WF_vars(Boot)

\* The writer always comes back to its queue, over and over: no rotation,
\* compaction, failed append or interrupted run leaves its callers waiting for
\* ever, and after a crash the store opens again.
BackToTheQueue == []<>(pc = "idle")
=============================================================================
