---------------------------- MODULE Provisioning ----------------------------
(***************************************************************************)
(* Telemetry tokens: the grants of the ledger, and the two surfaces        *)
(* derived from them, tokens.txt and the members' provisioning files.      *)
(* /dpstoken, its gate button and /dpsrevoke run as tasks side by side,    *)
(* each a chain of ledger commands and file-system calls; a file is        *)
(* replaced by writing a temporary file and renaming it, and every writer  *)
(* of tokens.txt uses the same temporary name.                             *)
(*                                                                         *)
(* A line of tokens.txt is the member it names and the number of its       *)
(* secret; a file is the inode its name points to, so that a writer may    *)
(* hold a file another one renamed.  Lines differ in width, as names do:   *)
(* where one writer writes over the longer text of another, the end of a   *)
(* line may be left, with or without the name on it.                       *)
(***************************************************************************)
EXTENDS Naturals, Sequences, FiniteSets

CONSTANTS
  Users,      \* members, by Discord username
  Sorted,     \* Users in the order of their names
  Service,    \* the name on the bot's own line, never a member's
  Width,      \* how long a line is, by the name on it
  Tasks,      \* handlers that may be under way at once
  MaxTokens,  \* bound: tokens minted
  MaxClicks,  \* bound: commands and clicks
  MaxFaults   \* bound: crashes and failed calls

Nothing == "none"

ASSUME NamesAssumption ==
  Service \notin Users /\ Service # Nothing /\ Nothing \notin Users
ASSUME WidthAssumption == Width \in [Users \cup {Service} -> Nat \ {0}]
ASSUME FiniteAssumption == IsFiniteSet(Users) /\ IsFiniteSet(Tasks)
ASSUME SortedAssumption ==
  /\ Sorted \in [1..Cardinality(Users) -> Users]
  /\ \A u \in Users : \E i \in 1..Cardinality(Users) : Sorted[i] = u
ASSUME ProvBoundsAssumption ==
  {MaxTokens, MaxClicks, MaxFaults} \subseteq Nat

VARIABLES
  telemetry,  \* GuildState.telemetry: the live grants
  managed,    \* GuildState.telemetry_managed
  inode,      \* the contents of the files in the tokens directory
  target,     \* the inode tokens.txt names
  tmp,        \* the inode .tokens.txt.tmp names; 0 if there is none
  perses,     \* the role in each member's provisioning files
  task,       \* the handlers under way
  bot,        \* "off"; "importing", then "checking"; or "on"
  import,     \* what the import run knows, and a history: no bot has served yet
  shared,     \* history: two writers held one temporary file
  issued,     \* history: the lines the ledger recorded an issue for
  kept,       \* history: lines found at the boot or handed over since
  clean,      \* history: since the boot, no two tasks overlapped, none failed
  minted, clicks, faults   \* counters for the bounds

ledger == <<telemetry, managed, issued>>
files  == <<inode, target, tmp, perses, shared>>
counts == <<minted, clicks, faults>>
provVars == <<ledger, files, task, bot, import, kept, clean, counts>>

Roles   == {"editor", "viewer"}
Secrets == 0..2 * MaxTokens + 1
Line    == [name : Users \cup {Service, Nothing}, secret : Secrets]
Grant   == [secret : Secrets, role : Roles]
NoGrant == [secret |-> 0, role |-> Nothing]
Inodes  == 1..(Cardinality(Tasks) + 2)
Grants  == [Users -> Grant \cup {NoGrant}]

ServiceLine == [name |-> Service, secret |-> 0]

\* What is left of a cut line: the end of its secret, numbered above those that
\* were minted, and its name, or neither whole.  A piece is not cut again.
IsPiece(l) == l.secret > MaxTokens
Pieces(l)  == IF IsPiece(l) THEN {l}
              ELSE [name : {l.name, Nothing}, secret : {l.secret + MaxTokens + 1}]

\* What a handler carries from one await to the next.
Idle == [pc |-> "idle", kind |-> Nothing, user |-> Service, line |-> ServiceLine,
         role |-> Nothing, text |-> <<>>, fd |-> 0, grants |-> <<>>, ours |-> {}]

Pcs == {"idle", "query", "refresh", "grant", "append", "snapshot", "read",
        "create", "write", "rename", "bind", "unbind"}

\* The members of S in s, in their order.
Those(s, S) ==
  LET those[i \in 0..Len(s)] ==
        IF i = 0 THEN <<>>
        ELSE IF s[i] \in S THEN Append(those[i - 1], s[i]) ELSE those[i - 1]
  IN  those[Len(s)]

LinesOf(text) == {text[i] : i \in 1..Len(text)}
TokensTxt     == LinesOf(inode[target])

ProvTypeOK ==
  /\ telemetry \in Grants
  /\ managed \subseteq Users
  /\ inode \in [Inodes -> Seq(Line)]
  /\ target \in Inodes /\ tmp \in Inodes \cup {0} /\ target # tmp
  /\ perses \in [Users -> Roles \cup {Nothing}]
  /\ \A t \in Tasks :
       /\ task[t].pc \in Pcs
       /\ task[t].fd \in Inodes \cup {0}
       /\ task[t].text \in Seq(Line)
       /\ task[t].pc \in {"write", "rename"} => task[t].fd # 0
       /\ task[t].pc \in {"query", "refresh", "grant", "append"} =>
            task[t].user \in Users
  /\ bot \in {"off", "importing", "checking", "on"}
  /\ issued \subseteq Line /\ kept \subseteq Line
  /\ clean \in BOOLEAN /\ shared \in BOOLEAN

\* dpsbot left tokens.txt and the role bindings of its members behind; a line
\* without a role binding is one somebody added by hand.
Init ==
  /\ telemetry = [u \in Users |-> NoGrant]
  /\ managed = {}
  /\ \E L \in SUBSET Users :
       /\ inode = [i \in Inodes |-> IF i # 1 THEN <<>> ELSE
            <<ServiceLine>> \o
            LET S == Those(Sorted, L) IN
              [j \in 1..Len(S) |-> [name |-> S[j], secret |-> 0]]]
       /\ perses \in [Users -> Roles \cup {Nothing}]
       /\ \A u \in Users \ L : perses[u] = Nothing
  /\ target = 1 /\ tmp = 0 /\ shared = FALSE
  /\ task = [t \in Tasks |-> Idle]
  /\ bot = "off"
  /\ import = [before |-> <<>>, known |-> {}, todo |-> <<>>, unserved |-> TRUE]
  /\ issued = {} /\ kept = {} /\ clean = TRUE
  /\ minted = 0 /\ clicks = 0 /\ faults = 0

Live(u)   == telemetry[u] # NoGrant
Quiet     == \A t \in Tasks : task[t].pc = "idle"
Fault     == faults < MaxFaults /\ faults' = faults + 1

\* tokens.txt is read; a read that fails is taken for an empty file.
Reads(found) ==
  \/ found = inode[target] /\ UNCHANGED <<clean, faults>>
  \/ found = <<>> /\ Fault /\ clean' = FALSE

\* A task moves on to pc, with the rest of its record as given.
Goes(t, record, pc) == task' = [task EXCEPT ![t] = [record EXCEPT !.pc = pc]]
Ends(t)             == task' = [task EXCEPT ![t] = Idle]

-----------------------------------------------------------------------------
(* The ledger's side: decide and apply of the three telemetry commands.    *)

IssueToken(l, role) ==
  /\ ~Live(l.name)
  /\ telemetry' = [telemetry EXCEPT ![l.name] =
                     [secret |-> l.secret, role |-> role]]
  /\ managed' = managed \cup {l.name}
  /\ issued' = issued \cup {l}

RefreshAccess(u, role) ==
  telemetry' = IF Live(u) THEN [telemetry EXCEPT ![u].role = role] ELSE telemetry

RevokeToken(u) ==
  /\ Live(u)
  /\ telemetry' = [telemetry EXCEPT ![u] = NoGrant]

-----------------------------------------------------------------------------
(* What materialize makes of the old text and its snapshot of the grants.  *)

Vouched(grants, l) == grants[l.name] # NoGrant /\ grants[l.name].secret = l.secret

\* A slip of TokensFile: a line of ours stays as long as its member has a
\* grant, whatever secret the line holds.
TokensFileByName(text, ours, grants) ==
  Those(text, {l \in LinesOf(text) : l.name \notin ours \/ grants[l.name] # NoGrant})

\* Lines that are not ours in their old order; then, by name, the lines a
\* live grant vouches for.
TokensFile(text, ours, grants) ==
  LET found == Those(Sorted, {u \in ours :
                 /\ grants[u] # NoGrant
                 /\ [name |-> u, secret |-> grants[u].secret] \in LinesOf(text)}) IN
  Those(text, {l \in LinesOf(text) : l.name \notin ours}) \o
  [i \in 1..Len(found) |-> [name |-> found[i], secret |-> grants[found[i]].secret]]

\* The highest dashboard role the ranks of a member map to, read from the
\* map anew each time; without one the member is turned away.
RoleFor(held) == IF "editor" \in held THEN "editor" ELSE "viewer"
Ranks         == (SUBSET Roles) \ {{}}

-----------------------------------------------------------------------------
(* Handlers.  With the second identity configured they are served from the *)
(* start, beside the boot's own rematerialize.                             *)

Arrives(t, record, pc) ==
  /\ bot = "on" /\ task[t].pc = "idle"
  /\ clicks < MaxClicks /\ clicks' = clicks + 1
  /\ Goes(t, record, pc)
  /\ clean' = (clean /\ Quiet)
  /\ UNCHANGED <<files, bot, import, kept, minted, faults>>

For(u, kind, role) == [Idle EXCEPT !.user = u, !.kind = kind, !.role = role]

\* /dpstoken of a member who has a grant goes on to refresh it; anybody else
\* is shown the gate, which changes nothing.
Command(t, u, held) ==
  /\ Live(u)
  /\ Arrives(t, For(u, "command", RoleFor(held)), "query")
  /\ UNCHANGED ledger

\* The button under the gate.
Click(t, u, held) ==
  /\ Arrives(t, For(u, "click", RoleFor(held)), "query")
  /\ UNCHANGED ledger

\* /dpsrevoke; of a member without a grant it is refused and changes nothing.
Revoke(t, u) ==
  /\ RevokeToken(u)
  /\ Arrives(t, For(u, "revoke", Nothing), "snapshot")
  /\ UNCHANGED <<managed, issued>>

\* issue() looks whether there is a grant, and mints a secret if not.
Query(t) ==
  /\ task[t].pc = "query"
  /\ \/ /\ Live(task[t].user)
        /\ Goes(t, task[t], "refresh")
        /\ UNCHANGED minted
     \/ /\ ~Live(task[t].user)
        /\ minted < MaxTokens /\ minted' = minted + 1
        /\ Goes(t, [task[t] EXCEPT !.line = [name |-> task[t].user,
                                             secret |-> minted + 1]], "grant")
  /\ UNCHANGED <<ledger, files, bot, import, kept, clean, clicks, faults>>

\* The outcome of the refresh is not looked at.
Refresh(t) ==
  /\ task[t].pc = "refresh"
  /\ RefreshAccess(task[t].user, task[t].role)
  /\ Goes(t, task[t], "snapshot")
  /\ UNCHANGED <<managed, issued, files, bot, import, kept, clean, counts>>

\* A slip of Record: the line is written although the ledger refused it.
RecordAnyway(t) ==
  /\ task[t].pc = "grant"
  /\ IF Live(task[t].line.name)
     THEN UNCHANGED ledger
     ELSE IssueToken(task[t].line, task[t].role)
  /\ Goes(t, task[t], "append")
  /\ UNCHANGED <<files, bot, import, kept, clean, counts>>

\* The fingerprint is committed before the line is written; a second click
\* that raced the first is refused here.
Record(t) ==
  /\ task[t].pc = "grant"
  /\ \/ /\ IssueToken(task[t].line, task[t].role)
        /\ Goes(t, task[t], "append")
     \/ /\ Live(task[t].line.name)
        /\ Ends(t)
        /\ UNCHANGED ledger
  /\ UNCHANGED <<files, bot, import, kept, clean, counts>>

\* append_token reads the file and adds its line.
AppendToken(t) ==
  /\ task[t].pc = "append"
  /\ \E found \in {inode[target], <<>>} :
       /\ Reads(found)
       /\ Goes(t, [task[t] EXCEPT !.text = found \o <<task[t].line>>], "create")
  /\ UNCHANGED <<ledger, files, bot, import, kept, minted, clicks>>

\* rematerialize asks the ledger...
Snapshot(t) ==
  /\ task[t].pc = "snapshot"
  /\ Goes(t, [task[t] EXCEPT !.grants = telemetry, !.ours = managed,
                             !.kind = "rewrite"], "read")
  /\ UNCHANGED <<ledger, files, bot, import, kept, clean, counts>>

\* ... and materialize reads the file, on a thread of its own.
Read(t) ==
  /\ task[t].pc = "read"
  /\ \E found \in {inode[target], <<>>} :
       LET text == TokensFile(found, task[t].ours, task[t].grants) IN
       /\ Reads(found)
       /\ Goes(t, [task[t] EXCEPT !.text = text],
               IF text = found THEN "bind" ELSE "create")
  /\ UNCHANGED <<ledger, files, bot, import, kept, minted, clicks>>

-----------------------------------------------------------------------------
(* write_atomic.                                                           *)

\* Once the file is written the member gets the line, and rematerialize
\* follows; a /dpstoken that found no grant any more says nothing and stops.
\* A rewrite goes on to the provisioning files.
Done(t) ==
  LET closed == [task[t] EXCEPT !.fd = 0, !.text = <<>>] IN
  IF task[t].kind = "rewrite"
  THEN Goes(t, closed, "bind") /\ UNCHANGED kept
  ELSE /\ kept' = kept \cup {task[t].line}
       /\ IF task[t].kind = "click" THEN Goes(t, closed, "snapshot") ELSE Ends(t)

Held(t) == {task[s].fd : s \in Tasks \ {t}}
Free(t) == CHOOSE i \in Inodes : i # target /\ i # tmp /\ i \notin Held(t)

\* A text that is there already is not written, unless it cannot be read.  The
\* temporary name is opened if it exists, and emptied.
Create(t) ==
  /\ task[t].pc = "create"
  /\ \/ /\ inode[target] = task[t].text
        /\ Done(t)
        /\ UNCHANGED <<files, clean, faults>>
     \/ /\ \/ inode[target] # task[t].text /\ UNCHANGED <<clean, faults>>
           \/ inode[target] = task[t].text /\ Fault /\ clean' = FALSE
        /\ LET f == IF tmp = 0 THEN Free(t) ELSE tmp IN
             /\ inode' = [inode EXCEPT ![f] = <<>>]
             /\ tmp' = f
             /\ shared' = (shared \/ f \in Held(t))
             /\ Goes(t, [task[t] EXCEPT !.fd = f], "write")
        /\ UNCHANGED <<target, perses, kept>>
  /\ UNCHANGED <<ledger, bot, import, minted, clicks>>

\* Where the lines of a text end.
EndsAt(text) ==
  LET at[i \in 0..Len(text)] ==
        IF i = 0 THEN 0
        ELSE at[i - 1] + (IF IsPiece(text[i]) THEN 1 ELSE Width[text[i].name])
  IN  at

\* What a file holds once text is written from its start, over old: the lines
\* of old that text does not reach, the first of them perhaps cut.
Overlaid(text, old) ==
  LET n    == EndsAt(text)[Len(text)]
      k    == Cardinality({i \in 1..Len(old) : EndsAt(old)[i] <= n})
      rest == SubSeq(old, k + 1, Len(old))
  IN  IF rest # <<>> /\ EndsAt(old)[k] < n
      THEN {text \o <<p>> \o Tail(rest) : p \in Pieces(Head(rest))}
      ELSE {text \o rest}

\* Each writer writes from the start of the file it opened.
Write(t) ==
  /\ task[t].pc = "write"
  /\ \E text \in Overlaid(task[t].text, inode[task[t].fd]) :
       inode' = [inode EXCEPT ![task[t].fd] = text]
  /\ Goes(t, task[t], "rename")
  /\ UNCHANGED <<ledger, target, tmp, perses, shared, bot, import, kept, clean, counts>>

\* The name is moved, whoever wrote behind it; without it the writer fails.
Rename(t) ==
  /\ task[t].pc = "rename"
  /\ \/ /\ tmp # 0
        /\ target' = tmp /\ tmp' = 0
        /\ inode' = [i \in Inodes |->
             IF i = tmp \/ i \in Held(t) THEN inode[i] ELSE <<>>]
        /\ Done(t)
        /\ UNCHANGED clean
     \/ /\ tmp = 0
        /\ Ends(t)
        /\ clean' = FALSE
        /\ UNCHANGED <<inode, target, tmp, kept>>
  /\ UNCHANGED <<ledger, perses, shared, bot, import, counts>>

-----------------------------------------------------------------------------
(* The provisioning files.                                                 *)

\* The files of everybody who has a grant in the snapshot...
Bound(t) == [u \in Users |->
  IF task[t].grants[u] # NoGrant THEN task[t].grants[u].role ELSE perses[u]]

\* ... and away with those of the members we know and who have none.
Unbound(t) == [u \in Users |->
  IF u \in task[t].ours /\ task[t].grants[u] = NoGrant THEN Nothing ELSE perses[u]]

Bind(t) ==
  /\ task[t].pc = "bind"
  /\ perses' = Bound(t)
  /\ Goes(t, task[t], "unbind")
  /\ UNCHANGED <<ledger, inode, target, tmp, shared, bot, import, kept, clean, counts>>

Unbind(t) ==
  /\ task[t].pc = "unbind"
  /\ perses' = Unbound(t)
  /\ Ends(t)
  /\ UNCHANGED <<ledger, inode, target, tmp, shared, bot, import, kept, clean, counts>>

-----------------------------------------------------------------------------
(* What goes wrong, and the boot.                                          *)

\* Of the files several members have, some are bound and others are not yet.
Underway(T) ==
  {p \in [Users -> Roles \cup {Nothing}] : \A u \in Users :
     \/ p[u] = perses[u]
     \/ \E t \in T : task[t].pc = "bind"   /\ p[u] = Bound(t)[u]
     \/ \E t \in T : task[t].pc = "unbind" /\ p[u] = Unbound(t)[u]}

\* A call fails.  Only the refresh of a role goes on regardless, and a read of
\* tokens.txt, which is with those who read it.
Fails(t) ==
  /\ task[t].pc \notin {"idle", "query", "snapshot", "read"}
  /\ Fault
  /\ clean' = FALSE
  /\ IF task[t].pc = "refresh" THEN Goes(t, task[t], "snapshot") ELSE Ends(t)
  /\ perses' \in Underway({t})
  /\ UNCHANGED <<ledger, inode, target, tmp, shared, bot, import, kept, minted, clicks>>

\* The process goes at any moment; an import is cut short the same way.
Stop ==
  /\ bot # "off" /\ Fault
  /\ bot' = "off"
  /\ task' = [t \in Tasks |-> Idle]
  /\ perses' \in Underway(Tasks)
  /\ UNCHANGED <<ledger, inode, target, tmp, shared, import, kept, clean, minted, clicks>>

Rewrites(t) == Goes(t, [Idle EXCEPT !.kind = "rewrite"], "snapshot")

\* The boot derives the files again.
Boot(t) ==
  /\ bot = "off"
  /\ bot' = "on"
  /\ Rewrites(t)
  /\ kept' = TokensTxt /\ clean' = TRUE
  /\ import' = [import EXCEPT !.unserved = FALSE]
  /\ UNCHANGED <<ledger, files, counts>>

-----------------------------------------------------------------------------
(* --import-provisioning, instead of serving.                              *)

StartImport ==
  /\ bot = "off"
  /\ clicks < MaxClicks /\ clicks' = clicks + 1
  /\ bot' = "importing"
  /\ import' = [import EXCEPT !.before = inode[target], !.known = managed,
                              !.todo = inode[target]]
  /\ clean' = TRUE
  /\ UNCHANGED <<ledger, files, task, kept, minted, faults>>

\* A slip of Imported: the fingerprint is of the line, not of the token.
ImportedLine(l) == IssueToken([l EXCEPT !.secret = MaxTokens], perses[l.name])

Imported(l) == IssueToken(l, perses[l.name])

\* One line: skipped unless it names a member with a role binding whom the
\* ledger did not know when the import began; refused, and the import over,
\* when an earlier line gave that member a grant.  A binding that cannot be read
\* is taken for a viewer's.
ImportLine ==
  /\ bot = "importing" /\ import.todo # <<>>
  /\ LET l == Head(import.todo)
         taken == l.name \in Users \ import.known /\ perses[l.name] # Nothing
     IN  \/ ~taken /\ UNCHANGED <<ledger, bot, faults>>
         \/ taken /\ Imported(l) /\ UNCHANGED <<bot, faults>>
         \/ taken /\ Fault /\ IssueToken(l, "viewer") /\ UNCHANGED bot
         \/ taken /\ Live(l.name) /\ bot' = "off" /\ UNCHANGED <<ledger, faults>>
  /\ import' = [import EXCEPT !.todo = Tail(@)]
  /\ UNCHANGED <<files, task, kept, clean, minted, clicks>>

\* The files are derived once, and compared.
ImportRewrites(t) ==
  /\ bot = "importing" /\ import.todo = <<>> /\ Quiet
  /\ Rewrites(t)
  /\ bot' = "checking"
  /\ UNCHANGED <<ledger, files, import, kept, clean, counts>>

ImportEnds ==
  /\ bot = "checking" /\ Quiet
  /\ bot' = "off"
  /\ UNCHANGED <<ledger, files, task, import, kept, clean, counts>>

-----------------------------------------------------------------------------
TaskStep(t) ==
  \/ Query(t) \/ Refresh(t) \/ Record(t) \/ AppendToken(t) \/ Snapshot(t) \/ Read(t)
  \/ Create(t) \/ Write(t) \/ Rename(t) \/ Bind(t) \/ Unbind(t)

Next ==
  \/ \E t \in Tasks : TaskStep(t) \/ Fails(t) \/ Boot(t) \/ ImportRewrites(t)
  \/ \E t \in Tasks, u \in Users :
       \/ Revoke(t, u)
       \/ \E held \in Ranks : Command(t, u, held) \/ Click(t, u, held)
  \/ Stop \/ StartImport \/ ImportLine \/ ImportEnds

Spec == Init /\ [][Next]_provVars

-----------------------------------------------------------------------------
(* Properties.                                                             *)

\* Of two clicks of one member one is refused before its secret is written, so
\* no line in tokens.txt holds a secret of a member that the ledger did not
\* record first, except the lines dpsbot left and, where two writers held one
\* temporary file, the end of a line one of them cut.
NothingUnrecorded ==
  \A l \in TokensTxt :
    \/ l.name = Service \/ l.secret = 0 \/ l \in issued
    \/ shared /\ IsPiece(l)

\* As long as handlers do not overlap and nothing fails, once all are done
\* the files say what the ledger says: no line of ours that no live grant
\* vouches for, every line found at the boot or handed over since still there
\* unless its grant is gone, and each member's files bound to the granted
\* role.  So after races and crashes one undisturbed boot takes the stale lines
\* and files away; a line they lost, the bot's own included, it cannot restore.
InStep ==
  bot = "on" /\ clean /\ Quiet =>
    /\ \A l \in TokensTxt : l.name \in managed => Vouched(telemetry, l)
    /\ \A l \in kept :
         l.name \notin managed \/ Vouched(telemetry, l) => l \in TokensTxt
    /\ \A u \in managed :
         perses[u] = IF Live(u) THEN telemetry[u].role ELSE Nothing

\* An import that is not cut short: its rewrite has ended, or failed.
ImportFinishes == bot = "checking" /\ bot' = "off" /\ faults' = faults

\* Before the bot first serves, an import leaves the same set of lines in
\* tokens.txt, and each line of a member with a role binding has its grant: also
\* when it goes on from where one that was cut short or failed left off ("a
\* half-finished import simply resumes", provision.rs).
ImportChangesNothing ==
  [][ImportFinishes /\ import.unserved =>
       /\ TokensTxt = LinesOf(import.before)
       /\ \A l \in TokensTxt :
            l.name \in Users /\ perses[l.name] # Nothing => Vouched(telemetry, l)
    ]_provVars

\* What the comment in main.rs says of the import: the file it wrote back has to
\* be byte-identical to the one it read.
ImportByteIdentical ==
  [][ImportFinishes /\ import.unserved => inode[target] = import.before]_provVars

\* What the comment on write_atomic says: a reader never sees a partial file.
NeverPartial == \A l \in TokensTxt : ~ IsPiece(l)

\* The line of the bot itself is never removed, for it is not ours: it is there
\* whenever no handler is at work.
ServiceLineStays == Quiet => ServiceLine \in TokensTxt
=============================================================================
