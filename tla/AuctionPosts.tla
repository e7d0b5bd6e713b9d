----------------------------- MODULE AuctionPosts -----------------------------
(***************************************************************************)
(* The Discord posts of the auctions (auctions.rs).  Handlers change an    *)
(* auction, answer whoever clicked, and have its post edited; so does the  *)
(* scheduler.  Edits of one post take turns and each renders the ledger    *)
(* once it holds the turn; a background edit that still waits takes later  *)
(* requests along.  Which message is an auction's post is kept in memory   *)
(* only, and looked up again when the bot starts.                          *)
(***************************************************************************)
EXTENDS Scheduler

CONSTANTS
  Tasks,         \* bound: handlers and background edits at a time
  Free,          \* nobody has the turn
  EditAttempts   \* EDIT_ATTEMPTS

ASSUME TasksAssumption == Free \notin Tasks
ASSUME IdsAssumption == 0 \notin AuctionIds
ASSUME AttemptsAssumption == EditAttempts \in Nat \ {0}

VARIABLES
  shown,         \* what each post shows, version 0 when there is none
  known,         \* AuctionUi.messages: has the auction a post it can edit?
  tasks,         \* the handlers and the edits under way
  slot,          \* AuctionUi.edits: the slot the next refresh of a post takes
  turn,          \* EditSlot.turn
  queued,        \* EditSlot.queued
  owed           \* versions made under a known post, neither shown nor given up

slotVars == <<slot, turn, queued>>
postVars == <<shown, known, tasks, slotVars, owed>>
vars     == <<schedVars, postVars>>

\* A post gets a second slot when it is forgotten, which it is once.
Slots == AuctionIds \X {0, 1}

\* The buttons that take part in an auction; those that settle or cancel one
\* are left out.
Buttons == {"bid", "roll"}
Drawing == [version : Nat, buttons : SUBSET Buttons]
NoPost  == [version |-> 0, buttons |-> {}]

\* A task's version is the one it made or rendered, with what it drew.
Idle == [pc |-> "idle", on |-> 0, slot |-> 0, version |-> 0, buttons |-> {},
         tries |-> 0]

SlotOf(t) == <<tasks[t].on, tasks[t].slot>>

PostTypeOK ==
  /\ SchedTypeOK
  /\ shown \in [AuctionIds -> Drawing]
  /\ known \in [AuctionIds -> BOOLEAN]
  /\ tasks \in [Tasks ->
       [pc : {"idle", "query", "send", "sent", "bid", "roll", "settle", "end",
              "refresh", "wait", "queue", "render", "edit"},
        on : AuctionIds \cup {0}, slot : {0, 1}, version : Nat,
        buttons : SUBSET Buttons, tries : 0 .. EditAttempts - 1]]
  /\ slot \in [AuctionIds -> {0, 1}]
  /\ turn \in [Slots -> Tasks \cup {Free}]
  /\ queued \in [Slots -> BOOLEAN]
  /\ owed \in [AuctionIds -> SUBSET Nat]
  /\ \A x \in Slots :
       /\ {t \in Tasks : SlotOf(t) = x /\ tasks[t].pc \in {"render", "edit"}}
            = {turn[x]} \ {Free}
       /\ queued[x] <=> \E t \in Tasks : SlotOf(t) = x /\ tasks[t].pc = "queue"

All(x)  == [a \in AuctionIds |-> x]
Each(x) == [y \in Slots |-> x]
AllIdle == [t \in Tasks |-> Idle]

Init ==
  /\ SchedInit
  /\ shown = All(NoPost) /\ known = All(FALSE) /\ tasks = AllIdle
  /\ slot = All(0) /\ turn = Each(Free) /\ queued = Each(FALSE)
  /\ owed = All({})

Version(a) == auctions[a].version
Settled(a) == Status(a) \in {"finalized", "cancelled"}

Goes(t, pc) == tasks' = [tasks EXCEPT ![t].pc = pc]
Ends(t)     == tasks' = [tasks EXCEPT ![t] = Idle]

\* The version the step makes is one the post is to show.
Owes(a) ==
  owed' = [owed EXCEPT ![a] = IF known[a] THEN @ \cup {auctions'[a].version} ELSE @]

GivesUp(a, versions) == owed' = [owed EXCEPT ![a] = @ \ versions]

-----------------------------------------------------------------------------
(* What is drawn *)

\* live_message, which the first post and one made at boot are drawn with
\* whatever has become of the auction.
LiveButtons(a) == IF auctions[a].flavor = "roll" THEN {"roll"} ELSE {"bid"}

\* roll_closed_message, closed_message and settled_message have none of these.
DoneButtons == {}

\* build_post.
ButtonsOf(a) == IF Status(a) = "open" THEN LiveButtons(a) ELSE DoneButtons

\* Task t draws its auction up as the ledger has it.
Draws(t, pc, buttons) ==
  tasks' = [tasks EXCEPT ![t].pc = pc, ![t].buttons = buttons,
                         ![t].version = Version(tasks[t].on)]

Drawn(t) == [version |-> tasks[t].version, buttons |-> tasks[t].buttons]

-----------------------------------------------------------------------------
(* Handlers *)

Handler(t, a, pc) ==
  /\ cycle.pc # "off" /\ tasks[t] = Idle
  /\ tasks' = [tasks EXCEPT ![t] =
                 [Idle EXCEPT !.pc = pc, !.on = a, !.slot = slot[a],
                              !.version = auctions'[a].version]]
  /\ Owes(a)
  /\ UNCHANGED <<now, cycle, faults, shown, known, slotVars>>

\* /startbid and its like: the auction is opened, read back, posted, and the
\* post is remembered once Discord has answered with its id.
OpenAuction(t, a) ==
  /\ \E f \in Flavors, d \in Durations : Open(a, f, d)
  /\ Handler(t, a, "query")

Query(t) ==
  /\ tasks[t].pc = "query" /\ Draws(t, "send", LiveButtons(tasks[t].on))
  /\ UNCHANGED <<schedVars, shown, known, slotVars, owed>>

Send(t) ==
  /\ tasks[t].pc = "send"
  /\ shown' = [shown EXCEPT ![tasks[t].on] = Drawn(t)]
  /\ Goes(t, "sent")
  /\ UNCHANGED <<schedVars, known, slotVars, owed>>

SendFails(t) ==
  /\ tasks[t].pc = "send" /\ Fault("discord") /\ Ends(t)
  /\ UNCHANGED <<now, auctions, cycle, shown, known, slotVars, owed>>

Remember(t) ==
  /\ tasks[t].pc = "sent"
  /\ known' = [known EXCEPT ![tasks[t].on] = TRUE]
  /\ Ends(t)
  /\ UNCHANGED <<schedVars, shown, slotVars, owed>>

Bid(t, a) == auctions[a].flavor # "roll" /\ Change(a) /\ Handler(t, a, "bid")

RollForAuction(t, a) ==
  auctions[a].flavor = "roll" /\ Change(a) /\ Handler(t, a, "roll")

\* The buttons under a post.  Cancel refused by the ledger still refreshes.
CancelClick(t, a) ==
  /\ Cancel(a) \/ (Settled(a) /\ UNCHANGED auctions)
  /\ Handler(t, a, "settle")

ConfirmClick(t, a) ==
  auctions[a].flavor # "roll" /\ Finalize(a) /\ Handler(t, a, "settle")

CancelAuction(t, a) == Cancel(a) /\ Handler(t, a, "refresh")

\* /endauction closes, then settles; what the second command meets may be
\* another's work.
EndAuction(t, a) == Close(a, TRUE) /\ Handler(t, a, "end")

EndSettles(t) ==
  /\ tasks[t].pc = "end" /\ Finalize(tasks[t].on)
  /\ tasks' = [tasks EXCEPT ![t].pc = "refresh",
                            ![t].version = auctions'[tasks[t].on].version]
  /\ Owes(tasks[t].on)
  /\ UNCHANGED <<now, cycle, faults, shown, known, slotVars>>

EndRefused(t) ==
  /\ tasks[t].pc = "end"
  /\ \/ Status(tasks[t].on) # "closed" /\ UNCHANGED faults
     \/ Fault("storage")
  /\ Ends(t) /\ GivesUp(tasks[t].on, {tasks[t].version})
  /\ UNCHANGED <<now, auctions, cycle, shown, known, slotVars>>

-----------------------------------------------------------------------------
(* Answers and refreshes *)

\* The edit slot is looked up when a refresh is asked for.
Waits(t) ==
  tasks' = [tasks EXCEPT ![t].pc = "wait", ![t].slot = slot[tasks[t].on]]

Spawns(t, a) ==
  /\ tasks' = [tasks EXCEPT ![t] = [Idle EXCEPT !.pc = "queue", !.on = a,
                                                !.slot = slot[a]]]
  /\ queued' = [queued EXCEPT ![<<a, slot[a]>>] = TRUE]

\* A slip of RefreshSoon: whoever has the turn is taken to show this change.
RefreshSoonFoldsIntoTurn(t, a) ==
  IF turn[<<a, slot[a]>>] # Free THEN Ends(t) /\ UNCHANGED queued ELSE Spawns(t, a)

\* In the background, unless an edit that waits will show it too.
RefreshSoon(t, a) ==
  IF queued[<<a, slot[a]>>] THEN Ends(t) /\ UNCHANGED queued ELSE Spawns(t, a)

Answer(t) ==
  /\ \/ tasks[t].pc \in {"bid", "roll"} /\ RefreshSoon(t, tasks[t].on)
     \/ tasks[t].pc \in {"settle", "refresh"} /\ Waits(t) /\ UNCHANGED queued
  /\ UNCHANGED <<schedVars, shown, known, slot, turn, owed>>

\* An answer that does not arrive ends the handler before it refreshes; a
\* roll is shown to the others all the same.
AnswerFails(t) ==
  /\ Fault("discord")
  /\ \/ tasks[t].pc = "roll" /\ RefreshSoon(t, tasks[t].on) /\ UNCHANGED owed
     \/ /\ tasks[t].pc \in {"bid", "settle"}
        /\ Ends(t) /\ GivesUp(tasks[t].on, {tasks[t].version})
        /\ UNCHANGED queued
  /\ UNCHANGED <<now, auctions, cycle, shown, known, slot, turn>>

\* Slips of TakeTurn: edits of one post run beside each other, or a running
\* edit still counts as the one that waits.
TakeTurnAnyway(t) ==
  /\ tasks[t].pc \in {"wait", "queue"}
  /\ turn' = [turn EXCEPT ![SlotOf(t)] = t]
  /\ queued' = [queued EXCEPT ![SlotOf(t)] = @ /\ tasks[t].pc = "wait"]
  /\ Goes(t, "render")
  /\ UNCHANGED <<schedVars, shown, known, slot, owed>>

TakeTurnStaysQueued(t) ==
  /\ tasks[t].pc \in {"wait", "queue"} /\ turn[SlotOf(t)] = Free
  /\ turn' = [turn EXCEPT ![SlotOf(t)] = t]
  /\ Goes(t, "render")
  /\ UNCHANGED <<schedVars, shown, known, slot, queued, owed>>

\* From here on a change needs an edit of its own.
TakeTurn(t) ==
  /\ tasks[t].pc \in {"wait", "queue"} /\ turn[SlotOf(t)] = Free
  /\ turn' = [turn EXCEPT ![SlotOf(t)] = t]
  /\ queued' = [queued EXCEPT ![SlotOf(t)] = @ /\ tasks[t].pc = "wait"]
  /\ Goes(t, "render")
  /\ UNCHANGED <<schedVars, shown, known, slot, owed>>

Releases(t) == Ends(t) /\ turn' = [turn EXCEPT ![SlotOf(t)] = Free]

\* The post and its slot are dropped; who waits in the old slot stays there.
Forgets(a) ==
  /\ known' = [known EXCEPT ![a] = FALSE]
  /\ slot' = [slot EXCEPT ![a] = 1]

\* The auction is read, drawn up and, when settled, its post forgotten.
Render(t) ==
  /\ tasks[t].pc = "render" /\ known[tasks[t].on]
  /\ Draws(t, "edit", ButtonsOf(tasks[t].on))
  /\ IF Settled(tasks[t].on) THEN Forgets(tasks[t].on)
     ELSE UNCHANGED <<known, slot>>
  /\ UNCHANGED <<schedVars, shown, turn, queued, owed>>

NothingToEdit(t) ==
  /\ tasks[t].pc = "render" /\ ~ known[tasks[t].on]
  /\ Releases(t) /\ GivesUp(tasks[t].on, 1 .. Version(tasks[t].on))
  /\ UNCHANGED <<schedVars, shown, known, slot, queued>>

Shows(t) ==
  /\ shown' = [shown EXCEPT ![tasks[t].on] = Drawn(t)]
  /\ GivesUp(tasks[t].on, 1 .. tasks[t].version)

EditDone(t) ==
  /\ tasks[t].pc = "edit" /\ Shows(t) /\ Releases(t)
  /\ UNCHANGED <<schedVars, known, slot, queued>>

EditFails(t) ==
  /\ tasks[t].pc = "edit" /\ Fault("discord")
  /\ Releases(t) /\ GivesUp(tasks[t].on, 1 .. tasks[t].version)
  /\ UNCHANGED <<now, auctions, cycle, shown, known, slot, queued>>

\* Nobody knows whether Discord made the edit that was given up.
EditTimesOut(t) ==
  /\ tasks[t].pc = "edit" /\ Fault("timeout")
  /\ IF tasks[t].tries < EditAttempts - 1
     THEN /\ tasks' = [tasks EXCEPT ![t].pc = "render", ![t].tries = @ + 1]
          /\ Shows(t) \/ UNCHANGED <<shown, owed>>
          /\ UNCHANGED turn
     ELSE /\ Releases(t)
          /\ \/ Shows(t)
             \/ GivesUp(tasks[t].on, 1 .. tasks[t].version) /\ UNCHANGED shown
  /\ UNCHANGED <<now, auctions, cycle, known, slot, queued>>

-----------------------------------------------------------------------------
(* The scheduler and the boot *)

CycleFires == Fire /\ Owes(Entry.id) /\ UNCHANGED <<shown, known, tasks, slotVars>>

CycleQuiet == (ReadDue \/ Refused) /\ UNCHANGED postVars

CycleGivesUp ==
  /\ CycleFails /\ GivesUp(Entry.id, {cycle.wrote})
  /\ UNCHANGED <<shown, known, tasks, slotVars>>

CycleRefreshes ==
  /\ NextEntry
  /\ IF cycle.wrote = 0 THEN UNCHANGED <<tasks, queued>>
     ELSE \E t \in Tasks : tasks[t] = Idle /\ RefreshSoon(t, Entry.id)
  /\ UNCHANGED <<shown, known, slot, turn, owed>>

\* find_posts: the open auctions whose post a scan of the channels finds.  It
\* goes back ten pages, and a read that fails ends it.
FindPosts ==
  SUBSET {a \in AuctionIds : Status(a) = "open" /\ shown[a] # NoPost}

\* Before anybody is served, every open auction gets its post back: the one
\* that was found, once an edit of it went through, or a new one beside it.
\* Some may get neither.
Boot ==
  LET open == {a \in AuctionIds : Status(a) = "open"} IN
  /\ Start
  /\ \E found \in FindPosts : \E edited \in SUBSET found :
       \E posted \in SUBSET (open \ edited) :
         LET back == edited \cup posted IN
         /\ IF back = open THEN UNCHANGED faults ELSE Fault("discord")
         /\ known' = [a \in AuctionIds |-> a \in back]
         /\ shown' = [a \in AuctionIds |->
              IF a \in back
              THEN [version |-> Version(a),
                    buttons |-> LiveButtons(a)]
              ELSE shown[a]]
  /\ UNCHANGED <<tasks, slotVars, owed>>

BotStops ==
  /\ Stop
  /\ known' = All(FALSE) /\ tasks' = AllIdle
  /\ slot' = All(0) /\ turn' = Each(Free) /\ queued' = Each(FALSE)
  /\ owed' = All({})
  /\ UNCHANGED shown

Time == Tick /\ UNCHANGED postVars

-----------------------------------------------------------------------------

Cycling == CycleFires \/ CycleQuiet \/ CycleRefreshes

Requests(t) ==
  \E a \in AuctionIds :
    \/ OpenAuction(t, a) \/ Bid(t, a) \/ RollForAuction(t, a)
    \/ CancelClick(t, a) \/ ConfirmClick(t, a)
    \/ CancelAuction(t, a) \/ EndAuction(t, a)

Proceeds(t) ==
  \/ Query(t) \/ Send(t) \/ Remember(t) \/ EndSettles(t) \/ EndRefused(t)
  \/ Answer(t) \/ Render(t) \/ NothingToEdit(t) \/ EditDone(t)

Fails(t) ==
  SendFails(t) \/ AnswerFails(t) \/ EditFails(t) \/ EditTimesOut(t)

Next ==
  \/ \E t \in Tasks : Requests(t) \/ Proceeds(t) \/ TakeTurn(t) \/ Fails(t)
  \/ Cycling \/ CycleGivesUp \/ Boot \/ BotStops \/ Time

\* A task runs on, the mutex of a slot is handed on in turn, an edit ends
\* within its 30 s, the cycle and the host as in Scheduler.  The scheduler's
\* refresh waits for a free task here only, hence the strong fairness.
Fairness ==
  /\ \A t \in Tasks : WF_vars(Proceeds(t)) /\ SF_vars(TakeTurn(t))
  /\ SF_vars(Cycling) /\ WF_vars(Boot) /\ WF_vars(Time)

Spec == Init /\ [][Next]_vars /\ Fairness

-----------------------------------------------------------------------------
(* What the posts promise *)

\* While a change is owed to the post, somebody still carries it: the handler
\* that made it, an edit that has yet to render, one that rendered it, or the
\* scheduler.  A request folded into a waiting edit is never lost with it.
NothingLost ==
  \A a \in AuctionIds : \A v \in owed[a] :
    \/ \E t \in Tasks :
         /\ tasks[t].on = a
         /\ \/ tasks[t].pc \in {"refresh", "wait", "queue", "render"}
            \/ /\ tasks[t].pc \in {"bid", "roll", "settle", "end", "edit"}
               /\ tasks[t].version >= v
    \/ cycle.pc = "act" /\ Entry.id = a /\ cycle.wrote >= v

\* No post goes back to an older state of its auction: once it has lost its
\* bid or roll buttons it never shows them again (the raid night of 2026-10-06,
\* when "a finalized auction's post went back to showing live bid buttons").
NeverBackwards ==
  [][\A a \in AuctionIds :
       /\ shown'[a].version >= shown[a].version
       /\ shown[a] # NoPost =>
            shown'[a].buttons \subseteq shown[a].buttons]_vars

\* Every change is shown, or whoever was to show it failed: changes being
\* bounded here, a post that is behind one day is not.
PostCatchesUp == \A a \in AuctionIds : owed[a] # {} ~> owed[a] = {}

\* "Dropping the request cancels it; the retry renders the ledger as it is by
\* then" (EDIT_TIMEOUT): an edit that is tried again finds its post.
RetryFindsPost ==
  \A t \in Tasks : tasks[t].pc = "render" /\ tasks[t].tries > 0 => known[tasks[t].on]
=============================================================================
