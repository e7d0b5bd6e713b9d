------------------------------ MODULE Scheduler ------------------------------
(***************************************************************************)
(* The auction timers (scheduler.rs).  Every cycle reads from the ledger   *)
(* which auctions are due, then works through that list one command at a   *)
(* time, while officers close, settle and cancel the same auctions and     *)
(* the process may stop in between.  Of an auction the module keeps what   *)
(* the timers read, and a version that tells one state of it from another. *)
(***************************************************************************)
EXTENDS Integers, Sequences, FiniteSets

CONSTANTS
  AuctionIds,    \* auction ids, ordered as the ledger's map orders them
  Flavors,       \* Flavor: of "short", "long" and "roll"
  Durations,     \* duration_ms of an auction
  Grace,         \* LONG_AUCTION_GRACE_MS
  Faults,        \* what may fail: "stop", "storage"; AuctionPosts has more
  MaxFaults,     \* bound: how often something fails
  MaxTime,       \* bound: the wall clock
  MaxChanges     \* bound: bids and rolls on one auction

ASSUME AuctionIdsAssumption == AuctionIds \subseteq Nat /\ IsFiniteSet(AuctionIds)
ASSUME FlavorsAssumption == Flavors \subseteq {"short", "long", "roll"}
ASSUME DurationsAssumption == Durations \subseteq Nat \ {0} /\ Grace \in Nat
ASSUME BoundsAssumption ==
  MaxFaults \in Nat /\ MaxTime \in Nat /\ MaxChanges \in Nat

VARIABLES
  now,           \* the wall clock
  auctions,      \* GuildState.auctions
  cycle,         \* what the scheduler's task is doing
  faults         \* how often something failed

schedVars == <<now, auctions, cycle, faults>>

Statuses == {"none", "open", "closed", "finalized", "cancelled"}
Steps    == {<<>>, <<"close">>, <<"finalize">>, <<"close", "finalize">>}

Auction == [status : Statuses, flavor : {"short", "long", "roll"},
            deadline : Nat, version : Nat]

\* due is the list read at the start of the cycle, less what is done; wrote
\* is the version the first of it was given, 0 when nothing changed yet.
Cycle == [pc : {"off", "rest", "act"},
          due : Seq([id : AuctionIds, steps : Steps]), wrote : Nat]

SchedTypeOK ==
  /\ now \in Nat
  /\ auctions \in [AuctionIds -> Auction]
  /\ cycle \in Cycle
  /\ faults \in Nat

Asleep(pc) == [pc |-> pc, due |-> <<>>, wrote |-> 0]

SchedInit ==
  /\ now = 0
  /\ auctions = [a \in AuctionIds |->
       [status |-> "none", flavor |-> "short", deadline |-> 0, version |-> 0]]
  /\ cycle = Asleep("off")
  /\ faults = 0

Fault(kind) == kind \in Faults /\ faults < MaxFaults /\ faults' = faults + 1

-----------------------------------------------------------------------------
(* The ledger's commands on an auction, as decide accepts them *)

Status(a) == auctions[a].status

Becomes(a, status, deadline) ==
  auctions' = [auctions EXCEPT ![a] =
    [auctions[a] EXCEPT !.status = status, !.deadline = deadline,
                        !.version = auctions[a].version + 1]]

Open(a, flavor, duration) ==
  /\ Status(a) = "none"
  /\ auctions' = [auctions EXCEPT ![a] =
       [status |-> "open", flavor |-> flavor, deadline |-> now + duration,
        version |-> 1]]

\* A bid, a retracted one or a roll, taken as long as the auction is open.
Change(a) ==
  /\ Status(a) = "open" /\ auctions[a].version <= MaxChanges
  /\ Becomes(a, "open", auctions[a].deadline)

\* With /endauction the deadline becomes the moment of the close.
Close(a, early) ==
  /\ Status(a) = "open"
  /\ Becomes(a, "closed", IF early THEN now ELSE auctions[a].deadline)

Finalize(a) ==
  /\ Status(a) = "closed"
  /\ Becomes(a, "finalized", auctions[a].deadline)

Cancel(a) ==
  /\ Status(a) \in {"open", "closed"}
  /\ Becomes(a, "cancelled", auctions[a].deadline)

-----------------------------------------------------------------------------
(* The cycle *)

\* A slip of DueSteps: a short auction is settled without its officer.
DueStepsAllFlavors(a) ==
  LET x == auctions[a] IN
  CASE x.status = "open" /\ x.deadline <= now ->
         IF x.flavor = "roll" THEN <<"close", "finalize">> ELSE <<"close">>
    [] x.status = "closed" /\ x.deadline + Grace <= now -> <<"finalize">>
    [] OTHER -> <<>>

\* Another: a roll is drawn before it is closed.
DueStepsSwapped(a) ==
  LET x == auctions[a] IN
  CASE x.status = "open" /\ x.deadline <= now ->
         IF x.flavor = "roll" THEN <<"finalize", "close">> ELSE <<"close">>
    [] x.status = "closed" /\ x.flavor = "long" /\ x.deadline + Grace <= now ->
         <<"finalize">>
    [] x.status = "closed" /\ x.flavor = "roll" /\ x.deadline <= now ->
         <<"finalize">>
    [] OTHER -> <<>>

\* Another: only a roll that is still open is looked at, so one that was
\* closed and not drawn stays so.
DueStepsOpenOnly(a) ==
  LET x == auctions[a] IN
  CASE x.status = "open" /\ x.deadline <= now ->
         IF x.flavor = "roll" THEN <<"close", "finalize">> ELSE <<"close">>
    [] x.status = "closed" /\ x.flavor = "long" /\ x.deadline + Grace <= now ->
         <<"finalize">>
    [] OTHER -> <<>>

\* What the timers owe an auction at this moment.  A roll is closed and drawn
\* in one go; one found closed was left between the two.  A short auction
\* waits for its officer.
DueSteps(a) ==
  LET x == auctions[a] IN
  CASE x.status = "open" /\ x.deadline <= now ->
         IF x.flavor = "roll" THEN <<"close", "finalize">> ELSE <<"close">>
    [] x.status = "closed" /\ x.flavor = "long" /\ x.deadline + Grace <= now ->
         <<"finalize">>
    [] x.status = "closed" /\ x.flavor = "roll" /\ x.deadline <= now ->
         <<"finalize">>
    [] OTHER -> <<>>

Overdue == {a \in AuctionIds : DueSteps(a) # <<>>}

\* The entries of S in the order of their ids, of which there is one.
InOrder(S) ==
  {s \in [1..Cardinality(S) -> S] : \A i, j \in DOMAIN s : i < j => s[i].id < s[j].id}

ReadDue ==
  /\ cycle.pc = "rest" /\ Overdue # {}
  /\ \E due \in InOrder({[id |-> a, steps |-> DueSteps(a)] : a \in Overdue}) :
       cycle' = [pc |-> "act", wrote |-> 0, due |-> due]
  /\ UNCHANGED <<now, auctions, faults>>

Entry   == Head(cycle.due)
Pending == cycle.pc = "act" /\ Entry.steps # <<>>

\* Would the ledger take the next command now?
Accepted ==
  IF Head(Entry.steps) = "close" THEN Status(Entry.id) = "open"
  ELSE Status(Entry.id) = "closed"

\* One command of the entry: what it needed when the list was read is checked
\* again by the ledger.
Fire ==
  /\ Pending /\ Accepted
  /\ IF Head(Entry.steps) = "close" THEN Close(Entry.id, FALSE)
     ELSE Finalize(Entry.id)
  /\ cycle' = [cycle EXCEPT !.due[1].steps = Tail(Entry.steps),
                            !.wrote = auctions'[Entry.id].version]
  /\ UNCHANGED <<now, faults>>

\* Somebody else got there first: the rest of the entry is dropped.
Refused ==
  /\ Pending /\ ~ Accepted
  /\ cycle' = [cycle EXCEPT !.due[1].steps = <<>>]
  /\ UNCHANGED <<now, auctions, faults>>

\* The command could not be stored: the rest of the cycle is dropped.
CycleFails ==
  /\ Pending /\ Fault("storage")
  /\ cycle' = Asleep("rest")
  /\ UNCHANGED <<now, auctions>>

\* The entry is done (its post is refreshed, see AuctionPosts).
NextEntry ==
  /\ cycle.pc = "act" /\ Entry.steps = <<>>
  /\ cycle' = IF Len(cycle.due) = 1 THEN Asleep("rest")
              ELSE [pc |-> "act", due |-> Tail(cycle.due), wrote |-> 0]
  /\ UNCHANGED <<now, auctions, faults>>

CycleStep == ReadDue \/ Fire \/ Refused \/ CycleFails \/ NextEntry

Start == cycle.pc = "off" /\ cycle' = Asleep("rest") /\ UNCHANGED <<now, auctions>>

Stop == cycle.pc # "off" /\ Fault("stop") /\ cycle' = Asleep("off")
        /\ UNCHANGED <<now, auctions>>

Tick == now < MaxTime /\ now' = now + 1 /\ UNCHANGED <<auctions, cycle, faults>>

\* Members and officers, through the handlers of AuctionPosts.
People ==
  /\ \E a \in AuctionIds :
       \/ \E f \in Flavors, d \in Durations : Open(a, f, d)
       \/ Change(a) \/ Close(a, TRUE) \/ Finalize(a) \/ Cancel(a)
  /\ UNCHANGED <<now, cycle, faults>>

SchedStart == Start /\ UNCHANGED faults

SchedNext == CycleStep \/ SchedStart \/ Stop \/ Tick \/ People

\* The cycle is an endless loop, the host restarts the bot, time passes.
SchedFair ==
  WF_schedVars(ReadDue \/ Fire \/ Refused \/ NextEntry) /\ WF_schedVars(SchedStart)
  /\ WF_schedVars(Tick)

SchedSpec == SchedInit /\ [][SchedNext]_schedVars /\ SchedFair

-----------------------------------------------------------------------------
(* What the timers promise *)

\* The scheduler acts on a list that may be old, yet never early: it closes no
\* auction before its deadline, draws no roll before it, settles no long
\* auction within the grace an officer has to object, and a short one never.
NeverEarly ==
  [][\A a \in AuctionIds :
       auctions'[a] # auctions[a] /\ cycle' # cycle =>
         LET x == auctions[a] IN
         /\ x.status = "open" => x.deadline <= now
         /\ x.status = "closed" =>
              \/ x.flavor = "long" /\ x.deadline + Grace <= now
              \/ x.flavor = "roll" /\ x.deadline <= now
         /\ x.status \in {"open", "closed"}
    ]_schedVars

Awaits(a, flavor, grace) ==
  LET x == auctions[a] IN
  x.status = "closed" /\ x.flavor = flavor /\ x.deadline + grace <= now

\* Every timer fires: an auction past its deadline closes, a roll is drawn, a
\* long auction is settled, whatever stopped in between and whoever else acted
\* ("a restart mid-auction simply resumes here", scheduler.rs).
TimersFire ==
  \A a \in AuctionIds :
    /\ Status(a) = "open" /\ auctions[a].deadline <= now ~> Status(a) # "open"
    /\ Awaits(a, "roll", 0) ~> ~ Awaits(a, "roll", 0)
    /\ Awaits(a, "long", Grace) ~> ~ Awaits(a, "long", Grace)
=============================================================================
