---------------------------- MODULE BidDeskProofs ----------------------------
(***************************************************************************)
(* Proofs about the auction desk: no channel is counted twice whatever is  *)
(* patched in whatever order, the dialogs that open are for characters the *)
(* ledger would take, and no bid comes to stand that is out of date.       *)
(***************************************************************************)
EXTENDS BidDesk, TLAPS

-----------------------------------------------------------------------------
(* Types *)

Bid  == [amount : Int, main : BOOLEAN, char : Characters \cup {None}]
Bids == UNION {[D -> Bid] : D \in SUBSET Players}

AuctionRecord ==
  [status : {"none", "open", "closed"}, roll : BOOLEAN, minBid : Nat, cost : Nat,
   channel : Channels \cup {None}, rollers : SUBSET Players, bids : Bids,
   rolls : SUBSET Players]

TaskRecord ==
  [pc : {"idle", "item", "open", "list", "dialog"}, p : Players,
   a : AuctionIds \cup {None}, main : BOOLEAN, char : Characters \cup {None},
   roll : BOOLEAN, channel : Channels \cup {None}, minBid : Nat \cup {Unset},
   cost : Nat, rollers : SUBSET Players]

\* A bid is for an auction that was put up, and by the time one is opened its
\* minimum is known.
TaskSound(k) ==
  /\ k.pc \in {"list", "dialog"} => k.a \in AuctionIds
  /\ k.pc = "open" => k.minBid \in Nat

WorldTypes ==
  /\ rows \in [Players -> [Characters -> Row]]
  /\ attendance \in [Players -> Attendances]

TaskTypes ==
  /\ task \in [Tasks -> TaskRecord]
  /\ \A t \in Tasks : TaskSound(task[t])

ConfigInv == config \in Config /\ CountedOnce

BidInv ==
  /\ ConfigInv /\ WorldTypes /\ TaskTypes
  /\ auctions \in [AuctionIds -> AuctionRecord]

LEMMA IdleTyped == Idle \in TaskRecord /\ TaskSound(Idle) /\ Idle.pc = "idle"
<1>1. (CHOOSE p \in Players : TRUE) \in Players
  BY PlayersAssumption
<1> QED
  BY <1>1 DEF Idle, TaskRecord, TaskSound, None, Unset

LEMMA UnopenedTyped == Unopened \in AuctionRecord /\ DOMAIN Unopened.bids = {}
<1>1. <<>> \in Bids /\ DOMAIN <<>> = {}
  <2>1. <<>> \in [{} -> Bid]
    OBVIOUS
  <2> QED
    BY <2>1 DEF Bids
<1> QED
  BY <1>1 DEF Unopened, AuctionRecord, None

-----------------------------------------------------------------------------
(* The configuration *)

Fields == {"role", "raid", "extras", "auction", "minBid", "characterBids",
           "mainLine", "altLine", "mainLevel", "altLevel"}

\* What a command may patch, before it is validated.
Patch(k) ==
  /\ DOMAIN k \subseteq Fields
  /\ Within(k, "role", DOMAIN RoleHolders) /\ Within(k, "raid", Channels)
  /\ Within(k, "extras", Seq(Nat)) /\ Within(k, "auction", BOOLEAN)
  /\ Within(k, "characterBids", BOOLEAN)

\* A record of the fields with values of their types is a configuration.
LEMMA ConfigFrom ==
  ASSUME NEW f, f = [x \in Fields |-> f[x]],
         f["role"] \in DOMAIN RoleHolders \cup {None}, f["raid"] \in Channels \cup {None},
         f["extras"] \in Seq(Nat), f["auction"] \in BOOLEAN, f["minBid"] \in Nat,
         f["characterBids"] \in BOOLEAN, f["mainLine"] \in 0 .. 100,
         f["altLine"] \in 0 .. 100, f["mainLevel"] \in 0 .. 65, f["altLevel"] \in 0 .. 65
  PROVE  f \in Config
<1>1. f = [role |-> f["role"], raid |-> f["raid"], extras |-> f["extras"],
           auction |-> f["auction"], minBid |-> f["minBid"],
           characterBids |-> f["characterBids"], mainLine |-> f["mainLine"],
           altLine |-> f["altLine"], mainLevel |-> f["mainLevel"],
           altLevel |-> f["altLevel"]]
  BY DEF Fields
<1> QED
  BY <1>1 DEF Config

\* Each channel once: in the list, and not in both places.
LEMMA ChannelsOnce ==
  ASSUME NEW c \in Config, IsInjective(c.extras), c.raid \notin ToSet(c.extras)
  PROVE  IsInjective(RaidChannels(c))
<1> DEFINE e == c.extras
<1>1. e \in Seq(Nat)
  BY DEF Config
<1>2. CASE c.raid = None
  <2>1. RaidChannels(c) = e
    BY <1>1, <1>2 DEF RaidChannels
  <2> QED
    BY <2>1
<1>3. CASE c.raid # None
  <2> DEFINE s == <<c.raid>> \o e
  <2>1. RaidChannels(c) = s
    BY <1>3 DEF RaidChannels
  <2>2. /\ DOMAIN s = 1 .. (Len(e) + 1) /\ Len(e) \in Nat /\ DOMAIN e = 1 .. Len(e)
        /\ s[1] = c.raid /\ \A i \in 2 .. (Len(e) + 1) : s[i] = e[i - 1]
    BY <1>1
  <2>3. ASSUME NEW i \in DOMAIN s, NEW j \in DOMAIN s, s[i] = s[j] PROVE i = j
    <3> HIDE DEF s, e
    <3>1. \A m \in DOMAIN e : e[m] # c.raid
      BY DEF ToSet, e
    <3>2. \A m, n \in DOMAIN e : e[m] = e[n] => m = n
      BY DEF IsInjective, e
    <3>3. CASE i = 1 /\ j = 1
      BY <3>3
    <3>4. CASE i = 1 /\ j # 1
      BY <2>2, <2>3, <3>1, <3>4
    <3>5. CASE i # 1 /\ j = 1
      BY <2>2, <2>3, <3>1, <3>5
    <3>6. CASE i # 1 /\ j # 1
      <4>1. i - 1 \in DOMAIN e /\ j - 1 \in DOMAIN e /\ e[i - 1] = e[j - 1]
        BY <2>2, <2>3, <3>6
      <4>2. i - 1 = j - 1
        BY <3>2, <4>1
      <4> QED
        BY <2>2, <4>2
    <3> QED
      BY <3>3, <3>4, <3>5, <3>6
  <2> QED
    BY <2>1, <2>3 DEF IsInjective
<1> QED
  BY <1>2, <1>3

\* A patch leaves a configuration, and counts nothing twice.
LEMMA PatchKeeps ==
  ASSUME ConfigInv, NEW k, Patch(k), UpdateConfig(k)
  PROVE  ConfigInv'
<1>1. CASE ~ ValidConfig(k)
  BY <1>1 DEF UpdateConfig, ConfigInv, CountedOnce
<1>2. CASE ValidConfig(k)
  <2> DEFINE m == Over(k, config)
  <2>1. config' = m
    BY <1>2 DEF UpdateConfig, Patched
  <2>2. DOMAIN config = Fields
    BY DEF ConfigInv, Config, Fields
  <2>3. m = [x \in Fields |-> m[x]]
    BY <2>2 DEF Over, Patch
  <2>4. \A x \in Fields : m[x] = IF x \in DOMAIN k THEN k[x] ELSE config[x]
    BY <2>2 DEF Over, Patch
  <2>5. /\ config["role"] \in DOMAIN RoleHolders \cup {None}
        /\ config["raid"] \in Channels \cup {None}
        /\ config["extras"] \in Seq(Nat) /\ config["auction"] \in BOOLEAN
        /\ config["minBid"] \in Nat /\ config["characterBids"] \in BOOLEAN
        /\ config["mainLine"] \in 0 .. 100 /\ config["altLine"] \in 0 .. 100
        /\ config["mainLevel"] \in 0 .. 65 /\ config["altLevel"] \in 0 .. 65
    BY DEF ConfigInv, Config
  <2>6. SoundValues(k)
    BY <1>2 DEF ValidConfig
  <2> HIDE DEF m
  <2>7. /\ m["role"] \in DOMAIN RoleHolders \cup {None} /\ m["raid"] \in Channels \cup {None}
        /\ m["extras"] \in Seq(Nat) /\ m["auction"] \in BOOLEAN
        /\ m["characterBids"] \in BOOLEAN
    BY <2>4, <2>5 DEF Patch, Within, Fields
  <2>8. /\ m["minBid"] \in Nat
        /\ m["mainLine"] \in 0 .. 100 /\ m["altLine"] \in 0 .. 100
        /\ m["mainLevel"] \in 0 .. 65 /\ m["altLevel"] \in 0 .. 65
    BY <2>4, <2>5, <2>6 DEF SoundValues, Within, Fields
  <2>9. m \in Config
    BY <2>3, <2>7, <2>8, ConfigFrom
  <2>10. IsInjective(m.extras) /\ m.raid \notin ToSet(m.extras)
    BY <1>2 DEF ValidConfig, Patched, m
  <2> QED
    BY <2>1, <2>9, <2>10, ChannelsOnce DEF ConfigInv, CountedOnce
<1> QED
  BY <1>1, <1>2

\* What the officers' commands patch.
LEMMA CommandsPatch ==
  ASSUME ConfigInv, NEW p \in Players,
         \/ \E role \in DOMAIN RoleHolders, raid \in Channels, k \in Knobs :
              \/ Configure(p, role, raid, k)
              \/ \E list \in Lists : Configure(p, role, raid, Over(k, [extras |-> list]))
         \/ \E on \in BOOLEAN : Feature(p, on)
  PROVE  ConfigInv' /\ UNCHANGED <<rows, attendance, voice, auctions, task>>
<1>1. ASSUME NEW role \in DOMAIN RoleHolders, NEW raid \in Channels, NEW typed,
             DOMAIN typed \subseteq Fields \ {"role", "raid", "auction", "characterBids"},
             Within(typed, "extras", Seq(Nat)), Configure(p, role, raid, typed)
      PROVE  ConfigInv'
  <2> DEFINE named == [role |-> role, raid |-> raid, auction |-> TRUE]
             k == Over(typed, named)
  <2>1. /\ DOMAIN k = DOMAIN typed \cup {"role", "raid", "auction"}
        /\ k["role"] = role /\ k["raid"] = raid /\ k["auction"] = TRUE
        /\ "extras" \in DOMAIN typed => k["extras"] = typed["extras"]
    BY <1>1 DEF Over
  <2>2. UpdateConfig(k)
    BY <1>1 DEF Configure
  <2> HIDE DEF k
  <2>3. Patch(k)
    BY <1>1, <2>1 DEF Patch, Within, Fields
  <2> QED
    BY <2>2, <2>3, PatchKeeps
<1>2. ASSUME NEW role \in DOMAIN RoleHolders, NEW raid \in Channels, NEW k \in Knobs,
             Configure(p, role, raid, k)
      PROVE  ConfigInv'
  <2>1. DOMAIN k \subseteq {"minBid", "mainLine", "altLine", "mainLevel", "altLevel"}
    BY KnobsAssumption
  <2> QED
    BY <1>1, <1>2, <2>1 DEF Within, Fields
<1>3. ASSUME NEW role \in DOMAIN RoleHolders, NEW raid \in Channels, NEW k \in Knobs,
             NEW list \in Lists, Configure(p, role, raid, Over(k, [extras |-> list]))
      PROVE  ConfigInv'
  <2> DEFINE typed == Over(k, [extras |-> list])
  <2>1. DOMAIN k \subseteq {"minBid", "mainLine", "altLine", "mainLevel", "altLevel"}
    BY KnobsAssumption
  <2>2. DOMAIN typed = DOMAIN k \cup {"extras"} /\ typed["extras"] = list
    BY <2>1 DEF Over
  <2>3. Configure(p, role, raid, typed) /\ list \in Seq(Nat)
    BY <1>3, ChannelsAssumption
  <2> HIDE DEF typed
  <2>4. DOMAIN typed \subseteq Fields \ {"role", "raid", "auction", "characterBids"}
    BY <2>1, <2>2 DEF Fields
  <2> QED
    BY <1>1, <2>2, <2>3, <2>4 DEF Within
<1>4. ASSUME NEW on \in BOOLEAN, Feature(p, on) PROVE ConfigInv'
  <2>1. UpdateConfig([characterBids |-> on])
    BY <1>4 DEF Feature
  <2>2. Patch([characterBids |-> on])
    BY DEF Patch, Within, Fields
  <2> QED
    BY <2>1, <2>2, PatchKeeps
<1>5. UNCHANGED <<rows, attendance, voice, auctions, task>>
  BY DEF Configure, Feature, worldVars
<1> QED
  BY <1>2, <1>3, <1>4, <1>5

-----------------------------------------------------------------------------
(* What moves meanwhile, and putting an item up *)

\* Rows and attendance keep their types.
LEMMA WorldMoves ==
  ASSUME WorldTypes, NEW p \in Players, Around(p)
  PROVE  WorldTypes' /\ UNCHANGED <<config, auctions, task>>
<1>1. ASSUME NEW c \in Characters, Rank(p, c) PROVE WorldTypes'
  <2>1. rows[p] \in [Characters -> Row] /\ rows[p][c] \in Row
    BY DEF WorldTypes
  <2>2. (~ rows[p][c].ranked) \in BOOLEAN
    BY <2>1 DEF Row
  <2>3. [rows[p][c] EXCEPT !.ranked = ~ rows[p][c].ranked] \in Row
    BY <2>1, <2>2 DEF Row
  <2>4. rows' = [rows EXCEPT ![p] = [rows[p] EXCEPT ![c] =
                   [rows[p][c] EXCEPT !.ranked = ~ rows[p][c].ranked]]]
    BY <1>1 DEF Rank
  <2> QED
    BY <1>1, <2>1, <2>3, <2>4 DEF Rank, WorldTypes
<1>2. ASSUME NEW c \in Characters,
             NEW row \in {NoRow} \cup [level : Levels, ranked : BOOLEAN], Edit(p, c, row)
      PROVE  WorldTypes'
  <2>1. NoRow \in Row
    BY DEF NoRow, Row
  <2>2. [level : Levels, ranked : BOOLEAN] \subseteq Row
    BY DEF Row
  <2>3. row \in Row
    BY <2>1, <2>2
  <2> QED
    BY <1>2, <2>3 DEF Edit, WorldTypes
<1>3. ASSUME NEW pct \in Attendances, Attends(p, pct) PROVE WorldTypes'
  BY <1>3 DEF Attends, WorldTypes
<1>4. ASSUME NEW ch, Moves(p, ch) PROVE WorldTypes'
  BY <1>4 DEF Moves, WorldTypes
<1>5. UNCHANGED <<config, auctions, task>>
  BY DEF Around, Rank, Edit, Attends, Moves
<1> QED
  BY <1>1, <1>2, <1>3, <1>4, <1>5 DEF Around

\* A task takes another state.
LEMMA TaskSet ==
  ASSUME TaskTypes, NEW t \in Tasks, NEW k \in TaskRecord, TaskSound(k),
         task' = [task EXCEPT ![t] = k]
  PROVE  TaskTypes'
BY DEF TaskTypes

LEMMA TaskEnds ==
  ASSUME TaskTypes, NEW t \in Tasks, Ends(t) PROVE TaskTypes'
BY TaskSet, IdleTyped DEF Ends

\* Nothing about the bids of an auction changes by its stopping.
LEMMA StopKeeps ==
  ASSUME auctions \in [AuctionIds -> AuctionRecord], NEW a \in AuctionIds, Stops(a)
  PROVE  /\ auctions' \in [AuctionIds -> AuctionRecord]
         /\ \A b \in AuctionIds : auctions'[b].bids = auctions[b].bids
         /\ UNCHANGED <<config, rows, attendance, voice, task>>
<1>1. auctions[a] \in AuctionRecord
  OBVIOUS
<1>2. [auctions[a] EXCEPT !.status = "closed"] \in AuctionRecord
  BY <1>1 DEF AuctionRecord
<1>3. auctions' = [auctions EXCEPT ![a] = [auctions[a] EXCEPT !.status = "closed"]]
  BY DEF Stops
<1>4. [auctions[a] EXCEPT !.status = "closed"].bids = auctions[a].bids
  BY <1>1 DEF AuctionRecord
<1> QED
  BY <1>2, <1>3, <1>4 DEF Stops, worldVars

LEMMA StartKeeps ==
  ASSUME TaskTypes, NEW t \in Tasks, NEW p \in Players,
         \/ \E m \in MinBids \cup {Unset} : StartBid(t, p, m)
         \/ \E ch \in Channels \cup {None}, cost \in Costs \cup {0} :
              RollAuction(t, p, ch, cost)
  PROVE  /\ TaskTypes' /\ UNCHANGED <<config, rows, attendance, voice, auctions>>
         /\ task'[t].pc = "item" /\ \A s \in Tasks \ {t} : task'[s] = task[s]
<1>1. ASSUME NEW k \in TaskRecord, Start(t, k)
      PROVE  /\ TaskTypes' /\ UNCHANGED <<config, rows, attendance, voice, auctions>>
             /\ task'[t].pc = "item" /\ \A s \in Tasks \ {t} : task'[s] = task[s]
  <2> DEFINE n == [k EXCEPT !.pc = "item"]
  <2>1. n \in TaskRecord /\ n.pc = "item"
    BY DEF TaskRecord
  <2>2. TaskSound(n)
    BY <2>1 DEF TaskSound
  <2>3. task' = [task EXCEPT ![t] = n]
    BY <1>1 DEF Start
  <2> HIDE DEF n
  <2> QED
    BY <1>1, <2>1, <2>2, <2>3, TaskSet DEF Start, TaskTypes, worldVars
<1>2. ASSUME NEW m \in MinBids \cup {Unset}, StartBid(t, p, m)
      PROVE  \E k \in TaskRecord : Start(t, k)
  <2>1. m \in Nat \cup {Unset}
    BY NumbersAssumption
  <2> HIDE DEF Idle
  <2>2. [Idle EXCEPT !.p = p, !.minBid = m] \in TaskRecord
    BY <2>1, IdleTyped DEF TaskRecord
  <2> QED
    BY <1>2, <2>2 DEF StartBid
<1>3. ASSUME NEW ch \in Channels \cup {None}, NEW cost \in Costs \cup {0},
             RollAuction(t, p, ch, cost)
      PROVE  \E k \in TaskRecord : Start(t, k)
  <2>1. cost \in Nat
    BY NumbersAssumption
  <2>2. [Idle EXCEPT !.p = p, !.roll = TRUE, !.channel = ch, !.cost = cost] \in TaskRecord
    BY <2>1, IdleTyped DEF TaskRecord
  <2> QED
    BY <1>3, <2>2 DEF RollAuction
<1> QED
  BY <1>1, <1>2, <1>3

\* The terms are read.
LEMMA ReadKeeps ==
  ASSUME ConfigInv, TaskTypes, NEW t \in Tasks, ReadTerms(t)
  PROVE  /\ TaskTypes' /\ UNCHANGED <<config, rows, attendance, voice, auctions>>
         /\ task'[t].pc \in {"idle", "open"} /\ \A s \in Tasks \ {t} : task'[s] = task[s]
<1>0. UNCHANGED <<config, rows, attendance, voice, auctions>> /\ task[t] \in TaskRecord
  BY DEF ReadTerms, worldVars, TaskTypes
<1>1. CASE ~ config.auction
  <2>1. Ends(t)
    BY <1>1 DEF ReadTerms
  <2> QED
    BY <1>0, <2>1, TaskEnds, IdleTyped DEF Ends, TaskTypes
<1>2. CASE config.auction
  <2> DEFINE m == IF task[t].roll THEN 0
                  ELSE IF task[t].minBid = Unset THEN config.minBid ELSE task[t].minBid
             R == IF task[t].channel = None THEN Players
                  ELSE {q \in Players : voice[q] = task[t].channel}
             n == [task[t] EXCEPT !.pc = "open", !.minBid = m, !.rollers = R]
  <2>1. task' = [task EXCEPT ![t] = n]
    BY <1>2 DEF ReadTerms
  <2>2. m \in Nat /\ R \in SUBSET Players
    BY <1>0 DEF ConfigInv, Config, TaskRecord
  <2> HIDE DEF m, R
  <2>3. n \in TaskRecord /\ n.pc = "open" /\ n.minBid = m
    BY <1>0, <2>2 DEF TaskRecord
  <2> HIDE DEF n
  <2>4. TaskSound(n)
    BY <2>2, <2>3 DEF TaskSound
  <2> QED
    BY <1>0, <2>1, <2>3, <2>4, TaskSet DEF TaskTypes
<1> QED
  BY <1>1, <1>2

\* An auction is put up, and has no bids yet.
LEMMA OpenKeeps ==
  ASSUME TaskTypes, auctions \in [AuctionIds -> AuctionRecord],
         NEW t \in Tasks, NEW a \in AuctionIds, OpenAuction(t, a)
  PROVE  /\ auctions' \in [AuctionIds -> AuctionRecord]
         /\ \A b \in AuctionIds :
              auctions'[b].bids = auctions[b].bids \/ DOMAIN auctions'[b].bids = {}
<1> DEFINE k == task[t]
           n == [Unopened EXCEPT !.status = "open", !.roll = k.roll, !.minBid = k.minBid,
                   !.cost = k.cost, !.channel = k.channel, !.rollers = k.rollers]
<1>1. k \in TaskRecord /\ k.minBid \in Nat
  BY DEF TaskTypes, TaskSound, OpenAuction, At
<1>2. auctions' = auctions \/ auctions' = [auctions EXCEPT ![a] = n]
  BY DEF OpenAuction
<1> HIDE DEF k
<1>3. n \in AuctionRecord /\ n.bids = Unopened.bids
  <2> HIDE DEF Unopened
  <2> QED
    BY <1>1, UnopenedTyped DEF AuctionRecord, TaskRecord
<1> HIDE DEF n
<1> QED
  BY <1>2, <1>3, UnopenedTyped

\* A roll changes no bids.
LEMMA RollKeeps ==
  ASSUME auctions \in [AuctionIds -> AuctionRecord],
         NEW p \in Players, NEW a \in AuctionIds, Roll(p, a)
  PROVE  /\ auctions' \in [AuctionIds -> AuctionRecord]
         /\ \A b \in AuctionIds : auctions'[b].bids = auctions[b].bids
<1> DEFINE n == [auctions[a] EXCEPT !.rolls = auctions[a].rolls \cup {p}]
<1>1. auctions[a] \in AuctionRecord
  OBVIOUS
<1>2. auctions' = [auctions EXCEPT ![a] = n]
  BY DEF Roll
<1>3. n \in AuctionRecord /\ n.bids = auctions[a].bids
  BY <1>1 DEF AuctionRecord
<1> HIDE DEF n
<1> QED
  BY <1>2, <1>3

-----------------------------------------------------------------------------
(* Buttons, lists and dialogs *)

\* Who may be offered is whom the ledger takes.
LEMMA CandidatesTaken ==
  ASSUME NEW p \in Players, NEW main \in BOOLEAN, NEW fits, NEW c \in Candidates(p, main, fits)
  PROVE  MayBidWith(p, main, c) /\ c \in Characters /\ c # None
<1>1. c \in Characters /\ c \in BidCharacters(p, main)
  BY DEF Candidates, BidCharacters
<1>2. MinLevel(main) = 0 \/ rows[p][c].level >= MinLevel(main)
  BY DEF Candidates
<1>3. c # None
  BY <1>1, PlayersAssumption
<1>4. MinLevel(main) > 0 => rows[p][c].level >= MinLevel(main)
  BY <1>2
<1> QED
  BY <1>1, <1>3, <1>4 DEF MayBidWith

\* What OfferedMeansTaken asks of a task that just opened its dialog.
Taken(k) ==
  IF k.char = None THEN ~ config.characterBids
  ELSE LandsMain(k.p, k.main) = k.main => MayBidWith(k.p, k.main, k.char)

\* A button.
LEMMA PressKeeps ==
  ASSUME BidInv, NEW t \in Tasks, NEW p \in Players, NEW a \in AuctionIds,
         NEW main \in BOOLEAN, Press(t, p, a, main)
  PROVE  /\ TaskTypes' /\ UNCHANGED <<config, rows, attendance, voice, auctions>>
         /\ task'[t].pc = "dialog" => Taken(task'[t])
         /\ \A s \in Tasks \ {t} : task'[s] = task[s]
<1> DEFINE asked == [Idle EXCEPT !.p = p, !.a = a, !.main = main]
<1>0. TaskTypes /\ UNCHANGED <<config, rows, attendance, voice, auctions>>
  BY DEF BidInv, Press, worldVars
<1>1. /\ asked \in TaskRecord /\ asked.p = p /\ asked.a = a /\ asked.main = main
      /\ asked.char = None
  <2>1. Idle.char = None
    BY DEF Idle
  <2> HIDE DEF Idle
  <2> QED
    BY <2>1, IdleTyped DEF TaskRecord
<1>2. PICK fits \in Fits :
        task' = [task EXCEPT ![t] =
          IF ~ config.characterBids THEN [asked EXCEPT !.pc = "dialog"]
          ELSE IF Candidates(p, main, fits) = {} THEN Idle
          ELSE IF Cardinality(Candidates(p, main, fits)) = 1
          THEN [asked EXCEPT !.pc = "dialog",
                             !.char = CHOOSE c \in Candidates(p, main, fits) : TRUE]
          ELSE [asked EXCEPT !.pc = "list"]]
  BY DEF Press
<1> HIDE DEF asked
<1>3. ASSUME NEW k \in TaskRecord, TaskSound(k), task' = [task EXCEPT ![t] = k],
             k.pc = "dialog" => Taken(k)
      PROVE  /\ TaskTypes'
             /\ task'[t].pc = "dialog" => Taken(task'[t])
             /\ \A s \in Tasks \ {t} : task'[s] = task[s]
  <2>1. task'[t] = k /\ \A s \in Tasks \ {t} : task'[s] = task[s]
    BY <1>0, <1>3 DEF TaskTypes
  <2> QED
    BY <1>0, <1>3, <2>1, TaskSet
<1>4. CASE ~ config.characterBids
  <2> DEFINE k == [asked EXCEPT !.pc = "dialog"]
  <2>1. k \in TaskRecord /\ k.a = a /\ k.pc = "dialog" /\ k.char = None
    BY <1>1 DEF TaskRecord
  <2>2. task' = [task EXCEPT ![t] = k]
    BY <1>2, <1>4
  <2> HIDE DEF k
  <2>3. TaskSound(k) /\ Taken(k)
    BY <1>4, <2>1 DEF TaskSound, Taken
  <2> QED
    BY <1>0, <1>3, <2>1, <2>2, <2>3
<1>5. CASE config.characterBids /\ Candidates(p, main, fits) = {}
  <2>1. task' = [task EXCEPT ![t] = Idle]
    BY <1>2, <1>5
  <2> QED
    BY <1>0, <1>3, <2>1, IdleTyped
<1>6. CASE /\ config.characterBids /\ Candidates(p, main, fits) # {}
           /\ Cardinality(Candidates(p, main, fits)) = 1
  <2> DEFINE c == CHOOSE c \in Candidates(p, main, fits) : TRUE
             k == [asked EXCEPT !.pc = "dialog", !.char = c]
  <2>1. c \in Candidates(p, main, fits)
    BY <1>6
  <2>2. task' = [task EXCEPT ![t] = k]
    BY <1>2, <1>6
  <2> HIDE DEF c
  <2>3. MayBidWith(p, main, c) /\ c \in Characters /\ c # None
    BY <2>1, CandidatesTaken
  <2>4. /\ k \in TaskRecord /\ k.a = a /\ k.pc = "dialog" /\ k.char = c /\ k.p = p
        /\ k.main = main
    BY <1>1, <2>3 DEF TaskRecord
  <2> HIDE DEF k
  <2>5. TaskSound(k) /\ Taken(k)
    BY <2>3, <2>4 DEF TaskSound, Taken
  <2> QED
    BY <1>0, <1>3, <2>2, <2>4, <2>5
<1>7. CASE /\ config.characterBids /\ Candidates(p, main, fits) # {}
           /\ Cardinality(Candidates(p, main, fits)) # 1
  <2> DEFINE k == [asked EXCEPT !.pc = "list"]
  <2>1. k \in TaskRecord /\ k.a = a /\ k.pc = "list"
    BY <1>1 DEF TaskRecord
  <2>2. task' = [task EXCEPT ![t] = k]
    BY <1>2, <1>7
  <2> HIDE DEF k
  <2>3. TaskSound(k)
    BY <2>1 DEF TaskSound
  <2> QED
    BY <1>0, <1>3, <2>1, <2>2, <2>3
<1> QED
  BY <1>4, <1>5, <1>6, <1>7

\* A character from the list.
LEMMA ChooseKeeps ==
  ASSUME BidInv, NEW t \in Tasks, NEW c \in Characters, Choose(t, c)
  PROVE  /\ TaskTypes' /\ UNCHANGED <<config, rows, attendance, voice, auctions>>
         /\ task'[t].pc = "dialog" => Taken(task'[t])
         /\ \A s \in Tasks \ {t} : task'[s] = task[s]
<1>0. /\ TaskTypes /\ UNCHANGED <<config, rows, attendance, voice, auctions>>
      /\ task[t] \in TaskRecord /\ TaskSound(task[t]) /\ task[t].pc = "list"
  BY DEF BidInv, Choose, worldVars, TaskTypes, At
<1>1. PICK fits \in Fits :
        IF config.characterBids /\ c \in Candidates(task[t].p, task[t].main, fits)
        THEN Dialog(t, c) ELSE Ends(t)
  BY DEF Choose
<1>2. CASE config.characterBids /\ c \in Candidates(task[t].p, task[t].main, fits)
  <2> DEFINE k == [task[t] EXCEPT !.pc = "dialog", !.char = c]
  <2>1. task' = [task EXCEPT ![t] = k]
    BY <1>1, <1>2 DEF Dialog
  <2>2. /\ k \in TaskRecord /\ k.a = task[t].a /\ k.pc = "dialog" /\ k.char = c
        /\ k.p = task[t].p /\ k.main = task[t].main
    BY <1>0 DEF TaskRecord
  <2>3. task[t].p \in Players /\ task[t].main \in BOOLEAN /\ task[t].a \in AuctionIds
    BY <1>0 DEF TaskRecord, TaskSound
  <2>4. MayBidWith(task[t].p, task[t].main, c) /\ c # None
    BY <1>2, <2>3, CandidatesTaken
  <2> HIDE DEF k
  <2>5. TaskSound(k) /\ Taken(k)
    BY <2>2, <2>3, <2>4 DEF TaskSound, Taken
  <2>6. task'[t] = k /\ \A s \in Tasks \ {t} : task'[s] = task[s]
    BY <1>0, <2>1 DEF TaskTypes
  <2> QED
    BY <1>0, <2>1, <2>2, <2>5, <2>6, TaskSet
<1>3. CASE Ends(t)
  <2>1. task'[t] = Idle /\ \A s \in Tasks \ {t} : task'[s] = task[s]
    BY <1>0, <1>3 DEF Ends, TaskTypes
  <2> QED
    BY <1>0, <1>3, <2>1, TaskEnds, IdleTyped
<1> QED
  BY <1>1, <1>2, <1>3

\* What NoStaleBid asks of the bid p has on auction a after a step.
Current(a, p) ==
  LET b == auctions'[a].bids[p] IN
  /\ b.amount >= auctions[a].minBid /\ auctions[a].status = "open"
  /\ b.main => attendance[p] >= config.mainLine
  /\ b.char # None =>
       /\ rows[p][b.char] # NoRow
       /\ b.main => rows[p][b.char].ranked
       /\ rows[p][b.char].level >= MinLevel(b.main)

\* The dialog is submitted: whatever bid comes to stand is a current one.
LEMMA SubmitKeeps ==
  ASSUME BidInv, NEW t \in Tasks, NEW amount \in Amounts, Submit(t, amount)
  PROVE  /\ TaskTypes' /\ UNCHANGED <<config, rows, attendance, voice>>
         /\ auctions' \in [AuctionIds -> AuctionRecord]
         /\ \A a \in AuctionIds : \A p \in DOMAIN auctions'[a].bids :
              \/ p \in DOMAIN auctions[a].bids /\ auctions'[a].bids[p] = auctions[a].bids[p]
              \/ Current(a, p)
         /\ task'[t] = Idle /\ \A s \in Tasks \ {t} : task'[s] = task[s]
<1> DEFINE a == task[t].a
           p == task[t].p
           main == task[t].main
           char == task[t].char
<1>0. /\ TaskTypes /\ UNCHANGED <<config, rows, attendance, voice>>
      /\ auctions \in [AuctionIds -> AuctionRecord] /\ Ends(t)
      /\ task'[t] = Idle /\ \A s \in Tasks \ {t} : task'[s] = task[s]
  BY DEF BidInv, Submit, worldVars, TaskTypes, Ends
<1>1. /\ a \in AuctionIds /\ p \in Players /\ main \in BOOLEAN
      /\ char \in Characters \cup {None} /\ auctions[a] \in AuctionRecord
  BY <1>0 DEF TaskTypes, TaskSound, TaskRecord, Submit, At
<1>2. \/ auctions' = auctions
      \/ auctions' = WithoutBid(a, p)
      \/ /\ MayBid(p, a, amount, main, char)
         /\ auctions' = WithBid(a, p, [amount |-> amount, main |-> LandsMain(p, main),
                                       char |-> char])
  BY DEF Submit
<1> HIDE DEF a, p, main, char
<1>3. PICK D \in SUBSET Players : auctions[a].bids \in [D -> Bid]
  BY <1>1 DEF AuctionRecord, Bids
<1>4. CASE auctions' = auctions
  BY <1>0, <1>4, TaskEnds
<1>5. CASE auctions' = WithoutBid(a, p)
  <2> DEFINE B == [q \in DOMAIN auctions[a].bids \ {p} |-> auctions[a].bids[q]]
             n == [auctions[a] EXCEPT !.bids = B]
  <2>1. auctions' = [auctions EXCEPT ![a] = n]
    BY <1>5 DEF WithoutBid
  <2>2. B \in [D \ {p} -> Bid] /\ \A q \in DOMAIN B : q \in DOMAIN auctions[a].bids
          /\ B[q] = auctions[a].bids[q]
    BY <1>3
  <2> HIDE DEF B
  <2>3. B \in Bids
    BY <2>2 DEF Bids
  <2>4. n \in AuctionRecord /\ n.bids = B
    BY <1>1, <2>3 DEF AuctionRecord
  <2> HIDE DEF n
  <2> QED
    BY <1>0, <1>1, <2>1, <2>2, <2>4, TaskEnds
<1>6. CASE /\ MayBid(p, a, amount, main, char)
           /\ auctions' = WithBid(a, p, [amount |-> amount, main |-> LandsMain(p, main),
                                         char |-> char])
  <2> DEFINE side == LandsMain(p, main)
             b == [amount |-> amount, main |-> side, char |-> char]
             B == [q \in DOMAIN auctions[a].bids \cup {p} |->
                     IF q = p THEN b ELSE auctions[a].bids[q]]
             n == [auctions[a] EXCEPT !.bids = B]
  <2>1. auctions' = [auctions EXCEPT ![a] = n]
    BY <1>6 DEF WithBid
  <2>2. side \in BOOLEAN
    BY DEF LandsMain
  <2>3. amount \in Int
    BY NumbersAssumption
  <2>4. /\ auctions[a].status = "open" /\ amount >= auctions[a].minBid
        /\ char # None => MayBidWith(p, side, char)
    BY <1>6 DEF MayBid
  <2>5. side => attendance[p] >= config.mainLine
    <3>1. attendance[p] \in 0 .. 100
      BY <1>1, NumbersAssumption DEF BidInv, WorldTypes
    <3>2. config.mainLine \in 0 .. 100
      BY DEF BidInv, ConfigInv, Config
    <3>3. side => ~ (config.mainLine > 0 /\ attendance[p] < config.mainLine)
      BY DEF LandsMain
    <3> QED
      BY <3>1, <3>2, <3>3
  <2> HIDE DEF side
  <2>6. b \in Bid /\ b.amount = amount /\ b.main = side /\ b.char = char
    BY <1>1, <2>2, <2>3 DEF Bid
  <2> HIDE DEF b
  <2>7. /\ B \in [D \cup {p} -> Bid] /\ B[p] = b
        /\ \A q \in DOMAIN B \ {p} : q \in DOMAIN auctions[a].bids
                                     /\ B[q] = auctions[a].bids[q]
    BY <1>1, <1>3, <2>6
  <2> HIDE DEF B
  <2>8. B \in Bids
    BY <1>1, <2>7 DEF Bids
  <2>9. n \in AuctionRecord /\ n.bids = B
    BY <1>1, <2>8 DEF AuctionRecord
  <2> HIDE DEF n
  <2>10. /\ auctions' \in [AuctionIds -> AuctionRecord] /\ auctions'[a].bids = B
         /\ \A c \in AuctionIds \ {a} : auctions'[c] = auctions[c]
    BY <1>0, <1>1, <2>1, <2>9
  <2>11. ASSUME char # None
         PROVE  /\ rows[p][char] # NoRow
                /\ side => rows[p][char].ranked
                /\ rows[p][char].level >= MinLevel(side)
    <3>1. char \in BidCharacters(p, side) /\ char \in Characters
      BY <1>1, <2>4, <2>11 DEF MayBidWith
    <3>2. MinLevel(side) > 0 => rows[p][char].level >= MinLevel(side)
      BY <2>4, <2>11 DEF MayBidWith
    <3>3. MinLevel(side) \in 0 .. 65
      BY DEF MinLevel, BidInv, ConfigInv, Config
    <3>4. rows[p][char].level \in Nat
      <4>1. rows[p][char] \in Row
        BY <1>1, <3>1 DEF BidInv, WorldTypes
      <4>2. rows[p][char].level \in Levels \cup {0}
        BY <4>1 DEF Row
      <4>3. \A l \in Levels \cup {0} : l \in Nat
        BY NumbersAssumption
      <4> QED
        BY <4>2, <4>3
    <3>5. rows[p][char].level >= MinLevel(side)
      BY <3>2, <3>3, <3>4
    <3> QED
      BY <3>1, <3>5 DEF BidCharacters
  <2>12. Current(a, p)
    BY <2>4, <2>5, <2>6, <2>7, <2>10, <2>11 DEF Current
  <2>13. ASSUME NEW c \in AuctionIds, NEW q \in DOMAIN auctions'[c].bids
         PROVE  \/ q \in DOMAIN auctions[c].bids /\ auctions'[c].bids[q] = auctions[c].bids[q]
                \/ Current(c, q)
    BY <2>7, <2>10, <2>12
  <2> QED
    BY <1>0, <2>10, <2>13, TaskEnds
<1> QED
  BY <1>2, <1>4, <1>5, <1>6

-----------------------------------------------------------------------------
(* What follows *)

\* A guild starts with a configuration and rows somebody set up, and with
\* nothing put up.
LEMMA DeskStarts == Init => BidInv
<1> SUFFICES ASSUME Init PROVE BidInv
  OBVIOUS
<1>1. PICK s \in Starts : config = s.config /\ rows = s.rows
  BY DEF Init
<1>2. ConfigInv /\ WorldTypes
  BY <1>1, StartsAssumption DEF Init, ConfigInv, CountedOnce, WorldTypes
<1>3. TaskTypes
  BY IdleTyped DEF Init, TaskTypes
<1>4. auctions \in [AuctionIds -> AuctionRecord]
  BY UnopenedTyped DEF Init
<1> QED
  BY <1>2, <1>3, <1>4 DEF BidInv

\* Who opened a dialog in this step was offered what the ledger takes, and
\* every bid that changed is one the ledger takes now.
Opened == \A t \in Tasks :
  task'[t].pc = "dialog" /\ task[t].pc # "dialog" => Taken(task'[t])

Stands == \A a \in AuctionIds : \A p \in DOMAIN auctions'[a].bids :
  \/ p \in DOMAIN auctions[a].bids /\ auctions'[a].bids[p] = auctions[a].bids[p]
  \/ Current(a, p)

\* Every step of the desk keeps the invariant, offers what is taken and lets
\* no stale bid stand.
LEMMA DeskSteps ==
  ASSUME BidInv, Next PROVE BidInv' /\ Opened /\ Stands
<1>0. /\ ConfigInv /\ WorldTypes /\ TaskTypes
      /\ auctions \in [AuctionIds -> AuctionRecord]
  BY DEF BidInv
<1>1. config' = config => ConfigInv'
  BY <1>0 DEF ConfigInv, CountedOnce
<1>2. UNCHANGED <<rows, attendance>> => WorldTypes'
  BY <1>0 DEF WorldTypes
<1>3. task' = task => TaskTypes' /\ Opened
  BY <1>0 DEF TaskTypes, Opened
<1>4. auctions' = auctions => auctions' \in [AuctionIds -> AuctionRecord] /\ Stands
  BY <1>0 DEF Stands
<1>5. ASSUME \A b \in AuctionIds :
               auctions'[b].bids = auctions[b].bids \/ DOMAIN auctions'[b].bids = {}
      PROVE  Stands
  BY <1>5 DEF Stands
<1>6. ASSUME NEW t \in Tasks, \A s \in Tasks \ {t} : task'[s] = task[s],
             task'[t].pc = "dialog" => Taken(task'[t])
      PROVE  Opened
  BY <1>6 DEF Opened
<1>7. ASSUME NEW p \in Players, Officers(p) PROVE BidInv' /\ Opened /\ Stands
  <2>1. CASE \/ \E role \in DOMAIN RoleHolders, raid \in Channels, k \in Knobs :
                  \/ Configure(p, role, raid, k)
                  \/ \E list \in Lists :
                       Configure(p, role, raid, Over(k, [extras |-> list]))
             \/ \E on \in BOOLEAN : Feature(p, on)
    <3>1. ConfigInv' /\ UNCHANGED <<rows, attendance, voice, auctions, task>>
      BY <1>0, <2>1, CommandsPatch
    <3> QED
      BY <1>2, <1>3, <1>4, <3>1 DEF BidInv
  <2>2. ASSUME NEW t \in Tasks,
               \/ \E m \in MinBids \cup {Unset} : StartBid(t, p, m)
               \/ \E ch \in Channels \cup {None}, cost \in Costs \cup {0} :
                    RollAuction(t, p, ch, cost)
        PROVE  BidInv' /\ Opened /\ Stands
    <3>1. /\ TaskTypes' /\ UNCHANGED <<config, rows, attendance, voice, auctions>>
          /\ task'[t].pc = "item" /\ \A s \in Tasks \ {t} : task'[s] = task[s]
      BY <1>0, <2>2, StartKeeps
    <3> QED
      BY <1>1, <1>2, <1>4, <1>6, <3>1 DEF BidInv
  <2>3. ASSUME NEW a \in AuctionIds, CancelAuction(p, a) \/ EndAuction(p, a) \/ CancelClick(p, a)
        PROVE  BidInv' /\ Opened /\ Stands
    <3>1. Stops(a)
      BY <2>3 DEF CancelAuction, EndAuction, CancelClick
    <3> QED
      BY <1>0, <1>1, <1>2, <1>3, <1>5, <3>1, StopKeeps DEF BidInv
  <2> QED
    BY <1>7, <2>1, <2>2, <2>3 DEF Officers
<1>8. ASSUME NEW p \in Players, Around(p) PROVE BidInv' /\ Opened /\ Stands
  <2>1. WorldTypes' /\ UNCHANGED <<config, auctions, task>>
    BY <1>0, <1>8, WorldMoves
  <2> QED
    BY <1>1, <1>3, <1>4, <2>1 DEF BidInv
<1>9. ASSUME NEW t \in Tasks, Proceeds(t) PROVE BidInv' /\ Opened /\ Stands
  <2>1. CASE PickerTimesOut(t) \/ Dismiss(t)
    <3>1. Ends(t) /\ UNCHANGED <<config, rows, attendance, auctions>>
      BY <2>1 DEF PickerTimesOut, Dismiss, worldVars
    <3>2. task'[t] = Idle /\ \A s \in Tasks \ {t} : task'[s] = task[s]
      BY <1>0, <3>1 DEF Ends, TaskTypes
    <3>3. Opened
      BY <1>6, <3>2, IdleTyped
    <3> QED
      BY <1>0, <1>1, <1>2, <1>4, <3>1, <3>3, TaskEnds DEF BidInv
  <2>2. CASE ReadTerms(t)
    <3>1. /\ TaskTypes' /\ UNCHANGED <<config, rows, attendance, voice, auctions>>
          /\ task'[t].pc \in {"idle", "open"} /\ \A s \in Tasks \ {t} : task'[s] = task[s]
      BY <1>0, <2>2, ReadKeeps
    <3>2. Opened
      BY <1>6, <3>1
    <3> QED
      BY <1>1, <1>2, <1>4, <3>1, <3>2 DEF BidInv
  <2>3. ASSUME NEW a \in AuctionIds, OpenAuction(t, a) PROVE BidInv' /\ Opened /\ Stands
    <3>1. Ends(t) /\ UNCHANGED <<config, rows, attendance>>
      BY <2>3 DEF OpenAuction, worldVars
    <3>2. task'[t] = Idle /\ \A s \in Tasks \ {t} : task'[s] = task[s]
      BY <1>0, <3>1 DEF Ends, TaskTypes
    <3>3. Opened
      BY <1>6, <3>2, IdleTyped
    <3>4. auctions' \in [AuctionIds -> AuctionRecord] /\ Stands
      BY <1>0, <1>5, <2>3, OpenKeeps
    <3> QED
      BY <1>0, <1>1, <1>2, <3>1, <3>3, <3>4, TaskEnds DEF BidInv
  <2>4. ASSUME NEW c \in Characters, Choose(t, c) PROVE BidInv' /\ Opened /\ Stands
    <3>1. /\ TaskTypes' /\ UNCHANGED <<config, rows, attendance, voice, auctions>>
          /\ Opened
      BY <1>6, <2>4, ChooseKeeps
    <3> QED
      BY <1>1, <1>2, <1>4, <3>1 DEF BidInv
  <2>5. ASSUME NEW amount \in Amounts, Submit(t, amount) PROVE BidInv' /\ Opened /\ Stands
    <3>1. /\ TaskTypes' /\ UNCHANGED <<config, rows, attendance, voice>>
          /\ auctions' \in [AuctionIds -> AuctionRecord] /\ Stands
      BY <2>5, SubmitKeeps DEF Stands
    <3>2. Opened
      BY <1>6, <2>5, SubmitKeeps, IdleTyped
    <3> QED
      BY <1>1, <1>2, <3>1, <3>2 DEF BidInv
  <2> QED
    BY <1>9, <2>1, <2>2, <2>3, <2>4, <2>5 DEF Proceeds
<1>10. ASSUME NEW a \in AuctionIds, Stops(a) PROVE BidInv' /\ Opened /\ Stands
  BY <1>0, <1>1, <1>2, <1>3, <1>5, <1>10, StopKeeps DEF BidInv
<1>11. ASSUME NEW p \in Players, NEW a \in AuctionIds, Roll(p, a)
       PROVE  BidInv' /\ Opened /\ Stands
  <2>1. UNCHANGED <<config, rows, attendance, task>>
    BY <1>11 DEF Roll, worldVars
  <2> QED
    BY <1>0, <1>1, <1>2, <1>3, <1>5, <1>11, <2>1, RollKeeps DEF BidInv
<1>12. ASSUME NEW p \in Players, NEW a \in AuctionIds, NEW t \in Tasks, NEW main \in BOOLEAN,
              Press(t, p, a, main)
       PROVE  BidInv' /\ Opened /\ Stands
  <2>1. /\ TaskTypes' /\ UNCHANGED <<config, rows, attendance, voice, auctions>>
        /\ Opened
    BY <1>6, <1>12, PressKeeps
  <2> QED
    BY <1>1, <1>2, <1>4, <2>1 DEF BidInv
<1> QED
  BY <1>7, <1>8, <1>9, <1>10, <1>11, <1>12 DEF Next

LEMMA DeskStays == BidInv /\ [Next]_vars => BidInv'
<1>1. ASSUME BidInv, UNCHANGED vars PROVE BidInv'
  BY <1>1 DEF vars, worldVars, BidInv, ConfigInv, CountedOnce, WorldTypes, TaskTypes
<1> QED
  BY <1>1, DeskSteps

\* No voice channel is counted twice, in whatever order and from whatever
\* configuration the raid channel and the others are patched.
THEOREM ChannelsAlwaysCountedOnce == Spec => []CountedOnce
<1>1. BidInv => CountedOnce
  BY DEF BidInv, ConfigInv
<1> QED
  BY <1>1, DeskStarts, DeskStays, PTL DEF Spec

\* A dialog only opens for what the ledger takes at that moment.
THEOREM OfferedIsTaken == Spec => OfferedMeansTaken
<1> DEFINE Offered == \A t \in Tasks :
       LET k == task'[t] IN
       k.pc = "dialog" /\ task[t].pc # "dialog" =>
         IF k.char = None THEN ~ config.characterBids
         ELSE LandsMain(k.p, k.main) = k.main => MayBidWith(k.p, k.main, k.char)
<1>1. BidInv /\ [Next]_vars => [Offered]_vars
  <2> SUFFICES ASSUME BidInv, Next PROVE Offered
    OBVIOUS
  <2> QED
    BY DeskSteps DEF Opened, Taken
<1>2. Spec => [][Offered]_vars
  <2> HIDE DEF Offered
  <2> QED
    BY <1>1, DeskStarts, DeskStays, PTL DEF Spec
<1> QED
  BY <1>2 DEF OfferedMeansTaken

\* No bid comes to stand that the rules of that moment forbid, however old
\* the button, the list and the dialog are that it came through.
THEOREM BidsNeverStale == Spec => NoStaleBid
<1> DEFINE Fine == \A a \in AuctionIds, p \in Players :
       p \in DOMAIN auctions'[a].bids /\ auctions'[a] # auctions[a]
         /\ (p \in DOMAIN auctions[a].bids => auctions'[a].bids[p] # auctions[a].bids[p]) =>
         LET b == auctions'[a].bids[p] IN
         /\ b.amount >= auctions[a].minBid /\ auctions[a].status = "open"
         /\ b.main => attendance[p] >= config.mainLine
         /\ b.char # None =>
              /\ rows[p][b.char] # NoRow
              /\ b.main => rows[p][b.char].ranked
              /\ rows[p][b.char].level >= MinLevel(b.main)
<1>1. BidInv /\ [Next]_vars => [Fine]_vars
  <2> SUFFICES ASSUME BidInv, Next PROVE Fine
    OBVIOUS
  <2> QED
    BY DeskSteps DEF Stands, Current
<1>2. Spec => [][Fine]_vars
  <2> HIDE DEF Fine
  <2> QED
    BY <1>1, DeskStarts, DeskStays, PTL DEF Spec
<1> QED
  BY <1>2 DEF NoStaleBid
=============================================================================
