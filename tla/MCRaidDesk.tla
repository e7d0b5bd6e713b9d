----------------------------- MODULE MCRaidDesk -----------------------------
(* The kills of two nights, and who saw them. *)
EXTENDS RaidDesk

\* An officer takes two ticks worth of DKP away.
Minus2   == {-2}
MCDeltas == {-2, EventDkp}

\* One boss that only damage shows, in the first night, and one whose death
\* the meters reported, later.
MCKills  == {[boss |-> 1, at |-> 0], [boss |-> 2, at |-> 1]}
MCSeenBy == [k \in MCKills |-> IF k.boss = 1 THEN {"damage"} ELSE {"death"}]

\* One raid was imported, or none.
MCImports == {{}, {CHOOSE r \in RaidIds : TRUE}}
=============================================================================
