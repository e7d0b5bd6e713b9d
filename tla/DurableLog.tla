----------------------------- MODULE DurableLog -----------------------------
(***************************************************************************)
(* What a store of events promises its one writer: a log that grows at the *)
(* end, of which a part is stable.  A crash may shorten the log, never the *)
(* stable part.                                                            *)
(***************************************************************************)
EXTENDS Integers, Sequences

CONSTANT Items

VARIABLES log, stable

vars == <<log, stable>>

TypeOK == log \in Seq(Items) /\ stable \in 0 .. Len(log)

Init == log = <<>> /\ stable = 0

\* One more item at the end.
Append1(old, new) ==
  /\ Len(new) = Len(old) + 1 /\ new[Len(new)] \in Items
  /\ SubSeq(new, 1, Len(old)) = old
  /\ UNCHANGED stable

\* Everything appended so far is acknowledged.
Promise(old, new) == new = old /\ stable' = Len(new)

\* A crash takes back some of what was not.
Lose(old, new) ==
  /\ Len(new) \in stable .. Len(old) /\ new = SubSeq(old, 1, Len(new))
  /\ UNCHANGED stable

Next ==
  LET old == log
      new == log'
  IN  Append1(old, new) \/ Promise(old, new) \/ Lose(old, new)

Spec == Init /\ [][Next]_vars
=============================================================================
