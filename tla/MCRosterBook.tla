---------------------------- MODULE MCRosterBook ----------------------------
(* Rosters to begin with: every member has an alt beside a main. *)
EXTENDS RosterBook

MCStarts ==
  {[p \in Players |-> [c \in Characters |->
      [level |-> 1, main |-> IF c = main THEN "main" ELSE "alt"]]] :
     main \in {CHOOSE c \in Characters : TRUE}}
=============================================================================
