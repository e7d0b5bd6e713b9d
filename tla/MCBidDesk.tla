------------------------------ MODULE MCBidDesk ------------------------------
(* One member with two characters, one of them fit for the item, who is also *)
(* the officer; two voice channels, and a text channel that is typed too.    *)
EXTENDS BidDesk, TLC

CONSTANTS main, twink

MCRoleHolders == 1 :> Players
MCLists == {<<>>, <<1>>, <<2>>, <<2, 2>>, <<3>>}
MCKnobs == {[f \in {} |-> 0], [mainLevel |-> 60], [mainLine |-> 50, altLine |-> 40],
            [minBid |-> 3, altLine |-> 50]}

Rows(ranked) ==
  [p \in Players |-> (main  :> [level |-> 60, ranked |-> ranked])
                  @@ (twink :> [level |-> 59, ranked |-> FALSE])]

\* A guild nobody configured yet, and one that bids by character.
MCStarts ==
  {[config |-> Default, rows |-> Rows(FALSE)],
   [config |-> [raid |-> 1, role |-> 1, auction |-> TRUE, characterBids |-> TRUE]
               @@ Default, rows |-> Rows(TRUE)]}

TaskSymmetry == Permutations(Tasks)
=============================================================================
