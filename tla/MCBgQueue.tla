----------------------------- MODULE MCBgQueue -----------------------------
(* One player of each side, enough to start a battleground that takes two  *)
(* of each.  The first may join twice; the other may log out and travel.   *)
EXTENDS BgQueue
CONSTANTS a1, h1
MCAlliance == {a1}
MCHorde == {h1}
MCTravellers == {h1}
MCLeavers == {h1}
MCMaxJoins == [p \in {a1, h1} |-> IF p = a1 THEN 2 ELSE 1]
=============================================================================
