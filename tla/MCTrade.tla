------------------------------ MODULE MCTrade ------------------------------
(* Three players, so that a third one can ask a trader or be asked by one, two  *)
(* items, a traded slot and the one that is not traded, bags that are full with *)
(* one item, and gold that one trade can bring above the cap.                   *)
EXTENDS Trade, TLC

CONSTANTS ann, bob, cid, sword, shield, ward

Trio == {ann, bob, cid}
Goods == {sword, shield}
Wards == {ward}
Alike == Permutations(Trio) \union Permutations(Goods)
=============================================================================
