----------------------------- MODULE MCSqlDelay -----------------------------
(* The world thread and one other client.  Three operations make a batch of  *)
(* several requests with a later one behind it, and two statements make a    *)
(* transaction that can fail half way, with a direct statement in between.   *)
EXTENDS SqlDelay

CONSTANTS world, other

TwoClients == {world, other}
TwoAndOne == [c \in TwoClients |-> IF c = world THEN 2 ELSE 1]
=============================================================================
