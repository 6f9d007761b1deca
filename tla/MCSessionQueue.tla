--------------------------- MODULE MCSessionQueue ---------------------------
(* Two players and two game masters: the players can both wait behind a realm   *)
(* that the game masters fill or overfill, and take turns in.  The limit goes   *)
(* between two places, one, none at all (0) and game masters only (-1).         *)
EXTENDS SessionQueue

CONSTANTS gm1, gm2, p1, p2

Four == {gm1, gm2, p1, p2}
Masters == {gm1, gm2}
SomeLimits == {-1, 0, 1, 2}
=============================================================================
