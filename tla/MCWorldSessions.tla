--------------------------- MODULE MCWorldSessions ---------------------------
(* Connections to one account, each used once.  Two are enough for a session *)
(* to be created, taken over, deleted and created again; with three a second *)
(* take-over meets the first one and is refused.                             *)
EXTENDS WorldSessions, TLC

CONSTANTS k1, k2, k3

TwoSockets == {k1, k2}
ThreeSockets == {k1, k2, k3}

\* Sockets are interchangeable (used by the run that checks safety only).
SocketSymmetry == Permutations(ThreeSockets)
=============================================================================
