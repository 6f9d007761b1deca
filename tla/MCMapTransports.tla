-------------------------- MODULE MCMapTransports --------------------------
(* Two continents updated by two threads in parallel and two transports that *)
(* may both be on the move; an instance comes and goes between the ticks.    *)
EXTENDS MapTransports

CONSTANTS c1, c2, i1, w1, w2, t1, t2

MCContinents == {c1, c2}
MCMaps == MCContinents \union {i1}
MCWorkers == {w1, w2}
MCTransports == {t1, t2}
=============================================================================
