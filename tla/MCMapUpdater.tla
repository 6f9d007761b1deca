---------------------------- MODULE MCMapUpdater ----------------------------
(* Two workers, one continent and two instances: maps outnumber workers, so *)
(* requests queue up, and instances come and go between ticks.              *)
EXTENDS MapUpdater

CONSTANTS c1, i1, i2, w1, w2

MCMaps == {c1, i1, i2}
MCContinents == {c1}
MCWorkers == {w1, w2}
=============================================================================
