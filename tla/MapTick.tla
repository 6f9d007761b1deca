------------------------------ MODULE MapTick ------------------------------
(***************************************************************************)
(* What MapManager::Update promises to the rest of the world loop: in one  *)
(* tick every map that exists is updated exactly once, updates of          *)
(* different maps may overlap, and the code after the barrier (unloading,  *)
(* creating and deleting maps) never runs while a map is being updated.    *)
(***************************************************************************)
CONSTANTS Maps,        \* every map id the server can load
          Continents   \* the maps that are never unloaded

VARIABLES live,        \* the maps that exist
          phase,       \* "idle" between ticks, "tick" inside one, "down" after UnloadAll
          todo,        \* the maps this tick still has to update
          running      \* the maps whose update is in progress

tickVars == <<live, phase, todo, running>>

TickInit == /\ live = Continents
            /\ phase = "idle"
            /\ todo = {}
            /\ running = {}

StartTick == /\ phase = "idle"
             /\ phase' = "tick"
             /\ todo' = live
             /\ UNCHANGED <<live, running>>

BeginUpdate == \E m \in todo : /\ todo' = todo \ {m}
                               /\ running' = running \union {m}
                               /\ UNCHANGED <<live, phase>>

EndUpdate == \E m \in running : /\ running' = running \ {m}
                                /\ UNCHANGED <<live, phase, todo>>

\* The barrier: the tick ends, and maps are dropped, only when nothing runs.
EndTick == /\ phase = "tick"
           /\ todo = {} /\ running = {}
           /\ phase' = "idle"
           /\ live' \in SUBSET live
           /\ Continents \subseteq live'
           /\ UNCHANGED <<todo, running>>

ChangeMaps == /\ phase = "idle"
              /\ live' \in SUBSET Maps
              /\ Continents \subseteq live'
              /\ UNCHANGED <<phase, todo, running>>

UnloadAll == /\ phase = "idle"
             /\ phase' = "down"
             /\ live' = {}
             /\ UNCHANGED <<todo, running>>

TickNext == StartTick \/ BeginUpdate \/ EndUpdate \/ EndTick \/ ChangeMaps \/ UnloadAll

TickSpec == TickInit /\ [][TickNext]_tickVars
=============================================================================
