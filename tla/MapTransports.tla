--------------------------- MODULE MapTransports ---------------------------
(***************************************************************************)
(* Ships and zeppelins inside the parallel map update.  A transport lives  *)
(* in Map::m_transports of one map and is updated by the thread that       *)
(* updates the map; when its path leaves the map, Transport::Update takes  *)
(* it out and posts it to the Messager of the new map, whose own thread    *)
(* puts it in.  Composes with MapUpdater: each of its actions is repeated  *)
(* here with what it does to the transports.                               *)
(***************************************************************************)
EXTENDS MapUpdater, SequencesExt

CONSTANTS Transports

ASSUME TransportsAssumption == IsFiniteSet(Transports) /\ Continents # {}

VARIABLES aboard,    \* Map::m_transports of each map
          messages,  \* Map::m_messager of each map: the transports posted to it
          todo,      \* the transports each worker's loop in Map::Update has still to update
          advanced   \* the transports whose m_pathProgress equals the current tick's time

tvars == <<aboard, messages, todo, advanced>>
allVars == <<vars, tvars>>

TransportTypeOK == /\ TypeOK
                   /\ aboard \in [Maps -> SUBSET Transports]
                   /\ messages \in [Maps -> Seq(Transports)]
                   /\ todo \in [Workers -> SUBSET Transports]
                   /\ advanced \in SUBSET Transports
                   \* the loop over m_transports never reaches one that has left the map
                   /\ \A w \in Workers :
                        todo[w] \subseteq IF req[w] = NoMap THEN {} ELSE aboard[req[w]]

\* Map::LoadTransports puts each transport on the map its path starts on.
TransportInit == /\ Init
                 /\ \E start \in [Transports -> Continents] :
                      aboard = [m \in Maps |-> {t \in Transports : start[t] = m}]
                 /\ messages = [m \in Maps |-> <<>>]
                 /\ todo = [w \in Workers |-> {}]
                 /\ advanced = {}

-----------------------------------------------------------------------------
\* A tick has a later time than every transport's progress so far.
TStartUpdate == /\ StartUpdate
                /\ advanced' = {}
                /\ UNCHANGED <<aboard, messages, todo>>

\* Fault: the messages of the map are not run.
TExecute_deaf(w) ==
    /\ Execute(w)
    /\ todo' = [todo EXCEPT ![w] = aboard[req[w]]]
    /\ UNCHANGED <<aboard, messages, advanced>>

\* Map::Update runs the messages posted so far (Messager::Execute swaps them out
\* under its lock), then begins its loop over m_transports.
TExecute(w) ==
    /\ Execute(w)
    /\ LET m == req[w] IN
         /\ aboard' = [aboard EXCEPT ![m] = @ \union ToSet(messages[m])]
         /\ messages' = [messages EXCEPT ![m] = <<>>]
         /\ todo' = [todo EXCEPT ![w] = aboard'[m]]
    /\ UNCHANGED advanced

\* Fault: the transport is not taken out of its old map.
Teleport_copied(t, from, to) ==
    /\ messages' = [messages EXCEPT ![to] = Append(@, t)]
    /\ UNCHANGED aboard

\* Fault: the old map's thread puts the transport into the new map itself.
Teleport_direct(t, from, to) ==
    /\ aboard' = [aboard EXCEPT ![from] = @ \ {t}, ![to] = @ \union {t}]
    /\ UNCHANGED messages

\* Transport::TeleportTransport to another map.
TeleportTransport(t, from, to) ==
    /\ aboard' = [aboard EXCEPT ![from] = @ \ {t}]
    /\ messages' = [messages EXCEPT ![to] = Append(@, t)]

\* Fault: the loop's iterator is advanced after the transport may have left the map.
Update_iterator_late(w, t) ==
    /\ pc[w] = "update"
    /\ t \in todo[w]
    /\ t \notin advanced
    /\ advanced' = advanced \union {t}
    /\ \E to \in Continents \ {req[w]} : TeleportTransport(t, req[w], to)
    /\ UNCHANGED <<todo, vars>>

\* Fault: no test for having run already in this tick.
Update_again(w, t) ==
    /\ pc[w] = "update"
    /\ t \in todo[w]
    /\ todo' = [todo EXCEPT ![w] = @ \ {t}]
    /\ advanced' = advanced \union {t}
    /\ \/ UNCHANGED <<aboard, messages>>
       \/ \E to \in Continents \ {req[w]} : TeleportTransport(t, req[w], to)
    /\ UNCHANGED vars

\* Transport::Update returns at once if it already ran in this tick, on another map.
\* Otherwise it moves along its path, staying on the map or leaving it, or stays
\* where it is (a pending stop keeps m_pathProgress).
UpdateTransport(w, t) ==
    /\ pc[w] = "update"
    /\ t \in todo[w]
    /\ todo' = [todo EXCEPT ![w] = @ \ {t}]
    /\ \/ UNCHANGED <<aboard, messages, advanced>>
       \/ /\ t \notin advanced
          /\ advanced' = advanced \union {t}
          /\ \/ UNCHANGED <<aboard, messages>>
             \/ \E to \in Continents \ {req[w]} : TeleportTransport(t, req[w], to)
    /\ UNCHANGED vars

Tupdate_finished(w) == /\ todo[w] = {}
                       /\ update_finished(w)
                       /\ UNCHANGED tvars

\* ~Map deletes the transports on the map; a posted message is dropped with it.
TUnloadAll == /\ UnloadAll
              /\ aboard' = [m \in Maps |-> {}]
              /\ messages' = [m \in Maps |-> <<>>]
              /\ UNCHANGED <<todo, advanced>>

-----------------------------------------------------------------------------
TWorldStep == WorldStep /\ UNCHANGED tvars

TWorldChoice == \/ \E m \in Maps : (CreateMap(m) \/ DeleteInstance(m)) /\ UNCHANGED tvars
                \/ TUnloadAll

TWorkerStep(w) == \/ (WaitAndPop(w) \/ CheckToken(w)) /\ UNCHANGED tvars
                  \/ TExecute(w)
                  \/ \E t \in Transports : UpdateTransport(w, t)
                  \/ Tupdate_finished(w)

TNext == \/ TStartUpdate \/ TWorldStep \/ TWorldChoice
         \/ (SpuriousWake \/ Stopped) /\ UNCHANGED tvars
         \/ \E w \in Workers : TWorkerStep(w)

\* The world loop keeps calling MapManager::Update until it shuts down.
TFairness == /\ WF_allVars(TStartUpdate) /\ WF_allVars(TWorldStep)
             /\ \A w \in Workers : WF_allVars(TWorkerStep(w))

TSpec == TransportInit /\ [][TNext]_allVars /\ TFairness

-----------------------------------------------------------------------------
(* Properties.                                                             *)

Places(t) == {<<"aboard", m, 0>> : m \in {n \in Maps : t \in aboard[n]}}
             \union UNION {{<<"posted", m, i>> : i \in {j \in DOMAIN messages[m] : messages[m][j] = t}}
                           : m \in Maps}

\* While the server is up a transport is on exactly one map or in exactly one posted
\* message, whatever the maps' threads do at the same time (TeleportTransport).
TransportInOnePlace == world \in {"outside", "schedule", "wait", "blocked", "unload"} =>
                          \A t \in Transports : Cardinality(Places(t)) = 1

\* The step is one of worker w inside Map::Update: its loop over m_transports begins or goes on.
RunsMapUpdate(w) == \/ pc[w] = "execute" /\ pc'[w] = "update"
                    \/ pc[w] = "update" /\ todo'[w] # todo[w]

\* m_transports has no lock.  The thread that updates a map changes the set of that map and
\* of no other, in particular not of one whose own thread is in its loop, which is why
\* TeleportTransport posts to the new map and does not call AddTransport itself; and no
\* other thread changes a set while a worker has a map to update (~Map on the world thread).
OwnThreadOnly ==
    [][/\ \A w \in Workers, m \in Maps : RunsMapUpdate(w) /\ m # req[w] => aboard'[m] = aboard[m]
       /\ aboard' # aboard => \/ \E w \in Workers : RunsMapUpdate(w)
                              \/ \A w \in Workers : req[w] = NoMap]_allVars

\* A transport that changes map in a tick is not moved again by the map it arrives on,
\* although that map's update may come later in the same tick (Transport::Update, "map
\* transition and update happened in same tick due to MT").
OneHopPerTick == [][\A t \in Transports, m \in Maps :
                        (t \in aboard[m] /\ t \notin aboard'[m] /\ live' # {})
                          => t \notin advanced]_allVars

\* A posted transport reaches its new map, unless the server goes down.
TransportArrives == \A t \in Transports : (\E m \in Maps : t \in ToSet(messages[m])) ~>
                        ((\E m \in Maps : t \in aboard[m]) \/ live = {})
=============================================================================
