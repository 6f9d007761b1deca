------------------------ MODULE MapTransportsProofs ------------------------
(***************************************************************************)
(* No transport is lost or doubled by the parallel map update, and no      *)
(* thread touches another map's set of transports, for any number of       *)
(* worker threads, maps and transports.                                    *)
(***************************************************************************)
EXTENDS MapTransports, MapUpdaterProofs

TransportTypes == /\ aboard \in [Maps -> SUBSET Transports]
                  /\ messages \in [Maps -> Seq(Transports)]
                  /\ todo \in [Workers -> SUBSET Transports]
                  /\ advanced \in SUBSET Transports

\* A loop over m_transports runs only while its map is updated, and what it has still to
\* reach is on that map.
Loops == \A w \in Workers : todo[w] # {} => /\ pc[w] = "update"
                                            /\ todo[w] \subseteq aboard[req[w]]

Up == world \in {"outside", "schedule", "wait", "blocked", "unload"}

Posted(t, m, i) == i \in 1..Len(messages[m]) /\ messages[m][i] = t

\* Every transport is somewhere, and not in two places.
Somewhere == \A t \in Transports : \E m \in Maps : t \in aboard[m] \/ \E i \in Nat : Posted(t, m, i)
Once == \A t \in Transports : \A m, n \in Maps :
           /\ t \in aboard[m] /\ t \in aboard[n] => m = n
           /\ \A i \in Nat : t \in aboard[m] => ~Posted(t, n, i)
           /\ \A i, j \in Nat : Posted(t, m, i) /\ Posted(t, n, j) => m = n /\ i = j

TInv == /\ TransportTypes /\ Loops
        /\ Up => Somewhere /\ Once

-----------------------------------------------------------------------------
LEMMA TransportInitFact == TransportInit => TInv
<1> SUFFICES ASSUME TransportInit PROVE TInv
  OBVIOUS
<1>1. PICK start \in [Transports -> Continents] :
         aboard = [m \in Maps |-> {t \in Transports : start[t] = m}]
  BY DEF TransportInit
<1>2. TransportTypes /\ Loops
  BY DEF TransportInit, TransportTypes, Loops
<1>3. \A t \in Transports : start[t] \in Maps
  BY <1>1, MapsAssumption
<1>4. \A m \in Maps : Len(messages[m]) = 0
  BY DEF TransportInit
<1>. QED
  BY <1>1, <1>2, <1>3, <1>4 DEF TInv, Somewhere, Once, Posted

\* A step of the pool that touches no transport, and no map whose loop is running.
LEMMA TransportsKept ==
  ASSUME TInv, UNCHANGED <<aboard, messages, todo>>, advanced' \in SUBSET Transports,
         Up' => Up,
         \A w \in Workers : todo[w] # {} => req'[w] = req[w] /\ pc'[w] = pc[w]
  PROVE  TInv'
<1>1. TransportTypes' /\ Loops'
  BY DEF TInv, TransportTypes, Loops
<1>2. Up' => Somewhere' /\ Once'
  BY DEF TInv, Somewhere, Once, Posted
<1>. QED
  BY <1>1, <1>2 DEF TInv

\* The pool comes back from no shutdown.
LEMMA StaysDown == ASSUME [Next]_vars PROVE Up' => Up
<1>1. ASSUME WorldStep PROVE Up' => Up
  BY <1>1 DEF WorldStep, schedule_update, EnterWait, wait, UnloadExpired, deactivate, Cancel, Join, Up
<1>2. ASSUME NEW w \in Workers, WorkerStep(w) PROVE Up' => Up
  BY <1>2 DEF WorkerStep, WaitAndPop, CheckToken, Execute, update_finished, NotifyWorld, Up
<1>3. ASSUME WorldChoice \/ SpuriousWake \/ Stopped \/ UNCHANGED vars PROVE Up' => Up
  BY <1>3 DEF WorldChoice, StartUpdate, CreateMap, DeleteInstance, UnloadAll, SpuriousWake,
              Stopped, vars, Up
<1>. QED
  BY <1>1, <1>2, <1>3 DEF Next

\* A loop is left alone by everything but its own thread's return.
LEMMA LoopKept ==
  ASSUME TypeOK, NEW w \in Workers, pc[w] = "update",
         \/ WorldStep \/ WorldChoice \/ SpuriousWake \/ Stopped
         \/ \E v \in Workers : WaitAndPop(v) \/ CheckToken(v)
         \/ \E v \in Workers \ {w} : update_finished(v) \/ Execute(v)
  PROVE  req'[w] = req[w] /\ pc'[w] = pc[w]
<1>1. CASE WorldStep
  BY <1>1 DEF TypeOK, WorldStep, schedule_update, NotifyOne, EnterWait, wait, UnloadExpired,
              deactivate, Cancel, NotifyAll, Join
<1>2. CASE WorldChoice \/ SpuriousWake \/ Stopped
  BY <1>2 DEF TypeOK, WorldChoice, StartUpdate, CreateMap, DeleteInstance, UnloadAll,
              SpuriousWake, Stopped, vars
<1>3. CASE \E v \in Workers : WaitAndPop(v) \/ CheckToken(v)
  BY <1>3 DEF TypeOK, WaitAndPop, CheckToken
<1>4. CASE \E v \in Workers \ {w} : update_finished(v) \/ Execute(v)
  BY <1>4 DEF TypeOK, update_finished, Execute
<1>. QED
  BY <1>1, <1>2, <1>3, <1>4

\* The transports posted to a map are put into it by the map's own thread.
LEMMA ExecuteFact ==
  ASSUME IInv, TInv, NEW w \in Workers, TExecute(w)
  PROVE  TInv'
<1> DEFINE m == req[w]
<1>1. /\ m \in Maps /\ pc[w] = "execute" /\ pc' = [pc EXCEPT ![w] = "update"]
      /\ req' = req /\ world' = world /\ advanced' = advanced
  BY DEF TExecute, Execute, IInv, TypeOK, Control
<1>2. /\ aboard' = [aboard EXCEPT ![m] = aboard[m] \union ToSet(messages[m])]
      /\ messages' = [messages EXCEPT ![m] = <<>>]
      /\ todo' = [todo EXCEPT ![w] = aboard'[m]]
  BY DEF TExecute
<1>3. /\ messages[m] \in Seq(Transports)
      /\ \A t \in Transports : t \in ToSet(messages[m]) <=> \E i \in Nat : Posted(t, m, i)
  BY <1>1 DEF TInv, TransportTypes, ToSet, Posted
<1>4. /\ \A t \in Transports : t \in aboard'[m] <=> t \in aboard[m] \/ \E i \in Nat : Posted(t, m, i)
      /\ \A n \in Maps \ {m} : aboard'[n] = aboard[n] /\ messages'[n] = messages[n]
      /\ messages'[m] = <<>>
  BY <1>1, <1>2, <1>3 DEF TInv, TransportTypes
<1>5. \A n \in Maps : aboard[n] \subseteq aboard'[n]
  BY <1>1, <1>2 DEF TInv, TransportTypes
<1>6. TransportTypes'
  BY <1>1, <1>2, <1>3 DEF TInv, TransportTypes, ToSet
<1>7. Loops'
  <2> SUFFICES ASSUME NEW v \in Workers, todo'[v] # {}
               PROVE  pc'[v] = "update" /\ todo'[v] \subseteq aboard'[req'[v]]
    BY DEF Loops
  <2>1. CASE v = w
    BY <1>1, <1>2, <2>1 DEF TInv, TransportTypes, IInv, TypeOK
  <2>2. CASE v # w
    <3>1. todo'[v] = todo[v] /\ pc'[v] = pc[v] /\ req'[v] = req[v]
      BY <1>1, <1>2, <2>2 DEF TInv, TransportTypes, IInv, TypeOK
    <3>2. todo[v] \subseteq aboard[req[v]] /\ req[v] \in Maps
      BY <3>1 DEF TInv, Loops, IInv, TypeOK, Control
    <3>. QED
      BY <3>1, <3>2, <1>5 DEF TInv, Loops
  <2>. QED
    BY <2>1, <2>2
<1>8. ASSUME Up PROVE Somewhere' /\ Once'
  <2>1. Somewhere /\ Once
    BY <1>8 DEF TInv
  <2>2. \A t \in Transports, i \in Nat : ~Posted(t, m, i)'
    BY <1>1, <1>4 DEF Posted
  <2>3. \A t \in Transports, n \in Maps \ {m}, i \in Nat : Posted(t, n, i)' <=> Posted(t, n, i)
    BY <1>4 DEF Posted
  <2>. QED
    BY <1>1, <1>4, <2>1, <2>2, <2>3 DEF Somewhere, Once
<1>. QED
  BY <1>1, <1>6, <1>7, <1>8 DEF TInv, Up

\* A transport that leaves its map is posted to one other map.
LEMMA TeleportFact ==
  ASSUME TInv, NEW t \in Transports, NEW from \in Maps, NEW to \in Maps, from # to,
         t \in aboard[from], TeleportTransport(t, from, to), Somewhere, Once
  PROVE  Somewhere' /\ Once'
<1>1. messages[to] \in Seq(Transports) /\ Len(messages[to]) \in Nat
  BY DEF TInv, TransportTypes
<1>2. /\ aboard'[from] = aboard[from] \ {t}
      /\ \A n \in Maps \ {from} : aboard'[n] = aboard[n]
      /\ messages'[to] = Append(messages[to], t)
      /\ \A n \in Maps \ {to} : messages'[n] = messages[n]
  BY DEF TeleportTransport, TInv, TransportTypes
<1>3. PICK last \in Nat : last = Len(messages[to]) + 1
  BY <1>1
<1>4. \A u \in Transports, n \in Maps, i \in Nat :
         Posted(u, n, i)' <=> Posted(u, n, i) \/ (u = t /\ n = to /\ i = last)
  <2>1. /\ DOMAIN messages[to] = 1 .. Len(messages[to])
        /\ DOMAIN messages'[to] = 1 .. last
        /\ messages'[to][last] = t
        /\ \A i \in 1 .. Len(messages[to]) : messages'[to][i] = messages[to][i]
    BY <1>3, <1>1, <1>2
  <2>2. \A u \in Transports, i \in Nat :
           Posted(u, to, i)' <=> Posted(u, to, i) \/ (u = t /\ i = last)
    BY <1>3, <1>1, <2>1 DEF Posted
  <2>3. \A u \in Transports, n \in Maps \ {to}, i \in Nat :
           Posted(u, n, i)' <=> Posted(u, n, i)
    BY <1>2 DEF Posted
  <2>. QED
    BY <2>2, <2>3
<1>5. \A n \in Maps, i \in Nat : ~Posted(t, n, i) /\ (n # from => t \notin aboard[n])
  BY DEF Once
<1>6. \A u \in Transports \ {t}, n \in Maps : u \in aboard'[n] <=> u \in aboard[n]
  BY <1>2
<1>7. \A n \in Maps : t \notin aboard'[n]
  BY <1>2, <1>5
<1>8. Somewhere'
  <2>1. Posted(t, to, last)'
    BY <1>4
  <2>. QED
    BY <1>4, <1>6, <2>1 DEF Somewhere
<1>9. Once'
  BY <1>4, <1>5, <1>6, <1>7 DEF Once
<1>. QED
  BY <1>8, <1>9

LEMMA UpdateTransportFact ==
  ASSUME IInv, TInv, NEW w \in Workers, NEW t \in Transports, UpdateTransport(w, t)
  PROVE  TInv'
<1> DEFINE m == req[w]
<1>1. /\ pc[w] = "update" /\ t \in todo[w] /\ UNCHANGED vars
      /\ todo' = [todo EXCEPT ![w] = todo[w] \ {t}]
  BY DEF UpdateTransport
<1>2. m \in Maps /\ t \in aboard[m] /\ advanced' \in SUBSET Transports
  BY <1>1 DEF TInv, Loops, TransportTypes, IInv, TypeOK, Control, UpdateTransport
<1>3. \A v \in Workers \ {w} : todo[v] # {} => req[v] # m /\ req[v] \in Maps
  BY <1>2 DEF TInv, Loops, IInv, OneThreadPerMap, TypeOK, Control
<1>4. CASE UNCHANGED <<aboard, messages>>
  <2>1. TransportTypes' /\ Loops'
    BY <1>1, <1>2, <1>4 DEF TInv, TransportTypes, Loops, vars
  <2>2. Up' => Somewhere' /\ Once'
    <3>1. (Up' <=> Up) /\ (Somewhere' <=> Somewhere) /\ (Once' <=> Once)
      BY <1>1, <1>4 DEF Somewhere, Once, Posted, vars, Up
    <3>. QED
      BY <3>1 DEF TInv
  <2>. QED
    BY <2>1, <2>2 DEF TInv
<1>5. CASE \E to \in Continents \ {m} : TeleportTransport(t, m, to)
  <2>1. PICK to \in Maps \ {m} : TeleportTransport(t, m, to)
    BY <1>5, MapsAssumption
  <2>2. /\ aboard'[m] = aboard[m] \ {t}
        /\ \A n \in Maps \ {m} : aboard'[n] = aboard[n]
    BY <1>2, <2>1 DEF TeleportTransport, TInv, TransportTypes
  <2>3. TransportTypes'
    BY <1>1, <1>2, <2>1 DEF TeleportTransport, TInv, TransportTypes
  <2>4. Loops'
    BY <1>1, <1>2, <1>3, <2>2 DEF TInv, TransportTypes, Loops, vars
  <2>5. Up' => Somewhere' /\ Once'
    BY <1>1, <1>2, <2>1, TeleportFact DEF TInv, vars, Up
  <2>. QED
    BY <2>3, <2>4, <2>5 DEF TInv
<1>. QED
  BY <1>4, <1>5 DEF UpdateTransport

\* The server goes down: all transports are deleted, and no loop is running.
LEMMA UnloadFact == ASSUME IInv, TInv, TUnloadAll PROVE TInv'
<1>1. \A w \in Workers : todo[w] = {}
  BY DEF TUnloadAll, UnloadAll, TInv, Loops, TransportTypes, IInv, Quiet, Control
<1>2. TransportTypes' /\ Loops'
  BY <1>1 DEF TUnloadAll, TInv, TransportTypes, Loops
<1>3. ~Up'
  BY DEF TUnloadAll, UnloadAll, Up
<1>. QED
  BY <1>2, <1>3 DEF TInv

LEMMA StepOfPool == ASSUME [TNext]_allVars PROVE [Next]_vars
  BY DEF TNext, TStartUpdate, TWorldStep, TWorldChoice, TUnloadAll, TWorkerStep, TExecute,
         UpdateTransport, Tupdate_finished, allVars, Next, WorldChoice, WorkerStep

LEMMA TransportStep == ASSUME IInv, TInv, [TNext]_allVars PROVE TInv'
<1>1. Up' => Up
  BY StepOfPool, StaysDown
<1>2. TypeOK /\ TransportTypes /\ \A w \in Workers : todo[w] # {} => pc[w] = "update"
  BY DEF IInv, TInv, Loops
<1>3. CASE TStartUpdate
  <2>1. \A w \in Workers : todo[w] # {} => req'[w] = req[w] /\ pc'[w] = pc[w]
    BY <1>3 DEF TStartUpdate, StartUpdate
  <2>. QED
    BY <1>1, <1>3, <2>1, TransportsKept DEF TStartUpdate
<1>4. CASE /\ UNCHANGED tvars
           /\ \/ WorldStep \/ WorldChoice \/ SpuriousWake \/ Stopped
              \/ \E w \in Workers : WaitAndPop(w) \/ CheckToken(w)
  <2>1. \A w \in Workers : todo[w] # {} => req'[w] = req[w] /\ pc'[w] = pc[w]
    BY <1>2, <1>4, LoopKept
  <2>2. UNCHANGED <<aboard, messages, todo>> /\ advanced' \in SUBSET Transports
    BY <1>2, <1>4 DEF tvars, TransportTypes
  <2>. QED
    BY <1>1, <2>1, <2>2, TransportsKept
<1>5. ASSUME NEW v \in Workers, Tupdate_finished(v) PROVE TInv'
  <2>1. \A w \in Workers : todo[w] # {} => req'[w] = req[w] /\ pc'[w] = pc[w]
    BY <1>2, <1>5, LoopKept DEF Tupdate_finished
  <2>2. UNCHANGED <<aboard, messages, todo>> /\ advanced' \in SUBSET Transports
    BY <1>2, <1>5 DEF Tupdate_finished, tvars, TransportTypes
  <2>. QED
    BY <1>1, <2>1, <2>2, TransportsKept
<1>6. CASE UNCHANGED allVars
  BY <1>1, <1>2, <1>6, TransportsKept DEF allVars, vars, tvars, TransportTypes
<1>7. ASSUME NEW w \in Workers, TExecute(w) \/ \E t \in Transports : UpdateTransport(w, t)
      PROVE  TInv'
  BY <1>7, ExecuteFact, UpdateTransportFact
<1>8. CASE TUnloadAll
  BY <1>8, UnloadFact
<1>. QED
  BY <1>3, <1>4, <1>5, <1>6, <1>7, <1>8
  DEF TNext, TWorldStep, TWorldChoice, WorldChoice, TWorkerStep

-----------------------------------------------------------------------------
(* The theorems.                                                           *)

\* The pool is not changed by what happens to the transports.
LEMMA PoolImplied == TSpec => Spec
<1>1. TransportInit => Init
  BY DEF TransportInit
<1>2. [TNext]_allVars => [Next]_vars
  BY StepOfPool
<1>. QED
  BY <1>1, <1>2, PTL DEF TSpec, Spec

\* The inductive invariant of the transports, on top of that of the pool.
THEOREM TransportInductive == TSpec => [](IInv /\ TInv)
<1>1. IInv /\ TInv /\ [TNext]_allVars => TInv'
  BY TransportStep
<1>2. TSpec => []IInv
  BY PoolImplied, Inductive
<1>. QED
  BY <1>1, <1>2, TransportInitFact, PTL DEF TSpec

\* Every variable keeps its type, and the loops of Map::Update run only in a worker that
\* updates the map they go over.
THEOREM TransportTypesHold == TSpec => []TransportTypeOK
<1>1. IInv /\ TInv => TransportTypeOK
  <2> SUFFICES ASSUME IInv, TInv PROVE TransportTypeOK
    OBVIOUS
  <2>1. \A w \in Workers : todo[w] \subseteq IF req[w] = NoMap THEN {} ELSE aboard[req[w]]
    BY DEF TInv, Loops, IInv, Control
  <2>. QED
    BY <2>1 DEF TInv, TransportTypes, IInv, TransportTypeOK
<1>. QED
  BY <1>1, TransportInductive, PTL

LEMMA OnePlace ==
  ASSUME TransportTypes, Somewhere, Once, NEW t \in Transports
  PROVE  Cardinality(Places(t)) = 1
<1>1. \A m \in Maps : DOMAIN messages[m] = 1..Len(messages[m]) /\ Len(messages[m]) \in Nat
  BY DEF TransportTypes
<1>2. \A p : p \in Places(t) <=>
         \E m \in Maps : \/ p = <<"aboard", m, 0>> /\ t \in aboard[m]
                         \/ \E i \in Nat : p = <<"posted", m, i>> /\ Posted(t, m, i)
  BY <1>1 DEF Places, Posted
<1>3. \E p : p \in Places(t)
  BY <1>2 DEF Somewhere
<1>4. \A p, q \in Places(t) : p = q
  BY <1>2 DEF Once
<1>5. PICK p : Places(t) = {p}
  BY <1>3, <1>4
<1>. QED
  BY <1>5, FS_Singleton

\* A transport is never lost between two maps nor on both: TeleportTransport takes it off
\* one set and posts it to one other map, which adds it once.
THEOREM OnePlaceHolds == TSpec => []TransportInOnePlace
<1>1. IInv /\ TInv => TransportInOnePlace
  BY OnePlace DEF TInv, Up, TransportInOnePlace
<1>. QED
  BY <1>1, TransportInductive, PTL

\* What a step in a worker's Map::Update may change.
OwnThread == /\ \A w \in Workers, m \in Maps : RunsMapUpdate(w) /\ m # req[w] => aboard'[m] = aboard[m]
             /\ aboard' # aboard => \/ \E w \in Workers : RunsMapUpdate(w)
                                    \/ \A w \in Workers : req[w] = NoMap

LEMMA OwnThreadStep == ASSUME IInv, TInv, [TNext]_allVars PROVE OwnThread
<1>1. CASE TUnloadAll
  <2>1. pc' = pc /\ todo' = todo /\ world = "outside"
    BY <1>1 DEF TUnloadAll, UnloadAll
  <2>2. \A w \in Workers : ~RunsMapUpdate(w)
    BY <2>1 DEF RunsMapUpdate
  <2>3. \A w \in Workers : req[w] = NoMap
    BY <2>1 DEF IInv, Quiet
  <2>. QED
    BY <2>2, <2>3 DEF OwnThread
<1>2. ASSUME NEW w \in Workers, TExecute(w) PROVE OwnThread
  <2>1. /\ pc[w] = "execute" /\ pc' = [pc EXCEPT ![w] = "update"]
        /\ todo' = [todo EXCEPT ![w] = aboard'[req[w]]]
    BY <1>2 DEF TExecute, Execute
  <2>2. RunsMapUpdate(w)
    BY <2>1 DEF RunsMapUpdate, IInv, TypeOK
  <2>3. \A v \in Workers \ {w} : ~RunsMapUpdate(v)
    BY <2>1 DEF RunsMapUpdate, IInv, TypeOK, TInv, TransportTypes
  <2>4. \A m \in Maps \ {req[w]} : aboard'[m] = aboard[m]
    BY <1>2 DEF TExecute, TInv, TransportTypes
  <2>. QED
    BY <2>2, <2>3, <2>4 DEF OwnThread
<1>3. ASSUME NEW w \in Workers, NEW t \in Transports, UpdateTransport(w, t) PROVE OwnThread
  <2>1. pc[w] = "update" /\ pc' = pc /\ t \in todo[w] /\ todo' = [todo EXCEPT ![w] = todo[w] \ {t}]
    BY <1>3 DEF UpdateTransport, vars
  <2>2. RunsMapUpdate(w)
    BY <2>1 DEF RunsMapUpdate, TInv, TransportTypes
  <2>3. \A v \in Workers \ {w} : ~RunsMapUpdate(v)
    BY <2>1 DEF RunsMapUpdate, TInv, TransportTypes
  <2>4. \A m \in Maps \ {req[w]} : aboard'[m] = aboard[m]
    BY <1>3 DEF UpdateTransport, TeleportTransport, TInv, TransportTypes
  <2>. QED
    BY <2>2, <2>3, <2>4 DEF OwnThread
<1>4. CASE aboard' = aboard
  BY <1>4 DEF OwnThread
<1>. QED
  BY <1>1, <1>2, <1>3, <1>4 DEF TNext, TStartUpdate, TWorldStep, TWorldChoice, TWorkerStep,
     Tupdate_finished, tvars, allVars

\* The unlocked m_transports of a map is changed by the thread that updates this map and by
\* no thread that updates another one; the world thread deletes transports only when no
\* worker has a map to update.
THEOREM OwnThreadHolds == TSpec => OwnThreadOnly
<1>1. IInv /\ TInv /\ [TNext]_allVars =>
         [/\ \A w \in Workers, m \in Maps : RunsMapUpdate(w) /\ m # req[w] => aboard'[m] = aboard[m]
          /\ aboard' # aboard => \/ \E w \in Workers : RunsMapUpdate(w)
                                 \/ \A w \in Workers : req[w] = NoMap]_allVars
  BY OwnThreadStep DEF OwnThread
<1>. QED
  BY <1>1, TransportInductive, PTL DEF TSpec, OwnThreadOnly

LEMMA OneHopStep ==
  ASSUME IInv, TInv, [TNext]_allVars, NEW t \in Transports, NEW m \in Maps,
         t \in aboard[m], t \notin aboard'[m], live' # {}
  PROVE  t \notin advanced
<1>1. ~TUnloadAll
  BY DEF TUnloadAll, UnloadAll
<1>2. ASSUME NEW w \in Workers, TExecute(w) PROVE FALSE
  BY <1>2 DEF TExecute, TInv, TransportTypes
<1>3. ASSUME NEW w \in Workers, NEW u \in Transports, UpdateTransport(w, u) PROVE t \notin advanced
  BY <1>3 DEF UpdateTransport, TeleportTransport, TInv, TransportTypes
<1>. QED
  BY <1>1, <1>2, <1>3 DEF TNext, TStartUpdate, TWorldStep, TWorldChoice, TWorkerStep,
     Tupdate_finished, tvars, allVars

\* A transport leaves a map at most once in a tick, although the map it arrives on may be
\* updated later in the same tick (Transport::Update).
THEOREM OneHopHolds == TSpec => OneHopPerTick
<1>1. IInv /\ TInv /\ [TNext]_allVars =>
         [\A t \in Transports, m \in Maps :
             (t \in aboard[m] /\ t \notin aboard'[m] /\ live' # {}) => t \notin advanced]_allVars
  BY OneHopStep
<1>. QED
  BY <1>1, TransportInductive, PTL DEF TSpec, OneHopPerTick
=============================================================================
