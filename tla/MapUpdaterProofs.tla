-------------------------- MODULE MapUpdaterProofs --------------------------
(***************************************************************************)
(* The safety of the parallel map update, for any number of worker threads *)
(* and any set of maps.                                                    *)
(***************************************************************************)
EXTENDS MapUpdater, FiniteSetTheorems, TLAPS

\* Where a worker can be while it has, or has not, a request; a worker gets past
\* WaitAndPop without one only after Cancel, which comes after the token is set.
Control == /\ shutdown => cancel
           /\ cancel <=> world \in {"cancelQueue", "join", "stopped"}
           /\ \A w \in Workers :
                /\ pc[w] \in {"execute", "update"} => req[w] # NoMap
                /\ pc[w] \in {"pop", "waiting", "exited"} => req[w] = NoMap
                /\ pc[w] = "check" /\ req[w] = NoMap => shutdown

\* Outside the window between the first schedule_update and the return of wait there
\* is no request anywhere.
Quiet == /\ world # "schedule" => sched = {}
         /\ world \in {"outside", "unload", "deactivate", "cancelQueue", "join", "stopped"}
              => queue = <<>> /\ \A w \in Workers : req[w] = NoMap

\* The maps still to be scheduled exist and are not yet requested.
Unscheduled == \A m \in sched : /\ m \in live
                                /\ \A i \in 1..Len(queue) : queue[i] # m
                                /\ \A w \in Workers : req[w] # m

\* Continents are never unloaded before the server goes down.
Kept == world \notin {"deactivate", "cancelQueue", "join", "stopped"} => Continents \subseteq live

IInv == /\ TypeOK /\ Control /\ Quiet /\ Kept
        /\ PendingExact /\ NoDanglingMap /\ Unscheduled /\ OneThreadPerMap

USE DEF WorldPlaces, WorkerPlaces, Kept

-----------------------------------------------------------------------------
\* A worker that takes a request joins the busy ones.
LEMMA BusyGrows ==
  ASSUME TypeOK, NEW w \in Workers, NEW m \in Maps, req[w] = NoMap,
         req' = [req EXCEPT ![w] = m]
  PROVE  Cardinality(Busy') = Cardinality(Busy) + 1
<1>1. Busy' = Busy \union {w} /\ w \notin Busy
  BY MapsAssumption DEF TypeOK, Busy
<1>2. IsFiniteSet(Busy)
  BY WorkersAssumption, FS_Subset DEF Busy
<1>. QED
  BY <1>1, <1>2, FS_AddElement

\* A worker that gives its request up leaves them.
LEMMA BusyShrinks ==
  ASSUME TypeOK, NEW w \in Workers, req[w] # NoMap,
         req' = [req EXCEPT ![w] = NoMap]
  PROVE  Cardinality(Busy') = Cardinality(Busy) - 1
<1>1. Busy' = Busy \ {w} /\ w \in Busy
  BY DEF TypeOK, Busy
<1>2. IsFiniteSet(Busy)
  BY WorkersAssumption, FS_Subset DEF Busy
<1>. QED
  BY <1>1, <1>2, FS_RemoveElement, FS_CardinalityType

LEMMA BusyCount == Cardinality(Busy) \in Nat /\ (Cardinality(Busy) = 0 <=> Busy = {})
  BY WorkersAssumption, FS_Subset, FS_CardinalityType, FS_EmptySet DEF Busy

-----------------------------------------------------------------------------
LEMMA InitInv == Init => IInv
<1>. SUFFICES ASSUME Init PROVE IInv
  OBVIOUS
<1>1. Busy = {}
  BY DEF Init, Busy
<1>2. PendingExact
  BY <1>1, FS_EmptySet DEF Init, PendingExact
<1>3. TypeOK
  <2>1. pc \in [Workers -> WorkerPlaces] /\ req \in [Workers -> Maps \union {NoMap}]
    BY DEF Init
  <2>2. queue \in Seq(Maps)
    BY DEF Init
  <2>3. live \in SUBSET Maps /\ sched \in SUBSET Maps
    BY MapsAssumption DEF Init
  <2>4. world \in WorldPlaces /\ shutdown \in BOOLEAN /\ cancel \in BOOLEAN
    BY DEF Init
  <2>5. pending \in Nat
    BY DEF Init
  <2>. QED
    BY <2>1, <2>2, <2>3, <2>4, <2>5 DEF TypeOK
<1>5. Control
  BY DEF Init, Control
<1>6. Quiet /\ Kept
  BY DEF Init, Quiet
<1>4. NoDanglingMap /\ Unscheduled /\ OneThreadPerMap
  BY DEF Init, NoDanglingMap, Unscheduled, OneThreadPerMap
<1>. QED
  BY <1>2, <1>3, <1>4, <1>5, <1>6 DEF IInv

LEMMA ScheduleInv == ASSUME IInv, NEW m \in Maps, schedule_update(m) PROVE IInv'
<1>. USE DEF IInv
<1>1. TypeOK' /\ Control' /\ Quiet' /\ Kept'
  BY DEF TypeOK, Control, Quiet, schedule_update, NotifyOne
<1>2. PendingExact'
  <2>1. Busy' = Busy /\ Len(queue') = Len(queue) + 1
    BY DEF TypeOK, Busy, schedule_update
  <2>. QED
    BY <2>1, BusyCount DEF PendingExact, TypeOK, schedule_update
<1>3. NoDanglingMap' /\ Unscheduled'
  BY DEF TypeOK, NoDanglingMap, Unscheduled, schedule_update
<1>4. OneThreadPerMap'
  BY DEF TypeOK, OneThreadPerMap, Unscheduled, schedule_update
<1>. QED
  BY <1>1, <1>2, <1>3, <1>4

\* wait returns only when nothing is queued and nobody is busy.
LEMMA WaitInv == ASSUME IInv, wait PROVE IInv'
<1>. USE DEF IInv
<1>1. ASSUME ~(pending > 0) PROVE queue = <<>> /\ \A w \in Workers : req[w] = NoMap
  <2>1. Len(queue) = 0 /\ Cardinality(Busy) = 0
    BY <1>1, BusyCount DEF PendingExact, Control, TypeOK, wait
  <2>. QED
    BY <2>1, BusyCount DEF Busy, TypeOK
<1>2. TypeOK' /\ Control' /\ Quiet' /\ Kept'
  BY <1>1 DEF TypeOK, Control, Quiet, wait
<1>3. PendingExact'
  BY DEF PendingExact, Busy, wait
<1>. QED
  BY <1>2, <1>3 DEF NoDanglingMap, Unscheduled, OneThreadPerMap, wait

LEMMA WorldStepInv == ASSUME IInv, WorldStep PROVE IInv'
<1>. USE DEF IInv
<1>1. CASE EnterWait
  BY <1>1 DEF EnterWait, TypeOK, Control, Quiet, PendingExact, Busy, NoDanglingMap, Unscheduled, OneThreadPerMap
<1>2. CASE UnloadExpired
  BY <1>2 DEF UnloadExpired, TypeOK, Control, Quiet, PendingExact, Busy, NoDanglingMap, Unscheduled, OneThreadPerMap
<1>3. CASE deactivate
  BY <1>3 DEF deactivate, TypeOK, Control, Quiet, PendingExact, NoDanglingMap, Unscheduled, OneThreadPerMap
<1>4. CASE Cancel
  <2>1. TypeOK' /\ Control' /\ Quiet' /\ Kept'
    BY <1>4 DEF Cancel, NotifyAll, TypeOK, Control, Quiet
  <2>2. PendingExact'
    BY <1>4 DEF Cancel, Control, PendingExact
  <2>3. NoDanglingMap' /\ Unscheduled' /\ OneThreadPerMap'
    BY <1>4 DEF Cancel, TypeOK, NoDanglingMap, Unscheduled, OneThreadPerMap
  <2>. QED
    BY <2>1, <2>2, <2>3
<1>5. CASE Join
  BY <1>5 DEF Join, TypeOK, Control, Quiet, PendingExact, Busy, NoDanglingMap, Unscheduled, OneThreadPerMap
<1>. QED
  BY <1>1, <1>2, <1>3, <1>4, <1>5, ScheduleInv, WaitInv DEF WorldStep

LEMMA WorldChoiceInv == ASSUME IInv, WorldChoice PROVE IInv'
<1>. USE DEF IInv
<1>1. CASE StartUpdate
  BY <1>1, MapsAssumption DEF StartUpdate, TypeOK, Control, Quiet, PendingExact, Busy, NoDanglingMap, Unscheduled, OneThreadPerMap
<1>2. ASSUME NEW m \in Maps, CreateMap(m) PROVE IInv'
  BY <1>2 DEF CreateMap, TypeOK, Control, Quiet, PendingExact, Busy, NoDanglingMap, Unscheduled, OneThreadPerMap
<1>3. ASSUME NEW m \in Maps, DeleteInstance(m) PROVE IInv'
  BY <1>3 DEF DeleteInstance, TypeOK, Control, Quiet, PendingExact, Busy, NoDanglingMap, Unscheduled, OneThreadPerMap
<1>4. CASE UnloadAll
  BY <1>4 DEF UnloadAll, TypeOK, Control, Quiet, PendingExact, Busy, NoDanglingMap, Unscheduled, OneThreadPerMap
<1>. QED
  BY <1>1, <1>2, <1>3, <1>4 DEF WorldChoice

-----------------------------------------------------------------------------
\* Taking the head of the queue.
LEMMA PopInv == ASSUME IInv, NEW w \in Workers, WaitAndPop(w) PROVE IInv'
<1>. USE DEF IInv
<1>1. CASE queue = <<>> \/ shutdown
  <2>1. UNCHANGED <<queue, req>> /\ pc' \in [Workers -> WorkerPlaces]
    BY <1>1 DEF WaitAndPop, TypeOK, WorkerPlaces
  <2>2. TypeOK' /\ Quiet' /\ Kept'
    BY <2>1 DEF WaitAndPop, TypeOK, Quiet
  <2>3. Control'
    BY <1>1, <2>1 DEF WaitAndPop, TypeOK, Control
  <2>. QED
    BY <2>1, <2>2, <2>3 DEF WaitAndPop, PendingExact, Busy, NoDanglingMap, Unscheduled, OneThreadPerMap
<1>2. CASE queue # <<>> /\ ~shutdown
  <2>1. /\ req' = [req EXCEPT ![w] = Head(queue)]
        /\ queue' = Tail(queue)
        /\ pc' = [pc EXCEPT ![w] = "check"]
        /\ UNCHANGED <<live, sched, world, shutdown, cancel, pending>>
    BY <1>2 DEF WaitAndPop
  <2>2. /\ Head(queue) = queue[1] /\ Head(queue) \in Maps
        /\ Len(queue') = Len(queue) - 1 /\ Len(queue) > 0 /\ Len(queue) \in Nat
        /\ \A i \in 1..Len(queue') : queue'[i] = queue[i + 1] /\ i + 1 \in 1..Len(queue)
    BY <1>2, <2>1 DEF TypeOK
  <2>3. req[w] = NoMap /\ Head(queue) # NoMap
    BY <2>2, MapsAssumption DEF Control, WaitAndPop
  <2>4. TypeOK'
    BY <2>1, <2>2 DEF TypeOK, WorkerPlaces
  <2>5. Control' /\ Quiet' /\ Kept'
    BY <1>2, <2>1, <2>2, <2>3 DEF TypeOK, Control, Quiet
  <2>6. PendingExact'
    <3>1. Cardinality(Busy') = Cardinality(Busy) + 1
      BY <2>1, <2>2, <2>3, BusyGrows
    <3>. QED
      BY <2>1, <2>2, <3>1, BusyCount DEF PendingExact, TypeOK
  <2>a. /\ \A v \in Workers : req'[v] = req[v] \/ req'[v] = queue[1]
        /\ 1 \in 1..Len(queue)
    BY <2>1, <2>2 DEF TypeOK
  <2>7. NoDanglingMap'
    BY <2>1, <2>2, <2>a DEF NoDanglingMap
  <2>b. Unscheduled'
    BY <2>1, <2>2, <2>a DEF Unscheduled
  <2>8. OneThreadPerMap'
    BY <2>1, <2>2, <2>3 DEF TypeOK, OneThreadPerMap
  <2>. QED
    BY <2>4, <2>5, <2>6, <2>7, <2>8, <2>b
<1>. QED
  BY <1>1, <1>2 DEF WaitAndPop

LEMMA FinishInv == ASSUME IInv, NEW w \in Workers, update_finished(w) PROVE IInv'
<1>. USE DEF IInv
<1>1. req[w] # NoMap /\ ~cancel
  BY DEF Control, Quiet, update_finished
<1>2. Cardinality(Busy') = Cardinality(Busy) - 1 /\ Cardinality(Busy) \in Nat \ {0}
  <2>1. w \in Busy
    BY <1>1 DEF Busy
  <2>2. req' = [req EXCEPT ![w] = NoMap]
    BY DEF update_finished
  <2>3. Cardinality(Busy') = Cardinality(Busy) - 1
    BY <1>1, <2>2, BusyShrinks
  <2>. QED
    BY <2>1, <2>3, BusyCount
<1>3. Len(queue) \in Nat
  BY DEF TypeOK
<1>4. pending' \in Nat /\ PendingExact'
  BY <1>1, <1>2, <1>3 DEF PendingExact, TypeOK, update_finished
<1>5. /\ pc' \in [Workers -> WorkerPlaces] /\ req' \in [Workers -> Maps \union {NoMap}]
      /\ world' \in WorldPlaces
  BY DEF update_finished, NotifyWorld, TypeOK
<1>6. TypeOK'
  BY <1>4, <1>5 DEF TypeOK, update_finished
<1>7. Control' /\ Quiet' /\ Kept'
  BY <1>1 DEF update_finished, NotifyWorld, TypeOK, Control, Quiet
<1>8. NoDanglingMap' /\ Unscheduled' /\ OneThreadPerMap'
  BY MapsAssumption DEF update_finished, TypeOK, NoDanglingMap, Unscheduled, OneThreadPerMap
<1>. QED
  BY <1>4, <1>6, <1>7, <1>8

LEMMA WorkerStepInv == ASSUME IInv, NEW w \in Workers, WorkerStep(w) PROVE IInv'
<1>. USE DEF IInv
<1>1. CASE CheckToken(w)
  <2>1. TypeOK' /\ Control' /\ Quiet' /\ Kept'
    BY <1>1 DEF CheckToken, TypeOK, WorkerPlaces, Control, Quiet
  <2>2. PendingExact'
    BY <1>1 DEF CheckToken, PendingExact, Busy
  <2>3. NoDanglingMap' /\ Unscheduled' /\ OneThreadPerMap'
    BY <1>1, MapsAssumption DEF CheckToken, TypeOK, NoDanglingMap, Unscheduled, OneThreadPerMap
  <2>. QED
    BY <2>1, <2>2, <2>3
<1>2. CASE Execute(w)
  BY <1>2 DEF Execute, TypeOK, WorkerPlaces, Control, Quiet, PendingExact, Busy, NoDanglingMap, Unscheduled, OneThreadPerMap
<1>. QED
  BY <1>1, <1>2, PopInv, FinishInv DEF WorkerStep

LEMMA SpuriousInv == ASSUME IInv, SpuriousWake PROVE IInv'
<1>. USE DEF IInv
<1>1. UNCHANGED <<live, sched, queue, shutdown, cancel, pending, req>>
  BY DEF SpuriousWake
<1>2. TypeOK' /\ Control' /\ Quiet' /\ Kept'
  BY DEF SpuriousWake, TypeOK, Control, Quiet
<1>. QED
  BY <1>1, <1>2 DEF PendingExact, Busy, NoDanglingMap, Unscheduled, OneThreadPerMap

LEMMA StutterInv == ASSUME IInv, UNCHANGED vars PROVE IInv'
  BY DEF IInv, vars, TypeOK, Control, Quiet, PendingExact, Busy, NoDanglingMap, Unscheduled, OneThreadPerMap

\* The inductive invariant of the map update.
THEOREM Inductive == Spec => []IInv
<1>1. IInv /\ [Next]_vars => IInv'
  BY WorldStepInv, WorldChoiceInv, WorkerStepInv, SpuriousInv, StutterInv DEF Next, Stopped
<1>. QED
  BY InitInv, <1>1, PTL DEF Spec

\* Every variable keeps its type; in particular pending_requests, an unsigned counter,
\* is never decremented below zero (MapUpdater::update_finished).
THEOREM TypeCorrect == Spec => []TypeOK
  BY Inductive, PTL DEF IInv

\* The pending counter is exact, so wait returns neither early nor never
\* (MapUpdater::wait, schedule_update, update_finished).
THEOREM PendingCorrect == Spec => []PendingExact
  BY Inductive, PTL DEF IInv

\* No thread ever updates a map that has been unloaded (MapManager::Update frees
\* maps after wait and keeps plain references in the requests).
THEOREM NoDangling == Spec => []NoDanglingMap
  BY Inductive, PTL DEF IInv

\* No map is updated by two threads at a time, or twice in a tick.
THEOREM MapExclusive == Spec => []OneThreadPerMap
  BY Inductive, PTL DEF IInv

\* WorkerThread never calls execute on a null request.
THEOREM NoNull == Spec => []NoNullRequest
<1>1. IInv => NoNullRequest
  BY DEF IInv, Control, NoNullRequest
<1>. QED
  BY <1>1, Inductive, PTL

-----------------------------------------------------------------------------
(* The refinement: what each action does to the mapped variables.          *)

USE DEF Tick!TickNext, Tick!tickVars

LEMMA TickInitImplied == Init => Tick!TickInit
  BY DEF Init, Tick!TickInit, TickPhase, TickTodo, TickRunning, Queued, Popped

\* Scheduling moves a map from the loop to the queue: nothing the tick sees.
LEMMA ScheduleRefines ==
  ASSUME IInv, NEW m \in Maps, schedule_update(m) PROVE UNCHANGED Tick!tickVars
<1>1. Queued' = Queued \union {m}
  BY DEF IInv, TypeOK, schedule_update, Queued
<1>2. Popped' = Popped /\ TickRunning' = TickRunning
  BY DEF IInv, TypeOK, schedule_update, NotifyOne, Popped, TickRunning
<1>3. TickTodo' = TickTodo
  BY <1>1, <1>2 DEF schedule_update, TickTodo
<1>. QED
  BY <1>2, <1>3 DEF schedule_update, TickPhase

\* Taking a request moves a map from the queue to a worker that has not begun.
LEMMA PopRefines ==
  ASSUME IInv, NEW w \in Workers, WaitAndPop(w) PROVE UNCHANGED Tick!tickVars
<1>1. CASE queue = <<>> \/ shutdown
  <2>1. UNCHANGED <<queue, req, world, live, sched>> /\ req[w] = NoMap
    BY <1>1 DEF WaitAndPop, IInv, Control
  <2>2. /\ \A v \in Workers : v # w => pc'[v] = pc[v]
        /\ pc[w] # "update" /\ pc'[w] # "update"
    BY <1>1 DEF WaitAndPop, IInv, TypeOK
  <2>3. Popped' = Popped /\ TickRunning' = TickRunning
    BY <2>1, <2>2 DEF Popped, TickRunning
  <2>. QED
    BY <2>1, <2>3 DEF TickPhase, TickTodo, Queued
<1>2. CASE queue # <<>> /\ ~shutdown
  <2>1. /\ req' = [req EXCEPT ![w] = Head(queue)]
        /\ queue' = Tail(queue)
        /\ pc' = [pc EXCEPT ![w] = "check"]
        /\ pc[w] = "pop" /\ req[w] = NoMap
        /\ UNCHANGED <<live, sched, world>>
    BY <1>2 DEF WaitAndPop, IInv, Control
  <2>2. /\ Head(queue) = queue[1] /\ Head(queue) \in Maps
        /\ Len(queue') = Len(queue) - 1 /\ Len(queue) > 0 /\ Len(queue) \in Nat
        /\ \A i \in 1..Len(queue') : queue'[i] = queue[i + 1]
    BY <1>2, <2>1 DEF IInv, TypeOK
  <2>3. Queued = Queued' \union {Head(queue)}
    <3>1. ASSUME NEW i \in 1..Len(queue) PROVE queue[i] \in Queued' \union {Head(queue)}
      <4>1. CASE i = 1
        BY <4>1, <2>2
      <4>2. CASE i # 1
        <5>1. i - 1 \in 1..Len(queue') /\ queue'[i - 1] = queue[i]
          BY <4>2, <2>2
        <5>. QED
          BY <5>1 DEF Queued
      <4>. QED
        BY <4>1, <4>2
    <3>2. ASSUME NEW i \in 1..Len(queue') PROVE queue'[i] \in Queued
      <4>1. i + 1 \in 1..Len(queue) /\ queue'[i] = queue[i + 1]
        BY <2>2
      <4>. QED
        BY <4>1 DEF Queued
    <3>3. Head(queue) \in Queued
      BY <2>2 DEF Queued
    <3>. QED
      BY <3>1, <3>2, <3>3 DEF Queued
  <2>4. Popped' = Popped \union {Head(queue)}
    <3>1. Head(queue) # NoMap
      BY <2>2, MapsAssumption
    <3>. QED
      BY <2>1, <3>1 DEF IInv, TypeOK, Popped
  <2>5. TickRunning' = TickRunning
    BY <2>1 DEF IInv, TypeOK, TickRunning
  <2>6. TickTodo' = TickTodo
    BY <2>1, <2>3, <2>4 DEF TickTodo
  <2>. QED
    BY <2>1, <2>5, <2>6 DEF TickPhase
<1>. QED
  BY <1>1, <1>2 DEF WaitAndPop

\* A worker that reads the token keeps its request while the server is up.
LEMMA CheckRefines ==
  ASSUME IInv, NEW w \in Workers, CheckToken(w) PROVE UNCHANGED Tick!tickVars
<1>1. CASE cancel
  <2>1. req' = req /\ req[w] = NoMap
    BY <1>1 DEF IInv, Control, Quiet, TypeOK, CheckToken
  <2>. QED
    BY <1>1, <2>1 DEF CheckToken, IInv, TypeOK, TickPhase, TickTodo, Queued, Popped, TickRunning
<1>2. CASE ~cancel
  <2>1. Popped' = Popped /\ TickRunning' = TickRunning
    BY <1>2 DEF CheckToken, IInv, TypeOK, Popped, TickRunning
  <2>. QED
    BY <1>2, <2>1 DEF CheckToken, TickPhase, TickTodo, Queued
<1>. QED
  BY <1>1, <1>2

\* Beginning Map::Update is the abstract BeginUpdate.
LEMMA ExecuteRefines ==
  ASSUME IInv, NEW w \in Workers, Execute(w) PROVE Tick!BeginUpdate
<1>1. /\ req[w] # NoMap /\ pc[w] = "execute" /\ pc' = [pc EXCEPT ![w] = "update"]
      /\ UNCHANGED <<live, sched, world, queue, req>>
  BY DEF Execute, IInv, Control
<1>2. TickRunning' = TickRunning \union {req[w]}
  BY <1>1 DEF IInv, TypeOK, TickRunning
<1>3. req[w] \in Popped /\ Popped' = Popped \ {req[w]}
  BY <1>1 DEF IInv, TypeOK, OneThreadPerMap, Popped
<1>4. req[w] \notin sched /\ req[w] \notin Queued
  BY <1>1 DEF IInv, Unscheduled, OneThreadPerMap, Queued
<1>5. req[w] \in TickTodo /\ TickTodo' = TickTodo \ {req[w]}
  BY <1>1, <1>3, <1>4 DEF TickTodo, Queued
<1>. QED
  BY <1>1, <1>2, <1>5 DEF Tick!BeginUpdate, TickPhase

\* Returning from it is the abstract EndUpdate.
LEMMA FinishRefines ==
  ASSUME IInv, NEW w \in Workers, update_finished(w) PROVE Tick!EndUpdate
<1>1. /\ pc[w] = "update" /\ pc' = [pc EXCEPT ![w] = "pop"]
      /\ req' = [req EXCEPT ![w] = NoMap] /\ req[w] # NoMap
      /\ UNCHANGED <<live, sched, queue>>
  BY DEF update_finished, IInv, Control
<1>2. req[w] \in TickRunning /\ TickRunning' = TickRunning \ {req[w]}
  BY <1>1 DEF IInv, TypeOK, OneThreadPerMap, TickRunning
<1>3. Popped' = Popped
  BY <1>1 DEF IInv, TypeOK, Popped
<1>4. TickTodo' = TickTodo
  BY <1>1, <1>3 DEF TickTodo, Queued
<1>5. TickPhase' = TickPhase
  BY DEF update_finished, NotifyWorld, TickPhase
<1>. QED
  BY <1>1, <1>2, <1>4, <1>5 DEF Tick!EndUpdate

\* With no request anywhere, nothing is left to do and nothing runs.
LEMMA NothingLeft ==
  ASSUME IInv, world # "schedule", queue = <<>>, \A w \in Workers : req[w] = NoMap
  PROVE  TickTodo = {} /\ TickRunning = {}
<1>1. sched = {} /\ Queued = {} /\ Popped = {}
  BY DEF IInv, Quiet, Queued, Popped
<1>2. TickRunning = {}
  BY DEF IInv, Control, TickRunning
<1>. QED
  BY <1>1, <1>2 DEF TickTodo
LEMMA WorldStepRefines ==
  ASSUME IInv, IInv', WorldStep PROVE Tick!TickNext \/ UNCHANGED Tick!tickVars
<1>1. CASE EnterWait
  BY <1>1 DEF EnterWait, TickPhase, TickTodo, TickRunning, Queued, Popped
<1>2. CASE wait
  BY <1>2 DEF wait, TickPhase, TickTodo, TickRunning, Queued, Popped
<1>3. CASE UnloadExpired
  <2>1. queue = <<>> /\ \A w \in Workers : req[w] = NoMap
    BY <1>3 DEF UnloadExpired, IInv, Quiet
  <2>2. TickTodo = {} /\ TickRunning = {}
    BY <1>3, <2>1, NothingLeft DEF UnloadExpired
  <2>3. UNCHANGED <<TickTodo, TickRunning>>
    BY <1>3 DEF UnloadExpired, TickTodo, TickRunning, Queued, Popped
  <2>4. live' \in SUBSET live /\ Continents \subseteq live'
    BY <1>3 DEF UnloadExpired, IInv
  <2>5. Tick!EndTick
    BY <1>3, <2>2, <2>3, <2>4 DEF UnloadExpired, TickPhase, Tick!EndTick
  <2>. QED
    BY <2>5
<1>4. CASE deactivate
  BY <1>4 DEF deactivate, TickPhase, TickTodo, TickRunning, Queued, Popped
<1>5. CASE Cancel
  <2>1. queue' = queue /\ UNCHANGED <<live, sched, req>>
    BY <1>5 DEF Cancel, IInv, Quiet
  <2>2. Popped' = Popped /\ TickRunning' = TickRunning
    BY <1>5, <2>1 DEF Cancel, NotifyAll, IInv, TypeOK, Popped, TickRunning
  <2>. QED
    BY <1>5, <2>1, <2>2 DEF Cancel, TickPhase, TickTodo, Queued
<1>6. CASE Join
  BY <1>6 DEF Join, TickPhase, TickTodo, TickRunning, Queued, Popped
<1>. QED
  BY <1>1, <1>2, <1>3, <1>4, <1>5, <1>6, ScheduleRefines DEF WorldStep

LEMMA WorldChoiceRefines ==
  ASSUME IInv, IInv', WorldChoice PROVE Tick!TickNext \/ UNCHANGED Tick!tickVars
<1>0. world = "outside" /\ UNCHANGED <<queue, req, pc>>
  BY DEF WorldChoice, StartUpdate, CreateMap, DeleteInstance, UnloadAll
<1>1. TickTodo = {} /\ TickRunning = {} /\ Queued = {} /\ Popped = {}
  <2>1. queue = <<>> /\ \A w \in Workers : req[w] = NoMap
    BY <1>0 DEF IInv, Quiet
  <2>2. TickTodo = {} /\ TickRunning = {}
    BY <1>0, <2>1, NothingLeft
  <2>. QED
    BY <2>2 DEF TickTodo
<1>2. TickRunning' = {} /\ Queued' = {} /\ Popped' = {}
  BY <1>0, <1>1 DEF TickRunning, Queued, Popped
<1>3. CASE StartUpdate
  BY <1>1, <1>2, <1>3 DEF StartUpdate, TickPhase, TickTodo, Tick!StartTick
<1>4. ASSUME \E m \in Maps : CreateMap(m) \/ DeleteInstance(m) PROVE Tick!ChangeMaps
  <2>1. /\ live' \in SUBSET Maps /\ Continents \subseteq live'
        /\ UNCHANGED <<world, sched>>
    BY <1>4 DEF CreateMap, DeleteInstance, IInv, TypeOK
  <2>. QED
    BY <1>0, <2>1, <1>1, <1>2 DEF TickPhase, TickTodo, Tick!ChangeMaps
<1>5. CASE UnloadAll
  BY <1>1, <1>2, <1>5 DEF UnloadAll, TickPhase, TickTodo, Tick!UnloadAll
<1>. QED
  BY <1>3, <1>4, <1>5 DEF WorldChoice

LEMMA SpuriousRefines == ASSUME IInv, SpuriousWake PROVE UNCHANGED Tick!tickVars
<1>1. UNCHANGED <<live, sched, queue, req>>
  BY DEF SpuriousWake
<1>2. TickPhase' = TickPhase
  BY DEF SpuriousWake, TickPhase
<1>3. Popped' = Popped /\ TickRunning' = TickRunning
  BY DEF SpuriousWake, IInv, TypeOK, Popped, TickRunning
<1>. QED
  BY <1>1, <1>2, <1>3 DEF TickTodo, Queued

LEMMA StutterRefines == ASSUME UNCHANGED vars PROVE UNCHANGED Tick!tickVars
  BY DEF vars, TickPhase, TickTodo, TickRunning, Queued, Popped

\* The worker threads, the queue and the condition variables together implement the
\* tick of MapTick: each map updated exactly once, and the barrier respected
\* (MapManager::Update).
THEOREM Refinement == Spec => ImplementsTick
<1>1. ASSUME IInv, IInv', [Next]_vars PROVE [Tick!TickNext]_(Tick!tickVars)
  <2>1. ASSUME NEW w \in Workers, WorkerStep(w)
        PROVE  Tick!TickNext \/ UNCHANGED Tick!tickVars
    BY <1>1, <2>1, PopRefines, CheckRefines, ExecuteRefines, FinishRefines DEF WorkerStep
  <2>. QED
    BY <1>1, <2>1, WorldStepRefines, WorldChoiceRefines, SpuriousRefines, StutterRefines
    DEF Next, Stopped
<1>. QED
  BY <1>1, TickInitImplied, Inductive, PTL DEF Spec, ImplementsTick, Tick!TickSpec

=============================================================================
