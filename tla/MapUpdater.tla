----------------------------- MODULE MapUpdater -----------------------------
(***************************************************************************)
(* The parallel map update: MapManager::Update on the world thread, the    *)
(* MapUpdater worker threads, the ProducerConsumerQueue between them, and  *)
(* the shutdown in MapManager::UnloadAll.  Both condition variables are    *)
(* explicit: a thread inside condition_variable::wait is "waiting" (worker)*)
(* or "blocked" (world) and leaves it on a notification or spuriously.     *)
(* A critical section of one mutex is one step.                            *)
(***************************************************************************)
EXTENDS Integers, Sequences, FiniteSets

CONSTANTS Maps,        \* map ids (continents and instances)
          Continents,  \* created at start-up, m_unloadTimer = 0: never unloaded
          Workers,     \* the threads MapUpdater::activate starts
          NoMap        \* the nullptr a worker's request starts from

ASSUME WorkersAssumption == IsFiniteSet(Workers) /\ Workers # {}
ASSUME MapsAssumption == /\ IsFiniteSet(Maps)
                         /\ Continents \subseteq Maps
                         /\ NoMap \notin Maps

VARIABLES live,      \* MapManager::i_maps
          sched,     \* maps the scheduling loop of Update has not reached yet
          world,     \* where the world thread is
          queue,     \* ProducerConsumerQueue::m_queue: the map of each worker object
          shutdown,  \* ProducerConsumerQueue::m_shutdown
          cancel,    \* MapUpdater::_cancelationToken
          pending,   \* MapUpdater::pending_requests
          pc,        \* where each worker thread is
          req        \* each worker thread's `request`

vars == <<live, sched, world, queue, shutdown, cancel, pending, pc, req>>

WorldPlaces == {"outside", "schedule", "wait", "blocked", "unload",
                "deactivate", "cancelQueue", "join", "stopped"}
WorkerPlaces == {"pop", "waiting", "check", "execute", "update", "exited"}

TypeOK == /\ live \in SUBSET Maps
          /\ sched \in SUBSET Maps
          /\ world \in WorldPlaces
          /\ queue \in Seq(Maps)
          /\ shutdown \in BOOLEAN
          /\ cancel \in BOOLEAN
          /\ pending \in Nat      \* a size_t that must not wrap below zero
          /\ pc \in [Workers -> WorkerPlaces]
          /\ req \in [Workers -> Maps \union {NoMap}]

Init == /\ live = Continents
        /\ sched = {}
        /\ world = "outside"
        /\ queue = <<>>
        /\ shutdown = FALSE
        /\ cancel = FALSE
        /\ pending = 0
        /\ pc = [w \in Workers |-> "pop"]
        /\ req = [w \in Workers |-> NoMap]

-----------------------------------------------------------------------------
(* Condition variables.  A definition headed "Fault:" is not part of the   *)
(* specification: it is a plausible wrong version of the definition after  *)
(* it, and shows that a property below can tell the two apart.             *)

\* notify_one of the queue: some waiting worker, if there is one, wakes up.
NotifyOne == IF \E w \in Workers : pc[w] = "waiting"
             THEN \E w \in Workers : /\ pc[w] = "waiting"
                                     /\ pc' = [pc EXCEPT ![w] = "pop"]
             ELSE UNCHANGED pc

\* notify_all of the queue.
NotifyAll == pc' = [w \in Workers |-> IF pc[w] = "waiting" THEN "pop" ELSE pc[w]]

\* notify_all of MapUpdater::_condition: only the world thread waits on it.
NotifyWorld == world' = IF world = "blocked" THEN "wait" ELSE world

SpuriousWake == \/ /\ world = "blocked"
                   /\ world' = "wait"
                   /\ UNCHANGED <<live, sched, queue, shutdown, cancel, pending, pc, req>>
                \/ \E w \in Workers :
                     /\ pc[w] = "waiting"
                     /\ pc' = [pc EXCEPT ![w] = "pop"]
                     /\ UNCHANGED <<live, sched, world, queue, shutdown, cancel, pending, req>>

-----------------------------------------------------------------------------
(* The world thread.                                                       *)

\* MapManager::Update once i_timer has passed.
StartUpdate == /\ world = "outside"
               /\ world' = "schedule"
               /\ sched' = live
               /\ UNCHANGED <<live, queue, shutdown, cancel, pending, pc, req>>

\* Fault: the request is pushed but not counted.
schedule_uncounted(m) ==
    /\ world = "schedule"
    /\ m \in sched
    /\ sched' = sched \ {m}
    /\ queue' = Append(queue, m)
    /\ NotifyOne
    /\ UNCHANGED <<live, world, shutdown, cancel, pending, req>>

\* One iteration of the loop over i_maps: MapUpdater::schedule_update.
schedule_update(m) ==
    /\ world = "schedule"
    /\ m \in sched
    /\ sched' = sched \ {m}
    /\ pending' = pending + 1
    /\ queue' = Append(queue, m)
    /\ NotifyOne
    /\ UNCHANGED <<live, world, shutdown, cancel, req>>

\* Fault: Update goes on to unload maps without calling wait.
EnterWait_skipped == /\ world = "schedule"
                     /\ sched = {}
                     /\ world' = "unload"
                     /\ UNCHANGED <<live, sched, queue, shutdown, cancel, pending, pc, req>>

EnterWait == /\ world = "schedule"
             /\ sched = {}
             /\ world' = "wait"
             /\ UNCHANGED <<live, sched, queue, shutdown, cancel, pending, pc, req>>

\* Fault: the last request still running is not waited for.
wait_off_by_one == /\ world = "wait"
                   /\ world' = IF pending > 1 THEN "blocked" ELSE "unload"
                   /\ UNCHANGED <<live, sched, queue, shutdown, cancel, pending, pc, req>>

\* MapUpdater::wait: the test of its loop, under _lock.
wait == /\ world = "wait"
        /\ world' = IF pending > 0 THEN "blocked" ELSE "unload"
        /\ UNCHANGED <<live, sched, queue, shutdown, cancel, pending, pc, req>>

\* The rest of MapManager::Update: every map whose CanUnload timer ran out goes.
UnloadExpired == /\ world = "unload"
                 /\ \E gone \in SUBSET (live \ Continents) : live' = live \ gone
                 /\ world' = "outside"
                 /\ UNCHANGED <<sched, queue, shutdown, cancel, pending, pc, req>>

\* CreateMap / CreateBgMap from session handlers and the battleground manager.
CreateMap(m) == /\ world = "outside"
                /\ m \notin live
                /\ live' = live \union {m}
                /\ UNCHANGED <<sched, world, queue, shutdown, cancel, pending, pc, req>>

DeleteInstance(m) == /\ world = "outside"
                     /\ m \in live \ Continents
                     /\ live' = live \ {m}
                     /\ UNCHANGED <<sched, world, queue, shutdown, cancel, pending, pc, req>>

\* MapManager::UnloadAll up to the call of deactivate.
UnloadAll == /\ world = "outside"
             /\ live' = {}
             /\ world' = "deactivate"
             /\ UNCHANGED <<sched, queue, shutdown, cancel, pending, pc, req>>

\* Fault: the queue is cancelled before the token is set.
deactivate_reordered == /\ world = "deactivate"
                        /\ queue' = <<>>
                        /\ shutdown' = TRUE
                        /\ NotifyAll
                        /\ world' = "cancelQueue"
                        /\ UNCHANGED <<live, sched, cancel, pending, req>>

\* MapUpdater::deactivate sets the token first ...
deactivate == /\ world = "deactivate"
              /\ cancel' = TRUE
              /\ world' = "cancelQueue"
              /\ UNCHANGED <<live, sched, queue, shutdown, pending, pc, req>>

\* Fault: Cancel does not notify.
Cancel_silent == /\ world = "cancelQueue"
                 /\ queue' = <<>>
                 /\ shutdown' = TRUE
                 /\ world' = "join"
                 /\ UNCHANGED <<live, sched, cancel, pending, pc, req>>

\* ... then cancels the queue: ProducerConsumerQueue::Cancel ...
Cancel == /\ world = "cancelQueue"
          /\ queue' = <<>>
          /\ shutdown' = TRUE
          /\ NotifyAll
          /\ world' = "join"
          /\ UNCHANGED <<live, sched, cancel, pending, req>>

\* ... and joins every thread.
Join == /\ world = "join"
        /\ \A w \in Workers : pc[w] = "exited"
        /\ world' = "stopped"
        /\ UNCHANGED <<live, sched, queue, shutdown, cancel, pending, pc, req>>

-----------------------------------------------------------------------------
(* A worker thread: the body of MapUpdater::WorkerThread.                  *)

\* Fault: the value is read but not popped.
WaitAndPop_peek(w) ==
    /\ pc[w] = "pop"
    /\ \/ /\ queue = <<>> /\ ~shutdown
          /\ pc' = [pc EXCEPT ![w] = "waiting"]
          /\ UNCHANGED <<queue, req>>
       \/ /\ queue # <<>> /\ ~shutdown
          /\ req' = [req EXCEPT ![w] = Head(queue)]
          /\ pc' = [pc EXCEPT ![w] = "check"]
          /\ UNCHANGED queue
    /\ UNCHANGED <<live, sched, world, shutdown, cancel, pending>>

\* ProducerConsumerQueue::WaitAndPop, from acquiring m_queueLock to giving it up.
WaitAndPop(w) ==
    /\ pc[w] = "pop"
    /\ \/ /\ queue = <<>> /\ ~shutdown
          /\ pc' = [pc EXCEPT ![w] = "waiting"]
          /\ UNCHANGED <<queue, req>>
       \/ /\ shutdown
          /\ pc' = [pc EXCEPT ![w] = "check"]
          /\ UNCHANGED <<queue, req>>
       \/ /\ queue # <<>> /\ ~shutdown
          /\ req' = [req EXCEPT ![w] = Head(queue)]
          /\ queue' = Tail(queue)
          /\ pc' = [pc EXCEPT ![w] = "check"]
    /\ UNCHANGED <<live, sched, world, shutdown, cancel, pending>>

\* The token test: on cancellation the request is deleted, never executed.
CheckToken(w) ==
    /\ pc[w] = "check"
    /\ IF cancel
       THEN /\ pc' = [pc EXCEPT ![w] = "exited"]
            /\ req' = [req EXCEPT ![w] = NoMap]
       ELSE /\ pc' = [pc EXCEPT ![w] = "execute"]
            /\ UNCHANGED req
    /\ UNCHANGED <<live, sched, world, queue, shutdown, cancel, pending>>

\* MapUpdateWorker::execute calls Map::Update on the map ...
Execute(w) == /\ pc[w] = "execute"
              /\ pc' = [pc EXCEPT ![w] = "update"]
              /\ UNCHANGED <<live, sched, world, queue, shutdown, cancel, pending, req>>

\* Fault: the world thread is not notified.
finished_silent(w) ==
    /\ pc[w] = "update"
    /\ pending' = pending - 1
    /\ pc' = [pc EXCEPT ![w] = "pop"]
    /\ req' = [req EXCEPT ![w] = NoMap]
    /\ UNCHANGED <<live, sched, world, queue, shutdown, cancel>>

\* Fault: a request is counted down twice.
finished_twice(w) ==
    /\ pc[w] = "update"
    /\ pending' = pending - 2
    /\ NotifyWorld
    /\ pc' = [pc EXCEPT ![w] = "pop"]
    /\ req' = [req EXCEPT ![w] = NoMap]
    /\ UNCHANGED <<live, sched, queue, shutdown, cancel>>

\* ... and, when that returns, MapUpdater::update_finished; the request is deleted.
update_finished(w) ==
    /\ pc[w] = "update"
    /\ pending' = pending - 1
    /\ NotifyWorld
    /\ pc' = [pc EXCEPT ![w] = "pop"]
    /\ req' = [req EXCEPT ![w] = NoMap]
    /\ UNCHANGED <<live, sched, queue, shutdown, cancel>>

-----------------------------------------------------------------------------
WorkerStep(w) == WaitAndPop(w) \/ CheckToken(w) \/ Execute(w) \/ update_finished(w)

\* What the world thread does inside MapManager::Update and during shutdown.
WorldStep == \/ \E m \in Maps : schedule_update(m)
             \/ EnterWait \/ wait \/ UnloadExpired
             \/ deactivate \/ Cancel \/ Join

\* What it does between updates: a tick, a map created or deleted, the shutdown.
WorldChoice == \/ StartUpdate
               \/ \E m \in Maps : CreateMap(m) \/ DeleteInstance(m)
               \/ UnloadAll

\* The process is down: nothing is left to run.
Stopped == world = "stopped" /\ UNCHANGED vars

Next == \/ WorldStep \/ WorldChoice \/ SpuriousWake \/ Stopped
        \/ \E w \in Workers : WorkerStep(w)

Spec == Init /\ [][Next]_vars

\* A thread that can run is eventually scheduled by the operating system.
Fairness == WF_vars(WorldStep) /\ \A w \in Workers : WF_vars(WorkerStep(w))

FairSpec == Spec /\ Fairness

-----------------------------------------------------------------------------
(* Properties.                                                             *)

Busy == {w \in Workers : req[w] # NoMap}

\* pending_requests counts exactly the requests that are queued or in some worker's
\* hands, until shutdown discards requests: neither an early return of wait nor a
\* wait that never returns (MapUpdater::wait, schedule_update, update_finished).
PendingExact == ~cancel => pending = Len(queue) + Cardinality(Busy)

\* No worker holds, and the queue holds no reference to, a map that was unloaded
\* (MapUpdateWorker keeps a plain Map&; MapManager::Update frees maps after wait).
NoDanglingMap == /\ \A w \in Workers : req[w] # NoMap => req[w] \in live
                 /\ \A i \in 1..Len(queue) : queue[i] \in live

\* Two threads never update the same map at once, and no map is queued twice.
OneThreadPerMap == /\ \A v, w \in Workers : req[v] # NoMap /\ req[v] = req[w] => v = w
                   /\ \A i, j \in 1..Len(queue) : queue[i] = queue[j] => i = j
                   /\ \A w \in Workers : \A i \in 1..Len(queue) : req[w] # queue[i]

\* WaitAndPop returns without a value after Cancel; the token test that follows it
\* always stops the worker before it would call execute on nullptr.
NoNullRequest == \A w \in Workers : pc[w] \in {"execute", "update"} => req[w] # NoMap

\* The update as a whole does what MapTick promises.
Queued == {queue[i] : i \in 1..Len(queue)}
Popped == {req[w] : w \in {v \in Workers : pc[v] \in {"check", "execute"} /\ req[v] # NoMap}}

TickPhase == IF world \in {"schedule", "wait", "blocked", "unload"} THEN "tick"
             ELSE IF world = "outside" THEN "idle" ELSE "down"
TickTodo == sched \union Queued \union Popped
TickRunning == {req[w] : w \in {v \in Workers : pc[v] = "update"}}

Tick == INSTANCE MapTick WITH phase <- TickPhase, todo <- TickTodo, running <- TickRunning

\* Every map is updated exactly once per tick and the world thread passes the barrier
\* only when all updates are over (MapManager::Update).
ImplementsTick == Tick!TickSpec

\* Every tick ends: no lost wakeup leaves the world thread inside wait.
TickEnds == world = "schedule" ~> world = "outside"

\* The shutdown ends: every worker leaves its wait and is joined.
ShutdownEnds == world = "deactivate" ~> world = "stopped"
=============================================================================
