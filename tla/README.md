# TLA+ models of the mangos-tbc server

TLA+ specifications of the parts of this World of Warcraft server (`src/`) whose
correctness depends on the order in which threads, connections and database
requests act. TLC checks every property below on small instances; for the map
update pool, transports, sessions, the database, trades and the login queue the TLA+
proof system also proves the safety properties for any number of maps, threads,
sockets, requests, players and items. All definitions are translated from the C++ code;
`PROJECT.json` gives, for each of them, the lines it stands for.

Paths below are relative to `src/src/`.

## 1. The system

`mangosd` is one process. Its threads:

| thread | runs | shared state it touches |
|---|---|---|
| world thread (`WorldRunnable`) | `World::Update`: result queues, sessions, maps | everything below |
| map threads (`MapUpdater::WorkerThread`) | `Map::Update` of one map at a time | that map; the messagers of other maps |
| network threads (asio) | `WorldSocket::ProcessIncomingData` | `m_sessions` (read), add queue, packet queues, messagers |
| one `SqlDelayThread` per database | delayed SQL | request queue, asynchronous connection, result queue |
| battleground and LFG queue threads | matchmaking | messagers to and from the world thread |

| component | state | operations | interacts with |
|---|---|---|---|
| Map update pool (`game/Maps/MapUpdater`, `shared/Util/ProducerConsumerQueue.h`) | queue, `pending_requests`, cancellation token, two condition variables | `schedule_update`, `wait`, `update_finished`, `WorkerThread`, `deactivate` | called by `MapManager::Update` and `UnloadAll` |
| Map registry (`game/Maps/MapManager`) | `i_maps` | create, delete, unload maps; the tick | pool; session handlers |
| Transports (`game/Entities/Transports`) | `Map::m_transports`, `m_pathProgress` | `Update`, `TeleportTransport` | `Messager` of the new map, other map threads |
| Sessions (`game/Server/WorldSession`, `WorldSocket`, `game/World/World`) | `m_sessions`, add queue; per session: state, socket, requested socket, timers, flags, player | connect, reconnect, login, logout, kick, update, delete | network threads, login queries, player |
| Asynchronous database (`shared/Database`) | request queue, transaction per thread, connection, result queue | `Execute`, transactions, `AsyncQuery`, `DirectExecute`, halt | all threads |
| Player limit queue (`World.cpp`) | `m_QueuedSessions`, `m_playerLimit` | add, let in, remove, change of the limit, `KickAll` | sessions |
| Trade (`game/Trade`) | two `TradeData` that point to each other | offer, accept, cancel, complete | inventories, gold; map threads through `SetPosition` |
| Battleground queue (`game/BattleGround`) | groups, free slot queue; per player and per battleground what the world knows of them | join, invite, accept, decline, time out, fill, start, end, leave | closures between its own thread and the world thread |
| LFG queue (`game/LFG`) | as the battleground queue | join, leave, match | closures, as above |
| Mail, auction house | mails, auctions, gold and items in transit | send, take, return, bid, expire | database transactions |
| Groups and loot, instances, guilds, tickets, pools | registries | bookkeeping | world thread, database |
| `realmd` | SRP6 handshake per connection | login, realm list | accounts database |
| Gateway for modern clients (`game/Hotfix`) | a second kind of socket | as `WorldSocket` | sessions |
| AI, movement, combat, spells, terrain | per unit | the game rules | one map thread each |

### What is hard here

- **Barrier and shutdown of the pool.** `wait` must not return early (maps are
  freed right after it), nor be left sleeping; the shutdown must wake everyone
  and hand no null request to a worker.
- **State that changes owner between map threads.** `m_transports` has no lock:
  ownership by thread is all that protects it.
- **Sessions seen from several threads.** A network thread looks a session up and
  uses it later; a second client takes a session over; a login query returns
  after its session was kicked, replaced or deleted; timers run out meanwhile.
- **Database order.** A character is saved asynchronously and read again at the
  next login; direct statements share the connection with delayed transactions;
  three locks are taken in different orders by the delay thread and by callers.

- **Trades.** Two objects that point at each other, changed by either player while
  gold and items change for other reasons, and a server that may die between the
  exchange in memory and the database.
- **The login queue.** Who waits and who is counted change at four places; clients
  were told their place before it changed.
- **The battleground queue.** Each of two threads acts on a copy of what the other
  one knew a moment ago: players leave, time out, travel and battlegrounds end while
  invitations, counts and removals are under way.

The complete list, line by line, with the properties that watch each item, is
`hazards` in `PROJECT.json`.

### What makes each component correct

- Pool: each existing map is updated exactly once per tick, by one thread;
  nothing is created, deleted or unloaded meanwhile; ticks and shutdown end.
- Transports: always in exactly one place, touched only by the thread that owns
  the place, moved once per tick, and delivered.
- Sessions: at most one per account in the map; socket and session point to each
  other; a replaced client is cut off; a link-dead character has its 60 seconds;
  abandoned sessions go away.
- Database: requests take effect in order and whole; a reader sees its own
  writes; every query is answered; halting flushes.
- Trade: what is exchanged is what both sides agreed to, whole or not at all, also
  after a crash; no trader keeps a trade its partner has lost.
- Login queue: nobody waits at a realm with room, nobody is let in above the limit,
  everybody knows their place and gets in at last.
- Battleground queue: an invited player can enter, an invitation ends in time and
  only by its own timer, and what is deleted is forgotten.

## 2. Modules

| module | models | abstract / composed |
|---|---|---|
| `MapTick` | what a tick promises | abstract |
| `MapUpdater` | pool, registry, tick, shutdown | implements `MapTick` |
| `MapUpdaterProofs` | theorems about `MapUpdater` | |
| `MapTransports` | transports in the parallel update | extends `MapUpdater` |
| `MapTransportsProofs` | theorems about `MapTransports` | extends `MapUpdaterProofs` |
| `WorldSessions` | the session of one account | |
| `WorldSessionsProofs` | theorems about `WorldSessions` | |
| `DelayQueue` | what the database promises its callers | abstract |
| `SqlDelay` | delay thread, transactions, result queue, halt | implements `DelayQueue` |
| `SqlDelayProofs` | theorems about `SqlDelay` | |
| `Trade` | trades, what changes under them, their saves, crash | |
| `TradeProofs` | theorems about the two sides of a trade | |
| `TradeAssetsProofs` | theorems about gold and items | extends `TradeProofs` |
| `SessionQueue` | player limit, login queue | |
| `SessionQueueProofs` | theorems about `SessionQueue` | |
| `BgQueue` | the two threads of the battleground queue | |
| `BgQueueProofs` | theorems about `BgQueue` | |
| `MC...` | values of the constants for TLC | |

A definition that follows a comment `Fault:` belongs to no specification. It is a
wrong version of the definition after it (a dropped test, a missing notification,
two lines swapped) and a property of the module must tell the two apart;
`mutants` in `PROJECT.json` pairs them.

### MapUpdater and MapTick

`live` is `i_maps`; `sched` the maps the loop of `Update` has not reached;
`queue`, `shutdown`, `cancel`, `pending` are the members of the pool; `world`,
`pc` are the positions of the threads, `req` each worker's local `request`. A
critical section is one step; `wait` of a condition variable is a state of its
own (`blocked`, `waiting`) left by notification or spuriously. `schedule_update`
nests the queue's lock in the pool's, nothing takes them the other way round, so
the pair is one step. `Cancel` and the token assignment are separate steps, since
a worker can run between them. `CreateMap` and `DeleteInstance` are world-thread
calls between ticks (session handlers, battleground manager). Which maps
`CanUnload` is left open: any set of non-continents.

Map updates appear as begin (`Execute`) and end (`update_finished`), so two of
them can overlap. `MapTick` maps `todo` to scheduled, queued or popped maps and
`running` to those inside `execute`.

### MapTransports

Adds `m_transports` of each map (`aboard`), the messages of each map's
`Messager`, the rest of the loop in `Map::Update` (`todo`) and the transports
whose `m_pathProgress` has reached this tick's time (`advanced`). One iteration of
the loop is one step, so two maps' loops interleave. The lock of `Messager` makes
`AddMessage` and the swap in `Execute` atomic; the messages then run in the
thread of their map, before anything else can see that map. A path leads from
any continent to any other one; passengers are left out.

### WorldSessions

One account. A `WorldSession` object is named after the socket that created it;
`alive` are the objects not deleted, `m_sessions` the one in the map.
`HandleAuthSession` is two steps: the look-up (`FindSession`) and what follows
from it (a refusal for the platform or the addon data, a message, a new session). One `WorldSession::Update` is `ExecuteMessages`, `SwapRecvQueue`, one
`ExecuteOpcode` per packet and `UpdateState`, with network steps in between. A
result of a login query is `LoginCallback`. Packets are of three kinds: the login,
logout (request or cancel), other opcodes of the character list. Times are phases
of the two timers (`fresh`, 20 seconds, 60 seconds; the 15 minutes at the
character list are `set` and `due`); time passes between two world updates, which
take 50 ms in the code. Being away for 15 minutes is a possible logout at any
`UpdateReady`.

Assumed of the client: one `CMSG_PLAYER_LOGIN` until it is told it is back at the
character list. Left out: the player limit (see `SessionQueue`; here `m_inQueue` is
false), modern sockets, far teleports and `m_playerSave` (the models say whether a
player is in the world, not whether it was saved). `m_playerLoading` is only true
inside a handler. A message posted to a deleted session is undefined behaviour in
the code; the model continues with the mildest outcome, the message is lost.
Sessions that are refused by `AddSession_`, or created with bad addon data, stay
in `alive`: the code never deletes them.

### SqlDelay and DelayQueue

One database at run time, after `AllowAsyncTransactions`. A client is a thread;
`transaction` is the thread-local `m_currentTransaction`. The delay thread holds
`m_queueMutex` while it moves the queue to its local copy, the connection during a
transaction or a query and while it waits for the lock of the result queue. The
world thread holds that lock during `SqlResultQueue::Update`, callbacks included,
which may delay further operations. Every statement may fail (`Refused`,
`StatementFails`); the code does not look at the result of `Execute` in the delay
thread, so a failed operation is simply gone (`lost`). The result of
`START TRANSACTION` is ignored too; connections do not reconnect by themselves, so
one that refuses it refuses the statements as well. Queries go to the queue even
inside a transaction and so overtake it, as in the code. `after` in a query is a
history variable: what its thread had delayed before. A direct statement that
fails changes nothing and is omitted.

Shutdown is `HaltDelayThread`: after the world thread has ended, `Stop`, the
loop's end, and the destructor's last `ProcessRequests` (`flush`). Other threads
may still delay operations while the thread stops. Left out: `Ping`, the pool of
synchronous connections, prepared statements' registration, the start-up phase in
which everything is direct.

### Trade

`trade[p]` is `Player::m_trade`: partner, acceptance, gold, items per slot, spell.
The last slot is the one that is not traded; an item in it is the target of the
partner's spell. Each handler is an action; `HandleAcceptTradeOpcode`, which has
seven ways out, is one action for each. The tests that do not depend on what the
module knows (distance, what makes an item untradable, whether a spell can be cast)
may go either way. `SetAccepted` comes before the tests, as in the code, so the ways
out differ in whose acceptance they leave; `AcceptUntradable` leaves it (line 306).
`MoveSlot` follows `moveItems` and its failure to place both items of a slot.

Gold and items have a value in memory and one in the database, and saves wait in
the order they were committed, which is what `SqlDelay` shows of them; `ExecuteSave` puts
the rows of the oldest one into the tables (`Written`). `Spend`,
`Earn` and `SendItem` stand for all that changes gold or items between packets.
`Crash` takes memory and the waiting saves away at any moment. `minted` counts the
gold that may exist; an exchange adds nothing to it, so `DbMintsNothing` fails as
soon as one half of an exchange can be in the database without the other.
Two history variables: `agreed` is what a player's window showed when they
accepted, `minted` is the above.

### SessionQueue

`AddSession`, `FirstUpdate` and `EndSession` are what `World::UpdateSessions` does to
one session, in any order. `told` is the last place sent to the client. The
population in the database, account records and the state of a session beyond
"created" and "selection" are left out. `Admits` and `FirstTold` are the two
decisions of `RemoveQueuedSession`; the code gives a place away only there. What that
means is in the exceptions of `QueueAdvances`: a raised limit lets nobody in before
the next session ends, and then one for each; a negative limit lets nobody in; with
more game masters than the limit the queue stands still; and if the realm is empty
when it is opened again, those who wait have nobody to wait for.

### BgQueue

Every closure one thread sends the other is a record in `toQueue` or `toWorld`, and
its execution is an action. The two messagers are the only link, as in the code,
except that the numbers of new instances come from `MapManager`, whose
`i_MaxInstanceId` only the queue's thread changes here; other callers would make gaps. A group is one player's request to join; its
`number` among the player's requests stands for `removeInviteTime`, since later
invitations have later times. `bgInstanceID`, `away` and `m_bgBattleGroundQueueID` are
what the world knows of a player, `m_bgFreeSlotQueue` what the queue thread knows of a
battleground. A player between two maps (`away`) is not found by `GetPlayer`, so a
message for them is lost. `invited` counts are unsigned and wrap at `MaxCount`.

Whether a player is invited is tested by the queue's thread, not by the handler of his
packet: an entry that nobody was invited to is sent and refused there, and an invited
deserter who wants to enter is removed as if he had left. A second request to join that
is sent before the first is answered leaves the first group in the queue with nobody to
answer for it, in the model as in the code: no property is about that group, but its
player is still sent to one battleground only (`AcceptsOnce`), which is also why the
`RemovePlayerAtLeave` of a player who enters has nothing to do here and is not modelled.

Battlegrounds start and end at any time while somebody is inside. `Update` is whole,
as the thread executes no message within it: it fills the open battlegrounds one after
the other (`FillAll`), each with its teams' groups, oldest first (`InviteGroups`), and starts a new one when both teams have enough. Abstracted: the pools
of `FillPlayersToBg` for `InvitationType` 0 and single players reduce to the first
groups of each team; waiting times, announcements and status packets are not state.
Left out: see section 6.

## 3. Runs

| run | instance | states | checks |
|---|---|---|---|
| `map_update` | 1 continent, 2 instances, 2 workers | 1,557 | `TypeOK`, `PendingExact`, `NoDanglingMap`, `OneThreadPerMap`, `NoNullRequest`, `ImplementsTick`, `TickEnds`, `ShutdownEnds` |
| `map_transports` | 2 continents, 1 instance, 2 transports, 2 workers | 37,792 | `TransportTypeOK`, `TransportInOnePlace`, `OwnThreadOnly`, `OneHopPerTick`, `TransportArrives` |
| `sessions` | 2 connections, 2 logins, 1 kick, 1 waiting packet | 368,904 | `SessionTypeOK`, `OfflineGrace`, `SessionsDrain` |
| `sessions_three` | 3 connections (symmetric), 1 login | 345,049 | `SocketBacklink`, `SessionsAlive`, `NoOrphanConnection` |
| `sql_delay` | world thread with 2 operations, another one with 1, 2 statements per transaction | 91,773 | `SqlTypeOK`, `ReadYourWrites`, `ImplementsDelayQueue`, `QueriesAnswered`, `HaltFlushes` |
| `trade` | 3 players, 2 items, 1 spell, 1 traded slot, bags of 1, gold up to 1, 1 other change, 1 waiting save (symmetric) | about 201,000 | `TradeTypeOK`, `TradeSymmetric`, `AcceptedAsShown`, `FairExchange`, `DbMintsNothing` |
| `session_queue` | 2 players, 2 game masters, limits -1, 0, 1, 2, 2 changes | 18,002 | `SessionQueueTypeOK`, `WaitsOnlyWhenFull`, `ToldPlace`, `AdmitsWithinLimit`, `QueueAdvances` |
| `bg_queue` | 1 player a side with 2 joins and 1, teams of 1 to 2 | 679,381 | `BgQueueTypeOK`, `BgInQueue`, `AcceptsOnce`, `PlacesCounted`, `ExpiresOwnInvitation`, `InvitationEnds` |
| `bg_ghost` | as `bg_queue` | | finds a counterexample to a comment, see below |
| `session_defer_race`, `one_character`, `recent_logout` | as `sessions` | | find a counterexample to what a comment says, see below |

Why these bounds are enough to be interesting. *Pool*: two workers and three maps
give more maps than threads, a full and an empty queue, overlapping updates and a
worker waiting while another one is cancelled. The proofs remove the bound.
*Transports*: two continents updated at once, either before the other, two
transports crossing. *Sessions*: two connections are a client and its
replacement; three add a takeover during a takeover and three racing first
connections; two logins are needed for the second login query, a kick for the
races with a pending one. `MaxRecv` bounds only packets waiting at once, and
batches are drained and refilled without limit. *SQL*: two threads on one
connection, a transaction of two statements so that it can fail between them, and
a callback that delays. The `sessions` runs do not check for deadlock: when all
connections are used up the server is idle for good. The others do; `Stopped` and
`Halted` mark the ends of their processes.
*Trade*: a third player can ask or be asked while two trade; bags of one make every
exchange depend on what leaves them, gold up to one makes the cap bite; one change
from outside is one between offer and acceptance, or between the two acceptances.
*Login queue*: two who wait behind game masters that fill or overfill the realm; two
changes are a limit that is lowered and raised again. *Battleground queue*: one player
a side starts a battleground and leaves a place free in it, so that the second join
of the first player is an invitation to a battleground that is running, ending or
gone; his two joins are also what can make more than one of a side be invited. `MaxPending = 1` lets players and battlegrounds act only when the queue's thread
owes at most that many executions, and `MaxAhead = 0` lets that thread go on when the
world has executed what it was sent: the world may still act between a message's
sending and its execution in the other direction. Two larger instances were explored
once without the liveness property and with no error: two joins each (9.5 million
states, two battlegrounds) and three players with one join each (2.5 million). The
`bg_queue` runs do not check for deadlock: players need not join again.

What the properties say, and what breaks them, is in the comment above each.
In short: the pool is a faithful barrier even with spurious wakeups and a shutdown
at any time between ticks; the thread that updates a map changes the transports of
that map and of no other, whatever the other threads are doing, and
the "same tick" test in `Transport::Update` is what keeps a transport from moving
twice; the takeover of a session keeps its links consistent in every order of
disconnects; the database is one ordered queue as long as transactions hold the
connection, and releasing the request queue before executing is what avoids the
deadlock its comment mentions.

### Disagreements between code and comments

- `session_defer_race`. "defer operation to session thread context to avoid any
  race conditions" (`game/Server/WorldSocket.cpp:527`). The pointer comes from an
  unsynchronised look-up, and the world thread can delete the session before the
  operation is posted to it.
- `one_character`. "Since each account can only have one online character at any
  given time" (`game/Server/WorldSession.cpp:874`). Nothing stops a second login
  query while the first is pending: a client logs in, loses its connection, a new
  one takes the session over, logs in as well, and both results arrive. The second
  `Player` replaces the first, which stays in the world.
- `recent_logout`. "if the player has just logged out, there is no need to do
  anything here" (`game/Server/WorldSession.cpp:693`). A logout at the character
  list, for instance a kick while the login query is pending, sets
  `m_playerRecentlyLogout`; then the player arrives and cannot be logged out until
  the next packet of the character list clears the flag. `SessionsDrain` names this
  as the one way in which a session without clients may stay.

- `bg_ghost`. `RemovedFromBgFreeSlotQueue` is "Method that removes this battleground
  from free queue - it must be called when deleting battleground"
  (`game/BattleGround/BattleGround.cpp:1549`). It sends the removal only if
  `m_hasBgFreeSlotQueue` is set, which `Reset` clears and only a participant who leaves
  sets, while the queue thread makes the entry at `BattleGroundQueue.cpp:1036`, before
  the battleground exists. If both players who were invited decline, the battleground
  is deleted and its entry stays; later players are invited to it, and only their
  timers (or "enter", which leads nowhere) get them out. The same missing flag makes the
  first leave add a second entry. That the first entry is never removed is also all
  that keeps the assertion at `BattleGroundHandler.cpp:488` true: the mutant of
  `BgInQueue` sets the flag at the start, and an invited player then finds no entry.

A smaller one, without a run: the comment at `WorldSession.cpp:601` gives a
disconnected player 20 seconds, `ShouldDisconnect` 60. `OfflineGrace` follows the code. Two more
of the login queue: `mangosd.conf.dist.in:149` says that game masters are not counted
in the limit, but `AddSession_` and `RemoveQueuedSession` count them; and a client may
be sent a new place (`SendAuthWaitQue`) before its first `SendAuthQueued`, when a
session ends between `AddSession_` and its first update, against the comment at
`WorldSession.cpp:1063`.

And one of the battleground queue, without a run. "change ahead of free slot queue - will be
synched again after" (`game/BattleGround/BattleGround.cpp:1284`) is said of the count of
invited players that the world lowers when a participant leaves. The first who leaves makes
the world send an entry with its own counts, which the queue takes over without an answer.
When a count of the queue is under way at that moment (an invited player of the other side
has just logged out, say), the world applies it later and the entry never learns of it:
with nothing left to execute, the entry counts a player who is not there, and sends
the wrong count to the world with its next change. This is why `PlacesCounted` is stated of
battlegrounds that nobody has left yet.

## 4. Fairness

- *Pool and transports*: weak fairness of each thread inside `MapManager::Update`
  and the shutdown (the operating system schedules runnable threads; locks are held
  for a moment only). Starting a tick is fair only for transports, where a later
  tick must deliver the message: the world loop calls `Update` until it shuts down.
  Map creation and the shutdown are not fair.
- *Sessions*: the world loop keeps updating; a handler that is running returns;
  time passes. Time is strongly fair because it is only read between updates, where
  it is enabled again and again. Clients owe nothing: `SessionsDrain` starts where
  all of them are gone.
- *SQL*: threads run; a mutex that keeps being released is granted at last (strong
  fairness of the delay thread and of a blocked callback); the world loop keeps
  calling `ProcessResultQueue` and commits the transactions it begins, within one
  handler in the code. Other threads and the shutdown owe nothing.
- *Login queue*: `UpdateSessions` updates every session, so first updates happen. That
  those who play stop playing at last is an assumption about the players; without it
  nobody need ever be let in. Those who wait owe nothing.
- *Battleground queue*: both threads run for ever (their loops end with the server), and
  a player's own events run with the map they are on. Fairness of the update of the
  queue asks only that the schedule is cleared. No player owes an answer:
  `InvitationEnds` is about those who give none.
- *Trade*: no liveness. A trade may stay open for ever.

## 5. Proofs

`MapUpdaterProofs` proves, for any finite set of maps, any set of continents in it
and any finite non-empty set of workers (`MapsAssumption`, `WorkersAssumption`):

| theorem | states |
|---|---|
| `Inductive` | the invariant below holds in every reachable state |
| `TypeCorrect` | `Spec => []TypeOK` |
| `PendingCorrect` | `Spec => []PendingExact` |
| `NoDangling` | `Spec => []NoDanglingMap` |
| `MapExclusive` | `Spec => []OneThreadPerMap` |
| `NoNull` | `Spec => []NoNullRequest` |
| `Refinement` | `Spec => ImplementsTick` |

None of the safety properties is inductive by itself. The inductive invariant `IInv`
adds four facts to `TypeOK`, `PendingExact`, `NoDanglingMap` and `OneThreadPerMap`:

- `Quiet`: outside the window from the first `schedule_update` to the return of
  `wait`, no request is queued or held. `NoDanglingMap` needs it, because that is when
  maps are dropped; `PendingExact` yields it at the barrier (`pending = 0`).
- `Unscheduled`: a map still to be scheduled exists and is neither queued nor held.
  `OneThreadPerMap` needs it when the map is scheduled.
- `Control`: where a worker has a request and where it has none, and that the token
  is set before the queue is shut down. `NoNullRequest` needs it.
- `Kept`: continents stay until the shutdown. The refinement needs it.

One lemma per kind of action shows that `IInv` is preserved.
The counting in `PendingExact` rests on the
library's theorems on the cardinality of finite sets. The refinement theorem has
one step per action: it maps to the `MapTick` action of that name or to a stutter.

`TradeProofs` proves of `Trade`, for any finite sets of players and items, any spells,
number of slots, size of bags and bounds on gold, changes and waiting saves
(`TradeSetsAssumption`, `TradeBoundsAssumption`, `TradeInitAssumption`, and
`TradeNoneAssumption`: no trade is not a trade):

| theorem | states |
|---|---|
| `TradeInductive` | the invariant below holds in every reachable state |
| `SymmetryHolds` | `Spec => []TradeSymmetric` |
| `AcceptanceHolds` | `Spec => []AcceptedAsShown` |

Its `IInv` is the two properties and the shape of `trade`; `AcceptedAsShown` needs
`TradeSymmetric`, since a window shows the partner's side and a step of the partner must
be known to withdraw *both* acceptances, and those of nobody else. Two lemmas carry the
argument. `PairStep`: a step of p that touches its own pair only, and either clears both
accept flags or changes no offer and sets no flag but p's, preserves `IInv`. `EndStep`: so
does a step that takes both sides of p's trade away. The lemmas about `Unaccept`,
`SetSpell`, `SetMoney` and `SetItem` show that every change of an offer is of the first
form, through the nested calls of `SetItem` (which forgets the spells of both).

`TradeAssetsProofs` proves of the same module, from the same assumptions:

| theorem | states |
|---|---|
| `AssetsInductive` | the invariant below holds in every reachable state |
| `TradeTypes` | `Spec => []TradeTypeOK` |
| `NothingMinted` | `Spec => []DbMintsNothing` |
| `ExchangeIsFair` | `Spec => FairExchange` |

`AInv` adds to `IInv` of `TradeProofs` that all is typed (`Typed`), that an item is in one
slot of a window at most (`Distinct`) and that the books balance (`Books`). `Books` is what
makes `DbMintsNothing` inductive: there is a ledger `h` whose entry `h[k]` is what the tables
hold after `k` of the waiting saves, and no entry, nor what everybody would have if he also
saved the gold he carries where that is more, exceeds what was minted. A sum over players is
a fold, which no backend can unfold: `GoldOf` is shown equal to the number of coins, pairs of
a player and a number up to his gold, so that the theorems on cardinalities apply. The fold
of `moveItems` over the slots is treated slot by slot (`MoveSlotFact`, `Room`); that it never
meets full bags once the handler's test passed is part of the proof of `ExchangeIsFair`.

`MapTransportsProofs` proves, for any finite set of transports (`TransportsAssumption`) and
the pool's assumptions, with the pool's `IInv` as a lemma:

| theorem | states |
|---|---|
| `TransportInductive` | `TSpec => [](IInv /\ TInv)` |
| `TransportTypesHold` | `TSpec => []TransportTypeOK` |
| `OnePlaceHolds` | `TSpec => []TransportInOnePlace` |
| `OwnThreadHolds` | `TSpec => OwnThreadOnly` |
| `OneHopHolds` | `TSpec => OneHopPerTick` |

`TInv`: a loop over transports runs only while its map is updated, and what it has still to
reach is on that map (`Loops`); until the shutdown every transport is in some map or message
(`Somewhere`) and in one only (`Once`). `Loops` needs `OneThreadPerMap` of the pool, which
keeps a second thread off a map's list, and `Quiet`, by which no loop runs when
`UnloadAll` drops the maps with their lists. `OwnThreadOnly` names the worker whose step it is
(`RunsMapUpdate`: its loop begins or goes on) and follows from these, one action at a time.

`SqlDelayProofs` proves, for any finite set of clients (`ClientsAssumption`) and any bounds
(`SqlBoundsAssumption`):

| theorem | states |
|---|---|
| `SqlInductive` | `Spec => []IInv` |
| `SqlTypes` | `Spec => []SqlTypeOK` |
| `ReadsOwnWrites` | `Spec => []ReadYourWrites` |
| `QueueRefinement` | `Spec => ImplementsDelayQueue` |

`IInv` adds to the two invariants where the delay thread is and what it then holds
(`Places`), that each statement belongs to the request and the client it is found under
(`Requests`, `Transactions`), and `Ordered`: what a request relies on has taken effect, or
is in front of it in the batch, or in the queue. `ReadYourWrites` is its last instance, at
the moment the query runs; `Places` is needed since a batch and the queue are one sequence
only while the thread is not between the two.

`WorldSessionsProofs` proves, for any finite set of sockets and any bounds
(`SocketsAssumption`, `BoundsAssumption`):

| theorem | states |
|---|---|
| `SessionInductive` | `Spec => [](IInv /\ Counted)` |
| `SessionTypes` | `Spec => []SessionTypeOK` |
| `NoDanglingSession` | `Spec => []SessionsAlive` |
| `Backlink` | `Spec => []SocketBacklink` |
| `NoOrphan` | `Spec => NoOrphanConnection` |
| `Grace` | `Spec => OfflineGrace` |

`IInv`: a session is made once, by the socket it is named after (`Born`); the world thread
is inside `Update` only while there is a session (`InUpdate`); every socket a session holds,
has been asked to take or has in a message points back at it, and is in one of these places
only (`HeldOK`); a session without connection has no socket and no packets (`Silent`). `HeldOK` covers the three
places a socket can be in while it changes hands, which is why `SocketBacklink` alone is not
inductive. `Counted` bounds the login queries under way and the login packets not executed yet by the
logins sent; the bound on `holders` in `SessionTypeOK` needs it.

`SessionQueueProofs` proves, for any finite set of accounts, any game masters among them and
any limits, negative ones included (`QueueSetsAssumption`, `QueueBoundsAssumption`):

| theorem | states |
|---|---|
| `QueueInductive` | `Spec => []IInv` |
| `QueueTypes` | `Spec => []SessionQueueTypeOK` |
| `NobodyWaitsForAFreePlace` | `Spec => []WaitsOnlyWhenFull` |
| `ToldRight` | `Spec => []ToldPlace` |
| `AdmissionInTurn` | `Spec => AdmitsWithinLimit` |

`IInv` adds to the three invariants that those in the queue have `m_inQueue` (`Waiters`), that
an account without a session was told nothing (`Untold`), and that what is remembered of a
raised limit is about those who wait now (`Remembers`). Places are positions in a sequence from which an
element in the middle is removed: the lemmas say what that does to the positions behind it.

`BgQueueProofs` proves, for any finite set of players on two sides, teams of any size, and any
number of messages under way (`BgPlayersAssumption`, `BgBoundsAssumption`):

| theorem | states |
|---|---|
| `BgInductive` | `Spec => []ListInv` |
| `EntryFound` | `Spec => []BgInQueue` |
| `TimerInductive` | `Spec => [](ListInv /\ TimerInv)` |
| `OwnTimer` | `Spec => ExpiresOwnInvitation` |
| `BgHolds` | `Spec => [](ListInv /\ TimerInv /\ Attends /\ Expected)` |
| `BgTypesHold` | `Spec => []BgQueueTypeOK` |
| `PlacesHold` | `Spec => []PlacesCounted` |
| `OnceHolds` | `Spec => []AcceptsOnce` |

`BgInQueue` is about the queue's thread, but what keeps it true is what the world's thread
sends. `ListInv` therefore says of every message under way what its execution will need
(`Listed`). Every number the queue has given out has an entry (`InQueue`). A battleground that
has `m_hasBgFreeSlotQueue` set has two, or its second is under way; a message that
removes an entry is of a battleground that is over and will not send another one, and
has that second entry in the list or in front of it. `OnItsWay` says that numbers
reach the world only after they were given out, each once. `Grouped` (a player of
the queue has a group) and the types complete it. An update is a loop over entries and
groups: `Filled` is what each turn of it keeps, and the loop, a recursive function, is
treated by its least counterexample.

`ExpiresOwnInvitation` needs to know where the timer of an invitation can be: in the message
that starts it, among the events of its player, in the message that says it has fired, or in
the message that asks the queue to end the invitation. `TimerInv` says that of each group of a
player there is at most one (`Alone`) and none before the group is invited (`Free`). A number
has to tell groups apart for that: no two groups have one (`OneGroup`), a number under way is
higher than all that were used (`Below`), and those under way are in turn (`InTurn`). Most steps
only shift messages and drop a group or a timer (`PlainStep`); those that join, invite or move a timer
have a lemma each.

`BgQueueTypeOK` relates what the two threads know of a player and of a battleground, neither
of which reads the other's state, so its invariant is again about the messages between them.
`Attends` says of each player that he who has left the queue for a battleground
stays out of it: once the message that brings him there is under way, or he is inside, he has no
group and no request to join (`Moving`, `Seated`), there is one such message at most, and an
answer of his that is executed before a later request to join finds him out of the queue
and is refused (`Ordered`). Without `Ordered` an old answer could take the place of
a new request's. `Expected` says that an entry is never full (`Roomy`).
A battleground sends the queue an entry once, when its first participant leaves, so it must
not have had more participants than fit until then. Neither thread counts that: it follows
from what the queue counted when it invited them. As long as nobody has left a battleground
(`FreshOnes`), the queue has a single entry of it (`Single`), whose invited of each side are
no fewer than those invited, on their way and inside together, and no more than a team
(`Bounded`), and the world has sent nothing about it (`AboutStale`). After that the counts
may drift (the decrease for an answer and that for a player who leaves cross on their
way, section 3), so the bound is stated of fresh battlegrounds only, and the invariant claims
no such bound of the others. `PlacesCounted` is that bound, in the terms of the model, and
`AcceptsOnce` is `Moving` for those who have accepted.

Only model-checked: every liveness property. Liveness under fairness and `ENABLED` are beyond the proof system's
backends. So are the library's theorems on induction, which take an operator as a
parameter; where a proof needs induction over a finite set or a sequence (the two folds of
`Trade`, the loops of `BgQueue`) it uses the least counterexample, from the well-foundedness of `<` on the numbers
and of inclusion on the finite sets. There are no recursive operators.

## 6. Not modelled, and the plan

Modelled so far: the pool, transports, sessions, the database, trade, the login queue
and the battleground queue. Parts of these that are not:

- Battleground queue: groups, premade matches, arenas (and their rating ranges),
  invitation types 1 and 2, several types and brackets, and players who log in again
  into a battleground. The last ones share the messages modelled; groups share
  `AddGroup` and the removal of each member.
- Trade: stacks (an offered stack that is split changes what is worth the same to the
  model), the race of `SetPosition` on a map thread with packets of the partner.
- Sessions and the login queue are two modules: the state of a session beyond its first
  update does not change the queue.

Next, in this order: `Mail` and `Auction` (conservation across the transactions each
uses; mailed gold and its sender are saved in two); the LFG queue, in the manner of
`BgQueue`; group loot, instance resets, event processor, `realmd`.

Left out for good: AI, movement, combat, spells, terrain and path finding (large
sequential rules over floating point data, no interleaving inside one map), the
gateway for modern clients and `realmd`'s cryptography, player bots (optional
build), content scripts, vendored code (`dep`), tools (`contrib`).
