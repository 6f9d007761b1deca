---------------------------- MODULE SessionQueue ----------------------------
(***************************************************************************)
(* The player limit and the login queue of World: which sessions are let   *)
(* in, which wait, what they are told of their place, and what a session   *)
(* that ends, a new limit or the end of the server does to those who wait. *)
(* World::UpdateSessions adds the new sessions and then updates each       *)
(* session; here every addition and every update is a step, in any order.  *)
(***************************************************************************)
EXTENDS Integers, Sequences, FiniteSets, SequencesExt

CONSTANTS Accounts,
          GameMasters,   \* accounts with security above SEC_PLAYER
          Limits,        \* bound: values given to m_playerLimit
          MaxChanges,    \* bound: changes of m_playerLimit
          None

ASSUME QueueSetsAssumption == IsFiniteSet(Accounts) /\ GameMasters \subseteq Accounts
ASSUME QueueBoundsAssumption == Limits \subseteq Int /\ Limits # {} /\ MaxChanges \in Nat
                                /\ None \notin Nat /\ None \notin {"created", "selection"}

VARIABLES m_sessions,        \* the state of each account's session, None without one
          m_QueuedSessions,
          m_inQueue,         \* WorldSession::m_inQueue
          told,              \* the last place in the queue sent to the client, 0 for AUTH_OK
          m_playerLimit,
          changes,           \* of m_playerLimit
          raised,            \* history: since the queue was last empty the limit was raised,
                             \* or removed (0), or became one of security (negative)
          stopping           \* KickAll has been called

vars == <<m_sessions, m_QueuedSessions, m_inQueue, told, m_playerLimit, changes, raised, stopping>>

Sessions == {a \in Accounts : m_sessions[a] # None}
GetActiveSessionCount == Cardinality(Sessions) - Len(m_QueuedSessions)
GetPlayerAmountLimit == IF m_playerLimit >= 0 THEN m_playerLimit ELSE 0

\* Place of a in a queue, from 1; 0 if it is not there.
GetQueuedSessionPos(queue, a) == LET at == {i \in DOMAIN queue : queue[i] = a}
                                 IN  IF at = {} THEN 0 ELSE CHOOSE i \in at : \A j \in at : i <= j

Init == /\ m_sessions = [a \in Accounts |-> None]
        /\ m_QueuedSessions = <<>>
        /\ m_inQueue = [a \in Accounts |-> FALSE]
        /\ told = [a \in Accounts |-> None]
        /\ m_playerLimit \in Limits
        /\ changes = 0
        /\ raised = FALSE
        /\ stopping = FALSE

-----------------------------------------------------------------------------

\* History: nobody waits any more, so nobody waits because of an old limit.
Forget == raised' = (raised /\ m_QueuedSessions' # <<>>)

\* Fault: one session more than the limit is let in.
IsFull_late(a) == LET others == Cardinality(Sessions \ {a})
                  IN  GetPlayerAmountLimit > 0 /\ others > GetPlayerAmountLimit

\* The sessions besides the new one, those that wait included, reach the limit.
IsFull(a) == LET others == Cardinality(Sessions \ {a})
             IN  GetPlayerAmountLimit > 0 /\ others >= GetPlayerAmountLimit

\* AddSession_ of an account that has no session; one that has is refused before anything
\* changes.  Accounts above SEC_PLAYER never wait.
AddSession(a) ==
    /\ a \notin Sessions
    /\ m_sessions' = [m_sessions EXCEPT ![a] = "created"]
    /\ LET wait == IsFull(a) /\ a \notin GameMasters
       IN  /\ m_inQueue' = [m_inQueue EXCEPT ![a] = wait]
           /\ m_QueuedSessions' = IF wait THEN Append(m_QueuedSessions, a) ELSE m_QueuedSessions
    /\ Forget
    /\ UNCHANGED <<told, m_playerLimit, changes, stopping>>

\* The first WorldSession::Update: SendAuthQueued or SendAuthOk.
FirstUpdate(a) ==
    /\ m_sessions[a] = "created"
    /\ m_sessions' = [m_sessions EXCEPT ![a] = "selection"]
    /\ told' = [told EXCEPT ![a] = IF m_inQueue[a] THEN GetQueuedSessionPos(m_QueuedSessions, a)
                                                   ELSE 0]
    /\ UNCHANGED <<m_QueuedSessions, m_inQueue, m_playerLimit, changes, raised, stopping>>

\* Fault: the session that ends is still counted as a player.
Admits_counted(sessions, found) == m_playerLimit = 0 \/ sessions < m_playerLimit

\* Whether RemoveQueuedSession lets the first in the queue in.  sessions: the active ones,
\* with the one that ends unless that one waited.
Admits(sessions, found) == LET left == IF ~found /\ sessions > 0 THEN sessions - 1 ELSE sessions
                           IN  m_playerLimit = 0 \/ left < m_playerLimit

\* Fault: after one is let in, the update of the places goes on from where it was.
FirstTold_kept(at, admits) == IF at > 0 THEN at ELSE Len(m_QueuedSessions) + 1

\* The first place that is sent again: everybody moves up if one is let in, else those
\* behind the one that was removed.
FirstTold(at, admits) == IF admits THEN 1 ELSE IF at > 0 THEN at ELSE Len(m_QueuedSessions) + 1

\* UpdateSessions when Update returns false: RemoveQueuedSession, erase, delete.
EndSession(a) ==
    /\ m_sessions[a] = "selection"
    /\ LET at     == GetQueuedSessionPos(m_QueuedSessions, a)
           rest   == IF at > 0 THEN RemoveAt(m_QueuedSessions, at) ELSE m_QueuedSessions
           admits == rest # <<>> /\ Admits(GetActiveSessionCount, at > 0)
           queue  == IF admits THEN Tail(rest) ELSE rest
           next   == IF admits THEN {Head(rest)} ELSE {}
       IN  /\ m_QueuedSessions' = queue
           /\ m_inQueue' = [b \in Accounts |-> m_inQueue[b] /\ b \notin {a} \union next]
           /\ told' = [b \in Accounts |->
                        IF b = a THEN None
                        ELSE IF b \in next THEN 0
                        ELSE LET place == GetQueuedSessionPos(queue, b)
                             IN  IF place >= FirstTold(at, admits) THEN place ELSE told[b]]
    /\ m_sessions' = [m_sessions EXCEPT ![a] = None]
    /\ Forget
    /\ UNCHANGED <<m_playerLimit, changes, stopping>>

\* From the configuration, read again, or from the command "server plimit": nobody is let
\* in, whatever the new limit.
SetPlayerLimit(limit) ==
    /\ changes < MaxChanges /\ limit # m_playerLimit
    /\ changes' = changes + 1
    /\ m_playerLimit' = limit
    /\ raised' = (raised \/ (m_QueuedSessions # <<>> /\ (limit > m_playerLimit \/ limit <= 0)))
    /\ UNCHANGED <<m_sessions, m_QueuedSessions, m_inQueue, told, stopping>>

\* Fault: the kicked sessions stay in the queue.
KickAll_queued == /\ ~stopping
                  /\ stopping' = TRUE
                  /\ m_sessions' = [a \in Accounts |-> None]
                  /\ UNCHANGED <<m_QueuedSessions, m_inQueue, told, m_playerLimit, changes, raised>>

\* KickAll of CleanupsBeforeStop: the queue is cleared, the sessions end at their next
\* update.
KickAll == /\ ~stopping
           /\ stopping' = TRUE
           /\ m_QueuedSessions' = <<>>
           /\ Forget
           /\ UNCHANGED <<m_sessions, m_inQueue, told, m_playerLimit, changes>>

Next == \/ \E a \in Accounts : AddSession(a) \/ FirstUpdate(a) \/ EndSession(a)
        \/ \E limit \in Limits : SetPlayerLimit(limit)
        \/ KickAll

\* World::Update updates every session; that those who play stop playing at last is an
\* assumption about the players.
Fairness == \A a \in Accounts : /\ WF_vars(FirstUpdate(a))
                                /\ WF_vars(EndSession(a) /\ ~m_inQueue[a])

Spec == Init /\ [][Next]_vars /\ Fairness

-----------------------------------------------------------------------------
(* Properties.                                                             *)

\* Types; and the queue holds no session that was deleted and none twice, and those whose
\* m_inQueue says so, whose packets are dropped, until the server stops.
SessionQueueTypeOK ==
    /\ m_sessions \in [Accounts -> {"created", "selection", None}]
    /\ m_QueuedSessions \in Seq(Sessions \ GameMasters) /\ IsInjective(m_QueuedSessions)
    /\ m_inQueue \in [Accounts -> BOOLEAN]
    /\ told \in [Accounts -> 0..Cardinality(Accounts) \union {None}]
    /\ m_playerLimit \in Limits /\ changes \in 0..MaxChanges
    /\ raised \in BOOLEAN /\ stopping \in BOOLEAN
    /\ \A a \in Accounts : m_inQueue[a] => a \in Sessions
    /\ ~stopping => ToSet(m_QueuedSessions) = {a \in Accounts : m_inQueue[a]}

\* Unless the limit was raised while somebody waited, the realm is full whenever somebody
\* waits: a place that becomes free goes to the queue at once, and no newcomer takes it.
WaitsOnlyWhenFull == m_QueuedSessions # <<>> /\ ~raised =>
    /\ m_playerLimit > 0
    /\ GetActiveSessionCount >= m_playerLimit

\* No player is let in above the limit in force, and of those who wait only the first is,
\* or the second when the first gives up.
Playing == {a \in Sessions \ GameMasters : ~m_inQueue[a]}
AdmitsWithinLimit == [][\A a \in Accounts : a \notin Playing /\ a \in Playing' =>
    /\ m_playerLimit > 0 => GetActiveSessionCount' <= m_playerLimit
    /\ a \in Sessions => \A i \in 1..GetQueuedSessionPos(m_QueuedSessions, a) - 1 :
                            m_QueuedSessions[i] \notin Sessions'
  ]_vars

\* A client that was sent its place in the queue has been sent the right one, and one that
\* was let in knows.
ToldPlace == ~stopping => \A a \in Accounts : told[a] # None => told[a] = GetQueuedSessionPos(m_QueuedSessions, a)

\* Who waits is let in at last, or gives up, if those who play end their sessions, unless
\* the limit is one of security (a negative one lets nobody of the queue in) or there are
\* times when more game masters play than the limit, who need not wait for their turn, or
\* nobody plays any more, after the limit was changed: only the end of a session that plays
\* or of one that waits lets the next one in.
QueueAdvances == \A a \in Accounts :
    m_inQueue[a] ~> \/ ~m_inQueue[a]
                    \/ m_playerLimit < 0
                    \/ m_playerLimit \in 1..Cardinality(Sessions \intersect GameMasters) - 1
                    \/ raised /\ GetActiveSessionCount = 0
                    \/ stopping
=============================================================================
