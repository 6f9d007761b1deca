---------------------------- MODULE WorldSessions ----------------------------
(***************************************************************************)
(* The session of one account: WorldSocket::HandleAuthSession on the       *)
(* network threads, World::UpdateSessions and WorldSession::Update on the  *)
(* world thread, and the login query that CMSG_PLAYER_LOGIN sends to the   *)
(* database.  A WorldSession object is named by the socket that created    *)
(* it.  The account has one character; no player limit is set (nobody      *)
(* queues).  Times are phases of a timer, not numbers of seconds.          *)
(***************************************************************************)
EXTENDS Naturals, Sequences, FiniteSets

CONSTANTS Sockets,     \* the connections made for this account, each used once
          None,        \* nullptr
          MaxRecv,     \* bound: packets waiting in m_recvQueue
          MaxLogins,   \* bound: CMSG_PLAYER_LOGINs the clients send in all
          MaxKicks     \* bound: KickPlayer calls from bans, GMs and anticheat

ASSUME SocketsAssumption == None \notin Sockets /\ IsFiniteSet(Sockets)
ASSUME BoundsAssumption == {MaxRecv, MaxLogins, MaxKicks} \subseteq Nat

VARIABLES conn,      \* the TCP connection of each WorldSocket
          auth,      \* where HandleAuthSession is on each socket
          session,   \* WorldSocket::m_session
          asked,     \* external: the client of this socket chose its character
          logins,    \* external: CMSG_PLAYER_LOGINs sent so far
          alive,     \* WorldSession objects that exist
          sess,      \* the members of each WorldSession
          m_sessions,     \* World::m_sessions at this account's id
          addQueue,  \* World::m_sessionAddQueue
          world,     \* where the world thread is in World::Update
          packets,   \* recvQueueCopy of WorldSession::Update
          holders,   \* LoginQueryHolders in the database or its result queue
          kicks,     \* KickPlayer calls so far
          stray      \* a Player object is in the world that no session points to

vars == <<conn, auth, session, asked, logins, alive, sess, m_sessions, addQueue, world,
          packets, holders, kicks, stray>>

worldVars == <<m_sessions, addQueue, world, packets, holders, kicks, stray>>

\* CMSG_PLAYER_LOGIN; CMSG_LOGOUT_REQUEST or CMSG_LOGOUT_CANCEL; CMSG_CHAR_ENUM and
\* the other opcodes of the character list.
Opcodes == {"login", "logout", "enum"}
States == {"CREATED", "CHAR_SELECTION", "READY", "OFFLINE"}
Timer == {"off", "fresh", "due20", "due60"}   \* _logoutTime: unset, younger than 20 s, ...

SessionRecord ==
    [state : States, m_socket : Sockets \union {None}, m_requestSocket : Sockets \union {None},
     messages : Seq(Sockets), m_recvQueue : Seq(Opcodes),
     player : {"none", "world", "unloaded"},   \* _player: null, in its map, LoadFromDB failed
     logoutTime : Timer, kickTime : {"off", "set", "due"},
     recentlyLogout : BOOLEAN, kickSession : BOOLEAN]

SessionTypeOK ==
    /\ conn \in [Sockets -> {"none", "open", "closed"}]
    /\ auth \in [Sockets -> {"idle", "found", "absent", "done"}]
    /\ session \in [Sockets -> Sockets \union {None}]
    /\ asked \in [Sockets -> BOOLEAN]
    /\ logins \in 0..MaxLogins
    /\ alive \subseteq Sockets
    /\ sess \in [Sockets -> SessionRecord]
    /\ m_sessions \in Sockets \union {None}
    /\ addQueue \in Seq(Sockets)
    /\ world \in {"idle", "messages", "swap", "packets", "results"}
    /\ packets \in Seq(Opcodes)
    /\ holders \in 0..MaxLogins
    /\ kicks \in 0..MaxKicks
    /\ stray \in BOOLEAN

\* The constructor of WorldSession.
NewSession(k) == [state |-> "CREATED", m_socket |-> k, m_requestSocket |-> None,
                  messages |-> <<>>, m_recvQueue |-> <<>>, player |-> "none",
                  logoutTime |-> "off", kickTime |-> "off",
                  recentlyLogout |-> FALSE, kickSession |-> FALSE]

Init == /\ conn = [k \in Sockets |-> "none"]
        /\ auth = [k \in Sockets |-> "idle"]
        /\ session = [k \in Sockets |-> None]
        /\ asked = [k \in Sockets |-> FALSE]
        /\ logins = 0
        /\ alive = {}
        /\ sess = [k \in Sockets |-> NewSession(k)]
        /\ m_sessions = None
        /\ addQueue = <<>>
        /\ world = "idle"
        /\ packets = <<>>
        /\ holders = 0
        /\ kicks = 0
        /\ stray = FALSE

-----------------------------------------------------------------------------
(* A network thread, one socket at a time.  A definition headed "Fault:" is *)
(* not part of the specification: it is a plausible wrong version of the    *)
(* definition after it.                                                     *)

\* The peer goes away, or HandleAuthSession or HandlePing refuses it: Close.
Disconnect(k) == /\ conn[k] = "open"
                 /\ conn' = [conn EXCEPT ![k] = "closed"]
                 /\ asked' = [asked EXCEPT ![k] = FALSE]
                 /\ UNCHANGED <<auth, session, logins, alive, sess, worldVars>>

\* A connection that has reached m_session = sWorld.FindSession(id).
FindSession(k) == /\ conn[k] = "none"
                  /\ conn' = [conn EXCEPT ![k] = "open"]
                  /\ session' = [session EXCEPT ![k] = m_sessions]
                  /\ auth' = [auth EXCEPT ![k] = IF m_sessions = None THEN "absent" ELSE "found"]
                  /\ UNCHANGED <<asked, logins, alive, sess, worldVars>>

\* A client of an unknown platform is refused only now: m_session stays what was found.
BadPlatform(k) == /\ auth[k] \in {"found", "absent"}
                  /\ auth' = [auth EXCEPT ![k] = "done"]
                  /\ conn' = [conn EXCEPT ![k] = "closed"]
                  /\ UNCHANGED <<session, asked, logins, alive, sess, worldVars>>

\* A session existed: the switch to this socket is left to the session's messager.
\* If the session has been deleted since, the message is written to freed memory;
\* the outcome kept here is that it is lost.
AddMessage(k) ==
    /\ auth[k] = "found"
    /\ auth' = [auth EXCEPT ![k] = "done"]
    /\ IF session[k] \in alive
       THEN sess' = [sess EXCEPT ![session[k]].messages = Append(@, k)]
       ELSE UNCHANGED sess
    /\ UNCHANGED <<conn, session, asked, logins, alive, worldVars>>

\* None existed: new WorldSession and World::AddSession.
AddSession(k) == /\ auth[k] = "absent"
                 /\ auth' = [auth EXCEPT ![k] = "done"]
                 /\ session' = [session EXCEPT ![k] = k]
                 /\ alive' = alive \union {k}
                 /\ addQueue' = Append(addQueue, k)
                 /\ UNCHANGED <<conn, asked, logins, sess, m_sessions, world, packets, holders, kicks, stray>>

\* ... but with bad addon data the session is neither added nor deleted.
BadAddonInfo(k) == /\ auth[k] = "absent"
                   /\ auth' = [auth EXCEPT ![k] = "done"]
                   /\ session' = [session EXCEPT ![k] = k]
                   /\ alive' = alive \union {k}
                   /\ conn' = [conn EXCEPT ![k] = "closed"]
                   /\ UNCHANGED <<asked, logins, sess, worldVars>>

\* What a client sends: one CMSG_PLAYER_LOGIN until it is back at the character list.
ClientSends(k, op) ==
    IF op = "login"
    THEN /\ ~asked[k] /\ logins < MaxLogins
         /\ asked' = [asked EXCEPT ![k] = TRUE]
         /\ logins' = logins + 1
    ELSE UNCHANGED <<asked, logins>>

\* ProcessIncomingData hands a packet to WorldSession::QueuePacket.
QueuePacket(k, op) ==
    LET s == session[k] IN
    /\ conn[k] = "open" /\ auth[k] = "done"
    /\ s # None
    /\ s \in alive => Len(sess[s].m_recvQueue) < MaxRecv
    /\ ClientSends(k, op)
    /\ IF s \in alive
       THEN sess' = [sess EXCEPT ![s].m_recvQueue = Append(@, op)]
       ELSE UNCHANGED sess
    /\ UNCHANGED <<conn, auth, session, alive, worldVars>>

-----------------------------------------------------------------------------
(* The world thread: pieces of WorldSession as functions from the record    *)
(* to the record.                                                           *)

IsClosed(k) == k = None \/ conn[k] # "open"      \* no socket counts as closed
ShouldLogOut(r) == r.logoutTime \in {"due20", "due60"}
ShouldDisconnect(r) == r.logoutTime = "due60"
LogoutRequest(r, time, kick) == [r EXCEPT !.logoutTime = time, !.kickSession = kick]
SetInCharSelection(r) == [r EXCEPT !.state = "CHAR_SELECTION", !.kickTime = "set"]

SetOnline(r) == IF r.player # "none" /\ ~IsClosed(r.m_socket)
                THEN [r EXCEPT !.state = "READY", !.kickTime = "off"]
                ELSE r

\* KickPlayer(save, false): a logout request 20 seconds in the past.
KickPlayer(r) == LogoutRequest(r, "due20", TRUE)

SetOffline(r) == [(IF r.player = "none" THEN r ELSE LogoutRequest(r, "fresh", FALSE))
                   EXCEPT !.m_socket = None, !.state = "OFFLINE"]

LogoutPlayer(r) ==
    IF r.recentlyLogout THEN r
    ELSE LET out == SetInCharSelection([r EXCEPT !.player = "none", !.recentlyLogout = TRUE,
                                                 !.logoutTime = "off"])
         IN IF r.kickSession THEN [out EXCEPT !.kickSession = FALSE, !.m_socket = None] ELSE out

\* Fault: the old client's connection stays open.
Dropped_none(s, r) == {}

\* The sockets that session s lets go when its record becomes r are closed ...
Dropped(s, r) == {sess[s].m_socket} \ {r.m_socket, None}
CloseAll(ks) == conn' = [k \in Sockets |-> IF k \in ks THEN "closed" ELSE conn[k]]

\* ... and its client, told SMSG_LOGOUT_COMPLETE or cut off, is not waiting any more.
BackAtCharacterList(s, r) ==
    LET back == \/ sess[s].player # "none" /\ r.player = "none"
                \/ sess[s].m_socket # r.m_socket
    IN asked' = [k \in Sockets |-> asked[k] /\ ~(k = sess[s].m_socket /\ back)]

\* Update returned true: the session stays, with record r.
Keep(s, r, finalized) ==
    /\ sess' = [sess EXCEPT ![s] = r]
    /\ CloseAll(Dropped(s, r))
    /\ BackAtCharacterList(s, r)
    /\ session' = [k \in Sockets |-> IF k \in finalized THEN None ELSE session[k]]
    /\ UNCHANGED <<alive, m_sessions, stray>>

\* Fault: the session is deleted and stays in m_sessions.
Delete_unmapped(s, r) ==
    /\ alive' = alive \ {s}
    /\ sess' = [sess EXCEPT ![s] = NewSession(s)]
    /\ CloseAll({sess[s].m_socket} \ {None})
    /\ UNCHANGED <<session, asked, m_sessions, stray>>

\* Update returned false: it leaves m_sessions and is deleted.  The destructor logs the
\* player out (unless m_playerRecentlyLogout), closes and finalizes m_socket.
Delete(s, r) ==
    LET last == IF r.player = "none" THEN r ELSE LogoutPlayer(r) IN
    /\ alive' = alive \ {s}
    /\ m_sessions' = None
    /\ sess' = [sess EXCEPT ![s] = NewSession(s)]
    /\ stray' = (stray \/ last.player = "world")
    /\ CloseAll({sess[s].m_socket} \ {None})
    /\ session' = [k \in Sockets |-> IF k = last.m_socket THEN None ELSE session[k]]
    /\ asked' = [k \in Sockets |-> asked[k] /\ k # sess[s].m_socket]

-----------------------------------------------------------------------------
(* World::Update.                                                          *)

\* UpdateSessions takes the add queue; AddSession_ refuses a session when the account
\* already has one, and forgets it.
UpdateSessions ==
    /\ world = "idle"
    /\ addQueue' = <<>>
    /\ m_sessions' = IF m_sessions = None /\ addQueue # <<>> THEN Head(addQueue) ELSE m_sessions
    /\ world' = IF m_sessions' = None THEN "results" ELSE "messages"
    /\ UNCHANGED <<conn, auth, session, asked, logins, alive, sess, packets, holders, kicks, stray>>

\* RequestNewSocket, the messages one after the other.
RequestNewSocket(r, k) == IF r.m_requestSocket # None THEN r
                          ELSE [r EXCEPT !.m_requestSocket = k, !.state = "CREATED"]

\* WorldSession::Update: GetMessager().Execute(this)
ExecuteMessages ==
    LET r == sess[m_sessions] IN
    /\ world = "messages"
    /\ sess' = [sess EXCEPT ![m_sessions] =
                  IF r.messages = <<>> THEN r
                  ELSE [RequestNewSocket(r, Head(r.messages)) EXCEPT !.messages = <<>>]]
    /\ world' = "swap"
    /\ UNCHANGED <<conn, auth, session, asked, logins, alive, m_sessions, addQueue, packets,
                   holders, kicks, stray>>

\* The receive queue is taken; its packets are only looked at while the socket is alive.
SwapRecvQueue ==
    LET r == sess[m_sessions] IN
    /\ world = "swap"
    /\ packets' = IF IsClosed(r.m_socket) THEN <<>> ELSE r.m_recvQueue
    /\ sess' = [sess EXCEPT ![m_sessions].m_recvQueue = <<>>]
    /\ world' = "packets"
    /\ UNCHANGED <<conn, auth, session, asked, logins, alive, m_sessions, addQueue, holders,
                   kicks, stray>>

\* HandlePlayerReconnect: the character never left the world.
HandlePlayerReconnect(r) == SetOnline(LogoutRequest(r, "off", FALSE))

\* HandleLogoutRequestOpcode: refused, instant, or after 20 seconds.
\* HandleLogoutCancelOpcode does what the refusal does.
LogoutOutcomes(r) == IF r.player # "world" THEN {r}
                     ELSE {LogoutRequest(r, "off", FALSE), LogoutPlayer(r),
                           LogoutRequest(r, "fresh", FALSE)}

\* The record after a packet.  STATUS_AUTHED opcodes clear m_playerRecentlyLogout,
\* STATUS_LOGGEDIN ones need a player in the world.
Handled(r, op) ==
    LET authed == [r EXCEPT !.recentlyLogout = FALSE] IN
    CASE op = "enum" -> {authed}
      [] op = "login" -> {IF r.player = "world" /\ r.logoutTime # "off"
                          THEN HandlePlayerReconnect(authed) ELSE authed}
      [] op = "logout" -> LogoutOutcomes(r)

\* One packet of the batch.  A login without a player sends the query that loads it.
ExecuteOpcode ==
    /\ world = "packets"
    /\ packets # <<>>
    /\ packets' = Tail(packets)
    /\ \E r \in Handled(sess[m_sessions], Head(packets)) : Keep(m_sessions, r, {})
    /\ holders' = IF Head(packets) = "login" /\ sess[m_sessions].player = "none"
                  THEN holders + 1 ELSE holders
    /\ UNCHANGED <<auth, logins, addQueue, world, kicks>>

\* Fault: the new socket is told to forget the session, not the old one.
UpdateCreated_finalized(s, r) ==
    /\ r.state = "CREATED"
    /\ Keep(s, SetInCharSelection([SetOffline(r) EXCEPT
                                      !.m_socket = IF r.m_requestSocket = None THEN r.m_socket
                                                   ELSE r.m_requestSocket,
                                      !.m_requestSocket = None]),
            {r.m_requestSocket})

\* The switch over m_sessionState that ends WorldSession::Update.
UpdateCreated(s, r) ==
    /\ r.state = "CREATED"
    /\ IF r.m_requestSocket = None
       THEN Keep(s, SetInCharSelection(r), {})
       ELSE Keep(s, SetInCharSelection([SetOffline(r) EXCEPT !.m_socket = r.m_requestSocket,
                                                             !.m_requestSocket = None]),
                 {r.m_socket})

\* Fault: a session whose socket was reset by a kick is not seen as closed.
UpdateCharSelection_reset(s, r) ==
    LET out == IF ShouldLogOut(r) THEN LogoutPlayer(r) ELSE r IN
    /\ r.state = "CHAR_SELECTION"
    /\ IF r.m_socket # None /\ IsClosed(r.m_socket) THEN Delete(s, r)
       ELSE IF out.kickTime = "due" THEN Delete(s, LogoutPlayer([out EXCEPT !.kickSession = TRUE]))
       ELSE Keep(s, out, {})

UpdateCharSelection(s, r) ==
    LET out == IF ShouldLogOut(r) THEN LogoutPlayer(r) ELSE r IN
    /\ r.state = "CHAR_SELECTION"
    /\ IF IsClosed(r.m_socket) THEN Delete(s, r)
       ELSE IF out.kickTime = "due" THEN Delete(s, LogoutPlayer([out EXCEPT !.kickSession = TRUE]))
       ELSE Keep(s, out, {})

UpdateReady(s, r) ==
    /\ r.state = "READY"
    /\ IF r.m_socket # None /\ IsClosed(r.m_socket)
       THEN IF r.player = "none" THEN Delete(s, r) ELSE Keep(s, SetOffline(r), {r.m_socket})
       ELSE \/ ShouldLogOut(r) /\ Keep(s, LogoutPlayer(r), {})
            \/ ~ShouldLogOut(r) /\ Keep(s, r, {})
            \/ r.player = "world" /\ Keep(s, LogoutPlayer(r), {})     \* away for 15 minutes

\* Fault: the link-dead player goes after 20 seconds already.
UpdateOffline_early(s, r) ==
    /\ r.state = "OFFLINE"
    /\ IF ShouldLogOut(r)
       THEN LET out == LogoutPlayer(r) IN
            IF out.m_requestSocket = None /\ IsClosed(out.m_socket) THEN Delete(s, out)
            ELSE Keep(s, out, {})
       ELSE Keep(s, r, {})

UpdateOffline(s, r) ==
    /\ r.state = "OFFLINE"
    /\ IF ShouldDisconnect(r)
       THEN LET out == LogoutPlayer(r) IN
            IF out.m_requestSocket = None /\ IsClosed(out.m_socket) THEN Delete(s, out)
            ELSE Keep(s, out, {})
       ELSE Keep(s, r, {})

UpdateState ==
    LET r == sess[m_sessions] IN
    /\ world = "packets"
    /\ packets = <<>>
    /\ world' = "results"
    /\ \/ UpdateCreated(m_sessions, r) \/ UpdateCharSelection(m_sessions, r)
       \/ UpdateReady(m_sessions, r) \/ UpdateOffline(m_sessions, r)
    /\ UNCHANGED <<auth, logins, addQueue, packets, holders, kicks>>

\* Fault: a result is delivered once more.
LoginCallback_again == /\ world = "results"
                       /\ m_sessions # None
                       /\ holders' = holders - 1
                       /\ sess' = [sess EXCEPT ![m_sessions] = SetOnline([@ EXCEPT !.player = "world"])]
                       /\ UNCHANGED <<conn, auth, session, asked, logins, alive, m_sessions,
                                      addQueue, world, packets, kicks, stray>>

\* UpdateResultQueue: HandlePlayerLoginCallback looks the session up again, by account;
\* HandlePlayerLogin makes a new Player and points the session to it.
LoginCallback ==
    /\ world = "results"
    /\ holders > 0
    /\ holders' = holders - 1
    /\ IF m_sessions = None THEN UNCHANGED <<sess, stray>>
       ELSE LET r == sess[m_sessions] IN
            /\ \/ sess' = [sess EXCEPT ![m_sessions] = SetOnline([r EXCEPT !.player = "world"])]
               \/ sess' = [sess EXCEPT ![m_sessions] =      \* LoadFromDB failed
                             KickPlayer(SetOnline([r EXCEPT !.player = "unloaded"]))]
            /\ stray' = (stray \/ r.player = "world")
    /\ UNCHANGED <<conn, auth, session, asked, logins, alive, m_sessions, addQueue, world,
                   packets, kicks>>

EndUpdate == /\ world = "results"
             /\ world' = "idle"
             /\ UNCHANGED <<conn, auth, session, asked, logins, alive, sess, m_sessions,
                            addQueue, packets, holders, kicks, stray>>

\* A ban, a GM command or the anticheat kicks the account.
Kick == /\ world = "idle"
        /\ m_sessions # None
        /\ kicks < MaxKicks
        /\ kicks' = kicks + 1
        /\ sess' = [sess EXCEPT ![m_sessions] = KickPlayer(@)]
        /\ UNCHANGED <<conn, auth, session, asked, logins, alive, m_sessions, addQueue, world,
                       packets, holders, stray>>

\* time(nullptr) moves on between two updates.
LogoutTimeRuns == \E s \in alive :
    /\ world = "idle"
    /\ sess[s].logoutTime \in {"fresh", "due20"}
    /\ sess' = [sess EXCEPT ![s].logoutTime = IF @ = "fresh" THEN "due20" ELSE "due60"]
    /\ UNCHANGED <<conn, auth, session, asked, logins, alive, worldVars>>

KickTimeRuns == \E s \in alive :
    /\ world = "idle"
    /\ sess[s].kickTime = "set"
    /\ sess' = [sess EXCEPT ![s].kickTime = "due"]
    /\ UNCHANGED <<conn, auth, session, asked, logins, alive, worldVars>>

-----------------------------------------------------------------------------
Handler(k) == BadPlatform(k) \/ AddMessage(k) \/ AddSession(k) \/ BadAddonInfo(k)

Network(k) == \/ Disconnect(k) \/ FindSession(k) \/ Handler(k)
              \/ \E op \in Opcodes : QueuePacket(k, op)

WorldUpdate == \/ UpdateSessions \/ ExecuteMessages \/ SwapRecvQueue
               \/ ExecuteOpcode \/ UpdateState \/ EndUpdate

Next == \/ \E k \in Sockets : Network(k)
        \/ WorldUpdate \/ LoginCallback \/ Kick
        \/ LogoutTimeRuns \/ KickTimeRuns

Spec == Init /\ [][Next]_vars

\* The world thread keeps updating, a running handler returns, and time passes: it can
\* only be read between updates here, which come and go, hence strong fairness.
FairSpec == /\ Spec
            /\ WF_vars(WorldUpdate)
            /\ \A k \in Sockets : WF_vars(Handler(k))
            /\ SF_vars(LogoutTimeRuns)

-----------------------------------------------------------------------------
(* Properties.                                                             *)

\* A socket that a session holds, or is about to switch to, points back to that
\* session: its packets reach the session that answers on it (HandleAuthSession,
\* RequestNewSocket, FinalizeSession).
SocketBacklink == \A s \in alive : \A k \in {sess[s].m_socket, sess[s].m_requestSocket} \ {None} :
                     session[k] = s

\* m_sessions and the add queue hold existing sessions only, and none of them twice:
\* World::UpdateSessions never updates or deletes a freed session.
SessionsAlive == /\ m_sessions \in alive \union {None}
                 /\ \A i \in 1..Len(addQueue) : addQueue[i] \in alive \ {m_sessions}
                 /\ \A i, j \in 1..Len(addQueue) : addQueue[i] = addQueue[j] => i = j

\* A session that is deleted, or moves to another socket, never leaves its old client
\* connected to nothing (~WorldSession, SetOffline, KickPlayer).
NoOrphanConnection ==
    [][\A s \in alive : LET k == sess[s].m_socket IN
         k # None /\ (s \notin alive' \/ sess'[s].m_socket # k) => conn'[k] = "closed"]_vars

\* A link-dead character stays in the world until its client had 60 seconds to come
\* back (WorldSession::SetOffline, ShouldDisconnect).
OfflineGrace ==
    [][\A s \in alive : /\ sess[s].state = "OFFLINE" /\ sess[s].player = "world"
                        /\ sess[s].logoutTime # "due60"
                        => s \in alive' /\ sess'[s].player # "none"]_vars

\* WorldSession.cpp:693: if the player has just logged out, LogoutPlayer has nothing to do.
NothingToLogOut == \A s \in alive : sess[s].recentlyLogout => sess[s].player = "none"

\* When every client is gone for good, the account's session goes too, and for good:
\* no timer, queue or refused socket keeps it (WorldSession::Update).  The one thing
\* that can is a m_playerRecentlyLogout that is set although there is a player.
SessionsDrain == (\A k \in Sockets : conn[k] = "closed")
                     ~> [](m_sessions = None \/ ~NothingToLogOut)

-----------------------------------------------------------------------------
(* What comments of the source say and the code does not keep.             *)

\* WorldSocket.cpp:527 says deferring the switch of sockets to the session's messager
\* avoids any race: the session found must then still exist when it is sent the message.
DeferIsSafe == \A k \in Sockets : auth[k] = "found" => session[k] \in alive

\* WorldSession.cpp:874: each account has only one online character at any given time.
OneOnlineCharacter ==
    ~(stray /\ \E s \in alive : sess[s].player = "world")
=============================================================================
