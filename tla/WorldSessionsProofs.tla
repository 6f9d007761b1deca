------------------------ MODULE WorldSessionsProofs ------------------------
(***************************************************************************)
(* The life of a session, for any number of connections to the account:    *)
(* World::UpdateSessions never touches a freed session, every socket a     *)
(* session holds points back to it, no client is left connected to         *)
(* nothing, and a link-dead character is given its minute.                 *)
(***************************************************************************)
EXTENDS WorldSessions, FiniteSetTheorems, TLAPS

\* A WorldSession is made once, by the socket that names it.
Born == \A s \in Sockets : /\ conn[s] = "none" => auth[s] = "idle"
                           /\ s \in alive => auth[s] = "done"
                           /\ s \notin alive => sess[s] = NewSession(s)

\* What the world thread works on during the update of the session.
InUpdate == /\ world \in {"messages", "swap", "packets"} => m_sessions # None
            /\ packets # <<>> => world = "packets"

\* The sockets a session has, or has been sent, have finished HandleAuthSession and point to
\* it, and it does not have one of them twice.
Held(s) == LET r == sess[s] IN
    /\ r.m_socket # None => /\ session[r.m_socket] = s /\ auth[r.m_socket] = "done"
                            /\ r.m_socket # r.m_requestSocket
    /\ r.m_requestSocket # None => session[r.m_requestSocket] = s /\ auth[r.m_requestSocket] = "done"
    /\ \A i \in 1..Len(r.messages) : LET k == r.messages[i] IN
          /\ session[k] = s /\ auth[k] = "done"
          /\ k # r.m_socket /\ k # r.m_requestSocket

HeldOK == \A s \in alive : Held(s)

\* A link-dead session has no socket, and therefore no packets.
Silent == \A s \in alive : sess[s].state = "OFFLINE" =>
             sess[s].m_socket = None /\ (s = m_sessions => packets = <<>>)

\* The CMSG_PLAYER_LOGINs received and not executed yet: the packets of the sessions, and
\* those of the batch.
Waiting == {x \in alive \X Nat : /\ x[2] \in 1..Len(sess[x[1]].m_recvQueue)
                               /\ sess[x[1]].m_recvQueue[x[2]] = "login"}
Taken == {i \in 1..Len(packets) : packets[i] = "login"}

\* Each login sent makes one query at most.
Counted == /\ IsFiniteSet(Waiting) /\ IsFiniteSet(Taken)
           /\ Cardinality(Waiting) + Cardinality(Taken) + holders <= logins

IInv == SessionTypeOK /\ Born /\ InUpdate /\ SessionsAlive /\ HeldOK /\ Silent

-----------------------------------------------------------------------------
(* What the pieces of WorldSession do to the record.                       *)

\* q is r after something that neither switches sockets nor handles messages.
Follows(r, q) == /\ q \in SessionRecord
                 /\ q.messages = r.messages /\ q.m_recvQueue = r.m_recvQueue
                 /\ q.m_requestSocket = r.m_requestSocket
                 /\ q.m_socket \in {r.m_socket, None}
                 /\ q.state = "OFFLINE" => q.m_socket = None \/ (r.state = "OFFLINE" /\ q.m_socket = r.m_socket)

LEMMA FollowsAgain ==
  ASSUME NEW r, NEW q, NEW p, Follows(r, q), Follows(q, p)
  PROVE  Follows(r, p)
  BY DEF Follows

LEMMA FollowsSelf == ASSUME NEW r \in SessionRecord PROVE Follows(r, r)
  BY DEF Follows

LEMMA LogoutRequestFact ==
  ASSUME NEW r \in SessionRecord, NEW time \in Timer, NEW kick \in BOOLEAN
  PROVE  /\ Follows(r, LogoutRequest(r, time, kick))
         /\ LogoutRequest(r, time, kick).state = r.state
         /\ LogoutRequest(r, time, kick).player = r.player
         /\ LogoutRequest(r, time, kick).m_socket = r.m_socket
  BY DEF Follows, LogoutRequest, SessionRecord

LEMMA SetInCharSelectionFact ==
  ASSUME NEW r \in SessionRecord
  PROVE  /\ Follows(r, SetInCharSelection(r))
         /\ SetInCharSelection(r).state = "CHAR_SELECTION"
         /\ SetInCharSelection(r).player = r.player
         /\ SetInCharSelection(r).m_socket = r.m_socket
  BY DEF Follows, SetInCharSelection, SessionRecord, States

LEMMA SetOnlineFact ==
  ASSUME NEW r \in SessionRecord
  PROVE  /\ Follows(r, SetOnline(r))
         /\ SetOnline(r).state \in {"READY", r.state}
         /\ SetOnline(r).player = r.player
         /\ SetOnline(r).m_socket = r.m_socket
  BY DEF Follows, SetOnline, SessionRecord, States

LEMMA KickPlayerFact ==
  ASSUME NEW r \in SessionRecord
  PROVE  /\ Follows(r, KickPlayer(r))
         /\ KickPlayer(r).state = r.state
         /\ KickPlayer(r).player = r.player
         /\ KickPlayer(r).m_socket = r.m_socket
  BY LogoutRequestFact DEF KickPlayer, Timer

LEMMA SetOfflineFact ==
  ASSUME NEW r \in SessionRecord
  PROVE  /\ Follows(r, SetOffline(r))
         /\ SetOffline(r).m_socket = None
         /\ SetOffline(r).player = r.player
  BY DEF Follows, SetOffline, LogoutRequest, SessionRecord, States, Timer

LEMMA LogoutPlayerFact ==
  ASSUME NEW r \in SessionRecord
  PROVE  /\ Follows(r, LogoutPlayer(r))
         /\ LogoutPlayer(r).state \in {"CHAR_SELECTION", r.state}
<1> DEFINE gone == [r EXCEPT !.player = "none", !.recentlyLogout = TRUE, !.logoutTime = "off"]
           out == SetInCharSelection(gone)
<1>1. gone \in SessionRecord /\ Follows(r, gone)
  BY DEF Follows, SessionRecord, Timer
<1>2. Follows(gone, out) /\ out.state = "CHAR_SELECTION" /\ out \in SessionRecord
  BY <1>1, SetInCharSelectionFact DEF Follows
<1>3. /\ Follows(out, [out EXCEPT !.kickSession = FALSE, !.m_socket = None])
      /\ [out EXCEPT !.kickSession = FALSE, !.m_socket = None].state = out.state
  <2> HIDE DEF out
  <2>. QED
    BY <1>2 DEF Follows, SessionRecord
<1>4. LogoutPlayer(r) \in {r, out, [out EXCEPT !.kickSession = FALSE, !.m_socket = None]}
  BY DEF LogoutPlayer
<1> HIDE DEF gone, out
<1>5. Follows(r, out)
  BY <1>1, <1>2, FollowsAgain
<1>6. CASE LogoutPlayer(r) = r
  BY <1>6, FollowsSelf
<1>7. CASE LogoutPlayer(r) = out
  BY <1>7, <1>5, <1>2
<1>8. CASE LogoutPlayer(r) = [out EXCEPT !.kickSession = FALSE, !.m_socket = None]
  <2>1. Follows(r, [out EXCEPT !.kickSession = FALSE, !.m_socket = None])
    BY <1>3, <1>5, FollowsAgain
  <2>. QED
    BY <2>1, <1>8, <1>2, <1>3
<1>. QED
  BY <1>4, <1>6, <1>7, <1>8

LEMMA HandledFact ==
  ASSUME NEW r \in SessionRecord, NEW op \in Opcodes, NEW q \in Handled(r, op)
  PROVE  /\ Follows(r, q)
         /\ r.state # "OFFLINE" => q.state # "OFFLINE"
<1> DEFINE authed == [r EXCEPT !.recentlyLogout = FALSE]
<1>1. authed \in SessionRecord /\ Follows(r, authed) /\ authed.state = r.state
  BY DEF Follows, SessionRecord
<1>2. CASE op = "enum"
  BY <1>1, <1>2 DEF Handled
<1>3. CASE op = "login"
  <2>1. q \in {HandlePlayerReconnect(authed), authed}
    BY <1>3 DEF Handled
  <2> DEFINE out == LogoutRequest(authed, "off", FALSE)
  <2>2. Follows(authed, out) /\ out.state = authed.state /\ out \in SessionRecord
    BY <1>1, LogoutRequestFact DEF Timer, Follows
  <2>3. Follows(out, SetOnline(out)) /\ SetOnline(out).state \in {"READY", out.state}
    BY <2>2, SetOnlineFact
  <2>4. HandlePlayerReconnect(authed) = SetOnline(out)
    BY DEF HandlePlayerReconnect
  <2>5. Follows(r, SetOnline(out))
    <3> HIDE DEF authed, out
    <3>. QED
      BY <1>1, <2>2, <2>3, FollowsAgain
  <2>. QED
    BY <1>1, <2>1, <2>2, <2>3, <2>4, <2>5
<1>4. CASE op = "logout"
  <2>1. q \in {r, LogoutRequest(r, "off", FALSE), LogoutPlayer(r), LogoutRequest(r, "fresh", FALSE)}
    BY <1>4 DEF Handled, LogoutOutcomes
  <2>. QED
    BY <2>1, FollowsSelf, LogoutRequestFact, LogoutPlayerFact DEF Timer
<1>. QED
  BY <1>2, <1>3, <1>4 DEF Opcodes

-----------------------------------------------------------------------------
(* The sockets of the sessions.                                            *)

\* The session in m_sessions exists, if there is one.
LEMMA Current ==
  ASSUME IInv, m_sessions # None
  PROVE  /\ m_sessions \in alive /\ m_sessions \in Sockets
         /\ sess[m_sessions] \in SessionRecord
         /\ sess[m_sessions].m_socket \in Sockets \union {None}
         /\ sess[m_sessions].m_requestSocket \in Sockets \union {None}
         /\ sess[m_sessions].messages \in Seq(Sockets)
  BY DEF IInv, SessionTypeOK, SessionsAlive, SessionRecord

\* A session that drops its socket, or moves to the one it was asked to take, and tells at
\* most the old one to forget it.
LEMMA HeldKept ==
  ASSUME SessionTypeOK, HeldOK, NEW s \in alive, NEW q \in SessionRecord,
         q.messages = sess[s].messages,
         q.m_requestSocket \in {sess[s].m_requestSocket, None},
         q.m_socket \in {sess[s].m_socket, sess[s].m_requestSocket, None},
         q.m_socket # None => q.m_socket # q.m_requestSocket,
         sess' = [sess EXCEPT ![s] = q], alive' = alive, auth' = auth,
         \A k \in Sockets : session'[k] # session[k] => k = sess[s].m_socket /\ k # q.m_socket
  PROVE  HeldOK'
<1> SUFFICES ASSUME NEW t \in alive PROVE Held(t)'
  BY DEF HeldOK
<1>1. t \in Sockets /\ s \in Sockets /\ sess \in [Sockets -> SessionRecord]
  BY DEF SessionTypeOK
<1>2. Held(t) /\ Held(s)
  BY DEF HeldOK
<1>3. CASE t = s
  <2>1. sess'[t] = q
    BY <1>1, <1>3
  <2>2. q.m_socket \in Sockets \union {None} /\ q.m_requestSocket \in Sockets \union {None}
        /\ \A i \in 1..Len(q.messages) : q.messages[i] \in Sockets
    BY DEF SessionRecord
  <2>3. q.m_socket # None => session'[q.m_socket] = s /\ auth'[q.m_socket] = "done"
    BY <1>2, <2>2 DEF Held
  <2>4. q.m_requestSocket # None =>
           session'[q.m_requestSocket] = s /\ auth'[q.m_requestSocket] = "done"
    BY <1>2, <2>2 DEF Held
  <2>5. \A i \in 1..Len(q.messages) : /\ session'[q.messages[i]] = s /\ auth'[q.messages[i]] = "done"
                                      /\ q.messages[i] # q.m_socket
                                      /\ q.messages[i] # q.m_requestSocket
    BY <1>2, <2>2, SocketsAssumption DEF Held
  <2>. QED
    BY <1>3, <2>1, <2>3, <2>4, <2>5 DEF Held
<1>4. CASE t # s
  <2>1. sess'[t] = sess[t] /\ sess[t] \in SessionRecord
    BY <1>1, <1>4
  <2>2. /\ sess[t].m_socket \in Sockets \union {None}
        /\ sess[t].m_requestSocket \in Sockets \union {None}
        /\ \A i \in 1..Len(sess[t].messages) : sess[t].messages[i] \in Sockets
    BY <2>1 DEF SessionRecord
  <2>3. \A k \in Sockets : session[k] = t => session'[k] = t
    BY <1>2, <1>4, SocketsAssumption DEF Held
  <2>. QED
    BY <1>2, <2>1, <2>2, <2>3 DEF Held
<1>. QED
  BY <1>3, <1>4

\* A session that is deleted, and tells at most its own socket.
LEMMA HeldDeleted ==
  ASSUME SessionTypeOK, HeldOK, NEW s \in alive, sess' = [sess EXCEPT ![s] = NewSession(s)],
         alive' = alive \ {s}, auth' = auth,
         \A k \in Sockets : session'[k] # session[k] => k = sess[s].m_socket
  PROVE  HeldOK'
<1> SUFFICES ASSUME NEW t \in alive, t # s PROVE Held(t)'
  BY DEF HeldOK
<1>1. t \in Sockets /\ s \in Sockets /\ sess \in [Sockets -> SessionRecord]
  BY DEF SessionTypeOK
<1>2. Held(t) /\ Held(s)
  BY DEF HeldOK
<1>3. sess'[t] = sess[t] /\ sess[t] \in SessionRecord
  BY <1>1
<1>4. /\ sess[t].m_socket \in Sockets \union {None}
      /\ sess[t].m_requestSocket \in Sockets \union {None}
      /\ \A i \in 1..Len(sess[t].messages) : sess[t].messages[i] \in Sockets
  BY <1>3 DEF SessionRecord
<1>5. \A k \in Sockets : session[k] = t => session'[k] = t
  BY <1>2, SocketsAssumption DEF Held
<1>. QED
  BY <1>2, <1>3, <1>4, <1>5 DEF Held

\* Update returned true (Keep).
LEMMA KeepFact ==
  ASSUME IInv, m_sessions # None, NEW q \in SessionRecord, NEW finalized,
         q.messages = sess[m_sessions].messages,
         q.m_requestSocket \in {sess[m_sessions].m_requestSocket, None},
         q.m_socket \in {sess[m_sessions].m_socket, sess[m_sessions].m_requestSocket, None},
         q.m_socket # None => q.m_socket # q.m_requestSocket,
         \A k \in Sockets : k \in finalized => k = sess[m_sessions].m_socket /\ k # q.m_socket,
         q.state = "OFFLINE" => q.m_socket = None /\ packets' = <<>>,
         Keep(m_sessions, q, finalized), auth' = auth, addQueue' = addQueue,
         logins' = logins, holders' \in 0..MaxLogins, kicks' = kicks,
         world' \in {"packets", "results"}, packets' \in Seq(Opcodes), packets' # <<>> => world' = "packets"
  PROVE  IInv'
<1> DEFINE s == m_sessions
<1>1. /\ s \in alive /\ s \in Sockets
      /\ sess' = [sess EXCEPT ![s] = q]
      /\ conn' = [k \in Sockets |-> IF k \in Dropped(s, q) THEN "closed" ELSE conn[k]]
      /\ session' = [k \in Sockets |-> IF k \in finalized THEN None ELSE session[k]]
      /\ UNCHANGED <<alive, m_sessions, stray>>
  BY Current DEF Keep, CloseAll
<1>2. asked' \in [Sockets -> BOOLEAN]
  BY DEF Keep, BackAtCharacterList
<1>3. SessionTypeOK'
  <2>1. conn' \in [Sockets -> {"none", "open", "closed"}] /\ session' \in [Sockets -> Sockets \union {None}]
    BY <1>1 DEF IInv, SessionTypeOK
  <2>2. sess' \in [Sockets -> SessionRecord]
    BY <1>1 DEF IInv, SessionTypeOK
  <2>. QED
    BY <1>1, <1>2, <2>1, <2>2 DEF IInv, SessionTypeOK
<1>4. Born'
  <2>1. \A k \in Sockets : conn'[k] = "none" => conn[k] = "none"
    BY <1>1
  <2>2. \A k \in Sockets : k \notin alive => sess'[k] = sess[k]
    BY <1>1 DEF IInv, SessionTypeOK
  <2>. QED
    BY <1>1, <2>1, <2>2 DEF IInv, Born
<1>5. SessionsAlive' /\ InUpdate'
  BY <1>1 DEF IInv, SessionsAlive, InUpdate
<1>6. \A k \in Sockets : session'[k] # session[k] => k = sess[s].m_socket /\ k # q.m_socket
  BY <1>1
<1>7. HeldOK'
  <2>1. SessionTypeOK /\ HeldOK
    BY DEF IInv
  <2>. QED
    BY <1>1, <1>6, <2>1, HeldKept
<1>8. Silent'
  <2>1. sess'[s] = q /\ \A t \in Sockets \ {s} : sess'[t] = sess[t]
    BY <1>1 DEF IInv, SessionTypeOK
  <2>2. alive \subseteq Sockets
    BY DEF IInv, SessionTypeOK
  <2>. QED
    BY <1>1, <2>1, <2>2 DEF IInv, Silent
<1>. QED
  BY <1>3, <1>4, <1>5, <1>7, <1>8 DEF IInv

\* Update returned false (Delete).
LEMMA DeleteFact ==
  ASSUME IInv, m_sessions # None, NEW r \in SessionRecord,
         r.m_socket \in {sess[m_sessions].m_socket, None},
         Delete(m_sessions, r), auth' = auth, addQueue' = addQueue,
         logins' = logins, holders' \in 0..MaxLogins, kicks' = kicks, world' = "results", packets' = <<>>
  PROVE  IInv'
<1> DEFINE s == m_sessions
           last == IF r.player = "none" THEN r ELSE LogoutPlayer(r)
<1>1. /\ s \in alive /\ s \in Sockets
      /\ sess' = [sess EXCEPT ![s] = NewSession(s)]
      /\ conn' = [k \in Sockets |-> IF k \in {sess[m_sessions].m_socket} \ {None} THEN "closed" ELSE conn[k]]
      /\ session' = [k \in Sockets |-> IF k = last.m_socket THEN None ELSE session[k]]
      /\ asked' = [k \in Sockets |-> asked[k] /\ k # sess[s].m_socket]
      /\ alive' = alive \ {s} /\ m_sessions' = None
      /\ stray' = (stray \/ last.player = "world")
  BY Current DEF Delete, CloseAll
<1>2. last.m_socket \in {r.m_socket, None}
  BY LogoutPlayerFact DEF Follows
<1> HIDE DEF last
<1>3. SessionTypeOK'
  <2>1. conn' \in [Sockets -> {"none", "open", "closed"}] /\ session' \in [Sockets -> Sockets \union {None}]
        /\ asked' \in [Sockets -> BOOLEAN]
    BY <1>1 DEF IInv, SessionTypeOK
  <2>2. NewSession(s) \in SessionRecord
    BY <1>1 DEF NewSession, SessionRecord, States, Timer
  <2>3. sess' \in [Sockets -> SessionRecord]
    BY <1>1, <2>2 DEF IInv, SessionTypeOK
  <2>4. stray' \in BOOLEAN
    BY <1>1 DEF IInv, SessionTypeOK
  <2>. QED
    BY <1>1, <2>1, <2>3, <2>4 DEF IInv, SessionTypeOK
<1>4. Born'
  <2>1. \A k \in Sockets : conn'[k] = "none" => conn[k] = "none"
    BY <1>1
  <2>2. \A k \in Sockets : sess'[k] = IF k = s THEN NewSession(k) ELSE sess[k]
    BY <1>1 DEF IInv, SessionTypeOK
  <2>. QED
    BY <1>1, <2>1, <2>2 DEF IInv, Born
<1>5. SessionsAlive' /\ InUpdate'
  BY <1>1, SocketsAssumption DEF IInv, SessionsAlive, InUpdate, SessionTypeOK
<1>6. \A k \in Sockets : session'[k] # session[k] => k = sess[s].m_socket
  BY <1>1, <1>2, SocketsAssumption
<1>7. HeldOK'
  <2>1. SessionTypeOK /\ HeldOK
    BY DEF IInv
  <2>. QED
    BY <1>1, <1>6, <2>1, HeldDeleted
<1>8. Silent'
  <2>1. \A t \in alive' : sess'[t] = sess[t] /\ t \in alive
    BY <1>1 DEF IInv, SessionTypeOK
  <2>. QED
    BY <2>1 DEF IInv, Silent
<1>. QED
  BY <1>3, <1>4, <1>5, <1>7, <1>8 DEF IInv

-----------------------------------------------------------------------------
(* The steps of the network threads.                                       *)

LEMMA DisconnectFact ==
  ASSUME IInv, NEW k \in Sockets, Disconnect(k) PROVE IInv'
<1>1. conn' = [conn EXCEPT ![k] = "closed"] /\ asked' = [asked EXCEPT ![k] = FALSE]
      /\ UNCHANGED <<auth, session, logins, alive, sess, worldVars>>
  BY DEF Disconnect
<1>2. SessionTypeOK'
  BY <1>1 DEF IInv, SessionTypeOK, worldVars
<1>3. \A j \in Sockets : conn'[j] = "none" => conn[j] = "none"
  BY <1>1 DEF IInv, SessionTypeOK
<1>4. Born'
  BY <1>1, <1>3 DEF IInv, Born
<1>. QED
  BY <1>1, <1>2, <1>4 DEF IInv, InUpdate, SessionsAlive, HeldOK, Held, Silent, worldVars

LEMMA FindSessionFact ==
  ASSUME IInv, NEW k \in Sockets, FindSession(k) PROVE IInv'
<1>1. /\ conn[k] = "none"
      /\ conn' = [conn EXCEPT ![k] = "open"]
      /\ session' = [session EXCEPT ![k] = m_sessions]
      /\ auth' = [auth EXCEPT ![k] = IF m_sessions = None THEN "absent" ELSE "found"]
      /\ UNCHANGED <<asked, logins, alive, sess, worldVars>>
  BY DEF FindSession
<1>2. SessionTypeOK'
  BY <1>1 DEF IInv, SessionTypeOK, worldVars
<1>3. auth[k] = "idle" /\ k \notin alive
  BY <1>1 DEF IInv, Born
<1>4. \A j \in Sockets \ {k} : conn'[j] = conn[j] /\ auth'[j] = auth[j] /\ session'[j] = session[j]
  BY <1>1 DEF IInv, SessionTypeOK
<1>5. Born'
  BY <1>1, <1>3, <1>4 DEF IInv, Born, SessionTypeOK
<1>6. HeldOK'
  <2> SUFFICES ASSUME NEW s \in alive PROVE Held(s)'
    BY <1>1 DEF HeldOK
  <2>1. s \in Sockets /\ sess[s] \in SessionRecord /\ Held(s)
    BY DEF IInv, SessionTypeOK, HeldOK
  <2>2. /\ sess[s].m_socket \in Sockets \union {None}
        /\ sess[s].m_requestSocket \in Sockets \union {None}
        /\ \A i \in 1..Len(sess[s].messages) : sess[s].messages[i] \in Sockets
    BY <2>1 DEF SessionRecord
  <2>3. \A j \in Sockets : auth[j] = "done" => auth'[j] = "done" /\ session'[j] = session[j]
    BY <1>3, <1>4
  <2>. QED
    BY <1>1, <2>1, <2>2, <2>3 DEF Held
<1>. QED
  BY <1>1, <1>2, <1>5, <1>6 DEF IInv, InUpdate, SessionsAlive, Silent, worldVars

LEMMA BadPlatformFact ==
  ASSUME IInv, NEW k \in Sockets, BadPlatform(k) PROVE IInv'
<1>1. /\ auth[k] \in {"found", "absent"}
      /\ auth' = [auth EXCEPT ![k] = "done"]
      /\ conn' = [conn EXCEPT ![k] = "closed"]
      /\ UNCHANGED <<session, asked, logins, alive, sess, worldVars>>
  BY DEF BadPlatform
<1>2. SessionTypeOK'
  BY <1>1 DEF IInv, SessionTypeOK, worldVars
<1>3. \A j \in Sockets : auth[j] = "done" => auth'[j] = "done"
  BY <1>1 DEF IInv, SessionTypeOK
<1>4. Born'
  BY <1>1, <1>3 DEF IInv, Born, SessionTypeOK
<1>5. HeldOK'
  <2> SUFFICES ASSUME NEW s \in alive PROVE Held(s)'
    BY <1>1 DEF HeldOK
  <2>1. s \in Sockets /\ sess[s] \in SessionRecord /\ Held(s)
    BY DEF IInv, SessionTypeOK, HeldOK
  <2>2. /\ sess[s].m_socket \in Sockets \union {None}
        /\ sess[s].m_requestSocket \in Sockets \union {None}
        /\ \A i \in 1..Len(sess[s].messages) : sess[s].messages[i] \in Sockets
    BY <2>1 DEF SessionRecord
  <2>. QED
    BY <1>1, <1>3, <2>1, <2>2 DEF Held
<1>. QED
  BY <1>1, <1>2, <1>4, <1>5 DEF IInv, InUpdate, SessionsAlive, Silent, worldVars

LEMMA AddMessageFact ==
  ASSUME IInv, NEW k \in Sockets, AddMessage(k) PROVE IInv'
<1> DEFINE s == session[k]
<1>1. /\ auth[k] = "found"
      /\ auth' = [auth EXCEPT ![k] = "done"]
      /\ UNCHANGED <<conn, session, asked, logins, alive, worldVars>>
  BY DEF AddMessage
<1>2. \A j \in Sockets : auth[j] = "done" => auth'[j] = "done"
  BY <1>1 DEF IInv, SessionTypeOK
<1>3. auth'[k] = "done" /\ auth[k] # "done"
  BY <1>1 DEF IInv, SessionTypeOK
<1>4. auth' \in [Sockets -> {"idle", "found", "absent", "done"}]
  BY <1>1 DEF IInv, SessionTypeOK
<1>5. \A j \in Sockets : conn'[j] = "none" => auth'[j] = "idle"
  BY <1>1 DEF IInv, SessionTypeOK, Born
<1>6. CASE s \notin alive
  <2>1. sess' = sess
    BY <1>6 DEF AddMessage
  <2>2. SessionTypeOK' /\ Born'
    BY <1>1, <1>2, <1>4, <1>5, <2>1 DEF IInv, SessionTypeOK, Born, worldVars
  <2>3. HeldOK'
    <3> SUFFICES ASSUME NEW t \in alive PROVE Held(t)'
      BY <1>1 DEF HeldOK
    <3>1. t \in Sockets /\ sess[t] \in SessionRecord /\ Held(t)
      BY DEF IInv, SessionTypeOK, HeldOK
    <3>2. /\ sess[t].m_socket \in Sockets \union {None}
          /\ sess[t].m_requestSocket \in Sockets \union {None}
          /\ \A i \in 1..Len(sess[t].messages) : sess[t].messages[i] \in Sockets
      BY <3>1 DEF SessionRecord
    <3>. QED
      BY <1>1, <1>2, <2>1, <3>1, <3>2 DEF Held
  <2>. QED
    BY <1>1, <2>1, <2>2, <2>3 DEF IInv, InUpdate, SessionsAlive, Silent, worldVars
<1>7. CASE s \in alive
  <2> DEFINE r == sess[s]
             q == [r EXCEPT !.messages = Append(r.messages, k)]
  <2>1. s \in Sockets /\ r \in SessionRecord /\ r.messages \in Seq(Sockets)
    BY <1>7 DEF IInv, SessionTypeOK, SessionRecord
  <2>2. sess' = [sess EXCEPT ![s] = q]
    BY <1>7, <2>1 DEF AddMessage
  <2>3. q \in SessionRecord
    <3>1. Append(r.messages, k) \in Seq(Sockets)
      BY <2>1
    <3>. QED
      BY <2>1, <3>1 DEF SessionRecord
  <2>4. sess'[s] = q /\ \A t \in Sockets \ {s} : sess'[t] = sess[t]
    BY <2>1, <2>2 DEF IInv, SessionTypeOK
  <2>5. SessionTypeOK'
    <3>1. sess' \in [Sockets -> SessionRecord]
      BY <2>2, <2>3 DEF IInv, SessionTypeOK
    <3>. QED
      BY <1>1, <1>4, <3>1 DEF IInv, SessionTypeOK, worldVars
  <2>6. Born'
    BY <1>1, <1>2, <1>5, <1>7, <2>4 DEF IInv, Born
  <2>7. HeldOK'
    <3> SUFFICES ASSUME NEW t \in alive PROVE Held(t)'
      BY <1>1 DEF HeldOK
    <3>1. t \in Sockets /\ sess[t] \in SessionRecord /\ Held(t)
      BY DEF IInv, SessionTypeOK, HeldOK
    <3>2. /\ sess[t].m_socket \in Sockets \union {None}
          /\ sess[t].m_requestSocket \in Sockets \union {None}
          /\ sess[t].messages \in Seq(Sockets)
      BY <3>1 DEF SessionRecord
    <3>3. CASE t # s
      <4>1. sess'[t] = sess[t]
        BY <2>4, <3>1, <3>3
      <4>. QED
        BY <1>1, <1>2, <3>1, <3>2, <4>1 DEF Held
    <3>4. CASE t = s
      <4>1. /\ sess'[t].m_socket = r.m_socket /\ sess'[t].m_requestSocket = r.m_requestSocket
            /\ sess'[t].messages = Append(r.messages, k)
        BY <2>1, <2>4, <3>4 DEF SessionRecord
      <4>2. \A i \in 1..Len(Append(r.messages, k)) :
               \/ i \in 1..Len(r.messages) /\ Append(r.messages, k)[i] = r.messages[i]
               \/ Append(r.messages, k)[i] = k
        BY <2>1
      <4>3. k # r.m_socket /\ k # r.m_requestSocket
        BY <1>3, <3>1, <3>4, SocketsAssumption DEF Held
      <4> HIDE DEF q
      <4>. QED
        <5>1. \A i \in 1..Len(Append(r.messages, k)) : LET j == Append(r.messages, k)[i] IN
                 session[j] = s /\ auth'[j] = "done" /\ j # r.m_socket /\ j # r.m_requestSocket
          BY <1>2, <1>3, <3>1, <3>2, <3>4, <4>2, <4>3 DEF Held
        <5>. QED
          BY <1>1, <1>2, <3>1, <3>2, <3>4, <4>1, <5>1 DEF Held
    <3>. QED
      BY <3>3, <3>4
  <2>8. Silent'
    <3>1. q.state = r.state /\ q.m_socket = r.m_socket
      BY <2>1 DEF SessionRecord
    <3>2. alive \subseteq Sockets
      BY DEF IInv, SessionTypeOK
    <3>3. \A t \in alive : sess'[t].state = sess[t].state /\ sess'[t].m_socket = sess[t].m_socket
      <4> HIDE DEF q
      <4>. QED
        BY <2>4, <3>1, <3>2
    <3>. QED
      BY <1>1, <3>3 DEF IInv, Silent, worldVars
  <2>. QED
    BY <1>1, <2>5, <2>6, <2>7, <2>8 DEF IInv, InUpdate, SessionsAlive, worldVars
<1>. QED
  BY <1>6, <1>7

\* A session object that comes into being, in the add queue or not.
LEMMA NewSessionFact ==
  ASSUME IInv, NEW k \in Sockets, auth[k] = "absent",
         auth' = [auth EXCEPT ![k] = "done"], session' = [session EXCEPT ![k] = k],
         alive' = alive \union {k}, conn' \in [Sockets -> {"none", "open", "closed"}],
         \A j \in Sockets : conn'[j] = "none" => conn[j] = "none",
         addQueue' \in {addQueue, Append(addQueue, k)},
         UNCHANGED <<asked, logins, sess, m_sessions, world, packets, holders, kicks, stray>>
  PROVE  IInv'
<1>1. k \notin alive /\ sess[k] = NewSession(k)
  BY DEF IInv, Born
<1>2. \A j \in Sockets \ {k} : auth'[j] = auth[j] /\ session'[j] = session[j]
  BY DEF IInv, SessionTypeOK
<1>3. auth'[k] = "done" /\ session'[k] = k /\ conn[k] # "none"
  BY DEF IInv, SessionTypeOK, Born
<1>4. alive \subseteq Sockets /\ addQueue \in Seq(Sockets) /\ k # None /\ m_sessions \in alive \union {None}
  BY SocketsAssumption DEF IInv, SessionTypeOK, SessionsAlive
<1>5. /\ Append(addQueue, k) \in Seq(Sockets)
      /\ \A i \in 1..Len(Append(addQueue, k)) :
            \/ i \in 1..Len(addQueue) /\ Append(addQueue, k)[i] = addQueue[i]
            \/ i = Len(addQueue) + 1 /\ Append(addQueue, k)[i] = k
  BY <1>4
<1>6. SessionTypeOK'
  <2>1. auth' \in [Sockets -> {"idle", "found", "absent", "done"}]
        /\ session' \in [Sockets -> Sockets \union {None}]
    BY DEF IInv, SessionTypeOK
  <2>2. addQueue' \in Seq(Sockets)
    BY <1>4, <1>5
  <2>. QED
    BY <2>1, <2>2 DEF IInv, SessionTypeOK
<1>7. Born'
  BY <1>1, <1>2, <1>3 DEF IInv, Born
<1>8. SessionsAlive'
  <2>1. \A i \in 1..Len(addQueue) : addQueue[i] \in alive \ {m_sessions} /\ addQueue[i] # k
    BY <1>1 DEF IInv, SessionsAlive
  <2>2. \A i, j \in 1..Len(addQueue) : addQueue[i] = addQueue[j] => i = j
    BY DEF IInv, SessionsAlive
  <2>3. CASE addQueue' = addQueue
    BY <1>4, <2>1, <2>2, <2>3 DEF SessionsAlive
  <2>4. CASE addQueue' = Append(addQueue, k)
    <3>1. \A i \in 1..Len(addQueue') : addQueue'[i] \in alive' \ {m_sessions}
      BY <1>1, <1>4, <1>5, <2>1, <2>4
    <3>2. \A i, j \in 1..Len(addQueue') : addQueue'[i] = addQueue'[j] => i = j
      BY <1>5, <2>1, <2>2, <2>4
    <3>. QED
      BY <1>4, <3>1, <3>2 DEF SessionsAlive
  <2>. QED
    BY <2>3, <2>4
<1>9. HeldOK'
  <2> SUFFICES ASSUME NEW t \in alive' PROVE Held(t)'
    BY DEF HeldOK
  <2>1. CASE t = k
    <3>1. sess'[t] = NewSession(k)
      BY <1>1, <2>1
    <3>. QED
      BY <1>3, <1>4, <2>1, <3>1 DEF Held, NewSession
  <2>2. CASE t # k
    <3>1. t \in alive /\ t \in Sockets /\ sess[t] \in SessionRecord /\ Held(t)
      BY <2>2 DEF IInv, SessionTypeOK, HeldOK
    <3>2. /\ sess[t].m_socket \in Sockets \union {None}
          /\ sess[t].m_requestSocket \in Sockets \union {None}
          /\ \A i \in 1..Len(sess[t].messages) : sess[t].messages[i] \in Sockets
      BY <3>1 DEF SessionRecord
    <3>3. \A j \in Sockets : auth[j] = "done" => auth'[j] = "done" /\ session'[j] = session[j]
      BY <1>2
    <3>. QED
      BY <3>1, <3>2, <3>3 DEF Held
  <2>. QED
    BY <2>1, <2>2
<1>10. Silent'
  BY <1>1 DEF IInv, Silent, NewSession
<1>. QED
  BY <1>6, <1>7, <1>8, <1>9, <1>10 DEF IInv, InUpdate

LEMMA QueuePacketFact ==
  ASSUME IInv, NEW k \in Sockets, NEW op \in Opcodes, QueuePacket(k, op) PROVE IInv'
<1> DEFINE s == session[k]
<1>1. /\ s # None
      /\ ClientSends(k, op)
      /\ UNCHANGED <<conn, auth, session, alive, worldVars>>
  BY DEF QueuePacket
<1>2. asked' \in [Sockets -> BOOLEAN] /\ logins' \in 0..MaxLogins
  <2>1. asked \in [Sockets -> BOOLEAN] /\ logins \in 0..MaxLogins /\ MaxLogins \in Nat
    BY BoundsAssumption DEF IInv, SessionTypeOK
  <2>2. CASE op = "login"
    <3>1. logins < MaxLogins /\ asked' = [asked EXCEPT ![k] = TRUE] /\ logins' = logins + 1
      BY <1>1, <2>2 DEF ClientSends
    <3>. QED
      BY <2>1, <3>1
  <2>3. CASE op # "login"
    BY <1>1, <2>1, <2>3 DEF ClientSends
  <2>. QED
    BY <2>2, <2>3
<1>3. CASE s \notin alive
  <2>1. sess' = sess
    BY <1>3 DEF QueuePacket
  <2>. QED
    BY <1>1, <1>2, <2>1
       DEF IInv, SessionTypeOK, Born, InUpdate, SessionsAlive, HeldOK, Held, Silent, worldVars
<1>4. CASE s \in alive
  <2> DEFINE r == sess[s]
             q == [r EXCEPT !.m_recvQueue = Append(r.m_recvQueue, op)]
  <2>1. s \in Sockets /\ r \in SessionRecord /\ r.m_recvQueue \in Seq(Opcodes)
    BY <1>4 DEF IInv, SessionTypeOK, SessionRecord
  <2>2. sess' = [sess EXCEPT ![s] = q]
    BY <1>4, <2>1 DEF QueuePacket
  <2>3. /\ q \in SessionRecord /\ q.messages = r.messages /\ q.m_requestSocket = r.m_requestSocket
        /\ q.state = r.state /\ q.m_socket = r.m_socket
    <3>1. Append(r.m_recvQueue, op) \in Seq(Opcodes)
      BY <2>1
    <3>. QED
      BY <2>1, <3>1 DEF SessionRecord
  <2> HIDE DEF q
  <2>4. sess'[s] = q /\ \A t \in Sockets \ {s} : sess'[t] = sess[t]
    BY <2>1, <2>2 DEF IInv, SessionTypeOK
  <2>5. SessionTypeOK'
    <3>1. sess' \in [Sockets -> SessionRecord]
      BY <2>2, <2>3 DEF IInv, SessionTypeOK
    <3>. QED
      BY <1>1, <1>2, <3>1 DEF IInv, SessionTypeOK, worldVars
  <2>6. Born'
    BY <1>1, <1>4, <2>4 DEF IInv, Born
  <2>7. HeldOK'
    <3>1. SessionTypeOK /\ HeldOK /\ Held(s)
      BY <1>4 DEF IInv, HeldOK
    <3>2. /\ q \in SessionRecord /\ q.messages = r.messages /\ q.m_requestSocket = r.m_requestSocket
          /\ q.m_socket = r.m_socket
          /\ q.m_socket # None => q.m_socket # q.m_requestSocket
      BY <2>3, <3>1 DEF Held
    <3>. QED
      BY <1>1, <1>4, <2>2, <3>1, <3>2, HeldKept
  <2>8. Silent'
    BY <1>1, <2>1, <2>3, <2>4 DEF IInv, Silent, SessionTypeOK, worldVars
  <2>. QED
    BY <1>1, <2>5, <2>6, <2>7, <2>8 DEF IInv, InUpdate, SessionsAlive, worldVars
<1>. QED
  BY <1>3, <1>4

LEMMA NetworkFact ==
  ASSUME IInv, NEW k \in Sockets, Network(k) PROVE IInv'
<1>1. CASE AddSession(k)
  <2>1. \A j \in Sockets : conn'[j] = "none" => conn[j] = "none"
    BY <1>1 DEF AddSession
  <2>. QED
    BY <1>1, <2>1, NewSessionFact DEF AddSession, IInv, SessionTypeOK
<1>2. CASE BadAddonInfo(k)
  <2>1. conn' \in [Sockets -> {"none", "open", "closed"}]
        /\ \A j \in Sockets : conn'[j] = "none" => conn[j] = "none"
    BY <1>2 DEF BadAddonInfo, IInv, SessionTypeOK
  <2>. QED
    BY <1>2, <2>1, NewSessionFact DEF BadAddonInfo, worldVars
<1>. QED
  BY <1>1, <1>2, DisconnectFact, FindSessionFact, BadPlatformFact, AddMessageFact, QueuePacketFact DEF Network, Handler

-----------------------------------------------------------------------------
(* The steps of the world thread.                                          *)

\* A step that changes only the record of one session, and keeps its sockets.
LEMMA RecordFact ==
  ASSUME IInv, NEW s \in alive, NEW q, Follows(sess[s], q), q.m_socket = sess[s].m_socket,
         q.state = "OFFLINE" => sess[s].state = "OFFLINE",
         sess' = [sess EXCEPT ![s] = q],
         UNCHANGED <<conn, auth, session, asked, logins, alive, m_sessions, addQueue, packets>>,
         world' \in {"idle", "messages", "swap", "packets", "results"},
         world' \in {"messages", "swap", "packets"} => m_sessions # None,
         packets # <<>> => world' = "packets",
         holders' \in 0..MaxLogins, kicks' \in 0..MaxKicks, stray' \in BOOLEAN
  PROVE  IInv'
<1>1. s \in Sockets /\ sess[s] \in SessionRecord /\ q \in SessionRecord
  BY DEF IInv, SessionTypeOK, Follows
<1>2. sess'[s] = q /\ \A t \in Sockets \ {s} : sess'[t] = sess[t]
  BY <1>1 DEF IInv, SessionTypeOK
<1>3. SessionTypeOK'
  <2>1. sess' \in [Sockets -> SessionRecord]
    BY <1>1 DEF IInv, SessionTypeOK
  <2>. QED
    BY <2>1 DEF IInv, SessionTypeOK
<1>4. Born'
  BY <1>2 DEF IInv, Born
<1>5. HeldOK'
  <2>1. SessionTypeOK /\ HeldOK /\ Held(s)
    BY DEF IInv, HeldOK
  <2>2. q.m_socket # None => q.m_socket # q.m_requestSocket
    BY <2>1 DEF Held, Follows
  <2>. QED
    BY <1>1, <2>1, <2>2, HeldKept DEF Follows
<1>6. Silent'
  BY <1>1, <1>2 DEF IInv, Silent, SessionTypeOK
<1>. QED
  BY <1>3, <1>4, <1>5, <1>6 DEF IInv, InUpdate, SessionsAlive

LEMMA UpdateSessionsFact == ASSUME IInv, UpdateSessions PROVE IInv'
<1>1. /\ world = "idle" /\ addQueue' = <<>>
      /\ m_sessions' = IF m_sessions = None /\ addQueue # <<>> THEN Head(addQueue) ELSE m_sessions
      /\ world' = IF m_sessions' = None THEN "results" ELSE "messages"
      /\ UNCHANGED <<conn, auth, session, asked, logins, alive, sess, packets, holders, kicks, stray>>
  BY DEF UpdateSessions
<1>2. packets = <<>>
  BY <1>1 DEF IInv, InUpdate
<1>3. m_sessions' \in alive \union {None}
  <2>1. addQueue \in Seq(Sockets)
    BY DEF IInv, SessionTypeOK
  <2>2. addQueue # <<>> => 1 \in 1..Len(addQueue) /\ Head(addQueue) = addQueue[1]
    BY <2>1
  <2>. QED
    BY <1>1, <2>2 DEF IInv, SessionsAlive
<1>4. SessionTypeOK' /\ SessionsAlive' /\ InUpdate'
  BY <1>1, <1>2, <1>3 DEF IInv, SessionTypeOK, SessionsAlive, InUpdate
<1>. QED
  BY <1>1, <1>2, <1>4 DEF IInv, Born, HeldOK, Held, Silent

\* The first message makes its socket the requested one, unless there is one; then none is left.
LEMMA ExecuteMessagesFact == ASSUME IInv, ExecuteMessages PROVE IInv'
<1> DEFINE s == m_sessions
           r == sess[s]
           q == IF r.messages = <<>> THEN r
                ELSE [RequestNewSocket(r, Head(r.messages)) EXCEPT !.messages = <<>>]
<1>1. /\ world = "messages" /\ world' = "swap"
      /\ sess' = [sess EXCEPT ![s] = q]
      /\ UNCHANGED <<conn, auth, session, asked, logins, alive, m_sessions, addQueue, packets,
                     holders, kicks, stray>>
  BY DEF ExecuteMessages
<1>2. s # None /\ packets = <<>>
  BY <1>1 DEF IInv, InUpdate
<1>3. s \in alive /\ s \in Sockets /\ r \in SessionRecord /\ r.messages \in Seq(Sockets)
  BY <1>2, Current
<1>4. CASE r.messages = <<>>
  <2>1. Follows(r, r)
    BY <1>3, FollowsSelf
  <2>. QED
    BY <1>1, <1>2, <1>3, <1>4, <2>1, RecordFact DEF IInv, SessionTypeOK
<1>5. CASE r.messages # <<>>
  <2> DEFINE k == Head(r.messages)
  <2>1. k \in Sockets /\ k = r.messages[1] /\ 1 \in 1..Len(r.messages)
    BY <1>3, <1>5
  <2>2. Held(s)
    BY <1>3 DEF IInv, HeldOK
  <2>3. session[k] = s /\ auth[k] = "done" /\ k # r.m_socket /\ k # r.m_requestSocket /\ k # None
    BY <2>1, <2>2, SocketsAssumption DEF Held
  <2>4. /\ q \in SessionRecord /\ q.messages = <<>> /\ q.m_socket = r.m_socket
        /\ q.m_requestSocket = IF r.m_requestSocket # None THEN r.m_requestSocket ELSE k
        /\ q.state \in {r.state, "CREATED"}
    <3> DEFINE n == RequestNewSocket(r, k)
    <3>1. n = IF r.m_requestSocket # None THEN r
              ELSE [r EXCEPT !.m_requestSocket = k, !.state = "CREATED"]
      BY DEF RequestNewSocket
    <3> HIDE DEF n, k
    <3>2. /\ n \in SessionRecord /\ n.m_socket = r.m_socket
          /\ n.m_requestSocket = IF r.m_requestSocket # None THEN r.m_requestSocket ELSE k
          /\ n.state \in {r.state, "CREATED"}
      BY <1>3, <2>1, <3>1 DEF SessionRecord, States
    <3>3. q = [n EXCEPT !.messages = <<>>]
      BY <1>5 DEF n, k
    <3>4. <<>> \in Seq(Sockets)
      OBVIOUS
    <3> HIDE DEF q
    <3>. QED
      BY <3>2, <3>3, <3>4 DEF SessionRecord
  <2> HIDE DEF k, q
  <2>5. sess'[s] = q /\ \A t \in Sockets \ {s} : sess'[t] = sess[t]
    BY <1>1, <1>3 DEF IInv, SessionTypeOK
  <2>6. SessionTypeOK'
    <3>1. sess' \in [Sockets -> SessionRecord]
      BY <1>1, <2>4 DEF IInv, SessionTypeOK
    <3>. QED
      BY <1>1, <3>1 DEF IInv, SessionTypeOK
  <2>7. Born'
    BY <1>1, <1>3, <2>5 DEF IInv, Born
  <2>8. HeldOK'
    <3> SUFFICES ASSUME NEW t \in alive PROVE Held(t)'
      BY <1>1 DEF HeldOK
    <3>1. CASE t = s
      BY <1>1, <2>2, <2>3, <2>4, <2>5, <3>1 DEF Held
    <3>2. CASE t # s
      <4>1. t \in Sockets /\ Held(t) /\ sess'[t] = sess[t]
        BY <2>5, <3>2 DEF IInv, SessionTypeOK, HeldOK
      <4>. QED
        BY <1>1, <4>1 DEF Held
    <3>. QED
      BY <3>1, <3>2
  <2>9. Silent'
    BY <1>1, <1>2, <1>3, <2>4, <2>5 DEF IInv, Silent, SessionTypeOK
  <2>. QED
    BY <1>1, <1>2, <2>6, <2>7, <2>8, <2>9 DEF IInv, InUpdate, SessionsAlive
<1>. QED
  BY <1>4, <1>5

LEMMA SwapRecvQueueFact == ASSUME IInv, SwapRecvQueue PROVE IInv'
<1> DEFINE s == m_sessions
           r == sess[s]
           q == [r EXCEPT !.m_recvQueue = <<>>]
<1>1. /\ world = "swap" /\ world' = "packets"
      /\ packets' = IF IsClosed(r.m_socket) THEN <<>> ELSE r.m_recvQueue
      /\ UNCHANGED <<conn, auth, session, asked, logins, alive, m_sessions, addQueue,
                     holders, kicks, stray>>
  BY DEF SwapRecvQueue
<1>2. s # None
  BY <1>1 DEF IInv, InUpdate
<1>3. s \in alive /\ s \in Sockets /\ r \in SessionRecord
  BY <1>2, Current
<1>4. sess' = [sess EXCEPT ![s] = q]
  BY <1>3 DEF SwapRecvQueue
<1>5. /\ q \in SessionRecord /\ q.messages = r.messages /\ q.m_requestSocket = r.m_requestSocket
      /\ q.m_socket = r.m_socket /\ q.state = r.state
  <2>1. <<>> \in Seq(Opcodes)
    OBVIOUS
  <2>2. q \in SessionRecord
    BY <1>3, <2>1 DEF SessionRecord
  <2>3. /\ q.messages = r.messages /\ q.m_requestSocket = r.m_requestSocket
        /\ q.m_socket = r.m_socket /\ q.state = r.state
    BY <1>3 DEF SessionRecord
  <2> HIDE DEF q
  <2>. QED
    BY <2>2, <2>3
<1> HIDE DEF q
<1>6. sess'[s] = q /\ \A t \in Sockets \ {s} : sess'[t] = sess[t]
  BY <1>3, <1>4 DEF IInv, SessionTypeOK
<1>7. SessionTypeOK'
  <2>1. sess' \in [Sockets -> SessionRecord]
    BY <1>4, <1>5 DEF IInv, SessionTypeOK
  <2>2. packets' \in Seq(Opcodes)
    BY <1>1, <1>3 DEF SessionRecord
  <2>. QED
    BY <1>1, <2>1, <2>2 DEF IInv, SessionTypeOK
<1>8. Born'
  BY <1>1, <1>3, <1>6 DEF IInv, Born
<1>9. HeldOK'
  <2>1. SessionTypeOK /\ HeldOK /\ Held(s)
    BY <1>3 DEF IInv, HeldOK
  <2>2. q.m_socket # None => q.m_socket # q.m_requestSocket
    BY <1>5, <2>1 DEF Held
  <2>. QED
    BY <1>1, <1>3, <1>4, <1>5, <2>1, <2>2, HeldKept
<1>10. Silent'
  <2>1. r.state = "OFFLINE" => packets' = <<>>
    BY <1>1, <1>3 DEF IInv, Silent, IsClosed
  <2>. QED
    BY <1>1, <1>3, <1>5, <1>6, <2>1 DEF IInv, Silent, SessionTypeOK
<1>. QED
  BY <1>1, <1>2, <1>7, <1>8, <1>9, <1>10 DEF IInv, InUpdate, SessionsAlive

\* What Update leaves of a session that stays: its packets and messages, and its sockets or
\* the one it was asked to take.
Kept(q, finalized) ==
    LET r == sess[m_sessions] IN
    /\ q \in SessionRecord
    /\ q.messages = r.messages /\ q.m_recvQueue = r.m_recvQueue
    /\ q.m_requestSocket \in {r.m_requestSocket, None}
    /\ q.m_socket \in {r.m_socket, r.m_requestSocket, None}
    /\ q.m_socket # None => q.m_socket # q.m_requestSocket
    /\ \A k \in Sockets : k \in finalized => k = r.m_socket /\ k # q.m_socket
    /\ q.state = "OFFLINE" => q.m_socket = None

LEMMA OpcodeOutcome ==
  ASSUME IInv, ExecuteOpcode
  PROVE  /\ m_sessions # None
         /\ \E q : Kept(q, {}) /\ q.state # "OFFLINE" /\ Keep(m_sessions, q, {})
<1> DEFINE s == m_sessions
<1>1. world = "packets" /\ packets # <<>>
  BY DEF ExecuteOpcode
<1>2. PICK q \in Handled(sess[s], Head(packets)) : Keep(s, q, {})
  BY DEF ExecuteOpcode
<1>3. s # None
  BY <1>1 DEF IInv, InUpdate
<1>4. Head(packets) \in Opcodes
  BY <1>1 DEF IInv, SessionTypeOK
<1>5. sess[s] \in SessionRecord /\ s \in alive /\ Held(s)
  BY <1>3, Current DEF IInv, HeldOK
<1>6. Follows(sess[s], q) /\ (sess[s].state # "OFFLINE" => q.state # "OFFLINE")
  BY <1>4, <1>5, HandledFact
<1>7. q.state # "OFFLINE"
  BY <1>1, <1>5, <1>6 DEF IInv, Silent
<1>8. q.m_socket # None => q.m_socket # q.m_requestSocket
  BY <1>5, <1>6 DEF Follows, Held
<1>9. Kept(q, {})
  BY <1>6, <1>7, <1>8 DEF Follows, Kept
<1>. QED
  BY <1>2, <1>3, <1>7, <1>9

\* WorldSession::Update ends: the session stays, changed, moved or link-dead, or is deleted.
LEMMA StateOutcome ==
  ASSUME IInv, UpdateState
  PROVE  /\ m_sessions # None
         /\ \/ \E q : Follows(sess[m_sessions], q) /\ Delete(m_sessions, q)
            \/ \E q, finalized : Kept(q, finalized) /\ Keep(m_sessions, q, finalized)
<1> DEFINE s == m_sessions
           r == sess[s]
<1>1. /\ world = "packets" /\ packets = <<>> /\ world' = "results"
      /\ UpdateCreated(s, r) \/ UpdateCharSelection(s, r) \/ UpdateReady(s, r) \/ UpdateOffline(s, r)
  BY DEF UpdateState
<1>2. s # None
  BY <1>1 DEF IInv, InUpdate
<1>3. s \in alive /\ r \in SessionRecord /\ Held(s)
  BY <1>2, Current DEF IInv, HeldOK
<1> DEFINE Goal == \/ \E q : Follows(r, q) /\ Delete(s, q)
                   \/ \E q, finalized : Kept(q, finalized) /\ Keep(s, q, finalized)
<1> SUFFICES Goal
  BY <1>2
<1>5. ASSUME NEW q, Follows(r, q), Delete(s, q) PROVE Goal
  BY <1>5
<1>6. ASSUME NEW q, Follows(r, q), Keep(s, q, {}) PROVE Goal
  <2>1. q.state = "OFFLINE" => q.m_socket = None
    BY <1>3, <1>6 DEF IInv, Silent, Follows
  <2>2. q.m_socket # None => q.m_socket # q.m_requestSocket
    BY <1>3, <1>6 DEF Held, Follows
  <2>3. Kept(q, {})
    BY <1>6, <2>1, <2>2 DEF Follows, Kept
  <2>. QED
    BY <1>6, <2>3
<1>7. Follows(r, r) /\ Follows(r, LogoutPlayer(r))
  BY <1>3, FollowsSelf, LogoutPlayerFact
<1>8. CASE UpdateCreated(s, r)
  <2>1. CASE r.m_requestSocket = None
    <3>1. Keep(s, SetInCharSelection(r), {})
      BY <1>8, <2>1 DEF UpdateCreated
    <3>. QED
      BY <1>3, <1>6, <3>1, SetInCharSelectionFact
  <2>2. CASE r.m_requestSocket # None
    <3> DEFINE off == SetOffline(r)
               moved == [off EXCEPT !.m_socket = r.m_requestSocket, !.m_requestSocket = None]
               q == SetInCharSelection(moved)
    <3>1. off \in SessionRecord /\ off.messages = r.messages /\ off.m_recvQueue = r.m_recvQueue
      BY <1>3, SetOfflineFact DEF Follows
    <3>2. r.m_requestSocket \in Sockets \union {None}
      BY <1>3 DEF SessionRecord
    <3>3. Keep(s, q, {r.m_socket})
      BY <1>8, <2>2 DEF UpdateCreated
    <3> HIDE DEF off
    <3>4. /\ moved \in SessionRecord /\ moved.messages = r.messages /\ moved.m_recvQueue = r.m_recvQueue
          /\ moved.m_socket = r.m_requestSocket /\ moved.m_requestSocket = None
      BY <3>1, <3>2 DEF SessionRecord
    <3> HIDE DEF moved
    <3>5. /\ q \in SessionRecord /\ q.messages = r.messages /\ q.m_recvQueue = r.m_recvQueue
          /\ q.state # "OFFLINE"
          /\ q.m_socket = r.m_requestSocket /\ q.m_requestSocket = None
      BY <3>4, SetInCharSelectionFact DEF Follows
    <3> HIDE DEF q
    <3>6. \A k \in Sockets : k \in {r.m_socket} => k = r.m_socket /\ k # q.m_socket
      BY <1>3, <2>2, <3>5, SocketsAssumption DEF Held
    <3>7. Kept(q, {r.m_socket})
      BY <2>2, <3>5, <3>6 DEF Kept
    <3>. QED
      BY <3>3, <3>7
  <2>. QED
    BY <2>1, <2>2
<1>9. CASE UpdateCharSelection(s, r)
  <2> DEFINE out == IF ShouldLogOut(r) THEN LogoutPlayer(r) ELSE r
             kicked == [out EXCEPT !.kickSession = TRUE]
  <2>1. \/ Delete(s, r) \/ Delete(s, LogoutPlayer(kicked)) \/ Keep(s, out, {})
    BY <1>9 DEF UpdateCharSelection
  <2>2. Follows(r, out) /\ out \in SessionRecord
    BY <1>7 DEF Follows
  <2> HIDE DEF out
  <2>3. Follows(out, kicked) /\ kicked \in SessionRecord
    BY <2>2 DEF Follows, SessionRecord
  <2> HIDE DEF kicked
  <2>4. Follows(r, LogoutPlayer(kicked))
    <3>1. Follows(kicked, LogoutPlayer(kicked))
      BY <2>3, LogoutPlayerFact
    <3>2. Follows(r, kicked)
      BY <2>2, <2>3, FollowsAgain
    <3>. QED
      BY <3>1, <3>2, FollowsAgain
  <2>. QED
    BY <1>5, <1>6, <1>7, <2>1, <2>2, <2>4
<1>10. CASE UpdateReady(s, r)
  <2>1. \/ Delete(s, r) \/ Keep(s, LogoutPlayer(r), {}) \/ Keep(s, r, {})
        \/ r.m_socket # None /\ Keep(s, SetOffline(r), {r.m_socket})
    BY <1>10 DEF UpdateReady
  <2>2. ASSUME r.m_socket # None, Keep(s, SetOffline(r), {r.m_socket}) PROVE Goal
    <3>1. Follows(r, SetOffline(r)) /\ SetOffline(r).m_socket = None
      BY <1>3, SetOfflineFact
    <3>2. \A k \in Sockets : k \in {r.m_socket} => k = r.m_socket /\ k # SetOffline(r).m_socket
      BY <3>1, SocketsAssumption
    <3>3. Kept(SetOffline(r), {r.m_socket})
      BY <3>1, <3>2 DEF Follows, Kept
    <3>. QED
      BY <2>2, <3>3
  <2>. QED
    BY <1>5, <1>6, <1>7, <2>1, <2>2
<1>11. CASE UpdateOffline(s, r)
  <2>1. \/ Delete(s, LogoutPlayer(r)) \/ Keep(s, LogoutPlayer(r), {}) \/ Keep(s, r, {})
    BY <1>11 DEF UpdateOffline
  <2>. QED
    BY <1>5, <1>6, <1>7, <2>1
<1>. QED
  BY <1>1, <1>8, <1>9, <1>10, <1>11

LEMMA UpdateStateFact == ASSUME IInv, UpdateState PROVE IInv'
<1>1. /\ world = "packets" /\ packets = <<>> /\ world' = "results"
      /\ UNCHANGED <<auth, logins, addQueue, packets, holders, kicks>>
  BY DEF UpdateState
<1>2. holders' \in 0..MaxLogins /\ packets' = <<>> /\ packets' \in Seq(Opcodes)
  BY <1>1 DEF IInv, SessionTypeOK
<1>3. m_sessions # None
  BY StateOutcome
<1>4. ASSUME NEW q, Follows(sess[m_sessions], q), Delete(m_sessions, q) PROVE IInv'
  BY <1>1, <1>2, <1>3, <1>4, DeleteFact DEF Follows
<1>5. ASSUME NEW q, NEW finalized, Kept(q, finalized), Keep(m_sessions, q, finalized) PROVE IInv'
  BY <1>1, <1>2, <1>3, <1>5, KeepFact DEF Kept
<1>. QED
  BY <1>4, <1>5, StateOutcome

\* A login that is executed had been counted.
LEMMA ExecuteOpcodeFact == ASSUME IInv, Counted, ExecuteOpcode PROVE IInv'
<1>1. /\ world = "packets" /\ packets # <<>>
      /\ packets' = Tail(packets)
      /\ holders' = IF Head(packets) = "login" /\ sess[m_sessions].player = "none"
                    THEN holders + 1 ELSE holders
      /\ UNCHANGED <<auth, logins, addQueue, world, kicks>>
  BY DEF ExecuteOpcode
<1>2. packets \in Seq(Opcodes) /\ packets' \in Seq(Opcodes)
  BY <1>1 DEF IInv, SessionTypeOK
<1>3. Head(packets) = "login" => 1 \in Taken
  BY <1>1, <1>2 DEF Taken
<1>4. Cardinality(Taken) \in Nat /\ Cardinality(Waiting) \in Nat /\ (1 \in Taken => Cardinality(Taken) # 0)
  BY FS_CardinalityType, FS_EmptySet DEF Counted
<1>5. holders' \in 0..MaxLogins
  BY <1>1, <1>3, <1>4, BoundsAssumption DEF Counted, IInv, SessionTypeOK
<1>6. PICK q : Kept(q, {}) /\ q.state # "OFFLINE" /\ Keep(m_sessions, q, {})
  BY OpcodeOutcome
<1>. QED
  BY <1>1, <1>2, <1>5, <1>6, OpcodeOutcome, KeepFact DEF Kept

LEMMA LoginCallbackFact == ASSUME IInv, LoginCallback PROVE IInv'
<1> DEFINE s == m_sessions
           r == sess[s]
           in == [r EXCEPT !.player = "world"]
           failed == [r EXCEPT !.player = "unloaded"]
<1>1. /\ world = "results" /\ holders > 0 /\ holders' = holders - 1
      /\ UNCHANGED <<conn, auth, session, asked, logins, alive, m_sessions, addQueue, world,
                     packets, kicks>>
  BY DEF LoginCallback
<1>2. holders' \in 0..MaxLogins
  BY <1>1, BoundsAssumption DEF IInv, SessionTypeOK
<1>3. packets = <<>>
  BY <1>1 DEF IInv, InUpdate
<1>4. CASE s = None
  <2>1. UNCHANGED <<sess, stray>>
    BY <1>4 DEF LoginCallback
  <2>2. SessionTypeOK'
    BY <1>1, <1>2, <2>1 DEF IInv, SessionTypeOK
  <2>. QED
    BY <1>1, <2>1, <2>2 DEF IInv, Born, InUpdate, SessionsAlive, HeldOK, Held, Silent
<1>5. CASE s # None
  <2>1. /\ \/ sess' = [sess EXCEPT ![s] = SetOnline(in)]
           \/ sess' = [sess EXCEPT ![s] = KickPlayer(SetOnline(failed))]
        /\ stray' = (stray \/ r.player = "world")
    BY <1>5 DEF LoginCallback
  <2>2. s \in alive /\ r \in SessionRecord
    BY <1>5, Current
  <2>3. stray' \in BOOLEAN
    BY <2>1 DEF IInv, SessionTypeOK
  <2>4. /\ in \in SessionRecord /\ Follows(r, in) /\ in.state = r.state /\ in.m_socket = r.m_socket
        /\ failed \in SessionRecord /\ Follows(r, failed) /\ failed.state = r.state
        /\ failed.m_socket = r.m_socket
    BY <2>2 DEF Follows, SessionRecord
  <2> HIDE DEF in, failed
  <2>5. ASSUME NEW q, Follows(r, q), q.m_socket = r.m_socket, q.state \in {"READY", r.state},
               sess' = [sess EXCEPT ![s] = q]
        PROVE  IInv'
    <3>1. kicks' \in 0..MaxKicks
      BY <1>1 DEF IInv, SessionTypeOK
    <3>. QED
      BY <1>1, <1>2, <1>3, <2>2, <2>3, <2>5, <3>1, RecordFact
  <2>6. /\ Follows(r, SetOnline(in)) /\ SetOnline(in).m_socket = r.m_socket
        /\ SetOnline(in).state \in {"READY", r.state}
    BY <2>4, SetOnlineFact, FollowsAgain
  <2>7. /\ Follows(r, SetOnline(failed)) /\ SetOnline(failed).m_socket = r.m_socket
        /\ SetOnline(failed).state \in {"READY", r.state} /\ SetOnline(failed) \in SessionRecord
    BY <2>4, SetOnlineFact, FollowsAgain DEF Follows
  <2>8. /\ Follows(r, KickPlayer(SetOnline(failed))) /\ KickPlayer(SetOnline(failed)).m_socket = r.m_socket
        /\ KickPlayer(SetOnline(failed)).state \in {"READY", r.state}
    BY <2>7, KickPlayerFact, FollowsAgain
  <2>. QED
    BY <2>1, <2>5, <2>6, <2>8
<1>. QED
  BY <1>4, <1>5

\* KickPlayer and the clock change one record.
LEMMA KickFact == ASSUME IInv, Kick PROVE IInv'
<1>1. /\ world = "idle" /\ m_sessions # None /\ kicks < MaxKicks /\ kicks' = kicks + 1
      /\ sess' = [sess EXCEPT ![m_sessions] = KickPlayer(sess[m_sessions])]
      /\ UNCHANGED <<conn, auth, session, asked, logins, alive, m_sessions, addQueue, world,
                     packets, holders, stray>>
  BY DEF Kick
<1>2. kicks' \in 0..MaxKicks /\ holders' \in 0..MaxLogins /\ stray' \in BOOLEAN
  BY <1>1, BoundsAssumption DEF IInv, SessionTypeOK
<1>3. m_sessions \in alive /\ sess[m_sessions] \in SessionRecord /\ packets = <<>>
  BY <1>1, Current DEF IInv, InUpdate
<1>. QED
  BY <1>1, <1>2, <1>3, KickPlayerFact, RecordFact

LEMMA TimeFact == ASSUME IInv, LogoutTimeRuns \/ KickTimeRuns PROVE IInv'
<1>1. PICK s \in alive, time \in Timer, kick \in {"off", "set", "due"} :
         /\ world = "idle"
         /\ sess' = [sess EXCEPT ![s] = [sess[s] EXCEPT !.logoutTime = time, !.kickTime = kick]]
         /\ UNCHANGED <<conn, auth, session, asked, logins, alive, worldVars>>
  <2>1. CASE LogoutTimeRuns
    <3>1. PICK s \in alive :
             /\ world = "idle"
             /\ sess' = [sess EXCEPT ![s] = [sess[s] EXCEPT !.logoutTime =
                            IF sess[s].logoutTime = "fresh" THEN "due20" ELSE "due60"]]
             /\ UNCHANGED <<conn, auth, session, asked, logins, alive, worldVars>>
      BY <2>1 DEF LogoutTimeRuns
    <3> DEFINE time == IF sess[s].logoutTime = "fresh" THEN "due20" ELSE "due60"
    <3>2. sess[s] \in SessionRecord
      BY DEF IInv, SessionTypeOK
    <3>3. [sess[s] EXCEPT !.logoutTime = time]
            = [sess[s] EXCEPT !.logoutTime = time, !.kickTime = sess[s].kickTime]
      BY <3>2 DEF SessionRecord
    <3>4. time \in Timer /\ sess[s].kickTime \in {"off", "set", "due"}
      BY <3>2 DEF SessionRecord, Timer
    <3>. QED
      BY <3>1, <3>3, <3>4
  <2>2. CASE KickTimeRuns
    <3>1. PICK s \in alive :
             /\ world = "idle"
             /\ sess' = [sess EXCEPT ![s] = [sess[s] EXCEPT !.kickTime = "due"]]
             /\ UNCHANGED <<conn, auth, session, asked, logins, alive, worldVars>>
      BY <2>2 DEF KickTimeRuns
    <3>2. sess[s] \in SessionRecord
      BY DEF IInv, SessionTypeOK
    <3>3. [sess[s] EXCEPT !.kickTime = "due"]
            = [sess[s] EXCEPT !.logoutTime = sess[s].logoutTime, !.kickTime = "due"]
      BY <3>2 DEF SessionRecord
    <3>4. sess[s].logoutTime \in Timer
      BY <3>2 DEF SessionRecord
    <3>. QED
      BY <3>1, <3>3, <3>4
  <2>. QED
    BY <2>1, <2>2
<1> DEFINE q == [sess[s] EXCEPT !.logoutTime = time, !.kickTime = kick]
<1>2. sess[s] \in SessionRecord
  BY DEF IInv, SessionTypeOK
<1>3. Follows(sess[s], q) /\ q.m_socket = sess[s].m_socket /\ q.state = sess[s].state
  BY <1>2 DEF Follows, SessionRecord
<1>4. holders' \in 0..MaxLogins /\ kicks' \in 0..MaxKicks /\ stray' \in BOOLEAN /\ packets = <<>>
  BY <1>1 DEF IInv, SessionTypeOK, InUpdate, worldVars
<1> HIDE DEF q
<1>5. sess' = [sess EXCEPT ![s] = q]
  BY <1>1 DEF q
<1>. QED
  BY <1>1, <1>3, <1>4, <1>5, RecordFact DEF worldVars

LEMMA EndUpdateFact == ASSUME IInv, EndUpdate PROVE IInv'
<1>1. world = "results" /\ world' = "idle"
      /\ UNCHANGED <<conn, auth, session, asked, logins, alive, sess, m_sessions, addQueue,
                     packets, holders, kicks, stray>>
  BY DEF EndUpdate
<1>2. SessionTypeOK'
  BY <1>1 DEF IInv, SessionTypeOK
<1>. QED
  BY <1>1, <1>2 DEF IInv, Born, InUpdate, SessionsAlive, HeldOK, Held, Silent

-----------------------------------------------------------------------------
(* What the other steps leave of a session, and the logins they count.     *)

Reads == SwapRecvQueue \/ \E k \in Sockets, op \in Opcodes : QueuePacket(k, op)

\* Only the packets and the end of WorldSession::Update take a session's socket or player
\* away from it, or delete it.
LEMMA Untouched ==
  ASSUME IInv, [Next]_vars, ~ExecuteOpcode, ~UpdateState, NEW s \in alive
  PROVE  /\ s \in alive'
         /\ sess'[s].m_socket = sess[s].m_socket
         /\ sess'[s].player = sess[s].player \/ sess'[s].player # "none"
         /\ Reads \/ sess'[s].m_recvQueue = sess[s].m_recvQueue
<1> DEFINE Goal == /\ s \in alive'
                   /\ sess'[s].m_socket = sess[s].m_socket
                   /\ sess'[s].player = sess[s].player \/ sess'[s].player # "none"
                   /\ Reads \/ sess'[s].m_recvQueue = sess[s].m_recvQueue
<1>1. s \in Sockets /\ sess[s] \in SessionRecord /\ sess \in [Sockets -> SessionRecord]
      /\ alive \subseteq Sockets
  BY DEF IInv, SessionTypeOK
<1>2. ASSUME alive \subseteq alive', sess' = sess PROVE Goal
  BY <1>2
<1>3. ASSUME NEW t \in alive, NEW q, sess' = [sess EXCEPT ![t] = q], alive' = alive,
             q.m_socket = sess[t].m_socket, q.player = sess[t].player \/ q.player # "none",
             Reads \/ q.m_recvQueue = sess[t].m_recvQueue
      PROVE  Goal
  BY <1>1, <1>3
<1> SUFFICES Goal
  OBVIOUS
<1> HIDE DEF Goal
<1>4. CASE ExecuteMessages
  <2> DEFINE r == sess[m_sessions]
             q == IF r.messages = <<>> THEN r
                  ELSE [RequestNewSocket(r, Head(r.messages)) EXCEPT !.messages = <<>>]
  <2>1. m_sessions \in alive /\ r \in SessionRecord
    BY <1>4, Current DEF ExecuteMessages, IInv, InUpdate
  <2>2. q.m_socket = r.m_socket /\ q.player = r.player /\ q.m_recvQueue = r.m_recvQueue
    BY <2>1 DEF RequestNewSocket, SessionRecord
  <2>3. sess' = [sess EXCEPT ![m_sessions] = q] /\ alive' = alive
    BY <1>4 DEF ExecuteMessages
  <2> HIDE DEF q
  <2>. QED
    BY <1>3, <2>1, <2>2, <2>3
<1>5. CASE SwapRecvQueue
  <2> DEFINE q == [sess[m_sessions] EXCEPT !.m_recvQueue = <<>>]
  <2>1. m_sessions \in alive /\ sess[m_sessions] \in SessionRecord
    BY <1>5, Current DEF SwapRecvQueue, IInv, InUpdate
  <2>2. q.m_socket = sess[m_sessions].m_socket /\ q.player = sess[m_sessions].player /\ Reads
    BY <1>5, <2>1 DEF SessionRecord, Reads
  <2>3. sess' = [sess EXCEPT ![m_sessions] = q] /\ alive' = alive
    BY <1>5, <2>1 DEF SwapRecvQueue
  <2> HIDE DEF q
  <2>. QED
    BY <1>3, <2>1, <2>2, <2>3
<1>6. CASE LoginCallback
  <2>1. CASE m_sessions = None
    BY <1>2, <1>6, <2>1 DEF LoginCallback
  <2>2. CASE m_sessions # None
    <3> DEFINE r == sess[m_sessions]
               in == [r EXCEPT !.player = "world"]
               failed == [r EXCEPT !.player = "unloaded"]
    <3>1. m_sessions \in alive /\ r \in SessionRecord
      BY <2>2, Current
    <3>2. /\ in \in SessionRecord /\ in.m_socket = r.m_socket /\ in.player = "world"
          /\ in.m_recvQueue = r.m_recvQueue
          /\ failed \in SessionRecord /\ failed.m_socket = r.m_socket /\ failed.player = "unloaded"
          /\ failed.m_recvQueue = r.m_recvQueue
      BY <3>1 DEF SessionRecord
    <3>3. /\ \/ sess' = [sess EXCEPT ![m_sessions] = SetOnline(in)]
             \/ sess' = [sess EXCEPT ![m_sessions] = KickPlayer(SetOnline(failed))]
          /\ alive' = alive
      BY <1>6, <2>2 DEF LoginCallback
    <3> HIDE DEF in, failed
    <3>4. /\ SetOnline(in).m_socket = r.m_socket /\ SetOnline(in).player # "none"
          /\ SetOnline(failed).m_socket = r.m_socket /\ SetOnline(failed).player # "none"
          /\ SetOnline(in).m_recvQueue = r.m_recvQueue
          /\ SetOnline(failed).m_recvQueue = r.m_recvQueue
          /\ SetOnline(failed) \in SessionRecord
      BY <3>2, SetOnlineFact DEF Follows
    <3>5. /\ KickPlayer(SetOnline(failed)).m_socket = r.m_socket
          /\ KickPlayer(SetOnline(failed)).player # "none"
          /\ KickPlayer(SetOnline(failed)).m_recvQueue = r.m_recvQueue
      BY <3>4, KickPlayerFact DEF Follows
    <3>. QED
      BY <1>3, <3>1, <3>3, <3>4, <3>5
  <2>. QED
    BY <2>1, <2>2
<1>7. CASE Kick
  <2>1. m_sessions \in alive /\ sess[m_sessions] \in SessionRecord
    BY <1>7, Current DEF Kick
  <2>2. sess' = [sess EXCEPT ![m_sessions] = KickPlayer(sess[m_sessions])] /\ alive' = alive
    BY <1>7 DEF Kick
  <2>. QED
    BY <1>3, <2>1, <2>2, KickPlayerFact DEF Follows
<1>8. CASE LogoutTimeRuns
  <2>1. PICK t \in alive : sess' = [sess EXCEPT ![t].logoutTime = IF @ = "fresh" THEN "due20" ELSE "due60"]
    BY <1>8 DEF LogoutTimeRuns
  <2> DEFINE q == [sess[t] EXCEPT !.logoutTime = IF @ = "fresh" THEN "due20" ELSE "due60"]
  <2>2. sess' = [sess EXCEPT ![t] = q] /\ sess[t] \in SessionRecord /\ alive' = alive
    BY <1>1, <1>8, <2>1 DEF LogoutTimeRuns
  <2>3. /\ q.m_socket = sess[t].m_socket /\ q.player = sess[t].player
        /\ q.m_recvQueue = sess[t].m_recvQueue
    BY <2>2 DEF SessionRecord
  <2> HIDE DEF q
  <2>. QED
    BY <1>3, <2>2, <2>3
<1>9. CASE KickTimeRuns
  <2>1. PICK t \in alive : sess' = [sess EXCEPT ![t].kickTime = "due"]
    BY <1>9 DEF KickTimeRuns
  <2> DEFINE q == [sess[t] EXCEPT !.kickTime = "due"]
  <2>2. sess' = [sess EXCEPT ![t] = q] /\ sess[t] \in SessionRecord /\ alive' = alive
    BY <1>1, <1>9, <2>1 DEF KickTimeRuns
  <2>3. /\ q.m_socket = sess[t].m_socket /\ q.player = sess[t].player
        /\ q.m_recvQueue = sess[t].m_recvQueue
    BY <2>2 DEF SessionRecord
  <2> HIDE DEF q
  <2>. QED
    BY <1>3, <2>2, <2>3
<1>10. ASSUME NEW j \in Sockets, AddMessage(j) PROVE Goal
  <2>1. CASE session[j] \notin alive
    BY <1>2, <1>10, <2>1 DEF AddMessage
  <2>2. CASE session[j] \in alive
    <3> DEFINE t == session[j]
               q == [sess[t] EXCEPT !.messages = Append(@, j)]
    <3>1. sess' = [sess EXCEPT ![t] = q] /\ sess[t] \in SessionRecord /\ alive' = alive
      BY <1>1, <1>10, <2>2 DEF AddMessage
    <3>2. /\ q.m_socket = sess[t].m_socket /\ q.player = sess[t].player
          /\ q.m_recvQueue = sess[t].m_recvQueue
      BY <3>1 DEF SessionRecord
    <3> HIDE DEF q
    <3>. QED
      BY <1>3, <2>2, <3>1, <3>2
  <2>. QED
    BY <2>1, <2>2
<1>11. ASSUME NEW j \in Sockets, NEW op \in Opcodes, QueuePacket(j, op) PROVE Goal
  <2>1. CASE session[j] \notin alive
    BY <1>2, <1>11, <2>1 DEF QueuePacket
  <2>2. CASE session[j] \in alive
    <3> DEFINE t == session[j]
               q == [sess[t] EXCEPT !.m_recvQueue = Append(@, op)]
    <3>1. sess' = [sess EXCEPT ![t] = q] /\ sess[t] \in SessionRecord /\ alive' = alive
      BY <1>1, <1>11, <2>2 DEF QueuePacket
    <3>2. q.m_socket = sess[t].m_socket /\ q.player = sess[t].player /\ Reads
      BY <1>11, <3>1 DEF SessionRecord, Reads
    <3> HIDE DEF q
    <3>. QED
      BY <1>3, <2>2, <3>1, <3>2
  <2>. QED
    BY <2>1, <2>2
<1>12. ASSUME NEW j \in Sockets, Network(j) PROVE Goal
  <2>1. CASE Disconnect(j) \/ FindSession(j) \/ BadPlatform(j) \/ AddSession(j) \/ BadAddonInfo(j)
    BY <1>2, <2>1 DEF Disconnect, FindSession, BadPlatform, AddSession, BadAddonInfo
  <2>. QED
    BY <1>10, <1>11, <1>12, <2>1 DEF Network, Handler
<1>13. CASE UpdateSessions \/ EndUpdate \/ UNCHANGED vars
  BY <1>2, <1>13 DEF UpdateSessions, EndUpdate, vars
<1>. QED
  BY <1>4, <1>5, <1>6, <1>7, <1>8, <1>9, <1>12, <1>13 DEF Next, WorldUpdate

LEMMA QueuesKept ==
  ASSUME IInv, [Next]_vars, ~Reads, NEW s \in alive'
  PROVE  \/ s \in alive /\ sess'[s].m_recvQueue = sess[s].m_recvQueue
         \/ sess'[s].m_recvQueue = <<>>
<1>1. alive \subseteq Sockets /\ sess \in [Sockets -> SessionRecord]
  BY DEF IInv, SessionTypeOK
<1>2. ASSUME NEW q, NEW finalized, Kept(q, finalized), Keep(m_sessions, q, finalized)
      PROVE  s \in alive /\ sess'[s].m_recvQueue = sess[s].m_recvQueue
  <2>1. sess' = [sess EXCEPT ![m_sessions] = q] /\ s \in alive
    BY <1>2 DEF Keep
  <2>. QED
    BY <1>1, <1>2, <2>1 DEF Kept
<1>3. ASSUME NEW q, Delete(m_sessions, q)
      PROVE  s \in alive /\ sess'[s].m_recvQueue = sess[s].m_recvQueue
  BY <1>1, <1>3 DEF Delete
<1>4. CASE s \notin alive
  <2>1. PICK k \in Sockets : (AddSession(k) \/ BadAddonInfo(k)) /\ s = k
    <3>1. CASE ExecuteOpcode
      BY <1>2, <1>4, <3>1, OpcodeOutcome
    <3>2. CASE UpdateState
      BY <1>2, <1>3, <1>4, <3>2, StateOutcome
    <3>3. CASE alive' = alive
      BY <1>4, <3>3
    <3>. QED
      BY <1>4, <3>1, <3>2, <3>3 DEF Next, WorldUpdate, Network, Handler, Disconnect, FindSession, BadPlatform,
         AddMessage, AddSession, BadAddonInfo, QueuePacket, UpdateSessions, ExecuteMessages,
         SwapRecvQueue, EndUpdate, LoginCallback, Kick, LogoutTimeRuns, KickTimeRuns, vars
  <2>2. sess'[s] = NewSession(s)
    BY <1>4, <2>1 DEF IInv, Born, AddSession, BadAddonInfo
  <2>. QED
    BY <2>2 DEF NewSession
<1>5. CASE s \in alive
  <2>1. CASE ExecuteOpcode
    BY <1>2, <2>1, OpcodeOutcome
  <2>2. CASE UpdateState
    BY <1>2, <1>3, <2>2, StateOutcome
  <2>. QED
    BY <1>5, <2>1, <2>2, Untouched
<1>. QED
  BY <1>4, <1>5

LEMMA Counts ==
  ASSUME Counted PROVE Cardinality(Waiting) \in Nat /\ Cardinality(Taken) \in Nat
  BY FS_CardinalityType DEF Counted

\* A step that adds no login to a queue, and neither takes a batch nor executes of it.
LEMMA CountsLess ==
  ASSUME IInv, Counted, Waiting' \subseteq Waiting, Taken' \subseteq Taken,
         holders' \in Nat, holders' <= holders, logins' \in Nat, logins <= logins'
  PROVE  Counted'
<1>1. /\ IsFiniteSet(Waiting') /\ Cardinality(Waiting') <= Cardinality(Waiting)
      /\ IsFiniteSet(Taken') /\ Cardinality(Taken') <= Cardinality(Taken)
  BY FS_Subset DEF Counted
<1>2. Cardinality(Waiting') \in Nat /\ Cardinality(Taken') \in Nat
  BY <1>1, FS_CardinalityType
<1>3. holders \in Nat /\ logins \in Nat
  BY BoundsAssumption DEF IInv, SessionTypeOK
<1>4. Cardinality(Waiting') + Cardinality(Taken') + holders' <= logins'
  BY <1>1, <1>2, <1>3, Counts DEF Counted
<1>5. IsFiniteSet(Waiting)' /\ IsFiniteSet(Taken)'
      /\ Cardinality(Waiting)' = Cardinality(Waiting') /\ Cardinality(Taken)' = Cardinality(Taken')
  BY <1>1
<1>. QED
  BY <1>4, <1>5 DEF Counted

\* Without a step that reads a queue.
LEMMA WaitingKept == ASSUME IInv, [Next]_vars, ~Reads PROVE Waiting' \subseteq Waiting
<1> SUFFICES ASSUME NEW x \in Waiting' PROVE x \in Waiting
  OBVIOUS
<1>1. /\ x \in alive' \X Nat /\ x[2] \in 1..Len(sess'[x[1]].m_recvQueue)
      /\ sess'[x[1]].m_recvQueue[x[2]] = "login"
  BY DEF Waiting
<1>2. x[1] \in alive' /\ x[2] \in Nat
  BY <1>1
<1>3. sess'[x[1]].m_recvQueue # <<>>
  BY <1>1
<1>4. x[1] \in alive /\ sess'[x[1]].m_recvQueue = sess[x[1]].m_recvQueue
  BY <1>2, <1>3, QueuesKept
<1>. QED
  BY <1>1, <1>4 DEF Waiting

LEMMA QueuePacketCounts ==
  ASSUME IInv, Counted, NEW k \in Sockets, NEW op \in Opcodes, QueuePacket(k, op)
  PROVE  Counted'
<1> DEFINE s == session[k]
           n == Len(sess[s].m_recvQueue) + 1
<1>1. /\ ClientSends(k, op)
      /\ UNCHANGED <<alive, packets, holders>>
  BY DEF QueuePacket, worldVars
<1>2. logins \in Nat /\ holders \in Nat /\ logins' \in Nat
      /\ logins' = IF op = "login" THEN logins + 1 ELSE logins
  BY <1>1, BoundsAssumption DEF ClientSends, IInv, SessionTypeOK
<1>3. Taken' = Taken
  BY <1>1 DEF Taken
<1>4. CASE s \notin alive
  <2>1. sess' = sess
    BY <1>4 DEF QueuePacket
  <2>2. Waiting' = Waiting
    BY <1>1, <2>1 DEF Waiting
  <2>. QED
    BY <1>1, <1>2, <1>3, <2>2, CountsLess
<1>5. CASE s \in alive
  <2>1. s \in Sockets /\ sess[s] \in SessionRecord /\ sess[s].m_recvQueue \in Seq(Opcodes)
    BY <1>5 DEF IInv, SessionTypeOK, SessionRecord
  <2>2. sess' = [sess EXCEPT ![s].m_recvQueue = Append(@, op)]
    BY <1>5 DEF QueuePacket
  <2>3. sess'[s].m_recvQueue = Append(sess[s].m_recvQueue, op)
        /\ \A t \in Sockets \ {s} : sess'[t] = sess[t]
    BY <2>1, <2>2 DEF IInv, SessionTypeOK, SessionRecord
  <2>4. n \in Nat /\ \A i \in Nat : i \in 1..Len(Append(sess[s].m_recvQueue, op)) =>
           \/ i \in 1..Len(sess[s].m_recvQueue) /\ Append(sess[s].m_recvQueue, op)[i] = sess[s].m_recvQueue[i]
           \/ i = n /\ Append(sess[s].m_recvQueue, op)[i] = op
    BY <2>1
  <2>5. ASSUME NEW x \in Waiting' PROVE x \in Waiting \/ (op = "login" /\ x = <<s, n>>)
    <3>1. /\ x \in alive \X Nat /\ x[2] \in 1..Len(sess'[x[1]].m_recvQueue)
          /\ sess'[x[1]].m_recvQueue[x[2]] = "login"
      BY <1>1, <2>5 DEF Waiting
    <3>2. CASE x[1] = s
      <4>1. x[2] \in Nat /\ x = <<s, x[2]>>
        BY <3>1, <3>2
      <4>2. x[2] \in 1..Len(Append(sess[s].m_recvQueue, op)) /\ Append(sess[s].m_recvQueue, op)[x[2]] = "login"
        BY <2>3, <3>1, <3>2
      <4>. QED
        BY <2>4, <3>1, <3>2, <4>1, <4>2 DEF Waiting
    <3>3. CASE x[1] # s
      <4>1. x[1] \in Sockets
        BY <3>1 DEF IInv, SessionTypeOK
      <4>. QED
        BY <2>3, <3>1, <3>3, <4>1 DEF Waiting
    <3>. QED
      BY <3>2, <3>3
  <2>6. CASE op # "login"
    BY <1>1, <1>2, <1>3, <2>5, <2>6, CountsLess
  <2>7. CASE op = "login"
    <3>1. Waiting' \subseteq Waiting \union {<<s, n>>}
      BY <2>5
    <3>2. /\ IsFiniteSet(Waiting \union {<<s, n>>})
          /\ Cardinality(Waiting \union {<<s, n>>}) <= Cardinality(Waiting) + 1
      <4>1. IsFiniteSet(Waiting)
        BY DEF Counted
      <4>2. Cardinality(Waiting \union {<<s, n>>}) \in {Cardinality(Waiting), Cardinality(Waiting) + 1}
            /\ IsFiniteSet(Waiting \union {<<s, n>>})
        BY <4>1, FS_AddElement, Zenon
      <4>. QED
        BY <4>2, Counts
    <3>3. IsFiniteSet(Waiting') /\ Cardinality(Waiting') <= Cardinality(Waiting \union {<<s, n>>})
      BY <3>1, <3>2, FS_Subset
    <3>4. Cardinality(Waiting') \in Nat /\ Cardinality(Waiting \union {<<s, n>>}) \in Nat
      BY <3>2, <3>3, FS_CardinalityType
    <3>5. Cardinality(Waiting') <= Cardinality(Waiting) + 1
      BY <3>2, <3>3, <3>4, Counts
    <3>6. Cardinality(Waiting') + Cardinality(Taken) + holders <= logins + 1
      BY <1>2, <3>4, <3>5, Counts DEF Counted
    <3>7. IsFiniteSet(Waiting)' /\ IsFiniteSet(Taken)' /\ holders' = holders /\ logins' = logins + 1
          /\ Cardinality(Waiting)' = Cardinality(Waiting') /\ Cardinality(Taken)' = Cardinality(Taken)
      BY <1>1, <1>2, <1>3, <2>7, <3>3 DEF Counted
    <3>. QED
      BY <3>6, <3>7 DEF Counted
  <2>. QED
    BY <2>6, <2>7
<1>. QED
  BY <1>4, <1>5

\* The receive queue becomes the batch: what it held is there, or is dropped.
LEMMA SwapCounts == ASSUME IInv, Counted, SwapRecvQueue PROVE Counted'
<1> DEFINE s == m_sessions
           its == {x \in Waiting : x[1] = s}
<1>1. /\ world = "swap"
      /\ packets' = IF IsClosed(sess[s].m_socket) THEN <<>> ELSE sess[s].m_recvQueue
      /\ sess' = [sess EXCEPT ![s].m_recvQueue = <<>>]
      /\ UNCHANGED <<alive, logins, holders>>
  BY DEF SwapRecvQueue
<1>2. s \in alive /\ s \in Sockets /\ sess[s] \in SessionRecord /\ packets = <<>>
  BY <1>1, Current DEF IInv, InUpdate
<1>3. sess'[s].m_recvQueue = <<>> /\ \A t \in Sockets \ {s} : sess'[t] = sess[t]
  BY <1>1, <1>2 DEF IInv, SessionTypeOK, SessionRecord
<1>4. Waiting' \subseteq Waiting \ its
  <2> SUFFICES ASSUME NEW x \in Waiting' PROVE x \in Waiting \ its
    OBVIOUS
  <2>1. /\ x \in alive \X Nat /\ x[2] \in 1..Len(sess'[x[1]].m_recvQueue)
        /\ sess'[x[1]].m_recvQueue[x[2]] = "login"
    BY <1>1 DEF Waiting
  <2>2. x[1] # s /\ x[1] \in Sockets
    BY <1>3, <2>1 DEF IInv, SessionTypeOK
  <2>. QED
    BY <1>3, <2>1, <2>2 DEF Waiting
<1>5. \A i \in Taken' : i \in Nat /\ <<s, i>> \in its
  <2> SUFFICES ASSUME NEW i \in Taken' PROVE i \in Nat /\ <<s, i>> \in its
    OBVIOUS
  <2>1. i \in 1..Len(packets') /\ packets'[i] = "login"
    BY DEF Taken
  <2>2. packets' = sess[s].m_recvQueue /\ sess[s].m_recvQueue \in Seq(Opcodes)
    BY <1>1, <1>2, <2>1 DEF SessionRecord
  <2>. QED
    BY <1>2, <2>1, <2>2 DEF Waiting
<1>6. [i \in Taken' |-> <<s, i>>] \in Injection(Taken', its)
  BY <1>5 DEF Injection, IsInjective
<1>7. IsFiniteSet(its) /\ its \subseteq Waiting
  BY FS_Subset DEF Counted
<1>8. IsFiniteSet(Taken') /\ Cardinality(Taken') <= Cardinality(its)
  BY <1>6, <1>7, FS_Injection
<1>9. /\ IsFiniteSet(Waiting \ its)
      /\ Cardinality(Waiting \ its) = Cardinality(Waiting) - Cardinality(its)
  <2>1. Waiting \cap its = its
    OBVIOUS
  <2>. QED
    BY <2>1, FS_Difference DEF Counted
<1>10. IsFiniteSet(Waiting') /\ Cardinality(Waiting') <= Cardinality(Waiting \ its)
  BY <1>4, <1>9, FS_Subset
<1>11. /\ Cardinality(Waiting') \in Nat /\ Cardinality(Taken') \in Nat /\ Cardinality(its) \in Nat
       /\ Cardinality(Waiting \ its) \in Nat
  BY <1>7, <1>8, <1>9, <1>10, FS_CardinalityType
<1>12. holders \in Nat /\ logins \in Nat
  BY BoundsAssumption DEF IInv, SessionTypeOK
<1>13. Cardinality(Waiting') + Cardinality(Taken') + holders <= logins
  BY <1>8, <1>9, <1>10, <1>11, <1>12, Counts DEF Counted
<1>14. IsFiniteSet(Waiting)' /\ IsFiniteSet(Taken)' /\ holders' = holders /\ logins' = logins
       /\ Cardinality(Waiting)' = Cardinality(Waiting') /\ Cardinality(Taken)' = Cardinality(Taken')
  BY <1>1, <1>8, <1>10
<1>. QED
  BY <1>13, <1>14 DEF Counted

\* The packet executed leaves the batch; if it is a login it makes one query at most.
LEMMA ExecuteOpcodeCounts == ASSUME IInv, Counted, [Next]_vars, ExecuteOpcode PROVE Counted'
<1>1. /\ packets # <<>> /\ packets' = Tail(packets) /\ logins' = logins
      /\ holders' = IF Head(packets) = "login" /\ sess[m_sessions].player = "none"
                    THEN holders + 1 ELSE holders
  BY DEF ExecuteOpcode
<1>2. packets \in Seq(Opcodes)
  BY DEF IInv, SessionTypeOK
<1>3. \A i \in Taken' : i \in Nat /\ i + 1 \in Taken \ {1}
  BY <1>1, <1>2 DEF Taken
<1>4. [i \in Taken' |-> i + 1] \in Injection(Taken', Taken \ {1})
  BY <1>3 DEF Injection, IsInjective
<1>5. /\ IsFiniteSet(Taken \ {1})
      /\ Cardinality(Taken \ {1}) = IF 1 \in Taken THEN Cardinality(Taken) - 1 ELSE Cardinality(Taken)
  BY FS_RemoveElement DEF Counted
<1>6. IsFiniteSet(Taken') /\ Cardinality(Taken') <= Cardinality(Taken \ {1})
  BY <1>4, <1>5, FS_Injection
<1>7. Head(packets) = "login" => 1 \in Taken
  BY <1>1, <1>2 DEF Taken
<1>8. ~Reads
  <2>1. packets' # packets
    BY <1>1, <1>2
  <2>. QED
    BY <2>1 DEF Reads, SwapRecvQueue, QueuePacket, ExecuteOpcode, worldVars
<1>9. Waiting' \subseteq Waiting
  BY <1>8, WaitingKept
<1>10. IsFiniteSet(Waiting') /\ Cardinality(Waiting') <= Cardinality(Waiting)
  BY <1>9, FS_Subset DEF Counted
<1>11. Cardinality(Waiting') \in Nat /\ Cardinality(Taken') \in Nat /\ Cardinality(Taken \ {1}) \in Nat
  BY <1>5, <1>6, <1>10, FS_CardinalityType
<1>12. holders \in Nat /\ logins \in Nat
  BY BoundsAssumption DEF IInv, SessionTypeOK
<1>13. Cardinality(Waiting') + Cardinality(Taken') + holders' <= logins
  BY <1>1, <1>5, <1>6, <1>7, <1>10, <1>11, <1>12, Counts DEF Counted
<1>14. IsFiniteSet(Waiting)' /\ IsFiniteSet(Taken)' /\ logins' = logins
       /\ Cardinality(Waiting)' = Cardinality(Waiting') /\ Cardinality(Taken)' = Cardinality(Taken')
  BY <1>1, <1>6, <1>10
<1>. QED
  BY <1>13, <1>14 DEF Counted

LEMMA CountedFact == ASSUME IInv, Counted, [Next]_vars PROVE Counted'
<1>1. holders \in Nat /\ logins \in Nat
  BY BoundsAssumption DEF IInv, SessionTypeOK
<1>2. CASE ~Reads /\ ~ExecuteOpcode
  <2>1. packets' = packets /\ logins' = logins /\ holders' \in {holders, holders - 1} /\ holders' \in Nat
    <3>1. CASE LoginCallback
      BY <1>1, <3>1 DEF LoginCallback
    <3>2. ASSUME NEW k \in Sockets, Network(k) PROVE packets' = packets /\ logins' = logins /\ holders' = holders
      BY <1>2, <3>2 DEF Network, Handler, Disconnect, FindSession, BadPlatform, AddMessage, AddSession,
         BadAddonInfo, worldVars, Reads
    <3>3. CASE UpdateSessions \/ ExecuteMessages \/ UpdateState \/ EndUpdate \/ Kick
      BY <1>1, <3>3 DEF UpdateSessions, ExecuteMessages, UpdateState, EndUpdate, Kick
    <3>4. CASE LogoutTimeRuns \/ KickTimeRuns \/ UNCHANGED vars
      BY <1>1, <3>4 DEF LogoutTimeRuns, KickTimeRuns, vars, worldVars
    <3>. QED
      BY <1>1, <1>2, <3>1, <3>2, <3>3, <3>4 DEF Next, WorldUpdate, Reads
  <2>2. Taken' = Taken
    BY <2>1 DEF Taken
  <2>3. Waiting' \subseteq Waiting
    BY <1>2, WaitingKept
  <2>. QED
    BY <1>1, <2>1, <2>2, <2>3, CountsLess
<1>. QED
  BY <1>2, SwapCounts, QueuePacketCounts, ExecuteOpcodeCounts DEF Reads

LEMMA StepFact == ASSUME IInv, Counted, [Next]_vars PROVE IInv'
<1>1. CASE UNCHANGED vars
  BY <1>1 DEF vars, IInv, SessionTypeOK, Born, InUpdate, SessionsAlive, HeldOK, Held, Silent
<1>. QED
  BY <1>1, NetworkFact, UpdateSessionsFact, ExecuteMessagesFact, SwapRecvQueueFact,
     ExecuteOpcodeFact, UpdateStateFact, EndUpdateFact, LoginCallbackFact, KickFact, TimeFact
     DEF Next, WorldUpdate

LEMMA InitFact == Init => IInv
<1> SUFFICES ASSUME Init PROVE IInv
  OBVIOUS
<1>1. \A k \in Sockets : NewSession(k) \in SessionRecord
  <2>1. <<>> \in Seq(Sockets) /\ <<>> \in Seq(Opcodes)
    OBVIOUS
  <2>. QED
    BY <2>1 DEF NewSession, SessionRecord, States, Timer
<1>2. SessionTypeOK
  <2>1. MaxLogins \in Nat /\ MaxKicks \in Nat
    BY BoundsAssumption
  <2>2. sess \in [Sockets -> SessionRecord]
    BY <1>1 DEF Init
  <2>3. /\ conn \in [Sockets -> {"none", "open", "closed"}]
        /\ auth \in [Sockets -> {"idle", "found", "absent", "done"}]
        /\ session \in [Sockets -> Sockets \union {None}]
        /\ asked \in [Sockets -> BOOLEAN]
    BY DEF Init
  <2>4. alive = {} /\ m_sessions = None /\ addQueue = <<>> /\ packets = <<>> /\ world = "idle"
        /\ logins = 0 /\ holders = 0 /\ kicks = 0 /\ stray = FALSE
    BY DEF Init
  <2>5. /\ alive \subseteq Sockets /\ m_sessions \in Sockets \union {None}
        /\ logins \in 0..MaxLogins /\ kicks \in 0..MaxKicks /\ holders \in 0..MaxLogins
        /\ world \in {"idle", "messages", "swap", "packets", "results"}
    BY <2>1, <2>4
  <2>7. stray \in BOOLEAN
    BY DEF Init
  <2>6. addQueue \in Seq(Sockets) /\ packets \in Seq(Opcodes)
    <3>1. <<>> \in Seq(Sockets) /\ <<>> \in Seq(Opcodes)
      OBVIOUS
    <3>. QED
      BY <2>4, <3>1, Zenon
  <2>. QED
    BY <2>2, <2>3, <2>5, <2>6, <2>7 DEF SessionTypeOK
<1>. QED
  BY <1>2 DEF Init, IInv, Born, InUpdate, SessionsAlive, HeldOK, Silent

LEMMA CountedInit == Init => Counted
<1> SUFFICES ASSUME Init PROVE Counted
  OBVIOUS
<1>1. alive = {} /\ packets = <<>> /\ holders = 0 /\ logins = 0
  BY DEF Init
<1>2. Waiting = {} /\ Taken = {}
  BY <1>1 DEF Waiting, Taken
<1>. QED
  BY <1>1, <1>2, FS_EmptySet DEF Counted

-----------------------------------------------------------------------------
(* The theorems.                                                           *)

\* The inductive invariant of the account's sessions.
THEOREM SessionInductive == Spec => [](IInv /\ Counted)
<1>1. IInv /\ Counted /\ [Next]_vars => IInv' /\ Counted'
  BY StepFact, CountedFact
<1>. QED
  BY InitFact, CountedInit, <1>1, PTL DEF Spec

\* Every variable keeps its type; in particular a result is never delivered more often
\* than it was asked for (HandlePlayerLoginCallback).
THEOREM SessionTypes == Spec => []SessionTypeOK
<1>1. IInv => SessionTypeOK
  BY DEF IInv
<1>. QED
  BY <1>1, SessionInductive, PTL

\* World::UpdateSessions updates and deletes existing sessions only: no deleted session
\* stays in m_sessions or in the add queue, and none is in both or there twice.
THEOREM NoDanglingSession == Spec => []SessionsAlive
<1>1. IInv => SessionsAlive
  BY DEF IInv
<1>. QED
  BY <1>1, SessionInductive, PTL

\* A socket that a session has, or is about to take, points back to that session
\* (HandleAuthSession, RequestNewSocket, FinalizeSession).
THEOREM Backlink == Spec => []SocketBacklink
<1>1. IInv => SocketBacklink
  BY DEF IInv, HeldOK, Held, SocketBacklink
<1>. QED
  BY <1>1, SessionInductive, PTL

-----------------------------------------------------------------------------
(* What a step may never do to a session.                                  *)

\* The socket a session lets go is closed.
LEMMA SocketsLetGo ==
  ASSUME IInv, [Next]_vars, NEW s \in alive, NEW k, k = sess[s].m_socket, k # None,
         s \notin alive' \/ sess'[s].m_socket # k
  PROVE  conn'[k] = "closed"
<1>1. s \in Sockets /\ sess[s] \in SessionRecord /\ k \in Sockets
      /\ sess \in [Sockets -> SessionRecord]
  BY DEF IInv, SessionTypeOK, SessionRecord
<1>2. ASSUME NEW q, NEW finalized, Keep(m_sessions, q, finalized) PROVE conn'[k] = "closed"
  <2>1. s = m_sessions /\ k # q.m_socket
    BY <1>1, <1>2 DEF Keep
  <2>. QED
    BY <1>1, <1>2, <2>1 DEF Keep, CloseAll, Dropped
<1>3. ASSUME NEW q, Delete(m_sessions, q) PROVE conn'[k] = "closed"
  <2>1. s = m_sessions
    BY <1>1, <1>3 DEF Delete
  <2>. QED
    BY <1>1, <1>3, <2>1 DEF Delete, CloseAll
<1>4. CASE ExecuteOpcode
  BY <1>2, <1>4 DEF ExecuteOpcode
<1>5. CASE UpdateState
  BY <1>2, <1>3, <1>5 DEF UpdateState, UpdateCreated, UpdateCharSelection, UpdateReady, UpdateOffline
<1>. QED
  BY <1>4, <1>5, Untouched

\* No client stays connected to a session that was deleted or moved to another socket
\* (~WorldSession, SetOffline, KickPlayer).
THEOREM NoOrphan == Spec => NoOrphanConnection
<1>1. IInv /\ [Next]_vars =>
         [\A s \in alive : LET k == sess[s].m_socket IN
            k # None /\ (s \notin alive' \/ sess'[s].m_socket # k) => conn'[k] = "closed"]_vars
  BY SocketsLetGo
<1>. QED
  BY <1>1, SessionInductive, PTL DEF Spec, NoOrphanConnection

\* A link-dead session has no packets, and its update waits for ShouldDisconnect.
LEMMA GraceStep ==
  ASSUME IInv, [Next]_vars, NEW s \in alive, sess[s].state = "OFFLINE", sess[s].player = "world",
         sess[s].logoutTime # "due60"
  PROVE  s \in alive' /\ sess'[s].player # "none"
<1>1. s \in Sockets /\ sess \in [Sockets -> SessionRecord]
  BY DEF IInv, SessionTypeOK
<1>2. ASSUME NEW q, NEW finalized, Keep(m_sessions, q, finalized), s # m_sessions \/ q = sess[s]
      PROVE  s \in alive' /\ sess'[s].player # "none"
  BY <1>1, <1>2 DEF Keep
<1>3. CASE ExecuteOpcode
  <2>1. s # m_sessions
    BY <1>3 DEF ExecuteOpcode, IInv, Silent
  <2>. QED
    BY <1>2, <1>3, <2>1 DEF ExecuteOpcode
<1>4. CASE UpdateState
  <2>1. CASE s = m_sessions
    <3>1. Keep(s, sess[s], {})
      BY <1>4, <2>1 DEF UpdateState, UpdateCreated, UpdateCharSelection, UpdateReady, UpdateOffline,
                       ShouldDisconnect
    <3>. QED
      BY <1>2, <2>1, <3>1
  <2>2. CASE s # m_sessions
    <3>1. ASSUME NEW q, Delete(m_sessions, q) PROVE s \in alive' /\ sess'[s].player # "none"
      BY <1>1, <2>2, <3>1 DEF Delete
    <3>. QED
      BY <1>2, <1>4, <2>2, <3>1
         DEF UpdateState, UpdateCreated, UpdateCharSelection, UpdateReady, UpdateOffline
  <2>. QED
    BY <2>1, <2>2
<1>. QED
  BY <1>3, <1>4, Untouched

\* A link-dead character stays in the world until its client had 60 seconds to come back
\* (SetOffline, ShouldDisconnect): no packet that is still queued logs it out, and no kick.
THEOREM Grace == Spec => OfflineGrace
<1>1. IInv /\ [Next]_vars =>
         [\A s \in alive : /\ sess[s].state = "OFFLINE" /\ sess[s].player = "world"
                           /\ sess[s].logoutTime # "due60"
                           => s \in alive' /\ sess'[s].player # "none"]_vars
  BY GraceStep
<1>. QED
  BY <1>1, SessionInductive, PTL DEF Spec, OfflineGrace
=============================================================================
