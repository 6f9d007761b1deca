------------------------------ MODULE BgQueue ------------------------------
(***************************************************************************)
(* The queue of a battleground and the battlegrounds it fills.  The queue  *)
(* is the property of a thread of its own (BattleGroundQueue::Update); the *)
(* players and the battlegrounds are the world thread's.  Neither reads    *)
(* the other's state: both send closures, which the other executes in the  *)
(* order sent (Messager).  Here a closure is a record, and executing one   *)
(* is a step.  Modelled: one type of battleground, one bracket, players    *)
(* who join alone, Battleground.InvitationType = 0, no arenas, and players *)
(* who do not log in again once they have logged out.                      *)
(***************************************************************************)
EXTENDS Integers, Sequences, FiniteSets, SequencesExt

CONSTANTS Alliance, Horde,      \* players
          Travellers,           \* bound: players who change maps for reasons of their own
          MinPlayersPerTeam, MaxPlayersPerTeam,
          MaxJoins,             \* bound: requests to join of each player
          Leavers,              \* bound: players who may log out
          MaxPending,           \* bound: messages the queue owes an execution when something is asked for
          MaxAhead,             \* bound: messages the world owes an execution when the queue's thread goes on
          MaxCount,             \* UINT32_MAX, in small
          None

Players == Alliance \union Horde
Teams == {"ALLIANCE", "HORDE"}
Team(p) == IF p \in Alliance THEN "ALLIANCE" ELSE "HORDE"

ASSUME BgPlayersAssumption == IsFiniteSet(Players) /\ Alliance \intersect Horde = {}
                              /\ Travellers \subseteq Players /\ Leavers \subseteq Players
ASSUME BgBoundsAssumption == /\ MinPlayersPerTeam \in Nat \ {0} /\ MaxPlayersPerTeam \in Nat
                             /\ MinPlayersPerTeam <= MaxPlayersPerTeam
                             /\ MaxJoins \in [Players -> Nat] /\ MaxPending \in Nat /\ MaxAhead \in Nat
                             /\ MaxCount \in Nat /\ MaxPlayersPerTeam <= MaxCount
                             /\ None \notin Nat

VARIABLES
    \* of the queue's thread
    m_queuedGroups,     \* groups of one player, in the order they joined
    m_queuedPlayers,    \* the number of the player's group among his groups, or None
    m_bgFreeSlotQueue,  \* BattleGroundInQueueInfo: a copy of what invitations need to know
    m_queueUpdateScheduler,
    i_MaxInstanceId,    \* of MapManager: the number of the latest instance
    toQueue,            \* m_messager of BattleGroundQueue
    \* of the world's thread
    m_battleGrounds,    \* by instance; what was deleted stays as "deleted"
    online,
    away,               \* None in the world; else between maps: 0, or the battleground ahead
    bgInstanceID,       \* 0 when not in a battleground
    m_bgBattleGroundQueueID,
    m_events,           \* the BgQueueRemoveEvents of each player
    toWorld,            \* m_messager of World
    joins

queue == <<m_queuedGroups, m_queuedPlayers, m_bgFreeSlotQueue, m_queueUpdateScheduler, i_MaxInstanceId>>
player == <<online, away, bgInstanceID, m_bgBattleGroundQueueID, m_events>>
world == <<m_battleGrounds, player, joins>>
vars == <<queue, toQueue, world, toWorld>>

Minus(count) == IF count = 0 THEN MaxCount ELSE count - 1     \* uint32
NotQueued == [in |-> FALSE, invitedToInstance |-> 0]
NoneInvited == [t \in Teams |-> 0]
Created == DOMAIN m_battleGrounds
Status(i) == IF i \in Created THEN m_battleGrounds[i].status ELSE "none"
Exists(i) == Status(i) \notin {"none", "deleted"}
InWorld(p) == online[p] /\ away[p] = None

Init == /\ m_queuedGroups = <<>>
        /\ m_queuedPlayers = [p \in Players |-> None]
        /\ m_bgFreeSlotQueue = <<>>
        /\ m_queueUpdateScheduler = FALSE
        /\ i_MaxInstanceId = 0
        /\ toQueue = <<>> /\ toWorld = <<>>
        /\ m_battleGrounds = <<>>
        /\ online = [p \in Players |-> TRUE]
        /\ away = [p \in Players |-> None]
        /\ bgInstanceID = [p \in Players |-> 0]
        /\ m_bgBattleGroundQueueID = [p \in Players |-> NotQueued]
        /\ m_events = [p \in Players |-> {}]
        /\ joins = [p \in Players |-> 0]

-----------------------------------------------------------------------------
(* The queue's thread.                                                     *)

ToQueue(msg) == toQueue # <<>> /\ Head(toQueue).type = msg /\ toQueue' = Tail(toQueue)
Received == Head(toQueue)

Place(p) == CHOOSE k \in DOMAIN m_queuedGroups :
               m_queuedGroups[k].player = p /\ m_queuedGroups[k].number = m_queuedPlayers[p]
Group(p) == m_queuedGroups[Place(p)]
IsInvited(p) == m_queuedPlayers[p] # None /\ Group(p).invitedTo # 0

\* The first entry of an instance.
Entries(slots, i) == {k \in DOMAIN slots : slots[k].instanceId = i}
GetFreeSlotInstance(slots, i) == CHOOSE k \in Entries(slots, i) : \A l \in Entries(slots, i) : k <= l

Count(i, team, count) == [type |-> "SetInvitedCount", instanceId |-> i, team |-> team, count |-> count]

\* AddGroup: a player already in m_queuedPlayers gets a second group, the first stays.
AddGroup ==
    /\ ToQueue("AddGroup")
    /\ LET p == Received.player
       IN  /\ m_queuedGroups' = Append(m_queuedGroups,
                [number |-> Received.number, player |-> p, invitedTo |-> 0])
           /\ m_queuedPlayers' = [m_queuedPlayers EXCEPT ![p] = Received.number]
           /\ toWorld' = Append(toWorld, [type |-> "Queued", player |-> p])
    /\ m_queueUpdateScheduler' = TRUE
    /\ UNCHANGED <<m_bgFreeSlotQueue, world>>

\* Fault: the player's entry keeps its pointer to the group.
Forget_not(p) == m_queuedPlayers

Forget(p) == [m_queuedPlayers EXCEPT ![p] = None]

\* RemovePlayer of a player of the queue, and what is then sent.
RemovePlayer(p, decreaseInvitedCount, messages) ==
    LET i        == Group(p).invitedTo
        k        == GetFreeSlotInstance(m_bgFreeSlotQueue, i)
        count    == Minus(m_bgFreeSlotQueue[k].invited[Team(p)])
        decrease == decreaseInvitedCount /\ i # 0 /\ Entries(m_bgFreeSlotQueue, i) # {}
    IN  /\ m_queuedGroups' = RemoveAt(m_queuedGroups, Place(p))
        /\ m_queuedPlayers' = Forget(p)
        /\ m_bgFreeSlotQueue' = IF decrease THEN [m_bgFreeSlotQueue EXCEPT ![k].invited[Team(p)] = count]
                                            ELSE m_bgFreeSlotQueue
        /\ toWorld' = toWorld \o ((IF decrease THEN <<Count(i, Team(p), count)>> ELSE <<>>) \o messages)

\* The second half of HandleBattlefieldPortOpcode.
PortRefused ==
    /\ ToQueue("Port")
    /\ m_queuedPlayers[Received.player] = None \/ (Received.enter /\ ~IsInvited(Received.player))
    /\ UNCHANGED <<queue, world, toWorld>>

\* Fault: who accepts gives back the place that was held for him.
PortEnter_lowered ==
    /\ ToQueue("Port") /\ Received.enter
    /\ LET p == Received.player
       IN  /\ IsInvited(p)
           /\ RemovePlayer(p, TRUE, <<[type |-> "Enter", player |-> p, instanceId |-> Group(p).invitedTo]>>)
    /\ UNCHANGED <<m_queueUpdateScheduler, world>>

PortEnter ==
    /\ ToQueue("Port") /\ Received.enter
    /\ LET p == Received.player
       IN  /\ IsInvited(p)
           /\ RemovePlayer(p, FALSE, <<[type |-> "Enter", player |-> p, instanceId |-> Group(p).invitedTo]>>)
    /\ UNCHANGED <<m_queueUpdateScheduler, world>>

\* An invited player who wants to enter and is a deserter is removed as if he had left.
PortLeave ==
    /\ ToQueue("Port")
    /\ LET p == Received.player
       IN  /\ m_queuedPlayers[p] # None
           /\ Received.enter => IsInvited(p)
           /\ RemovePlayer(p, TRUE, <<[type |-> "Left", player |-> p]>>)
    /\ m_queueUpdateScheduler' = TRUE
    /\ UNCHANGED world

\* LogoutPlayer's closure.
LoggedOut ==
    /\ ToQueue("LoggedOut")
    /\ IF m_queuedPlayers[Received.player] = None
       THEN UNCHANGED <<queue, toWorld>>
       ELSE RemovePlayer(Received.player, TRUE, <<>>) /\ UNCHANGED m_queueUpdateScheduler
    /\ UNCHANGED world

\* Fault: any invitation to the instance is taken for the one that has expired.
IsPlayerInvited_anytime(p, i, time) == IsInvited(p) /\ Group(p).invitedTo = i

\* A later group of a player is invited at a later time: its number stands for removeInviteTime.
IsPlayerInvited(p, i, time) == IsInvited(p) /\ Group(p).invitedTo = i /\ Group(p).number = time

\* The last part of BgQueueRemoveEvent.
Expired ==
    /\ ToQueue("Expired")
    /\ IF IsPlayerInvited(Received.player, Received.instanceId, Received.removeInviteTime)
       THEN /\ RemovePlayer(Received.player, TRUE, <<[type |-> "Left", player |-> Received.player]>>)
            /\ m_queueUpdateScheduler' = (m_queueUpdateScheduler \/ Received.running)
       ELSE UNCHANGED <<queue, toWorld>>
    /\ UNCHANGED world

\* SetStatus, AddToBgFreeSlotQueue, RemovedFromBgFreeSlotQueue and RemovePlayerAtLeave.
SetStatusInQueue ==
    /\ ToQueue("SetStatus")
    /\ m_bgFreeSlotQueue' = [k \in DOMAIN m_bgFreeSlotQueue |->
            IF Entries(m_bgFreeSlotQueue, Received.instanceId) # {}
               /\ k = GetFreeSlotInstance(m_bgFreeSlotQueue, Received.instanceId)
            THEN [m_bgFreeSlotQueue[k] EXCEPT !.status = Received.status]
            ELSE m_bgFreeSlotQueue[k]]
    /\ UNCHANGED <<m_queuedGroups, m_queuedPlayers, m_queueUpdateScheduler, world, toWorld>>

AddBgToFreeSlots ==
    /\ ToQueue("AddBgToFreeSlots")
    /\ m_bgFreeSlotQueue' = <<Received.info>> \o m_bgFreeSlotQueue
    /\ UNCHANGED <<m_queuedGroups, m_queuedPlayers, m_queueUpdateScheduler, world, toWorld>>

RemoveBgFromFreeSlots ==
    /\ ToQueue("RemoveBgFromFreeSlots")
    /\ m_bgFreeSlotQueue' = IF Entries(m_bgFreeSlotQueue, Received.instanceId) = {} THEN m_bgFreeSlotQueue
                            ELSE RemoveAt(m_bgFreeSlotQueue, GetFreeSlotInstance(m_bgFreeSlotQueue, Received.instanceId))
    /\ UNCHANGED <<m_queuedGroups, m_queuedPlayers, m_queueUpdateScheduler, world, toWorld>>

DecreaseInvitedCount ==
    /\ ToQueue("DecreaseInvitedCount")
    /\ LET i == Received.instanceId
           k == GetFreeSlotInstance(m_bgFreeSlotQueue, i)
           count == Minus(m_bgFreeSlotQueue[k].invited[Received.team])
       IN  IF Entries(m_bgFreeSlotQueue, i) = {}
           THEN UNCHANGED <<m_bgFreeSlotQueue, toWorld>>
           ELSE /\ m_bgFreeSlotQueue' = [m_bgFreeSlotQueue EXCEPT ![k].invited[Received.team] = count]
                /\ toWorld' = Append(toWorld, Count(i, Received.team, count))
    /\ UNCHANGED <<m_queuedGroups, m_queuedPlayers, m_queueUpdateScheduler, world>>

ScheduleQueueUpdate ==
    /\ ToQueue("ScheduleQueueUpdate")
    /\ m_queueUpdateScheduler' = TRUE
    /\ UNCHANGED <<m_queuedGroups, m_queuedPlayers, m_bgFreeSlotQueue, world, toWorld>>

(* BattleGroundQueueItem::Update, on what an update changes: the groups,   *)
(* the entries of the free slot queue, and the messages sent.              *)

Waits(g, team) == g.invitedTo = 0 /\ Team(g.player) = team

\* The j-th group is invited to the battleground of the k-th entry, when that takes it.
InviteGroupToBg(s, j, k, team, limit) ==
    LET g     == s.groups[j]
        i     == s.slots[k].instanceId
        count == s.slots[k].invited[team] + 1
    IN  IF Waits(g, team) /\ count <= limit
        THEN [groups |-> [s.groups EXCEPT ![j].invitedTo = i],
              slots  |-> [s.slots EXCEPT ![k].invited[team] = count],
              sent   |-> s.sent \o << [type |-> "Invite", player |-> g.player, instanceId |-> i,
                                      removeInviteTime |-> g.number], Count(i, team, count) >>]
        ELSE s

\* The first groups of the team, until so many of it are invited.
InviteGroups(s, k, team, limit) ==
    LET invited[j \in 0..Len(s.groups)] ==
            IF j = 0 THEN s ELSE InviteGroupToBg(invited[j - 1], j, k, team, limit)
    IN  invited[Len(s.groups)]

FillPlayersToBg(s, k) ==
    LET limit == IF s.slots[k].status \in {"wait_join", "in_progress"} THEN MaxPlayersPerTeam ELSE 0
    IN  InviteGroups(InviteGroups(s, k, "ALLIANCE", limit), k, "HORDE", limit)

\* The open battlegrounds one after the other.
FillAll(s) == LET filled[k \in 0..Len(s.slots)] == IF k = 0 THEN s ELSE FillPlayersToBg(filled[k - 1], k)
              IN  filled[Len(s.slots)]

CheckNormalMatch(s) ==
    \A t \in Teams : Cardinality({j \in DOMAIN s.groups : Waits(s.groups[j], t)}) >= MinPlayersPerTeam

GenerateInstanceId == i_MaxInstanceId + 1

\* The entry of a new battleground is made here, before the battleground exists.
NewMatch(s, i) ==
    LET new == [instanceId |-> i, status |-> "wait_queue", invited |-> NoneInvited, playersInside |-> 0]
        a   == InviteGroups([s EXCEPT !.slots = <<new>> \o @], 1, "ALLIANCE", MinPlayersPerTeam)
        b   == InviteGroups(a, 1, "HORDE", MinPlayersPerTeam)
    IN  [b EXCEPT !.sent = Append(@, [type |-> "Create", instanceId |-> i, invited |-> b.slots[1].invited])]

Update ==
    /\ m_queueUpdateScheduler
    /\ m_queueUpdateScheduler' = FALSE
    /\ LET filled == FillAll([groups |-> m_queuedGroups, slots |-> m_bgFreeSlotQueue, sent |-> <<>>])
           match  == CheckNormalMatch(filled)
           done   == IF match THEN NewMatch(filled, GenerateInstanceId) ELSE filled
       IN  /\ i_MaxInstanceId' = IF match THEN GenerateInstanceId ELSE i_MaxInstanceId
           /\ m_queuedGroups' = done.groups
           /\ m_bgFreeSlotQueue' = done.slots
           /\ toWorld' = toWorld \o done.sent
    /\ UNCHANGED <<m_queuedPlayers, toQueue, world>>

\* What this thread does depends on the world only through toQueue: a step it takes while the
\* world still owes executions could as well come after them, and MaxAhead = 0 loses no behaviour
\* of either thread.
QueueMessage ==
    /\ Len(toWorld) <= MaxAhead
    /\ \/ AddGroup \/ PortRefused \/ PortEnter \/ PortLeave \/ LoggedOut \/ Expired
       \/ SetStatusInQueue \/ AddBgToFreeSlots \/ RemoveBgFromFreeSlots
       \/ DecreaseInvitedCount \/ ScheduleQueueUpdate
    /\ UNCHANGED i_MaxInstanceId

QueueUpdate == Len(toWorld) <= MaxAhead /\ Update

-----------------------------------------------------------------------------
(* The world's thread: the messages of the queue.  A player between maps   *)
(* is not found, and a message for him is lost.                            *)

ToWorld(msg) == toWorld # <<>> /\ Head(toWorld).type = msg /\ toWorld' = Tail(toWorld)
Sent == Head(toWorld)
Send(messages) == toQueue' = toQueue \o messages

\* AddBattleGroundQueueId forgets an invitation.
Queued ==
    /\ ToWorld("Queued")
    /\ m_bgBattleGroundQueueID' = IF InWorld(Sent.player)
            THEN [m_bgBattleGroundQueueID EXCEPT ![Sent.player] = [in |-> TRUE, invitedToInstance |-> 0]]
            ELSE m_bgBattleGroundQueueID
    /\ UNCHANGED <<queue, toQueue, m_battleGrounds, online, away, bgInstanceID, m_events, joins>>

Invite ==
    /\ ToWorld("Invite")
    /\ LET p == Sent.player
       IN  IF InWorld(p)
           THEN /\ m_bgBattleGroundQueueID' = [m_bgBattleGroundQueueID EXCEPT
                       ![p].invitedToInstance = IF m_bgBattleGroundQueueID[p].in THEN Sent.instanceId ELSE @]
                /\ m_events' = [m_events EXCEPT ![p] = @ \union
                       {[instanceId |-> Sent.instanceId, removeInviteTime |-> Sent.removeInviteTime]}]
           ELSE UNCHANGED <<m_bgBattleGroundQueueID, m_events>>
    /\ UNCHANGED <<queue, toQueue, m_battleGrounds, online, away, bgInstanceID, joins>>

\* Fault: nothing is done for a battleground that is gone.
IsQueued_existing(p, i) == InWorld(p) /\ m_bgBattleGroundQueueID[p].in /\ Exists(i)

IsQueued(p, i) == InWorld(p) /\ m_bgBattleGroundQueueID[p].in

\* The first part of BgQueueRemoveEvent.
Timeout ==
    /\ ToWorld("Timeout")
    /\ LET p == Sent.player
           i == Sent.instanceId
       IN  Send(IF IsQueued(p, i)
                THEN <<[type |-> "Expired", player |-> p, instanceId |-> i, removeInviteTime |-> Sent.removeInviteTime,
                        running |-> Exists(i) /\ Status(i) # "wait_leave"]>>
                ELSE <<>>)
    /\ UNCHANGED <<queue, world>>

Left ==
    /\ ToWorld("Left")
    /\ m_bgBattleGroundQueueID' = IF InWorld(Sent.player) THEN [m_bgBattleGroundQueueID EXCEPT ![Sent.player] = NotQueued]
                                                         ELSE m_bgBattleGroundQueueID
    /\ UNCHANGED <<queue, toQueue, m_battleGrounds, online, away, bgInstanceID, m_events, joins>>

\* SetBattleGroundId and SendToBattleGround, which does nothing when the battleground is gone.
\* The player is in no battleground that RemovePlayerAtLeave could take him out of before:
\* with one type of battleground that is AcceptsOnce, below.
Enter ==
    /\ ToWorld("Enter")
    /\ LET p == Sent.player
           i == Sent.instanceId
       IN  IF InWorld(p)
           THEN /\ bgInstanceID' = [bgInstanceID EXCEPT ![p] = i]
                /\ away' = [away EXCEPT ![p] = IF Exists(i) THEN i ELSE @]
           ELSE UNCHANGED <<bgInstanceID, away>>
    /\ UNCHANGED <<queue, toQueue, m_battleGrounds, online, m_bgBattleGroundQueueID, m_events, joins>>

SetInvitedCount ==
    /\ ToWorld("SetInvitedCount")
    /\ m_battleGrounds' = IF Exists(Sent.instanceId)
            THEN [m_battleGrounds EXCEPT ![Sent.instanceId].invited[Sent.team] = Sent.count]
            ELSE m_battleGrounds
    /\ UNCHANGED <<queue, toQueue, player, joins>>

\* Fault: a new battleground knows that the queue has made an entry for it.
Reset_listed == [status |-> "wait_queue", invited |-> NoneInvited, players |-> {}, m_hasBgFreeSlotQueue |-> TRUE]

Reset == [status |-> "wait_queue", invited |-> NoneInvited, players |-> {}, m_hasBgFreeSlotQueue |-> FALSE]

StatusMessage(i, status) == [type |-> "SetStatus", instanceId |-> i, status |-> status]

\* CreateNewBattleGround.  The message of Reset's own SetStatus changes no entry.
Create ==
    /\ ToWorld("Create")
    /\ m_battleGrounds' = [i \in Created \union {Sent.instanceId} |->
            IF i = Sent.instanceId THEN [Reset EXCEPT !.status = "wait_join", !.invited = Sent.invited]
                                   ELSE m_battleGrounds[i]]
    /\ Send(<<StatusMessage(Sent.instanceId, "wait_join")>>)
    /\ UNCHANGED <<queue, player, joins>>

WorldMessage == Queued \/ Invite \/ Timeout \/ Left \/ Enter \/ SetInvitedCount \/ Create

-----------------------------------------------------------------------------
(* The world's thread: players.                                            *)

\* Fault: a player who is in the queue is not refused.
HandleBattlemasterJoin_again(p) ==
    /\ InWorld(p) /\ bgInstanceID[p] = 0
    /\ joins[p] < MaxJoins[p]
    /\ joins' = [joins EXCEPT ![p] = @ + 1]
    /\ Send(<<[type |-> "AddGroup", player |-> p, number |-> joins'[p]]>>)
    /\ UNCHANGED <<queue, m_battleGrounds, player, toWorld>>

HandleBattlemasterJoin(p) ==
    /\ InWorld(p) /\ bgInstanceID[p] = 0 /\ ~m_bgBattleGroundQueueID[p].in
    /\ joins[p] < MaxJoins[p]
    /\ joins' = [joins EXCEPT ![p] = @ + 1]
    /\ Send(<<[type |-> "AddGroup", player |-> p, number |-> joins'[p]]>>)
    /\ UNCHANGED <<queue, m_battleGrounds, player, toWorld>>

\* The first half of HandleBattlefieldPortOpcode: whether he is invited is for the queue to say.
HandleBattlefieldPort(p) ==
    /\ InWorld(p) /\ m_bgBattleGroundQueueID[p].in
    /\ \E enter \in BOOLEAN : Send(<<[type |-> "Port", player |-> p, enter |-> enter]>>)
    /\ UNCHANGED <<queue, world, toWorld>>

\* m_events of a player is updated with his map.
FireRemoveEvent(p) ==
    /\ InWorld(p)
    /\ \E event \in m_events[p] :
          /\ m_events' = [m_events EXCEPT ![p] = @ \ {event}]
          /\ toWorld' = Append(toWorld, [type |-> "Timeout", player |-> p, instanceId |-> event.instanceId,
                                         removeInviteTime |-> event.removeInviteTime])
    /\ UNCHANGED <<queue, toQueue, m_battleGrounds, online, away, bgInstanceID, m_bgBattleGroundQueueID, joins>>

TeleportFar(p) ==
    /\ p \in Travellers /\ InWorld(p) /\ ~Exists(bgInstanceID[p])
    /\ away' = [away EXCEPT ![p] = 0]
    /\ UNCHANGED <<queue, toQueue, m_battleGrounds, online, bgInstanceID, m_bgBattleGroundQueueID, m_events, joins, toWorld>>

\* HandleMoveWorldportAckOpcode.  Without the battleground the player is sent back where he was.
WorldportAck(p) ==
    /\ online[p] /\ away[p] # None
    /\ LET i == away[p]
       IN  IF i # 0 /\ ~Exists(i)
           THEN away' = [away EXCEPT ![p] = 0] /\ UNCHANGED <<bgInstanceID, m_battleGrounds>>
           ELSE /\ away' = [away EXCEPT ![p] = None]
                /\ bgInstanceID' = [bgInstanceID EXCEPT ![p] = IF i = 0 THEN 0 ELSE @]
                /\ m_battleGrounds' = IF i # 0 /\ m_bgBattleGroundQueueID[p].invitedToInstance = i
                                      THEN [m_battleGrounds EXCEPT ![i].players = @ \union {p}]
                                      ELSE m_battleGrounds
    /\ UNCHANGED <<queue, toQueue, online, m_bgBattleGroundQueueID, m_events, joins, toWorld>>

\* What a battleground tells the queue when a participant leaves it.
Fill(i, bg) == [instanceId |-> i, status |-> bg.status, invited |-> bg.invited, playersInside |-> Cardinality(bg.players)]

\* RemovePlayerAtLeave of p, a participant or not, online or not.
RemovePlayerAtLeave(p, i) ==
    LET old  == m_battleGrounds[i]
        left == [old EXCEPT !.players = @ \ {p}, !.invited[Team(p)] = Minus(@)]
        open == p \in old.players /\ old.status # "wait_leave"
    IN  /\ m_battleGrounds' = IF p \notin old.players THEN m_battleGrounds
                              ELSE [m_battleGrounds EXCEPT ![i] =
                                        [left EXCEPT !.m_hasBgFreeSlotQueue = @ \/ open]]
        /\ Send(CASE ~open -> <<>>
                  [] open /\ ~old.m_hasBgFreeSlotQueue ->
                        <<[type |-> "AddBgToFreeSlots", info |-> Fill(i, left)], [type |-> "ScheduleQueueUpdate"]>>
                  [] open /\ old.m_hasBgFreeSlotQueue ->
                        <<[type |-> "DecreaseInvitedCount", instanceId |-> i, team |-> Team(p)],
                          [type |-> "ScheduleQueueUpdate"]>>)
        /\ m_bgBattleGroundQueueID' = IF online[p] /\ p \in old.players
                                      THEN [m_bgBattleGroundQueueID EXCEPT ![p] = NotQueued]
                                      ELSE m_bgBattleGroundQueueID
        /\ bgInstanceID' = IF online[p] THEN [bgInstanceID EXCEPT ![p] = 0] ELSE bgInstanceID
        /\ away' = IF online[p] THEN [away EXCEPT ![p] = 0] ELSE away
        /\ UNCHANGED <<queue, toWorld, online, m_events, joins>>

HandleLeaveBattlefield(p) ==
    /\ InWorld(p) /\ Exists(bgInstanceID[p])
    /\ RemovePlayerAtLeave(p, bgInstanceID[p])

LogoutPlayer(p) ==
    /\ p \in Leavers /\ InWorld(p)
    /\ online' = [online EXCEPT ![p] = FALSE]
    /\ m_battleGrounds' = IF Exists(bgInstanceID[p])
                          THEN [m_battleGrounds EXCEPT ![bgInstanceID[p]].players = @ \union {p}]
                          ELSE m_battleGrounds
    /\ m_bgBattleGroundQueueID' = [m_bgBattleGroundQueueID EXCEPT ![p] = NotQueued]
    /\ m_events' = [m_events EXCEPT ![p] = {}]
    /\ Send(IF m_bgBattleGroundQueueID[p].in THEN <<[type |-> "LoggedOut", player |-> p]>> ELSE <<>>)
    /\ UNCHANGED <<queue, away, bgInstanceID, joins, toWorld>>

-----------------------------------------------------------------------------
(* The world's thread: battlegrounds, which are updated while someone is   *)
(* inside and deleted when nobody is or is expected.                       *)

StartBattle(i) ==
    /\ Exists(i) /\ Status(i) = "wait_join" /\ m_battleGrounds[i].players # {}
    /\ m_battleGrounds' = [m_battleGrounds EXCEPT ![i].status = "in_progress"]
    /\ Send(<<StatusMessage(i, "in_progress")>>)
    /\ UNCHANGED <<queue, player, joins, toWorld>>

RemovedFromBgFreeSlotQueue(i) ==
    IF m_battleGrounds[i].m_hasBgFreeSlotQueue
    THEN <<[type |-> "RemoveBgFromFreeSlots", instanceId |-> i]>> ELSE <<>>

EndBattleGround(i) ==
    /\ Exists(i) /\ Status(i) = "in_progress" /\ m_battleGrounds[i].players # {}
    /\ m_battleGrounds' = [m_battleGrounds EXCEPT ![i].status = "wait_leave", ![i].m_hasBgFreeSlotQueue = FALSE]
    /\ Send(RemovedFromBgFreeSlotQueue(i) \o <<StatusMessage(i, "wait_leave")>>)
    /\ UNCHANGED <<queue, player, joins, toWorld>>

\* Five minutes after a player went offline, or two after the end.
RemoveParticipant(p, i) ==
    /\ Exists(i) /\ p \in m_battleGrounds[i].players
    /\ ~online[p] \/ Status(i) = "wait_leave"
    /\ RemovePlayerAtLeave(p, i)

RemoveBattleGround(i) ==
    /\ Exists(i) /\ m_battleGrounds[i].players = {} /\ m_battleGrounds[i].invited = NoneInvited
    /\ m_battleGrounds' = [m_battleGrounds EXCEPT ![i] = [Reset EXCEPT !.status = "deleted"]]
    /\ Send(RemovedFromBgFreeSlotQueue(i))
    /\ UNCHANGED <<queue, player, joins, toWorld>>

Player(p) == /\ Len(toQueue) < MaxPending
             /\ \/ HandleBattlemasterJoin(p) \/ HandleBattlefieldPort(p) \/ HandleLeaveBattlefield(p)
                \/ LogoutPlayer(p) \/ TeleportFar(p)

BattleGround(i) == /\ Len(toQueue) < MaxPending
                   /\ \/ StartBattle(i) \/ EndBattleGround(i) \/ RemoveBattleGround(i)
                      \/ \E p \in Players : RemoveParticipant(p, i)

Next == \/ QueueMessage \/ QueueUpdate \/ WorldMessage
        \/ \E p \in Players : Player(p) \/ FireRemoveEvent(p) \/ WorldportAck(p)
        \/ \E i \in Created : BattleGround(i)

(* Both threads run for ever, and a player's own events run with his map.  *)
(* Nothing obliges a player to do anything.  Only an update clears the     *)
(* schedule: that is what fairness asks of it.                             *)
ClearsSchedule == Len(toWorld) <= MaxAhead /\ m_queueUpdateScheduler /\ m_queueUpdateScheduler' = FALSE
Fairness == /\ WF_vars(QueueMessage) /\ WF_m_queueUpdateScheduler(ClearsSchedule) /\ WF_vars(WorldMessage)
            /\ \A p \in Players : WF_vars(FireRemoveEvent(p))

Spec == Init /\ [][Next]_vars /\ Fairness

-----------------------------------------------------------------------------

(* Types, and what the pieces must agree on: a player in the queue has a   *)
(* group and is in it ("player can't be in queue without group, but just   *)
(* in case", BattleGroundQueue.cpp:371), the participants of a             *)
(* battleground are players who know it for theirs and are in no queue,    *)
(* and the snapshot an entry is made from is of a battleground with a      *)
(* place left, so that no entry is ever full.                              *)
BgQueueTypeOK ==
    /\ \A p \in Players : m_queuedPlayers[p] # None =>
          \E g \in ToSet(m_queuedGroups) : g.number = m_queuedPlayers[p] /\ g.player = p
    /\ \A k \in DOMAIN m_bgFreeSlotQueue :
          /\ m_bgFreeSlotQueue[k].playersInside < 2 * MaxPlayersPerTeam
          /\ \A t \in Teams : m_bgFreeSlotQueue[k].invited[t] \in 0..MaxCount
    /\ m_queueUpdateScheduler \in BOOLEAN
    /\ \A i \in Created : Exists(i) =>
          m_battleGrounds[i].players \subseteq {p \in Players : bgInstanceID[p] = i}
    /\ Created \subseteq 1..i_MaxInstanceId
    /\ \A p \in Players : /\ away[p] \in {None} \union 0..i_MaxInstanceId
                          /\ bgInstanceID[p] \in 0..i_MaxInstanceId
                          /\ m_queuedPlayers[p] # None => bgInstanceID[p] = 0

(* An invited player who enters finds the entry of his battleground,       *)
(* whatever became of the battleground meanwhile: HandleBattlefieldPort    *)
(* asserts it (BattleGroundHandler.cpp:488).                               *)
BgInQueue == \A p \in Players : IsInvited(p) => Entries(m_bgFreeSlotQueue, Group(p).invitedTo) # {}

(* Who accepts is sent to one battleground once, although a second request *)
(* of his may have been accepted before the first was answered: while he   *)
(* is on his way he is in no battleground, in no queue, and no second      *)
(* acceptance is under way (HandleBattlefieldPort, GetPlayerGroupInfoData  *)
(* at BattleGroundHandler.cpp:450 and GetBattleGround at :518).            *)
AcceptsOnce ==
    \A k \in DOMAIN toWorld : toWorld[k].type = "Enter" =>
        /\ m_queuedPlayers[toWorld[k].player] = None
        /\ bgInstanceID[toWorld[k].player] = 0
        /\ \A l \in DOMAIN toWorld :
              toWorld[l].type = "Enter" /\ toWorld[l].player = toWorld[k].player => k = l

(* The timer of an invitation ends that invitation and no other, for       *)
(* example not a later one to the same battleground (the five cases above  *)
(* BgQueueRemoveEvent::Execute): while the timer of the invitation a       *)
(* player has is still to run, no other timer takes him out of the queue.  *)
HasTimer(p) == \/ \E event \in m_events[p] : event.removeInviteTime = m_queuedPlayers[p]
               \/ \E k \in DOMAIN toWorld : toWorld[k].type \in {"Invite", "Timeout"}
                      /\ toWorld[k].player = p /\ toWorld[k].removeInviteTime = m_queuedPlayers[p]
ExpiresOwnInvitation ==
    [][\A p \in Players : Expired /\ m_queuedPlayers[p] # None /\ HasTimer(p) => m_queuedPlayers'[p] # None]_vars

(* An invitation does not last: a player who stays in the world is taken   *)
(* out of the queue when he does not answer (BgQueueRemoveEvent).          *)
InvitationEnds == \A p \in Players \ Travellers : IsInvited(p) ~> ~IsInvited(p) \/ ~online[p]

(* A deleted battleground leaves the queue: "Method that removes this      *)
(* battleground from free queue - it must be called when deleting          *)
(* battleground" (BattleGround.cpp:1549).  When the queue has executed     *)
(* what it was sent, no entry of a deleted battleground is left.           *)
NoGhost == toQueue = <<>> => \A k \in DOMAIN m_bgFreeSlotQueue :
               Status(m_bgFreeSlotQueue[k].instanceId) # "deleted"

(* Who accepts leaves the queue before he is in the battleground, and then *)
(* only the count of the entry holds his place (BattleGroundHandler.cpp:   *)
(* 491, RemovePlayer without decreaseInvitedCount).  Until somebody leaves *)
(* a battleground or it ends, each entry of it counts all who are invited, *)
(* on their way or inside, and no more than a team.                        *)
Fresh(i) == i \in Created => Status(i) \notin {"wait_leave", "deleted"} /\ ~m_battleGrounds[i].m_hasBgFreeSlotQueue
Guests(groups, i, t) == {g \in ToSet(groups) : g.invitedTo = i /\ Team(g.player) = t}
Accepted(i, t) == {p \in Players : /\ Team(p) = t
                                   /\ \/ bgInstanceID[p] = i
                                      \/ \E k \in DOMAIN toWorld : toWorld[k].type = "Enter"
                                            /\ toWorld[k].player = p /\ toWorld[k].instanceId = i}
PlacesCounted ==
    \A k \in DOMAIN m_bgFreeSlotQueue, t \in Teams :
        LET info == m_bgFreeSlotQueue[k]
        IN  Fresh(info.instanceId) =>
              /\ Cardinality(Guests(m_queuedGroups, info.instanceId, t)) + Cardinality(Accepted(info.instanceId, t))
                    <= info.invited[t]
              /\ info.invited[t] <= MaxPlayersPerTeam
=============================================================================
